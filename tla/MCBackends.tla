----------------------------- MODULE MCBackends -----------------------------
(***************************************************************************)
(* The two backends in one run, and in each behaviour one of them moves:   *)
(* Actual's replica, the transactions of Firefly III or its accounts.      *)
(***************************************************************************)
EXTENDS ActualCommit, FireflyStore, FireflyAccounts

\* Two bank accounts may go by one name, and two share their IBAN; one name is
\* part of another.
MCSpecOf == <<
    [runName |-> "main", pageName |-> "main", iban |-> "x", currency |-> "EUR"],
    [runName |-> "main", pageName |-> "second", iban |-> "y", currency |-> "EUR"],
    [runName |-> "second", pageName |-> "second", iban |-> "x", currency |-> "USD"]>>
MCWithin(text, name) == text = name \/ (text = "main" /\ name = "old main")

VARIABLE part
mcVars == <<vars, fireflyVars, accountVars, part>>

MCInit == Init /\ FireflyInit /\ AccountsInit /\ part \in {"actual", "firefly", "accounts"}

ActualPart == part = "actual" /\ UNCHANGED <<fireflyVars, accountVars, part>>
FireflyPart == part = "firefly" /\ UNCHANGED <<vars, accountVars, part>>
AccountsPart == part = "accounts" /\ UNCHANGED <<vars, fireflyVars, part>>

MCNext == \/ ActualPart /\ Next
          \/ FireflyPart /\ FireflyNext
          \/ AccountsPart /\ AccountsNext

MCSpec == MCInit /\ [][MCNext]_mcVars

\* The type invariants of the three: rows, groups and accounts keep the form
\* the stores, the requests and the server give them.
TypesOK == TypeOK /\ FireflyTypeOK /\ AccountsTypeOK
=============================================================================
