----------------------------- MODULE MCBalances -----------------------------
(***************************************************************************)
(* Two instances in one run, and in each behaviour one of them moves: the  *)
(* opening balance of an account, and connections at a bank where eur and  *)
(* usd are currency accounts of one IBAN and giro has its own.  Either the *)
(* requests overlap and the sessions say the same of eur and usd each      *)
(* time; or requests come one after the other, nothing fails, and each     *)
(* session says what it likes.                                             *)
(***************************************************************************)
EXTENDS MCOpeningBalance, Connections, TLC

CONSTANTS eur, usd, giro, bank, hashed, shared, apart, r1, r2

VARIABLE part
mcVars == <<vars, connVars, part>>

MCBankOf == [a \in Real |-> bank]
MCHash == [a \in Real |-> IF a = eur THEN hashed ELSE Unknown]
MCIbanOf == [a \in Real |-> IF a = giro THEN apart ELSE shared]
MCCurrencyOf == [a \in Real |-> IF a = usd THEN "USD" ELSE "EUR"]
Full == {"hash", "iban", "currency"}
MCReveals == {Full, {"iban"}, {}}
Symmetry == Permutations(Requests)

\* The two ways in which connections are bounded.
Plain(e) == e.uid.real # giro /\ e.ids = Entry(e.uid.real, e.uid.flow, Full).ids
Alike == \A r \in Requests : \A e \in req[r].entries : Plain(e)
OneByOne == Cardinality({r \in Requests : req[r].at # "idle"}) <= 1

\* The opening balance, when it does not move, starts in one state.
MCInit ==
    /\ Init /\ ConnInit
    /\ part \in {"opening", "overlap", "renewals"}
    /\ part # "opening" => state = ""
    /\ part # "renewals" => Plain(accounts[1])

Bounded == IF part = "overlap" THEN Alike ELSE OneByOne /\ events = 0

OpeningPart == part = "opening" /\ UNCHANGED <<connVars, part>>
ConnectionsPart == part # "opening" /\ UNCHANGED <<vars, part>>

MCNext == \/ OpeningPart /\ Next
          \/ ConnectionsPart /\ ConnNext /\ Bounded'

MCSpec == MCInit /\ [][MCNext]_mcVars

\* The type invariants of the two: the claim of an opening balance, and rows,
\* flows and the settings between them, keep the form the store gives them.
TypesOK == TypeOK /\ ConnTypeOK
=============================================================================
