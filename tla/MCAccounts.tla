----------------------------- MODULE MCAccounts -----------------------------
(***************************************************************************)
(* Two instances in one run, and in each behaviour one of them moves: the  *)
(* import of two accounts that share the daily limit, and connections with *)
(* one request at a time.  At bank A eur and usd are the currency accounts *)
(* of one IBAN, and bank A has no hashes; bank B has.                      *)
(***************************************************************************)
EXTENDS MCImportRun, Connections

CONSTANTS eur, usd, other, bankA, bankB, hashed, shared, apart, r1

VARIABLE part
mcVars == <<vars, connVars, part>>

MCBankOf == [a \in Real |-> IF a = other THEN bankB ELSE bankA]
MCHash == [a \in Real |-> IF a = other THEN hashed ELSE Unknown]
MCIbanOf == [a \in Real |-> IF a = other THEN apart ELSE shared]
MCCurrencyOf == [a \in Real |-> IF a = usd THEN "USD" ELSE "EUR"]
MCReveals == {{"hash", "iban", "currency"}, {}}

MCInit ==
    /\ Init /\ ConnInit
    /\ part \in {"import", "connections"}
    /\ part = "import" => Given(accounts[1].ids.iban)

ImportPart == part = "import" /\ UNCHANGED <<connVars, part>>
ConnectionsPart == part = "connections" /\ UNCHANGED <<vars, part>>

MCNext == \/ ImportPart /\ Next
          \/ ConnectionsPart /\ ConnNext

MCFairness == /\ WF_mcVars(ImportPart /\ (RunStep \/ FaultStep))
              /\ WF_mcVars(ConnectionsPart /\ SyncStep)

MCSpec == MCInit /\ [][MCNext]_mcVars /\ MCFairness
=============================================================================
