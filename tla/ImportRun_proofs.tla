--------------------------- MODULE ImportRun_proofs ---------------------------
(***************************************************************************)
(* Theorems about ImportRun, for every value of its constants: its type    *)
(* invariant; that no watermark passes a booking that is owed as long as a *)
(* run does not see midnight; and, for any number of faults, that no       *)
(* payment gets a second row, and that references, entries and held keys   *)
(* agree with the rows.                                                    *)
(***************************************************************************)
EXTENDS ImportRun, TLAPS

-----------------------------------------------------------------------------
(* The inductive invariant, part by part.                                  *)

\* What the bank lists carries a day that has come.
DatesKnown ==
    \A p \in Payments :
        /\ authDay[p] <= today /\ bookDay[p] <= today
        /\ bank[p] = "booked" => authDay[p] <= bookDay[p]

\* An account connected with a start date keeps a watermark of its own: the
\* start date is cleared only after the sync date was stamped.
Started == \A a \in Accounts : ConnectedFrom[a] # 0 => start[a] # 0 \/ last[a] # 0

\* Between runs nothing is left of one.
Rested == pc = "idle" => synced = {} /\ backfilled = {} /\ feed = NoFeed

\* Outside an account's import the locals of its loop are gone.
LoopFree == pc \in {"idle", "accounts", "stamp", "clear", "global"} =>
                /\ acct = NoAccount
                /\ todo = {} /\ work = {} /\ resume = 0
                /\ ~interrupted /\ ~writeFailed

\* The accounts the run will stamp owe only what was booked today.
SyncedClean ==
    /\ backfilled \subseteq synced
    /\ \A p \in Payments :
         Owed(p) /\ AccountOf[p] \in synced => bookDay[p] = today
    /\ pc = "clear" => \A a \in synced : last[a] = today

\* The feed is a snapshot of this run, and what waits in the loop is in it.
FeedSnapshot ==
    /\ \A p \in Payments : feed[p] = "pending" /\ bank[p] = "booked" =>
                               bookDay[p] = today
    /\ \A p \in todo \cup work : bank[p] # "none" /\ feed[p] \in {"pending", "booked"}

\* The loop goes through the feed by date: what is queued comes before what is
\* still to do, and neither lies before the resume point.
InOrder ==
    /\ resume <= today
    /\ \A p \in work, q \in todo : authDay[p] <= authDay[q]
    /\ \A p \in todo \cup work : resume <= authDay[p]

\* A run that was cut short has no time left, and cannot be between the two
\* halves of a confirmation.
CutExpired ==
    /\ interrupted => expired /\ pc # "confirm"
    /\ pc = "settle" /\ (\E p \in work : out[p] = "none") => expired

\* While no write has failed, everything owed by the account in hand is still
\* in the loop, or of today, or was cut off behind everything still queued.
Covered(p) ==
    \/ p \in todo \cup work
    \/ bookDay[p] = today
    \/ interrupted /\ \A w \in work : authDay[w] <= authDay[p]
NothingDropped ==
    ~writeFailed => \A p \in Payments :
        Owed(p) /\ AccountOf[p] = acct => Covered(p) /\ resume <= bookDay[p]

\* The watermark of its own that Started speaks of.
MarkKept ==
    \A p \in Payments :
        Owed(p) => LET a == AccountOf[p]
                   IN bookDay[p] >= IF start[a] # 0 THEN start[a] ELSE last[a]

\* No stored date lies ahead, the start date a person chose apart.
MarksPast ==
    \A a \in Accounts :
        last[a] <= today /\ (start[a] <= today \/ start[a] = ConnectedFrom[a])

GapInv ==
    /\ DatesKnown /\ Started /\ Rested /\ LoopFree /\ SyncedClean
    /\ FeedSnapshot /\ InOrder /\ CutExpired /\ NothingDropped /\ MarkKept /\ MarksPast

-----------------------------------------------------------------------------
(* Type correctness.                                                       *)

\* Between Fetch and the end of its loop an account is in hand; without that
\* what FinishAccount adds to synced need not be an account.
InHand == pc \in {"import", "confirm", "place", "settle"} => acct \in Accounts
TypeInv == TypeOK /\ InHand

\* The initial state is well typed.
LEMMA TypeInit == Init => TypeInv
<1> SUFFICES ASSUME Init PROVE TypeInv
  OBVIOUS
<1> USE ConstantsAssumption DEF Init
<1>1. today \in Days /\ globalLast \in Dates /\ resume \in Dates
  BY DEF Days, Dates
<1>2. /\ bank \in [Payments -> BankStates] /\ feed \in [Payments -> BankStates]
      /\ row \in [Payments -> RowStates] /\ out \in [Payments -> Outcomes]
      /\ copies \in [Payments -> Nat]
  BY DEF BankStates, RowStates, Outcomes, NoFeed, NoOutcome
<1>3. authDay \in [Payments -> Dates] /\ bookDay \in [Payments -> Dates]
  BY DEF Dates
<1>4. start \in [Accounts -> Dates] /\ last \in [Accounts -> Dates]
  BY DEF Dates
<1> QED
  BY <1>1, <1>2, <1>3, <1>4 DEF TypeInv, TypeOK, InHand, Controls

\* The locals of an account's loop go out of scope well typed.
LEMMA EndAccountTypes ==
    EndAccount =>
        /\ acct' \in Accounts \cup {NoAccount}
        /\ feed' \in [Payments -> BankStates]
        /\ todo' \subseteq Payments /\ work' \subseteq Payments
        /\ out' \in [Payments -> Outcomes]
        /\ resume' \in Dates
        /\ interrupted' \in BOOLEAN /\ writeFailed' \in BOOLEAN
<1> SUFFICES ASSUME EndAccount
             PROVE  /\ acct' \in Accounts \cup {NoAccount}
                    /\ feed' \in [Payments -> BankStates]
                    /\ todo' \subseteq Payments /\ work' \subseteq Payments
                    /\ out' \in [Payments -> Outcomes]
                    /\ resume' \in Dates
                    /\ interrupted' \in BOOLEAN /\ writeFailed' \in BOOLEAN
  OBVIOUS
<1>1. feed' \in [Payments -> BankStates]
  BY DEF EndAccount, NoFeed, BankStates
<1>2. out' \in [Payments -> Outcomes]
  BY DEF EndAccount, NoOutcome, Outcomes
<1>3. resume' \in Dates
  BY ConstantsAssumption DEF EndAccount, Dates
<1> QED
  BY <1>1, <1>2, <1>3 DEF EndAccount

\* So do those of a run.
LEMMA EndRunTypes ==
    EndRun =>
        /\ pc' = "idle" /\ pc' \in Controls
        /\ queue' \subseteq Accounts /\ synced' \subseteq Accounts
        /\ backfilled' \subseteq Accounts /\ fetchFailed' \subseteq Accounts
        /\ expired' \in BOOLEAN
        /\ EndAccount
  BY DEF EndRun, Controls

\* The end of an account's loop, its three outcomes.
LEMMA FinishTypes == TypeInv /\ FinishAccount => TypeInv'
<1> SUFFICES ASSUME TypeInv, FinishAccount PROVE TypeInv'
  OBVIOUS
<1>1. start' \in [Accounts -> Dates]
  BY DEF TypeInv, TypeOK, FinishAccount, Dates
<1>2. synced' \subseteq Accounts /\ backfilled' \subseteq Accounts
  <2>1. CASE UNCHANGED <<synced, backfilled>>
    BY <2>1 DEF TypeInv, TypeOK
  <2>2. CASE MarkSynced(acct)
    BY <2>2 DEF TypeInv, TypeOK, InHand, MarkSynced, FinishAccount
  <2> QED
    BY <2>1, <2>2 DEF FinishAccount
<1> QED
  BY <1>1, <1>2, EndAccountTypes
  DEF TypeInv, TypeOK, InHand, FinishAccount, Controls, bankVars, books, rows, tally

\* Every step of the bank, the run and its faults keeps the types.
LEMMA TypeStep == TypeInv /\ [Next]_vars => TypeInv'
<1> SUFFICES ASSUME TypeInv, [Next]_vars PROVE TypeInv'
  OBVIOUS
<1> USE ConstantsAssumption
    DEF TypeInv, TypeOK, InHand, Days, Dates, BankStates, RowStates, Outcomes, Controls,
        vars, bankVars, marks, books, rows, runVars, acctVars, tally
<1>1. ASSUME NEW p \in Payments, BankAuthorises(p) PROVE TypeInv'
  BY <1>1 DEF BankAuthorises
<1>2. ASSUME NEW p \in Payments, BankBooks(p) PROVE TypeInv'
  BY <1>2 DEF BankBooks
<1>3. ASSUME NEW p \in Payments, BankWithdraws(p) PROVE TypeInv'
  BY <1>3 DEF BankWithdraws
<1>4. ASSUME NEW p \in Payments, UserDeletesRow(p) PROVE TypeInv'
  BY <1>4 DEF UserDeletesRow
<1>5. CASE Tick
  BY <1>5 DEF Tick
<1>6. CASE BeginRun
  BY <1>6 DEF BeginRun
<1>7. CASE ConnectFails
  BY <1>7, EndRunTypes, EndAccountTypes DEF ConnectFails, Fault
<1>8. ASSUME NEW a \in Accounts, FetchFails(a) PROVE TypeInv'
  BY <1>8 DEF FetchFails, Fault
<1>9. ASSUME NEW a \in Accounts, AccountUnavailable(a) PROVE TypeInv'
  BY <1>9 DEF AccountUnavailable, Fault
<1>10. ASSUME NEW a \in Accounts, Fetch(a) PROVE TypeInv'
  BY <1>10 DEF Fetch, Listed, Withdrawn
<1>11. CASE Deadline
  BY <1>11 DEF Deadline, Fault
<1>12. CASE Crash
  BY <1>12, EndRunTypes, EndAccountTypes DEF Crash, Fault
<1>13. ASSUME NEW p \in Payments, SkipItem(p) PROVE TypeInv'
  BY <1>13 DEF SkipItem, AtItem
<1>14. ASSUME NEW p \in Payments, SeenItem(p) PROVE TypeInv'
  BY <1>14 DEF SeenItem, Advance, AtItem
<1>15. ASSUME NEW p \in Payments, QueueItem(p) PROVE TypeInv'
  BY <1>15 DEF QueueItem, AtItem, IsFirst
<1>16. ASSUME NEW p \in Payments, ConfirmRow(p) PROVE TypeInv'
  BY <1>16 DEF ConfirmRow, AtItem
<1>17. ASSUME NEW p \in Payments, ConfirmFails(p) PROVE TypeInv'
  BY <1>17 DEF ConfirmFails, AtItem, Fault
<1>18. ASSUME NEW p \in Payments, ConfirmBooks(p) PROVE TypeInv'
  BY <1>18 DEF ConfirmBooks, Advance
<1>19. ASSUME NEW p \in Payments, CrashConsumed(p) PROVE TypeInv'
  BY <1>19, EndRunTypes, EndAccountTypes DEF CrashConsumed, Fault
<1>20. CASE CutLoop
  BY <1>20 DEF CutLoop
<1>21. CASE Flush
  BY <1>21 DEF Flush
<1>22. ASSUME NEW p \in Payments, PlaceKnown(p) PROVE TypeInv'
  BY <1>22 DEF PlaceKnown, Known, Unplaced, Written
<1>23. ASSUME NEW p \in Payments, PlaceNew(p) PROVE TypeInv'
  BY <1>23 DEF PlaceNew, IsFirst, Unplaced, Written
<1>24. CASE PlaceFails
  BY <1>24 DEF PlaceFails, Fault, NoOutcome
<1>25. ASSUME NEW p \in Payments, PlaceAnswerLost(p) PROVE TypeInv'
  BY <1>25 DEF PlaceAnswerLost, Fault, NoOutcome, IsFirst, Unplaced, Written
<1>26. CASE PlacingEnds
  BY <1>26 DEF PlacingEnds
<1>27. ASSUME NEW p \in Payments, SettleItem(p) PROVE TypeInv'
  BY <1>27 DEF SettleItem, AfterSettle, IsFirst
<1>28. ASSUME NEW p \in Payments, HoldItem(p) PROVE TypeInv'
  BY <1>28 DEF HoldItem, AfterSettle, IsFirst
<1>29. ASSUME NEW p \in Payments, HoldItemFails(p) PROVE TypeInv'
  BY <1>29 DEF HoldItemFails, AfterSettle, Fault, IsFirst
<1>30. ASSUME NEW p \in Payments, SettleCut(p) PROVE TypeInv'
  BY <1>30 DEF SettleCut, NoOutcome
<1>31. CASE FinishAccount
  BY <1>31, FinishTypes
<1>32. CASE AllFetchesFailed
  BY <1>32, EndRunTypes, EndAccountTypes DEF AllFetchesFailed
<1>33. CASE Committed
  BY <1>33 DEF Committed
<1>34. CASE CommitFails
  BY <1>34, EndRunTypes, EndAccountTypes DEF CommitFails, Fault
<1>35. CASE StampSynced
  BY <1>35 DEF StampSynced
<1>36. CASE ClearBackfilled
  BY <1>36 DEF ClearBackfilled
<1>37. CASE StampGlobal
  BY <1>37, EndRunTypes, EndAccountTypes DEF StampGlobal
<1>38. CASE UNCHANGED vars
  BY <1>38
<1> QED
  BY <1>1, <1>2, <1>3, <1>4, <1>5, <1>6, <1>7, <1>8, <1>9, <1>10, <1>11, <1>12,
     <1>13, <1>14, <1>15, <1>16, <1>17, <1>18, <1>19, <1>20, <1>21, <1>22, <1>23,
     <1>24, <1>25, <1>26, <1>27, <1>28, <1>29, <1>30, <1>31, <1>32, <1>33, <1>34,
     <1>35, <1>36, <1>37, <1>38
  DEF Next, BankStep, RunStep, AccountStep, ItemStep, BatchStep, FaultStep

\* In every behaviour, under any failures, every variable has its type.
THEOREM TypeCorrect == Spec => []TypeOK
<1>1. Spec => []TypeInv
  BY TypeInit, TypeStep, PTL DEF Spec
<1>2. TypeInv => TypeOK
  BY DEF TypeInv
<1> QED
  BY <1>1, <1>2, PTL

-----------------------------------------------------------------------------
(* No watermark passes a booking that is owed.                             *)

\* What all lemmas about single steps start from.
Before == TypeInv /\ TypeInv' /\ GapInv

\* A new booking is of today, and never moves a transaction already listed.
LEMMA GapBankBooks ==
  ASSUME Before, NEW r \in Payments, BankBooks(r)
  PROVE  GapInv'
<1> USE DEF Before, BankBooks, TypeInv, TypeOK, Days, Dates
<1>1. /\ \A p \in Payments : bookDay'[p] = IF p = r THEN today ELSE bookDay[p]
      /\ \A p \in Payments \ {r} : authDay'[p] = authDay[p] /\ bank'[p] = bank[p]
      /\ authDay'[r] <= today /\ (bank[r] # "none" => authDay'[r] = authDay[r])
      /\ bank'[r] = "booked" /\ bank[r] \in {"none", "pending"}
  BY DEF GapInv, DatesKnown
<1>2. UNCHANGED <<today, marks, books, rows, pc, runVars, acctVars, tally>>
  OBVIOUS
<1> USE DEF marks, books, rows, runVars, acctVars, tally
<1>3. \A p \in Payments : Owed(p)' => Owed(p) \/ bookDay'[p] = today
  BY <1>1, <1>2 DEF Owed
<1> HIDE DEF BankBooks
<1>4. DatesKnown'
  BY <1>1, <1>2 DEF GapInv, DatesKnown
<1>5. Started' /\ Rested' /\ LoopFree' /\ CutExpired'
  BY <1>2 DEF GapInv, Started, Rested, LoopFree, CutExpired, NoFeed
<1>6. SyncedClean'
  BY <1>1, <1>2, <1>3 DEF GapInv, SyncedClean
<1>7. FeedSnapshot'
  BY <1>1, <1>2 DEF GapInv, FeedSnapshot
<1>8. InOrder'
  BY <1>1, <1>2 DEF GapInv, InOrder, FeedSnapshot
<1>9. NothingDropped'
  <2> SUFFICES ASSUME ~writeFailed', NEW p \in Payments, Owed(p)', AccountOf[p] = acct'
               PROVE  Covered(p)' /\ resume' <= bookDay'[p]
    BY DEF NothingDropped
  <2>1. CASE Owed(p) /\ p # r
    <3>1. Covered(p) /\ resume <= bookDay[p]
      BY <1>2, <2>1 DEF GapInv, NothingDropped
    <3>2. Covered(p)'
      <4>1. \A w \in work : authDay'[w] = authDay[w]
        BY <1>1 DEF GapInv, FeedSnapshot
      <4> QED
        BY <1>1, <1>2, <2>1, <3>1, <4>1 DEF Covered
    <3> QED
      BY <1>1, <1>2, <2>1, <3>1, <3>2
  <2>2. CASE bookDay'[p] = today
    BY <1>2, <2>2 DEF Covered, GapInv, InOrder
  <2> QED
    BY <1>1, <1>3, <2>1, <2>2
<1>10. MarkKept'
  <2> SUFFICES ASSUME NEW p \in Payments, Owed(p)'
               PROVE  bookDay'[p] >= IF start[AccountOf[p]] # 0
                                     THEN start[AccountOf[p]] ELSE last[AccountOf[p]]
    BY <1>2 DEF MarkKept
  <2> DEFINE a == AccountOf[p]
  <2>1. a \in Accounts /\ start[a] \in Dates /\ last[a] \in Dates
    BY ConstantsAssumption DEF ConstantsAssumption
  <2>2. CASE Owed(p) /\ p # r
    BY <1>1, <2>1, <2>2 DEF GapInv, MarkKept
  <2>3. CASE bookDay'[p] = today
    <3>1. bookDay'[p] >= ConnectedFrom[a]
      BY DEF Owed
    <3>2. last[a] <= today /\ (start[a] <= today \/ start[a] = ConnectedFrom[a])
      BY <2>1 DEF GapInv, MarksPast
    <3> QED
      BY <2>1, <2>3, <3>1, <3>2
  <2> QED
    BY <1>1, <1>3, <2>2, <2>3
<1>11. MarksPast'
  BY <1>2 DEF GapInv, MarksPast
<1> QED
  BY <1>4, <1>5, <1>6, <1>7, <1>8, <1>9, <1>10, <1>11 DEF GapInv

\* Midnight passes between runs only.
LEMMA GapTick ==
  ASSUME Before, Tick, ~TickDuringRun
  PROVE  GapInv'
<1> USE DEF Before, Tick, TypeInv, TypeOK, Days, Dates
<1>1. /\ pc = "idle" /\ today' = today + 1
      /\ UNCHANGED <<bank, authDay, bookDay, marks, books, rows, pc, runVars, acctVars,
                     tally>>
  OBVIOUS
<1> USE DEF marks, books, rows, runVars, acctVars, tally
<1>2. synced = {} /\ backfilled = {} /\ feed = NoFeed /\ acct = NoAccount
      /\ todo = {} /\ work = {} /\ resume = 0 /\ ~interrupted
  BY <1>1 DEF GapInv, Rested, LoopFree
<1>3. \A p \in Payments : Owed(p)' <=> Owed(p)
  BY <1>1 DEF Owed
<1>4. DatesKnown'
  BY <1>1 DEF GapInv, DatesKnown
<1>5. Started' /\ Rested' /\ LoopFree' /\ CutExpired'
  BY <1>1 DEF GapInv, Started, Rested, LoopFree, CutExpired, NoFeed
<1>6. SyncedClean' /\ InOrder'
  BY <1>1, <1>2 DEF SyncedClean, InOrder
<1>7. FeedSnapshot'
  BY <1>1, <1>2 DEF FeedSnapshot, NoFeed
<1>8. NothingDropped'
  BY <1>1, <1>2, ConstantsAssumption DEF NothingDropped
<1>9. MarkKept' /\ MarksPast'
  BY <1>1, <1>3 DEF GapInv, MarkKept, MarksPast
<1> QED
  BY <1>4, <1>5, <1>6, <1>7, <1>8, <1>9 DEF GapInv

\* However a run ends, what it leaves is what is stored.
LEMMA GapEndRun ==
  ASSUME Before, EndRun,
         UNCHANGED <<bankVars, start, last, imported, held, refused>>
  PROVE  GapInv'
<1> USE DEF Before, bankVars
<1>1. /\ pc' = "idle" /\ synced' = {} /\ backfilled' = {} /\ feed' = NoFeed
      /\ acct' = NoAccount /\ todo' = {} /\ work' = {} /\ resume' = 0
      /\ ~interrupted' /\ ~writeFailed'
  BY DEF EndRun, EndAccount
<1>2. \A p \in Payments : Owed(p)' <=> Owed(p)
  BY DEF Owed
<1>3. DatesKnown' /\ Started'
  BY DEF GapInv, DatesKnown, Started
<1>4. Rested'
  BY <1>1 DEF Rested, NoFeed
<1>5. LoopFree' /\ SyncedClean' /\ CutExpired'
  BY <1>1 DEF LoopFree, SyncedClean, CutExpired
<1>6. FeedSnapshot'
  BY <1>1 DEF FeedSnapshot, NoFeed
<1>7. InOrder'
  BY <1>1 DEF InOrder, TypeInv, TypeOK, Days
<1>8. NothingDropped'
  BY <1>1, ConstantsAssumption DEF NothingDropped, ConstantsAssumption
<1>9. MarkKept' /\ MarksPast'
  BY <1>2 DEF GapInv, MarkKept, MarksPast
<1> QED
  BY <1>3, <1>4, <1>5, <1>6, <1>7, <1>8, <1>9 DEF GapInv

\* The feed reaches back to the watermark, so it brings everything owed.
LEMMA GapFetch ==
  ASSUME Before, NEW b \in Accounts, Fetch(b)
  PROVE  GapInv'
<1> USE DEF Before, TypeInv, TypeOK
<1>1. /\ pc = "accounts" /\ pc' = "import" /\ acct' = b
      /\ feed' = [p \in Payments |-> IF p \in Listed(b) THEN bank[p] ELSE "none"]
      /\ todo' = {p \in Listed(b) : bank[p] # "withdrawn"}
      /\ UNCHANGED <<bankVars, marks, imported, held, synced, backfilled, expired, work,
                     resume, interrupted, writeFailed, refused>>
  BY DEF Fetch, Withdrawn, tally
<1>2. work = {} /\ resume = 0 /\ ~interrupted
  BY <1>1 DEF GapInv, LoopFree
<1> USE DEF bankVars, marks
<1>3. \A p \in Payments : Owed(p)' <=> Owed(p)
  BY <1>1 DEF Owed
<1>4. \A p \in Payments : Owed(p) /\ AccountOf[p] = b => p \in todo'
  <2> SUFFICES ASSUME NEW p \in Payments, Owed(p), AccountOf[p] = b
               PROVE  p \in Listed(b) /\ bank[p] = "booked"
    BY <1>1
  <2>1. bookDay[p] >= Watermark(b)
    BY DEF GapInv, MarkKept, Started, Watermark, Owed
  <2> QED
    BY <2>1 DEF Listed, Reached, Reach, Owed
<1>5. DatesKnown' /\ Started' /\ Rested' /\ LoopFree' /\ SyncedClean' /\ MarkKept'
      /\ MarksPast'
  BY <1>1, <1>3
  DEF GapInv, DatesKnown, Started, Rested, LoopFree, SyncedClean, MarkKept, MarksPast
<1>6. FeedSnapshot'
  <2>1. \A p \in Payments : feed'[p] = "pending" => bank'[p] = "pending"
    BY <1>1
  <2>2. \A p \in todo' : bank'[p] # "none" /\ feed'[p] \in {"pending", "booked"}
    BY <1>1 DEF Listed, BankStates
  <2> QED
    BY <1>1, <1>2, <2>1, <2>2 DEF FeedSnapshot
<1>7. InOrder' /\ CutExpired'
  BY <1>1, <1>2 DEF InOrder, CutExpired, Days, Dates
<1>8. NothingDropped'
  BY <1>1, <1>2, <1>3, <1>4 DEF NothingDropped, Covered, Dates
<1> QED
  BY <1>5, <1>6, <1>7, <1>8 DEF GapInv

\* The next transaction joins the batch behind those already in it.
LEMMA GapQueueItem ==
  ASSUME Before, NEW r \in Payments, QueueItem(r)
  PROVE  GapInv'
<1> USE DEF Before, TypeInv, TypeOK
<1>1. /\ pc = "import" /\ ~expired /\ r \in todo
      /\ \A q \in todo : authDay[r] <= authDay[q]
  BY DEF QueueItem, AtItem, IsFirst, Precedes, Dates
<1>2. /\ todo' = todo \ {r} /\ work' = work \cup {r}
      /\ UNCHANGED <<bankVars, marks, books, rows, pc, runVars, feed, out, resume,
                     interrupted, writeFailed, tally>>
  BY DEF QueueItem
<1> USE DEF bankVars, marks, books, runVars, tally
<1>3. \A p \in Payments : Owed(p)' <=> Owed(p)
  BY <1>2 DEF Owed
<1>4. DatesKnown' /\ Started' /\ Rested' /\ LoopFree' /\ SyncedClean' /\ MarkKept'
      /\ MarksPast'
  BY <1>1, <1>2, <1>3
  DEF GapInv, DatesKnown, Started, Rested, LoopFree, SyncedClean, MarkKept, MarksPast
<1>5. FeedSnapshot' /\ InOrder'
  BY <1>1, <1>2 DEF GapInv, FeedSnapshot, InOrder
<1>6. CutExpired' /\ ~interrupted
  BY <1>1, <1>2 DEF GapInv, CutExpired
<1>7. NothingDropped'
  BY <1>1, <1>2, <1>3, <1>6 DEF GapInv, NothingDropped, Covered
<1> QED
  BY <1>4, <1>5, <1>6, <1>7 DEF GapInv

\* A batch is settled when all of it was placed, or no time is left.
LEMMA GapPlacingEnds ==
  ASSUME Before, PlacingEnds
  PROVE  GapInv'
<1> USE DEF Before, TypeInv, TypeOK, PlacingEnds
<1>1. CutExpired'
  BY DEF GapInv, CutExpired, Unplaced, runVars, acctVars
<1>2. \A p \in Payments : Owed(p)' <=> Owed(p)
  BY DEF Owed, bankVars, books, tally
<1> QED
  BY <1>1, <1>2
  DEF GapInv, DatesKnown, Started, Rested, LoopFree, SyncedClean, FeedSnapshot, InOrder,
      NothingDropped, MarkKept, MarksPast, Covered, bankVars, marks, books, rows, runVars,
      acctVars, tally

\* The watermark switch: synced with nothing left over, or resumed no later
\* than what was cut off.
LEMMA GapFinishAccount ==
  ASSUME Before, FinishAccount
  PROVE  GapInv'
<1> USE DEF Before, TypeInv, TypeOK
<1>1. /\ pc = "import" /\ todo = {} /\ work = {} /\ pc' = "accounts"
      /\ acct \in Accounts
  BY DEF FinishAccount, InHand
<1>2. /\ UNCHANGED <<bankVars, last, globalLast, books, rows, tally>>
      /\ acct' = NoAccount /\ feed' = NoFeed /\ todo' = {} /\ work' = {}
      /\ resume' = 0 /\ ~interrupted' /\ ~writeFailed'
  BY DEF FinishAccount, EndAccount
<1> USE DEF bankVars, books, tally
<1>3. \A p \in Payments : Owed(p)' <=> Owed(p)
  BY <1>2 DEF Owed
<1>4. DatesKnown' /\ Rested' /\ LoopFree' /\ CutExpired'
  BY <1>1, <1>2 DEF GapInv, DatesKnown, Rested, LoopFree, CutExpired
<1>5. FeedSnapshot' /\ InOrder'
  BY <1>2 DEF FeedSnapshot, InOrder, NoFeed, Days
<1>6. NothingDropped'
  BY <1>1, <1>2, ConstantsAssumption DEF NothingDropped, ConstantsAssumption
<1>7. CASE UNCHANGED <<start, synced, backfilled>>
  BY <1>1, <1>2, <1>3, <1>4, <1>5, <1>6, <1>7
  DEF GapInv, Started, SyncedClean, MarkKept, MarksPast
<1>8. CASE /\ ~writeFailed /\ interrupted /\ resume # 0
           /\ start' = [start EXCEPT ![acct] = resume]
           /\ UNCHANGED <<synced, backfilled>>
  <2>1. Started' /\ MarksPast'
    BY <1>1, <1>2, <1>8 DEF GapInv, Started, MarksPast, InOrder
  <2>2. SyncedClean'
    BY <1>1, <1>2, <1>3, <1>8 DEF GapInv, SyncedClean
  <2>3. MarkKept'
    <3> SUFFICES ASSUME NEW p \in Payments, Owed(p)
                 PROVE  bookDay[p] >= IF start'[AccountOf[p]] # 0
                                      THEN start'[AccountOf[p]]
                                      ELSE last[AccountOf[p]]
      BY <1>2, <1>3 DEF MarkKept
    <3>1. CASE AccountOf[p] = acct
      <4>1. resume <= bookDay[p]
        BY <1>8, <3>1 DEF GapInv, NothingDropped
      <4> QED
        BY <1>1, <1>8, <3>1, <4>1 DEF Dates
    <3>2. CASE AccountOf[p] # acct
      BY <1>1, <1>8, <3>2, ConstantsAssumption
      DEF GapInv, MarkKept, ConstantsAssumption
    <3> QED
      BY <3>1, <3>2
  <2> QED
    BY <1>4, <1>5, <1>6, <2>1, <2>2, <2>3 DEF GapInv
<1>9. CASE ~writeFailed /\ ~interrupted /\ MarkSynced(acct) /\ UNCHANGED start
  <2>1. Started' /\ MarkKept' /\ MarksPast'
    BY <1>2, <1>3, <1>9 DEF GapInv, Started, MarkKept, MarksPast
  <2>2. \A p \in Payments : Owed(p) /\ AccountOf[p] = acct => bookDay[p] = today
    BY <1>1, <1>9 DEF GapInv, NothingDropped, Covered
  <2>3. SyncedClean'
    BY <1>1, <1>2, <1>3, <1>9, <2>2 DEF GapInv, SyncedClean, MarkSynced
  <2> QED
    BY <1>4, <1>5, <1>6, <2>1, <2>3 DEF GapInv
<1> QED
  BY <1>1, <1>7, <1>8, <1>9 DEF FinishAccount

\* What every step within an account's loop leaves alone: the bank, the marks
\* and the feed, while bookings only cease to be owed and nothing new enters
\* the loop.
Within ==
    /\ UNCHANGED <<bankVars, marks, synced, backfilled, feed, acct>>
    /\ pc \in {"import", "confirm", "place", "settle"}
    /\ pc' \in {"import", "confirm", "place", "settle"}
    /\ todo' \subseteq todo /\ work' \subseteq work
    /\ imported \subseteq imported' /\ held \subseteq held' /\ refused \subseteq refused'

\* Inside a run no payment becomes owed.
LEMMA GapWithin ==
  ASSUME Before, Within
  PROVE  /\ \A p \in Payments : Owed(p)' => Owed(p)
         /\ DatesKnown' /\ Started' /\ Rested' /\ LoopFree' /\ SyncedClean'
         /\ FeedSnapshot' /\ MarkKept' /\ MarksPast'
<1> USE DEF Before, Within, bankVars, marks
<1>1. \A p \in Payments : Owed(p)' => Owed(p)
  BY DEF Owed
<1>2. DatesKnown' /\ Started' /\ MarksPast'
  BY DEF GapInv, DatesKnown, Started, MarksPast
<1>3. Rested' /\ LoopFree'
  BY DEF Rested, LoopFree
<1>4. SyncedClean'
  BY <1>1 DEF GapInv, SyncedClean
<1>5. FeedSnapshot'
  BY DEF GapInv, FeedSnapshot
<1>6. MarkKept'
  BY <1>1 DEF GapInv, MarkKept
<1> QED
  BY <1>1, <1>2, <1>3, <1>4, <1>5, <1>6

\* So what is left to show of such a step is the order of the loop, that a cut
\* has a deadline behind it, and that nothing owed is dropped.
LEMMA GapLoop ==
  ASSUME Before, Within, InOrder', CutExpired', NothingDropped'
  PROVE  GapInv'
BY GapWithin DEF GapInv

\* An item the loop passes over is none that is owed.
LEMMA GapSkipItem ==
  ASSUME Before, NEW r \in Payments, SkipItem(r)
  PROVE  GapInv'
<1> USE DEF Before
<1>1. /\ pc = "import" /\ pc' = "import" /\ r \in imported \cup held
      /\ todo' = todo \ {r}
      /\ UNCHANGED <<bankVars, marks, books, runVars, feed, work, out, resume, interrupted,
                     writeFailed, refused>>
  BY DEF SkipItem, AtItem, Passed, tally
<1> USE DEF bankVars, books, runVars
<1>2. Within
  BY <1>1 DEF Within
<1>3. InOrder' /\ CutExpired'
  BY <1>1 DEF GapInv, InOrder, CutExpired
<1>4. \A p \in Payments : Owed(p)' => Owed(p) /\ p # r
  BY <1>1 DEF Owed
<1>5. NothingDropped'
  BY <1>1, <1>2, <1>4 DEF GapInv, NothingDropped, Covered, Within
<1> QED
  BY <1>2, <1>3, <1>5, GapLoop DEF Before

\* Taking the resume point to the first item of the loop passes nothing owed.
LEMMA ResumeBehind ==
  ASSUME Before, NEW r \in todo, pc \in {"import", "confirm"}, work = {},
         \A q \in todo : authDay[r] <= authDay[q], ~writeFailed,
         pc = "import" => ~expired,
         NEW p \in Payments, Owed(p), AccountOf[p] = acct
  PROVE  authDay[r] <= bookDay[p]
<1> USE DEF Before, TypeInv, TypeOK, Days, Dates
<1>1. ~interrupted
  BY DEF GapInv, CutExpired
<1>2. Covered(p) /\ authDay[p] <= bookDay[p] /\ authDay[r] <= today
  BY DEF GapInv, NothingDropped, DatesKnown, Owed
<1>3. CASE p \in todo
  BY <1>2, <1>3
<1>4. CASE bookDay[p] = today
  BY <1>2, <1>4
<1> QED
  BY <1>1, <1>2, <1>3, <1>4 DEF Covered

\* An authorisation imported before: if its booking is owed, that is of today.
LEMMA GapSeenItem ==
  ASSUME Before, NEW r \in Payments, SeenItem(r)
  PROVE  GapInv'
<1> USE DEF Before, TypeInv, TypeOK, Days, Dates
<1>1. /\ pc = "import" /\ pc' = "import" /\ ~expired /\ r \in todo /\ feed[r] = "pending"
      /\ todo' = todo \ {r} /\ resume' = IF work = {} THEN authDay[r] ELSE resume
      /\ UNCHANGED <<bankVars, marks, books, runVars, feed, work, out, interrupted,
                     writeFailed, refused>>
  BY DEF SeenItem, AtItem, IsFirst, Advance, tally
<1>2. \A q \in todo : authDay[r] <= authDay[q]
  BY DEF SeenItem, AtItem, IsFirst, Precedes
<1> USE DEF bankVars, books, runVars
<1>3. Within
  BY <1>1 DEF Within
<1>4. InOrder' /\ CutExpired'
  BY <1>1, <1>2 DEF GapInv, InOrder, CutExpired, DatesKnown
<1>5. NothingDropped'
  <2> SUFFICES ASSUME ~writeFailed, NEW p \in Payments, Owed(p), AccountOf[p] = acct
               PROVE  Covered(p)' /\ resume' <= bookDay[p]
    BY <1>1, <1>3, GapWithin DEF Before, NothingDropped, Within
  <2>1. Covered(p) /\ resume <= bookDay[p]
    BY DEF GapInv, NothingDropped
  <2>2. p = r => bookDay[p] = today
    BY <1>1 DEF GapInv, FeedSnapshot, Owed
  <2>3. Covered(p)'
    BY <1>1, <2>1, <2>2 DEF Covered
  <2>4. resume' <= bookDay[p]
    BY <1>1, <1>2, <2>1, ResumeBehind DEF Before
  <2> QED
    BY <2>3, <2>4
<1> QED
  BY <1>3, <1>4, <1>5, GapLoop DEF Before

\* A confirmed row: nothing but the row has changed.
LEMMA GapConfirmRow ==
  ASSUME Before, NEW r \in Payments, ConfirmRow(r)
  PROVE  GapInv'
<1> USE DEF Before
<1>1. /\ pc = "import" /\ pc' = "confirm" /\ ~expired
      /\ UNCHANGED <<bankVars, marks, books, runVars, acctVars, tally>>
  BY DEF ConfirmRow, AtItem
<1> USE DEF bankVars, books, runVars, acctVars, tally
<1>2. Within
  BY <1>1 DEF Within
<1>3. InOrder' /\ CutExpired'
  BY <1>1 DEF GapInv, InOrder, CutExpired
<1>4. NothingDropped'
  BY <1>1, <1>2, GapWithin DEF GapInv, NothingDropped, Covered
<1> QED
  BY <1>2, <1>3, <1>4, GapLoop DEF Before

\* A booking confirmed in place is owed no longer.
LEMMA GapConfirmBooks ==
  ASSUME Before, NEW r \in Payments, ConfirmBooks(r)
  PROVE  GapInv'
<1> USE DEF Before, TypeInv, TypeOK, Days, Dates
<1>1. /\ pc = "confirm" /\ pc' = "import" /\ r \in todo
      /\ imported' = imported \cup {r} /\ held' = held
      /\ todo' = todo \ {r} /\ resume' = IF work = {} THEN authDay[r] ELSE resume
      /\ UNCHANGED <<bankVars, marks, runVars, feed, work, out, interrupted,
                     writeFailed, refused>>
  BY DEF ConfirmBooks, IsFirst, Advance, tally
<1>2. \A q \in todo : authDay[r] <= authDay[q]
  BY DEF ConfirmBooks, IsFirst, Precedes
<1> USE DEF bankVars, runVars
<1>3. Within
  BY <1>1 DEF Within
<1>4. InOrder' /\ CutExpired'
  BY <1>1, <1>2 DEF GapInv, InOrder, CutExpired, DatesKnown
<1>5. NothingDropped'
  <2> SUFFICES ASSUME ~writeFailed, NEW p \in Payments, Owed(p), p # r,
                      AccountOf[p] = acct
               PROVE  Covered(p)' /\ resume' <= bookDay[p]
    <3>1. \A p \in Payments : Owed(p)' => Owed(p) /\ p # r
      BY <1>1 DEF Owed
    <3> QED
      BY <1>1, <1>3, <3>1 DEF NothingDropped, Within
  <2>1. Covered(p) /\ resume <= bookDay[p]
    BY DEF GapInv, NothingDropped
  <2>2. Covered(p)'
    BY <1>1, <2>1 DEF Covered
  <2>3. resume' <= bookDay[p]
    BY <1>1, <1>2, <2>1, ResumeBehind DEF Before
  <2> QED
    BY <2>2, <2>3
<1> QED
  BY <1>3, <1>4, <1>5, GapLoop DEF Before

\* A write that failed leaves the account without a conclusion.
LEMMA GapWriteFails ==
  ASSUME Before, Within, writeFailed', pc' = "import", resume' = resume,
         UNCHANGED <<interrupted, expired>>
  PROVE  GapInv'
<1>1. InOrder'
  BY DEF Before, GapInv, InOrder, Within, bankVars
<1>2. CutExpired' /\ NothingDropped'
  BY DEF Before, GapInv, CutExpired, NothingDropped
<1> QED
  BY <1>1, <1>2, GapLoop

\* The deadline drops what the loop has not taken, which lies behind what it has
\* queued and behind the resume point.
LEMMA GapCutLoop ==
  ASSUME Before, CutLoop
  PROVE  GapInv'
<1> USE DEF Before, TypeInv, TypeOK, Days, Dates
<1>1. /\ pc = "import" /\ pc' = "import" /\ expired /\ interrupted' /\ todo' = {}
      /\ UNCHANGED <<bankVars, marks, books, runVars, feed, work, out, resume,
                     writeFailed, refused>>
  BY DEF CutLoop, tally
<1> USE DEF bankVars, books, runVars
<1>2. Within
  BY <1>1 DEF Within
<1>3. InOrder' /\ CutExpired'
  BY <1>1 DEF GapInv, InOrder, CutExpired
<1>4. NothingDropped'
  <2> SUFFICES ASSUME ~writeFailed, NEW p \in Payments, Owed(p), AccountOf[p] = acct
               PROVE  Covered(p)' /\ resume' <= bookDay[p]
    BY <1>1, <1>2, GapWithin DEF Before, NothingDropped, Within
  <2>1. Covered(p) /\ resume <= bookDay[p]
    BY DEF GapInv, NothingDropped
  <2>2. CASE p \in todo
    <3>1. \A w \in work : authDay[w] <= authDay[p]
      BY <2>2 DEF GapInv, InOrder
    <3> QED
      BY <1>1, <2>1, <3>1 DEF Covered
  <2>3. CASE p \notin todo
    BY <1>1, <2>1, <2>3 DEF Covered
  <2> QED
    BY <2>2, <2>3
<1> QED
  BY <1>2, <1>3, <1>4, GapLoop DEF Before

\* Steps that place the batch: rows and outcomes change, the loop does not.
LEMMA GapPlacing ==
  ASSUME Before, Within, pc' = "place",
         UNCHANGED <<todo, work, resume, interrupted, writeFailed, expired>>
  PROVE  GapInv'
<1>1. InOrder' /\ CutExpired'
  BY DEF Before, GapInv, InOrder, CutExpired, Within, bankVars
<1>2. NothingDropped'
  BY GapWithin DEF Before, GapInv, NothingDropped, Covered, Within, bankVars
<1> QED
  BY <1>1, <1>2, GapLoop

\* A placed transaction of the batch: a booking is owed no longer, and the
\* resume point moves to it, behind which the rest of the loop lies.
LEMMA GapSettleItem ==
  ASSUME Before, NEW r \in Payments, SettleItem(r)
  PROVE  GapInv'
<1> USE DEF Before, TypeInv, TypeOK, Days, Dates
<1>1. /\ pc = "settle" /\ pc' \in {"import", "settle"} /\ r \in work
      /\ work' = work \ {r} /\ out' = [out EXCEPT ![r] = "none"]
      /\ resume' = authDay[r] /\ held' = held
      /\ UNCHANGED <<bankVars, marks, runVars, feed, todo, interrupted, writeFailed,
                     refused>>
  BY DEF SettleItem, AfterSettle, IsFirst, tally
<1>2. imported' = IF feed[r] = "booked" THEN imported \cup {r} ELSE imported
  BY DEF SettleItem
<1>3. \A q \in work : authDay[r] <= authDay[q]
  BY DEF SettleItem, IsFirst, Precedes
<1> USE DEF bankVars, runVars
<1>4. Within
  BY <1>1, <1>2 DEF Within
<1>5. InOrder'
  BY <1>1, <1>3 DEF GapInv, InOrder, DatesKnown
<1>6. CutExpired'
  BY <1>1 DEF GapInv, CutExpired
<1>7. NothingDropped'
  <2> SUFFICES ASSUME ~writeFailed, NEW p \in Payments, Owed(p),
                      p = r => feed[r] # "booked", AccountOf[p] = acct
               PROVE  Covered(p)' /\ resume' <= bookDay[p]
    <3>1. \A p \in Payments : Owed(p)' => Owed(p) /\ (p = r => feed[r] # "booked")
      BY <1>1, <1>2 DEF Owed
    <3> QED
      BY <1>1, <1>4, <3>1 DEF NothingDropped, Within
  <2>1. Covered(p) /\ authDay[p] <= bookDay[p]
    BY DEF GapInv, NothingDropped, DatesKnown, Owed
  <2>2. p = r => bookDay[p] = today
    BY <1>1 DEF GapInv, FeedSnapshot, Owed
  <2>3. Covered(p)'
    BY <1>1, <2>1, <2>2 DEF Covered
  <2>4. authDay[r] <= bookDay[p]
    BY <1>1, <1>3, <2>1 DEF Covered, GapInv, InOrder, DatesKnown
  <2> QED
    BY <1>1, <2>3, <2>4
<1> QED
  BY <1>4, <1>5, <1>6, <1>7, GapLoop DEF Before

\* A held transaction: it is in the queue, or its booking is of today, or the
\* queue refused it.
LEMMA GapHold ==
  ASSUME Before, NEW r \in Payments, HoldItem(r) \/ HoldItemFails(r)
  PROVE  GapInv'
<1> USE DEF Before, TypeInv, TypeOK, Days, Dates
<1>1. /\ pc = "settle" /\ pc' \in {"import", "settle"} /\ r \in work
      /\ work' = work \ {r} /\ out' = [out EXCEPT ![r] = "none"]
      /\ imported' = imported /\ held \subseteq held' /\ refused \subseteq refused'
      /\ UNCHANGED <<bankVars, marks, runVars, feed, todo, resume, interrupted,
                     writeFailed>>
  BY DEF HoldItem, HoldItemFails, AfterSettle, IsFirst, books, tally
<1>2. r \in held' \/ feed[r] # "booked" \/ r \in refused'
  BY DEF HoldItem, HoldItemFails
<1> USE DEF bankVars, runVars
<1>3. Within
  BY <1>1 DEF Within
<1>4. InOrder' /\ CutExpired'
  BY <1>1 DEF GapInv, InOrder, CutExpired
<1>5. NothingDropped'
  <2> SUFFICES ASSUME ~writeFailed, NEW p \in Payments, Owed(p),
                      p = r => feed[r] # "booked", AccountOf[p] = acct
               PROVE  Covered(p)' /\ resume <= bookDay[p]
    <3>1. \A p \in Payments : Owed(p)' => Owed(p) /\ (p = r => feed[r] # "booked")
      BY <1>1, <1>2 DEF Owed
    <3> QED
      BY <1>1, <1>3, <3>1 DEF NothingDropped, Within
  <2>1. Covered(p) /\ resume <= bookDay[p]
    BY DEF GapInv, NothingDropped
  <2>2. p = r => bookDay[p] = today
    BY <1>1 DEF GapInv, FeedSnapshot, Owed
  <2> QED
    BY <1>1, <2>1, <2>2 DEF Covered
<1> QED
  BY <1>3, <1>4, <1>5, GapLoop DEF Before

\* A batch cut off before an item: the rest of it lies behind that item, and
\* the run knows that it was interrupted.
LEMMA GapSettleCut ==
  ASSUME Before, NEW r \in Payments, SettleCut(r)
  PROVE  GapInv'
<1> USE DEF Before, TypeInv, TypeOK, Days, Dates
<1>1. /\ pc = "settle" /\ pc' = "import" /\ r \in work /\ out[r] = "none"
      /\ interrupted' /\ work' = {}
      /\ UNCHANGED <<bankVars, marks, books, runVars, feed, todo, resume, writeFailed,
                     refused>>
  BY DEF SettleCut, IsFirst, tally
<1> USE DEF bankVars, books, runVars
<1>2. Within
  BY <1>1 DEF Within
<1>3. InOrder' /\ CutExpired'
  BY <1>1 DEF GapInv, InOrder, CutExpired
<1>4. NothingDropped'
  <2> SUFFICES ASSUME ~writeFailed, NEW p \in Payments, Owed(p), AccountOf[p] = acct
               PROVE  Covered(p)' /\ resume <= bookDay[p]
    BY <1>1, <1>2, GapWithin DEF Before, NothingDropped, Within
  <2> QED
    BY <1>1 DEF GapInv, NothingDropped, Covered
<1> QED
  BY <1>2, <1>3, <1>4, GapLoop DEF Before

\* The stamps after Commit: a synced account owes only what is of today, and
\* its start date goes only once that stamp is there.
LEMMA GapStamps ==
  ASSUME Before, StampSynced \/ ClearBackfilled
  PROVE  GapInv'
<1> USE DEF Before, TypeInv, TypeOK, Days, Dates
<1> USE DEF bankVars, books, rows, runVars, acctVars, tally
<1>1. /\ (pc = "stamp" /\ pc' = "clear") \/ (pc = "clear" /\ pc' = "global")
      /\ UNCHANGED <<bankVars, globalLast, books, rows, runVars, acctVars, tally>>
      /\ \A a \in Accounts :
           /\ last'[a] = IF pc = "stamp" /\ a \in synced THEN today ELSE last[a]
           /\ start'[a] = IF pc = "clear" /\ a \in backfilled THEN 0 ELSE start[a]
  <2>1. CASE StampSynced
    <3>1. pc = "stamp" /\ pc' = "clear" /\ start' = start
      BY <2>1 DEF StampSynced
    <3>2. \A a \in Accounts : last'[a] = IF a \in synced THEN today ELSE last[a]
      BY <2>1 DEF StampSynced
    <3>3. UNCHANGED <<bankVars, globalLast, books, rows, runVars, acctVars, tally>>
      BY <2>1 DEF StampSynced
    <3> QED
      BY <3>1, <3>2, <3>3
  <2>2. CASE ClearBackfilled
    <3>1. pc = "clear" /\ pc' = "global" /\ last' = last
      BY <2>2 DEF ClearBackfilled
    <3>2. \A a \in Accounts : start'[a] = IF a \in backfilled THEN 0 ELSE start[a]
      BY <2>2 DEF ClearBackfilled
    <3>3. UNCHANGED <<bankVars, globalLast, books, rows, runVars, acctVars, tally>>
      BY <2>2 DEF ClearBackfilled
    <3> QED
      BY <3>1, <3>2, <3>3
  <2> QED
    BY <2>1, <2>2
<1>2. \A p \in Payments : Owed(p)' <=> Owed(p)
  BY <1>1 DEF Owed
<1>3. DatesKnown' /\ Rested' /\ LoopFree' /\ FeedSnapshot' /\ InOrder' /\ CutExpired'
  BY <1>1
  DEF GapInv, DatesKnown, Rested, LoopFree, FeedSnapshot, InOrder, CutExpired
<1>4. NothingDropped'
  BY <1>1, <1>2 DEF GapInv, NothingDropped, Covered
<1>5. SyncedClean'
  BY <1>1, <1>2 DEF GapInv, SyncedClean
<1>6. pc = "clear" => \A a \in backfilled : last[a] = today
  BY DEF GapInv, SyncedClean
<1>7. Started'
  BY <1>1, <1>6 DEF GapInv, Started
<1>8. MarksPast'
  BY <1>1, ConstantsAssumption DEF GapInv, MarksPast, ConstantsAssumption
<1>9. MarkKept'
  <2> SUFFICES ASSUME NEW p \in Payments, Owed(p)
               PROVE  bookDay[p] >= IF start'[AccountOf[p]] # 0
                                    THEN start'[AccountOf[p]]
                                    ELSE last'[AccountOf[p]]
    BY <1>1, <1>2 DEF MarkKept
  <2> DEFINE a == AccountOf[p]
  <2>1. a \in Accounts
    BY ConstantsAssumption DEF ConstantsAssumption
  <2>2. bookDay[p] >= IF start[a] # 0 THEN start[a] ELSE last[a]
    BY DEF GapInv, MarkKept
  <2>3. a \in synced => bookDay[p] = today
    BY DEF GapInv, SyncedClean
  <2>4. backfilled \subseteq synced
    BY DEF GapInv, SyncedClean
  <2>5. CASE pc = "stamp"
    BY <1>1, <2>1, <2>2, <2>3, <2>5
  <2>6. CASE pc = "clear"
    BY <1>1, <1>6, <2>1, <2>2, <2>3, <2>4, <2>6
  <2> QED
    BY <1>1, <2>5, <2>6
<1> QED
  BY <1>3, <1>4, <1>5, <1>7, <1>8, <1>9 DEF GapInv

\* Steps between accounts that end no run: nothing but the queue moves.
LEMMA GapBetween ==
  ASSUME Before,
         UNCHANGED <<bankVars, marks, imported, held, refused, synced, backfilled, feed,
                     acct, todo, work, out, resume, interrupted, writeFailed>>,
         pc \in {"idle", "accounts"}, pc' \in {"accounts", "stamp"}
  PROVE  GapInv'
<1> USE DEF Before, bankVars, marks
<1>1. \A p \in Payments : Owed(p)' <=> Owed(p)
  BY DEF Owed
<1>2. DatesKnown' /\ Started' /\ MarksPast' /\ MarkKept'
  BY <1>1 DEF GapInv, DatesKnown, Started, MarksPast, MarkKept
<1>3. Rested' /\ FeedSnapshot' /\ InOrder'
  BY DEF GapInv, Rested, FeedSnapshot, InOrder
<1>4. LoopFree' /\ CutExpired'
  BY DEF GapInv, LoopFree, CutExpired
<1>5. SyncedClean'
  BY <1>1 DEF GapInv, SyncedClean
<1>6. NothingDropped'
  BY <1>1 DEF GapInv, NothingDropped, Covered
<1> QED
  BY <1>2, <1>3, <1>4, <1>5, <1>6 DEF GapInv

\* Steps that touch nothing the invariant speaks of, the deadline apart.
LEMMA GapAside ==
  ASSUME Before,
         UNCHANGED <<bankVars, marks, imported, held, refused, pc, synced, backfilled,
                     feed, acct, todo, work, out, resume, interrupted, writeFailed>>,
         expired => expired'
  PROVE  GapInv'
<1> USE DEF Before, bankVars, marks
<1>1. \A p \in Payments : Owed(p)' <=> Owed(p)
  BY DEF Owed
<1>2. DatesKnown' /\ Started' /\ MarksPast' /\ MarkKept'
  BY <1>1 DEF GapInv, DatesKnown, Started, MarksPast, MarkKept
<1>3. Rested' /\ FeedSnapshot' /\ InOrder'
  BY DEF GapInv, Rested, FeedSnapshot, InOrder
<1>4. LoopFree' /\ CutExpired'
  BY DEF GapInv, LoopFree, CutExpired
<1>5. SyncedClean'
  BY <1>1 DEF GapInv, SyncedClean
<1>6. NothingDropped'
  BY <1>1 DEF GapInv, NothingDropped, Covered
<1> QED
  BY <1>2, <1>3, <1>4, <1>5, <1>6 DEF GapInv

\* The bank lists an authorisation, or withdraws one: neither is owed.
LEMMA GapBankPending ==
  ASSUME Before, NEW r \in Payments, BankAuthorises(r) \/ BankWithdraws(r)
  PROVE  GapInv'
<1> USE DEF Before, TypeInv, TypeOK, Days, Dates
<1>1. /\ bank[r] # "booked" /\ bank'[r] \notin {"none", "booked"}
      /\ bank[r] = "none" \/ authDay' = authDay
      /\ authDay'[r] <= today
      /\ \A p \in Payments \ {r} : bank'[p] = bank[p] /\ authDay'[p] = authDay[p]
  BY DEF BankAuthorises, BankWithdraws, GapInv, DatesKnown
<1>2. UNCHANGED <<today, bookDay, marks, books, rows, pc, runVars, acctVars, tally>>
  BY DEF BankAuthorises, BankWithdraws
<1> USE DEF marks, books, runVars, acctVars, tally
<1>3. \A p \in Payments : Owed(p)' <=> Owed(p)
  BY <1>1, <1>2 DEF Owed
<1>4. DatesKnown'
  BY <1>1, <1>2 DEF GapInv, DatesKnown
<1>5. Started' /\ Rested' /\ LoopFree' /\ CutExpired' /\ MarksPast'
  BY <1>2 DEF GapInv, Started, Rested, LoopFree, CutExpired, MarksPast, NoFeed
<1>6. FeedSnapshot'
  BY <1>1, <1>2 DEF GapInv, FeedSnapshot
<1>7. SyncedClean' /\ MarkKept'
  BY <1>2, <1>3 DEF GapInv, SyncedClean, MarkKept
<1>8. \A p \in Payments : p \in todo \cup work \/ bank[p] # "none" => authDay'[p] = authDay[p]
  BY <1>1 DEF GapInv, FeedSnapshot
<1>9. InOrder'
  BY <1>2, <1>8 DEF GapInv, InOrder
<1>10. NothingDropped'
  <2> SUFFICES ASSUME ~writeFailed, NEW p \in Payments, Owed(p), AccountOf[p] = acct
               PROVE  Covered(p)' /\ resume <= bookDay[p]
    BY <1>2, <1>3 DEF NothingDropped
  <2>1. Covered(p) /\ resume <= bookDay[p]
    BY DEF GapInv, NothingDropped
  <2>2. authDay'[p] = authDay[p] /\ \A w \in work : authDay'[w] = authDay[w]
    BY <1>8 DEF Owed
  <2> QED
    BY <1>2, <2>1, <2>2 DEF Covered
<1> QED
  BY <1>4, <1>5, <1>6, <1>7, <1>9, <1>10 DEF GapInv

\* The inductive step.
LEMMA GapStep == ~TickDuringRun /\ TypeInv /\ GapInv /\ [Next]_vars => GapInv'
<1> SUFFICES ASSUME ~TickDuringRun, TypeInv, GapInv, [Next]_vars PROVE GapInv'
  OBVIOUS
<1>0. Before
  BY TypeStep DEF Before
<1> USE <1>0 DEF vars, marks, books, rows, runVars, acctVars, tally
<1>1. ASSUME NEW r \in Payments, BankAuthorises(r) PROVE GapInv'
  BY <1>1, GapBankPending
<1>2. ASSUME NEW r \in Payments, BankBooks(r) PROVE GapInv'
  BY <1>2, GapBankBooks
<1>3. ASSUME NEW r \in Payments, BankWithdraws(r) PROVE GapInv'
  BY <1>3, GapBankPending
<1>4. ASSUME NEW r \in Payments, UserDeletesRow(r) PROVE GapInv'
  BY <1>4, GapAside DEF UserDeletesRow
<1>5. CASE Tick
  BY <1>5, GapTick
<1>6. CASE BeginRun
  BY <1>6, GapBetween DEF BeginRun
<1>7. CASE ConnectFails
  BY <1>7, GapEndRun DEF ConnectFails
<1>8. ASSUME NEW b \in Accounts, FetchFails(b) PROVE GapInv'
  BY <1>8, GapAside DEF FetchFails
<1>9. ASSUME NEW b \in Accounts, AccountUnavailable(b) PROVE GapInv'
  BY <1>9, GapAside DEF AccountUnavailable
<1>10. ASSUME NEW b \in Accounts, Fetch(b) PROVE GapInv'
  BY <1>10, GapFetch
<1>11. CASE Deadline
  BY <1>11, GapAside DEF Deadline
<1>12. CASE Crash
  BY <1>12, GapEndRun DEF Crash
<1>13. ASSUME NEW r \in Payments, SkipItem(r) PROVE GapInv'
  BY <1>13, GapSkipItem
<1>14. ASSUME NEW r \in Payments, SeenItem(r) PROVE GapInv'
  BY <1>14, GapSeenItem
<1>15. ASSUME NEW r \in Payments, QueueItem(r) PROVE GapInv'
  BY <1>15, GapQueueItem
<1>16. ASSUME NEW r \in Payments, ConfirmRow(r) PROVE GapInv'
  BY <1>16, GapConfirmRow
<1>17. ASSUME NEW r \in Payments, ConfirmFails(r) PROVE GapInv'
  BY <1>17, GapWriteFails DEF ConfirmFails, AtItem, Within
<1>18. ASSUME NEW r \in Payments, ConfirmBooks(r) PROVE GapInv'
  BY <1>18, GapConfirmBooks
<1>19. ASSUME NEW r \in Payments, CrashConsumed(r) PROVE GapInv'
  BY <1>19, GapEndRun DEF CrashConsumed
<1>20. CASE CutLoop
  BY <1>20, GapCutLoop
<1>21. CASE Flush
  BY <1>21, GapPlacing DEF Flush, Within
<1>22. ASSUME NEW r \in Payments, PlaceKnown(r) PROVE GapInv'
  BY <1>22, GapPlacing DEF PlaceKnown, Within
<1>23. ASSUME NEW r \in Payments, PlaceNew(r) PROVE GapInv'
  BY <1>23, GapPlacing DEF PlaceNew, Within
<1>24. CASE PlaceFails
  BY <1>24, GapWriteFails DEF PlaceFails, Within
<1>25. ASSUME NEW r \in Payments, PlaceAnswerLost(r) PROVE GapInv'
  BY <1>25, GapWriteFails DEF PlaceAnswerLost, Within
<1>26. CASE PlacingEnds
  BY <1>26, GapPlacingEnds
<1>27. ASSUME NEW r \in Payments, SettleItem(r) PROVE GapInv'
  BY <1>27, GapSettleItem
<1>28. ASSUME NEW r \in Payments, HoldItem(r) PROVE GapInv'
  BY <1>28, GapHold
<1>29. ASSUME NEW r \in Payments, HoldItemFails(r) PROVE GapInv'
  BY <1>29, GapHold
<1>30. ASSUME NEW r \in Payments, SettleCut(r) PROVE GapInv'
  BY <1>30, GapSettleCut
<1>31. CASE FinishAccount
  BY <1>31, GapFinishAccount
<1>32. CASE AllFetchesFailed
  BY <1>32, GapEndRun DEF AllFetchesFailed
<1>33. CASE Committed
  BY <1>33, GapBetween DEF Committed
<1>34. CASE CommitFails
  BY <1>34, GapEndRun DEF CommitFails
<1>35. CASE StampSynced
  BY <1>35, GapStamps
<1>36. CASE ClearBackfilled
  BY <1>36, GapStamps
<1>37. CASE StampGlobal
  BY <1>37, GapEndRun DEF StampGlobal
<1>38. CASE UNCHANGED vars
  BY <1>38, GapAside
<1> QED
  BY <1>1, <1>2, <1>3, <1>4, <1>5, <1>6, <1>7, <1>8, <1>9, <1>10, <1>11, <1>12,
     <1>13, <1>14, <1>15, <1>16, <1>17, <1>18, <1>19, <1>20, <1>21, <1>22, <1>23,
     <1>24, <1>25, <1>26, <1>27, <1>28, <1>29, <1>30, <1>31, <1>32, <1>33, <1>34,
     <1>35, <1>36, <1>37, <1>38
  DEF Next, BankStep, RunStep, AccountStep, ItemStep, BatchStep, FaultStep

\* Nothing has been listed, stored or begun.
LEMMA GapInit == Init => GapInv
<1> SUFFICES ASSUME Init PROVE GapInv
  OBVIOUS
<1> USE ConstantsAssumption DEF ConstantsAssumption, Init
<1>1. \A p \in Payments : ~Owed(p)
  BY DEF Owed
<1>2. DatesKnown
  BY DEF DatesKnown
<1>3. Started /\ MarksPast
  BY DEF Started, MarksPast
<1>4. Rested /\ LoopFree /\ CutExpired
  BY DEF Rested, LoopFree, CutExpired
<1>5. SyncedClean /\ NothingDropped /\ MarkKept
  BY <1>1 DEF SyncedClean, NothingDropped, MarkKept
<1>6. FeedSnapshot /\ InOrder
  BY DEF FeedSnapshot, InOrder, NoFeed
<1> QED
  BY <1>2, <1>3, <1>4, <1>5, <1>6 DEF GapInv

\* With a watermark of its own, an account never falls back to the window.
LEMMA GapImplies == TypeInv /\ GapInv => NoGap
  BY ConstantsAssumption
  DEF ConstantsAssumption, TypeInv, TypeOK, Dates, GapInv, Started, MarkKept, NoGap,
      Watermark, Owed

\* However often runs fail, are cut short or die, and whatever the bank books
\* meanwhile, the next request to the bank reaches every booking that is owed,
\* provided no run is under way at midnight: the stamp is the day a run ends,
\* and a booking of the day before would lie behind it.
THEOREM NoGapCorrect ==
  ASSUME ~TickDuringRun
  PROVE  Spec => []NoGap
<1> DEFINE Inv == TypeInv /\ GapInv
<1>1. Init => Inv
  BY TypeInit, GapInit
<1>2. Inv /\ [Next]_vars => Inv'
  BY TypeStep, GapStep
<1>3. Inv => NoGap
  BY GapImplies
<1> QED
  BY <1>1, <1>2, <1>3, PTL DEF Spec

-----------------------------------------------------------------------------
(* The rows and the bookkeeping: the inductive invariant, part by part.    *)

\* A second row is never written because only a payment without one gets one.
RowOnce == \A p \in Payments : copies[p] <= 1 /\ (row[p] = "none" => copies[p] = 0)

\* Outside an account's import nothing is in the loop or in a batch.
AtEase == pc \in {"idle", "accounts", "stamp", "clear", "global"} => todo = {} /\ work = {}

\* What is in a batch has left the loop, and is neither imported nor held yet;
\* what is in the loop has been listed, so its date is settled.
InBatch == /\ work \cap todo = {}
           /\ work \cap (imported \cup held) = {}
           /\ \A p \in todo : bank[p] # "none"

\* What the batch has done about a payment shows in its row.
Placed ==
    \A p \in Payments :
        /\ out[p] # "none" => p \in work
        /\ out[p] = "held" => row[p] = "none"
        /\ out[p] \in {"created", "adopted"} /\ feed[p] = "booked" => row[p] = "cleared"

\* Between the two halves of a confirmation the row is done, the rest is not.
Confirming ==
    pc = "confirm" =>
        \A p \in Payments : IsFirst(p, todo) => row[p] = "cleared" /\ ~Passed(p)

BooksInv == RowOnce /\ AtEase /\ InBatch /\ Placed /\ Confirming /\ BooksAgree

-----------------------------------------------------------------------------
(* The rows of a payment and what is kept about it agree.                  *)

\* The loop has one first transaction: dates, statuses and what breaks a tie.
LEMMA FirstUnique ==
  ASSUME TypeInv, NEW p \in Payments, NEW q \in Payments,
         IsFirst(p, todo), IsFirst(q, todo)
  PROVE  p = q
<1>1. authDay[p] \in Nat /\ authDay[q] \in Nat
  BY ConstantsAssumption DEF ConstantsAssumption, TypeInv, TypeOK, Dates
<1>2. Phase(p) \in Nat /\ Phase(q) \in Nat
  BY DEF Phase
<1>3. TieBreak[p] \in Nat /\ TieBreak[q] \in Nat /\ (TieBreak[p] = TieBreak[q] => p = q)
  BY ConstantsAssumption DEF ConstantsAssumption
<1>4. Precedes(p, q) /\ Precedes(q, p)
  BY DEF IsFirst
<1> QED
  BY <1>1, <1>2, <1>3, <1>4 DEF Precedes

\* The row of a booking is confirmed: of the loop's first transaction.
LEMMA BooksConfirmRow ==
  ASSUME TypeInv, BooksInv, NEW p \in Payments, ConfirmRow(p)
  PROVE  BooksInv'
<1> USE DEF ConfirmRow, AtItem, Settles, TypeInv, TypeOK, marks, books, rows, runVars,
            acctVars, bankVars, tally
<1>1. /\ row' = [row EXCEPT ![p] = "cleared"] /\ pc' = "confirm"
      /\ row[p] # "none" /\ ~Passed(p) /\ IsFirst(p, todo) /\ p \in todo
      /\ UNCHANGED <<bank, authDay, feed, copies, todo, work, out, pend, imported, held>>
  BY DEF IsFirst
<1>2. RowOnce' /\ AtEase' /\ InBatch' /\ BooksAgree'
  BY <1>1 DEF BooksInv, RowOnce, AtEase, InBatch, BooksAgree, ImportedSettled,
              EntryConsumed, HeldOutOfBudget
<1>3. Placed'
  BY <1>1 DEF BooksInv, Placed, InBatch
<1>4. Confirming'
  <2> SUFFICES ASSUME NEW q \in Payments, IsFirst(q, todo)'
               PROVE  row'[q] = "cleared" /\ ~Passed(q)'
    BY DEF Confirming
  <2>1. IsFirst(q, todo)
    BY <1>1 DEF IsFirst, Precedes, Phase
  <2>2. q = p
    BY <1>1, <2>1, FirstUnique
  <2> QED
    BY <1>1, <2>2 DEF Passed
<1> QED
  BY <1>2, <1>3, <1>4 DEF BooksInv

\* No step of the bank, the run or its faults sets rows and bookkeeping apart.
LEMMA BooksStep == TypeInv /\ BooksInv /\ [Next]_vars => BooksInv'
<1> SUFFICES ASSUME TypeInv, BooksInv, [Next]_vars PROVE BooksInv'
  OBVIOUS
<1>16. ASSUME NEW p \in Payments, ConfirmRow(p) PROVE BooksInv'
  BY <1>16, BooksConfirmRow
<1> USE ConstantsAssumption
    DEF TypeInv, TypeOK, BooksInv, RowOnce, AtEase, InBatch, Placed, Confirming, BooksAgree,
        ImportedSettled, EntryConsumed, HeldOutOfBudget, Passed, IsFirst, Precedes, Phase,
        vars, bankVars, marks, books, rows, runVars, acctVars, tally
<1>1. ASSUME NEW p \in Payments, BankAuthorises(p) PROVE BooksInv'
  BY <1>1 DEF BankAuthorises
<1>2. ASSUME NEW p \in Payments, BankBooks(p) PROVE BooksInv'
  BY <1>2 DEF BankBooks
<1>3. ASSUME NEW p \in Payments, BankWithdraws(p) PROVE BooksInv'
  BY <1>3 DEF BankWithdraws
<1>4. ASSUME NEW p \in Payments, UserDeletesRow(p) PROVE BooksInv'
  BY <1>4 DEF UserDeletesRow
<1>5. CASE Tick
  BY <1>5 DEF Tick
<1>6. CASE BeginRun
  BY <1>6 DEF BeginRun
<1>7. CASE ConnectFails
  BY <1>7 DEF ConnectFails, EndRun, EndAccount, NoFeed, NoOutcome
<1>8. ASSUME NEW a \in Accounts, FetchFails(a) PROVE BooksInv'
  BY <1>8 DEF FetchFails
<1>9. ASSUME NEW a \in Accounts, AccountUnavailable(a) PROVE BooksInv'
  BY <1>9 DEF AccountUnavailable
<1>10. ASSUME NEW a \in Accounts, Fetch(a) PROVE BooksInv'
  BY <1>10 DEF Fetch, Listed, Withdrawn
<1>11. CASE Deadline
  BY <1>11 DEF Deadline
<1>12. CASE Crash
  BY <1>12 DEF Crash, EndRun, EndAccount, NoFeed, NoOutcome
<1>13. ASSUME NEW p \in Payments, SkipItem(p) PROVE BooksInv'
  BY <1>13 DEF SkipItem, AtItem
<1>14. ASSUME NEW p \in Payments, SeenItem(p) PROVE BooksInv'
  BY <1>14 DEF SeenItem, AtItem
<1>15. ASSUME NEW p \in Payments, QueueItem(p) PROVE BooksInv'
  BY <1>15 DEF QueueItem, AtItem
<1>17. ASSUME NEW p \in Payments, ConfirmFails(p) PROVE BooksInv'
  BY <1>17 DEF ConfirmFails, AtItem
<1>18. ASSUME NEW p \in Payments, ConfirmBooks(p) PROVE BooksInv'
  BY <1>18 DEF ConfirmBooks
<1>19. ASSUME NEW p \in Payments, CrashConsumed(p) PROVE BooksInv'
  BY <1>19 DEF CrashConsumed, EndRun, EndAccount, NoFeed, NoOutcome
<1>20. CASE CutLoop
  BY <1>20 DEF CutLoop
<1>21. CASE Flush
  BY <1>21 DEF Flush
<1>22. ASSUME NEW p \in Payments, PlaceKnown(p) PROVE BooksInv'
  BY <1>22 DEF PlaceKnown, Known, Unplaced, Written
<1>23. ASSUME NEW p \in Payments, PlaceNew(p) PROVE BooksInv'
  BY <1>23 DEF PlaceNew, Known, Unplaced, Written
<1>24. CASE PlaceFails
  BY <1>24 DEF PlaceFails, NoOutcome
<1>25. ASSUME NEW p \in Payments, PlaceAnswerLost(p) PROVE BooksInv'
  BY <1>25 DEF PlaceAnswerLost, Known, Unplaced, Written, NoOutcome
<1>26. CASE PlacingEnds
  BY <1>26 DEF PlacingEnds
<1>27. ASSUME NEW p \in Payments, SettleItem(p) PROVE BooksInv'
  BY <1>27 DEF SettleItem, AfterSettle
<1>28. ASSUME NEW p \in Payments, HoldItem(p) PROVE BooksInv'
  BY <1>28 DEF HoldItem, AfterSettle
<1>29. ASSUME NEW p \in Payments, HoldItemFails(p) PROVE BooksInv'
  BY <1>29 DEF HoldItemFails, AfterSettle
<1>30. ASSUME NEW p \in Payments, SettleCut(p) PROVE BooksInv'
  BY <1>30 DEF SettleCut, NoOutcome
<1>31. CASE FinishAccount
  BY <1>31 DEF FinishAccount, EndAccount, NoFeed, NoOutcome, MarkSynced
<1>32. CASE AllFetchesFailed
  BY <1>32 DEF AllFetchesFailed, EndRun, EndAccount, NoFeed, NoOutcome
<1>33. CASE Committed
  BY <1>33 DEF Committed
<1>34. CASE CommitFails
  BY <1>34 DEF CommitFails, EndRun, EndAccount, NoFeed, NoOutcome
<1>35. CASE StampSynced
  BY <1>35 DEF StampSynced
<1>36. CASE ClearBackfilled
  BY <1>36 DEF ClearBackfilled
<1>37. CASE StampGlobal
  BY <1>37 DEF StampGlobal, EndRun, EndAccount, NoFeed, NoOutcome
<1>38. CASE UNCHANGED vars
  BY <1>38
<1> QED
  BY <1>1, <1>2, <1>3, <1>4, <1>5, <1>6, <1>7, <1>8, <1>9, <1>10, <1>11, <1>12, <1>13,
     <1>14, <1>15, <1>16, <1>17, <1>18, <1>19, <1>20, <1>21, <1>22, <1>23, <1>24, <1>25,
     <1>26, <1>27, <1>28, <1>29, <1>30, <1>31, <1>32, <1>33, <1>34, <1>35, <1>36, <1>37,
     <1>38
  DEF Next, BankStep, RunStep, AccountStep, ItemStep, BatchStep, FaultStep

\* Nothing has been imported at first.
LEMMA BooksInit == Init => BooksInv
  BY DEF Init, BooksInv, RowOnce, AtEase, InBatch, Placed, Confirming, BooksAgree,
         ImportedSettled, EntryConsumed, HeldOutOfBudget, NoOutcome

\* Types, rows and bookkeeping together are kept by every step.
LEMMA BooksHold == Spec => [](TypeInv /\ BooksInv)
  BY TypeInit, TypeStep, BooksInit, BooksStep, PTL DEF Spec

\* Batches that fail half-way, answers that are lost and processes that die
\* never leave a payment with two rows: the retry finds its row by reference.
THEOREM NoDuplicateCorrect == Spec => []NoDuplicate
<1>1. BooksInv => NoDuplicate
  BY DEF BooksInv, RowOnce, NoDuplicate
<1> QED
  BY <1>1, BooksHold, PTL

\* Whenever the process dies, what is remembered as imported is a cleared row,
\* no entry is left for it, and what is held is in no row.
THEOREM BooksAgreeCorrect == Spec => []BooksAgree
<1>1. BooksInv => BooksAgree
  BY DEF BooksInv
<1> QED
  BY <1>1, BooksHold, PTL
=============================================================================
