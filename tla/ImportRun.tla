----------------------------- MODULE ImportRun -----------------------------
(***************************************************************************)
(* One instance of bankingsync importing bank transactions: Syncer.run of  *)
(* src/main.go with the bookkeeping it keeps in src/state.go.              *)
(*                                                                         *)
(* A payment is a transaction whose bank reference is stable: the bank may *)
(* list it first as an authorisation (PDNG), later as a booking (BOOK).    *)
(* The run asks the bank only for what lies on or after a date it computes *)
(* from its watermarks, so a watermark that moves too far loses payments   *)
(* for ever.  The module is about that: when each watermark moves, against *)
(* write failures, the run's deadline, a crash between any two durable     *)
(* writes, and a bank that keeps booking while the run is under way.       *)
(*                                                                         *)
(* Days are naturals, 0 is the empty date.  What the matcher decides about *)
(* a row it does not know by reference is left open (created, adopted into *)
(* a row the user typed, held for review): TwinImport and ReviewQueue look *)
(* inside it.  The balance readings of a run are in OpeningBalance, what   *)
(* the Actual backend does with a write before Commit in ActualCommit.     *)
(***************************************************************************)
EXTENDS Integers, FiniteSets

CONSTANTS
    NoAccount,       \* none of them
    Accounts,        \* connected bank accounts
    Payments,        \* the payments the bank may report
    AccountOf,       \* the account a payment belongs to
    ConnectedFrom,   \* start_sync_date an account has at first, 0 when it has none
    TieBreak,        \* the order of two transactions of one day and status
    Window,          \* days of the fallback window (30 in the code)
    BatchSize,       \* assignBatchSize
    Buffered,        \* TRUE for a backend that implements budget.Flusher
    TickDuringRun,   \* TRUE when midnight may pass while a run is under way
    MaxDay,          \* bound: the last day of a behaviour
    MaxFaults        \* bound: failures, deadlines and crashes in a behaviour

Days == 1..MaxDay
Dates == 0..MaxDay

ASSUME ConstantsAssumption ==
    /\ AccountOf \in [Payments -> Accounts] /\ NoAccount \notin Accounts
    /\ TieBreak \in [Payments -> Nat]
    /\ \A p, q \in Payments : TieBreak[p] = TieBreak[q] => p = q
    /\ MaxDay \in Nat \ {0}
    /\ ConnectedFrom \in [Accounts -> Dates]
    /\ Window \in Nat
    /\ BatchSize \in Nat \ {0}
    /\ MaxFaults \in Nat
    /\ Buffered \in BOOLEAN
    /\ TickDuringRun \in BOOLEAN

VARIABLES
    \* The bank, and the calendar.
    today, bank, authDay, bookDay,
    \* What bankingsync keeps in its store, and the rows of the budget.
    start, last, globalLast, pend, imported, held, row, copies,
    \* The run under way: control, and what it will conclude about accounts.
    pc, queue, acct, synced, backfilled, fetchFailed, expired,
    \* The account being imported.
    feed, todo, work, out, resume, interrupted, writeFailed,
    \* Faults so far, and (history) the bookings the review queue refused.
    faults, refused

bankVars  == <<today, bank, authDay, bookDay>>
marks     == <<start, last, globalLast>>
books     == <<pend, imported, held>>
rows      == <<row, copies>>
runVars   == <<queue, acct, synced, backfilled, fetchFailed, expired>>
acctVars  == <<feed, todo, work, out, resume, interrupted, writeFailed>>
tally == <<faults, refused>>
vars == <<bankVars, marks, books, rows, pc, runVars, acctVars, tally>>

BankStates == {"none", "pending", "booked", "withdrawn"}
RowStates  == {"none", "open", "cleared"}
Outcomes   == {"none", "created", "adopted", "held"}
Controls   == {"idle", "accounts", "import", "confirm", "place", "settle",
               "stamp", "clear", "global"}

TypeOK ==
    /\ today \in Days
    /\ bank \in [Payments -> BankStates]
    /\ authDay \in [Payments -> Dates] /\ bookDay \in [Payments -> Dates]
    /\ start \in [Accounts -> Dates] /\ last \in [Accounts -> Dates]
    /\ globalLast \in Dates
    /\ pend \subseteq Payments /\ imported \subseteq Payments
    /\ held \subseteq Payments
    /\ row \in [Payments -> RowStates] /\ copies \in [Payments -> Nat]
    /\ pc \in Controls
    /\ queue \subseteq Accounts /\ acct \in Accounts \cup {NoAccount}
    /\ synced \subseteq Accounts /\ backfilled \subseteq Accounts
    /\ fetchFailed \subseteq Accounts /\ expired \in BOOLEAN
    /\ feed \in [Payments -> BankStates]
    /\ todo \subseteq Payments /\ work \subseteq Payments
    /\ out \in [Payments -> Outcomes]
    /\ resume \in Dates
    /\ interrupted \in BOOLEAN /\ writeFailed \in BOOLEAN
    /\ faults \in Nat /\ refused \subseteq Payments

NoFeed == [p \in Payments |-> "none"]
NoOutcome == [p \in Payments |-> "none"]

-----------------------------------------------------------------------------
(* The dates a run works with.                                             *)

\* Without any watermark the run reaches back a fixed window.
FallbackFrom == IF today > Window THEN today - Window ELSE 1

\* start_sync_date, else the account's watermark, else the installation's,
\* else the window.
Watermark(a) ==
    IF start[a] # 0 THEN start[a]
    ELSE IF last[a] # 0 THEN last[a]
    ELSE IF globalLast # 0 THEN globalLast
    ELSE FallbackFrom

\* An authorisation not settled yet keeps the window open back to its day
\* (State.EarliestPendingDate).
Reached(a, d) == \/ d >= Watermark(a)
                 \/ \E q \in pend : AccountOf[q] = a /\ d >= authDay[q]

\* The bank filters on the latest date a transaction carries; the run sorts
\* on the transaction date, which is the authorisation's.
Reach(p) == IF bank[p] = "booked" THEN bookDay[p] ELSE authDay[p]
Listed(a) == {p \in Payments :
                AccountOf[p] = a /\ bank[p] # "none" /\ Reached(a, Reach(p))}

Withdrawn(a) == {p \in Listed(a) : bank[p] = "withdrawn"}

\* lessTxn: by date, an authorisation before a booking of its day, then by
\* what tells two rows apart.
Phase(p) == IF feed[p] = "pending" THEN 0 ELSE 1
Precedes(p, q) ==
    \/ authDay[p] < authDay[q]
    \/ authDay[p] = authDay[q] /\ Phase(p) < Phase(q)
    \/ authDay[p] = authDay[q] /\ Phase(p) = Phase(q) /\ TieBreak[p] <= TieBreak[q]
IsFirst(p, S) == p \in S /\ \A q \in S : Precedes(p, q)

\* The row a booking settles takes the cleared flag; an authorisation leaves
\* a row as it finds it.
Written(p) == IF feed[p] = "booked" THEN "cleared"
              ELSE IF row[p] = "none" THEN "open" ELSE row[p]

Fault == faults < MaxFaults /\ faults' = faults + 1

-----------------------------------------------------------------------------
(* The bank and the calendar.                                              *)

BankAuthorises(p) ==
    /\ bank[p] = "none"
    /\ bank' = [bank EXCEPT ![p] = "pending"]
    /\ authDay' = [authDay EXCEPT ![p] = today]
    /\ UNCHANGED <<today, bookDay, marks, books, rows, pc, runVars, acctVars, tally>>

\* A payment may be booked without an authorisation ever being listed.
BankBooks(p) ==
    /\ bank[p] \in {"none", "pending"}
    /\ bank' = [bank EXCEPT ![p] = "booked"]
    /\ bookDay' = [bookDay EXCEPT ![p] = today]
    /\ authDay' = [authDay EXCEPT ![p] = IF bank[p] = "none" THEN today ELSE @]
    /\ UNCHANGED <<today, marks, books, rows, pc, runVars, acctVars, tally>>

BankWithdraws(p) ==
    /\ bank[p] = "pending"
    /\ bank' = [bank EXCEPT ![p] = "withdrawn"]
    /\ UNCHANGED <<today, authDay, bookDay, marks, books, rows, pc, runVars,
                   acctVars, tally>>

Tick ==
    /\ pc = "idle" \/ TickDuringRun
    /\ today < MaxDay
    /\ today' = today + 1
    /\ UNCHANGED <<bank, authDay, bookDay, marks, books, rows, pc, runVars,
                   acctVars, tally>>

\* The user deletes the uncleared row of an authorisation.
UserDeletesRow(p) ==
    /\ pc = "idle" /\ row[p] = "open"
    /\ row' = [row EXCEPT ![p] = "none"]
    /\ copies' = [copies EXCEPT ![p] = 0]
    /\ UNCHANGED <<bankVars, marks, books, pc, runVars, acctVars, tally>>

-----------------------------------------------------------------------------
(* The run: the loop over the accounts.                                    *)

\* The locals of the loop body, and those of run itself, go out of scope.
EndAccount ==
    /\ acct' = NoAccount
    /\ feed' = NoFeed /\ todo' = {} /\ work' = {} /\ out' = NoOutcome
    /\ resume' = 0 /\ interrupted' = FALSE /\ writeFailed' = FALSE
EndRun ==
    /\ pc' = "idle"
    /\ queue' = {} /\ synced' = {} /\ backfilled' = {} /\ fetchFailed' = {}
    /\ expired' = FALSE
    /\ EndAccount

\* tryAcquire, the reload of the state, and an answer to Ping.
BeginRun ==
    /\ pc = "idle"
    /\ pc' = "accounts"
    /\ queue' = Accounts
    /\ UNCHANGED <<bankVars, marks, books, rows, acct, synced, backfilled,
                   fetchFailed, expired, acctVars, tally>>

\* ensureActual fails: the run ends before the first account.
ConnectFails ==
    /\ pc = "accounts" /\ queue = Accounts
    /\ Fault
    /\ EndRun
    /\ UNCHANGED <<bankVars, marks, books, rows, refused>>

\* The session has ended, or the bank does not answer.  A request under an
\* expired context fails of its own accord.
FetchFails(a) ==
    /\ pc = "accounts" /\ a \in queue
    /\ IF expired THEN UNCHANGED faults ELSE Fault
    /\ queue' = queue \ {a}
    /\ fetchFailed' = fetchFailed \cup {a}
    /\ UNCHANGED <<bankVars, marks, books, rows, pc, acct, synced, backfilled,
                   expired, acctVars, refused>>

\* The account cannot be resolved or listed in the backend: the run goes on
\* with the next one, and the failure is not counted as a failed fetch.  The
\* feed was there already: what the bank withdrew has been released.
AccountUnavailable(a) ==
    /\ pc = "accounts" /\ a \in queue /\ ~expired
    /\ Fault
    /\ queue' = queue \ {a}
    /\ pend' = pend \ Withdrawn(a)
    /\ UNCHANGED <<bankVars, marks, imported, held, rows, pc, acct, synced, backfilled,
                   fetchFailed, expired, acctVars, refused>>

MarkSynced(a) ==
    /\ synced' = synced \cup {a}
    /\ backfilled' = IF start[a] # 0 THEN backfilled \cup {a} ELSE backfilled

\* The feed of one account.  Authorisations the bank withdrew release the
\* entry that waits for their booking (releaseWithdrawn).
Fetch(a) ==
    /\ pc = "accounts" /\ a \in queue /\ ~expired
    /\ queue' = queue \ {a}
    /\ acct' = a
    /\ feed' = [p \in Payments |-> IF p \in Listed(a) THEN bank[p] ELSE "none"]
    /\ todo' = Listed(a) \ Withdrawn(a)
    /\ pend' = pend \ Withdrawn(a)
    /\ pc' = "import"
    /\ UNCHANGED <<bankVars, marks, imported, held, rows, synced, backfilled,
                   fetchFailed, expired, work, out, resume, interrupted,
                   writeFailed, tally>>

\* syncTimeout passes.
Deadline ==
    /\ pc # "idle" /\ ~expired
    /\ Fault
    /\ expired' = TRUE
    /\ UNCHANGED <<bankVars, marks, books, rows, pc, queue, acct, synced,
                   backfilled, fetchFailed, acctVars, refused>>

\* The process dies.  Everything the run held in memory goes with it.
Crash ==
    /\ pc # "idle"
    /\ Fault
    /\ EndRun
    /\ UNCHANGED <<bankVars, marks, books, rows, refused>>

-----------------------------------------------------------------------------
(* The loop over one account's transactions.                               *)

\* The loop takes the next transaction unless a full batch goes first.
AtItem(p) ==
    /\ pc = "import" /\ ~expired
    /\ Cardinality(work) < BatchSize
    /\ IsFirst(p, todo)

\* Finished in full: a safe point to resume from while nothing earlier waits.
Advance(p) == resume' = IF work = {} THEN authDay[p] ELSE resume

\* Waiting for a decision, known by its reference, or an authorisation whose
\* booking has been imported.
Passed(p) == p \in held \cup imported

SkipItem(p) ==
    /\ AtItem(p)
    /\ Passed(p)
    /\ todo' = todo \ {p}
    /\ UNCHANGED <<bankVars, marks, books, rows, pc, runVars, feed, work, out,
                   resume, interrupted, writeFailed, tally>>

\* An authorisation imported by an earlier run.
SeenItem(p) ==
    /\ AtItem(p)
    /\ ~Passed(p)
    /\ feed[p] = "pending" /\ p \in pend
    /\ todo' = todo \ {p}
    /\ Advance(p)
    /\ UNCHANGED <<bankVars, marks, books, rows, pc, runVars, feed, work, out,
                   interrupted, writeFailed, tally>>

\* Anything the matcher has to place: a new authorisation, a new booking, or
\* a booking whose authorisation's row is gone.
QueueItem(p) ==
    /\ AtItem(p)
    /\ ~Passed(p)
    /\ p \in pend => feed[p] = "booked" /\ row[p] = "none"
    /\ todo' = todo \ {p}
    /\ work' = work \cup {p}
    /\ UNCHANGED <<bankVars, marks, books, rows, pc, runVars, feed, out, resume,
                   interrupted, writeFailed, tally>>

Settles(p) == /\ ~Passed(p)
              /\ feed[p] = "booked" /\ p \in pend /\ row[p] # "none"

\* The booking of an authorisation this installation imported: its row is
\* confirmed in place, without the matcher.
ConfirmRow(p) ==
    /\ AtItem(p) /\ Settles(p)
    /\ row' = [row EXCEPT ![p] = "cleared"]
    /\ pc' = "confirm"
    /\ UNCHANGED <<bankVars, marks, books, copies, runVars, acctVars, tally>>

ConfirmFails(p) ==
    /\ AtItem(p) /\ Settles(p)
    /\ Fault
    /\ writeFailed' = TRUE
    /\ todo' = todo \ {p}
    /\ UNCHANGED <<bankVars, marks, books, rows, pc, runVars, feed, work, out,
                   resume, interrupted, refused>>

\* consumePending comes first, then the reference.
ConfirmBooks(p) ==
    /\ pc = "confirm" /\ IsFirst(p, todo)
    /\ pend' = pend \ {p}
    /\ imported' = imported \cup {p}
    /\ todo' = todo \ {p}
    /\ Advance(p)
    /\ pc' = "import"
    /\ UNCHANGED <<bankVars, marks, held, rows, runVars, feed, work, out,
                   interrupted, writeFailed, tally>>

\* The process dies between the two.
CrashConsumed(p) ==
    /\ \/ pc = "confirm" /\ IsFirst(p, todo)
       \/ pc = "settle" /\ IsFirst(p, work) /\ out[p] \in {"created", "adopted"}
    /\ feed[p] = "booked"
    /\ Fault
    /\ pend' = pend \ {p}
    /\ EndRun
    /\ UNCHANGED <<bankVars, marks, imported, held, rows, refused>>

\* The loop sees the deadline before it takes the next transaction.
CutLoop ==
    /\ pc = "import" /\ expired /\ todo # {}
    /\ Cardinality(work) < BatchSize
    /\ interrupted' = TRUE
    /\ todo' = {}
    /\ UNCHANGED <<bankVars, marks, books, rows, pc, runVars, feed, work, out,
                   resume, writeFailed, tally>>

-----------------------------------------------------------------------------
(* flushWork: ReconcileBatch writes the batch to the backend, then the     *)
(* bookkeeping is done for each transaction that was placed.               *)

Flush ==
    /\ pc = "import" /\ work # {}
    /\ Cardinality(work) >= BatchSize \/ todo = {}
    /\ pc' = "place"
    /\ UNCHANGED <<bankVars, marks, books, rows, runVars, acctVars, tally>>

Unplaced == {p \in work : out[p] = "none"}
NoLookup == {}
Known == {p \in Unplaced : row[p] # "none"}

\* Rows found by the bank's reference are settled before the matcher is asked
\* about the others, and without looking at the deadline.
PlaceKnown(p) ==
    /\ pc = "place" /\ p \in Known
    /\ row' = [row EXCEPT ![p] = Written(p)]
    /\ out' = [out EXCEPT ![p] = "adopted"]
    /\ UNCHANGED <<bankVars, marks, books, copies, pc, runVars, feed, todo, work,
                   resume, interrupted, writeFailed, tally>>

\* The rest in order: a new row, a row the user had typed, or a question.
PlaceNew(p) ==
    /\ pc = "place" /\ ~expired
    /\ Known = {} /\ IsFirst(p, Unplaced)
    /\ \E o \in {"created", "adopted", "held"} :
         /\ out' = [out EXCEPT ![p] = o]
         /\ row' = [row EXCEPT ![p] = IF o = "held" THEN @ ELSE Written(p)]
         /\ copies' = [copies EXCEPT ![p] = IF o = "held" THEN @ ELSE @ + 1]
    /\ UNCHANGED <<bankVars, marks, books, pc, runVars, feed, todo, work, resume,
                   interrupted, writeFailed, tally>>

\* An error from any write abandons the whole batch, the bookkeeping of the
\* rows already written included.
PlaceFails ==
    /\ pc = "place" /\ Unplaced # {}
    /\ IF expired THEN UNCHANGED faults ELSE Fault
    /\ writeFailed' = TRUE
    /\ work' = {} /\ out' = NoOutcome
    /\ pc' = "import"
    /\ UNCHANGED <<bankVars, marks, books, rows, runVars, feed, todo, resume,
                   interrupted, refused>>

\* A write whose answer was lost: the row is there, the batch is abandoned.
PlaceAnswerLost(p) ==
    /\ pc = "place" /\ ~expired
    /\ Known = {} /\ IsFirst(p, Unplaced)
    /\ Fault
    /\ row' = [row EXCEPT ![p] = Written(p)]
    /\ copies' = [copies EXCEPT ![p] = @ + 1]
    /\ writeFailed' = TRUE
    /\ work' = {} /\ out' = NoOutcome
    /\ pc' = "import"
    /\ UNCHANGED <<bankVars, marks, books, runVars, feed, todo, resume, interrupted,
                   refused>>

PlacingEnds ==
    /\ pc = "place"
    /\ Unplaced = {} \/ (expired /\ Known = {})
    /\ pc' = "settle"
    /\ UNCHANGED <<bankVars, marks, books, rows, runVars, acctVars, tally>>

AfterSettle(p) == /\ work' = work \ {p}
                  /\ out' = [out EXCEPT ![p] = "none"]
                  /\ pc' = IF work = {p} THEN "import" ELSE "settle"

KeepsEntry(p) ==
    /\ pc = "settle" /\ IsFirst(p, work)
    /\ out[p] \in {"created", "adopted"}
    /\ IF feed[p] = "booked"
       THEN imported' = imported \cup {p} /\ UNCHANGED pend
       ELSE /\ pend' = IF out[p] = "created" THEN pend \cup {p} ELSE pend
            /\ UNCHANGED imported
    /\ resume' = authDay[p]
    /\ AfterSettle(p)
    /\ UNCHANGED <<bankVars, marks, held, rows, runVars, feed, todo, interrupted,
                   writeFailed, tally>>

\* settle: an authorisation is remembered only with a row this run created; a
\* booking consumes the authorisation and leaves its reference.
SettleItem(p) ==
    /\ pc = "settle" /\ IsFirst(p, work)
    /\ out[p] \in {"created", "adopted"}
    /\ IF feed[p] = "booked"
       THEN pend' = pend \ {p} /\ imported' = imported \cup {p}
       ELSE /\ pend' = IF out[p] = "created" THEN pend \cup {p} ELSE pend
            /\ UNCHANGED imported
    /\ resume' = authDay[p]
    /\ AfterSettle(p)
    /\ UNCHANGED <<bankVars, marks, held, rows, runVars, feed, todo,
                   interrupted, writeFailed, tally>>

\* A held transaction joins the review queue, and the resume point stays.
HoldItem(p) ==
    /\ pc = "settle" /\ IsFirst(p, work) /\ out[p] = "held"
    /\ held' = held \cup {p}
    /\ AfterSettle(p)
    /\ UNCHANGED <<bankVars, marks, pend, imported, rows, runVars, feed, todo,
                   resume, interrupted, writeFailed, tally>>

\* holdForReview logs a refused write and the run goes on.
HoldItemFails(p) ==
    /\ pc = "settle" /\ IsFirst(p, work) /\ out[p] = "held"
    /\ Fault
    /\ refused' = IF feed[p] = "booked" THEN refused \cup {p} ELSE refused
    /\ AfterSettle(p)
    /\ UNCHANGED <<bankVars, marks, books, rows, runVars, feed, todo, resume,
                   interrupted, writeFailed>>

\* The batch ran out of time before this one.
SettleCut(p) ==
    /\ pc = "settle" /\ IsFirst(p, work) /\ out[p] = "none"
    /\ interrupted' = TRUE
    /\ work' = {} /\ out' = NoOutcome
    /\ pc' = "import"
    /\ UNCHANGED <<bankVars, marks, books, rows, runVars, feed, todo, resume,
                   writeFailed, tally>>

\* The account's watermark switch.  A resume point is stored at once, ahead
\* of Commit; being synced is concluded after it.
FailureForgotten ==
    /\ pc = "import" /\ todo = {} /\ work = {}
    /\ IF interrupted
       THEN /\ start' = IF resume # 0 THEN [start EXCEPT ![acct] = resume] ELSE start
            /\ UNCHANGED <<synced, backfilled>>
       ELSE MarkSynced(acct) /\ UNCHANGED start
    /\ pc' = "accounts"
    /\ EndAccount
    /\ UNCHANGED <<bankVars, last, globalLast, books, rows, queue, fetchFailed,
                   expired, tally>>

FinishAccount ==
    /\ pc = "import" /\ todo = {} /\ work = {}
    /\ IF writeFailed THEN UNCHANGED <<start, synced, backfilled>>
       ELSE IF interrupted
       THEN /\ start' = IF resume # 0 THEN [start EXCEPT ![acct] = resume] ELSE start
            /\ UNCHANGED <<synced, backfilled>>
       ELSE MarkSynced(acct) /\ UNCHANGED start
    /\ pc' = "accounts"
    /\ EndAccount
    /\ UNCHANGED <<bankVars, last, globalLast, books, rows, queue, fetchFailed,
                   expired, tally>>

-----------------------------------------------------------------------------
(* The end of the run.                                                     *)

\* Every fetch failed: nothing is committed and no watermark moves.
AllFetchesFailed ==
    /\ pc = "accounts" /\ queue = {} /\ fetchFailed = Accounts
    /\ EndRun
    /\ UNCHANGED <<bankVars, marks, books, rows, tally>>

Committed ==
    /\ pc = "accounts" /\ queue = {} /\ fetchFailed # Accounts
    /\ ~(Buffered /\ expired)
    /\ pc' = "stamp"
    /\ UNCHANGED <<bankVars, marks, books, rows, runVars, acctVars, tally>>

CommitFails ==
    /\ pc = "accounts" /\ queue = {} /\ fetchFailed # Accounts
    /\ Buffered
    /\ IF expired THEN UNCHANGED faults ELSE Fault
    /\ EndRun
    /\ UNCHANGED <<bankVars, marks, books, rows, refused>>

\* The stamp is the day the run ends, in three writes a crash may separate.
StampTomorrow ==
    /\ pc = "stamp"
    /\ last' = [a \in Accounts |-> IF a \in synced THEN today + 1 ELSE last[a]]
    /\ pc' = "clear"
    /\ UNCHANGED <<bankVars, start, globalLast, books, rows, runVars, acctVars, tally>>

StampSynced ==
    /\ pc = "stamp"
    /\ last' = [a \in Accounts |-> IF a \in synced THEN today ELSE last[a]]
    /\ pc' = "clear"
    /\ UNCHANGED <<bankVars, start, globalLast, books, rows, runVars, acctVars, tally>>

ClearEveryStart ==
    /\ pc = "clear"
    /\ start' = [a \in Accounts |-> 0]
    /\ pc' = "global"
    /\ UNCHANGED <<bankVars, last, globalLast, books, rows, runVars, acctVars, tally>>

ClearBackfilled ==
    /\ pc = "clear"
    /\ start' = [a \in Accounts |-> IF a \in backfilled THEN 0 ELSE start[a]]
    /\ pc' = "global"
    /\ UNCHANGED <<bankVars, last, globalLast, books, rows, runVars, acctVars, tally>>

\* The installation's watermark moves whatever became of single accounts.
StampGlobal ==
    /\ pc = "global"
    /\ globalLast' = today
    /\ EndRun
    /\ UNCHANGED <<bankVars, start, last, books, rows, tally>>

-----------------------------------------------------------------------------
Init ==
    /\ today = 1
    /\ bank = [p \in Payments |-> "none"]
    /\ authDay = [p \in Payments |-> 0] /\ bookDay = [p \in Payments |-> 0]
    /\ start = ConnectedFrom /\ last = [a \in Accounts |-> 0] /\ globalLast = 0
    /\ pend = {} /\ imported = {} /\ held = {}
    /\ row = [p \in Payments |-> "none"] /\ copies = [p \in Payments |-> 0]
    /\ pc = "idle"
    /\ queue = {} /\ acct = NoAccount
    /\ synced = {} /\ backfilled = {} /\ fetchFailed = {} /\ expired = FALSE
    /\ feed = NoFeed /\ todo = {} /\ work = {} /\ out = NoOutcome
    /\ resume = 0 /\ interrupted = FALSE /\ writeFailed = FALSE
    /\ faults = 0 /\ refused = {}

BankStep == \E p \in Payments :
    BankAuthorises(p) \/ BankBooks(p) \/ BankWithdraws(p) \/ UserDeletesRow(p)

\* What the process does of its own accord.
AccountStep ==
    \/ BeginRun \/ AllFetchesFailed \/ Committed
    \/ StampSynced \/ ClearBackfilled \/ StampGlobal
    \/ \E a \in Accounts : Fetch(a)
ItemStep == \E p \in Payments :
    SkipItem(p) \/ SeenItem(p) \/ QueueItem(p) \/ ConfirmRow(p) \/ ConfirmBooks(p)
BatchStep ==
    \/ CutLoop \/ Flush \/ PlacingEnds \/ FinishAccount
    \/ \E p \in Payments : \/ PlaceKnown(p) \/ PlaceNew(p)
                           \/ SettleItem(p) \/ HoldItem(p) \/ SettleCut(p)

FaultStep ==
    \/ ConnectFails \/ Deadline \/ Crash \/ CommitFails \/ PlaceFails
    \/ \E a \in Accounts : FetchFails(a) \/ AccountUnavailable(a)
    \/ \E p \in Payments : \/ ConfirmFails(p) \/ CrashConsumed(p)
                           \/ PlaceAnswerLost(p) \/ HoldItemFails(p)

RunStep == AccountStep \/ ItemStep \/ BatchStep
Next == BankStep \/ Tick \/ RunStep \/ FaultStep

\* The schedule starts a run for ever and a run under way goes on.
Fairness == WF_vars(RunStep \/ FaultStep)

Spec == Init /\ [][Next]_vars
FairSpec == Spec /\ Fairness
-----------------------------------------------------------------------------
(* What the run promises.                                                  *)

\* A booking the account's owner asked for and that is neither in the budget
\* nor in the review queue.  One the queue refused to store is HeldOffered's.
Owed(p) == /\ bank[p] = "booked" /\ p \notin imported \cup held \cup refused
           /\ ConnectedFrom[AccountOf[p]] # 0
           /\ bookDay[p] >= ConnectedFrom[AccountOf[p]]

\* Whatever failed, was cut short or died, the next request to the bank still
\* reaches every booking that is owed: no watermark and no resume point (the
\* switch after flushWork, the stamps after Commit) has passed one.  For
\* accounts connected with a start date; WindowKept is about the others.
NoGap == \A p \in Payments : Owed(p) => bookDay[p] >= Watermark(AccountOf[p])

\* An account without a start date, never synced, still gets the fallback
\* window: README.md promises the last 30 days on a first run and after a
\* migration of the backend.
WindowKept ==
    \A a \in Accounts :
        start[a] = 0 /\ last[a] = 0 => Watermark(a) <= FallbackFrom

\* holdForReview, of a write the review queue refused: "Left out rather than
\* imported ... the next sync will offer it again".
HeldOffered == \A p \in refused \ (imported \cup held) :
                   bookDay[p] >= Watermark(AccountOf[p])

\* A retry never writes a second row for a payment, although a batch that
\* failed half-way keeps its rows and forgets their bookkeeping
\* (ReconcileBatch and the reference lookup it begins with).
NoDuplicate == \A p \in Payments : copies[p] <= 1

\* A reference is remembered only for a booking whose row is in the budget
\* and cleared: the run skips a remembered reference for ever.
ImportedSettled == \A p \in imported : row[p] = "cleared"

\* An entry that waits for a booking goes before the booking's reference is
\* remembered; one left behind would keep the window open to its day and
\* offer its row to a second settlement (consumePending, settle).
EntryConsumed == pend \cap imported = {}

\* What is held for review is in no row of the budget and settles nothing
\* until it is decided (the Held check at the top of the loop).
HeldOutOfBudget == \A p \in held : copies[p] = 0 /\ p \notin imported

\* Rows and bookkeeping agree at every step, since the process may die at any:
\* references, entries and held keys are written one by one, after the rows.
BooksAgree == ImportedSettled /\ EntryConsumed /\ HeldOutOfBudget

\* While the failures are finite, a booking that is owed is imported or put
\* to the user: a run that failed leaves nothing behind that later runs skip.
Delivered == \A p \in Payments : Owed(p) ~> p \in imported \cup held \cup refused
=============================================================================
