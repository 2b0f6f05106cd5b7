---------------------------- MODULE ReviewQueue ----------------------------
(***************************************************************************)
(* Transactions the matcher would not decide on, and the person who does.  *)
(* A sync (Syncer.run) holds them and may itself settle a held             *)
(* authorisation when its booking arrives; ResolveHeld of src/review.go    *)
(* carries out answers given in the browser.  Both work under one lock,    *)
(* which a request only asks for after it has read the review it is about. *)
(*                                                                         *)
(* A purchase has an authorisation and, later, a booking, which the bank   *)
(* reports under different identities.  The matcher and the person are     *)
(* taken to be right: a booking is never given to another purchase's row,  *)
(* and nobody calls new what the page shows beside its own row.  What is   *)
(* left is the order of reads, writes, bookkeeping, failures and crashes.  *)
(***************************************************************************)
EXTENDS Integers, FiniteSets

CONSTANTS
    Purchases,
    Requests,     \* requests to ResolveHeld that may be under way together
    Buffered,     \* TRUE for a backend that implements budget.Flusher
    MaxFaults     \* bound: failures and crashes in a behaviour

ASSUME ConstantsAssumption ==
    /\ Buffered \in BOOLEAN
    /\ MaxFaults \in Nat

\* The lock names its holder: nobody, the run or a request.
ASSUME LockAssumption == "free" \notin Requests /\ "sync" \notin Requests

VARIABLES
    bank,        \* what the bank lists of a purchase
    queue,       \* held items: match_reviews, and the keys in State.HeldKeys
    rows,        \* rows of a purchase in the budget as bankingsync reads it
    cleared,     \* purchases with a cleared row
    unsent,      \* purchases with a change waiting in the backend's buffer
    server,      \* purchases whose row has reached the budget server
    open,        \* pending_map: an authorisation's row waits for its booking
    consumed,    \* booked_rows: authorisations that must not come again
    done,        \* bookings imported, by reference or identity
    lock,        \* "free", "sync", or the request that holds Syncer.running
    sync,        \* the run: items to do, the item in hand and what it became
    req,         \* per request: where ResolveHeld is, and for which answer
    \* History, read by properties only.
    asked, decided, orphan, stale, faults

budget == <<rows, cleared, unsent, server>>
books  == <<open, consumed, done>>
history == <<asked, decided, orphan, stale>>
vars == <<bank, queue, budget, books, lock, sync, req, history, faults>>

Items == Purchases \X {"auth", "book"}
Auth(c) == <<c, "auth">>
Book(c) == <<c, "book">>

NoItem == <<>>
SyncSteps == {"off", "next", "settle", "retire"}
Outcomes  == {"none", "created", "adopted", "held", "counterpart"}
ReqSteps  == {"idle", "drawn", "read", "write", "publish", "retire", "release"}
Answers   == {"new", "row", "pair"}

NoSync == [pc |-> "off", todo |-> {}, item |-> NoItem, out |-> "none"]
NoRequest == [pc |-> "idle", item |-> NoItem, answer |-> "new"]

TypeOK ==
    /\ bank \in [Purchases -> {"none", "auth", "both", "book"}]
    /\ queue \subseteq Items
    /\ rows \in [Purchases -> Nat]
    /\ cleared \subseteq Purchases /\ unsent \subseteq Purchases
    /\ server \subseteq Purchases
    /\ open \subseteq Purchases /\ consumed \subseteq Purchases
    /\ done \subseteq Purchases
    /\ lock \in {"free", "sync"} \cup Requests
    /\ sync \in [pc : SyncSteps, todo : SUBSET Items, item : Items \cup {NoItem},
                 out : Outcomes]
    /\ req \in [Requests -> [pc : ReqSteps, item : Items \cup {NoItem},
                             answer : Answers]]
    /\ asked \subseteq Items /\ decided \subseteq Items /\ orphan \subseteq Purchases
    /\ stale \subseteq Items /\ faults \in Nat

Fault == faults < MaxFaults /\ faults' = faults + 1

-----------------------------------------------------------------------------
(* The budget and the bookkeeping.                                         *)

ListedRaw == {<<c, bank[c]>> : c \in {d \in Purchases : bank[d] # "none"}}
Listed == {Auth(c) : c \in {d \in Purchases : bank[d] \in {"auth", "both"}}}
          \cup {Book(c) : c \in {d \in Purchases : bank[d] \in {"book", "both"}}}

\* A write to the backend: buffered until Commit, or on the server at once.
Wrote(c) == IF Buffered THEN /\ unsent' = unsent \cup {c} /\ UNCHANGED server
                        ELSE /\ server' = server \cup {c} /\ UNCHANGED unsent

Create(c, isBooking) ==
    /\ rows' = [rows EXCEPT ![c] = @ + 1]
    /\ cleared' = IF isBooking THEN cleared \cup {c} ELSE cleared
    /\ Wrote(c)

\* Adopting writes nothing when the row already is what the bank says.
AdoptRow(c, isBooking) ==
    /\ UNCHANGED rows
    /\ IF isBooking /\ c \notin cleared
       THEN cleared' = cleared \cup {c} /\ Wrote(c)
       ELSE UNCHANGED <<cleared, unsent, server>>

Commit == unsent' = {} /\ server' = server \cup unsent

\* recordBooked marks the row, or consumes the entry that waits on it.
BookingRecorded(c, created) ==
    /\ done' = done \cup {c}
    /\ IF c \in open /\ ~created
       THEN open' = open \ {c} /\ consumed' = consumed \cup {c}
       ELSE UNCHANGED <<open, consumed>>

\* The rows the matcher may offer: State.Booked keeps an authorisation away
\* from a row that stands for a booking.
RowOffered(i) == rows[i[1]] > 0 /\ (i[2] = "auth" => i[1] \notin cleared)
PairOffered(i) == i[2] = "book" /\ Auth(i[1]) \in queue

-----------------------------------------------------------------------------
(* The bank.                                                               *)

BankLists(c) ==
    /\ bank' = [bank EXCEPT ![c] = CASE @ = "none" -> "auth"
                                     [] @ = "auth" -> "both"
                                     [] OTHER      -> "book"]
    /\ bank[c] # "book"
    /\ UNCHANGED <<queue, budget, books, lock, sync, req, history, faults>>

-----------------------------------------------------------------------------
(* A sync.  One item goes through the matcher at a time; ImportRun looks at *)
(* whole batches.                                                          *)

SyncBegin ==
    /\ lock = "free"
    /\ lock' = "sync"
    /\ sync' = [NoSync EXCEPT !.pc = "next", !.todo = Listed]
    /\ UNCHANGED <<bank, queue, budget, books, req, history, faults>>

\* An authorisation comes before the booking of its day.
SyncAt(i) ==
    /\ lock = "sync" /\ sync.pc = "next"
    /\ i \in sync.todo
    /\ i[2] = "book" => Auth(i[1]) \notin sync.todo

\* Held, or settled already.
Passed(i) == \/ i \in queue
             \/ i[2] = "auth" /\ i[1] \in open \cup consumed
             \/ i[2] = "book" /\ i[1] \in done

SyncSkip(i) ==
    /\ SyncAt(i) /\ Passed(i)
    /\ sync' = [sync EXCEPT !.todo = @ \ {i}]
    /\ UNCHANGED <<bank, queue, budget, books, lock, req, history, faults>>

\* ReconcileBatch for one item, then settle's turn.
SyncPlace(i, o) ==
    /\ SyncAt(i) /\ ~Passed(i)
    /\ sync' = [sync EXCEPT !.todo = @ \ {i}, !.pc = "settle", !.item = i, !.out = o]
    /\ \/ o = "held" /\ UNCHANGED budget
       \/ o = "adopted" /\ RowOffered(i) /\ AdoptRow(i[1], i[2] = "book")
       \/ o = "counterpart" /\ ~RowOffered(i) /\ PairOffered(i) /\ Create(i[1], TRUE)
       \/ /\ o = "created" /\ ~RowOffered(i) /\ ~PairOffered(i)
          /\ Create(i[1], i[2] = "book")
    /\ UNCHANGED <<bank, queue, books, lock, req, history, faults>>

\* settle and holdForReview.
SyncSettle ==
    /\ sync.pc = "settle"
    /\ LET i == sync.item
           c == i[1]
       IN /\ queue' = IF sync.out = "held" THEN queue \cup {i} ELSE queue
          /\ asked' = IF sync.out = "held" THEN asked \cup {i} ELSE asked
          /\ IF sync.out = "held" THEN UNCHANGED books
             ELSE IF i[2] = "book" THEN BookingRecorded(c, sync.out # "adopted")
             ELSE /\ open' = IF sync.out = "created" THEN open \cup {c} ELSE open
                  /\ UNCHANGED <<consumed, done>>
    /\ sync' = [sync EXCEPT !.pc = IF sync.out = "counterpart"
                                   THEN "retire" ELSE "next"]
    /\ UNCHANGED <<bank, budget, lock, req, decided, orphan, stale, faults>>

\* retireCounterpart: the booking has settled a held authorisation.
RetireUnmarked(c) ==
    /\ queue' = queue \ {Auth(c)}
    /\ UNCHANGED <<open, consumed, done>>
RetireKeeps(c) ==
    /\ consumed' = consumed \cup {c}
    /\ UNCHANGED <<queue, open, done>>
Retire(c) ==
    /\ consumed' = consumed \cup {c}
    /\ queue' = queue \ {Auth(c)}
    /\ UNCHANGED <<open, done>>

SyncRetire ==
    /\ sync.pc = "retire"
    /\ Retire(sync.item[1])
    /\ sync' = [sync EXCEPT !.pc = "next"]
    /\ UNCHANGED <<bank, budget, lock, req, history, faults>>

SyncEnd ==
    /\ sync.pc = "next" /\ sync.todo = {}
    /\ Commit
    /\ lock' = "free" /\ sync' = NoSync
    /\ UNCHANGED <<bank, queue, rows, cleared, books, req, history, faults>>

\* Any error leaves the items still to do for the next run.
SyncFails ==
    /\ sync.pc = "next"
    /\ Fault
    /\ lock' = "free" /\ sync' = NoSync
    /\ UNCHANGED <<bank, queue, budget, books, req, history>>

-----------------------------------------------------------------------------
(* ResolveHeld.                                                            *)

Goto(u, step) == req' = [req EXCEPT ![u].pc = step]
Return(u) == req' = [req EXCEPT ![u] = NoRequest]

\* The person answers the page as it was drawn: the row the item belongs to,
\* the held authorisation it settles, or that it is new.
Draw(u, i) ==
    /\ req[u].pc = "idle" /\ i \in queue
    /\ \/ RowOffered(i) \/ rows[i[1]] = 0
    /\ req' = [req EXCEPT ![u] =
                 [pc |-> "drawn", item |-> i,
                  answer |-> IF RowOffered(i) THEN "row"
                             ELSE IF PairOffered(i) THEN "pair" ELSE "new"]]
    /\ UNCHANGED <<bank, queue, budget, books, lock, sync, history, faults>>

\* GetMatchReview, refused when the review is gone.
Read(u) ==
    /\ req[u].pc = "drawn"
    /\ IF req[u].item \in queue THEN Goto(u, "read") ELSE Return(u)
    /\ UNCHANGED <<bank, queue, budget, books, lock, sync, history, faults>>

Acquire(u) ==
    /\ req[u].pc = "read"
    /\ IF lock = "free" THEN lock' = u /\ Goto(u, "write")
                        ELSE UNCHANGED lock /\ Return(u)
    /\ UNCHANGED <<bank, queue, budget, books, sync, history, faults>>

\* The candidates are computed afresh; "new" has none to check.
Decide(u) ==
    LET i == req[u].item
        c == i[1]
    IN
    /\ req[u].pc = "write"
    /\ \/ req[u].answer = "new" /\ Create(c, i[2] = "book")
       \/ req[u].answer = "row" /\ RowOffered(i) /\ AdoptRow(c, i[2] = "book")
       \/ req[u].answer = "pair" /\ PairOffered(i) /\ Create(c, TRUE)
    /\ Goto(u, "publish")
    /\ stale' = IF i \in queue THEN stale ELSE stale \cup {i}
    /\ UNCHANGED <<bank, queue, books, lock, sync, asked, decided, orphan, faults>>

Refuse(u) ==
    LET i == req[u].item IN
    /\ req[u].pc = "write"
    /\ \/ req[u].answer = "row" /\ ~RowOffered(i)
       \/ req[u].answer = "pair" /\ ~PairOffered(i)
    /\ lock' = "free" /\ Return(u)
    /\ UNCHANGED <<bank, queue, budget, books, sync, history, faults>>

\* The change is published before the decision is struck from the queue.
PublishLater(u) ==
    /\ req[u].pc = "publish"
    /\ Goto(u, IF req[u].answer = "pair" THEN "retire" ELSE "release")
    /\ UNCHANGED <<bank, queue, budget, books, lock, sync, history, faults>>
Publish(u) ==
    /\ req[u].pc = "publish"
    /\ Commit
    /\ Goto(u, IF req[u].answer = "pair" THEN "retire" ELSE "release")
    /\ UNCHANGED <<bank, queue, rows, cleared, books, lock, sync, history, faults>>

FailureStrikes(u) ==
    /\ req[u].pc \in {"write", "publish", "retire", "release"}
    /\ Fault
    /\ queue' = queue \ {req[u].item}
    /\ lock' = "free" /\ Return(u)
    /\ UNCHANGED <<bank, budget, books, sync, history>>

\* A write, the publishing of it, or striking the review fails: the request
\* ends with an error and the review stays.
RequestFails(u) ==
    /\ req[u].pc \in {"write", "publish", "retire", "release"}
    /\ Fault
    /\ lock' = "free" /\ Return(u)
    /\ UNCHANGED <<bank, queue, budget, books, sync, history>>

RetireHeld(u) ==
    /\ req[u].pc = "retire"
    /\ Retire(req[u].item[1])
    /\ Goto(u, "release")
    /\ UNCHANGED <<bank, budget, lock, sync, history, faults>>

\* releaseHeld: the bookkeeping that stops the item coming round again, then
\* the queue.
Release(u) ==
    LET i == req[u].item
        c == i[1]
        created == req[u].answer = "new"
    IN
    /\ req[u].pc = "release"
    /\ IF i[2] = "book" THEN BookingRecorded(c, created)
       ELSE /\ open' = IF created THEN open \cup {c} ELSE open
            /\ UNCHANGED <<consumed, done>>
    /\ queue' = queue \ {i}
    /\ decided' = decided \cup {i}
    /\ lock' = "free" /\ Return(u)
    /\ UNCHANGED <<bank, budget, sync, asked, orphan, stale, faults>>

\* The process dies and is started again: the buffer is gone, while the local
\* copy of the budget keeps the rows.
Crash ==
    /\ lock # "free"
    /\ Fault
    /\ lock' = "free" /\ sync' = NoSync
    /\ req' = [u \in Requests |-> NoRequest]
    /\ orphan' = orphan \cup unsent
    /\ unsent' = {}
    /\ UNCHANGED <<bank, queue, rows, cleared, server, books, asked, decided, stale>>

-----------------------------------------------------------------------------
Init ==
    /\ bank = [c \in Purchases |-> "none"]
    /\ queue = {}
    /\ rows = [c \in Purchases |-> 0] /\ cleared = {}
    /\ unsent = {} /\ server = {}
    /\ open = {} /\ consumed = {} /\ done = {}
    /\ lock = "free" /\ sync = NoSync
    /\ req = [u \in Requests |-> NoRequest]
    /\ asked = {} /\ decided = {} /\ orphan = {} /\ stale = {} /\ faults = 0

SyncStep ==
    \/ SyncBegin \/ SyncSettle \/ SyncRetire \/ SyncEnd \/ SyncFails
    \/ \E i \in Items : SyncSkip(i) \/ (\E o \in Outcomes : SyncPlace(i, o))
RequestStep ==
    \E u \in Requests :
        \/ \E i \in Items : Draw(u, i)
        \/ Read(u) \/ Acquire(u) \/ Decide(u) \/ Refuse(u) \/ Publish(u)
        \/ RequestFails(u) \/ RetireHeld(u) \/ Release(u)

Next == (\E c \in Purchases : BankLists(c)) \/ SyncStep \/ RequestStep \/ Crash

Spec == Init /\ [][Next]_vars

-----------------------------------------------------------------------------
(* What the queue promises.                                                *)

\* A decision that was struck from the queue is in the budget the user sees,
\* not only in a buffer: publish comes before releaseHeld.  Rows whose
\* buffered change died with the process are ActualCommit's subject.
DecisionPublished ==
    \A i \in decided : i[1] \in server \cup orphan

\* What was put to a person is in the queue until it is in the budget, through
\* every failure and crash: the order budget first, bookkeeping next, queue
\* last in releaseHeld and retireCounterpart.
NeverForgotten == \A i \in asked : i \in queue \/ rows[i[1]] > 0

\* Without a failure, and when no request acts on a review that has left the
\* queue, a purchase ends up as one row, whichever of the sync and the person
\* settles its authorisation and its booking.
OneRow == faults = 0 /\ stale = {} => \A c \in Purchases : rows[c] <= 1

\* An authorisation settled by its booking leaves the queue with it: the page
\* never asks about a purchase that is already booked (retireCounterpart).
AskedOnce ==
    faults = 0 /\ stale = {} /\ lock = "free" =>
        \A c \in Purchases : c \in done => Auth(c) \notin queue
=============================================================================
