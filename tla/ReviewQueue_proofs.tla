------------------------- MODULE ReviewQueue_proofs -------------------------
(***************************************************************************)
(* Theorems about ReviewQueue, for every set of purchases and requests,    *)
(* with and without a buffer, and any number of failures and crashes:      *)
(* nothing asked is forgotten, and what was decided has been published;    *)
(* and, while nothing fails, a purchase has one row.                       *)
(***************************************************************************)
EXTENDS ReviewQueue, TLAPS

-----------------------------------------------------------------------------
(* Types: a request under way and an item that is settled are about items. *)

TypeInv ==
    /\ TypeOK
    /\ sync.pc \in {"settle", "retire"} => sync.item \in Items
    /\ \A u \in Requests : req[u].pc # "idle" => req[u].item \in Items

(* The inductive invariant, part by part.                                  *)

\* A row is on the server, on its way there, or lost with a dead process.
RowsSent == \A c \in Purchases : rows[c] > 0 => c \in server \cup unsent \cup orphan

\* What the run settles, other than by holding it, has its row.
SyncPlaced ==
    (sync.pc = "settle" /\ sync.out # "held") \/ sync.pc = "retire" =>
        rows[sync.item[1]] > 0

\* A request that has written has a row, and one that has published shows it.
AnswerPlaced ==
    \A u \in Requests :
        /\ req[u].pc \in {"publish", "retire", "release"} => rows[req[u].item[1]] > 0
        /\ req[u].pc \in {"retire", "release"} => req[u].item[1] \in server \cup orphan

QueueInv == RowsSent /\ SyncPlaced /\ AnswerPlaced /\ NeverForgotten /\ DecisionPublished

-----------------------------------------------------------------------------
(* An item is a pair of a purchase and one of its two faces.               *)

\* Purchases and items determine each other.
LEMMA ItemParts ==
  /\ \A i \in Items : i[1] \in Purchases /\ i[2] \in {"auth", "book"}
  /\ \A c \in Purchases : Auth(c) \in Items /\ Book(c) \in Items
                          /\ Auth(c)[1] = c /\ Book(c)[1] = c
  BY DEF Items, Auth, Book

\* What the bank lists are items.
LEMMA ListedItems == Listed \subseteq Items
  BY ItemParts DEF Listed

\* Nothing is under way at first.
LEMMA TypeInit == Init => TypeInv
  BY ConstantsAssumption DEF Init, TypeInv, TypeOK, NoSync, NoRequest, SyncSteps, ReqSteps,
     Outcomes, Answers

\* A row written or adopted leaves the budget well typed.
LEMMA WrittenTypes ==
  ASSUME TypeInv, NEW c \in Purchases, NEW b \in BOOLEAN,
         Create(c, b) \/ AdoptRow(c, b)
  PROVE  /\ rows' \in [Purchases -> Nat]
         /\ cleared' \subseteq Purchases
         /\ unsent' \subseteq Purchases
         /\ server' \subseteq Purchases
<1> USE ConstantsAssumption DEF TypeInv, TypeOK, Wrote
<1>1. CASE Create(c, b)
  <2>1. rows' \in [Purchases -> Nat]
    BY <1>1 DEF Create
  <2>2. /\ cleared' \subseteq Purchases /\ unsent' \subseteq Purchases
        /\ server' \subseteq Purchases
    BY <1>1 DEF Create
  <2> QED
    BY <2>1, <2>2
<1>2. CASE AdoptRow(c, b)
  BY <1>2 DEF AdoptRow
<1> QED
  BY <1>1, <1>2

\* Every step keeps the types.
LEMMA TypeStep == TypeInv /\ [Next]_vars => TypeInv'
<1> SUFFICES ASSUME TypeInv, [Next]_vars PROVE TypeInv'
  OBVIOUS
<1> USE ConstantsAssumption, ItemParts
    DEF TypeInv, TypeOK, SyncSteps, ReqSteps, Outcomes, Answers, NoSync, NoRequest,
        vars, budget, books, history, Fault, Goto, Return
<1>1. ASSUME NEW c \in Purchases, BankLists(c) PROVE TypeInv'
  BY <1>1 DEF BankLists
<1>2. CASE SyncBegin
  BY <1>2, ListedItems DEF SyncBegin
<1>3. ASSUME NEW i \in Items, SyncSkip(i) PROVE TypeInv'
  BY <1>3 DEF SyncSkip, SyncAt
<1>4. ASSUME NEW i \in Items, NEW o \in Outcomes, SyncPlace(i, o) PROVE TypeInv'
  <2>1. i[1] \in Purchases /\ (i[2] = "book") \in BOOLEAN
    OBVIOUS
  <2>2. budget' = budget \/ (\E b \in BOOLEAN : Create(i[1], b) \/ AdoptRow(i[1], b))
    BY <1>4, <2>1 DEF SyncPlace
  <2>3. /\ rows' \in [Purchases -> Nat]
        /\ cleared' \subseteq Purchases
        /\ unsent' \subseteq Purchases
        /\ server' \subseteq Purchases
    BY <2>1, <2>2, WrittenTypes
  <2> QED
    BY <1>4, <2>3 DEF SyncPlace, SyncAt
<1>5. CASE SyncSettle
  BY <1>5 DEF SyncSettle, BookingRecorded
<1>6. CASE SyncRetire
  BY <1>6 DEF SyncRetire, Retire
<1>7. CASE SyncEnd
  BY <1>7 DEF SyncEnd, Commit
<1>8. CASE SyncFails
  BY <1>8 DEF SyncFails
<1>9. ASSUME NEW u \in Requests, NEW i \in Items, Draw(u, i) PROVE TypeInv'
  BY <1>9 DEF Draw
<1>10. ASSUME NEW u \in Requests, Read(u) PROVE TypeInv'
  BY <1>10 DEF Read
<1>11. ASSUME NEW u \in Requests, Acquire(u) PROVE TypeInv'
  BY SMTT(30), <1>11 DEF Acquire
<1>12. ASSUME NEW u \in Requests, Decide(u) PROVE TypeInv'
  <2>1. req[u].item \in Items
    BY <1>12 DEF Decide
  <2>2. req[u].item[1] \in Purchases /\ (req[u].item[2] = "book") \in BOOLEAN
    BY <2>1
  <2>3. \E b \in BOOLEAN : Create(req[u].item[1], b) \/ AdoptRow(req[u].item[1], b)
    BY <1>12, <2>2 DEF Decide
  <2>4. /\ rows' \in [Purchases -> Nat]
        /\ cleared' \subseteq Purchases
        /\ unsent' \subseteq Purchases
        /\ server' \subseteq Purchases
    BY <2>2, <2>3, WrittenTypes
  <2> QED
    BY <1>12, <2>1, <2>4 DEF Decide
<1>13. ASSUME NEW u \in Requests, Refuse(u) PROVE TypeInv'
  BY <1>13 DEF Refuse
<1>14. ASSUME NEW u \in Requests, Publish(u) PROVE TypeInv'
  BY <1>14 DEF Publish, Commit
<1>15. ASSUME NEW u \in Requests, RequestFails(u) PROVE TypeInv'
  BY <1>15 DEF RequestFails
<1>16. ASSUME NEW u \in Requests, RetireHeld(u) PROVE TypeInv'
  BY <1>16 DEF RetireHeld, Retire
<1>17. ASSUME NEW u \in Requests, Release(u) PROVE TypeInv'
  BY <1>17 DEF Release, BookingRecorded
<1>18. CASE Crash
  BY <1>18 DEF Crash
<1>19. CASE UNCHANGED vars
  BY <1>19
<1> QED
  BY <1>1, <1>2, <1>3, <1>4, <1>5, <1>6, <1>7, <1>8, <1>9, <1>10, <1>11, <1>12, <1>13,
     <1>14, <1>15, <1>16, <1>17, <1>18, <1>19
  DEF Next, SyncStep, RequestStep

\* Nothing was asked or decided at first.
LEMMA QueueInit == Init => QueueInv
  BY DEF Init, QueueInv, RowsSent, SyncPlaced, AnswerPlaced, NeverForgotten,
     DecisionPublished, NoSync, NoRequest

\* No step of the sync, a request or a fault strikes an item before its row is
\* written, or decides one before its row is published.
LEMMA QueueStep == TypeInv /\ QueueInv /\ [Next]_vars => QueueInv'
<1> SUFFICES ASSUME TypeInv, QueueInv, [Next]_vars PROVE QueueInv'
  OBVIOUS
<1> USE ConstantsAssumption, ItemParts
    DEF TypeInv, TypeOK, QueueInv, RowsSent, SyncPlaced, AnswerPlaced, NeverForgotten,
        DecisionPublished, NoSync, NoRequest, vars, budget, books, history, Goto, Return
<1>1. ASSUME NEW c \in Purchases, BankLists(c) PROVE QueueInv'
  BY <1>1 DEF BankLists
<1>2. CASE SyncBegin
  BY <1>2 DEF SyncBegin
<1>3. ASSUME NEW i \in Items, SyncSkip(i) PROVE QueueInv'
  BY <1>3 DEF SyncSkip, SyncAt
<1>4. ASSUME NEW i \in Items, NEW o \in Outcomes, SyncPlace(i, o) PROVE QueueInv'
  BY <1>4 DEF SyncPlace, SyncAt, RowOffered, AdoptRow, Create, Wrote
<1>5. CASE SyncSettle
  BY <1>5 DEF SyncSettle
<1>6. CASE SyncRetire
  BY <1>6 DEF SyncRetire, Retire
<1>7. CASE SyncEnd
  BY <1>7 DEF SyncEnd, Commit
<1>8. CASE SyncFails
  BY <1>8 DEF SyncFails
<1>9. ASSUME NEW u \in Requests, NEW i \in Items, Draw(u, i) PROVE QueueInv'
  BY <1>9 DEF Draw
<1>10. ASSUME NEW u \in Requests, Read(u) PROVE QueueInv'
  BY <1>10 DEF Read
<1>11. ASSUME NEW u \in Requests, Acquire(u) PROVE QueueInv'
  BY <1>11 DEF Acquire
<1>12. ASSUME NEW u \in Requests, Decide(u) PROVE QueueInv'
  BY SMTT(30), <1>12 DEF Decide, RowOffered, AdoptRow, Create, Wrote
<1>13. ASSUME NEW u \in Requests, Refuse(u) PROVE QueueInv'
  BY <1>13 DEF Refuse
<1>14. ASSUME NEW u \in Requests, Publish(u) PROVE QueueInv'
  BY <1>14 DEF Publish, Commit
<1>15. ASSUME NEW u \in Requests, RequestFails(u) PROVE QueueInv'
  BY <1>15 DEF RequestFails
<1>16. ASSUME NEW u \in Requests, RetireHeld(u) PROVE QueueInv'
  BY <1>16 DEF RetireHeld, Retire
<1>17. ASSUME NEW u \in Requests, Release(u) PROVE QueueInv'
  BY <1>17 DEF Release
<1>18. CASE Crash
  BY <1>18 DEF Crash
<1>19. CASE UNCHANGED vars
  BY <1>19
<1> QED
  BY <1>1, <1>2, <1>3, <1>4, <1>5, <1>6, <1>7, <1>8, <1>9, <1>10, <1>11, <1>12, <1>13,
     <1>14, <1>15, <1>16, <1>17, <1>18, <1>19
  DEF Next, SyncStep, RequestStep

\* Types and the queue's invariant together are kept by every step.
LEMMA QueueHolds == Spec => [](TypeInv /\ QueueInv)
  BY TypeInit, TypeStep, QueueInit, QueueStep, PTL DEF Spec

\* Every reachable state of the queue, the sync and the requests is well typed.
THEOREM QueueTypeCorrect == Spec => []TypeOK
<1>1. TypeInv => TypeOK
  BY DEF TypeInv
<1> QED
  BY <1>1, QueueHolds, PTL

\* What was put to a person stays in the queue until its row is in the budget,
\* whatever fails and however sync and requests interleave (releaseHeld).
THEOREM NeverForgottenCorrect == Spec => []NeverForgotten
<1>1. QueueInv => NeverForgotten
  BY DEF QueueInv
<1> QED
  BY <1>1, QueueHolds, PTL

\* A decision struck from the queue has left the backend's buffer: publishing
\* comes before releasing on every path (ResolveHeld).
THEOREM DecisionPublishedCorrect == Spec => []DecisionPublished
<1>1. QueueInv => DecisionPublished
  BY DEF QueueInv
<1> QED
  BY <1>1, QueueHolds, PTL

-----------------------------------------------------------------------------
(* One row per purchase.  While nothing has failed and no request has acted *)
(* on a review that had left the queue, the bookkeeping never loses sight of *)
(* a purchase: an authorisation is in the queue, or its row waits for the   *)
(* booking, or the booking has consumed it, from its first run on.          *)

Calm == faults = 0 /\ stale = {}

\* Syncer.running: the run, and a request past its check, exclude each other.
LockInv ==
    /\ lock = "sync" <=> sync.pc # "off"
    /\ \A u \in Requests :
          lock = u <=> req[u].pc \in {"write", "publish", "retire", "release"}

Waiting == {"drawn", "read", "write"}
Acting  == {"publish", "retire", "release"}

Handled(c) == Auth(c) \in queue \/ c \in open \cup consumed
MayCome(c) == Auth(c) \in sync.todo \/ bank[c] # "book"

\* The row of a purchase is there and the bookkeeping about it is not.
SyncWrote(c) ==
    /\ \/ sync.pc = "retire"
       \/ sync.pc = "settle" /\ sync.out # "held"
    /\ sync.item[1] = c
ReqWrote(c) == \E u \in Requests : req[u].pc \in Acting /\ req[u].item[1] = c
Underway(c) == SyncWrote(c) \/ ReqWrote(c)

AtMostOne == \A c \in Purchases : rows[c] <= 1

\* What the books say of a purchase, they say of its row.
BooksHaveRows ==
    \A c \in Purchases : c \in open \cup consumed \cup done \cup cleared => rows[c] > 0

\* A held authorisation has no row, and neither has a purchase whose
\* authorisation nobody has handled and whose booking is not done.
NoRowYet ==
    \A c \in Purchases :
        /\ ~Underway(c)
        /\ \/ Auth(c) \in queue
           \/ ~Handled(c) /\ c \notin done
        => rows[c] = 0

\* An authorisation that is still to come is ahead of its booking.
FirstComes ==
    \A c \in Purchases :
        /\ ~Handled(c) /\ MayCome(c)
        /\ ~(sync.pc = "settle" /\ sync.item = Auth(c))
        => /\ Book(c) \notin queue /\ c \notin done
           /\ Book(c) \in sync.todo => Auth(c) \in sync.todo
           /\ sync.pc \in {"settle", "retire"} => sync.item # Book(c)

BookedLeaves == \A c \in Purchases : c \in done => Book(c) \notin queue

\* The item in hand is new to the books, and its outcome fits the queue.
InHand ==
    /\ sync.pc = "settle" => ~Passed(sync.item)
    /\ \A c \in Purchases :
        /\ sync.pc = "settle" /\ sync.item = Auth(c) =>
              /\ sync.out \in {"created", "held"} /\ Auth(c) \notin sync.todo
              /\ Book(c) \notin queue /\ c \notin done
              /\ sync.out = "held" => rows[c] = 0
        /\ sync.pc = "settle" /\ sync.item = Book(c) /\ Auth(c) \in queue =>
              sync.out \in {"held", "counterpart"}
        /\ sync.pc = "retire" /\ sync.item[1] = c =>
              sync.item = Book(c) /\ Auth(c) \in queue
    /\ sync.pc = "settle" /\ sync.out = "counterpart" =>
          sync.item[2] = "book" /\ Auth(sync.item[1]) \in queue

\* A request answers what the queue still holds, and with what the page showed.
AnswerFits ==
    \A u \in Requests : \A c \in Purchases :
        /\ req[u].pc \in Acting /\ req[u].item[1] = c => req[u].item \in queue
        /\ req[u].pc \in Acting /\ req[u].item = Auth(c) => req[u].answer = "new"
        /\ req[u].pc # "idle" /\ req[u].answer = "pair" => req[u].item[2] = "book"
        /\ req[u].pc = "retire" => req[u].answer = "pair"
        /\ req[u].pc \in {"publish", "retire"} /\ req[u].answer = "pair"
              => Auth(req[u].item[1]) \in queue
        /\ req[u].pc \in Acting /\ req[u].item = Book(c) /\ Auth(c) \in queue
              => req[u].pc \in {"publish", "retire"} /\ req[u].answer = "pair"
        /\ req[u].pc \in Waiting /\ req[u].item = Book(c) =>
              /\ Book(c) \in queue \/ c \in done
              /\ req[u].answer = "new" /\ Book(c) \in queue => ~Handled(c) /\ ~MayCome(c)

CalmInv ==
    AtMostOne /\ BooksHaveRows /\ NoRowYet /\ FirstComes /\ BookedLeaves /\ InHand
        /\ AnswerFits
OnceInv == LockInv /\ (Calm => CalmInv)

\* The lock is free, the run's or a request's, and is what they believe.
LEMMA LockInit == Init => LockInv
  BY LockAssumption DEF Init, LockInv, NoSync, NoRequest

\* Every step hands the lock over as the program does.
LEMMA LockStep == TypeInv /\ LockInv /\ [Next]_vars => LockInv'
<1> SUFFICES ASSUME TypeInv, LockInv, [Next]_vars PROVE LockInv'
  OBVIOUS
<1> USE LockAssumption
    DEF TypeInv, TypeOK, LockInv, NoSync, NoRequest, vars, books, budget, history, Goto,
         Return,
        ReqSteps, SyncSteps
<1>1. ASSUME NEW c \in Purchases, BankLists(c) PROVE LockInv'
  BY <1>1 DEF BankLists
<1>2. CASE SyncBegin
  BY <1>2 DEF SyncBegin
<1>3. ASSUME NEW i \in Items, SyncSkip(i) PROVE LockInv'
  BY <1>3 DEF SyncSkip, SyncAt
<1>4. ASSUME NEW i \in Items, NEW o \in Outcomes, SyncPlace(i, o) PROVE LockInv'
  BY <1>4 DEF SyncPlace, SyncAt
<1>5. CASE SyncSettle
  BY <1>5 DEF SyncSettle
<1>6. CASE SyncRetire
  BY <1>6 DEF SyncRetire
<1>7. CASE SyncEnd
  BY <1>7 DEF SyncEnd
<1>8. CASE SyncFails
  BY <1>8 DEF SyncFails
<1>9. ASSUME NEW u \in Requests, NEW i \in Items, Draw(u, i) PROVE LockInv'
  BY <1>9 DEF Draw
<1>10. ASSUME NEW u \in Requests, Read(u) PROVE LockInv'
  BY <1>10 DEF Read
<1>11. ASSUME NEW u \in Requests, Acquire(u) PROVE LockInv'
  BY <1>11 DEF Acquire
<1>12. ASSUME NEW u \in Requests, Decide(u) PROVE LockInv'
  BY <1>12 DEF Decide
<1>13. ASSUME NEW u \in Requests, Refuse(u) PROVE LockInv'
  BY <1>13 DEF Refuse
<1>14. ASSUME NEW u \in Requests, Publish(u) PROVE LockInv'
  BY <1>14 DEF Publish
<1>15. ASSUME NEW u \in Requests, RequestFails(u) PROVE LockInv'
  BY <1>15 DEF RequestFails
<1>16. ASSUME NEW u \in Requests, RetireHeld(u) PROVE LockInv'
  BY <1>16 DEF RetireHeld
<1>17. ASSUME NEW u \in Requests, Release(u) PROVE LockInv'
  BY <1>17 DEF Release
<1>18. CASE Crash
  BY <1>18 DEF Crash
<1>19. CASE UNCHANGED vars
  BY <1>19
<1> QED
  BY <1>1, <1>2, <1>3, <1>4, <1>5, <1>6, <1>7, <1>8, <1>9, <1>10, <1>11, <1>12, <1>13,
     <1>14, <1>15, <1>16, <1>17, <1>18, <1>19
  DEF Next, SyncStep, RequestStep

\* An item is an authorisation or a booking, and names its purchase.
LEMMA ItemFaces ==
  /\ \A i \in Items : \/ i[1] \in Purchases /\ i[2] = "auth" /\ i = Auth(i[1])
                      \/ i[1] \in Purchases /\ i[2] = "book" /\ i = Book(i[1])
  /\ \A c \in Purchases : /\ Auth(c) \in Items /\ Auth(c)[1] = c /\ Auth(c)[2] = "auth"
                          /\ Book(c) \in Items /\ Book(c)[1] = c /\ Book(c)[2] = "book"
<1>1. \A i \in Items : \/ i[1] \in Purchases /\ i[2] = "auth" /\ i = Auth(i[1])
                       \/ i[1] \in Purchases /\ i[2] = "book" /\ i = Book(i[1])
  <2> TAKE i \in Items
  <2>1. PICK c \in Purchases, f \in {"auth", "book"} : i = <<c, f>>
    BY DEF Items
  <2> QED
    BY <2>1 DEF Auth, Book
<1>2. \A c \in Purchases :
         /\ Auth(c) \in Items /\ Auth(c)[1] = c /\ Auth(c)[2] = "auth"
         /\ Book(c) \in Items /\ Book(c)[1] = c /\ Book(c)[2] = "book"
  BY DEF Items, Auth, Book
<1> QED
  BY <1>1, <1>2

\* The bank lists an authorisation, a booking or both.
LEMMA ListedFaces ==
  ASSUME NEW c \in Purchases
  PROVE  /\ Auth(c) \in Listed <=> bank[c] \in {"auth", "both"}
         /\ Book(c) \in Listed <=> bank[c] \in {"book", "both"}
  BY ItemFaces DEF Listed, Auth, Book

\* A calm step follows a calm state: faults and stale answers only grow.
LEMMA CalmBefore == TypeInv /\ [Next]_vars /\ Calm' => Calm /\ faults' = faults
<1> SUFFICES ASSUME TypeInv, [Next]_vars, Calm' PROVE Calm /\ faults' = faults
  OBVIOUS
<1>1. faults \in Nat /\ faults' = 0 /\ stale' = {}
  BY DEF TypeInv, TypeOK, Calm
<1>2. ~Fault
  BY <1>1 DEF Fault
<1>3. (faults' = faults /\ stale \subseteq stale') \/ Fault
  BY DEF Next, SyncStep, RequestStep, vars, history, BankLists, SyncBegin, SyncSettle,
         SyncRetire, SyncEnd, SyncFails, SyncSkip, SyncPlace, Draw, Read, Acquire, Decide,
         Refuse, Publish, RequestFails, RetireHeld, Release, Crash
<1> QED
  BY <1>1, <1>2, <1>3 DEF Calm

\* Nothing is under way at first.
LEMMA OnceInit == Init => CalmInv
  BY ItemParts
  DEF Init, NoSync, NoRequest, CalmInv, AtMostOne, BooksHaveRows, NoRowYet, FirstComes,
      BookedLeaves, InHand, AnswerFits, Handled, MayCome, Underway, SyncWrote, ReqWrote,
      Acting, Waiting

\* A calm step keeps every purchase in sight of the bookkeeping.
LEMMA OnceStep ==
  ASSUME TypeInv, TypeInv', LockInv, LockInv', QueueInv, QueueInv', CalmInv,
         [Next]_vars, Calm, Calm'
  PROVE  CalmInv'
<1> USE LockAssumption, ItemFaces
    DEF TypeInv, TypeOK, LockInv, QueueInv, SyncPlaced, AnswerPlaced, Calm, CalmInv,
        Handled, MayCome, Underway, SyncWrote, ReqWrote, Acting, Waiting, NoSync,
             NoRequest, Passed,
        AtMostOne, BooksHaveRows, NoRowYet, FirstComes, BookedLeaves, InHand, AnswerFits,
        vars, books, budget, history, Goto, Return
<1>1. ASSUME NEW p \in Purchases, BankLists(p) PROVE CalmInv'
  <2> USE <1>1 DEF BankLists
  <2>1. AtMostOne'
    BY SMTT(20)
  <2>2. BooksHaveRows'
    BY SMTT(20)
  <2>3. NoRowYet'
    BY SMTT(20)
  <2>4. FirstComes'
    BY SMTT(20)
  <2>5. BookedLeaves'
    BY SMTT(20)
  <2>6. InHand'
    BY SMTT(20)
  <2>7. AnswerFits'
    BY SMTT(20)
  <2> QED
    BY <2>1, <2>2, <2>3, <2>4, <2>5, <2>6, <2>7
<1>2. CASE SyncBegin
  <2> USE <1>2, ListedFaces, ListedItems DEF SyncBegin
  <2>1. AtMostOne'
    BY SMTT(20)
  <2>2. BooksHaveRows'
    BY SMTT(20)
  <2>3. NoRowYet'
    BY SMTT(20)
  <2>4. FirstComes'
    BY SMTT(20)
  <2>5. BookedLeaves'
    BY SMTT(20)
  <2>6. InHand'
    BY SMTT(20)
  <2>7. AnswerFits'
    BY SMTT(20)
  <2> QED
    BY <2>1, <2>2, <2>3, <2>4, <2>5, <2>6, <2>7
<1>3. ASSUME NEW i \in Items, SyncSkip(i) PROVE CalmInv'
  <2> USE <1>3 DEF SyncSkip, SyncAt
  <2>1. AtMostOne'
    BY SMTT(20)
  <2>2. BooksHaveRows'
    BY SMTT(20)
  <2>3. NoRowYet'
    BY SMTT(20)
  <2>4. FirstComes'
    BY SMTT(20)
  <2>5. BookedLeaves'
    BY SMTT(20)
  <2>6. InHand'
    BY SMTT(20)
  <2>7. AnswerFits'
    BY SMTT(20)
  <2> QED
    BY <2>1, <2>2, <2>3, <2>4, <2>5, <2>6, <2>7
<1>4. ASSUME NEW i \in Items, NEW o \in Outcomes, SyncPlace(i, o) PROVE CalmInv'
  <2> USE <1>4 DEF SyncPlace, SyncAt, RowOffered, PairOffered, AdoptRow, Create, Outcomes
  <2>1. AtMostOne'
    BY SMTT(20)
  <2>2. BooksHaveRows'
    BY SMTT(20)
  <2>3. NoRowYet'
    BY SMTT(20)
  <2>4. FirstComes'
    BY SMTT(20)
  <2>5. BookedLeaves'
    BY SMTT(20)
  <2>6. InHand'
    BY SMTT(20)
  <2>7. AnswerFits'
    BY SMTT(20)
  <2> QED
    BY <2>1, <2>2, <2>3, <2>4, <2>5, <2>6, <2>7
<1>5. CASE SyncSettle
  <2> USE <1>5 DEF SyncSettle, BookingRecorded
  <2>1. AtMostOne'
    BY SMTT(20)
  <2>2. BooksHaveRows'
    BY SMTT(20)
  <2>3. NoRowYet'
    BY SMTT(20)
  <2>4. FirstComes'
    BY SMTT(20)
  <2>5. BookedLeaves'
    BY SMTT(20)
  <2>6. InHand'
    BY SMTT(20)
  <2>7. AnswerFits'
    BY SMTT(20)
  <2> QED
    BY <2>1, <2>2, <2>3, <2>4, <2>5, <2>6, <2>7
<1>6. CASE SyncRetire
  <2> USE <1>6 DEF SyncRetire, Retire
  <2>1. AtMostOne'
    BY SMTT(20)
  <2>2. BooksHaveRows'
    BY SMTT(20)
  <2>3. NoRowYet'
    BY SMTT(20)
  <2>4. FirstComes'
    BY SMTT(20)
  <2>5. BookedLeaves'
    BY SMTT(20)
  <2>6. InHand'
    BY SMTT(20)
  <2>7. AnswerFits'
    BY SMTT(20)
  <2> QED
    BY <2>1, <2>2, <2>3, <2>4, <2>5, <2>6, <2>7
<1>7. CASE SyncEnd
  BY <1>7 DEF SyncEnd, Commit
<1>8. ASSUME NEW u \in Requests, NEW i \in Items, Draw(u, i) PROVE CalmInv'
  <2> USE <1>8 DEF Draw, RowOffered, PairOffered
  <2>1. AtMostOne'
    BY SMTT(20)
  <2>2. BooksHaveRows'
    BY SMTT(20)
  <2>3. NoRowYet'
    BY SMTT(20)
  <2>4. FirstComes'
    BY SMTT(20)
  <2>5. BookedLeaves'
    BY SMTT(20)
  <2>6. InHand'
    BY SMTT(20)
  <2>7. AnswerFits'
    BY SMTT(20)
  <2> QED
    BY <2>1, <2>2, <2>3, <2>4, <2>5, <2>6, <2>7
<1>9. ASSUME NEW u \in Requests, Read(u) PROVE CalmInv'
  <2> USE <1>9 DEF Read
  <2>1. AtMostOne'
    BY SMTT(20)
  <2>2. BooksHaveRows'
    BY SMTT(20)
  <2>3. NoRowYet'
    BY SMTT(20)
  <2>4. FirstComes'
    BY SMTT(20)
  <2>5. BookedLeaves'
    BY SMTT(20)
  <2>6. InHand'
    BY SMTT(20)
  <2>7. AnswerFits'
    BY SMTT(20)
  <2> QED
    BY <2>1, <2>2, <2>3, <2>4, <2>5, <2>6, <2>7
<1>10. ASSUME NEW u \in Requests, Acquire(u) PROVE CalmInv'
  <2> USE <1>10 DEF Acquire
  <2>1. AtMostOne'
    BY SMTT(20)
  <2>2. BooksHaveRows'
    BY SMTT(20)
  <2>3. NoRowYet'
    BY SMTT(20)
  <2>4. FirstComes'
    BY SMTT(20)
  <2>5. BookedLeaves'
    BY SMTT(20)
  <2>6. InHand'
    BY SMTT(20)
  <2>7. AnswerFits'
    BY SMTT(20)
  <2> QED
    BY <2>1, <2>2, <2>3, <2>4, <2>5, <2>6, <2>7
<1>11. ASSUME NEW u \in Requests, Decide(u) PROVE CalmInv'
  <2> USE <1>11 DEF Decide, RowOffered, PairOffered, AdoptRow, Create
  <2>1. AtMostOne'
    <3>1. req[u].item \in queue /\ lock = u
      OBVIOUS
    <3>2. ~Underway(req[u].item[1])
      BY <3>1
    <3>3. rows' # rows => rows[req[u].item[1]] = 0 \/ AdoptRow(req[u].item[1],
         req[u].item[2] = "book")
      BY <3>1, <3>2
    <3> QED
      BY <3>3
  <2>2. BooksHaveRows'
    BY SMTT(20)
  <2>3. NoRowYet'
    BY SMTT(20)
  <2>4. FirstComes'
    BY SMTT(20)
  <2>5. BookedLeaves'
    BY SMTT(20)
  <2>6. InHand'
    BY SMTT(20)
  <2>7. AnswerFits'
    <3>1. req[u].item \in queue /\ lock = u /\ req[u].item \in Items
      OBVIOUS
    <3>2. ~Underway(req[u].item[1])
      BY <3>1
    <3>3. req[u].item[2] = "auth" \/ Auth(req[u].item[1]) \in queue => req[u].answer # "row"
      BY <3>1, <3>2
    <3>4. /\ req[u].item[2] = "auth" => req[u].answer = "new"
          /\ req[u].item[2] = "book" /\ Auth(req[u].item[1]) \in queue => req[u].answer = "pair"
      BY <3>1, <3>3
    <3>5. /\ queue' = queue /\ done' = done /\ open' = open /\ consumed' = consumed
          /\ bank' = bank /\ sync' = sync
          /\ \A v \in Requests \ {u} : req'[v] = req[v] /\ req[v].pc \notin Acting
          /\ req'[u] = [req[u] EXCEPT !.pc = "publish"]
      OBVIOUS
    <3> QED
      BY <3>1, <3>4, <3>5, SMTT(20)
  <2> QED
    BY <2>1, <2>2, <2>3, <2>4, <2>5, <2>6, <2>7
<1>12. ASSUME NEW u \in Requests, Refuse(u) PROVE CalmInv'
  BY <1>12 DEF Refuse
<1>13. ASSUME NEW u \in Requests, Publish(u) PROVE CalmInv'
  <2> USE <1>13 DEF Publish, Commit
  <2>1. AtMostOne'
    BY SMTT(20)
  <2>2. BooksHaveRows'
    BY SMTT(20)
  <2>3. NoRowYet'
    BY SMTT(20)
  <2>4. FirstComes'
    BY SMTT(20)
  <2>5. BookedLeaves'
    BY SMTT(20)
  <2>6. InHand'
    BY SMTT(20)
  <2>7. AnswerFits'
    BY SMTT(20)
  <2> QED
    BY <2>1, <2>2, <2>3, <2>4, <2>5, <2>6, <2>7
<1>14. ASSUME NEW u \in Requests, RetireHeld(u) PROVE CalmInv'
  <2> USE <1>14 DEF RetireHeld, Retire
  <2>1. AtMostOne'
    BY SMTT(20)
  <2>2. BooksHaveRows'
    BY SMTT(20)
  <2>3. NoRowYet'
    BY SMTT(20)
  <2>4. FirstComes'
    BY SMTT(20)
  <2>5. BookedLeaves'
    BY SMTT(20)
  <2>6. InHand'
    BY SMTT(20)
  <2>7. AnswerFits'
    BY SMTT(20)
  <2> QED
    BY <2>1, <2>2, <2>3, <2>4, <2>5, <2>6, <2>7
<1>15. ASSUME NEW u \in Requests, Release(u) PROVE CalmInv'
  <2> USE <1>15 DEF Release, BookingRecorded
  <2>1. AtMostOne'
    BY SMTT(20)
  <2>2. BooksHaveRows'
    BY SMTT(20)
  <2>3. NoRowYet'
    BY SMTT(20)
  <2>4. FirstComes'
    BY SMTT(20)
  <2>5. BookedLeaves'
    BY SMTT(20)
  <2>6. InHand'
    BY SMTT(20)
  <2>7. AnswerFits'
    BY SMTT(20)
  <2> QED
    BY <2>1, <2>2, <2>3, <2>4, <2>5, <2>6, <2>7
<1>16. CASE UNCHANGED vars
  <2> USE <1>16
  <2>1. AtMostOne'
    OBVIOUS
  <2>2. BooksHaveRows'
    OBVIOUS
  <2>3. NoRowYet'
    OBVIOUS
  <2>4. FirstComes'
    OBVIOUS
  <2>5. BookedLeaves'
    OBVIOUS
  <2>6. InHand'
    OBVIOUS
  <2>7. AnswerFits'
    OBVIOUS
  <2> QED
    BY <2>1, <2>2, <2>3, <2>4, <2>5, <2>6, <2>7
<1>17. ~SyncFails /\ ~Crash /\ (\A u \in Requests : ~RequestFails(u))
  BY DEF SyncFails, Crash, RequestFails, Fault
<1> QED
  BY <1>1, <1>2, <1>3, <1>4, <1>5, <1>6, <1>7, <1>8, <1>9, <1>10, <1>11, <1>12, <1>13,
       <1>14, <1>15, <1>16, <1>17
  DEF Next, SyncStep, RequestStep

\* The lock, and while all is calm the bookkeeping, are kept by every step.
LEMMA OnceHolds == Spec => [](TypeInv /\ QueueInv /\ OnceInv)
<1>1. Init => OnceInv
  BY LockInit, OnceInit DEF OnceInv
<1>2. ASSUME TypeInv, TypeInv', QueueInv, QueueInv', OnceInv, [Next]_vars
      PROVE  OnceInv'
  <2>1. LockInv /\ LockInv'
    BY <1>2, LockStep DEF OnceInv
  <2>2. ASSUME Calm' PROVE CalmInv'
    <3>1. Calm /\ CalmInv
      BY <1>2, <2>2, CalmBefore DEF OnceInv
    <3> QED
      BY <1>2, <2>1, <2>2, <3>1, OnceStep
  <2> QED
    BY <2>1, <2>2 DEF OnceInv
<1> QED
  BY <1>1, <1>2, QueueHolds, PTL DEF Spec

\* Without a failure or an answer to a review that had left the queue, a purchase
\* has one row, whichever of run and person settles its authorisation and its
\* booking, and in whatever order (Syncer.run, ResolveHeld).
THEOREM OneRowCorrect == Spec => []OneRow
<1>1. OnceInv => OneRow
  BY DEF OnceInv, Calm, CalmInv, AtMostOne, OneRow
<1> QED
  BY <1>1, OnceHolds, PTL

\* In the same circumstances the page never asks about a purchase that is
\* already booked (retireCounterpart).
THEOREM AskedOnceCorrect == Spec => []AskedOnce
<1>1. TypeInv /\ OnceInv => AskedOnce
  <2> SUFFICES ASSUME TypeInv, OnceInv, Calm, lock = "free",
                      NEW c \in Purchases, c \in done, Auth(c) \in queue
               PROVE  FALSE
    BY DEF AskedOnce, Calm
  <2>1. rows[c] > 0 /\ rows[c] \in Nat
    BY DEF OnceInv, CalmInv, BooksHaveRows, TypeInv, TypeOK
  <2>2. ~Underway(c)
    BY LockAssumption
    DEF OnceInv, LockInv, Underway, SyncWrote, ReqWrote, Acting
  <2>3. rows[c] = 0
    BY <2>2 DEF OnceInv, CalmInv, NoRowYet
  <2> QED
    BY <2>1, <2>3
<1> QED
  BY <1>1, OnceHolds, PTL
=============================================================================
