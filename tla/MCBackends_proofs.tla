-------------------------- MODULE MCBackends_proofs --------------------------
(***************************************************************************)
(* Theorems about ActualCommit and FireflyAccounts.  For every set of      *)
(* cells, any clock bound and any number of faults: the buffer of the      *)
(* Actual backend implements the contract of budget.Store (DurableWrites)  *)
(* within a session, and a run starts on a local copy that misses no       *)
(* message of another client.  For every set of bank accounts, names and   *)
(* IBANs and any number of edits and losses: a bank account stays in the   *)
(* asset account it was settled in, and no opening balance is replaced.    *)
(* The last theorem sets the types of all three models side by side, as in *)
(* MCBackends.                                                             *)
(***************************************************************************)
EXTENDS MCBackends, FireflyStore_proofs, FiniteSetTheorems, TLAPS

\* What the refinement needs of the state: the buffer is a list of cells, and
\* whatever is queued or on the server was once written by a run.
BufferInv ==
    /\ changes \in Seq(Cells)
    /\ Waiting \cup Published \subseteq imported

-----------------------------------------------------------------------------
(* The buffer.                                                             *)

\* An empty buffer queues nothing.
LEMMA EmptyQueuesNothing == ToSet(<<>>) = {} /\ <<>> \in Seq(Cells)
  BY DEF ToSet

\* A tracked change joins the queue.
LEMMA AppendQueues ==
  ASSUME NEW s \in Seq(Cells), NEW c \in Cells
  PROVE  /\ ToSet(Append(s, c)) = ToSet(s) \cup {c}
         /\ Append(s, c) \in Seq(Cells)
<1>1. Append(s, c) \in Seq(Cells) /\ Len(Append(s, c)) = Len(s) + 1
  OBVIOUS
<1>2. ASSUME NEW x \in ToSet(Append(s, c)) PROVE x \in ToSet(s) \cup {c}
  BY <1>2 DEF ToSet
<1>3. ASSUME NEW x \in ToSet(s) PROVE x \in ToSet(Append(s, c))
  BY <1>3 DEF ToSet
<1>4. c \in ToSet(Append(s, c))
  BY <1>1 DEF ToSet
<1> QED
  BY <1>1, <1>2, <1>3, <1>4

\* Sending publishes what waits.
LEMMA SendPublishes == Send => Published' = Published \cup Waiting
<1> SUFFICES ASSUME Send PROVE Published' = Published \cup Waiting
  OBVIOUS
<1>1. ASSUME NEW c \in Published' PROVE c \in Published \cup Waiting
  BY <1>1 DEF Published, Send, Stamped, Waiting, ToSet
<1>2. ASSUME NEW c \in Published PROVE c \in Published'
  BY <1>2 DEF Published, Send
<1>3. ASSUME NEW c \in Waiting PROVE c \in Published'
  <2>1. PICK i \in DOMAIN changes : changes[i] = c
    BY <1>3 DEF Waiting, ToSet
  <2>2. [ts |-> Stamp(i), cell |-> c, by |-> "ours"] \in Stamped
    BY <2>1 DEF Stamped
  <2> QED
    BY <2>2 DEF Send, Published
<1> QED
  BY <1>1, <1>2, <1>3

\* What the other client writes publishes nothing of ours.
LEMMA EditsPublishNothing ==
  ASSUME NEW c \in Cells, UserEdits(c)
  PROVE  Published' = Published
  BY DEF UserEdits, Published

\* Nothing has been written at first.
LEMMA BufferInit == Init => BufferInv
  BY EmptyQueuesNothing DEF Init, BufferInv, Waiting, Published

\* Every step is one of the contract, or nothing to it, and keeps the buffer.
LEMMA StepRefines ==
  ASSUME BufferInv, [Next]_vars
  PROVE  BufferInv' /\ [Contract!Next]_<<Waiting, Published, sessions>>
<1> USE DEF BufferInv, vars, client
<1>1. ASSUME UNCHANGED <<changes, server, imported, sessions>>
      PROVE  BufferInv' /\ UNCHANGED <<Waiting, Published, sessions>>
  BY <1>1 DEF Waiting, Published
<1>2. ASSUME Send, UNCHANGED <<imported, sessions>>, changes' = <<>>
      PROVE  BufferInv' /\ Contract!Publish
  BY <1>2, SendPublishes, EmptyQueuesNothing DEF Waiting, Contract!Publish
<1>3. ASSUME Send, UNCHANGED <<imported, sessions, changes>>
      PROVE  BufferInv' /\ Contract!PublishUnanswered
  BY <1>3, SendPublishes DEF Waiting, Contract!PublishUnanswered
<1>4. ASSUME EndSession PROVE BufferInv' /\ Contract!EndSession
  BY <1>4, EmptyQueuesNothing DEF EndSession, Waiting, Published, Contract!EndSession
<1>5. ASSUME NEW c \in Cells, UserEdits(c)
      PROVE  BufferInv' /\ UNCHANGED <<Waiting, Published, sessions>>
  BY <1>5, EditsPublishNothing DEF UserEdits, Waiting
<1>6. ASSUME NEW c \in Cells, Write(c)
      PROVE  BufferInv' /\ Contract!Accept(c)
  BY <1>6, AppendQueues DEF Write, Waiting, Published, Contract!Accept
<1> QED
  BY <1>1, <1>2, <1>3, <1>4, <1>5, <1>6
  DEF Next, Ping, PingFails, Connect, Crash, Commit, CommitFails, CommitUnanswered,
      Restored, EndUncommitted, SyncFrom, Contract!Next

\* The Actual backend implements what budget/store.go promises of a write:
\* queued until a Commit publishes it, and queued again after one that failed.
THEOREM KeepsContractCorrect == Spec => KeepsContract
<1>1. Init => Contract!Init
  BY EmptyQueuesNothing DEF Init, Contract!Init, Waiting, Published
<1>2. BufferInv /\ [Next]_vars => BufferInv' /\ [Contract!Next]_Contract!vars
  BY StepRefines DEF Contract!vars
<1> QED
  BY BufferInit, <1>1, <1>2, PTL DEF Spec, KeepsContract, Contract!Spec

-----------------------------------------------------------------------------
(* The latest message of a cell.                                           *)

\* A set of naturals has a least member.
LEMMA Smallest ==
  ASSUME NEW T \in SUBSET Nat, T # {}
  PROVE  \E x \in T : \A y \in T : x <= y
<1> DEFINE R == {ss \in Nat \X Nat : ss[1] < ss[2]}
<1>1. IsWellFoundedOn(R, Nat)
  BY NatLessThanWellFounded DEF OpToRel
<1>2. PICK x \in T : \A y \in T : ~(<<y, x>> \in R)
  <2> HIDE DEF R
  <2> QED BY <1>1, WFMin
<1>3. ASSUME NEW y \in T PROVE x <= y
  <2>1. x \in Nat /\ y \in Nat /\ ~(<<y, x>> \in R)
    BY <1>2
  <2>2. ~(y < x)
    BY <2>1
  <2> QED
    BY <2>1, <2>2
<1> QED
  BY <1>3

\* A bounded set of naturals has a greatest member, which is its Max.
LEMMA MaxIs ==
  ASSUME NEW S \in SUBSET Nat, S # {}, NEW n \in Nat, \A x \in S : x <= n
  PROVE  Max(S) \in S /\ \A y \in S : Max(S) >= y
<1> DEFINE T == {n - x : x \in S}
<1>1. T \in SUBSET Nat /\ T # {}
  <2>1. \A x \in S : n - x \in Nat
    OBVIOUS
  <2>2. PICK x \in S : TRUE
    OBVIOUS
  <2> QED
    BY <2>1, <2>2
<1>2. PICK m \in T : \A y \in T : m <= y
  <2> HIDE DEF T
  <2> QED BY <1>1, Smallest
<1>3. PICK x \in S : m = n - x
  OBVIOUS
<1>4. ASSUME NEW y \in S PROVE x >= y
  BY <1>2, <1>3, n - y \in T
<1> QED
  BY <1>4 DEF Max

\* The latest stamp among the messages of a set for a cell.
TopStamp(S, c) == Max({m.ts : m \in {n \in S : n.cell = c}} \cup {0})

\* What Latest computes of a set of messages with stamps up to k.
LEMMA LatestOf ==
  ASSUME NEW k \in Nat, NEW S, \A m \in S : m.ts \in 1..k, NEW c
  PROVE  /\ TopStamp(S, c) \in 0..k
         /\ \A m \in S : m.cell = c => m.ts <= TopStamp(S, c)
         /\ TopStamp(S, c) # 0 => \E m \in S : m.cell = c /\ m.ts = TopStamp(S, c)
<1> DEFINE T == {m.ts : m \in {n \in S : n.cell = c}} \cup {0}
<1>1. T \in SUBSET Nat /\ T # {} /\ \A x \in T : x <= k
  OBVIOUS
<1>2. \A m \in S : m.cell = c => m.ts \in T
  OBVIOUS
<1>3. \A x \in T \ {0} : \E m \in S : m.cell = c /\ m.ts = x
  OBVIOUS
<1> DEFINE t == TopStamp(S, c)
<1>4. t = Max(T)
  BY DEF TopStamp
<1> HIDE DEF T, t
<1>5. t \in T /\ \A y \in T : t >= y
  BY <1>1, <1>4, MaxIs
<1>6. t \in Nat /\ t <= k
  BY <1>1, <1>5
<1>7. \A m \in S : m.cell = c => m.ts <= t
  BY <1>1, <1>2, <1>5, <1>6
<1>8. t # 0 => \E m \in S : m.cell = c /\ m.ts = t
  BY <1>3, <1>5
<1>9. t \in 0..k
  BY <1>6
<1> QED
  BY <1>7, <1>8, <1>9 DEF t

\* Messages are stamped once, up to the clock, which the others follow.
StampInv ==
    /\ clock \in Nat /\ since \in 0..clock /\ savedSince \in 0..clock
    /\ \A m \in server : m.ts \in 1..clock /\ m.by \in Writers
    /\ \A m, n \in server : m.ts = n.ts => m = n

\* The latest message of a cell, by its stamp.
LEMMA LatestIs ==
  ASSUME StampInv, NEW c
  PROVE  /\ Latest(c) \in 0..clock
         /\ \A m \in server : m.cell = c => m.ts <= Latest(c)
         /\ Latest(c) # 0 => \E m \in server : m.cell = c /\ m.ts = Latest(c)
<1>1. clock \in Nat /\ \A m \in server : m.ts \in 1..clock
  BY DEF StampInv
<1>2. Latest(c) = TopStamp(server, c)
  BY DEF Latest, TopStamp
<1> QED
  BY <1>1, <1>2, LatestOf

\* The same of the state after a step.
LEMMA LatestNext ==
  ASSUME StampInv', NEW c
  PROVE  /\ Latest(c)' \in 0..clock'
         /\ \A m \in server' : m.cell = c => m.ts <= Latest(c)'
         /\ Latest(c)' # 0 => \E m \in server' : m.cell = c /\ m.ts = Latest(c)'
<1>1. clock' \in Nat /\ \A m \in server' : m.ts \in 1..clock'
  BY DEF StampInv
<1>2. Latest(c)' = TopStamp(server', c)
  BY DEF Latest, TopStamp
<1> QED
  BY <1>1, <1>2, LatestOf

\* A cell without a new message keeps its latest message and its value.
LEMMA LatestKept ==
  ASSUME StampInv, StampInv', server \subseteq server', NEW c,
         \A m \in server' \ server : m.cell # c
  PROVE  Latest(c)' = Latest(c) /\ Value(c)' = Value(c)
<1>1. Latest(c)' = Latest(c)
  <2>1. {m.ts : m \in {n \in server' : n.cell = c}} = {m.ts : m \in {n \in server : n.cell = c}}
    OBVIOUS
  <2> QED
    BY <2>1, Zenon DEF Latest
<1>2. CASE Latest(c) = 0
  BY <1>1, <1>2 DEF Value
<1>3. CASE Latest(c) # 0
  <2>1. PICK m \in server : m.ts = Latest(c)
    BY <1>3, LatestIs
  <2>2. \A n \in server : n.ts = Latest(c) <=> n = m
    BY <2>1 DEF StampInv
  <2>3. \A n \in server' : n.ts = Latest(c) <=> n = m
    BY <2>1 DEF StampInv
  <2>4. (CHOOSE n \in server : n.ts = Latest(c)) = m
    BY <2>1, <2>2
  <2>5. (CHOOSE n \in server' : n.ts = Latest(c)) = m
    BY <2>1, <2>3
  <2>6. Value(c) = m.by
    BY <1>3, <2>4, Zenon DEF Value
  <2>7. Value(c)' = m.by
    BY <1>1, <1>3, <2>5, Zenon DEF Value
  <2> QED
    BY <1>1, <2>6, <2>7
<1> QED
  BY <1>2, <1>3


-----------------------------------------------------------------------------
(* A run starts on a current copy.                                         *)

\* Outside what waits and what a dead session took along, a cell whose latest
\* message was merged, in this session or before the last SaveHULC, shows it;
\* and what an unanswered Commit published is newer than any saved clock, so
\* that a session which no longer knows of it asks for it again.
CurrentInv ==
    /\ StampInv /\ BufferInv
    /\ local = [c \in Cells |-> local[c]]
    /\ \A c \in Cells \ (Waiting \cup lost) :
          (Latest(c) <= since \/ Latest(c) <= savedSince) => local[c] = Value(c)
    /\ \A c \in Waiting \cap Published : Latest(c) > savedSince

\* A sync moves the clock it asks from to the latest message of any cell.
LEMMA SyncSince ==
  ASSUME StampInv, NEW from \in 0..clock, SyncFrom(from)
  PROVE  since' \in 0..clock /\ from <= since' /\ \A c \in Cells : Latest(c) <= since'
<1> DEFINE S == {from} \cup {Latest(c) : c \in Cells}
<1>1. clock \in Nat /\ \A c \in Cells : Latest(c) \in 0..clock
  BY LatestIs DEF StampInv
<1>2. S \in SUBSET Nat /\ S # {} /\ (\A x \in S : x <= clock)
      /\ from \in S /\ \A c \in Cells : Latest(c) \in S
  BY <1>1
<1>3. since' = Max(S)
  BY DEF SyncFrom
<1> HIDE DEF S
<1>4. since' \in S /\ \A y \in S : since' >= y
  BY <1>1, <1>2, <1>3, MaxIs
<1> QED
  BY <1>1, <1>2, <1>4

\* A sync leaves every cell current that had a message since, or was current.
LEMMA SyncValues ==
  ASSUME StampInv, NEW from \in 0..clock, SyncFrom(from), UNCHANGED server,
         NEW c \in Cells, Latest(c) <= from => local[c] = Value(c)
  PROVE  local'[c] = Value(c)'
<1>1. Value(c)' = Value(c)
  BY DEF Value, Latest
<1>2. from \in Nat /\ Latest(c) \in Nat
  BY LatestIs DEF StampInv
<1>3. CASE Latest(c) > from
  BY <1>1, <1>3 DEF SyncFrom, News
<1>4. CASE ~(Latest(c) > from)
  BY <1>1, <1>2, <1>4 DEF SyncFrom, News
<1> QED
  BY <1>3, <1>4

\* Sending stamps the waiting changes, each with a time of its own after every
\* message before it.
LEMMA SendStamps ==
  ASSUME StampInv, BufferInv, Send
  PROVE  /\ clock' \in Nat /\ clock <= clock' /\ server \subseteq server'
         /\ \A m \in server' : m.ts \in 1..clock' /\ m.by \in Writers
         /\ \A m, n \in server' : m.ts = n.ts => m = n
         /\ \A m \in server' \ server : m.ts > clock /\ m.cell \in Waiting
<1>1. Len(changes) \in Nat /\ DOMAIN changes = 1..Len(changes) /\ clock \in Nat
  BY DEF BufferInv, StampInv
<1>2. clock' = clock + Len(changes) /\ server' = server \cup Stamped
  BY DEF Send
<1>3. ASSUME NEW m \in Stamped
      PROVE  \E i \in DOMAIN changes :
                m = [ts |-> clock + i, cell |-> changes[i], by |-> "ours"]
  BY <1>3 DEF Stamped, Stamp
<1>4. ASSUME NEW m \in Stamped
      PROVE  /\ m.ts \in 1..clock' /\ m.ts > clock /\ m.by \in Writers
             /\ m.cell \in Waiting
  <2>1. PICK i \in DOMAIN changes :
                m = [ts |-> clock + i, cell |-> changes[i], by |-> "ours"]
    BY <1>3
  <2>2. m.ts = clock + i /\ m.cell = changes[i] /\ m.by = "ours"
    BY <2>1
  <2> QED
    BY <1>1, <1>2, <2>2 DEF Writers, Waiting, ToSet
<1>5. ASSUME NEW m \in Stamped, NEW n \in Stamped, m.ts = n.ts PROVE m = n
  <2>1. PICK i \in DOMAIN changes :
                m = [ts |-> clock + i, cell |-> changes[i], by |-> "ours"]
    BY <1>3
  <2>2. PICK j \in DOMAIN changes :
                n = [ts |-> clock + j, cell |-> changes[j], by |-> "ours"]
    BY <1>3
  <2>3. clock + i = clock + j
    BY <1>5, <2>1, <2>2
  <2>4. i = j
    BY <1>1, <2>3
  <2> QED
    BY <2>1, <2>2, <2>4
<1>6. \A m \in server : m.ts \in 1..clock /\ m.by \in Writers
  BY DEF StampInv
<1>7. ASSUME NEW m \in server', NEW n \in server', m.ts = n.ts PROVE m = n
  BY <1>1, <1>2, <1>4, <1>5, <1>6, <1>7 DEF StampInv
<1>8. \A m \in server' : m.ts \in 1..clock' /\ m.by \in Writers
  BY <1>1, <1>2, <1>4, <1>6
<1> QED
  BY <1>1, <1>2, <1>4, <1>7, <1>8

\* Every step keeps the stamps apart and the clocks in order.
LEMMA StampStep ==
  ASSUME StampInv, BufferInv, [Next]_vars
  PROVE  StampInv' /\ clock <= clock' /\ server \subseteq server'
<1> USE DEF vars, client
<1>1. ASSUME UNCHANGED <<clock, server>>, since' \in 0..clock, savedSince' \in 0..clock
      PROVE  StampInv' /\ clock <= clock' /\ server \subseteq server'
  BY <1>1 DEF StampInv
<1>2. clock \in Nat /\ since \in 0..clock /\ savedSince \in 0..clock /\ 0 \in 0..clock
  BY DEF StampInv
<1>3. ASSUME NEW from \in 0..clock, SyncFrom(from) PROVE since' \in 0..clock
  BY <1>3, SyncSince
<1>4. ASSUME Send, since' = since, savedSince' \in {since, savedSince}
      PROVE  StampInv' /\ clock <= clock' /\ server \subseteq server'
  BY <1>2, <1>4, SendStamps DEF StampInv
<1>5. ASSUME NEW c \in Cells, UserEdits(c)
      PROVE  StampInv' /\ clock <= clock' /\ server \subseteq server'
  <2>1. /\ clock' = clock + 1
        /\ server' = server \cup {[ts |-> clock + 1, cell |-> c, by |-> "theirs"]}
        /\ since' = since /\ savedSince' = savedSince
    BY <1>5 DEF UserEdits
  <2>2. \A m \in server : m.ts # clock + 1 /\ m.ts \in 1..clock'
    BY <1>2, <2>1 DEF StampInv
  <2>3. \A m, n \in server' : m.ts = n.ts => m = n
    BY <2>1, <2>2 DEF StampInv
  <2>4. \A m \in server' : m.ts \in 1..clock' /\ m.by \in Writers
    BY <1>2, <2>1, <2>2 DEF StampInv, Writers
  <2> QED
    BY <1>2, <2>1, <2>3, <2>4 DEF StampInv
<1>6. CASE UNCHANGED vars
  BY <1>1, <1>2, <1>6
<1>7. CASE Ping \/ Connect
  BY <1>1, <1>2, <1>3, <1>7 DEF Ping, Connect
<1>8. CASE PingFails \/ Crash
  BY <1>1, <1>2, <1>8 DEF PingFails, Crash, EndSession
<1>9. CASE CommitFails \/ EndUncommitted
  BY <1>1, <1>2, <1>9 DEF CommitFails, EndUncommitted
<1>10. CASE Commit \/ CommitUnanswered
  BY <1>4, <1>10 DEF Commit, CommitUnanswered, SinceCommitted
<1>11. CASE \E c \in Cells : Write(c)
  BY <1>1, <1>2, <1>11 DEF Write
<1> QED
  BY <1>5, <1>6, <1>7, <1>8, <1>9, <1>10, <1>11 DEF Next

\* Sending moves the latest message of the waiting cells past every clock, and
\* of no other cell.
LEMMA SendLatest ==
  ASSUME StampInv, StampInv', BufferInv, Send, NEW c
  PROVE  /\ c \in Waiting => Latest(c)' > clock
         /\ c \notin Waiting => Latest(c)' = Latest(c) /\ Value(c)' = Value(c)
<1>1. ASSUME c \in Waiting PROVE Latest(c)' > clock
  <2>1. PICK i \in DOMAIN changes : changes[i] = c
    BY <1>1 DEF Waiting, ToSet
  <2> DEFINE m == [ts |-> clock + i, cell |-> c, by |-> "ours"]
  <2>2. m \in server' /\ m.cell = c /\ m.ts = clock + i
    BY <2>1 DEF Send, Stamped, Stamp
  <2>3. m.ts <= Latest(c)' /\ Latest(c)' \in 0..clock'
    BY <2>2, LatestNext
  <2>4. i \in Nat \ {0} /\ clock \in Nat /\ clock' \in Nat
    BY <2>1 DEF BufferInv, StampInv
  <2> QED
    BY <2>2, <2>3, <2>4
<1>2. ASSUME c \notin Waiting PROVE Latest(c)' = Latest(c) /\ Value(c)' = Value(c)
  <2>1. server \subseteq server' /\ \A m \in server' \ server : m.cell # c
    BY <1>2, SendStamps
  <2> QED
    BY <2>1, LatestKept
<1> QED
  BY <1>1, <1>2

\* What the other client writes is newer than every clock, and leaves the
\* other cells.
LEMMA EditLatest ==
  ASSUME StampInv, StampInv', NEW c \in Cells, UserEdits(c), NEW d
  PROVE  /\ d = c => Latest(d)' > clock
         /\ d # c => Latest(d)' = Latest(d) /\ Value(d)' = Value(d)
<1>1. /\ clock' = clock + 1
      /\ server' = server \cup {[ts |-> clock + 1, cell |-> c, by |-> "theirs"]}
  BY DEF UserEdits
<1>2. ASSUME d = c PROVE Latest(d)' > clock
  <2> DEFINE m == [ts |-> clock + 1, cell |-> c, by |-> "theirs"]
  <2>1. m \in server' /\ m.cell = c /\ m.ts = clock + 1
    BY <1>1
  <2>2. m.ts <= Latest(d)' /\ Latest(d)' \in 0..clock'
    BY <1>2, <2>1, LatestNext
  <2>3. clock \in Nat /\ clock' \in Nat
    BY DEF StampInv
  <2> QED
    BY <2>1, <2>2, <2>3
<1>3. ASSUME d # c PROVE Latest(d)' = Latest(d) /\ Value(d)' = Value(d)
  <2>1. server \subseteq server' /\ \A m \in server' \ server : m.cell # d
    BY <1>1, <1>3
  <2> QED
    BY <2>1, LatestKept
<1> QED
  BY <1>2, <1>3

\* The server left alone, every cell keeps its latest message and value.
LEMMA ServerKept ==
  ASSUME UNCHANGED server, NEW c
  PROVE  Latest(c)' = Latest(c) /\ Value(c)' = Value(c)
  BY DEF Value, Latest

\* Every step keeps the merged cells current and what an unanswered Commit
\* published ahead of the saved clock.
LEMMA CurrentStep ==
  ASSUME CurrentInv, [Next]_vars
  PROVE  CurrentInv'
<1> USE DEF vars, client
<1>1. StampInv /\ BufferInv /\ StampInv' /\ BufferInv'
  BY StampStep, StepRefines DEF CurrentInv
<1>2. clock \in Nat /\ since \in 0..clock /\ savedSince \in 0..clock
  BY <1>1 DEF StampInv
<1>3. \A c \in Cells : Latest(c) \in Nat /\ Latest(c)' \in Nat
  BY <1>1, LatestIs, LatestNext DEF StampInv
<1>4. local = [c \in Cells |-> local[c]]
  BY DEF CurrentInv
<1>5. \A c \in Cells \ (Waiting \cup lost) :
          (Latest(c) <= since \/ Latest(c) <= savedSince) => local[c] = Value(c)
  BY DEF CurrentInv
<1>6. \A c \in Waiting \cap Published : Latest(c) > savedSince
  BY DEF CurrentInv
<1> DEFINE FormOf == local' = [c \in Cells |-> local'[c]]
           Shown == \A c \in Cells \ (Waiting' \cup lost') :
                       (Latest(c)' <= since' \/ Latest(c)' <= savedSince')
                          => local'[c] = Value(c)'
           Ahead == \A c \in Waiting' \cap Published' : Latest(c)' > savedSince'
<1>7. ASSUME UNCHANGED <<server, local, changes, since, savedSince, lost>>
      PROVE  FormOf /\ Shown /\ Ahead
  <2>1. Waiting' = Waiting /\ Published' = Published
    BY <1>7 DEF Waiting, Published
  <2> QED
    BY <1>4, <1>5, <1>6, <1>7, <2>1, ServerKept
<1>8. ASSUME NEW from \in {since, savedSince}, SyncFrom(from),
             UNCHANGED <<server, changes, savedSince, lost>>
      PROVE  FormOf /\ Shown /\ Ahead
  <2>1. Waiting' = Waiting /\ Published' = Published
    BY <1>8 DEF Waiting, Published
  <2>2. FormOf
    BY <1>8 DEF SyncFrom
  <2>3. ASSUME NEW c \in Cells, c \notin Waiting \cup lost PROVE local'[c] = Value(c)'
    BY <1>1, <1>2, <1>5, <1>8, <2>3, SyncValues
  <2>4. Ahead
    BY <1>6, <1>8, <2>1, ServerKept
  <2> QED
    BY <1>8, <2>1, <2>2, <2>3, <2>4
<1>9. ASSUME EndSession PROVE FormOf /\ Shown /\ Ahead
  <2>1. /\ UNCHANGED <<server, local, savedSince>> /\ since' = 0
        /\ changes' = <<>> /\ lost' = lost \cup (Waiting \ Published)
    BY <1>9 DEF EndSession
  <2>2. Waiting' = {}
    BY <2>1, EmptyQueuesNothing DEF Waiting
  <2>3. ASSUME NEW c \in Cells, c \notin lost',
               Latest(c)' <= since' \/ Latest(c)' <= savedSince'
        PROVE  local'[c] = Value(c)'
    <3>1. Latest(c)' = Latest(c) /\ Value(c)' = Value(c)
      BY <2>1, ServerKept
    <3>2. Latest(c) <= savedSince
      BY <1>2, <1>3, <2>1, <2>3, <3>1
    <3>3. c \notin Waiting \cup lost
      BY <1>2, <1>3, <1>6, <2>1, <2>3, <3>2
    <3> QED
      BY <1>5, <2>1, <3>1, <3>2, <3>3
  <2> QED
    BY <1>4, <2>1, <2>2, <2>3
<1>10. ASSUME NEW d \in Cells, UserEdits(d) PROVE FormOf /\ Shown /\ Ahead
  <2>1. UNCHANGED <<local, changes, since, savedSince, lost>>
    BY <1>10 DEF UserEdits
  <2>2. Waiting' = Waiting /\ Published' = Published
    BY <1>10, <2>1, EditsPublishNothing DEF Waiting
  <2>3. \A c \in Cells : /\ c = d => Latest(c)' > clock
                         /\ c # d => Latest(c)' = Latest(c) /\ Value(c)' = Value(c)
    BY <1>1, <1>10, EditLatest
  <2>4. Shown
    BY <1>2, <1>3, <1>5, <2>1, <2>2, <2>3
  <2>5. ASSUME NEW c \in Waiting' \cap Published' PROVE Latest(c)' > savedSince'
    <3>1. c = d => Latest(c)' > clock
      BY <1>1, <1>10, EditLatest
    <3>2. c # d => Latest(c)' = Latest(c)
      BY <1>1, <1>10, EditLatest
    <3>3. Latest(c) > savedSince
      BY <1>6, <2>2, <2>5
    <3>4. Latest(c)' \in 0..clock' /\ clock' \in Nat
      BY <1>1, LatestNext DEF StampInv
    <3> QED
      BY <1>2, <2>1, <3>1, <3>2, <3>3, <3>4
  <2> QED
    BY <1>4, <2>1, <2>4, <2>5
<1>11. ASSUME NEW d \in Cells, Write(d) PROVE FormOf /\ Shown /\ Ahead
  <2>1. /\ UNCHANGED <<server, since, savedSince, lost>>
        /\ d \notin imported /\ changes' = Append(changes, d)
        /\ local' = [local EXCEPT ![d] = "ours"]
    BY <1>11 DEF Write
  <2>2. Waiting' = Waiting \cup {d} /\ Published' = Published /\ d \notin Published
    BY <1>1, <2>1, AppendQueues DEF Waiting, Published, BufferInv
  <2>3. FormOf
    BY <1>4, <2>1
  <2>4. ASSUME NEW c \in Cells, c # d PROVE local'[c] = local[c]
    BY <1>4, <2>1, <2>4
  <2>5. Shown
    BY <1>5, <2>1, <2>2, <2>4, ServerKept
  <2>6. Ahead
    BY <1>6, <2>1, <2>2, ServerKept
  <2> QED
    BY <2>3, <2>5, <2>6
<1>12. ASSUME Send, UNCHANGED <<local, since, lost>>,
              savedSince' = savedSince \/ savedSince' = since,
              NEW c \in Cells \ (Waiting \cup lost),
              Latest(c)' <= since' \/ Latest(c)' <= savedSince'
       PROVE  local'[c] = Value(c)'
  BY <1>1, <1>5, <1>12, SendLatest
<1>13. ASSUME Commit PROVE FormOf /\ Shown /\ Ahead
  <2>1. /\ Send /\ changes' = <<>> /\ UNCHANGED <<local, since, lost>>
        /\ savedSince' = since
    BY <1>13 DEF Commit, SinceCommitted
  <2>2. Waiting' = {}
    BY <2>1, EmptyQueuesNothing DEF Waiting
  <2>3. ASSUME NEW c \in Cells \ lost, Latest(c)' <= since' \/ Latest(c)' <= savedSince'
        PROVE  local'[c] = Value(c)'
    <3>1. c \in Waiting => Latest(c)' > clock
      BY <1>1, <2>1, SendLatest
    <3>2. c \notin Waiting
      BY <1>2, <1>3, <2>1, <2>3, <3>1
    <3> QED
      BY <1>12, <2>1, <2>3, <3>2
  <2>4. FormOf
    BY <1>4, <2>1
  <2>5. Shown
    BY <2>1, <2>3
  <2>6. Ahead
    BY <2>2
  <2> QED
    BY <2>4, <2>5, <2>6
<1>14. ASSUME CommitUnanswered PROVE FormOf /\ Shown /\ Ahead
  <2>1. Send /\ changes' = changes /\ UNCHANGED <<local, since, savedSince, lost>>
    BY <1>14 DEF CommitUnanswered, Restored
  <2>2. Waiting' = Waiting
    BY <2>1 DEF Waiting
  <2>3. Shown
    BY <1>12, <2>1, <2>2
  <2>4. ASSUME NEW c \in Waiting PROVE Latest(c)' > savedSince'
    <3>1. Latest(c)' > clock
      BY <1>1, <2>1, <2>4, SendLatest
    <3>2. Latest(c)' \in 0..clock' /\ clock' \in Nat
      BY <1>1, LatestNext DEF StampInv
    <3> QED
      BY <1>2, <2>1, <3>1, <3>2
  <2>5. FormOf
    BY <1>4, <2>1
  <2>6. Ahead
    BY <2>2, <2>4
  <2> QED
    BY <2>3, <2>5, <2>6
<1> HIDE DEF FormOf, Shown, Ahead
<1>15. ASSUME Ping \/ Connect PROVE FormOf /\ Shown /\ Ahead
  BY <1>8, <1>15 DEF Ping, Connect
<1>16. ASSUME PingFails \/ Crash PROVE FormOf /\ Shown /\ Ahead
  BY <1>9, <1>16 DEF PingFails, Crash
<1>17. ASSUME CommitFails \/ EndUncommitted \/ UNCHANGED vars PROVE FormOf /\ Shown /\ Ahead
  BY <1>7, <1>17 DEF CommitFails, Restored, EndUncommitted
<1>18. FormOf /\ Shown /\ Ahead
  BY <1>10, <1>11, <1>13, <1>14, <1>15, <1>16, <1>17 DEF Next
<1> QED
  BY <1>1, <1>18 DEF CurrentInv, FormOf, Shown, Ahead

\* A started run sees every cell as the server has it.
LEMMA StartIsCurrent ==
  ASSUME CurrentInv, [Next]_vars
  PROVE  phase' = "started" /\ phase = "idle" =>
            \A c \in Cells : c \notin Waiting' \cup lost' => local'[c] = Value(c)'
<1> SUFFICES ASSUME phase' = "started", phase = "idle",
                    NEW c \in Cells, c \notin Waiting' \cup lost'
             PROVE  local'[c] = Value(c)'
  OBVIOUS
<1>1. PICK from \in {since, savedSince} :
         SyncFrom(from) /\ UNCHANGED <<server, changes, lost>>
  BY DEF Next, Ping, PingFails, Connect, Crash, EndSession, Commit, CommitFails,
         CommitUnanswered, EndUncommitted, UserEdits, Write, vars, client
<1>2. StampInv /\ from \in 0..clock
  BY DEF CurrentInv, StampInv
<1>3. c \notin Waiting \cup lost
  BY <1>1 DEF Waiting
<1>4. Latest(c) <= from => local[c] = Value(c)
  BY <1>3 DEF CurrentInv
<1> QED
  BY <1>1, <1>2, <1>4, SyncValues

\* Nothing is written, merged or published at first.
LEMMA CurrentInit == Init => CurrentInv
<1> SUFFICES ASSUME Init PROVE CurrentInv
  OBVIOUS
<1>1. StampInv /\ BufferInv
  BY BufferInit DEF Init, StampInv
<1>2. Waiting \cap Published = {}
  BY EmptyQueuesNothing DEF Init, Waiting, Published
<1>3. \A c \in Cells : Latest(c) = 0
  BY <1>1, LatestIs DEF Init
<1>4. \A c \in Cells : local[c] = Value(c)
  BY <1>3 DEF Init, Value
<1>5. local = [c \in Cells |-> local[c]]
  BY DEF Init
<1> QED
  BY <1>1, <1>2, <1>4, <1>5 DEF CurrentInv

\* A run starts on a copy that misses no message of the other client, whatever
\* was committed, retried or restarted before it (SinceTimestamp, SaveHULC).
THEOREM StartsCurrentCorrect == Spec => StartsCurrent
<1>1. Spec => []CurrentInv
  BY CurrentInit, CurrentStep, PTL DEF Spec
<1>2. CurrentInv /\ [Next]_vars =>
        [phase' = "started" /\ phase = "idle" =>
           \A c \in Cells : c \notin Waiting' \cup lost' => local'[c] = Value(c)']_vars
  BY StartIsCurrent
<1> QED
  BY <1>1, <1>2, PTL DEF Spec, StartsCurrent

-----------------------------------------------------------------------------
(* The types of the replica.                                               *)

\* The bound leaves room for what waits, and the state keeps its types.
TypeInv == TypeOK /\ CurrentInv /\ Room(0)

\* A value is none or one of the writers.
LEMMA ValueTyped ==
  ASSUME StampInv, NEW c
  PROVE  Value(c) \in Values
<1>1. CASE Latest(c) = 0
  BY <1>1 DEF Value, Values
<1>2. CASE Latest(c) # 0
  <2>1. PICK m \in server : m.ts = Latest(c)
    BY <1>2, LatestIs
  <2>2. (CHOOSE n \in server : n.ts = Latest(c)) \in server
    BY <2>1
  <2> DEFINE x == CHOOSE n \in server : n.ts = Latest(c)
  <2>3. x.by \in Writers
    BY <2>2 DEF StampInv
  <2> QED
    BY <1>2, <2>3 DEF Value, Values
<1> QED
  BY <1>1, <1>2

\* Every step keeps the types.
LEMMA FormStep ==
  ASSUME TypeInv, [Next]_vars
  PROVE  TypeInv'
<1> USE DEF vars, client
<1>1. CurrentInv' /\ StampInv /\ BufferInv /\ StampInv' /\ BufferInv'
  BY CurrentStep DEF CurrentInv, TypeInv
<1>2. /\ clock \in Nat /\ clock' \in Nat /\ MaxClock \in Nat
      /\ since' \in 0..clock' /\ savedSince' \in 0..clock'
      /\ \A m, n \in server' : m.ts = n.ts => m = n
  BY <1>1, ClockAssumption DEF StampInv
<1>3. changes \in Seq(Cells) /\ changes' \in Seq(Cells) /\ Len(changes) \in Nat
      /\ DOMAIN changes = 1..Len(changes)
  BY <1>1 DEF BufferInv
<1>4. Room(0)'
  <2>1. clock + Len(changes) <= MaxClock
    BY <1>2, <1>3 DEF TypeInv, Room
  <2>2. ASSUME UNCHANGED <<clock, changes>> PROVE Room(0)'
    BY <1>2, <1>3, <2>1, <2>2 DEF Room
  <2>3. ASSUME clock' = clock, changes' = <<>> PROVE Room(0)'
    BY <1>2, <1>3, <2>1, <2>3 DEF Room
  <2>4. ASSUME NEW c \in Cells, UserEdits(c) PROVE Room(0)'
    BY <1>2, <1>3, <2>4 DEF UserEdits, Room
  <2>5. ASSUME NEW c \in Cells, Write(c) PROVE Room(0)'
    <3>1. Len(changes') = Len(changes) + 1 /\ clock' = clock
          /\ clock + Len(changes) + 1 <= MaxClock
      <4>1. changes' = Append(changes, c) /\ clock' = clock /\ Room(1)
        BY <2>5 DEF Write
      <4>2. Len(Append(changes, c)) = Len(changes) + 1
        BY <1>3
      <4> QED
        BY <1>2, <1>3, <4>1, <4>2 DEF Room
    <3> QED
      BY <1>2, <1>3, <3>1 DEF Room
  <2>6. ASSUME Commit PROVE Room(0)'
    BY <1>2, <1>3, <2>1, <2>6 DEF Commit, Send, Room
  <2>7. ASSUME CommitUnanswered PROVE Room(0)'
    BY <1>2, <1>3, <2>7 DEF CommitUnanswered, Send, Room, Restored
  <2> QED
    BY <2>2, <2>3, <2>4, <2>5, <2>6, <2>7
    DEF Next, Ping, PingFails, Connect, Crash, EndSession, CommitFails, Restored,
        EndUncommitted
<1>5. clock' \in 0..MaxClock
  <2>1. Len(changes') \in Nat
    BY <1>3
  <2> QED
    BY <1>2, <1>4, <2>1 DEF Room
<1>6. server' \subseteq [ts : 1..clock', cell : Cells, by : Writers]
  <2>1. clock <= clock' /\ server \subseteq [ts : 1..clock, cell : Cells, by : Writers]
    BY <1>1, StampStep DEF TypeInv, TypeOK
  <2>2. ASSUME NEW m \in server PROVE m \in [ts : 1..clock', cell : Cells, by : Writers]
    <3>1. m = [ts |-> m.ts, cell |-> m.cell, by |-> m.by]
          /\ m.ts \in 1..clock' /\ m.cell \in Cells /\ m.by \in Writers
      BY <1>2, <2>1, <2>2
    <3> QED
      BY <3>1
  <2>3. ASSUME NEW c \in Cells, UserEdits(c)
        PROVE  server' \subseteq [ts : 1..clock', cell : Cells, by : Writers]
    <3>1. \A m \in server' :
             m \in server \/ m = [ts |-> clock + 1, cell |-> c, by |-> "theirs"]
      BY <2>3 DEF UserEdits
    <3>2. clock + 1 \in 1..clock' /\ "theirs" \in Writers
      BY <1>2, <2>3 DEF UserEdits, Writers
    <3> QED
      BY <2>2, <3>1, <3>2
  <2>4. ASSUME Send PROVE server' \subseteq [ts : 1..clock', cell : Cells, by : Writers]
    <3>1. ASSUME NEW m \in server', m \notin server
          PROVE  m \in [ts : 1..clock', cell : Cells, by : Writers]
      <4>1. PICK i \in DOMAIN changes :
                    m = [ts |-> clock + i, cell |-> changes[i], by |-> "ours"]
        BY <2>4, <3>1 DEF Send, Stamped, Stamp
      <4>2. clock + i \in 1..clock' /\ changes[i] \in Cells /\ "ours" \in Writers
        BY <1>2, <1>3, <2>4, <4>1 DEF Send, Writers
      <4> QED
        BY <4>1, <4>2
    <3> QED
      BY <2>2, <3>1
  <2>5. ASSUME UNCHANGED <<clock, server>>
        PROVE  server' \subseteq [ts : 1..clock', cell : Cells, by : Writers]
    BY <2>1, <2>5
  <2> QED
    BY <2>3, <2>4, <2>5
    DEF Next, Ping, PingFails, Connect, Crash, EndSession, Commit, CommitFails,
        CommitUnanswered, EndUncommitted, Write
<1>7. local' \in [Cells -> Values]
  <2>1. local \in [Cells -> Values] /\ \A c \in Cells : Value(c) \in Values
    BY <1>1, ValueTyped DEF TypeInv, TypeOK
  <2>2. ASSUME NEW from, SyncFrom(from) PROVE local' \in [Cells -> Values]
    BY <2>1, <2>2 DEF SyncFrom
  <2>3. ASSUME NEW c \in Cells, Write(c) PROVE local' \in [Cells -> Values]
    BY <2>1, <2>3 DEF Write, Values, Writers
  <2>4. ASSUME UNCHANGED local PROVE local' \in [Cells -> Values]
    BY <2>1, <2>4
  <2> QED
    BY <2>2, <2>3, <2>4
    DEF Next, Ping, PingFails, Connect, Crash, EndSession, Commit, CommitFails,
        CommitUnanswered, EndUncommitted, UserEdits
<1>8. connected' \in BOOLEAN /\ phase' \in {"idle", "started", "writing"}
  BY DEF TypeInv, TypeOK, Next, Ping, PingFails, Connect, Crash, EndSession, Commit,
         CommitFails, CommitUnanswered, EndUncommitted, UserEdits, Write
<1>9. imported' \subseteq Cells /\ lost' \subseteq Cells
  <2>1. Waiting \subseteq Cells
    BY <1>3 DEF Waiting, ToSet
  <2> QED
    BY <2>1 DEF TypeInv, TypeOK, Next, Ping, PingFails, Connect, Crash, EndSession, Commit,
         CommitFails, CommitUnanswered, EndUncommitted, UserEdits, Write
<1>10. sessions' \in Nat /\ faults' \in Nat
  BY DEF TypeInv, TypeOK, Next, Ping, PingFails, Connect, Crash, EndSession, Commit,
         CommitFails, CommitUnanswered, EndUncommitted, UserEdits, Write, Fault
<1> QED
  BY <1>1, <1>2, <1>3, <1>4, <1>5, <1>6, <1>7, <1>8, <1>9, <1>10 DEF TypeInv, TypeOK

\* The clock, the messages, the local copy, the buffer and the session keep
\* their types.
THEOREM BackendTypeCorrect == Spec => []TypeOK
<1>1. Init => TypeInv
  <2> SUFFICES ASSUME Init PROVE TypeInv
    OBVIOUS
  <2>1. CurrentInv
    BY CurrentInit
  <2>2. Len(<<>>) = 0
    OBVIOUS
  <2>3. Room(0)
    BY <2>2, ClockAssumption DEF Init, Room
  <2>4. TypeOK
    <3>1. 0 \in 0..MaxClock /\ 0 \in 0..0 /\ "none" \in Values
      BY ClockAssumption DEF Values
    <3>2. local \in [Cells -> Values]
      BY <3>1 DEF Init
    <3>3. server = {} /\ server \subseteq [ts : 1..clock, cell : Cells, by : Writers]
      BY DEF Init
    <3> QED
      BY <3>1, <3>2, <3>3, EmptyQueuesNothing DEF Init, TypeOK
  <2> QED
    BY <2>1, <2>3, <2>4 DEF TypeInv
<1>2. TypeInv => TypeOK
  BY DEF TypeInv
<1> QED
  BY <1>1, <1>2, FormStep, PTL DEF Spec

-----------------------------------------------------------------------------
(* What FireflyAccounts keeps.                                             *)

\* The asset account a bank account was settled in still carries its IBAN.
HomeCarries ==
    \A b \in Banks : home[b] # 0 => \E a \in assets : /\ a.id = home[b]
                                                      /\ a.iban = SpecOf[b].iban
                                                      /\ a.iban # Blank

\* Only a bank account that is not settled is looked for by name.
NotHoused == call.step \in {"name", "adopt", "create"} => home[call.bank] = 0

\* What is adopted was nobody's home, and is not while the write is under way.
AdoptsFree ==
    call.step = "adopt" => /\ Wanted.iban # Blank
                           /\ call.found.id \in 1..(nextAsset - 1)
                           /\ \A b \in Banks : home[b] # call.found.id

Settled == call.step = "have" /\ home[call.bank] # 0 => call.found.id = home[call.bank]

HomeParts == HomeCarries /\ NotHoused /\ AdoptsFree /\ Settled
HomeInv == AccountsTypeOK /\ HomeParts

\* A run that is about to write an opening balance has seen none, and finds none
\* but its own, or one the user set since.
OpeningSeen ==
    /\ call.step \in {"adopt", "have", "read", "set"} => call.found.id \in 1..(nextAsset - 1)
    /\ call.step = "set" =>
          \/ userSet
          \/ \A a \in assets : a.id = call.found.id => a.opening \in {0, call.figure}

-----------------------------------------------------------------------------
\* There is a bank to talk about.
LEMMA SomeBank == (CHOOSE b \in Banks : TRUE) \in Banks
BY AccountsAssumption

\* An account that exists is found by its id.
LEMMA AssetFound ==
    ASSUME NEW i, IsAsset(i)
    PROVE  Asset(i) \in assets /\ Asset(i).id = i
BY DEF IsAsset, Asset

\* The hit of a search is nothing or one of the accounts, and exact.
LEMMA PickedExact ==
    ASSUME NEW field, NEW text, PickAsset(field, text) # NoAsset
    PROVE  PickAsset(field, text) \in assets /\ PickAsset(field, text)[field] = text
<1> DEFINE exact == {a \in Searched(field, text) : a[field] = text}
<1>1. exact # {} /\ PickAsset(field, text) = CHOOSE a \in exact : TRUE
  BY DEF PickAsset
<1>2. PickAsset(field, text) \in exact
  BY <1>1
<1> QED
  BY <1>2 DEF Searched

\* An account that carries the IBAN asked for is found, and no other.
LEMMA PickedByIBAN ==
    ASSUME ServerTypeOK, NEW a \in assets, NEW iban \in IBANs, a.iban = iban
    PROVE  PickAsset("iban", iban) = a
<1> DEFINE exact == {c \in Searched("iban", iban) : c["iban"] = iban}
<1>1. iban # Blank /\ Within(iban, iban)
  BY AccountsAssumption
<1>2. a \in exact
  BY <1>1 DEF Searched
<1>3. \A c \in exact : c = a
  BY <1>1 DEF Searched, ServerTypeOK
<1>4. PickAsset("iban", iban) = CHOOSE c \in exact : TRUE
  BY <1>2 DEF PickAsset
<1> QED
  BY <1>2, <1>3, <1>4

\* No other account carries the IBAN of one.
LEMMA OwnIBAN ==
    ASSUME ServerTypeOK, NEW a \in assets
    PROVE  ~IbanTaken(a.iban, a.id)
BY DEF IbanTaken, ServerTypeOK

\* An update of an account keeps the accounts apart.
LEMMA SubmitTyped ==
    ASSUME ServerTypeOK, NEW asset \in AssetType, IsAsset(asset.id),
           ~IbanTaken(asset.iban, asset.id), Submit(asset)
    PROVE  ServerTypeOK'
<1>1. asset.id \in 1..(nextAsset - 1)
  BY DEF IsAsset, ServerTypeOK
<1>2. \A a \in assets : a.id # asset.id => a.iban # asset.iban \/ a.iban = Blank
  BY DEF IbanTaken
<1>3. \A a \in assets' : a = asset \/ (a \in assets /\ a.id # asset.id)
  BY DEF Submit
<1>4. \A a, c \in assets' : (a.id = c.id \/ (a.iban = c.iban /\ a.iban # Blank)) => a = c
  BY <1>2, <1>3 DEF ServerTypeOK
<1>5. assets' \subseteq AssetType /\ \A a \in assets' : a.id \in 1..(nextAsset - 1)
  BY <1>1, <1>3 DEF ServerTypeOK
<1> QED
  BY <1>4, <1>5 DEF Submit, ServerTypeOK

\* A new account differs from all there are.
LEMMA AddTyped ==
    ASSUME ServerTypeOK, NEW asset \in AssetType, asset.id = nextAsset,
           ~IbanTaken(asset.iban, 0), AddAccount(asset)
    PROVE  ServerTypeOK'
<1>1. \A a \in assets : a.id # nextAsset /\ (a.iban # asset.iban \/ a.iban = Blank)
  <2> TAKE a \in assets
  <2>1. a.id \in 1..(nextAsset - 1) /\ nextAsset \in Nat
    BY DEF ServerTypeOK
  <2> QED
    BY <2>1 DEF IbanTaken
<1>2. nextAsset' \in Nat \ {0} /\ \A a \in assets' : a.id \in 1..(nextAsset' - 1)
  BY DEF AddAccount, ServerTypeOK
<1>3. \A a, c \in assets' : (a.id = c.id \/ (a.iban = c.iban /\ a.iban # Blank)) => a = c
  BY <1>1 DEF AddAccount, ServerTypeOK
<1> QED
  BY <1>2, <1>3 DEF AddAccount, ServerTypeOK

\* The accounts the importer writes are accounts.
LEMMA WantedTyped ==
    ASSUME AccountsTypeOK
    PROVE  /\ Wanted.iban \in IBANs \cup {Blank} /\ Wanted.currency \in Currencies
           /\ Posted \in AssetType /\ Posted.id = nextAsset /\ Posted.iban = Wanted.iban
           /\ NoCall \in [step : Steps, bank : Banks, name : AccountNames \cup {Blank}, found : AssetType,
                          figure : Figures \cup {0}]
           /\ NoCall.step = "off"
<1>1. Wanted \in [runName : AccountNames, pageName : AccountNames,
                  iban : IBANs \cup {Blank}, currency : Currencies]
  BY AccountsAssumption DEF Wanted, AccountsTypeOK, CallTypeOK, Currencies
<1>2. Posted \in AssetType /\ Posted.id = nextAsset /\ Posted.iban = Wanted.iban
  BY <1>1 DEF Posted, Opened, AssetType, AccountsTypeOK, ServerTypeOK, CallTypeOK
<1>3. /\ NoCall \in [step : Steps, bank : Banks, name : AccountNames \cup {Blank}, found : AssetType,
                     figure : Figures \cup {0}]
      /\ NoCall.step = "off"
  <2>1. NoAsset \in AssetType
    BY DEF NoAsset, AssetType
  <2> QED
    BY <2>1, SomeBank DEF NoCall, Steps
<1> QED
  BY <1>1, <1>2, <1>3

-----------------------------------------------------------------------------
(* Types.                                                                  *)

\* The first state is typed.
LEMMA TypeInit == AccountsInit => AccountsTypeOK
<1> SUFFICES ASSUME AccountsInit PROVE AccountsTypeOK
  OBVIOUS
<1>1. ServerTypeOK
  BY DEF AccountsInit, ServerTypeOK
<1>2. NoAsset \in AssetType
  BY DEF NoAsset, AssetType
<1>3. CallTypeOK
  BY <1>2, SomeBank DEF AccountsInit, CallTypeOK, NoCall, Steps
<1>4. home \in [Banks -> 0..(nextAsset - 1)]
  BY DEF AccountsInit
<1>5. accountTrouble \in 0..MaxAccountTrouble /\ accountEdits \in 0..MaxAccountEdits
  BY AccountsAssumption DEF AccountsInit
<1> QED
  BY <1>1, <1>3, <1>4, <1>5 DEF AccountsInit, AccountsTypeOK

\* What an edit of the user leaves alone or counts.
LEMMA EditTyped ==
    ASSUME AccountsTypeOK, AccountEdit, ServerTypeOK', nextAsset' \in Nat,
           home' \in [Banks -> 0..(nextAsset' - 1)], userSet' \in BOOLEAN
    PROVE  AccountsTypeOK'
<1>1. CallTypeOK'
  BY DEF AccountsTypeOK, CallTypeOK, AccountEdit
<1>2. accountEdits' \in 0..MaxAccountEdits /\ accountTrouble' \in 0..MaxAccountTrouble
  BY AccountsAssumption DEF AccountsTypeOK, AccountEdit
<1> QED
  BY <1>1, <1>2 DEF AccountsTypeOK

\* What the user and the other clients do keeps the types.
LEMMA UserTyped ==
    ASSUME AccountsTypeOK, AccountsUser
    PROVE  AccountsTypeOK'
<1> USE DEF AccountsTypeOK
<1>1. \A a \in assets : a \in AssetType /\ a.id \in Nat /\ IsAsset(a.id)
  BY DEF ServerTypeOK, IsAsset
<1>2. ASSUME NEW a \in assets, DeletesAccount(a) PROVE AccountsTypeOK'
  <2>1. ServerTypeOK'
    BY <1>2 DEF DeletesAccount, ServerTypeOK
  <2>2. home' \in [Banks -> 0..(nextAsset' - 1)]
    BY <1>2 DEF DeletesAccount, Unsettle, ServerTypeOK
  <2> QED
    BY <1>2, <2>1, <2>2, EditTyped DEF DeletesAccount, ServerTypeOK
<1>3. ASSUME NEW a \in assets, NEW name \in AccountNames, RenameAccount(a, name)
      PROVE  AccountsTypeOK'
  <2> DEFINE asset == [a EXCEPT !.name = name]
  <2>1. asset \in AssetType /\ asset.id = a.id /\ asset.iban = a.iban
    BY <1>1 DEF AssetType
  <2>2. ServerTypeOK'
    BY <1>1, <1>3, <2>1, OwnIBAN, SubmitTyped DEF RenameAccount
  <2> QED
    BY <1>3, <2>2, EditTyped DEF RenameAccount, Submit, ServerTypeOK
<1>4. ASSUME NEW a \in assets, NEW iban \in IBANs \cup {Blank}, SetsIBAN(a, iban)
      PROVE  AccountsTypeOK'
  <2> DEFINE asset == [a EXCEPT !.iban = iban]
  <2>1. asset \in AssetType /\ asset.id = a.id /\ asset.iban = iban
    BY <1>1 DEF AssetType
  <2>2. ServerTypeOK'
    BY <1>1, <1>4, <2>1, SubmitTyped DEF SetsIBAN
  <2>3. home' \in [Banks -> 0..(nextAsset' - 1)]
    BY <1>4 DEF SetsIBAN, Submit, Unsettle, ServerTypeOK
  <2> QED
    BY <1>4, <2>2, <2>3, EditTyped DEF SetsIBAN, ServerTypeOK
<1>5. ASSUME NEW a \in assets, NEW figure \in Figures \cup {0}, SetsOpening(a, figure)
      PROVE  AccountsTypeOK'
  <2> DEFINE asset == [a EXCEPT !.opening = figure]
  <2>1. asset \in AssetType /\ asset.id = a.id /\ asset.iban = a.iban
    BY <1>1 DEF AssetType
  <2>2. ServerTypeOK'
    BY <1>1, <1>5, <2>1, OwnIBAN, SubmitTyped DEF SetsOpening
  <2>3. nextAsset' = nextAsset /\ home' = home /\ userSet' \in BOOLEAN
    BY <1>5 DEF SetsOpening, Submit
  <2> QED
    BY <1>5, <2>2, <2>3, EditTyped DEF SetsOpening, ServerTypeOK
<1>6. ASSUME NEW name \in AccountNames, NEW iban \in IBANs \cup {Blank}, NEW b \in Banks,
             OpensAccount(name, iban, SpecOf[b].currency)
      PROVE  AccountsTypeOK'
  <2> DEFINE asset == Opened(name, iban, SpecOf[b].currency)
  <2>1. asset \in AssetType /\ asset.id = nextAsset /\ asset.iban = iban
    <3>1. SpecOf[b].currency \in Currencies
      BY DEF Currencies
    <3> QED
      BY <3>1 DEF Opened, AssetType, ServerTypeOK
  <2>2. ServerTypeOK'
    BY <1>6, <2>1, AddTyped DEF OpensAccount
  <2>3. nextAsset' = nextAsset + 1 /\ nextAsset \in Nat /\ home' = home /\ userSet' = userSet
    BY <1>6 DEF OpensAccount, AddAccount, ServerTypeOK
  <2>4. home' \in [Banks -> 0..(nextAsset' - 1)]
    BY <2>3
  <2> QED
    BY <1>6, <2>2, <2>3, <2>4, EditTyped DEF OpensAccount, ServerTypeOK
<1> QED
  BY <1>2, <1>3, <1>4, <1>5, <1>6 DEF AccountsUser

CallType == [step : Steps, bank : Banks, name : AccountNames \cup {Blank}, found : AssetType,
             figure : Figures \cup {0}]

\* What an answer leaves in the call.
LEMMA ConfirmTyped ==
    ASSUME AccountsTypeOK, NEW asset \in AssetType, ConfirmCurrency(asset)
    PROVE  call' \in CallType /\ call'.step \in {"have", "off"}
<1>1. call \in CallType /\ NoCall \in CallType /\ NoCall.step = "off"
  BY WantedTyped DEF AccountsTypeOK, CallTypeOK, CallType
<1>2. [call EXCEPT !.step = "have", !.found = asset] \in CallType
  BY <1>1 DEF CallType, Steps
<1> QED
  BY <1>1, <1>2 DEF ConfirmCurrency, CallType

\* Recording a settled account keeps the types.
LEMMA SettlesTyped ==
    ASSUME AccountsTypeOK, NEW asset, Settles(asset), nextAsset' \in Nat,
           nextAsset <= nextAsset', asset.id \in 0..(nextAsset' - 1)
    PROVE  home' \in [Banks -> 0..(nextAsset' - 1)]
<1>1. \A b \in Banks : home[b] \in 0..(nextAsset' - 1)
  BY DEF AccountsTypeOK, ServerTypeOK
<1>2. home \in [Banks -> 0..(nextAsset' - 1)]
  BY <1>1 DEF AccountsTypeOK
<1> QED
  BY <1>2 DEF Settles

\* The state of the opening balances and the bounds, after a request.
LEMMA AnswerTyped ==
    ASSUME AccountsTypeOK, ServerTypeOK', call' \in CallType, call'.step \notin {"read", "set"},
           openingState' \in [Banks -> {"auto", "writing", "written"}],
           home' \in [Banks -> 0..(nextAsset' - 1)], userSet' \in BOOLEAN,
           Lost \/ UNCHANGED accountBounds
    PROVE  AccountsTypeOK'
<1>1. CallTypeOK'
  BY DEF CallTypeOK, CallType
<1>2. accountEdits' \in 0..MaxAccountEdits /\ accountTrouble' \in 0..MaxAccountTrouble
  BY AccountsAssumption DEF AccountsTypeOK, Lost, accountBounds
<1> QED
  BY <1>1, <1>2 DEF AccountsTypeOK

\* Both outcomes of the adoption keep the accounts apart.
LEMMA AdoptTyped ==
    ASSUME AccountsTypeOK, AdoptTaken
    PROVE  /\ Adopted \in AssetType /\ Adopted.id = call.found.id
           /\ Adopted.iban = Wanted.iban
           /\ Submit(Adopted) => ServerTypeOK'
<1>1. Asset(call.found.id) \in assets /\ Asset(call.found.id).id = call.found.id
  BY AssetFound DEF AdoptTaken
<1>2. Adopted \in AssetType /\ Adopted.id = call.found.id /\ Adopted.iban = Wanted.iban
  BY <1>1, WantedTyped DEF Adopted, AssetType, AccountsTypeOK, ServerTypeOK
<1> QED
  BY <1>2, SubmitTyped DEF AdoptTaken, AccountsTypeOK

\* A resolution keeps the types, step by step.
LEMMA ResolutionTyped ==
    ASSUME AccountsTypeOK,
           \/ \E b \in Banks :
                \E name \in {FallbackAccountName(b), BudgetAccountName(b)} : ResolveBegins(b, name)
           \/ SearchedByIBAN \/ SearchedByName \/ AdoptAnswered \/ AdoptLost
           \/ CreateAnswered \/ CreateLost
    PROVE  AccountsTypeOK'
<1>1. /\ call \in CallType /\ NoCall \in CallType /\ NoCall.step = "off"
      /\ ServerTypeOK /\ nextAsset \in Nat \ {0}
      /\ home \in [Banks -> 0..(nextAsset - 1)] /\ userSet \in BOOLEAN
      /\ openingState \in [Banks -> {"auto", "writing", "written"}]
  BY WantedTyped DEF AccountsTypeOK, ServerTypeOK, CallTypeOK, CallType
<1>2. ASSUME NEW b \in Banks, NEW name \in {FallbackAccountName(b), BudgetAccountName(b)},
             ResolveBegins(b, name)
      PROVE  AccountsTypeOK'
  <2>1. name \in AccountNames
    BY AccountsAssumption DEF FallbackAccountName, BudgetAccountName
  <2>2. call' \in CallType /\ call'.step \notin {"read", "set"}
    BY <1>1, <1>2, <2>1 DEF ResolveBegins, CallType, Steps
  <2>3. ServerTypeOK'
    BY <1>1, <1>2 DEF ResolveBegins, serverState, ServerTypeOK
  <2> QED
    BY <1>1, <1>2, <2>2, <2>3, AnswerTyped DEF ResolveBegins, serverState
<1>3. CASE SearchedByIBAN
  <2> DEFINE hit == PickAsset("iban", Wanted.iban)
  <2>1. ServerTypeOK' /\ UNCHANGED <<nextAsset, openingState, userSet, accountBounds>>
    BY <1>1, <1>3 DEF SearchedByIBAN, serverState, ServerTypeOK
  <2>2. CASE hit = NoAsset
    <3>1. call' \in CallType /\ call'.step \notin {"read", "set"} /\ home' = home
      BY <1>1, <1>3, <2>2 DEF SearchedByIBAN, CallType, Steps
    <3> QED
      BY <1>1, <2>1, <3>1, AnswerTyped
  <2>3. CASE hit # NoAsset
    <3>1. hit \in assets
      BY <2>3, PickedExact
    <3>2. hit \in AssetType /\ hit.id \in 0..(nextAsset - 1)
      BY <1>1, <3>1 DEF ServerTypeOK
    <3>3. ConfirmCurrency(hit) /\ (Settles(hit) \/ UNCHANGED home)
      BY <1>3, <2>3 DEF SearchedByIBAN
    <3>4. call' \in CallType /\ call'.step \notin {"read", "set"}
      BY <3>2, <3>3, ConfirmTyped
    <3>5. home' \in [Banks -> 0..(nextAsset' - 1)]
      BY <1>1, <2>1, <3>2, <3>3, SettlesTyped
    <3> QED
      BY <1>1, <2>1, <3>4, <3>5, AnswerTyped
  <2> QED
    BY <2>2, <2>3
<1>4. CASE SearchedByName
  <2> DEFINE hit == PickAsset("name", call.name)
  <2>1. ServerTypeOK' /\ UNCHANGED <<nextAsset, openingState, home, userSet, accountBounds>>
    BY <1>1, <1>4 DEF SearchedByName, serverState, ServerTypeOK
  <2>2. hit = NoAsset \/ hit \in AssetType
    BY <1>1, PickedExact DEF ServerTypeOK
  <2>3. CASE hit = NoAsset
    BY <1>1, <1>4, <2>1, <2>3, AnswerTyped DEF SearchedByName, CallType, Steps
  <2>4. CASE hit # NoAsset /\ Adopts(hit)
    <3>1. call' = [call EXCEPT !.step = "adopt", !.found = hit]
      BY <1>4, <2>4 DEF SearchedByName
    <3>2. call' \in CallType /\ call'.step \notin {"read", "set"}
      BY <1>1, <2>2, <2>4, <3>1 DEF CallType, Steps
    <3> QED
      BY <1>1, <2>1, <3>2, AnswerTyped
  <2>5. CASE hit # NoAsset /\ ~Adopts(hit)
    <3>1. ConfirmCurrency(hit)
      BY <1>4, <2>5 DEF SearchedByName
    <3>2. call' \in CallType /\ call'.step \notin {"read", "set"}
      BY <2>2, <2>5, <3>1, ConfirmTyped
    <3> QED
      BY <1>1, <2>1, <3>2, AnswerTyped
  <2> QED
    BY <2>3, <2>4, <2>5
<1>5. CASE AdoptAnswered \/ AdoptLost
  <2>1. /\ ConfirmCurrency(call.found) /\ UNCHANGED <<openingState, userSet>>
        /\ Lost \/ UNCHANGED accountBounds
        /\ \/ UNCHANGED <<serverState, home>>
           \/ AdoptTaken /\ Submit(Adopted) /\ Settles(Adopted)
    BY <1>5 DEF AdoptAnswered, AdoptLost
  <2>2. call' \in CallType /\ call'.step \notin {"read", "set"}
    BY <1>1, <2>1, ConfirmTyped DEF CallType
  <2>3. ServerTypeOK' /\ nextAsset' = nextAsset /\ home' \in [Banks -> 0..(nextAsset' - 1)]
    <3>1. CASE UNCHANGED <<serverState, home>>
      BY <1>1, <3>1 DEF serverState, ServerTypeOK
    <3>2. CASE AdoptTaken /\ Submit(Adopted) /\ Settles(Adopted)
      <4>1. ServerTypeOK' /\ nextAsset' = nextAsset
        BY <3>2, AdoptTyped DEF Submit
      <4>2. Adopted.id \in 0..(nextAsset' - 1)
        BY <1>1, <3>2, <4>1, AdoptTyped DEF AdoptTaken, IsAsset, ServerTypeOK
      <4> QED
        BY <1>1, <3>2, <4>1, <4>2, SettlesTyped
    <3> QED
      BY <2>1, <3>1, <3>2
  <2> QED
    BY <1>1, <2>1, <2>2, <2>3, AnswerTyped
<1>6. CASE CreateAnswered \/ CreateLost
  <2>1. /\ UNCHANGED <<openingState, userSet>>
        /\ Lost \/ UNCHANGED accountBounds
        /\ \/ UNCHANGED <<serverState, home>>
           \/ ~CreateRefused /\ AddAccount(Posted) /\ Settles(Posted)
        /\ call' \in {NoCall, [call EXCEPT !.step = "have", !.found = Posted]}
    BY <1>6 DEF CreateAnswered, CreateLost
  <2>2. call' \in CallType /\ call'.step \notin {"read", "set"}
    BY <1>1, <2>1, WantedTyped DEF CallType, Steps
  <2>3. ServerTypeOK' /\ home' \in [Banks -> 0..(nextAsset' - 1)]
    <3>1. CASE UNCHANGED <<serverState, home>>
      BY <1>1, <3>1 DEF serverState, ServerTypeOK
    <3>2. CASE ~CreateRefused /\ AddAccount(Posted) /\ Settles(Posted)
      <4>1. ServerTypeOK'
        BY <1>1, <3>2, AddTyped, WantedTyped DEF CreateRefused
      <4>2. nextAsset' = nextAsset + 1 /\ Posted.id \in 0..(nextAsset' - 1)
        BY <1>1, <3>2, WantedTyped DEF AddAccount
      <4> QED
        BY <1>1, <3>2, <4>1, <4>2, SettlesTyped
    <3> QED
      BY <2>1, <3>1, <3>2
  <2> QED
    BY <1>1, <2>1, <2>2, <2>3, AnswerTyped
<1> QED
  BY <1>2, <1>3, <1>4, <1>5, <1>6

\* Writing an opening balance keeps the types.
LEMMA OpeningTyped ==
    ASSUME AccountsTypeOK,
           \/ Leaves \/ (\E figure \in Figures : ClaimsOpening(figure))
           \/ AccountRead \/ OpeningAnswered \/ OpeningLost
    PROVE  AccountsTypeOK'
<1>1. /\ call \in CallType /\ NoCall \in CallType /\ NoCall.step = "off"
      /\ ServerTypeOK /\ nextAsset \in Nat \ {0}
      /\ home \in [Banks -> 0..(nextAsset - 1)] /\ userSet \in BOOLEAN
      /\ openingState \in [Banks -> {"auto", "writing", "written"}]
      /\ call.step \in {"read", "set"} => openingState[call.bank] = "writing"
  BY WantedTyped DEF AccountsTypeOK, ServerTypeOK, CallTypeOK, CallType
<1>2. \A state \in {"auto", "written"} : OpeningIs(state) =>
         /\ call' \in CallType /\ call'.step \notin {"read", "set"}
         /\ openingState' \in [Banks -> {"auto", "writing", "written"}]
  BY <1>1 DEF OpeningIs
<1>3. CASE Leaves
  <2>1. ServerTypeOK' /\ home' \in [Banks -> 0..(nextAsset' - 1)]
    BY <1>1, <1>3 DEF Leaves, serverState, ServerTypeOK
  <2> QED
    BY <1>1, <1>3, <2>1, AnswerTyped DEF Leaves
<1>4. ASSUME NEW figure \in Figures, ClaimsOpening(figure) PROVE AccountsTypeOK'
  <2>1. ServerTypeOK' /\ home' \in [Banks -> 0..(nextAsset' - 1)]
    BY <1>1, <1>4 DEF ClaimsOpening, serverState, ServerTypeOK
  <2>2. call' \in CallType /\ call'.bank = call.bank /\ call.bank \in Banks
    BY <1>1, <1>4 DEF ClaimsOpening, CallType, Steps
  <2>3. openingState' = [openingState EXCEPT ![call.bank] = "writing"]
    BY <1>4 DEF ClaimsOpening
  <2>4. CallTypeOK'
    BY <1>1, <2>2, <2>3 DEF CallTypeOK, CallType
  <2> QED
    BY <1>4, <2>1, <2>4 DEF ClaimsOpening, AccountsTypeOK, accountBounds
<1>5. CASE AccountRead
  <2>1. ServerTypeOK' /\ home' \in [Banks -> 0..(nextAsset' - 1)] /\ userSet' = FALSE
    BY <1>1, <1>5 DEF AccountRead, serverState, ServerTypeOK
  <2>2. CASE OpeningIs("auto") \/ OpeningIs("written")
    BY <1>1, <1>2, <1>5, <2>1, <2>2, AnswerTyped DEF AccountRead
  <2>3. CASE call' = [call EXCEPT !.step = "set"] /\ UNCHANGED openingState
    <3>1. call.step = "read"
      BY <1>5 DEF AccountRead
    <3>2. openingState[call.bank] = "writing"
      BY <3>1 DEF AccountsTypeOK, CallTypeOK
    <3> QED
      BY <1>1, <1>5, <2>1, <2>3, <3>2
      DEF AccountRead, AccountsTypeOK, CallTypeOK, CallType, Steps, accountBounds
  <2> QED
    BY <1>5, <2>2, <2>3 DEF AccountRead
<1>6. ASSUME IsAsset(call.found.id), PutOpening PROVE ServerTypeOK' /\ nextAsset' = nextAsset
  <2> DEFINE seen == Asset(call.found.id)
             asset == [seen EXCEPT !.opening = call.figure]
  <2>1. seen \in assets /\ seen.id = call.found.id
    BY <1>6, AssetFound
  <2>2. asset \in AssetType /\ asset.id = seen.id /\ asset.iban = seen.iban
    BY <1>1, <2>1 DEF AssetType, ServerTypeOK, CallType
  <2> QED
    BY <1>1, <1>6, <2>1, <2>2, OwnIBAN, SubmitTyped DEF PutOpening, Submit
<1>7. CASE OpeningAnswered
  <2>1. /\ \/ UNCHANGED serverState
           \/ IsAsset(call.found.id) /\ PutOpening
        /\ OpeningIs("auto") \/ OpeningIs("written")
    BY <1>7 DEF OpeningAnswered
  <2>2. ServerTypeOK' /\ nextAsset' = nextAsset
    BY <1>1, <1>6, <2>1 DEF serverState, ServerTypeOK
  <2> QED
    BY <1>1, <1>2, <1>7, <2>1, <2>2, AnswerTyped DEF OpeningAnswered
<1>8. CASE OpeningLost
  <2>1. ServerTypeOK' /\ nextAsset' = nextAsset
    BY <1>1, <1>6, <1>8 DEF OpeningLost, serverState, ServerTypeOK
  <2>2. CASE OpeningIs("auto")
    BY <1>1, <1>2, <1>8, <2>1, <2>2, AnswerTyped DEF OpeningLost
  <2>3. CASE UNCHANGED <<call, openingState>>
    <3>1. CallTypeOK'
      BY <2>3 DEF AccountsTypeOK, CallTypeOK
    <3>2. accountTrouble' \in 0..MaxAccountTrouble /\ accountEdits' = accountEdits
      BY <1>8, AccountsAssumption DEF OpeningLost, Lost, AccountsTypeOK
    <3> QED
      BY <1>1, <1>8, <2>1, <3>1, <3>2 DEF OpeningLost, AccountsTypeOK
  <2> QED
    BY <1>8, <2>2, <2>3 DEF OpeningLost
<1> QED
  BY <1>3, <1>4, <1>5, <1>7, <1>8

\* Every step keeps the types.
LEMMA TypeStep == AccountsTypeOK /\ [AccountsNext]_accountVars => AccountsTypeOK'
<1>1. ASSUME AccountsTypeOK, UNCHANGED accountVars PROVE AccountsTypeOK'
  BY <1>1 DEF accountVars, serverState, accountBounds, AccountsTypeOK, ServerTypeOK, CallTypeOK
<1> QED
  BY <1>1, UserTyped, ResolutionTyped, OpeningTyped DEF AccountsNext

\* The accounts on the server stay distinct by id and by IBAN, and the requests
\* under way stay of their kinds, whatever users and lost answers do.
THEOREM AccountsTypeCorrect == AccountsSpec => []AccountsTypeOK
BY TypeInit, TypeStep, PTL DEF AccountsSpec

-----------------------------------------------------------------------------
(* A bank account stays where it was settled.                              *)

\* No account is settled at first.
LEMMA HomeInit == AccountsInit => HomeParts
BY DEF AccountsInit, HomeParts, HomeCarries, NotHoused, AdoptsFree, Settled, NoCall

\* What leaves the call alone and takes homes away only is enough for the parts
\* about the call.
LEMMA HomesTaken ==
    ASSUME AccountsTypeOK, HomeParts, HomeCarries', UNCHANGED call,
           nextAsset' \in Nat, nextAsset <= nextAsset',
           \A b \in Banks : home'[b] = home[b] \/ home'[b] = 0
    PROVE  HomeParts'
<1>1. call.bank \in Banks /\ nextAsset \in Nat
  BY DEF AccountsTypeOK, CallTypeOK, ServerTypeOK
<1>2. AdoptsFree'
  BY <1>1 DEF HomeParts, AdoptsFree, Wanted
<1> QED
  BY <1>1, <1>2 DEF HomeParts, NotHoused, Settled

\* An update that keeps the IBAN of an account keeps what is settled in it.
LEMMA SameIBANCarries ==
    ASSUME HomeCarries, UNCHANGED home, NEW a \in assets, NEW asset,
           ServerTypeOK, asset.id = a.id, asset.iban = a.iban, Submit(asset)
    PROVE  HomeCarries'
<1> SUFFICES ASSUME NEW b \in Banks, home[b] # 0
             PROVE  \E c \in assets' : c.id = home[b] /\ c.iban = SpecOf[b].iban /\ c.iban # Blank
  BY DEF HomeCarries
<1>1. PICK c \in assets : c.id = home[b] /\ c.iban = SpecOf[b].iban /\ c.iban # Blank
  BY DEF HomeCarries
<1>2. CASE c.id = a.id
  <2>1. c = a
    BY <1>2 DEF ServerTypeOK
  <2> QED
    BY <1>1, <2>1 DEF Submit
<1>3. CASE c.id # a.id
  BY <1>1, <1>3 DEF Submit
<1> QED
  BY <1>2, <1>3

\* The user moves no settled account.
LEMMA HomeUser ==
    ASSUME AccountsTypeOK, HomeParts, AccountsUser
    PROVE  HomeParts'
<1>1. ServerTypeOK /\ nextAsset \in Nat /\ HomeCarries /\ home \in [Banks -> Nat]
  BY DEF AccountsTypeOK, ServerTypeOK, HomeParts
<1>2. UNCHANGED call
  BY DEF AccountsUser, DeletesAccount, RenameAccount, SetsIBAN, SetsOpening, OpensAccount,
         AccountEdit
<1>3. ASSUME NEW a \in assets, DeletesAccount(a) PROVE HomeParts'
  <2>1. assets' = assets \ {a} /\ nextAsset' = nextAsset
    BY <1>3 DEF DeletesAccount
  <2>2. \A b \in Banks : home'[b] = IF home[b] = a.id THEN 0 ELSE home[b]
    BY <1>3 DEF DeletesAccount, Unsettle
  <2>3. HomeCarries'
    BY <1>1, <2>1, <2>2 DEF HomeCarries
  <2> QED
    BY <1>1, <1>2, <2>1, <2>2, <2>3, HomesTaken
<1>4. ASSUME NEW a \in assets, NEW name \in AccountNames, RenameAccount(a, name)
      PROVE  HomeParts'
  <2> DEFINE asset == [a EXCEPT !.name = name]
  <2>1. asset.id = a.id /\ asset.iban = a.iban
    BY <1>1 DEF ServerTypeOK, AssetType
  <2>2. Submit(asset) /\ home' = home /\ nextAsset' = nextAsset
    BY <1>4 DEF RenameAccount, Submit
  <2>3. HomeCarries'
    BY <1>1, <2>1, <2>2, SameIBANCarries
  <2> QED
    BY <1>1, <1>2, <2>2, <2>3, HomesTaken
<1>5. ASSUME NEW a \in assets, NEW iban \in IBANs \cup {Blank}, SetsIBAN(a, iban)
      PROVE  HomeParts'
  <2> DEFINE asset == [a EXCEPT !.iban = iban]
  <2>1. asset.id = a.id
    BY <1>1 DEF ServerTypeOK, AssetType
  <2>2. Submit(asset) /\ nextAsset' = nextAsset
    BY <1>5 DEF SetsIBAN, Submit
  <2>3. \A b \in Banks : home'[b] = IF home[b] = a.id THEN 0 ELSE home[b]
    BY <1>5 DEF SetsIBAN, Unsettle
  <2>4. HomeCarries'
    BY <1>1, <2>1, <2>2, <2>3 DEF HomeCarries, Submit
  <2> QED
    BY <1>1, <1>2, <2>2, <2>3, <2>4, HomesTaken
<1>6. ASSUME NEW a \in assets, NEW figure \in Figures \cup {0}, SetsOpening(a, figure)
      PROVE  HomeParts'
  <2> DEFINE asset == [a EXCEPT !.opening = figure]
  <2>1. asset.id = a.id /\ asset.iban = a.iban
    BY <1>1 DEF ServerTypeOK, AssetType
  <2>2. Submit(asset) /\ home' = home /\ nextAsset' = nextAsset
    BY <1>6 DEF SetsOpening, Submit
  <2>3. HomeCarries'
    BY <1>1, <2>1, <2>2, SameIBANCarries
  <2> QED
    BY <1>1, <1>2, <2>2, <2>3, HomesTaken
<1>7. ASSUME NEW name, NEW iban, NEW b \in Banks,
             OpensAccount(name, iban, SpecOf[b].currency)
      PROVE  HomeParts'
  <2>1. assets \subseteq assets' /\ nextAsset' = nextAsset + 1 /\ home' = home
    BY <1>7 DEF OpensAccount, AddAccount
  <2>2. HomeCarries'
    BY <1>1, <2>1 DEF HomeCarries
  <2> QED
    BY <1>1, <1>2, <2>1, <2>2, HomesTaken
<1> QED
  BY <1>3, <1>4, <1>5, <1>6, <1>7 DEF AccountsUser

\* The importer settles the bank account under way, and no other.
LEMMA HomeResolution ==
    ASSUME AccountsTypeOK, HomeParts,
           \/ \E b \in Banks :
                \E name \in {FallbackAccountName(b), BudgetAccountName(b)} : ResolveBegins(b, name)
           \/ SearchedByIBAN \/ SearchedByName \/ AdoptAnswered \/ AdoptLost
           \/ CreateAnswered \/ CreateLost
    PROVE  HomeParts'
<1>1. /\ call \in CallType /\ NoCall.step = "off" /\ call.bank \in Banks
      /\ ServerTypeOK /\ nextAsset \in Nat \ {0}
      /\ home \in [Banks -> 0..(nextAsset - 1)] /\ home \in [Banks -> Nat]
      /\ Wanted.iban \in IBANs \cup {Blank} /\ Wanted = SpecOf[call.bank]
  BY WantedTyped DEF AccountsTypeOK, ServerTypeOK, CallTypeOK, CallType, Wanted
<1> USE DEF HomeParts
<1>2. ASSUME NEW b \in Banks, NEW name, ResolveBegins(b, name) PROVE HomeParts'
  <2>1. /\ call' = [NoCall EXCEPT !.bank = b, !.name = name,
                                 !.step = IF SpecOf[b].iban = Blank THEN "name" ELSE "iban"]
        /\ UNCHANGED <<assets, nextAsset, home>>
    BY <1>2 DEF ResolveBegins, serverState
  <2>2. call'.bank = b /\ (call'.step = "iban" \/ (call'.step = "name" /\ SpecOf[b].iban = Blank))
    BY <2>1 DEF NoCall
  <2>3. HomeCarries'
    BY <2>1 DEF HomeCarries
  <2>4. call'.step = "name" => home[b] = 0
    BY <2>2 DEF HomeCarries
  <2> QED
    BY <2>1, <2>2, <2>3, <2>4 DEF NotHoused, AdoptsFree, Settled
<1>3. CASE SearchedByIBAN
  <2> DEFINE hit == PickAsset("iban", Wanted.iban)
  <2>1. call.step = "iban" /\ UNCHANGED <<assets, nextAsset>>
    BY <1>3 DEF SearchedByIBAN, serverState
  <2>2. CASE hit = NoAsset
    <3>1. call' = [call EXCEPT !.step = "name"] /\ home' = home
      BY <1>3, <2>2 DEF SearchedByIBAN
    <3>2. home[call.bank] = 0
      <4>1. SUFFICES ASSUME home[call.bank] # 0 PROVE FALSE
        OBVIOUS
      <4>2. PICK a \in assets : a.iban = Wanted.iban /\ a.iban # Blank /\ a.id = home[call.bank]
        BY <1>1, <4>1 DEF HomeCarries
      <4>3. hit = a
        BY <1>1, <4>2, PickedByIBAN
      <4>4. home[call.bank] # NoAsset.id
        BY <4>1 DEF NoAsset
      <4> QED
        BY <2>2, <4>2, <4>3, <4>4
    <3>3. call'.step = "name" /\ call'.bank = call.bank
      BY <1>1, <3>1 DEF CallType
    <3> QED
      BY <2>1, <3>1, <3>2, <3>3 DEF HomeCarries, NotHoused, AdoptsFree, Settled
  <2>3. CASE hit # NoAsset /\ ~SameCurrency(hit)
    <3>1. call' = NoCall /\ home' = home
      BY <1>3, <2>3 DEF SearchedByIBAN, ConfirmCurrency
    <3> QED
      BY <1>1, <2>1, <3>1 DEF HomeCarries, NotHoused, AdoptsFree, Settled
  <2>4. CASE hit # NoAsset /\ SameCurrency(hit)
    <3>1. hit \in assets /\ hit.iban = Wanted.iban
      BY <2>4, PickedExact
    <3>2. call' = [call EXCEPT !.step = "have", !.found = hit] /\ Settles(hit)
      BY <1>3, <2>4 DEF SearchedByIBAN, ConfirmCurrency
    <3>3. call'.step = "have" /\ call'.bank = call.bank /\ call'.found = hit
      BY <1>1, <3>2 DEF CallType
    <3>4. home[call.bank] # 0 => hit.id = home[call.bank]
      <4>1. SUFFICES ASSUME home[call.bank] # 0 PROVE hit.id = home[call.bank]
        OBVIOUS
      <4>2. PICK a \in assets : a.iban = Wanted.iban /\ a.iban # Blank /\ a.id = home[call.bank]
        BY <1>1, <4>1 DEF HomeCarries
      <4> QED
        BY <1>1, <4>2, PickedByIBAN
    <3>5. HomeCarries'
      BY <1>1, <2>1, <3>1, <3>2 DEF HomeCarries, Settles
    <3>6. home'[call.bank] # 0 => hit.id = home'[call.bank]
      BY <1>1, <3>2, <3>4 DEF Settles
    <3> QED
      BY <3>3, <3>5, <3>6 DEF NotHoused, AdoptsFree, Settled
  <2> QED
    BY <2>2, <2>3, <2>4
<1>4. CASE SearchedByName
  <2> DEFINE hit == PickAsset("name", call.name)
  <2>1. UNCHANGED <<assets, nextAsset, home>> /\ home[call.bank] = 0
    BY <1>4 DEF SearchedByName, serverState, NotHoused
  <2>2. HomeCarries'
    BY <2>1 DEF HomeCarries
  <2>3. CASE hit = NoAsset
    <3>1. call' = [call EXCEPT !.step = "create"]
      BY <1>4, <2>3 DEF SearchedByName
    <3>2. call'.step = "create" /\ call'.bank = call.bank
      BY <1>1, <3>1 DEF CallType
    <3> QED
      BY <2>1, <2>2, <3>2 DEF NotHoused, AdoptsFree, Settled
  <2>4. CASE hit # NoAsset /\ Adopts(hit)
    <3>1. hit \in assets
      BY <2>4, PickedExact
    <3>2. call' = [call EXCEPT !.step = "adopt", !.found = hit]
      BY <1>4, <2>4 DEF SearchedByName
    <3>3. call'.step = "adopt" /\ call'.bank = call.bank /\ call'.found = hit
      BY <1>1, <3>2 DEF CallType
    <3>4. Wanted.iban # Blank /\ hit.iban = Blank /\ hit.id \in 1..(nextAsset - 1)
      BY <1>1, <2>4, <3>1 DEF Adopts, ServerTypeOK
    <3>5. \A b \in Banks : home[b] # hit.id
      <4> SUFFICES ASSUME NEW b \in Banks, home[b] = hit.id PROVE FALSE
        OBVIOUS
      <4>1. home[b] # 0
        BY <1>1, <3>4
      <4>2. PICK a \in assets : a.id = home[b] /\ a.iban # Blank
        BY <4>1 DEF HomeCarries
      <4> QED
        BY <1>1, <3>1, <3>4, <4>2 DEF ServerTypeOK
    <3> QED
      BY <2>1, <2>2, <3>3, <3>4, <3>5 DEF NotHoused, AdoptsFree, Settled, Wanted
  <2>5. CASE hit # NoAsset /\ ~Adopts(hit)
    <3>1. call' = NoCall \/ call' = [call EXCEPT !.step = "have", !.found = hit]
      BY <1>4, <2>5 DEF SearchedByName, ConfirmCurrency
    <3>2. call'.step = "off" \/ (call'.step = "have" /\ call'.bank = call.bank)
      BY <1>1, <3>1 DEF CallType
    <3> QED
      BY <2>1, <2>2, <3>2 DEF NotHoused, AdoptsFree, Settled
  <2> QED
    BY <2>3, <2>4, <2>5
<1>5. CASE AdoptAnswered \/ AdoptLost
  <2>1. /\ call.step = "adopt" /\ ConfirmCurrency(call.found)
        /\ \/ UNCHANGED <<serverState, home>>
           \/ AdoptTaken /\ Submit(Adopted) /\ Settles(Adopted)
    BY <1>5 DEF AdoptAnswered, AdoptLost
  <2>2. home[call.bank] = 0 /\ Wanted.iban # Blank /\ \A b \in Banks : home[b] # call.found.id
    BY <2>1 DEF NotHoused, AdoptsFree
  <2>3. \/ call'.step = "off"
        \/ call'.step = "have" /\ call'.bank = call.bank /\ call'.found = call.found
    BY <1>1, <2>1 DEF ConfirmCurrency, CallType
  <2>4. CASE UNCHANGED <<serverState, home>>
    BY <2>2, <2>3, <2>4 DEF serverState, HomeCarries, NotHoused, AdoptsFree, Settled
  <2>5. CASE AdoptTaken /\ Submit(Adopted) /\ Settles(Adopted)
    <3>1. Adopted.id = call.found.id /\ Adopted.iban = Wanted.iban
      BY <2>5, AdoptTyped
    <3>2. home' = [home EXCEPT ![call.bank] = call.found.id]
      BY <2>2, <2>5, <3>1 DEF Settles
    <3>3. assets' = {a \in assets : a.id # call.found.id} \cup {Adopted}
      BY <2>5, <3>1 DEF Submit
    <3>4. HomeCarries'
      BY <1>1, <2>2, <3>1, <3>2, <3>3 DEF HomeCarries
    <3>5. home'[call.bank] = call.found.id
      BY <1>1, <3>2
    <3> QED
      BY <2>3, <3>4, <3>5 DEF NotHoused, AdoptsFree, Settled
  <2> QED
    BY <2>1, <2>4, <2>5
<1>6. CASE CreateAnswered \/ CreateLost
  <2>1. /\ call.step = "create"
        /\ \/ UNCHANGED <<serverState, home>>
           \/ AddAccount(Posted) /\ Settles(Posted)
        /\ call' \in {NoCall, [call EXCEPT !.step = "have", !.found = Posted]}
    BY <1>6 DEF CreateAnswered, CreateLost
  <2>2. home[call.bank] = 0
    BY <2>1 DEF NotHoused
  <2>3. \/ call'.step = "off"
        \/ call'.step = "have" /\ call'.bank = call.bank /\ call'.found = Posted
    BY <1>1, <2>1 DEF CallType
  <2>4. CASE UNCHANGED <<serverState, home>>
    BY <2>2, <2>3, <2>4 DEF serverState, HomeCarries, NotHoused, AdoptsFree, Settled
  <2>5. CASE AddAccount(Posted) /\ Settles(Posted)
    <3>1. Posted \in assets' /\ assets \subseteq assets'
      BY <2>5 DEF AddAccount
    <3>2. Posted.iban = Wanted.iban
      BY WantedTyped
    <3>3. home' = IF Wanted.iban # Blank THEN [home EXCEPT ![call.bank] = Posted.id] ELSE home
      BY <2>2, <2>5, <3>2 DEF Settles
    <3>4. HomeCarries'
      BY <1>1, <3>1, <3>2, <3>3 DEF HomeCarries
    <3>5. home'[call.bank] # 0 => Posted.id = home'[call.bank]
      BY <1>1, <2>2, <3>3
    <3> QED
      BY <2>3, <3>4, <3>5 DEF NotHoused, AdoptsFree, Settled
  <2> QED
    BY <2>1, <2>4, <2>5
<1> QED
  BY <1>2, <1>3, <1>4, <1>5, <1>6

\* Writing an opening balance changes nobody's IBAN.
LEMMA HomeOpening ==
    ASSUME AccountsTypeOK, HomeParts,
           \/ Leaves \/ (\E figure \in Figures : ClaimsOpening(figure))
           \/ AccountRead \/ OpeningAnswered \/ OpeningLost
    PROVE  HomeParts'
<1>1. call \in CallType /\ NoCall.step = "off" /\ ServerTypeOK /\ UNCHANGED home
  BY WantedTyped
  DEF AccountsTypeOK, CallTypeOK, CallType, Leaves, ClaimsOpening, AccountRead,
      OpeningAnswered, OpeningLost
<1>2. call'.step \in {"off", "read", "set"}
  BY <1>1 DEF CallType, Leaves, ClaimsOpening, AccountRead, OpeningAnswered, OpeningLost, OpeningIs
<1>3. \/ UNCHANGED assets
      \/ IsAsset(call.found.id) /\ PutOpening
  BY DEF Leaves, ClaimsOpening, AccountRead, OpeningAnswered, OpeningLost, serverState
<1>4. HomeCarries'
  <2>1. CASE UNCHANGED assets
    BY <1>1, <2>1 DEF HomeParts, HomeCarries
  <2>2. CASE IsAsset(call.found.id) /\ PutOpening
    <3> DEFINE seen == Asset(call.found.id)
               asset == [seen EXCEPT !.opening = call.figure]
    <3>1. seen \in assets /\ Submit(asset)
      BY <2>2, AssetFound DEF PutOpening
    <3>2. asset.id = seen.id /\ asset.iban = seen.iban
      BY <1>1, <3>1 DEF ServerTypeOK, AssetType
    <3> QED
      BY <1>1, <3>1, <3>2, SameIBANCarries DEF HomeParts
  <2> QED
    BY <1>3, <2>1, <2>2
<1> QED
  BY <1>2, <1>4 DEF HomeParts, NotHoused, AdoptsFree, Settled

\* Every step keeps the invariant.
LEMMA HomeStep == HomeInv /\ [AccountsNext]_accountVars => HomeInv'
<1>1. ASSUME HomeInv, UNCHANGED accountVars PROVE HomeParts'
  BY <1>1 DEF HomeInv, HomeParts, HomeCarries, NotHoused, AdoptsFree, Settled, Wanted,
              accountVars, serverState
<1> QED
  BY <1>1, TypeStep, HomeUser, HomeResolution, HomeOpening DEF HomeInv, AccountsNext

\* The invariant holds what HomeStays asks.
LEMMA HomeSafe == HomeInv => HomeStays
BY DEF HomeInv, HomeParts, NotHoused, Settled, HomeStays

\* A bank account settled in an asset account under its IBAN is imported into
\* that one only, and no second one is opened for it, however accounts are
\* renamed and answers lost.
THEOREM HomeStaysCorrect == AccountsSpec => []HomeStays
<1>1. AccountsInit => HomeInv
  BY TypeInit, HomeInit DEF HomeInv
<1> QED
  BY <1>1, HomeStep, HomeSafe, PTL DEF AccountsSpec

-----------------------------------------------------------------------------
(* No opening balance is replaced.                                         *)

\* No answer of the importer but one to its own PUT touches an opening balance.
OpeningsStay ==
    \A a \in assets, c \in assets' : a.id = c.id => c.opening = a.opening

\* A submitted asset leaves the openings of the others.
LEMMA SubmitStays ==
    ASSUME ServerTypeOK, NEW a \in assets, NEW asset, asset.id = a.id,
           asset.opening = a.opening, Submit(asset)
    PROVE  OpeningsStay
BY DEF OpeningsStay, Submit, ServerTypeOK

\* A resolution writes no opening balance.
LEMMA ResolutionStays ==
    ASSUME AccountsTypeOK,
           \/ \E b \in Banks :
                \E name \in {FallbackAccountName(b), BudgetAccountName(b)} : ResolveBegins(b, name)
           \/ SearchedByIBAN \/ SearchedByName \/ AdoptAnswered \/ AdoptLost
           \/ CreateAnswered \/ CreateLost
    PROVE  OpeningsStay
<1>1. ServerTypeOK /\ nextAsset \in Nat
  BY DEF AccountsTypeOK, ServerTypeOK
<1>2. \/ UNCHANGED assets
      \/ AdoptTaken /\ Submit(Adopted)
      \/ AddAccount(Posted)
  BY DEF ResolveBegins, SearchedByIBAN, SearchedByName, AdoptAnswered, AdoptLost,
         CreateAnswered, CreateLost, serverState
<1>3. CASE UNCHANGED assets
  BY <1>1, <1>3 DEF OpeningsStay, ServerTypeOK
<1>4. CASE AdoptTaken /\ Submit(Adopted)
  <2>1. Asset(call.found.id) \in assets /\ Asset(call.found.id).id = call.found.id
    BY <1>4, AssetFound DEF AdoptTaken
  <2>2. /\ Adopted.id = Asset(call.found.id).id
        /\ Adopted.opening = Asset(call.found.id).opening
    BY <1>1, <2>1 DEF Adopted, ServerTypeOK, AssetType
  <2> QED
    BY <1>1, <1>4, <2>1, <2>2, SubmitStays
<1>5. CASE AddAccount(Posted)
  <2>1. Posted.id = nextAsset /\ \A a \in assets : a.id # nextAsset
    BY <1>1, WantedTyped DEF ServerTypeOK
  <2> QED
    BY <1>1, <1>5, <2>1 DEF OpeningsStay, AddAccount, ServerTypeOK
<1> QED
  BY <1>2, <1>3, <1>4, <1>5

\* Nothing has been read at first.
LEMMA SeenInit == AccountsInit => OpeningSeen
BY DEF AccountsInit, OpeningSeen, NoCall

\* Whatever the user does to the account about to be written is known, or not
\* about its opening balance.
LEMMA SeenUser ==
    ASSUME AccountsTypeOK, OpeningSeen, AccountsUser
    PROVE  OpeningSeen'
<1>1. ServerTypeOK /\ nextAsset \in Nat /\ UNCHANGED call
  BY DEF AccountsTypeOK, ServerTypeOK, AccountsUser, DeletesAccount, RenameAccount, SetsIBAN,
         SetsOpening, OpensAccount, AccountEdit
<1>2. nextAsset' \in Nat /\ nextAsset <= nextAsset'
  BY <1>1 DEF AccountsUser, DeletesAccount, RenameAccount, SetsIBAN, SetsOpening, OpensAccount,
              Submit, AddAccount
<1>3. call.step \in {"adopt", "have", "read", "set"} => call.found.id \in 1..(nextAsset' - 1)
  BY <1>1, <1>2 DEF OpeningSeen
<1> SUFFICES ASSUME call.step = "set"
             PROVE  \/ userSet'
                    \/ \A c \in assets' : c.id = call.found.id => c.opening \in {0, call.figure}
  BY <1>1, <1>3 DEF OpeningSeen
<1>4. call.found.id # nextAsset
  BY <1>1 DEF OpeningSeen
<1>5. ASSUME UNCHANGED userSet,
             \A c \in assets' : c.id = call.found.id =>
                \E a \in assets : a.id = c.id /\ a.opening = c.opening
      PROVE  \/ userSet'
             \/ \A c \in assets' : c.id = call.found.id => c.opening \in {0, call.figure}
  BY <1>5 DEF OpeningSeen
<1>6. ASSUME NEW a \in assets, DeletesAccount(a)
      PROVE  /\ UNCHANGED userSet
             /\ \A c \in assets' : \E d \in assets : d.id = c.id /\ d.opening = c.opening
  BY <1>6 DEF DeletesAccount
<1>7. ASSUME NEW a \in assets, NEW name \in AccountNames, RenameAccount(a, name)
      PROVE  /\ UNCHANGED userSet
             /\ \A c \in assets' : \E d \in assets : d.id = c.id /\ d.opening = c.opening
  <2> DEFINE asset == [a EXCEPT !.name = name]
  <2>1. asset.id = a.id /\ asset.opening = a.opening
    BY <1>1 DEF ServerTypeOK, AssetType
  <2> QED
    BY <1>7, <2>1 DEF RenameAccount, Submit
<1>8. ASSUME NEW a \in assets, NEW iban \in IBANs \cup {Blank}, SetsIBAN(a, iban)
      PROVE  /\ UNCHANGED userSet
             /\ \A c \in assets' : \E d \in assets : d.id = c.id /\ d.opening = c.opening
  <2> DEFINE asset == [a EXCEPT !.iban = iban]
  <2>1. asset.id = a.id /\ asset.opening = a.opening
    BY <1>1 DEF ServerTypeOK, AssetType
  <2> QED
    BY <1>8, <2>1 DEF SetsIBAN, Submit
<1>9. ASSUME NEW a \in assets, NEW figure \in Figures \cup {0}, SetsOpening(a, figure)
      PROVE  \/ userSet'
             \/ \A c \in assets' : c.id = call.found.id => c.opening \in {0, call.figure}
  <2> DEFINE asset == [a EXCEPT !.opening = figure]
  <2>1. asset.id = a.id
    BY <1>1 DEF ServerTypeOK, AssetType
  <2>2. Submit(asset) /\ userSet' = (userSet \/ (call.step = "set" /\ call.found.id = a.id))
    BY <1>9 DEF SetsOpening
  <2>3. CASE call.found.id = a.id
    BY <2>2, <2>3
  <2>4. CASE call.found.id # a.id
    <3>1. \A c \in assets' : c.id = call.found.id => c \in assets
      BY <2>1, <2>2, <2>4 DEF Submit
    <3> QED
      BY <2>2, <3>1 DEF OpeningSeen
  <2> QED
    BY <2>3, <2>4
<1>10. ASSUME NEW name, NEW iban, NEW b \in Banks,
              OpensAccount(name, iban, SpecOf[b].currency)
       PROVE  \/ userSet'
              \/ \A c \in assets' : c.id = call.found.id => c.opening \in {0, call.figure}
  BY <1>4, <1>10 DEF OpensAccount, AddAccount, Opened, OpeningSeen
<1> QED
  BY <1>5, <1>6, <1>7, <1>8, <1>9, <1>10 DEF AccountsUser

\* A resolution keeps what was read true.
LEMMA SeenResolution ==
    ASSUME AccountsTypeOK, OpeningSeen,
           \/ \E b \in Banks :
                \E name \in {FallbackAccountName(b), BudgetAccountName(b)} : ResolveBegins(b, name)
           \/ SearchedByIBAN \/ SearchedByName \/ AdoptAnswered \/ AdoptLost
           \/ CreateAnswered \/ CreateLost
    PROVE  OpeningSeen'
<1>1. call \in CallType /\ NoCall.step = "off" /\ ServerTypeOK /\ nextAsset \in Nat \ {0}
  BY WantedTyped DEF AccountsTypeOK, ServerTypeOK, CallTypeOK, CallType
<1>2. \A a \in assets : a.id \in 1..(nextAsset - 1)
  BY <1>1 DEF ServerTypeOK
<1>3. CASE \E b \in Banks :
             \E name \in {FallbackAccountName(b), BudgetAccountName(b)} : ResolveBegins(b, name)
  BY <1>3 DEF ResolveBegins, NoCall, OpeningSeen
<1>4. CASE SearchedByIBAN
  <2> DEFINE hit == PickAsset("iban", Wanted.iban)
  <2>1. /\ nextAsset' = nextAsset
        /\ \/ call' = [call EXCEPT !.step = "name"] \/ call' = NoCall
           \/ hit # NoAsset /\ call' = [call EXCEPT !.step = "have", !.found = hit]
    BY <1>4 DEF SearchedByIBAN, ConfirmCurrency, serverState
  <2>2. hit # NoAsset => hit.id \in 1..(nextAsset - 1)
    BY <1>2, PickedExact
  <2> QED
    BY <1>1, <2>1, <2>2 DEF OpeningSeen, CallType
<1>5. CASE SearchedByName
  <2> DEFINE hit == PickAsset("name", call.name)
  <2>1. /\ nextAsset' = nextAsset
        /\ \/ call' = [call EXCEPT !.step = "create"] \/ call' = NoCall
           \/ hit # NoAsset /\ call' = [call EXCEPT !.step = "have", !.found = hit]
           \/ hit # NoAsset /\ call' = [call EXCEPT !.step = "adopt", !.found = hit]
    BY <1>5 DEF SearchedByName, ConfirmCurrency, serverState
  <2>2. hit # NoAsset => hit.id \in 1..(nextAsset - 1)
    BY <1>2, PickedExact
  <2> QED
    BY <1>1, <2>1, <2>2 DEF OpeningSeen, CallType
<1>6. CASE AdoptAnswered \/ AdoptLost
  <2>1. nextAsset' = nextAsset /\ call.step = "adopt" /\ ConfirmCurrency(call.found)
    BY <1>6 DEF AdoptAnswered, AdoptLost, Submit, serverState
  <2>2. call'.step = "off" \/ (call'.step = "have" /\ call'.found = call.found)
    BY <1>1, <2>1 DEF ConfirmCurrency, CallType
  <2> QED
    BY <2>1, <2>2 DEF OpeningSeen
<1>7. CASE CreateAnswered \/ CreateLost
  <2>1. \/ call' = NoCall
        \/ nextAsset' = nextAsset + 1 /\ call' = [call EXCEPT !.step = "have", !.found = Posted]
    BY <1>7 DEF CreateAnswered, CreateLost, AddAccount
  <2>2. Posted.id = nextAsset
    BY WantedTyped
  <2>3. \/ call'.step = "off"
        \/ nextAsset' = nextAsset + 1 /\ call'.step = "have" /\ call'.found = Posted
    BY <1>1, <2>1 DEF CallType
  <2> QED
    BY <1>1, <2>2, <2>3 DEF OpeningSeen
<1> QED
  BY <1>3, <1>4, <1>5, <1>6, <1>7

\* The read finds no opening balance, or none is written.
LEMMA SeenOpening ==
    ASSUME AccountsTypeOK, OpeningSeen,
           \/ Leaves \/ (\E figure \in Figures : ClaimsOpening(figure))
           \/ AccountRead \/ OpeningAnswered \/ OpeningLost
    PROVE  OpeningSeen'
<1>1. call \in CallType /\ NoCall.step = "off" /\ ServerTypeOK /\ nextAsset \in Nat \ {0}
  BY WantedTyped DEF AccountsTypeOK, ServerTypeOK, CallTypeOK, CallType
<1>2. CASE Leaves \/ OpeningAnswered
  BY <1>1, <1>2 DEF Leaves, OpeningAnswered, OpeningIs, OpeningSeen
<1>3. ASSUME NEW figure \in Figures, ClaimsOpening(figure) PROVE OpeningSeen'
  BY <1>1, <1>3 DEF ClaimsOpening, OpeningSeen, CallType, serverState
<1>4. CASE AccountRead
  <2>1. call.step = "read" /\ UNCHANGED <<assets, nextAsset>>
    BY <1>4 DEF AccountRead, serverState
  <2>2. CASE call' = NoCall
    BY <1>1, <2>2 DEF OpeningSeen
  <2>3. CASE call' # NoCall
    <3>1. IsAsset(call.found.id) /\ ~AlreadyThere /\ call' = [call EXCEPT !.step = "set"]
      BY <1>4, <2>3 DEF AccountRead, OpeningIs
    <3>2. Asset(call.found.id) \in assets /\ Asset(call.found.id).id = call.found.id
      BY <3>1, AssetFound
    <3>3. \A a \in assets : a.id = call.found.id => a.opening = 0
      BY <1>1, <3>1, <3>2 DEF AlreadyThere, ServerTypeOK
    <3>4. call'.found = call.found /\ call'.step = "set"
      BY <1>1, <3>1 DEF CallType
    <3> QED
      BY <2>1, <3>3, <3>4 DEF OpeningSeen
  <2> QED
    BY <2>2, <2>3
<1>5. CASE OpeningLost
  <2>1. call.step = "set" /\ UNCHANGED userSet
    BY <1>5 DEF OpeningLost
  <2>2. CASE call' = NoCall
    BY <1>1, <2>2 DEF OpeningSeen
  <2>3. CASE call' # NoCall
    <3>1. /\ UNCHANGED call
          /\ \/ UNCHANGED serverState
             \/ IsAsset(call.found.id) /\ PutOpening
      BY <1>5, <2>3 DEF OpeningLost, OpeningIs
    <3>2. CASE UNCHANGED serverState
      BY <2>1, <3>1, <3>2 DEF OpeningSeen, serverState
    <3>3. CASE IsAsset(call.found.id) /\ PutOpening
      <4> DEFINE seen == Asset(call.found.id)
                 asset == [seen EXCEPT !.opening = call.figure]
      <4>1. seen \in assets /\ seen.id = call.found.id /\ Submit(asset)
        BY <3>3, AssetFound DEF PutOpening
      <4>2. asset.id = call.found.id /\ asset.opening = call.figure
        BY <1>1, <4>1 DEF ServerTypeOK, AssetType
      <4>3. nextAsset' = nextAsset /\ \A c \in assets' : c.id = call.found.id => c = asset
        BY <4>1, <4>2 DEF Submit
      <4> QED
        BY <2>1, <3>1, <4>2, <4>3 DEF OpeningSeen
    <3> QED
      BY <3>1, <3>2, <3>3
  <2> QED
    BY <2>2, <2>3
<1> QED
  BY <1>2, <1>3, <1>4, <1>5

\* Every step keeps it.
LEMMA SeenStep ==
    (AccountsTypeOK /\ OpeningSeen) /\ [AccountsNext]_accountVars
      => (AccountsTypeOK /\ OpeningSeen)'
<1>1. ASSUME OpeningSeen, UNCHANGED accountVars PROVE OpeningSeen'
  BY <1>1 DEF OpeningSeen, accountVars, serverState
<1> QED
  BY <1>1, TypeStep, SeenUser, SeenResolution, SeenOpening DEF AccountsNext

\* What a step may do to an opening balance that is there.
OpeningGuard ==
    \A a \in assets, c \in assets' :
       a.id = c.id /\ a.opening # 0 /\ accountEdits' = accountEdits
       => c.opening = a.opening \/ userSet

\* An opening changes by its own guard or by the user.
LEMMA GuardStep ==
    ASSUME AccountsTypeOK, OpeningSeen, AccountsNext
    PROVE  OpeningGuard
<1>1. ServerTypeOK /\ accountEdits \in Nat
  BY AccountsAssumption DEF AccountsTypeOK
<1>2. CASE AccountsUser
  <2>1. accountEdits' = accountEdits + 1
    BY <1>2 DEF AccountsUser, DeletesAccount, RenameAccount, SetsIBAN, SetsOpening,
                OpensAccount, AccountEdit
  <2> QED
    BY <1>1, <2>1 DEF OpeningGuard
<1>3. ASSUME OpeningsStay PROVE OpeningGuard
  BY <1>3 DEF OpeningsStay, OpeningGuard
<1>4. ASSUME UNCHANGED assets PROVE OpeningsStay
  BY <1>1, <1>4 DEF OpeningsStay, ServerTypeOK
<1>5. CASE Leaves \/ (\E figure \in Figures : ClaimsOpening(figure)) \/ AccountRead
  BY <1>3, <1>4, <1>5 DEF Leaves, ClaimsOpening, AccountRead, serverState
<1>6. CASE OpeningAnswered \/ OpeningLost
  <2>1. /\ call.step = "set"
        /\ \/ UNCHANGED assets
           \/ IsAsset(call.found.id) /\ PutOpening
    BY <1>6 DEF OpeningAnswered, OpeningLost, serverState
  <2>2. CASE IsAsset(call.found.id) /\ PutOpening
    <3> DEFINE seen == Asset(call.found.id)
               asset == [seen EXCEPT !.opening = call.figure]
    <3>1. seen \in assets /\ seen.id = call.found.id /\ Submit(asset)
      BY <2>2, AssetFound DEF PutOpening
    <3>2. asset.id = call.found.id /\ asset.opening = call.figure
      BY <1>1, <3>1 DEF ServerTypeOK, AssetType
    <3> SUFFICES ASSUME NEW a \in assets, NEW c \in assets', a.id = c.id, a.opening # 0
                 PROVE  c.opening = a.opening \/ userSet
      BY DEF OpeningGuard
    <3>3. CASE c = asset
      BY <2>1, <3>2, <3>3 DEF OpeningSeen
    <3>4. CASE c # asset
      BY <1>1, <3>1, <3>4 DEF Submit, ServerTypeOK
    <3> QED
      BY <3>3, <3>4
  <2> QED
    BY <1>3, <1>4, <2>1, <2>2
<1> QED
  BY <1>2, <1>3, <1>5, <1>6, ResolutionStays DEF AccountsNext

\* An opening balance in Firefly is replaced by its user only, also after lost
\* answers and with a new figure of the bank, unless the user set it while ours
\* was on its way.
THEOREM OpeningKeptCorrect == AccountsSpec => OpeningKept
<1>1. AccountsInit => AccountsTypeOK /\ OpeningSeen
  BY TypeInit, SeenInit
<1>2. AccountsTypeOK /\ OpeningSeen /\ [AccountsNext]_accountVars
        => [OpeningGuard]_accountVars
  BY GuardStep
<1>3. AccountsSpec => [][OpeningGuard]_accountVars
  BY <1>1, <1>2, SeenStep, PTL DEF AccountsSpec
<1> QED
  BY <1>3 DEF OpeningKept, OpeningGuard

-----------------------------------------------------------------------------
(* The types of all three.                                                 *)

\* Side by side the three models keep their types.
THEOREM TypesCorrect == MCSpec => []TypesOK
<1>1. MCInit => Init /\ FireflyInit /\ AccountsInit
  BY DEF MCInit
<1>2. [MCNext]_mcVars => /\ [Next]_vars /\ [FireflyNext]_fireflyVars
                         /\ [AccountsNext]_accountVars
  BY DEF MCNext, ActualPart, FireflyPart, AccountsPart, mcVars
<1>3. MCSpec => Spec /\ FireflySpec /\ AccountsSpec
  BY <1>1, <1>2, PTL DEF MCSpec, Spec, FireflySpec, AccountsSpec
<1>4. TypesOK <=> TypeOK /\ FireflyTypeOK /\ AccountsTypeOK
  BY DEF TypesOK
<1> QED
  BY <1>3, <1>4, BackendTypeCorrect, FireflyTypeCorrect, AccountsTypeCorrect, PTL
=============================================================================
