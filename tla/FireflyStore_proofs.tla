-------------------------- MODULE FireflyStore_proofs --------------------------
(***************************************************************************)
(* Theorems about FireflyStore, for every set of bookings, any length of a *)
(* listing and of a retry, and any number of lost answers, crashes, tokens *)
(* and edits of the user.                                                  *)
(***************************************************************************)
EXTENDS FireflyStore, FiniteSetTheorems, TLAPS

-----------------------------------------------------------------------------
(* Types.                                                                  *)

Marks == {"pending", "own"}
Groups == [id : Nat \ {0}, of : Bookings, ref : BOOLEAN, amount : {"authorised", "booked"},
           tags : SUBSET Marks, splits : 1..2, reconciled : BOOLEAN]
Tasks == {"off", "page", "search", "read", "about", "write", "post", "settle", "book"}
StageNames == {"", "amount", "enrich", "confirm", "adopt", "done"}
Jobs == [step : Tasks, known : BOOLEAN, direct : SUBSET Bookings, lookup : SUBSET Bookings,
         listing : SUBSET Bookings, placing : SUBSET Bookings,
         copy : [Bookings -> Groups \cup {NoGroup}], page : Nat \ {0}, seen : SUBSET Groups,
         stage : StageNames, base : SUBSET Marks, renewed : BOOLEAN,
         attempt : 0..MaxRateRetry, out : [Bookings -> Nat]]

\* What a run has left to do is consistent: what is looked up or listed is to
\* be placed, what is updated in the loop is not, and has a row.
Orderly(j) ==
    /\ j.lookup \subseteq j.placing /\ j.listing \subseteq j.placing
    /\ j.direct \cap j.placing = {}
    /\ \A p \in j.direct : j.copy[p] # NoGroup
    /\ ~j.known => /\ j.direct = {} /\ j.lookup = {} /\ j.listing = {}
                   /\ \A p \in Bookings : j.copy[p] = NoGroup /\ j.out[p] = 0

\* The request under way is one of the phase the run is in.
AtWork(j) == Phase(j) \in {"direct", "find", "place"} /\ j.copy[CurrentOf(j)] # NoGroup
InPhase(j) ==
    /\ j.step = "page" => Phase(j) \in {"known", "list"}
    /\ j.step = "search" => Phase(j) = "find"
    /\ j.step = "post" => Phase(j) = "place" /\ j.copy[CurrentOf(j)] = NoGroup
    /\ j.step \in {"read", "about", "write", "settle"} => AtWork(j)
    /\ j.step = "book" => Phase(j) = "book"
    /\ j.step = "off" => j = NoJob

JobInv == job \in Jobs /\ Orderly(job) /\ InPhase(job)

\* A set of naturals has a least member, which is its Min.
LEMMA Least ==
  ASSUME NEW T \in SUBSET Nat, T # {}
  PROVE  Min(T) \in T /\ \A y \in T : Min(T) <= y
<1> DEFINE R == {ss \in Nat \X Nat : ss[1] < ss[2]}
<1>1. IsWellFoundedOn(R, Nat)
  BY NatLessThanWellFounded DEF OpToRel
<1>2. PICK x \in T : \A y \in T : ~(<<y, x>> \in R)
  <2> HIDE DEF R
  <2> QED BY <1>1, WFMin
<1>3. ASSUME NEW y \in T PROVE x <= y
  <2>1. x \in Nat /\ y \in Nat /\ ~(<<y, x>> \in R)
    BY <1>2
  <2>2. ~(y < x)
    BY <2>1
  <2> QED
    BY <2>1, <2>2
<1> QED
  BY <1>3 DEF Min

\* A missing row is no row of Firefly.
LEMMA NoGroupIs == NoGroup.id = 0 /\ NoGroup \notin Groups
<1>1. NoGroup.id = 0
  BY Zenon DEF NoGroup
<1>2. \A g \in Groups : g.id # 0
  BY DEF Groups
<1> QED
  BY <1>1, <1>2

\* The names of the stages.
LEMMA StagesNamed ==
  /\ "amount" \in StageNames /\ "enrich" \in StageNames /\ "confirm" \in StageNames
  /\ "adopt" \in StageNames /\ "done" \in StageNames
  BY Zenon DEF StageNames

\* A run that is off has nothing left.
LEMMA NoJobIs ==
  /\ NoJob \in Jobs
  /\ NoJob.step = "off" /\ NoJob.known = FALSE /\ NoJob.direct = {} /\ NoJob.lookup = {}
  /\ NoJob.listing = {} /\ NoJob.placing = {} /\ NoJob.page = 1 /\ NoJob.seen = {}
  /\ NoJob.attempt = 0
  /\ \A p \in Bookings : NoJob.copy[p] = NoGroup /\ NoJob.out[p] = 0
  /\ [NoJob EXCEPT !.attempt = 0] = NoJob
  /\ [NoJob EXCEPT !.renewed = FALSE] = NoJob
<1> DEFINE cc == [p \in Bookings |-> NoGroup]
           oo == [p \in Bookings |-> 0]
           blank == ""
<1>1. /\ NoJob = [step |-> "off", known |-> FALSE, direct |-> {}, lookup |-> {},
                  listing |-> {}, placing |-> {}, copy |-> cc, page |-> 1, seen |-> {},
                  stage |-> blank, base |-> {}, renewed |-> FALSE, attempt |-> 0, out |-> oo]
      /\ blank \in StageNames
  BY Zenon DEF NoJob, StageNames
<1>2. cc \in [Bookings -> Groups \cup {NoGroup}] /\ oo \in [Bookings -> Nat]
      /\ \A p \in Bookings : cc[p] = NoGroup /\ oo[p] = 0
  OBVIOUS
<1> HIDE DEF cc, oo, blank
<1>3. 0 \in 0..MaxRateRetry
  BY StoreAssumption
<1>4. NoJob \in Jobs
  BY <1>1, <1>2, <1>3 DEF Jobs, Tasks
<1>5. /\ NoJob.step = "off" /\ NoJob.known = FALSE /\ NoJob.direct = {} /\ NoJob.lookup = {}
      /\ NoJob.listing = {} /\ NoJob.placing = {} /\ NoJob.page = 1 /\ NoJob.seen = {}
      /\ NoJob.attempt = 0 /\ NoJob.copy = cc /\ NoJob.out = oo /\ NoJob.renewed = FALSE
  BY <1>1
<1>6. [NoJob EXCEPT !.attempt = 0] = NoJob
  BY <1>4, <1>5 DEF Jobs
<1>7. [NoJob EXCEPT !.renewed = FALSE] = NoJob
  BY <1>4, <1>5 DEF Jobs
<1> QED
  BY <1>2, <1>4, <1>5, <1>6, <1>7

\* What phase a run is in.
LEMMA PhaseIs ==
  ASSUME NEW j, j.known \in BOOLEAN
  PROVE  /\ Phase(j) \in {"known", "direct", "find", "list", "place", "book"}
         /\ Phase(j) = "known" <=> ~j.known
         /\ Phase(j) = "direct" <=> j.known /\ j.direct # {}
         /\ Phase(j) = "find" <=> j.known /\ j.direct = {} /\ j.lookup # {}
         /\ Phase(j) = "list" <=> j.known /\ j.direct = {} /\ j.lookup = {} /\ j.listing # {}
         /\ Phase(j) = "place" <=> /\ j.known /\ j.direct = {} /\ j.lookup = {}
                                   /\ j.listing = {} /\ j.placing # {}
         /\ Phase(j) = "book" <=> /\ j.known /\ j.direct = {} /\ j.lookup = {}
                                  /\ j.listing = {} /\ j.placing = {}
<1>1. CASE ~j.known
  BY <1>1 DEF Phase
<1>2. CASE j.known /\ j.direct # {}
  BY <1>2 DEF Phase
<1>3. CASE j.known /\ j.direct = {} /\ j.lookup # {}
  BY <1>3 DEF Phase
<1>4. CASE j.known /\ j.direct = {} /\ j.lookup = {} /\ j.listing # {}
  BY <1>4 DEF Phase
<1>5. CASE /\ j.known /\ j.direct = {} /\ j.lookup = {} /\ j.listing = {}
           /\ j.placing # {}
  BY <1>5 DEF Phase
<1>6. CASE /\ j.known /\ j.direct = {} /\ j.lookup = {} /\ j.listing = {}
           /\ j.placing = {}
  BY <1>6 DEF Phase
<1> QED
  BY <1>1, <1>2, <1>3, <1>4, <1>5, <1>6

\* What the run is about is the first of what its phase has left.
LEMMA CurrentIs ==
  ASSUME NEW j \in Jobs
  PROVE  /\ Phase(j) = "direct" => CurrentOf(j) \in j.direct
         /\ Phase(j) = "find" => CurrentOf(j) \in j.lookup
         /\ Phase(j) = "list" => CurrentOf(j) \in j.listing
         /\ Phase(j) = "place" => CurrentOf(j) \in j.placing
         /\ Phase(j) \in {"direct", "find", "list", "place"} => CurrentOf(j) \in Bookings
<1>1. /\ j.direct \in SUBSET Bookings /\ j.lookup \in SUBSET Bookings
      /\ j.listing \in SUBSET Bookings /\ j.placing \in SUBSET Bookings
      /\ j.known \in BOOLEAN
  BY DEF Jobs
<1>2. \A T \in SUBSET Bookings : T # {} => Min(T) \in T
  BY Least, StoreAssumption
<1>3. Phase(j) = "direct" => CurrentOf(j) = Min(j.direct) /\ j.direct # {}
  BY <1>1, PhaseIs DEF CurrentOf
<1>4. Phase(j) = "find" => CurrentOf(j) = Min(j.lookup) /\ j.lookup # {}
  BY <1>1, PhaseIs DEF CurrentOf
<1>5. Phase(j) = "list" => CurrentOf(j) = Min(j.listing) /\ j.listing # {}
  BY <1>1, PhaseIs DEF CurrentOf
<1>6. Phase(j) = "place" => CurrentOf(j) = Min(j.placing) /\ j.placing # {}
  BY <1>1, PhaseIs DEF CurrentOf
<1> QED
  BY <1>1, <1>2, <1>3, <1>4, <1>5, <1>6

-----------------------------------------------------------------------------
(* The course of a run.                                                    *)

\* Which stage comes first, and which after the amount.
LEMMA StageFromIs ==
  ASSUME NEW t, NEW p
  PROVE  /\ StageFrom("direct", 1, t, p) = IF AmountPatch(t, p) # {} THEN "amount"
                                           ELSE IF MergePatch(t, p) # {} THEN "enrich"
                                           ELSE "done"
         /\ StageFrom("direct", 2, t, p) = IF MergePatch(t, p) # {} THEN "enrich" ELSE "done"
         /\ \A phase : phase # "direct" =>
              StageFrom(phase, 1, t, p) =
                 IF AmountPatch(t, p) \cup MergePatch(t, p) # {} THEN "adopt" ELSE "done"
<1>1. \A T \in SUBSET Nat : T # {} => Min(T) \in T /\ \A y \in T : Min(T) <= y
  BY Least
<1>2. /\ Stages("direct") = <<"amount", "enrich">> /\ Len(Stages("direct")) = 2
      /\ Stages("direct")[1] = "amount" /\ Stages("direct")[2] = "enrich"
  BY DEF Stages
<1>3. ASSUME NEW phase, phase # "direct"
      PROVE  Len(Stages(phase)) = 1 /\ Stages(phase)[1] = "adopt"
  BY <1>3 DEF Stages
<1>4. /\ Patch("amount", t, p) = AmountPatch(t, p) /\ Patch("enrich", t, p) = MergePatch(t, p)
      /\ Patch("adopt", t, p) = AmountPatch(t, p) \cup MergePatch(t, p)
  BY DEF Patch
<1>5. ASSUME NEW phase, phase # "direct"
      PROVE  StageFrom(phase, 1, t, p) =
                IF AmountPatch(t, p) \cup MergePatch(t, p) # {} THEN "adopt" ELSE "done"
  <2> DEFINE left == {i \in 1..Len(Stages(phase)) : Patch(Stages(phase)[i], t, p) # {}}
  <2>1. left = IF AmountPatch(t, p) \cup MergePatch(t, p) # {} THEN {1} ELSE {}
    BY <1>3, <1>4, <1>5
  <2>2. StageFrom(phase, 1, t, p) = IF left = {} THEN "done" ELSE Stages(phase)[Min(left)]
    BY DEF StageFrom
  <2>3. Min({1}) = 1
    BY <1>1
  <2> HIDE DEF left
  <2>4. CASE AmountPatch(t, p) \cup MergePatch(t, p) = {}
    BY <2>1, <2>2, <2>4
  <2>5. CASE AmountPatch(t, p) \cup MergePatch(t, p) # {}
    <3>1. left = {1} /\ left # {}
      BY <2>1, <2>5
    <3>2. Stages(phase)[Min(left)] = "adopt"
      BY <1>3, <1>5, <2>3, <3>1
    <3> QED
      BY <2>2, <2>5, <3>1, <3>2
  <2> QED
    BY <2>4, <2>5
<1>6. StageFrom("direct", 2, t, p) = IF MergePatch(t, p) # {} THEN "enrich" ELSE "done"
  <2> DEFINE left == {i \in 2..Len(Stages("direct")) : Patch(Stages("direct")[i], t, p) # {}}
  <2>1. left = IF MergePatch(t, p) # {} THEN {2} ELSE {}
    <3>1. left = {i \in 2..2 : Patch(Stages("direct")[i], t, p) # {}}
      BY <1>2
    <3>2. 2..2 = {2}
      OBVIOUS
    <3>3. Patch(Stages("direct")[2], t, p) = MergePatch(t, p)
      BY <1>2, <1>4, Zenon
    <3> HIDE DEF left
    <3> QED  BY <3>1, <3>2, <3>3, Zenon
  <2>2. StageFrom("direct", 2, t, p) = IF left = {} THEN "done"
                                       ELSE Stages("direct")[Min(left)]
    BY DEF StageFrom
  <2>3. Min({2}) = 2
    BY <1>1
  <2> QED
    BY <1>2, <2>1, <2>2, <2>3
<1>7. StageFrom("direct", 1, t, p) = IF AmountPatch(t, p) # {} THEN "amount"
                                     ELSE IF MergePatch(t, p) # {} THEN "enrich"
                                     ELSE "done"
  <2> DEFINE left == {i \in 1..Len(Stages("direct")) : Patch(Stages("direct")[i], t, p) # {}}
  <2>1. /\ left \in SUBSET Nat /\ left \subseteq {1, 2}
        /\ 1 \in left <=> AmountPatch(t, p) # {}
        /\ 2 \in left <=> MergePatch(t, p) # {}
    <3>1. left = {i \in 1..2 : Patch(Stages("direct")[i], t, p) # {}}
      BY <1>2
    <3>2. \A i \in 1..2 : i = 1 \/ i = 2
      OBVIOUS
    <3>3. Patch(Stages("direct")[1], t, p) = AmountPatch(t, p)
      BY <1>2, <1>4, Zenon
    <3>4. Patch(Stages("direct")[2], t, p) = MergePatch(t, p)
      BY <1>2, <1>4, Zenon
    <3>5. 1 \in 1..2 /\ 2 \in 1..2 /\ 1..2 \in SUBSET Nat
      OBVIOUS
    <3> HIDE DEF left
    <3>6. left \in SUBSET Nat /\ left \subseteq {1, 2}
      BY <3>1, <3>2, <3>5, Zenon
    <3>7. 1 \in left <=> AmountPatch(t, p) # {}
      BY <3>1, <3>3, <3>5, Zenon
    <3>8. 2 \in left <=> MergePatch(t, p) # {}
      BY <3>1, <3>4, <3>5, Zenon
    <3> QED  BY <3>6, <3>7, <3>8
  <2>2. StageFrom("direct", 1, t, p) = IF left = {} THEN "done"
                                       ELSE Stages("direct")[Min(left)]
    BY DEF StageFrom
  <2>3. left # {} => Min(left) \in left /\ \A y \in left : Min(left) <= y
    BY <1>1, <2>1
  <2> HIDE DEF left
  <2>4. CASE 1 \in left
    <3>1. Min(left) = 1
      <4>1. Min(left) \in left /\ Min(left) <= 1
        BY <2>3, <2>4
      <4>2. Min(left) \in {1, 2}
        BY <2>1, <4>1
      <4> QED
        BY <4>1, <4>2
    <3> QED
      BY <1>2, <2>1, <2>2, <2>4, <3>1
  <2>5. CASE 1 \notin left /\ 2 \in left
    <3>1. Min(left) = 2
      BY <2>1, <2>3, <2>5
    <3> QED
      BY <1>2, <2>1, <2>2, <2>5, <3>1
  <2>6. CASE 1 \notin left /\ 2 \notin left
    BY <2>1, <2>2, <2>6
  <2> QED
    BY <2>4, <2>5, <2>6
<1> QED
  BY <1>5, <1>6, <1>7

\* Two descriptions of one run that differ in the request under way only.
SameWork(k, j) ==
    /\ k.known = j.known /\ k.direct = j.direct /\ k.lookup = j.lookup
    /\ k.listing = j.listing /\ k.placing = j.placing /\ k.copy = j.copy /\ k.out = j.out

\* They are in one phase and about one booking.
LEMMA SameWorkSame ==
  ASSUME NEW k, NEW j, SameWork(k, j)
  PROVE  /\ Phase(k) = Phase(j) /\ CurrentOf(k) = CurrentOf(j)
         /\ Orderly(j) => Orderly(k)
         /\ AtWork(k) <=> AtWork(j)
<1>1. Phase(k) = Phase(j)
  BY DEF SameWork, Phase
<1>2. CurrentOf(k) = CurrentOf(j)
  BY <1>1 DEF SameWork, CurrentOf
<1> QED
  BY <1>1, <1>2 DEF SameWork, Orderly, AtWork

\* The stages a write may be at.
Opening(j) == StageFrom(Phase(j), 1, j.copy[CurrentOf(j)], CurrentOf(j))

\* A stage leads to a read, or to the settlement when nothing is left to write.
LEMMA UpdatingIs ==
  ASSUME NEW j \in Jobs, Orderly(j), AtWork(j), NEW stage \in StageNames
  PROVE  LET k == Updating(j, stage) IN
         /\ k \in Jobs /\ Orderly(k) /\ InPhase(k) /\ SameWork(k, j) /\ k.stage = stage
         /\ k.step = IF stage = "done" THEN "settle" ELSE "read"
         /\ k.attempt = j.attempt /\ k.base = j.base
<1> DEFINE st == IF stage = "done" THEN "settle" ELSE "read"
           k == [j EXCEPT !.stage = stage, !.step = st]
<1>1. k \in Jobs /\ SameWork(k, j) /\ k.step = st /\ k.stage = stage
      /\ k.attempt = j.attempt /\ k.base = j.base
  BY DEF Jobs, Tasks, SameWork
<1>2. st \in {"settle", "read"}
  OBVIOUS
<1>3. Orderly(k) /\ AtWork(k)
  BY <1>1, SameWorkSame
<1>4. InPhase(k)
  BY <1>1, <1>2, <1>3 DEF InPhase
<1>5. k = Updating(j, stage)
  BY DEF Updating
<1> QED
  BY <1>1, <1>3, <1>4, <1>5

\* What comes next in a run is a request of its phase.
LEMMA TurnIs ==
  ASSUME NEW j \in Jobs, Orderly(j), j.known
  PROVE  LET k == Turn(j) IN
         /\ k \in Jobs /\ Orderly(k) /\ InPhase(k) /\ SameWork(k, j) /\ k.attempt = j.attempt
         /\ k.step \in {"page", "search", "read", "settle", "post", "book"}
         /\ k.step = "page" => k.page = 1 /\ k.seen = {}
         /\ k.step \in {"read", "settle"} => k.stage = Opening(j)
         /\ k.step = "settle" => Opening(j) = "done"
         /\ k.step = "read" => Opening(j) # "done"
<1> DEFINE p == CurrentOf(j)
           k == Turn(j)
<1>1. j.known \in BOOLEAN /\ Opening(j) \in StageNames
  BY StageFromIs, StagesNamed, PhaseIs DEF Jobs, Opening
<1>2. CASE Phase(j) = "book"
  <2>1. k = [j EXCEPT !.step = "book"]
    BY <1>2 DEF Turn
  <2>2. k \in Jobs /\ SameWork(k, j) /\ k.attempt = j.attempt /\ k.step = "book"
    BY <2>1 DEF Jobs, Tasks, SameWork
  <2> HIDE DEF k
  <2>3. Orderly(k) /\ Phase(k) = "book"
    BY <1>2, <2>2, SameWorkSame
  <2> QED
    BY <2>2, <2>3 DEF InPhase, k
<1>3. CASE Phase(j) = "find"
  <2>1. k = [j EXCEPT !.step = "search"]
    BY <1>3 DEF Turn
  <2>2. k \in Jobs /\ SameWork(k, j) /\ k.attempt = j.attempt /\ k.step = "search"
    BY <2>1 DEF Jobs, Tasks, SameWork
  <2> HIDE DEF k
  <2>3. Orderly(k) /\ Phase(k) = "find"
    BY <1>3, <2>2, SameWorkSame
  <2> QED
    BY <2>2, <2>3 DEF InPhase, k
<1>4. CASE Phase(j) = "list"
  <2>1. k = [j EXCEPT !.step = "page", !.page = 1, !.seen = {}]
    BY <1>4 DEF Turn, Paging
  <2>2. /\ k \in Jobs /\ SameWork(k, j) /\ k.attempt = j.attempt
        /\ k.step = "page" /\ k.page = 1 /\ k.seen = {}
    <3>1. k \in Jobs
      <4>1. "page" \in Tasks /\ 1 \in Nat \ {0} /\ {} \in SUBSET Groups
        BY DEF Tasks
      <4> QED
        BY <2>1, <4>1 DEF Jobs
    <3>2. SameWork(k, j) /\ k.attempt = j.attempt
      BY <2>1 DEF Jobs, SameWork
    <3>3. k.step = "page" /\ k.page = 1 /\ k.seen = {}
      BY <2>1 DEF Jobs
    <3> QED
      BY <3>1, <3>2, <3>3
  <2> HIDE DEF k
  <2>3. Orderly(k) /\ Phase(k) = "list"
    BY <1>4, <2>2, SameWorkSame
  <2> QED
    BY <2>2, <2>3 DEF InPhase, k
<1>5. ASSUME k = Updating(j, Opening(j)), AtWork(j)
      PROVE  /\ k \in Jobs /\ Orderly(k) /\ InPhase(k) /\ SameWork(k, j)
             /\ k.attempt = j.attempt /\ k.step \in {"read", "settle"}
             /\ k.stage = Opening(j)
             /\ k.step = "settle" <=> Opening(j) = "done"
  <2> HIDE DEF k
  <2> QED
    BY <1>1, <1>5, UpdatingIs
<1>6. CASE Phase(j) = "direct"
  <2>1. k = Updating(j, Opening(j))
    BY <1>6 DEF Turn, Opening
  <2>2. AtWork(j)
    BY <1>6, CurrentIs DEF Orderly, AtWork
  <2> HIDE DEF k
  <2> QED
    BY <1>5, <2>1, <2>2 DEF k
<1>7. CASE Phase(j) = "place"
  <2>1. k = IF j.copy[p] = NoGroup THEN [j EXCEPT !.step = "post"] ELSE Updating(j, Opening(j))
    BY <1>7 DEF Turn, Opening
  <2>2. CASE j.copy[p] # NoGroup
    <3>1. k = Updating(j, Opening(j)) /\ AtWork(j)
      BY <1>7, <2>1, <2>2 DEF AtWork
    <3> HIDE DEF k
    <3> QED
      BY <1>5, <3>1 DEF k
  <2>3. CASE j.copy[p] = NoGroup
    <3>1. k = [j EXCEPT !.step = "post"]
      BY <2>1, <2>3
    <3>2. k \in Jobs /\ SameWork(k, j) /\ k.attempt = j.attempt /\ k.step = "post"
      BY <3>1 DEF Jobs, Tasks, SameWork
    <3> HIDE DEF k
    <3>3. Orderly(k) /\ Phase(k) = "place" /\ CurrentOf(k) = p /\ k.copy[p] = NoGroup
      BY <1>7, <2>3, <3>2, SameWorkSame DEF SameWork
    <3> QED
      BY <3>2, <3>3 DEF InPhase, k
  <2> QED
    BY <2>2, <2>3
<1>8. Phase(j) \in {"direct", "find", "list", "place", "book"}
  <2>1. Phase(j) \in {"known", "direct", "find", "list", "place", "book"}
    BY <1>1 DEF Phase
  <2>2. Phase(j) # "known"
    BY <1>1 DEF Phase
  <2> QED
    BY <2>1, <2>2
<1> QED
  BY <1>2, <1>3, <1>4, <1>6, <1>7, <1>8

\* Two descriptions of a run that differ in the number of the attempt only.
Alike(k, j) ==
    /\ SameWork(k, j) /\ k.step = j.step /\ k.stage = j.stage /\ k.page = j.page
    /\ k.seen = j.seen /\ k.base = j.base /\ k.renewed = j.renewed

\* The number of the attempt decides nothing else.
LEMMA Renumbered ==
  ASSUME NEW k \in Jobs, Orderly(k), InPhase(k), NEW n \in 0..MaxRateRetry,
         n = 0 \/ k.step # "off"
  PROVE  LET m == [k EXCEPT !.attempt = n] IN
         m \in Jobs /\ Orderly(m) /\ InPhase(m) /\ Alike(m, k)
<1> DEFINE m == [k EXCEPT !.attempt = n]
<1>1. m \in Jobs
  BY DEF Jobs
<1>2. Alike(m, k)
  BY DEF Jobs, Alike, SameWork
<1>3. k.step = "off" => m = NoJob
  <2>1. k.step = "off" => k = NoJob /\ n = 0
    BY DEF InPhase
  <2> QED
    BY <2>1, NoJobIs
<1> HIDE DEF m
<1>4. Orderly(m) /\ Phase(m) = Phase(k) /\ CurrentOf(m) = CurrentOf(k)
      /\ (AtWork(m) <=> AtWork(k)) /\ m.step = k.step /\ m.copy = k.copy
  BY <1>2, SameWorkSame DEF Alike, SameWork
<1>5. InPhase(m)
  BY <1>3, <1>4 DEF InPhase
<1> QED
  BY <1>1, <1>2, <1>4, <1>5 DEF m

\* A run goes on as it was described.
LEMMA ContinueIs ==
  ASSUME NEW k \in Jobs, Orderly(k), InPhase(k), Continue(k)
  PROVE  JobInv' /\ Alike(job', k)
<1>1. 0 \in 0..MaxRateRetry
  BY StoreAssumption
<1>2. job' = [k EXCEPT !.attempt = 0]
  BY DEF Continue
<1> QED
  BY <1>1, <1>2, Renumbered DEF JobInv

\* What a failed write leaves of a run: nothing of a batch; in the loop the
\* booking is confirmed uncorrected, or left to the next run.
LEMMA FailsIs ==
  ASSUME JobInv, job.step # "off"
  PROVE  /\ Fails \in Jobs /\ Orderly(Fails) /\ InPhase(Fails)
         /\ Phase(job) # "direct" => Fails = NoJob
         /\ Phase(job) = "direct" /\ job.stage = "enrich" =>
              SameWork(Fails, job) /\ Fails.step = "read" /\ Fails.stage = "confirm"
         /\ Phase(job) = "direct" /\ job.stage # "enrich" =>
              /\ Fails.known = job.known /\ Fails.direct = job.direct \ {Current}
              /\ Fails.lookup = job.lookup /\ Fails.listing = job.listing
              /\ Fails.placing = job.placing /\ Fails.copy = job.copy /\ Fails.out = job.out
              /\ Fails.step \in {"page", "search", "read", "settle", "post", "book"}
              /\ Fails.step = "page" => Fails.page = 1 /\ Fails.seen = {}
              /\ Fails.step \in {"read", "settle"} => Fails.stage = Opening(Fails)
              /\ Fails.step = "settle" => Opening(Fails) = "done"
              /\ Fails.step = "read" => Opening(Fails) # "done"
<1>1. job \in Jobs /\ Orderly(job) /\ InPhase(job) /\ job.known \in BOOLEAN
  BY DEF JobInv, Jobs
<1>2. CASE Phase(job) # "direct"
  <2>1. Fails = NoJob
    BY <1>2 DEF Fails
  <2>2. Orderly(NoJob) /\ InPhase(NoJob)
    BY NoJobIs DEF Orderly, InPhase
  <2> QED
    BY <1>2, <2>1, <2>2, NoJobIs
<1>3. CASE Phase(job) = "direct" /\ job.stage = "enrich"
  <2>1. AfterFailure("enrich") = "confirm"
    BY DEF AfterFailure
  <2>2. Fails = Updating(job, "confirm")
    BY <1>3, <2>1 DEF Fails
  <2>3. AtWork(job)
    BY <1>1, <1>3, CurrentIs DEF Orderly, AtWork
  <2> QED
    BY <1>1, <1>3, <2>2, <2>3, UpdatingIs, StagesNamed
<1>4. CASE Phase(job) = "direct" /\ job.stage # "enrich"
  <2> DEFINE j == [job EXCEPT !.direct = @ \ {Current}]
  <2>1. AfterFailure(job.stage) = "failed"
    BY <1>4 DEF AfterFailure
  <2>2. Fails = Turn(j)
    BY <1>4, <2>1 DEF Fails
  <2>3. /\ j \in Jobs /\ j.direct = job.direct \ {Current} /\ j.known = job.known
        /\ j.lookup = job.lookup /\ j.listing = job.listing /\ j.placing = job.placing
        /\ j.copy = job.copy /\ j.out = job.out
    BY <1>1 DEF Jobs
  <2>4. job.known
    BY <1>1, <1>4, PhaseIs
  <2> HIDE DEF j
  <2>5. Orderly(j)
    BY <1>1, <2>3, <2>4 DEF Orderly
  <2>6. /\ Fails \in Jobs /\ Orderly(Fails) /\ InPhase(Fails) /\ SameWork(Fails, j)
        /\ Fails.step \in {"page", "search", "read", "settle", "post", "book"}
        /\ Fails.step = "page" => Fails.page = 1 /\ Fails.seen = {}
        /\ Fails.step \in {"read", "settle"} => Fails.stage = Opening(j)
        /\ Fails.step = "settle" => Opening(j) = "done"
        /\ Fails.step = "read" => Opening(j) # "done"
    BY <2>2, <2>3, <2>4, <2>5, TurnIs
  <2>7. Opening(Fails) = Opening(j)
    BY <2>6, SameWorkSame DEF Opening, SameWork
  <2> QED
    BY <1>4, <2>3, <2>6, <2>7 DEF SameWork
<1> QED
  BY <1>2, <1>3, <1>4

\* A request that went wrong is made again, or has failed.
LEMMA TriedIs ==
  ASSUME JobInv, job.step # "off", NEW again \in BOOLEAN, TriedAgain(again)
  PROVE  JobInv' /\ ((again /\ Alike(job', job)) \/ Alike(job', Fails))
<1>1. job \in Jobs /\ Orderly(job) /\ InPhase(job) /\ job.attempt \in 0..MaxRateRetry
      /\ MaxRateRetry \in Nat
  BY StoreAssumption DEF JobInv, Jobs
<1>2. Fails \in Jobs /\ Orderly(Fails) /\ InPhase(Fails)
  BY FailsIs
<1>3. CASE again /\ job.attempt < MaxRateRetry
  <2>1. job.attempt + 1 \in 0..MaxRateRetry
    BY <1>1, <1>3
  <2>2. job' = [job EXCEPT !.attempt = job.attempt + 1]
    BY <1>3 DEF TriedAgain
  <2> QED
    BY <1>1, <1>3, <2>1, <2>2, Renumbered DEF JobInv
<1>4. CASE ~(again /\ job.attempt < MaxRateRetry)
  <2>1. job' = [Fails EXCEPT !.attempt = 0] /\ 0 \in 0..MaxRateRetry
    BY <1>1, <1>4 DEF TriedAgain
  <2> QED
    BY <1>2, <2>1, Renumbered DEF JobInv
<1> QED
  BY <1>3, <1>4

-----------------------------------------------------------------------------
(* The rows of Firefly.                                                    *)

\* The store and the bookkeeping keep their types; ids are given once.
RowsInv ==
    /\ groups \in Seq(Groups) /\ nextGroup \in Nat \ {0}
    /\ \A i \in DOMAIN groups : groups[i].id < nextGroup
    /\ \A i, j \in DOMAIN groups : groups[i].id = groups[j].id => i = j

\* A row that came of another.
Evolves(g, h) ==
    /\ h.id = g.id /\ h.of = g.of
    /\ g.reconciled => h.reconciled
    /\ h.amount = g.amount \/ h.amount = feed[g.of]
    /\ "pending" \in h.tags => "pending" \in g.tags

\* Removing a place of a sequence.
LEMMA RemovedIs ==
  ASSUME NEW S, NEW s \in Seq(S), NEW n \in DOMAIN s
  PROVE  /\ RemoveAt(s, n) \in Seq(S) /\ Len(RemoveAt(s, n)) = Len(s) - 1
         /\ \A i \in DOMAIN RemoveAt(s, n) :
               RemoveAt(s, n)[i] = IF i < n THEN s[i] ELSE s[i + 1]
<1>1. Len(s) \in Nat /\ n \in 1..Len(s)
  OBVIOUS
<1> DEFINE a == SubSeq(s, 1, n - 1)
           b == SubSeq(s, n + 1, Len(s))
<1>2. a \in Seq(S) /\ Len(a) = n - 1 /\ \A i \in 1..(n - 1) : a[i] = s[i]
  BY <1>1
<1>3. b \in Seq(S) /\ Len(b) = Len(s) - n /\ \A i \in 1..(Len(s) - n) : b[i] = s[n + i]
  BY <1>1
<1>4. RemoveAt(s, n) = a \o b
  BY DEF RemoveAt
<1> HIDE DEF a, b
<1>5. a \o b \in Seq(S) /\ Len(a \o b) = Len(s) - 1
  BY <1>1, <1>2, <1>3
<1>6. ASSUME NEW i \in 1..(Len(s) - 1) PROVE (a \o b)[i] = IF i < n THEN s[i] ELSE s[i + 1]
  <2>1. CASE i < n
    BY <1>1, <1>2, <1>3, <2>1
  <2>2. CASE ~(i < n)
    <3>1. (a \o b)[i] = b[i - (n - 1)]
      BY SMTT(30), <1>1, <1>2, <1>3, <2>2
    <3>2. i - (n - 1) \in 1..(Len(s) - n) /\ n + (i - (n - 1)) = i + 1
      BY <1>1, <2>2
    <3> QED
      BY <1>3, <2>2, <3>1, <3>2
  <2> QED
    BY <2>1, <2>2
<1>7. DOMAIN (a \o b) = 1..(Len(s) - 1)
  BY <1>5
<1> QED
  BY <1>4, <1>5, <1>6, <1>7

\* A user's change leaves the other rows and what we write of the row; what
\* they changed counts as edited.
LEMMA ChangeIs ==
  ASSUME RowsInv, NEW n \in DOMAIN groups, NEW g \in Groups, Change(n, g),
         Evolves(groups[n], g), Single(g) => Single(groups[n])
  PROVE  /\ RowsInv' /\ UNCHANGED nextGroup
         /\ DOMAIN groups' = DOMAIN groups
         /\ \A i \in DOMAIN groups :
               /\ Evolves(groups[i], groups'[i])
               /\ Single(groups'[i]) => Single(groups[i])
               /\ groups'[i] = groups[i] \/ groups[i].of \in edited'
<1>1. /\ groups' = [groups EXCEPT ![n] = g] /\ nextGroup' = nextGroup
      /\ groups[n].of \in edited'
  BY DEF Change, Edit, Evolves
<1>2. \A i \in DOMAIN groups : groups[i] \in Groups
  BY DEF RowsInv
<1>3. groups' \in Seq(Groups) /\ DOMAIN groups' = DOMAIN groups
      /\ \A i \in DOMAIN groups : groups'[i] = IF i = n THEN g ELSE groups[i]
  BY <1>1 DEF RowsInv
<1>4. g.id = groups[n].id
  BY DEF Evolves
<1>5. \A i \in DOMAIN groups : groups'[i].id = groups[i].id
  BY <1>3, <1>4
<1>6. RowsInv'
  BY <1>1, <1>3, <1>5 DEF RowsInv
<1>7. \A i \in DOMAIN groups : Evolves(groups[i], groups'[i])
  BY <1>3 DEF Evolves
<1> QED
  BY <1>1, <1>3, <1>6, <1>7

\* What the user does to the rows.
LEMMA UserIs ==
  ASSUME RowsInv, UserStep
  PROVE  /\ RowsInv'
         /\ \/ /\ DOMAIN groups' = DOMAIN groups /\ UNCHANGED shifted
               /\ \A i \in DOMAIN groups :
                     /\ Evolves(groups[i], groups'[i])
                     /\ Single(groups'[i]) => Single(groups[i])
                     /\ groups'[i] = groups[i] \/ groups[i].of \in edited'
            \/ \E n \in DOMAIN groups :
                  /\ groups' = RemoveAt(groups, n)
                  /\ groups[n].of \in edited'
                  /\ shifted' = (shifted \/ (job.step = "page" /\ job.page > 1))
         /\ edited \subseteq edited' /\ edits' = edits + 1
         /\ UNCHANGED <<bankState, nextGroup, tokenValid, job, gone, trouble>>
<1>1. PICK n \in DOMAIN groups :
         UserSplits(n) \/ UserTags(n) \/ UserReconciles(n) \/ UserDeletes(n)
  BY DEF UserStep
<1>2. groups[n] \in Groups
  BY <1>1 DEF RowsInv
<1>3. CASE UserSplits(n)
  <2> DEFINE g == [groups[n] EXCEPT !.splits = 2]
  <2>1. g \in Groups /\ Evolves(groups[n], g) /\ (Single(g) => Single(groups[n]))
    BY <1>2 DEF Groups, Evolves, Single
  <2>2. Change(n, g)
    BY <1>3 DEF UserSplits
  <2> HIDE DEF g
  <2>3. /\ edited \subseteq edited' /\ edits' = edits + 1 /\ UNCHANGED shifted
        /\ UNCHANGED <<bankState, nextGroup, tokenValid, job, gone, trouble>>
    BY <2>2 DEF Change, Edit
  <2> QED
    BY <2>1, <2>2, <2>3, ChangeIs
<1>4. CASE UserTags(n)
  <2> DEFINE g == [groups[n] EXCEPT !.tags = @ \cup {"own"}]
  <2>1. g \in Groups /\ Evolves(groups[n], g) /\ (Single(g) => Single(groups[n]))
    BY <1>2 DEF Groups, Evolves, Single, Marks
  <2>2. Change(n, g)
    BY <1>4 DEF UserTags
  <2> HIDE DEF g
  <2>3. /\ edited \subseteq edited' /\ edits' = edits + 1 /\ UNCHANGED shifted
        /\ UNCHANGED <<bankState, nextGroup, tokenValid, job, gone, trouble>>
    BY <2>2 DEF Change, Edit
  <2> QED
    BY <2>1, <2>2, <2>3, ChangeIs
<1>5. CASE UserReconciles(n)
  <2> DEFINE g == [groups[n] EXCEPT !.reconciled = TRUE]
  <2>1. g \in Groups /\ Evolves(groups[n], g) /\ (Single(g) => Single(groups[n]))
    BY <1>2 DEF Groups, Evolves, Single
  <2>2. Change(n, g)
    BY <1>5 DEF UserReconciles
  <2> HIDE DEF g
  <2>3. /\ edited \subseteq edited' /\ edits' = edits + 1 /\ UNCHANGED shifted
        /\ UNCHANGED <<bankState, nextGroup, tokenValid, job, gone, trouble>>
    BY <2>2 DEF Change, Edit
  <2> QED
    BY <2>1, <2>2, <2>3, ChangeIs
<1>6. CASE UserDeletes(n)
  <2>1. /\ groups' = RemoveAt(groups, n) /\ groups[n].of \in edited'
        /\ shifted' = (shifted \/ (job.step = "page" /\ job.page > 1))
        /\ edited \subseteq edited' /\ edits' = edits + 1
        /\ UNCHANGED <<bankState, nextGroup, tokenValid, job, gone, trouble>>
    BY <1>6 DEF UserDeletes, Edit
  <2>2. /\ groups' \in Seq(Groups) /\ Len(groups') = Len(groups) - 1
        /\ \A i \in DOMAIN groups' : groups'[i] = IF i < n THEN groups[i] ELSE groups[i + 1]
    BY <2>1, RemovedIs DEF RowsInv
  <2>3. DOMAIN groups = 1..Len(groups) /\ DOMAIN groups' = 1..Len(groups')
        /\ Len(groups) \in Nat
    BY <2>2 DEF RowsInv
  <2>4. ASSUME NEW i \in DOMAIN groups'
        PROVE  i \in DOMAIN groups /\ i + 1 \in DOMAIN groups
    BY <2>2, <2>3
  <2>5. \A i \in DOMAIN groups' : groups'[i].id < nextGroup'
    BY <2>1, <2>2, <2>4 DEF RowsInv
  <2>6. ASSUME NEW i \in DOMAIN groups', NEW j \in DOMAIN groups',
               groups'[i].id = groups'[j].id
        PROVE  i = j
    <3>1. PICK k \in {i, i + 1} : groups'[i] = groups[k] /\ (i < n <=> k = i)
      BY <2>2, <2>3
    <3>2. PICK l \in {j, j + 1} : groups'[j] = groups[l] /\ (j < n <=> l = j)
      BY <2>2, <2>3
    <3>3. k = l
      BY <2>4, <2>6, <3>1, <3>2 DEF RowsInv
    <3> QED
      BY <1>1, <2>3, <3>1, <3>2, <3>3
  <2>7. RowsInv'
    BY <2>1, <2>2, <2>5, <2>6 DEF RowsInv
  <2> QED
    BY <2>1, <2>7
<1> QED
  BY <1>1, <1>3, <1>4, <1>5, <1>6

\* What the user does, of the set of rows.
LEMMA UserStored ==
  ASSUME RowsInv, UserStep
  PROVE  /\ \A h \in Stored' : \E g \in Stored : /\ Evolves(g, h)
                                                 /\ Single(h) => Single(g)
                                                 /\ h = g \/ h.of \in edited'
         /\ \A g \in Stored : g.of \in edited' \/ g \in Stored'
<1>1. \A g \in Stored : Evolves(g, g)
  BY DEF Evolves
<1>2. CASE /\ DOMAIN groups' = DOMAIN groups
           /\ \A i \in DOMAIN groups :
                 /\ Evolves(groups[i], groups'[i])
                 /\ Single(groups'[i]) => Single(groups[i])
                 /\ groups'[i] = groups[i] \/ groups[i].of \in edited'
  BY <1>2 DEF Stored, ToSet, Evolves
<1>3. ASSUME NEW n \in DOMAIN groups, groups' = RemoveAt(groups, n),
             groups[n].of \in edited'
      PROVE  Stored' \subseteq Stored /\ \A g \in Stored : g.of \in edited' \/ g \in Stored'
  <2>1. /\ groups' \in Seq(Groups) /\ Len(groups') = Len(groups) - 1
        /\ \A i \in DOMAIN groups' : groups'[i] = IF i < n THEN groups[i] ELSE groups[i + 1]
    BY <1>3, RemovedIs DEF RowsInv
  <2>2. DOMAIN groups = 1..Len(groups) /\ DOMAIN groups' = 1..Len(groups')
        /\ Len(groups) \in Nat
    BY <2>1 DEF RowsInv
  <2>3. ASSUME NEW i \in DOMAIN groups' PROVE groups'[i] \in Stored
    <3>1. i \in DOMAIN groups /\ i + 1 \in DOMAIN groups
      BY <2>1, <2>2
    <3> QED
      BY <2>1, <3>1 DEF Stored, ToSet
  <2>4. ASSUME NEW i \in DOMAIN groups PROVE groups[i].of \in edited' \/ groups[i] \in Stored'
    <3>1. CASE i < n
      <4>1. i \in DOMAIN groups' /\ groups'[i] = groups[i]
        BY <2>1, <2>2, <3>1
      <4> QED
        BY <4>1 DEF Stored, ToSet
    <3>2. CASE i = n
      BY <1>3, <3>2
    <3>3. CASE i > n
      <4>1. i - 1 \in DOMAIN groups' /\ ~(i - 1 < n) /\ (i - 1) + 1 = i
        BY <2>1, <2>2, <3>3
      <4>2. groups'[i - 1] = groups[i]
        BY <2>1, <4>1
      <4> QED
        BY <4>1, <4>2 DEF Stored, ToSet
    <3> QED
      BY <2>2, <3>1, <3>2, <3>3
  <2>5. Stored' \subseteq Stored
    BY <2>3 DEF Stored, ToSet
  <2>6. ASSUME NEW g \in Stored PROVE g.of \in edited' \/ g \in Stored'
    BY <2>4, <2>6 DEF Stored, ToSet
  <2> QED
    BY <2>5, <2>6
<1>4. CASE \E n \in DOMAIN groups : groups' = RemoveAt(groups, n) /\ groups[n].of \in edited'
  BY <1>1, <1>3, <1>4
<1> QED
  BY <1>2, <1>4, UserIs

\* The rows are of bookings the bank reports, and so is what is placed.
FeedInv ==
    /\ feed \in [Bookings -> {"none", "authorised", "booked"}]
    /\ \A g \in Stored : feed[g.of] # "none"
    /\ \A p \in job.placing \cup job.direct : feed[p] # "none"

\* A stored row has a place, and what is at a place is stored.
LEMMA StoredIs ==
  /\ \A i \in DOMAIN groups : groups[i] \in Stored
  /\ \A g \in Stored : \E i \in DOMAIN groups : g = groups[i]
  BY DEF Stored, ToSet

\* A write leaves the other rows, and merges the patch into its target.
LEMMA PutIs ==
  ASSUME RowsInv, FeedInv, job.base \subseteq Marks, Put(Target), UNCHANGED nextGroup
  PROVE  /\ RowsInv' /\ DOMAIN groups' = DOMAIN groups
         /\ \A i \in DOMAIN groups :
               /\ Evolves(groups[i], groups'[i])
               /\ groups[i].id # Target => groups'[i] = groups[i]
               /\ groups[i].id = Target =>
                    groups'[i] = Submitted(CurrentPatch, job.base, groups[i])
<1>1. DOMAIN groups' = DOMAIN groups /\ DOMAIN groups = 1..Len(groups) /\ Len(groups) \in Nat
  BY DEF Put, RowsInv
<1>2. \A i \in DOMAIN groups :
         groups'[i] = IF groups[i].id = Target
                      THEN Submitted(CurrentPatch, job.base, groups[i]) ELSE groups[i]
  BY DEF Put
<1>3. ASSUME NEW i \in DOMAIN groups
      PROVE  LET h == Submitted(CurrentPatch, job.base, groups[i]) IN
             h \in Groups /\ Evolves(groups[i], h)
  <2> DEFINE g == groups[i]
             h == Submitted(CurrentPatch, job.base, g)
             r == g.ref \/ "ref" \in CurrentPatch
             a == IF "amount" \in CurrentPatch THEN feed[g.of] ELSE g.amount
             tt == IF "cleared" \in CurrentPatch THEN job.base \ {"pending"} ELSE g.tags
  <2>1. g \in Groups /\ g \in Stored
    BY StoredIs DEF RowsInv
  <2>2. h = [g EXCEPT !.splits = 1, !.ref = r, !.amount = a, !.tags = tt]
    BY DEF Submitted
  <2>3. feed[g.of] \in {"authorised", "booked"}
    BY <2>1 DEF FeedInv, Groups
  <2>4. r \in BOOLEAN /\ a \in {"authorised", "booked"} /\ tt \in SUBSET Marks
    BY <2>1, <2>3 DEF Groups
  <2>5. ("pending" \in tt => "pending" \in g.tags) /\ (a = g.amount \/ a = feed[g.of])
    OBVIOUS
  <2> HIDE DEF g, h, r, a, tt
  <2>6. h \in Groups
    <3>1. h = [id |-> g.id, of |-> g.of, ref |-> r, amount |-> a, tags |-> tt, splits |-> 1,
               reconciled |-> g.reconciled]
      BY <2>1, <2>2 DEF Groups
    <3>2. g.id \in Nat \ {0} /\ g.of \in Bookings /\ g.reconciled \in BOOLEAN /\ 1 \in 1..2
      BY <2>1 DEF Groups
    <3> QED
      BY <2>4, <3>1, <3>2 DEF Groups
  <2>7. /\ h.id = g.id /\ h.of = g.of /\ h.reconciled = g.reconciled
        /\ h.amount = a /\ h.tags = tt
    BY <2>1, <2>2 DEF Groups
  <2> QED
    BY <2>5, <2>6, <2>7 DEF Evolves, g, h
<1>4. ASSUME NEW i \in DOMAIN groups PROVE groups'[i] \in Groups /\ Evolves(groups[i], groups'[i])
  <2>1. groups[i] \in Groups /\ Evolves(groups[i], groups[i])
    BY DEF RowsInv, Evolves
  <2> QED
    BY <1>2, <1>3, <2>1
<1>5. groups' \in Seq(Groups)
  <2>1. groups' = [i \in 1..Len(groups) |-> groups'[i]]
    BY <1>1 DEF Put
  <2> QED
    BY <1>1, <1>4, <2>1
<1>6. \A i \in DOMAIN groups : groups'[i].id = groups[i].id
  BY <1>4 DEF Evolves
<1>7. RowsInv'
  BY <1>1, <1>5, <1>6 DEF RowsInv
<1> QED
  BY <1>1, <1>2, <1>4, <1>7

\* A new row is the last, and its id new.
LEMMA PostIs ==
  ASSUME RowsInv, FeedInv, NEW p \in Bookings, feed[p] # "none", Post(p)
  PROVE  /\ RowsInv' /\ nextGroup' = nextGroup + 1 /\ groups' = Append(groups, Imported(p))
         /\ Imported(p) \in Groups /\ Imported(p).id = nextGroup /\ Imported(p).of = p
         /\ Imported(p).amount = feed[p] /\ Single(Imported(p))
         /\ IsBooked(p) => Imported(p).tags = {}
         /\ Stored' = Stored \cup {Imported(p)}
<1> DEFINE new == Imported(p)
           r == IsBooked(p) /\ p \in Referenced
           tt == IF IsBooked(p) THEN {} ELSE {"pending"}
<1>1. new = [id |-> nextGroup, of |-> p, ref |-> r, amount |-> feed[p], tags |-> tt,
             splits |-> 1, reconciled |-> FALSE]
  BY DEF Imported
<1>2. r \in BOOLEAN /\ tt \in SUBSET Marks /\ feed[p] \in {"authorised", "booked"}
      /\ nextGroup \in Nat \ {0}
  BY DEF Marks, FeedInv, RowsInv
<1>3. IsBooked(p) => tt = {}
  OBVIOUS
<1> HIDE DEF new, r, tt
<1>4. /\ new \in Groups /\ new.id = nextGroup /\ new.of = p /\ new.amount = feed[p]
      /\ new.splits = 1 /\ new.tags = tt
  BY <1>1, <1>2 DEF Groups
<1>5. groups' = Append(groups, new) /\ nextGroup' = nextGroup + 1
  BY DEF Post, new
<1>6. /\ groups' \in Seq(Groups) /\ DOMAIN groups = 1..Len(groups) /\ Len(groups) \in Nat
      /\ DOMAIN groups' = 1..(Len(groups) + 1) /\ groups'[Len(groups) + 1] = new
      /\ \A i \in DOMAIN groups : groups'[i] = groups[i]
  BY <1>4, <1>5 DEF RowsInv
<1>7. \A i \in DOMAIN groups : groups[i].id < nextGroup /\ groups[i].id \in Nat
  <2>1. \A i \in DOMAIN groups : groups[i].id < nextGroup /\ groups[i] \in Groups
    BY DEF RowsInv
  <2>2. \A g \in Groups : g.id \in Nat
    BY DEF Groups
  <2> QED
    BY <2>1, <2>2
<1>8. \A i \in DOMAIN groups' : groups'[i].id < nextGroup'
  BY <1>2, <1>4, <1>5, <1>6, <1>7
<1>9. ASSUME NEW i \in DOMAIN groups', NEW j \in DOMAIN groups', groups'[i].id = groups'[j].id
      PROVE  i = j
  <2>1. i \in DOMAIN groups \/ i = Len(groups) + 1
    BY <1>6
  <2>2. j \in DOMAIN groups \/ j = Len(groups) + 1
    BY <1>6
  <2> QED
    BY <1>2, <1>4, <1>6, <1>7, <1>9, <2>1, <2>2 DEF RowsInv
<1>10. RowsInv'
  BY <1>2, <1>5, <1>6, <1>8, <1>9 DEF RowsInv
<1>11. Stored' = Stored \cup {new}
  BY <1>6 DEF Stored, ToSet
<1> QED
  BY <1>3, <1>4, <1>5, <1>10, <1>11 DEF new, Single

-----------------------------------------------------------------------------
(* What the steps of a run make of it.                                     *)

\* A run that has turned to what comes next.
TurnedTo(j) ==
    /\ SameWork(job', j) /\ job'.step \in {"page", "search", "read", "settle", "post", "book"}
    /\ job'.step = "page" => job'.page = 1 /\ job'.seen = {}
    /\ job'.step \in {"read", "settle"} => job'.stage = Opening(j)
    /\ job'.step = "settle" => Opening(j) = "done"
    /\ job'.step = "read" => Opening(j) # "done"

\* A run that turns to what comes next.
LEMMA ContinueTurn ==
  ASSUME NEW j \in Jobs, Orderly(j), j.known, Continue(Turn(j))
  PROVE  JobInv' /\ TurnedTo(j)
<1> DEFINE k == Turn(j)
<1>1. /\ k \in Jobs /\ Orderly(k) /\ InPhase(k) /\ SameWork(k, j)
      /\ k.step \in {"page", "search", "read", "settle", "post", "book"}
      /\ k.step = "page" => k.page = 1 /\ k.seen = {}
      /\ k.step \in {"read", "settle"} => k.stage = Opening(j)
      /\ k.step = "settle" => Opening(j) = "done"
      /\ k.step = "read" => Opening(j) # "done"
  BY TurnIs
<1>2. Continue(k)
  OBVIOUS
<1> HIDE DEF k
<1>3. JobInv' /\ Alike(job', k)
  BY <1>1, <1>2, ContinueIs
<1> QED
  BY <1>1, <1>3 DEF TurnedTo, Alike, SameWork

\* What a run that goes on after a failure looks like.
Failed ==
    \/ job' = NoJob
    \/ Phase(job) = "direct" /\ job.stage = "enrich" /\ SameWork(job', job)
       /\ job'.step = "read" /\ job'.stage = "confirm"
    \/ /\ Phase(job) = "direct" /\ job.known
       /\ job'.known = job.known /\ job'.direct = job.direct \ {Current}
       /\ job'.lookup = job.lookup /\ job'.listing = job.listing
       /\ job'.placing = job.placing /\ job'.copy = job.copy /\ job'.out = job.out
       /\ job'.step \in {"page", "search", "read", "settle", "post", "book"}
       /\ job'.step = "page" => job'.page = 1 /\ job'.seen = {}
       /\ job'.step \in {"read", "settle"} => job'.stage = Opening(job')
       /\ job'.step = "settle" => Opening(job') = "done"
       /\ job'.step = "read" => Opening(job') # "done"

\* A run off is none.
LEMMA OffIsNoJob ==
  ASSUME NEW k, Alike(k, NoJob), InPhase(k)
  PROVE  k = NoJob
  BY NoJobIs DEF Alike, InPhase

\* After a failure.
LEMMA FailedIs ==
  ASSUME JobInv, job.step # "off", JobInv', Alike(job', Fails)
  PROVE  Failed
<1>1. InPhase(job') /\ job.known \in BOOLEAN
  BY DEF JobInv, Jobs
<1>2. CASE Phase(job) # "direct"
  BY <1>1, <1>2, FailsIs, OffIsNoJob DEF Failed
<1>3. CASE Phase(job) = "direct" /\ job.stage = "enrich"
  BY <1>3, FailsIs DEF Alike, SameWork, Failed
<1>4. CASE Phase(job) = "direct" /\ job.stage # "enrich"
  <2>1. /\ Fails.known = job.known /\ Fails.direct = job.direct \ {Current}
        /\ Fails.lookup = job.lookup /\ Fails.listing = job.listing
        /\ Fails.placing = job.placing /\ Fails.copy = job.copy /\ Fails.out = job.out
        /\ Fails.step \in {"page", "search", "read", "settle", "post", "book"}
        /\ Fails.step = "page" => Fails.page = 1 /\ Fails.seen = {}
        /\ Fails.step \in {"read", "settle"} => Fails.stage = Opening(Fails)
        /\ Fails.step = "settle" => Opening(Fails) = "done"
        /\ Fails.step = "read" => Opening(Fails) # "done"
    BY <1>4, FailsIs
  <2>2. Opening(job') = Opening(Fails)
    BY SameWorkSame DEF Alike, SameWork, Opening
  <2>3. job.known
    BY <1>1, <1>4, PhaseIs
  <2> HIDE DEF Failed
  <2>4. /\ job'.known = job.known /\ job'.direct = job.direct \ {Current}
        /\ job'.lookup = job.lookup /\ job'.listing = job.listing
        /\ job'.placing = job.placing /\ job'.copy = job.copy /\ job'.out = job.out
        /\ job'.step \in {"page", "search", "read", "settle", "post", "book"}
        /\ job'.step = "page" => job'.page = 1 /\ job'.seen = {}
    BY <2>1 DEF Alike, SameWork
  <2>5. /\ job'.step \in {"read", "settle"} => job'.stage = Opening(job')
        /\ job'.step = "settle" => Opening(job') = "done"
        /\ job'.step = "read" => Opening(job') # "done"
    BY <2>1, <2>2 DEF Alike
  <2> QED
    BY <1>4, <2>3, <2>4, <2>5 DEF Failed
<1> QED
  BY <1>2, <1>3, <1>4

\* A step that fails.
LEMMA ContinueFails ==
  ASSUME JobInv, job.step # "off", Continue(Fails)
  PROVE  JobInv' /\ Failed
<1>1. JobInv' /\ Alike(job', Fails)
  BY FailsIs, ContinueIs
<1> QED
  BY <1>1, FailedIs

\* A step that is tried again or fails.
LEMMA ContinueTried ==
  ASSUME JobInv, job.step # "off", NEW again \in BOOLEAN, TriedAgain(again)
  PROVE  JobInv' /\ ((again /\ Alike(job', job)) \/ Failed)
  BY TriedIs, FailedIs

\* A run that is over.
LEMMA ContinueNoJob == Continue(NoJob) => JobInv' /\ job' = NoJob
<1>1. Orderly(NoJob) /\ InPhase(NoJob) /\ NoJob \in Jobs
  BY NoJobIs DEF Orderly, InPhase
<1> QED
  BY <1>1, NoJobIs DEF Continue, JobInv

\* A run that begins.
LEMMA BeginsIs ==
  ASSUME RunBegins
  PROVE  /\ JobInv' /\ job'.step = "page" /\ job'.seen = {} /\ job'.page = 1 /\ ~job'.known
         /\ job'.placing = Unsettled
<1> DEFINE U == Unsettled
           k == [NoJob EXCEPT !.placing = U, !.step = "page", !.page = 1, !.seen = {}]
<1>1. Unsettled \in SUBSET Bookings
  BY DEF Unsettled
<1>2. Continue(k)
  BY NoJobIs DEF RunBegins, Paging, Jobs
<1> HIDE DEF U
<1>3. "page" \in Tasks /\ 1 \in Nat \ {0} /\ {} \in SUBSET Groups
  BY DEF Tasks
<1>4. k \in Jobs
  BY <1>1, <1>3, NoJobIs DEF Jobs, U
<1>5. /\ k.step = "page" /\ k.page = 1 /\ k.seen = {} /\ k.placing = U
      /\ k.known = NoJob.known /\ k.direct = NoJob.direct /\ k.lookup = NoJob.lookup
      /\ k.listing = NoJob.listing /\ k.copy = NoJob.copy /\ k.out = NoJob.out
  BY NoJobIs DEF Jobs
<1> HIDE DEF k
<1>6. Phase(k) = "known"
  BY <1>5, NoJobIs DEF Phase
<1>7. Orderly(k) /\ InPhase(k)
  BY <1>5, <1>6, NoJobIs DEF Orderly, InPhase
<1>8. JobInv' /\ Alike(job', k)
  BY <1>2, <1>4, <1>7, ContinueIs
<1> QED
  BY <1>5, <1>8, NoJobIs DEF Alike, SameWork, U

\* What a page adds to what was seen.
PageSeen == job.seen \cup Usable(PageOf(job.page))

\* The page is of single rows of Firefly.
LEMMA PageIs ==
  ASSUME RowsInv, JobInv
  PROVE  /\ Usable(PageOf(job.page)) \subseteq Stored /\ Usable(PageOf(job.page)) \subseteq Groups
         /\ Convertible(Usable(PageOf(job.page)))
         /\ PageSeen \subseteq Groups
<1>1. \A i \in DOMAIN groups : groups[i] \in Groups /\ groups[i] \in Stored
  BY StoredIs DEF RowsInv
<1>2. PageOf(job.page) \subseteq Stored /\ PageOf(job.page) \subseteq Groups
  BY <1>1 DEF PageOf
<1>3. job.seen \subseteq Groups
  BY DEF JobInv, Jobs
<1> QED
  BY <1>2, <1>3 DEF Usable, Single, Convertible, PageSeen

\* The rest of a batch once the candidates of a booking are listed.
Listed == [job EXCEPT !.listing = @ \ {Current},
                      !.copy[Current] = Recognised(PageSeen, Current)]

\* A row that is recognised was seen, and is of the booking.
LEMMA RecognisedIs ==
  ASSUME NEW seen \in SUBSET Groups, NEW p
  PROVE  /\ Recognised(seen, p) = NoGroup =>
              \A g \in seen : g.of # p
         /\ Recognised(seen, p) # NoGroup =>
              Recognised(seen, p) \in seen /\ Recognised(seen, p).of = p
<1> DEFINE C == Candidates(seen, p)
           I == {g.id : g \in C}
<1>1. C \subseteq seen /\ (\A g \in C : g.of = p) /\ (\A g \in seen : g.of = p => g \in C)
  BY DEF Candidates
<1>2. CASE C = {}
  BY <1>1, <1>2 DEF Recognised
<1>3. CASE C # {}
  <2>1. \A g \in Groups : g.id \in Nat
    BY DEF Groups
  <2>2. I \in SUBSET Nat /\ I # {}
    BY <1>1, <1>3, <2>1
  <2>3. Min(I) \in I /\ \A y \in I : Min(I) <= y
    <3> HIDE DEF I
    <3> QED BY <2>2, Least
  <2>4. PICK g \in C : \A h \in C : g.id <= h.id
    BY <2>3
  <2>5. Recognised(seen, p) = CHOOSE x \in C : \A h \in C : x.id <= h.id
    BY <1>3 DEF Recognised
  <2>6. Recognised(seen, p) \in C
    <3> HIDE DEF C
    <3> QED BY <2>4, <2>5
  <2>7. Recognised(seen, p) # NoGroup
    BY <1>1, <2>6, NoGroupIs
  <2> QED
    BY <1>1, <2>6, <2>7
<1> QED
  BY <1>2, <1>3

\* The candidates of a booking are listed, and the batch goes on.
LEMMA ListedIs ==
  ASSUME RowsInv, JobInv, job.known, Phase(job) = "list"
  PROVE  /\ Listed \in Jobs /\ Orderly(Listed) /\ Listed.known /\ Current \in job.listing
         /\ Listed.direct = job.direct /\ Listed.lookup = job.lookup
         /\ Listed.listing = job.listing \ {Current} /\ Listed.placing = job.placing
         /\ Listed.out = job.out
         /\ \A p \in Bookings : Listed.copy[p] = IF p = Current
                                                 THEN Recognised(PageSeen, Current)
                                                 ELSE job.copy[p]
<1> DEFINE R == Recognised(PageSeen, Current)
           c == [job.copy EXCEPT ![Current] = R]
<1>1. job \in Jobs /\ Orderly(job) /\ Current \in job.listing /\ Current \in Bookings
  BY CurrentIs DEF JobInv, Current
<1>2. job.direct = {}
  BY PhaseIs DEF JobInv, Jobs
<1>3. R \in Groups \cup {NoGroup}
  BY PageIs, RecognisedIs
<1>4. c \in [Bookings -> Groups \cup {NoGroup}]
      /\ \A p \in Bookings : c[p] = IF p = Current THEN R ELSE job.copy[p]
  BY <1>1, <1>3 DEF Jobs
<1>5. Listed = [job EXCEPT !.listing = job.listing \ {Current}, !.copy = c]
  BY DEF Listed
<1> HIDE DEF R, c
<1>6. Listed \in Jobs
  BY <1>1, <1>4, <1>5 DEF Jobs
<1>7. /\ Listed.known = job.known /\ Listed.direct = job.direct /\ Listed.lookup = job.lookup
      /\ Listed.listing = job.listing \ {Current} /\ Listed.placing = job.placing
      /\ Listed.out = job.out /\ Listed.copy = c
  BY <1>1, <1>5 DEF Jobs
<1>8. Orderly(Listed)
  BY <1>1, <1>2, <1>7 DEF Orderly
<1> QED
  BY <1>1, <1>4, <1>6, <1>7, <1>8 DEF R

\* The loop's start: which bookings of the batch have a known row.
KnownIn(seen) == {p \in job.placing : \E g \in seen : g.id = entry[p]}
Loaded(seen) ==
    [job EXCEPT !.known = TRUE, !.direct = KnownIn(seen),
                !.placing = job.placing \ KnownIn(seen),
                !.listing = job.placing \ KnownIn(seen),
                !.lookup = {p \in (job.placing \ KnownIn(seen)) \cap Referenced : IsBooked(p)},
                !.copy = [p \in Bookings |-> IF p \in KnownIn(seen)
                                             THEN CHOOSE g \in seen : g.id = entry[p]
                                             ELSE NoGroup]]

\* The loop starts on the rows that were listed.
LEMMA OpenedIs ==
  ASSUME JobInv, ~job.known, NEW seen \in SUBSET Groups
  PROVE  LET j == Loaded(seen) IN
         /\ LoopStarts(seen) = Turn(j)
         /\ j \in Jobs /\ Orderly(j) /\ j.known /\ j.out = job.out
         /\ j.direct \subseteq job.placing /\ j.placing = job.placing \ j.direct
         /\ j.listing = j.placing /\ j.lookup \subseteq j.placing
         /\ \A p \in Bookings :
               IF p \in j.direct THEN j.copy[p] \in seen /\ j.copy[p].id = entry[p]
               ELSE j.copy[p] = NoGroup
<1> DEFINE K == KnownIn(seen)
           rest == job.placing \ K
           L == {p \in rest \cap Referenced : IsBooked(p)}
           c == [p \in Bookings |-> IF p \in K THEN CHOOSE g \in seen : g.id = entry[p]
                                    ELSE NoGroup]
           j == [job EXCEPT !.known = TRUE, !.direct = K, !.placing = rest,
                            !.listing = rest, !.lookup = L, !.copy = c]
<1>1. j = Loaded(seen)
  BY DEF Loaded
<1>2. LoopStarts(seen) = Turn(j)
  BY DEF LoopStarts, KnownIn
<1>3. K \subseteq job.placing /\ \A p \in K : \E g \in seen : g.id = entry[p]
  BY DEF KnownIn
<1>4. job \in Jobs /\ job.placing \subseteq Bookings
  BY DEF JobInv, Jobs
<1>5. ASSUME NEW p \in K PROVE c[p] \in seen /\ c[p].id = entry[p]
  BY <1>3, <1>4
<1>6. c \in [Bookings -> Groups \cup {NoGroup}]
      /\ \A p \in Bookings : p \notin K => c[p] = NoGroup
  BY <1>5
<1>7. L \subseteq rest
  OBVIOUS
<1> HIDE DEF K, L, c
<1>8. j \in Jobs
  BY <1>3, <1>4, <1>6, <1>7 DEF Jobs
<1>9. /\ j.known = TRUE /\ j.direct = K /\ j.placing = rest /\ j.listing = rest
      /\ j.lookup = L /\ j.copy = c /\ j.out = job.out
  BY <1>4 DEF Jobs
<1> HIDE DEF j
<1>10. \A p \in K : c[p] # NoGroup
  BY <1>5, NoGroupIs
<1>11. Orderly(j)
  BY <1>7, <1>9, <1>10 DEF Orderly
<1> QED
  BY <1>1, <1>2, <1>3, <1>5, <1>6, <1>7, <1>8, <1>9, <1>11

\* A page of a listing: the listing goes on or is complete.
LEMMA PagesIs ==
  ASSUME RowsInv, JobInv, PageAnswered
  PROVE  /\ JobInv' /\ job.step = "page"
         /\ \/ /\ SameWork(job', job) /\ job'.step = "page" /\ job.page < Pages
               /\ job'.page = job.page + 1 /\ job'.seen = PageSeen
            \/ /\ ~(job.page < Pages) /\ job.known /\ Phase(job) = "list"
               /\ TurnedTo(Listed)
            \/ ~(job.page < Pages) /\ ~job.known /\ TurnedTo(Loaded(PageSeen))
<1>1. /\ job \in Jobs /\ Orderly(job) /\ InPhase(job) /\ job.step = "page"
      /\ job.known \in BOOLEAN /\ job.page \in Nat \ {0}
  BY DEF JobInv, Jobs, PageAnswered
<1>2. Convertible(Usable(PageOf(job.page))) /\ PageSeen \subseteq Groups
  BY PageIs
<1>3. Continue(IF job.page < Pages THEN [job EXCEPT !.page = @ + 1, !.seen = PageSeen]
               ELSE IF job.known THEN CandidatesListed(PageSeen) ELSE LoopStarts(PageSeen))
  BY <1>2 DEF PageAnswered, PageSeen
<1>4. CASE job.page < Pages
  <2> DEFINE k == [job EXCEPT !.page = job.page + 1, !.seen = PageSeen]
  <2>1. Continue(k)
    BY <1>3, <1>4
  <2>2. k \in Jobs
    <3>1. job.page + 1 \in Nat \ {0}
      BY <1>1
    <3> QED
      BY <1>1, <1>2, <3>1 DEF Jobs
  <2>3. /\ SameWork(k, job) /\ k.step = "page" /\ k.page = job.page + 1 /\ k.seen = PageSeen
    BY <1>1 DEF Jobs, SameWork
  <2> HIDE DEF k
  <2>4. Orderly(k) /\ Phase(k) = Phase(job)
    BY <1>1, <2>3, SameWorkSame
  <2>5. InPhase(k)
    BY <1>1, <2>3, <2>4 DEF InPhase
  <2>6. JobInv' /\ Alike(job', k)
    BY <2>1, <2>2, <2>4, <2>5, ContinueIs
  <2> QED
    BY <1>1, <1>4, <2>3, <2>6 DEF Alike, SameWork
<1>5. CASE ~(job.page < Pages) /\ job.known
  <2>1. Phase(job) = "list"
    BY <1>1, <1>5 DEF InPhase, Phase
  <2>2. Continue(Turn(Listed))
    BY <1>3, <1>5 DEF CandidatesListed, Listed
  <2>3. JobInv' /\ TurnedTo(Listed)
    BY <1>5, <2>1, <2>2, ListedIs, ContinueTurn
  <2> QED
    BY <1>1, <1>5, <2>1, <2>3
<1>6. CASE ~(job.page < Pages) /\ ~job.known
  <2>1. Continue(Turn(Loaded(PageSeen)))
    BY <1>2, <1>3, <1>6, OpenedIs
  <2>2. JobInv' /\ TurnedTo(Loaded(PageSeen))
    BY <1>2, <1>6, <2>1, OpenedIs, ContinueTurn
  <2> QED
    BY <1>1, <1>6, <2>2
<1> QED
  BY <1>4, <1>5, <1>6

\* The booking is looked up no more.
NotFound == [job EXCEPT !.lookup = @ \ {Current}]
\* The row found is what the booking is merged into.
Found(hit) == [job EXCEPT !.copy[Current] = hit]

\* A booking that is looked up by its reference is found, or is a new one.
LEMMA SearchIs ==
  ASSUME RowsInv, JobInv, SearchAnswered
  PROVE  /\ JobInv' /\ job.step = "search" /\ Phase(job) = "find"
         /\ \/ /\ TurnedTo(NotFound)
               /\ NotFound.known /\ NotFound.copy = job.copy /\ NotFound.out = job.out
               /\ NotFound.direct = job.direct /\ NotFound.placing = job.placing
               /\ NotFound.listing = job.listing /\ NotFound.lookup = job.lookup \ {Current}
            \/ \E hit \in Stored :
                  /\ hit.of = Current /\ Single(hit)
                  /\ SameWork(job', Found(hit)) /\ AtWork(job')
                  /\ job'.stage = StageFrom("find", 1, hit, Current)
                  /\ job'.step = IF job'.stage = "done" THEN "settle" ELSE "read"
                  /\ Found(hit).known = job.known /\ Found(hit).out = job.out
                  /\ Found(hit).direct = job.direct /\ Found(hit).placing = job.placing
                  /\ Found(hit).listing = job.listing /\ Found(hit).lookup = job.lookup
                  /\ Phase(Found(hit)) = "find" /\ CurrentOf(Found(hit)) = Current
                  /\ \A p \in Bookings :
                        Found(hit).copy[p] = IF p = Current THEN hit ELSE job.copy[p]
<1>1. /\ job \in Jobs /\ Orderly(job) /\ InPhase(job) /\ job.step = "search"
      /\ job.known \in BOOLEAN /\ Phase(job) = "find"
  BY DEF JobInv, Jobs, SearchAnswered, InPhase
<1>2. Current \in job.lookup /\ Current \in Bookings /\ job.known /\ job.direct = {}
  BY <1>1, CurrentIs, PhaseIs DEF Current
<1> DEFINE hits == {g \in Usable(GroupsOf(Current)) : g.ref}
<1>3. CASE hits = {}
  <2> DEFINE k == [job EXCEPT !.lookup = job.lookup \ {Current}]
  <2>1. Continue(Turn(k)) /\ k = NotFound
    BY <1>3 DEF SearchAnswered, NotFound
  <2>2. k \in Jobs
    BY <1>1 DEF Jobs
  <2>3. /\ k.known = job.known /\ k.direct = job.direct /\ k.lookup = job.lookup \ {Current}
        /\ k.listing = job.listing /\ k.placing = job.placing /\ k.copy = job.copy
        /\ k.out = job.out
    BY <1>1 DEF Jobs
  <2> HIDE DEF k
  <2>4. Orderly(k)
    BY <1>1, <1>2, <2>3 DEF Orderly
  <2>5. JobInv' /\ TurnedTo(k)
    BY <1>2, <2>1, <2>2, <2>3, <2>4, ContinueTurn
  <2> QED
    BY <1>1, <1>2, <2>1, <2>3, <2>5
<1>4. CASE hits # {}
  <2> DEFINE hit == CHOOSE g \in hits : TRUE
             c == [job.copy EXCEPT ![Current] = hit]
             k == [job EXCEPT !.copy = c]
             st == StageFrom("find", 1, hit, Current)
  <2>1. hit \in hits
    BY <1>4
  <2>2. hit \in Stored /\ hit.of = Current /\ Single(hit) /\ hit \in Groups
    <3>1. hit \in Stored /\ hit.of = Current /\ Single(hit)
      BY <2>1 DEF Usable, GroupsOf
    <3> QED
      BY <3>1, StoredIs DEF RowsInv
  <2>3. k = Found(hit) /\ Continue(Updating(Found(hit), st))
    BY <1>4 DEF SearchAnswered, Found
  <2> HIDE DEF hit
  <2>4. c \in [Bookings -> Groups \cup {NoGroup}]
        /\ \A p \in Bookings : c[p] = IF p = Current THEN hit ELSE job.copy[p]
    BY <1>1, <1>2, <2>2 DEF Jobs
  <2>5. st \in StageNames
    BY StageFromIs, StagesNamed
  <2> HIDE DEF st, c
  <2>6. k \in Jobs
    BY <1>1, <2>4 DEF Jobs
  <2>7. /\ k.known = job.known /\ k.direct = job.direct /\ k.lookup = job.lookup
        /\ k.listing = job.listing /\ k.placing = job.placing /\ k.copy = c
        /\ k.out = job.out
    BY <1>1 DEF Jobs
  <2> HIDE DEF k
  <2>8. Phase(k) = "find"
    BY <1>1, <2>7 DEF Phase
  <2>9. CurrentOf(k) = Current
    BY <1>1, <2>7, <2>8 DEF CurrentOf, Current
  <2>10. Orderly(k) /\ AtWork(k)
    BY <1>1, <1>2, <2>2, <2>4, <2>7, <2>8, <2>9, NoGroupIs DEF Orderly, AtWork
  <2> DEFINE u == Updating(k, st)
  <2>11. /\ u \in Jobs /\ Orderly(u) /\ InPhase(u) /\ SameWork(u, k) /\ u.stage = st
         /\ u.step = IF st = "done" THEN "settle" ELSE "read"
    BY <2>5, <2>6, <2>10, UpdatingIs
  <2>12. Continue(u)
    BY <2>3
  <2> HIDE DEF u
  <2>13. JobInv' /\ Alike(job', u)
    BY <2>11, <2>12, ContinueIs
  <2>14. SameWork(job', k) /\ job'.stage = st /\ job'.step = u.step
    BY <2>11, <2>13 DEF Alike, SameWork
  <2>15. AtWork(job')
    BY <2>10, <2>14, SameWorkSame
  <2> QED
    BY <1>1, <2>2, <2>3, <2>4, <2>7, <2>8, <2>9, <2>11, <2>13, <2>14, <2>15 DEF st
<1> QED
  BY <1>3, <1>4

\* A run at work is about a booking of which it holds a copy.
LEMMA AtWorkIs ==
  ASSUME JobInv, job.step \in {"read", "about", "write", "settle"}
  PROVE  /\ job.known /\ AtWork(job) /\ Current \in Bookings
         /\ job.copy[Current] # NoGroup /\ job.copy[Current] \in Groups
         /\ Current \in job.direct \cup job.placing
<1>1. job \in Jobs /\ Orderly(job) /\ AtWork(job)
  BY DEF JobInv, InPhase
<1>2. Current \in Bookings /\ job.copy[Current] # NoGroup
      /\ Phase(job) \in {"direct", "find", "place"}
  BY <1>1, CurrentIs DEF AtWork, Current
<1>3. job.copy[Current] \in Groups
  BY <1>1, <1>2 DEF Jobs
<1>4. job.known
  BY <1>1, <1>2 DEF Phase, Jobs
<1>5. Current \in job.direct \cup job.placing
  BY <1>1, <1>2, CurrentIs DEF Orderly, Current
<1> QED
  BY <1>1, <1>2, <1>3, <1>4, <1>5

\* The next stage of a run at work.
LEMMA NextStageIs ==
  ASSUME JobInv, job.step \in {"read", "about", "write", "settle"}, NEW st \in StageNames,
         Continue(Updating(job, st))
  PROVE  /\ JobInv' /\ SameWork(job', job) /\ job'.stage = st
         /\ job'.step = IF st = "done" THEN "settle" ELSE "read"
<1> DEFINE u == Updating(job, st)
<1>1. /\ u \in Jobs /\ Orderly(u) /\ InPhase(u) /\ SameWork(u, job) /\ u.stage = st
      /\ u.step = IF st = "done" THEN "settle" ELSE "read"
  BY AtWorkIs, UpdatingIs DEF JobInv
<1>2. Continue(u)
  OBVIOUS
<1> HIDE DEF u
<1>3. JobInv' /\ Alike(job', u)
  BY <1>1, <1>2, ContinueIs
<1> QED
  BY <1>1, <1>3 DEF Alike, SameWork

\* What follows a stage.
LEMMA AfterStageIs ==
  ASSUME NEW t, NEW p, NEW stage
  PROVE  /\ AfterStage(stage, t, p) \in StageNames
         /\ AfterStage(stage, t, p) =
              IF stage = "amount" /\ MergePatch(t, p) # {} THEN "enrich" ELSE "done"
  BY StageFromIs, StagesNamed DEF AfterStage

\* A read of the row: it may be out of reach, or the user's, or is to be written.
LEMMA ReadIs ==
  ASSUME RowsInv, JobInv, ReadAnswered
  PROVE  /\ JobInv' /\ job.step = "read" /\ tokenValid /\ Exists(Target)
         /\ edited' = edited \ {Current}
         /\ \/ Untouchable(Group(Target)) /\ Failed
            \/ /\ Group(Target).reconciled /\ SameWork(job', job)
               /\ job'.stage = AfterStage(job.stage, job.copy[Current], Current)
               /\ job'.step = IF job'.stage = "done" THEN "settle" ELSE "read"
            \/ /\ ~Group(Target).reconciled /\ ~Untouchable(Group(Target))
               /\ SameWork(job', job) /\ job'.stage = job.stage /\ job'.step = "write"
               /\ job'.base = Group(Target).tags
<1> DEFINE g == Group(Target)
           st == AfterStage(job.stage, job.copy[Current], Current)
<1>1. /\ job.step = "read" /\ tokenValid /\ Exists(Target) /\ edited' = edited \ {Current}
      /\ job \in Jobs /\ Orderly(job) /\ InPhase(job)
  BY DEF ReadAnswered, JobInv
<1>2. g \in Stored /\ g \in Groups /\ st \in StageNames
  <2>1. g \in Stored
    BY <1>1 DEF Exists, Group
  <2> QED
    BY <2>1, StoredIs, AfterStageIs DEF RowsInv
<1>3. Continue(IF Untouchable(g) THEN Fails
               ELSE IF g.reconciled THEN Updating(job, st)
               ELSE [job EXCEPT !.step = "write", !.base = g.tags])
  BY DEF ReadAnswered
<1> HIDE DEF g, st
<1>4. CASE Untouchable(g)
  <2>1. JobInv' /\ Failed
    BY <1>1, <1>3, <1>4, ContinueFails
  <2> QED
    BY <1>1, <1>4, <2>1 DEF g
<1>5. CASE ~Untouchable(g) /\ g.reconciled
  <2>1. Continue(Updating(job, st))
    BY <1>3, <1>5
  <2>2. /\ JobInv' /\ SameWork(job', job) /\ job'.stage = st
        /\ job'.step = IF st = "done" THEN "settle" ELSE "read"
    BY <1>1, <1>2, <2>1, NextStageIs
  <2> QED
    BY <1>1, <1>5, <2>2 DEF g, st
<1>6. CASE ~Untouchable(g) /\ ~g.reconciled
  <2> DEFINE k == [job EXCEPT !.step = "write", !.base = g.tags]
  <2>1. Continue(k)
    BY <1>3, <1>6
  <2>2. g.tags \in SUBSET Marks /\ "write" \in Tasks
    BY <1>2 DEF Groups, Tasks
  <2>3. k \in Jobs
    BY <1>1, <2>2 DEF Jobs
  <2>4. SameWork(k, job) /\ k.stage = job.stage /\ k.step = "write" /\ k.base = g.tags
    BY <1>1 DEF Jobs, SameWork
  <2> HIDE DEF k
  <2>5. Orderly(k) /\ AtWork(k)
    BY <1>1, <2>4, AtWorkIs, SameWorkSame
  <2>6. InPhase(k)
    BY <2>4, <2>5 DEF InPhase
  <2>7. JobInv' /\ Alike(job', k)
    BY <2>1, <2>3, <2>5, <2>6, ContinueIs
  <2>8. /\ SameWork(job', job) /\ job'.stage = job.stage /\ job'.step = "write"
        /\ job'.base = g.tags
    BY <2>4, <2>7 DEF Alike, SameWork
  <2> QED
    BY <1>1, <1>6, <2>7, <2>8 DEF g
<1> QED
  BY <1>4, <1>5, <1>6

\* The request of a run that is about to ask something else.
Asks(step) ==
    /\ SameWork(job', job) /\ job'.step = step /\ job'.stage = job.stage
    /\ job'.base = job.base

\* A refused read is followed by a question about the token.
LEMMA RefusedIs ==
  ASSUME JobInv, ReadRefused
  PROVE  JobInv' /\ Asks("about") /\ job.step = "read" /\ ~job'.renewed
<1> DEFINE k == [job EXCEPT !.step = "about", !.renewed = FALSE]
<1>1. job \in Jobs /\ Orderly(job) /\ InPhase(job) /\ job.step = "read" /\ Continue(k)
  BY DEF JobInv, ReadRefused
<1>2. k \in Jobs
  BY <1>1 DEF Jobs, Tasks
<1>3. /\ SameWork(k, job) /\ k.step = "about" /\ k.stage = job.stage /\ k.base = job.base
      /\ k.renewed = FALSE
  BY <1>1 DEF Jobs, SameWork
<1>4. Continue(k)
  BY <1>1
<1> HIDE DEF k
<1>5. Orderly(k) /\ AtWork(k)
  BY <1>1, <1>3, AtWorkIs, SameWorkSame
<1>6. InPhase(k)
  BY <1>3, <1>5 DEF InPhase
<1>7. JobInv' /\ Alike(job', k)
  BY <1>2, <1>4, <1>5, <1>6, ContinueIs
<1> QED
  BY <1>1, <1>3, <1>7 DEF Alike, SameWork, Asks

\* A write that was answered is followed by the next stage.
LEMMA WriteIs ==
  ASSUME JobInv, WriteAnswered
  PROVE  /\ JobInv' /\ job.step = "write" /\ SameWork(job', job)
         /\ job'.stage = AfterStage(job.stage, job.copy[Current], Current)
         /\ job'.step = IF job'.stage = "done" THEN "settle" ELSE "read"
         /\ Put(Target) /\ UNCHANGED nextGroup /\ \E g \in Stored : g.id = Target
<1> DEFINE st == AfterStage(job.stage, job.copy[Current], Current)
<1>1. job.step = "write" /\ st \in StageNames /\ Continue(Updating(job, st))
  BY AfterStageIs DEF WriteAnswered
<1>2. Put(Target) /\ nextGroup' = nextGroup /\ \E g \in Stored : g.id = Target
  BY DEF WriteAnswered, Refused
<1> HIDE DEF st
<1>3. /\ JobInv' /\ SameWork(job', job) /\ job'.stage = st
      /\ job'.step = IF st = "done" THEN "settle" ELSE "read"
  BY <1>1, NextStageIs
<1> QED
  BY <1>1, <1>2, <1>3 DEF st

\* The batch once a row was made for a booking.
Made == [job EXCEPT !.step = "settle", !.copy[Current] = Imported(Current)]

\* A run that posts is placing a booking without a row.
LEMMA PostingIs ==
  ASSUME JobInv, job.step = "post"
  PROVE  /\ Phase(job) = "place" /\ job.known /\ Current \in job.placing
         /\ Current \in Bookings /\ job.copy[Current] = NoGroup
         /\ job.direct = {} /\ job.lookup = {} /\ job.listing = {}
<1>1. job \in Jobs /\ InPhase(job) /\ Phase(job) = "place"
  BY DEF JobInv, InPhase
<1>2. Current \in job.placing /\ Current \in Bookings
  BY <1>1, CurrentIs DEF Current
<1>3. job.copy[Current] = NoGroup
  BY <1>1 DEF JobInv, InPhase, Current
<1>4. job.known \in BOOLEAN
  BY <1>1 DEF Jobs
<1> QED
  BY <1>1, <1>2, <1>3, <1>4 DEF Phase

\* A row that was made is settled next.
LEMMA MadeIs ==
  ASSUME RowsInv, FeedInv, JobInv, PostAnswered
  PROVE  /\ JobInv' /\ job.step = "post" /\ job'.step = "settle"
         /\ Post(Current) /\ job'.known = job.known /\ job'.direct = job.direct
         /\ job'.lookup = job.lookup /\ job'.listing = job.listing
         /\ job'.placing = job.placing /\ job'.out = job.out /\ CurrentOf(job') = Current
         /\ \A p \in Bookings : job'.copy[p] = IF p = Current THEN Imported(Current)
                                               ELSE job.copy[p]
<1> DEFINE new == Imported(Current)
           c == [job.copy EXCEPT ![Current] = new]
           k == [job EXCEPT !.step = "settle", !.copy = c]
<1>1. /\ job.step = "post" /\ job \in Jobs /\ Orderly(job) /\ Post(Current) /\ Continue(k)
  BY DEF PostAnswered, JobInv
<1>2. /\ Phase(job) = "place" /\ Current \in job.placing /\ Current \in Bookings
      /\ job.known /\ job.direct = {}
  BY <1>1, PostingIs
<1>3. new \in Groups /\ new # NoGroup
  BY <1>1, <1>2, PostIs, NoGroupIs DEF FeedInv
<1>4. c \in [Bookings -> Groups \cup {NoGroup}]
      /\ \A p \in Bookings : c[p] = IF p = Current THEN new ELSE job.copy[p]
  BY <1>1, <1>2, <1>3 DEF Jobs
<1> HIDE DEF new, c
<1>5. k \in Jobs
  BY <1>1, <1>4 DEF Jobs, Tasks
<1>6. /\ k.known = job.known /\ k.direct = job.direct /\ k.lookup = job.lookup
      /\ k.listing = job.listing /\ k.placing = job.placing /\ k.copy = c
      /\ k.out = job.out /\ k.step = "settle"
  BY <1>1 DEF Jobs
<1>7. Continue(k)
  BY <1>1
<1> HIDE DEF k
<1>8. Phase(k) = "place"
  BY <1>2, <1>6 DEF Phase
<1>9. CurrentOf(k) = Current
  BY <1>2, <1>6, <1>8 DEF CurrentOf, Current
<1>10. Orderly(k) /\ AtWork(k)
  BY <1>1, <1>2, <1>3, <1>4, <1>6, <1>8, <1>9 DEF Orderly, AtWork
<1>11. InPhase(k)
  BY <1>6, <1>10 DEF InPhase
<1>12. JobInv' /\ Alike(job', k)
  BY <1>5, <1>7, <1>10, <1>11, ContinueIs
<1>13. CurrentOf(job') = Current
  BY <1>9, <1>12, SameWorkSame DEF Alike
<1> QED
  BY <1>1, <1>4, <1>6, <1>12, <1>13 DEF Alike, SameWork, new

\* What is left of a run once the booking in hand is settled.
NextJob ==
    IF Phase(job) = "direct" THEN [job EXCEPT !.direct = @ \ {Current}]
    ELSE [job EXCEPT !.out[Current] = Target, !.lookup = @ \ {Current},
                     !.listing = @ \ {Current}, !.placing = @ \ {Current}]

\* A booking is settled: the loop records it, a batch remembers its row.
LEMMA SettleIs ==
  ASSUME JobInv, Settle
  PROVE  /\ JobInv' /\ job.step = "settle" /\ TurnedTo(NextJob)
         /\ NextJob.known /\ NextJob.copy = job.copy
         /\ Phase(job) = "direct" => /\ Record({Current}, job.out)
                                     /\ NextJob.direct = job.direct \ {Current}
                                     /\ NextJob.placing = job.placing
                                     /\ NextJob.lookup = job.lookup
                                     /\ NextJob.listing = job.listing
                                     /\ NextJob.out = job.out
         /\ Phase(job) # "direct" => /\ UNCHANGED <<entry, placed>>
                                     /\ NextJob.direct = job.direct
                                     /\ NextJob.placing = job.placing \ {Current}
                                     /\ NextJob.lookup = job.lookup \ {Current}
                                     /\ NextJob.listing = job.listing \ {Current}
                                     /\ \A p \in Bookings : NextJob.out[p] =
                                           IF p = Current THEN Target ELSE job.out[p]
<1>1. job.step = "settle" /\ job \in Jobs /\ Orderly(job)
  BY DEF Settle, JobInv
<1>2. /\ job.known /\ Current \in Bookings /\ job.copy[Current] \in Groups
  BY <1>1, AtWorkIs
<1>3. CASE Phase(job) = "direct"
  <2> DEFINE k == [job EXCEPT !.direct = job.direct \ {Current}]
  <2>1. k = NextJob /\ Continue(Turn(k)) /\ Record({Current}, job.out)
    BY <1>3 DEF Settle, NextJob
  <2>2. k \in Jobs
    BY <1>1 DEF Jobs
  <2>3. /\ k.known = job.known /\ k.direct = job.direct \ {Current} /\ k.lookup = job.lookup
        /\ k.listing = job.listing /\ k.placing = job.placing /\ k.copy = job.copy
        /\ k.out = job.out
    BY <1>1 DEF Jobs
  <2> HIDE DEF k
  <2>4. Orderly(k)
    BY <1>1, <1>2, <2>3 DEF Orderly
  <2>5. JobInv' /\ TurnedTo(k)
    BY <1>2, <2>1, <2>2, <2>3, <2>4, ContinueTurn
  <2> QED
    BY <1>1, <1>2, <1>3, <2>1, <2>3, <2>5
<1>4. CASE Phase(job) # "direct"
  <2> DEFINE o == [job.out EXCEPT ![Current] = Target]
             k == [job EXCEPT !.out = o, !.lookup = job.lookup \ {Current},
                              !.listing = job.listing \ {Current},
                              !.placing = job.placing \ {Current}]
  <2>1. Continue(Turn(k)) /\ UNCHANGED <<entry, placed>>
    BY <1>4 DEF Settle
  <2>2. k = NextJob
    BY <1>4 DEF NextJob
  <2>3. Target \in Nat
    BY <1>2 DEF Target, Groups
  <2>4. o \in [Bookings -> Nat]
        /\ \A p \in Bookings : o[p] = IF p = Current THEN Target ELSE job.out[p]
    BY <1>1, <1>2, <2>3 DEF Jobs
  <2> HIDE DEF o
  <2>5. k \in Jobs
    BY <1>1, <2>4 DEF Jobs
  <2>6. /\ k.known = job.known /\ k.direct = job.direct /\ k.lookup = job.lookup \ {Current}
        /\ k.listing = job.listing \ {Current} /\ k.placing = job.placing \ {Current}
        /\ k.copy = job.copy /\ k.out = o
    BY <1>1 DEF Jobs
  <2> HIDE DEF k
  <2>7. Orderly(k)
    BY <1>1, <1>2, <2>6 DEF Orderly
  <2>8. JobInv' /\ TurnedTo(k)
    BY <1>2, <2>1, <2>5, <2>6, <2>7, ContinueTurn
  <2> QED
    BY <1>1, <1>2, <1>4, <2>1, <2>2, <2>4, <2>6, <2>8
<1> QED
  BY <1>3, <1>4

\* A request that was limited, lost or not processed.
LEMMA TroubledIs ==
  ASSUME JobInv, RateLimited \/ Unprocessed \/ AnswerLost
  PROVE  JobInv' /\ job.step \in Asking /\ (Alike(job', job) \/ Failed)
         /\ (AnswerLost /\ job.step = "post" => Failed)
<1>1. job.step \in Asking /\ job.step # "off"
  BY DEF RateLimited, Unprocessed, AnswerLost, Asking
<1>2. \E again \in BOOLEAN : TriedAgain(again)
  BY DEF RateLimited, Unprocessed, AnswerLost, SentAgain
<1>3. JobInv' /\ (Alike(job', job) \/ Failed)
  BY <1>1, <1>2, ContinueTried
<1>4. AnswerLost /\ job.step = "post" => TriedAgain(FALSE)
  BY DEF AnswerLost, SentAgain
<1> QED
  BY <1>1, <1>3, <1>4, ContinueTried

\* A replaced token is remembered while the question about it is under way.
LEMMA ReplacedIs ==
  ASSUME JobInv, TokenReplaced
  PROVE  /\ JobInv' /\ SameWork(job', job) /\ job'.step = job.step /\ job'.stage = job.stage
         /\ job'.page = job.page /\ job'.seen = job.seen /\ job'.base = job.base
         /\ job.step = "about" => job'.renewed
<1> DEFINE r == job.renewed \/ job.step = "about"
           k == [job EXCEPT !.renewed = r]
<1>1. job \in Jobs /\ Orderly(job) /\ InPhase(job) /\ job' = k
  BY DEF JobInv, TokenReplaced
<1>2. r \in BOOLEAN /\ (job.step = "about" => r = TRUE)
  BY <1>1 DEF Jobs
<1>3. job.step = "off" => r = FALSE
  BY <1>1, NoJobIs DEF InPhase, NoJob
<1> HIDE DEF r
<1>4. k \in Jobs
  BY <1>1, <1>2 DEF Jobs
<1>5. /\ SameWork(k, job) /\ k.step = job.step /\ k.stage = job.stage /\ k.page = job.page
      /\ k.seen = job.seen /\ k.base = job.base /\ k.renewed = r
  BY <1>1 DEF Jobs, SameWork
<1>6. job.step = "off" => k = NoJob
  BY <1>1, <1>3, NoJobIs DEF InPhase
<1> HIDE DEF k
<1>7. Orderly(k) /\ (AtWork(k) <=> AtWork(job)) /\ Phase(k) = Phase(job)
      /\ CurrentOf(k) = CurrentOf(job) /\ k.copy = job.copy
  BY <1>1, <1>5, SameWorkSame DEF SameWork
<1>8. InPhase(k)
  BY <1>1, <1>5, <1>6, <1>7 DEF InPhase
<1> QED
  BY <1>1, <1>2, <1>4, <1>5, <1>7, <1>8 DEF JobInv

-----------------------------------------------------------------------------
(* What every step does to a run, and what of it stays true.               *)

\* Where a run's copy of a row comes from: from before, from a listing or a
\* search, or from the row it made.
CopySource(p) ==
    \/ job'.copy[p] = job.copy[p]
    \/ /\ UNCHANGED <<feed, groups, nextGroup, edited>>
       /\ job'.copy[p] \in Stored \/ (job.step = "page" /\ job'.copy[p] \in job.seen)
       /\ job'.copy[p].of = p \/ (job.step = "page" /\ job'.copy[p].id = entry[p])
    \/ Post(Current) /\ p = Current /\ job'.copy[p] = Imported(p) /\ UNCHANGED <<feed, edited>>

\* Where the row of a settled booking comes from.
OutSource(p) ==
    \/ job'.out[p] \in {0, job.out[p]}
    \/ /\ Settle /\ Phase(job) # "direct"
       /\ p = Current /\ job'.out[p] = Target /\ job.copy[p] # NoGroup

\* Where the rows of a listing come from.
SeenSource ==
    job'.step = "page" =>
       \/ job'.seen = {}
       \/ job.step = "page" /\ job'.seen = job.seen
       \/ /\ job.step = "page" /\ job'.seen = PageSeen
          /\ UNCHANGED <<feed, groups, nextGroup, edited, entry>>

JobMoves ==
    /\ JobInv' /\ SeenSource
    /\ \A p \in Bookings : job'.copy[p] # NoGroup => CopySource(p)
    /\ \A p \in Bookings : OutSource(p)
    /\ job'.placing \cup job'.direct \subseteq job.placing \cup job.direct
         \/ (job'.placing \cup job'.direct \subseteq Unsettled /\ job.step = "off")

\* A run that is off moves nothing.
LEMMA MovesOff ==
  ASSUME JobInv', job' = NoJob
  PROVE  JobMoves
  BY NoJobIs DEF JobMoves, CopySource, OutSource, SeenSource

\* The same work, with no new listing.
LEMMA MovesSame ==
  ASSUME JobInv', SameWork(job', job),
         job'.step = "page" => job'.seen = {} \/ (job.step = "page" /\ job'.seen = job.seen)
  PROVE  JobMoves
  BY DEF SameWork, JobMoves, CopySource, OutSource, SeenSource

\* A failure.
LEMMA MovesFailed ==
  ASSUME JobInv', Failed
  PROVE  JobMoves
<1>1. CASE job' = NoJob
  BY <1>1, MovesOff
<1>2. CASE job'.step = "read" /\ SameWork(job', job)
  BY <1>2, MovesSame
<1>3. CASE /\ job'.direct = job.direct \ {Current}
           /\ job'.placing = job.placing /\ job'.copy = job.copy /\ job'.out = job.out
           /\ job'.step = "page" => job'.page = 1 /\ job'.seen = {}
  BY <1>3 DEF JobMoves, CopySource, OutSource, SeenSource
<1> QED
  BY <1>1, <1>2, <1>3 DEF Failed

\* The number of the attempt.
LEMMA MovesAlike ==
  ASSUME JobInv', Alike(job', job)
  PROVE  JobMoves
  BY MovesSame DEF Alike

\* A page.
LEMMA MovesPage ==
  ASSUME RowsInv, JobInv, PageAnswered
  PROVE  JobMoves
<1>1. JobInv' /\ job.step = "page" /\ UNCHANGED <<feed, groups, nextGroup, edited, entry>>
  BY PagesIs DEF PageAnswered, Quiet, bankState, firefly, editState
<1>2. PageSeen \subseteq Stored \cup job.seen
  BY PageIs DEF PageSeen
<1>3. CASE SameWork(job', job) /\ job'.step = "page" /\ job'.seen = PageSeen
  BY <1>1, <1>3 DEF SameWork, JobMoves, CopySource, OutSource, SeenSource
<1>4. CASE job.known /\ Phase(job) = "list" /\ TurnedTo(Listed)
  <2>1. /\ Listed.direct = job.direct /\ Listed.placing = job.placing
        /\ Listed.out = job.out
        /\ \A p \in Bookings : Listed.copy[p] = IF p = Current
                                                THEN Recognised(PageSeen, Current)
                                                ELSE job.copy[p]
    BY <1>4, ListedIs
  <2>2. /\ job'.direct = job.direct /\ job'.placing = job.placing /\ job'.out = job.out
        /\ job'.copy = Listed.copy /\ SeenSource
    BY <1>4, <2>1 DEF TurnedTo, SameWork, SeenSource
  <2>3. ASSUME NEW p \in Bookings, job'.copy[p] # NoGroup PROVE CopySource(p)
    <3>1. CASE p = Current
      <4>1. job'.copy[p] \in PageSeen /\ job'.copy[p].of = p
        BY <2>1, <2>2, <2>3, <3>1, PageIs, RecognisedIs
      <4> QED
        BY <1>1, <1>2, <4>1 DEF CopySource
    <3>2. CASE p # Current
      BY <2>1, <2>2, <3>2 DEF CopySource
    <3> QED
      BY <3>1, <3>2
  <2> QED
    BY <1>1, <2>2, <2>3 DEF JobMoves, OutSource
<1>5. CASE ~job.known /\ TurnedTo(Loaded(PageSeen))
  <2> DEFINE j == Loaded(PageSeen)
  <2>1. /\ j.out = job.out /\ j.direct \subseteq job.placing
        /\ j.placing = job.placing \ j.direct
        /\ \A p \in Bookings :
              IF p \in j.direct THEN j.copy[p] \in PageSeen /\ j.copy[p].id = entry[p]
              ELSE j.copy[p] = NoGroup
    BY <1>5, PageIs, OpenedIs
  <2>2. TurnedTo(j)
    BY <1>5
  <2> HIDE DEF j
  <2>3. /\ job'.direct = j.direct /\ job'.placing = j.placing /\ job'.out = j.out
        /\ job'.copy = j.copy /\ SeenSource
    BY <2>2 DEF TurnedTo, SameWork, SeenSource
  <2>4. ASSUME NEW p \in Bookings, job'.copy[p] # NoGroup PROVE CopySource(p)
    <3>1. job'.copy[p] \in PageSeen /\ job'.copy[p].id = entry[p]
      BY <2>1, <2>3, <2>4
    <3> QED
      BY <1>1, <1>2, <3>1 DEF CopySource
  <2> QED
    BY <1>1, <2>1, <2>3, <2>4 DEF JobMoves, OutSource
<1> QED
  BY <1>3, <1>4, <1>5, PagesIs

\* A search.
LEMMA MovesSearch ==
  ASSUME RowsInv, JobInv, SearchAnswered
  PROVE  JobMoves
<1>1. JobInv' /\ UNCHANGED <<feed, groups, nextGroup, edited, entry>>
  BY SearchIs DEF SearchAnswered, Quiet, bankState, firefly, editState
<1>2. CASE /\ TurnedTo(NotFound)
           /\ NotFound.copy = job.copy /\ NotFound.out = job.out
           /\ NotFound.direct = job.direct /\ NotFound.placing = job.placing
  BY <1>1, <1>2 DEF TurnedTo, SameWork, JobMoves, CopySource, OutSource, SeenSource
<1>3. ASSUME NEW hit \in Stored, hit.of = Current, SameWork(job', Found(hit)),
             job'.step \in {"settle", "read"},
             Found(hit).out = job.out, Found(hit).direct = job.direct,
             Found(hit).placing = job.placing,
             \A p \in Bookings : Found(hit).copy[p] = IF p = Current THEN hit ELSE job.copy[p]
      PROVE  JobMoves
  <2>1. /\ job'.direct = job.direct /\ job'.placing = job.placing /\ job'.out = job.out
        /\ job'.copy = Found(hit).copy
    BY <1>3 DEF SameWork
  <2>2. \A p \in Bookings : CopySource(p)
    BY <1>1, <1>3, <2>1 DEF CopySource
  <2> QED
    BY <1>1, <1>3, <2>1, <2>2 DEF JobMoves, OutSource, SeenSource
<1> QED
  <2>1. CASE TurnedTo(NotFound)
    BY <1>2, <2>1, SearchIs DEF NotFound
  <2> QED
    BY <1>2, <1>3, SearchIs

\* A booking that is settled.
LEMMA MovesSettle ==
  ASSUME JobInv, Settle
  PROVE  JobMoves
<1>1. /\ JobInv' /\ TurnedTo(NextJob) /\ NextJob.copy = job.copy
      /\ job.copy[Current] # NoGroup
  BY SettleIs, AtWorkIs
<1>2. /\ job'.copy = job.copy /\ SeenSource /\ job'.out = NextJob.out
      /\ job'.direct = NextJob.direct /\ job'.placing = NextJob.placing
  BY <1>1 DEF TurnedTo, SameWork, SeenSource
<1>3. NextJob.direct \subseteq job.direct /\ NextJob.placing \subseteq job.placing
  BY SettleIs
<1>4. \A p \in Bookings : OutSource(p)
  BY <1>1, <1>2, SettleIs DEF OutSource
<1> QED
  BY <1>1, <1>2, <1>3, <1>4 DEF JobMoves, CopySource

\* A row that was made.
LEMMA MovesPost ==
  ASSUME RowsInv, FeedInv, JobInv, PostAnswered
  PROVE  JobMoves
<1>1. UNCHANGED <<feed, edited>>
  BY DEF PostAnswered, bankState, editState
<1>2. \A p \in Bookings : CopySource(p)
  BY <1>1, MadeIs DEF CopySource
<1> QED
  BY <1>2, MadeIs DEF JobMoves, OutSource, SeenSource

\* Every step.
LEMMA EveryMove ==
  ASSUME RowsInv, FeedInv, JobInv, [FireflyNext]_fireflyVars
  PROVE  JobMoves
<1>1. ASSUME UNCHANGED job PROVE JobMoves
  BY <1>1, MovesSame DEF JobInv, SameWork, Orderly, InPhase, AtWork, Phase, CurrentOf
<1>2. ASSUME Continue(Fails), job.step # "off" PROVE JobMoves
  BY <1>2, ContinueFails, MovesFailed
<1>3. ASSUME Continue(NoJob) PROVE JobMoves
  BY <1>3, ContinueNoJob, MovesOff
<1>4. CASE RunBegins
  <2>1. /\ JobInv' /\ job'.step = "page" /\ job'.seen = {} /\ ~job'.known
        /\ job'.placing = Unsettled /\ job.step = "off"
    BY <1>4, BeginsIs DEF RunBegins
  <2>2. job'.direct = {} /\ \A p \in Bookings : job'.copy[p] = NoGroup /\ job'.out[p] = 0
    BY <2>1 DEF JobInv, Orderly
  <2> QED
    BY <2>1, <2>2 DEF JobMoves, OutSource, SeenSource
<1>5. CASE ReadAnswered
  BY <1>5, ReadIs, MovesFailed, MovesSame
<1>6. CASE ReadRefused
  BY <1>6, RefusedIs, MovesSame DEF Asks
<1>7. CASE AboutAnswered \/ WriteRefused \/ PostRefused \/ Unauthenticated
  BY <1>2, <1>7 DEF AboutAnswered, WriteRefused, PostRefused, Unauthenticated
<1>8. CASE WriteAnswered
  BY <1>8, WriteIs, MovesSame
<1>9. CASE RateLimited \/ Unprocessed \/ AnswerLost
  BY <1>9, TroubledIs, MovesAlike, MovesFailed
<1>10. CASE TokenReplaced
  BY <1>10, ReplacedIs, MovesSame
<1>11. CASE BatchSettled \/ ImporterCrashes
  BY <1>3, <1>11 DEF BatchSettled, ImporterCrashes
<1>12. CASE UserStep
  BY <1>1, <1>12, UserIs
<1>13. CASE \E p \in Bookings, status \in {"authorised", "booked"} : BankReports(p, status)
  BY <1>1, <1>13 DEF BankReports
<1>14. CASE TokenExpires
  BY <1>1, <1>14 DEF TokenExpires
<1>15. CASE UNCHANGED fireflyVars
  BY <1>1, <1>15 DEF fireflyVars
<1> QED
  BY <1>4, <1>5, <1>6, <1>7, <1>8, <1>9, <1>10, <1>11, <1>12, <1>13, <1>14, <1>15,
     MovesPage, MovesSearch, MovesSettle, MovesPost
  DEF FireflyNext, RunStep, TroubleStep

-----------------------------------------------------------------------------
(* What every step does to the rows.                                       *)

\* A row comes of one there was, or is the one a run makes; a row that is
\* missing was deleted by the user.
RowMoves ==
    /\ RowsInv' /\ nextGroup <= nextGroup'
    /\ \A h \in Stored' :
          \/ \E g \in Stored : Evolves(g, h)
          \/ /\ job.step = "post" /\ nextGroup' = nextGroup + 1 /\ h = Imported(Current)
             /\ h.id = nextGroup /\ h.of = Current /\ feed[Current] # "none"
    /\ \A g \in Stored : g.of \in edited' \/ \E h \in Stored' : h.id = g.id

\* A step that leaves the rows.
LEMMA RowsStay ==
  ASSUME RowsInv, UNCHANGED <<groups, nextGroup>>
  PROVE  RowMoves
<1>1. Stored' = Stored
  BY DEF Stored
<1>2. RowsInv' /\ nextGroup <= nextGroup'
  BY DEF RowsInv
<1>3. \A g \in Stored : Evolves(g, g)
  BY DEF Evolves
<1> QED
  BY <1>1, <1>2, <1>3 DEF RowMoves

\* A step that writes.
LEMMA RowsPut ==
  ASSUME RowsInv, FeedInv, JobInv, Put(Target), UNCHANGED nextGroup
  PROVE  RowMoves
<1>1. job.base \subseteq Marks
  BY DEF JobInv, Jobs
<1>2. /\ RowsInv' /\ DOMAIN groups' = DOMAIN groups
      /\ \A i \in DOMAIN groups : Evolves(groups[i], groups'[i])
  BY <1>1, PutIs
<1>3. \A h \in Stored' : \E g \in Stored : Evolves(g, h)
  BY <1>2 DEF Stored, ToSet
<1>4. \A g \in Stored : \E h \in Stored' : h.id = g.id
  BY <1>2 DEF Stored, ToSet, Evolves
<1>5. nextGroup <= nextGroup'
  BY DEF RowsInv
<1> QED
  BY <1>2, <1>3, <1>4, <1>5 DEF RowMoves

\* A step that makes a row.
LEMMA RowsPost ==
  ASSUME RowsInv, FeedInv, JobInv, job.step = "post", Post(Current)
  PROVE  RowMoves
<1>1. Current \in Bookings /\ feed[Current] # "none"
  BY PostingIs DEF FeedInv
<1>2. /\ RowsInv' /\ nextGroup' = nextGroup + 1 /\ Imported(Current).id = nextGroup
      /\ Stored' = Stored \cup {Imported(Current)} /\ Imported(Current).of = Current
  BY <1>1, PostIs
<1>3. \A g \in Stored : Evolves(g, g)
  BY DEF Evolves
<1>4. nextGroup <= nextGroup'
  BY <1>2 DEF RowsInv
<1> QED
  BY <1>1, <1>2, <1>3, <1>4 DEF RowMoves

\* Every step.
LEMMA EveryRow ==
  ASSUME RowsInv, FeedInv, JobInv, [FireflyNext]_fireflyVars
  PROVE  RowMoves
<1>1. CASE UNCHANGED <<groups, nextGroup>>
  BY <1>1, RowsStay
<1>2. CASE UserStep
  <2>1. RowsInv' /\ nextGroup' = nextGroup
    BY <1>2, UserIs
  <2>2. nextGroup <= nextGroup'
    BY <2>1 DEF RowsInv
  <2> QED
    BY <1>2, <2>1, <2>2, UserStored DEF RowMoves
<1>3. CASE WriteAnswered
  BY <1>3, RowsPut DEF WriteAnswered
<1>4. CASE PostAnswered
  BY <1>4, RowsPost DEF PostAnswered
<1>5. CASE AnswerLost
  BY <1>5, RowsPut, RowsPost DEF AnswerLost
<1> QED
  BY <1>1, <1>2, <1>3, <1>4, <1>5
  DEF FireflyNext, RunStep, TroubleStep, BankReports, RunBegins, PageAnswered, SearchAnswered,
      ReadAnswered, ReadRefused, AboutAnswered, WriteRefused, PostRefused, Unauthenticated,
      Settle, BatchSettled, RateLimited, Unprocessed, ImporterCrashes, TokenExpires,
      TokenReplaced, Quiet, firefly, fireflyVars, bankState

-----------------------------------------------------------------------------
(* The rows a run knows of.                                                *)

\* A row the run has read: the row of that id, if it is still there, came of
\* it, and if it is not, the user deleted it.
Tracks(t) ==
    /\ t.id < nextGroup
    /\ t.of \in edited \/ \E g \in Stored : g.id = t.id
    /\ \A g \in Stored : g.id = t.id => Evolves(t, g)

\* What is edited stays so until the run reads the row or another begins.
LEMMA EditedKept ==
  ASSUME JobInv, [FireflyNext]_fireflyVars, NEW p, p \in edited
  PROVE  p \in edited' \/ (RunBegins /\ job.step = "off")
            \/ (ReadAnswered /\ p = Current)
  BY UserIs DEF FireflyNext, RunStep, TroubleStep, BankReports, RunBegins, PageAnswered,
      SearchAnswered, ReadAnswered, ReadRefused, AboutAnswered, WriteAnswered, WriteRefused,
      PostAnswered, PostRefused, Unauthenticated, Settle, BatchSettled, RateLimited, Unprocessed,
      AnswerLost, ImporterCrashes, TokenExpires, TokenReplaced, Quiet, editState, fireflyVars,
      UserStep, UserSplits, UserTags, UserReconciles, UserDeletes, Change, Edit

\* The bank's report changes between runs only.
LEMMA FeedKept ==
  ASSUME JobInv, [FireflyNext]_fireflyVars
  PROVE  UNCHANGED feed \/ (job.step = "off" /\ job' = job /\ UNCHANGED <<groups, nextGroup, entry>>
                            /\ \E p \in Bookings, status \in {"authorised", "booked"} :
                                  feed' = [feed EXCEPT ![p] = status])
  BY DEF FireflyNext, RunStep, TroubleStep, BankReports, RunBegins, PageAnswered,
      SearchAnswered, ReadAnswered, ReadRefused, AboutAnswered, WriteAnswered, WriteRefused,
      PostAnswered, PostRefused, Unauthenticated, Settle, BatchSettled, RateLimited, Unprocessed,
      AnswerLost, ImporterCrashes, TokenExpires, TokenReplaced, Quiet, bankState, fireflyVars,
      UserStep, UserSplits, UserTags, UserReconciles, UserDeletes, Change, Edit, firefly

\* A row that is known stays so.
LEMMA TracksKept ==
  ASSUME RowsInv, FeedInv, JobInv, [FireflyNext]_fireflyVars, UNCHANGED feed,
         NEW t, t \in Groups, Tracks(t), t.of \in edited' \/ \E g \in Stored : g.id = t.id
  PROVE  Tracks(t)'
<1>1. RowMoves
  BY EveryRow
<1>2. t.id \in Nat /\ nextGroup \in Nat /\ nextGroup' \in Nat
  BY <1>1 DEF RowMoves, RowsInv, Groups
<1>3. t.id < nextGroup'
  BY <1>1, <1>2 DEF RowMoves, Tracks
<1>4. t.of \in edited' \/ \E g \in Stored' : g.id = t.id
  <2>1. CASE \E g \in Stored : g.id = t.id
    <3>1. PICK g \in Stored : g.id = t.id
      BY <2>1
    <3>2. g.of = t.of
      BY <3>1 DEF Tracks, Evolves
    <3> QED
      BY <1>1, <3>1, <3>2 DEF RowMoves
  <2> QED
    BY <2>1
<1>5. ASSUME NEW h \in Stored', h.id = t.id PROVE Evolves(t, h)
  <2>1. h.id # nextGroup
    BY <1>2, <1>5 DEF Tracks
  <2>2. PICK g \in Stored : Evolves(g, h)
    BY <1>1, <2>1 DEF RowMoves
  <2>3. Evolves(t, g)
    BY <1>5, <2>2 DEF Tracks, Evolves
  <2> QED
    BY <2>2, <2>3 DEF Evolves
<1>6. \A h \in Stored' : h.id = t.id => Evolves(t, h)'
  BY <1>5 DEF Evolves
<1> QED
  BY <1>3, <1>4, <1>6 DEF Tracks

\* A row that is stored is known.
LEMMA StoredTracks ==
  ASSUME RowsInv, NEW t \in Stored
  PROVE  Tracks(t) /\ t \in Groups
<1>1. PICK i \in DOMAIN groups : t = groups[i]
  BY StoredIs
<1>2. t \in Groups /\ t.id < nextGroup
  BY <1>1 DEF RowsInv
<1>3. \A g \in Stored : g.id = t.id => g = t
  BY <1>1, StoredIs DEF RowsInv
<1> QED
  BY <1>2, <1>3 DEF Tracks, Evolves

\* The rows of which a run holds a copy, those it has listed, and those of
\* pending_map are the rows of their bookings.
CopiesTrack ==
    \A p \in Bookings : job.copy[p] # NoGroup => job.copy[p].of = p /\ Tracks(job.copy[p])
SeenTrack == job.step = "page" => \A h \in job.seen : Tracks(h)
EntryInv ==
    /\ entry \in [Bookings -> Nat]
    /\ \A p \in Bookings : entry[p] < nextGroup /\ job.out[p] < nextGroup
    /\ \A p \in Bookings, g \in Stored : g.id \in {entry[p], job.out[p]} => g.of = p
    /\ job.step = "page" => \A p \in Bookings, h \in job.seen : h.id = entry[p] => h.of = p

WorkInv ==
    /\ RowsInv /\ FeedInv /\ JobInv
    /\ CopiesTrack /\ SeenTrack /\ EntryInv

\* What the bookkeeping records.
LEMMA EntrySource ==
  ASSUME JobInv, EntryInv, [FireflyNext]_fireflyVars
  PROVE  /\ entry' \in [Bookings -> Nat]
         /\ \A p \in Bookings : entry'[p] \in {0, entry[p], job.out[p]}
<1>1. ASSUME NEW S, Record(S, job.out)
      PROVE  /\ entry' \in [Bookings -> Nat]
             /\ \A p \in Bookings : entry'[p] \in {0, entry[p], job.out[p]}
  <2>1. job.out \in [Bookings -> Nat] /\ entry \in [Bookings -> Nat]
    BY DEF JobInv, Jobs, EntryInv
  <2>2. entry' = [p \in Bookings |-> IF p \notin S THEN entry[p]
                                     ELSE IF IsBooked(p) THEN 0 ELSE job.out[p]]
    BY <1>1 DEF Record
  <2> QED
    BY <2>1, <2>2
<1>2. CASE UNCHANGED entry
  BY <1>2 DEF EntryInv
<1>3. CASE Settle \/ BatchSettled
  <2>1. UNCHANGED entry \/ \E S : Record(S, job.out)
    BY <1>3 DEF Settle, BatchSettled
  <2> QED
    BY <1>1, <1>2, <2>1
<1> QED
  BY <1>2, <1>3
  DEF UserStep, UserSplits, UserTags, UserReconciles, UserDeletes, Change, Edit,
      FireflyNext, RunStep, TroubleStep, BankReports, RunBegins, PageAnswered,
      SearchAnswered, ReadAnswered, ReadRefused, AboutAnswered, WriteAnswered, WriteRefused,
      PostAnswered, PostRefused, Unauthenticated, RateLimited, Unprocessed,
      AnswerLost, ImporterCrashes, TokenExpires, TokenReplaced, Quiet, bankState, fireflyVars

\* A step of the bank, with no run under way.
LEMMA WorkBank ==
  ASSUME WorkInv, job.step = "off", job' = job, UNCHANGED <<groups, nextGroup, entry>>,
         NEW q \in Bookings, NEW status \in {"authorised", "booked"},
         feed' = [feed EXCEPT ![q] = status]
  PROVE  WorkInv'
<1>1. job = NoJob
  BY DEF WorkInv, JobInv, InPhase
<1>2. JobInv' /\ RowsInv' /\ Stored' = Stored
  BY DEF WorkInv, JobInv, RowsInv, Orderly, InPhase, AtWork, Phase, CurrentOf, Stored
<1>3. FeedInv'
  BY <1>2 DEF WorkInv, FeedInv
<1>4. CopiesTrack' /\ SeenTrack'
  BY <1>1, NoJobIs DEF CopiesTrack, SeenTrack
<1>5. EntryInv'
  BY <1>2 DEF WorkInv, EntryInv
<1> QED
  BY <1>2, <1>3, <1>4, <1>5 DEF WorkInv

\* The same of the rows after a step.
LEMMA StoredNext ==
  ASSUME RowsInv', NEW t, t \in Stored'
  PROVE  Tracks(t)'
<1>1. PICK i \in DOMAIN groups' : t = groups'[i]
  BY DEF Stored, ToSet
<1>2. t.id < nextGroup'
  BY <1>1 DEF RowsInv
<1>3. \A g \in Stored' : g.id = t.id => g = t
  BY <1>1 DEF RowsInv, Stored, ToSet
<1> QED
  BY <1>2, <1>3 DEF Tracks, Evolves

\* The ids of rows are positive.
LEMMA StoredTyped ==
  ASSUME RowsInv', NEW h \in Stored'
  PROVE  h.id \in Nat \ {0}
<1>1. h \in Groups
  BY DEF RowsInv, Stored, ToSet
<1> QED
  BY <1>1 DEF Groups

\* Nothing is recorded while rows are listed.
LEMMA EntryOnPage ==
  ASSUME [FireflyNext]_fireflyVars, job.step = "page"
  PROVE  UNCHANGED entry
  BY DEF FireflyNext, RunStep, TroubleStep, BankReports, RunBegins, PageAnswered,
      SearchAnswered, ReadAnswered, ReadRefused, AboutAnswered, WriteAnswered, WriteRefused,
      PostAnswered, PostRefused, Unauthenticated, Settle, BatchSettled, RateLimited, Unprocessed,
      AnswerLost, ImporterCrashes, TokenExpires, TokenReplaced, Quiet, bankState, fireflyVars,
      UserStep, UserSplits, UserTags, UserReconciles, UserDeletes, Change, Edit

\* Every step keeps what a run knows true.
LEMMA WorkStep ==
  ASSUME WorkInv, [FireflyNext]_fireflyVars
  PROVE  WorkInv'
<1> USE DEF WorkInv
<1>1. CASE ~UNCHANGED feed
  BY <1>1, FeedKept, WorkBank
<1>2. CASE UNCHANGED feed
  <2>1. RowMoves /\ JobMoves /\ RowsInv' /\ JobInv'
    BY EveryRow, EveryMove DEF RowMoves, JobMoves
  <2>2. nextGroup \in Nat \ {0} /\ nextGroup' \in Nat \ {0} /\ nextGroup <= nextGroup'
    BY <2>1 DEF RowMoves, RowsInv
  <2>3. job.copy \in [Bookings -> Groups \cup {NoGroup}] /\ job.seen \subseteq Groups
        /\ job.out \in [Bookings -> Nat] /\ job.placing \subseteq Bookings
        /\ job.direct \subseteq Bookings
    BY DEF JobInv, Jobs
  <2>4. FeedInv'
    <3>1. feed' \in [Bookings -> {"none", "authorised", "booked"}]
      BY <1>2 DEF FeedInv
    <3>2. ASSUME NEW h \in Stored' PROVE feed'[h.of] # "none"
      BY <1>2, <2>1 DEF RowMoves, FeedInv, Evolves
    <3>3. \A p \in job'.placing \cup job'.direct : feed'[p] # "none"
      BY <1>2, <2>1 DEF JobMoves, FeedInv, Unsettled, IsBooked
    <3> QED
      BY <3>1, <3>2, <3>3 DEF FeedInv
  <2>5. ASSUME NEW t \in Groups, Tracks(t), t.of \in edited' \/ \E g \in Stored : g.id = t.id
        PROVE  Tracks(t)'
    BY <1>2, <2>5, TracksKept
  <2>6. CopiesTrack'
    <3>1. ASSUME NEW p \in Bookings, job'.copy[p] # NoGroup, job'.copy[p] = job.copy[p]
          PROVE  job'.copy[p].of = p /\ \E t : t = job'.copy[p] /\ Tracks(t)'
      <4>1. PICK t : t = job.copy[p]
        OBVIOUS
      <4>2. t \in Groups /\ t.of = p /\ Tracks(t)
        BY <2>3, <3>1, <4>1 DEF CopiesTrack
      <4>3. t.of \in edited' \/ \E g \in Stored : g.id = t.id
        <5>1. CASE t.of \in edited
          <6>1. CASE RunBegins /\ job.step = "off"
            <7>1. job = NoJob
              BY <6>1 DEF JobInv, InPhase
            <7> QED
              BY <3>1, <7>1, NoJobIs
          <6>2. CASE ReadAnswered /\ t.of = Current
            <7>1. \E g \in Stored : g.id = job.copy[Current].id
              BY <6>2, ReadIs DEF Exists, Target
            <7> QED
              BY <4>1, <4>2, <6>2, <7>1
          <6> QED
            BY <5>1, <6>1, <6>2, EditedKept
        <5> QED
          BY <4>2, <5>1 DEF Tracks
      <4>4. Tracks(t)'
        BY <2>5, <4>2, <4>3
      <4> QED
        BY <3>1, <4>1, <4>2, <4>4
    <3>2. ASSUME NEW p \in Bookings, job'.copy[p] # NoGroup,
                 UNCHANGED <<feed, groups, nextGroup, edited>>,
                 job'.copy[p] \in Stored \/ (job.step = "page" /\ job'.copy[p] \in job.seen),
                 job'.copy[p].of = p \/ (job.step = "page" /\ job'.copy[p].id = entry[p])
          PROVE  job'.copy[p].of = p /\ \E t : t = job'.copy[p] /\ Tracks(t)'
      <4>1. PICK t : t = job'.copy[p]
        OBVIOUS
      <4>2. t \in Groups /\ Tracks(t)
        BY <2>3, <3>2, <4>1, StoredTracks DEF SeenTrack
      <4>3. t.of = p
        BY <3>2, <4>1 DEF EntryInv
      <4>4. t.of \in edited' \/ \E g \in Stored : g.id = t.id
        BY <3>2, <4>2 DEF Tracks
      <4>5. Tracks(t)'
        BY <2>5, <4>2, <4>4
      <4> QED
        BY <4>1, <4>3, <4>5
    <3>3. ASSUME NEW p \in Bookings, Post(Current), p = Current, job'.copy[p] = Imported(p)
          PROVE  job'.copy[p].of = p /\ \E t : t = job'.copy[p] /\ Tracks(t)'
      <4>1. PICK t : t = Imported(p)
        OBVIOUS
      <4>2. groups' = Append(groups, Imported(p))
        BY <3>3 DEF Post
      <4>3. Imported(p) \in Stored' /\ Imported(p).of = p
        <5>1. /\ groups \in Seq(Groups) /\ Len(groups) \in Nat
          BY DEF RowsInv
        <5>2. Len(groups) + 1 \in DOMAIN Append(groups, Imported(p))
              /\ Append(groups, Imported(p))[Len(groups) + 1] = Imported(p)
          BY <5>1
        <5>3. Imported(p).of = p
          BY DEF Imported
        <5> QED
          BY <4>2, <5>2, <5>3 DEF Stored, ToSet
      <4>4. Tracks(t)'
        BY <2>1, <4>1, <4>3, StoredNext
      <4> QED
        BY <3>3, <4>1, <4>3, <4>4
    <3>4. ASSUME NEW p \in Bookings, job'.copy[p] # NoGroup
          PROVE  job'.copy[p].of = p /\ \E t : t = job'.copy[p] /\ Tracks(t)'
      <4>1. CopySource(p)
        BY <2>1, <3>4 DEF JobMoves
      <4> QED
        BY <3>1, <3>2, <3>3, <3>4, <4>1 DEF CopySource
    <3> QED
      BY <3>4 DEF CopiesTrack, Tracks
  <2>7. SeenTrack'
    <3>1. ASSUME job'.step = "page", NEW h \in job'.seen PROVE Tracks(h)'
      <4>1. CASE job.step = "page" /\ job'.seen = job.seen
        <5>1. h \in Groups /\ Tracks(h)
          BY <2>3, <3>1, <4>1 DEF SeenTrack
        <5>2. h.of \in edited' \/ \E g \in Stored : g.id = h.id
          BY <4>1, <5>1, EditedKept DEF Tracks, ReadAnswered, RunBegins
        <5> QED
          BY <2>5, <5>1, <5>2
      <4>2. CASE /\ job.step = "page" /\ job'.seen = PageSeen
                 /\ UNCHANGED <<feed, groups, nextGroup, edited, entry>>
        <5>1. h \in job.seen \/ h \in Stored
          BY <3>1, <4>2, PageIs DEF PageSeen
        <5>2. h \in Groups /\ Tracks(h)
          BY <2>3, <4>2, <5>1, StoredTracks DEF SeenTrack
        <5>3. h.of \in edited' \/ \E g \in Stored : g.id = h.id
          BY <4>2, <5>2 DEF Tracks
        <5> QED
          BY <2>5, <5>2, <5>3
      <4> QED
        BY <2>1, <3>1, <4>1, <4>2 DEF JobMoves, SeenSource
    <3> QED
      BY <3>1 DEF SeenTrack, Tracks
  <2>8. EntryInv'
    <3>1. /\ entry' \in [Bookings -> Nat]
          /\ \A p \in Bookings : entry'[p] \in {0, entry[p], job.out[p]}
      BY EntrySource
    <3>2. ASSUME NEW p \in Bookings
          PROVE  job'.out[p] \in {0, job.out[p]}
                   \/ (job'.out[p] = job.copy[p].id /\ job.copy[p] # NoGroup)
      BY <2>1, <3>2 DEF JobMoves, OutSource, Target
    <3>3. ASSUME NEW p \in Bookings PROVE entry'[p] < nextGroup' /\ job'.out[p] < nextGroup'
      <4>1. entry[p] \in Nat /\ entry[p] < nextGroup /\ job.out[p] \in Nat
            /\ job.out[p] < nextGroup
        BY <2>3 DEF EntryInv
      <4>2. job.copy[p] # NoGroup => job.copy[p].id \in Nat /\ job.copy[p].id < nextGroup
        BY <2>3 DEF CopiesTrack, Tracks, Groups
      <4>3. entry'[p] \in Nat /\ entry'[p] < nextGroup
        BY <2>2, <3>1, <4>1
      <4>4. job'.out[p] \in Nat /\ job'.out[p] < nextGroup
        BY <2>2, <3>2, <4>1, <4>2
      <4> QED
        BY <2>2, <4>3, <4>4
    <3>4. ASSUME NEW p \in Bookings, NEW h \in Stored', h.id \in {entry'[p], job'.out[p]}
          PROVE  h.of = p
      <4>1. h.id \in Nat \ {0}
        BY <2>1, StoredTyped
      <4>2. CASE \E g \in Stored : Evolves(g, h)
        <5>1. PICK g \in Stored : g.id = h.id /\ g.of = h.of
          BY <4>2 DEF Evolves
        <5>2. CASE g.id \in {entry[p], job.out[p]}
          BY <5>1, <5>2 DEF EntryInv
        <5>3. CASE job.copy[p] # NoGroup /\ g.id = job.copy[p].id
          BY <5>1, <5>3 DEF CopiesTrack, Tracks, Evolves
        <5> QED
          BY <3>1, <3>2, <3>4, <4>1, <5>1, <5>2, <5>3
      <4>3. CASE h.id = nextGroup /\ h.of = Current
        <5>1. entry[p] \in Nat /\ entry[p] < nextGroup /\ job.out[p] \in Nat
              /\ job.out[p] < nextGroup
          BY <2>3 DEF EntryInv
        <5>2. job.copy[p] # NoGroup => job.copy[p].id \in Nat /\ job.copy[p].id < nextGroup
          BY <2>3 DEF CopiesTrack, Tracks, Groups
        <5> QED
          BY <2>2, <3>1, <3>2, <3>4, <4>3, <5>1, <5>2
      <4> QED
        BY <2>1, <4>2, <4>3 DEF RowMoves
    <3>5. ASSUME job'.step = "page", NEW p \in Bookings, NEW h \in job'.seen, h.id = entry'[p]
          PROVE  h.of = p
      <4>1. CASE job.step = "page" /\ job'.seen = job.seen
        <5>1. UNCHANGED entry
          BY <4>1, EntryOnPage
        <5> QED
          BY <3>5, <4>1, <5>1 DEF EntryInv
      <4>2. CASE /\ job.step = "page" /\ job'.seen = PageSeen
                 /\ UNCHANGED <<feed, groups, nextGroup, edited, entry>>
        <5>1. h \in job.seen \/ h \in Stored
          BY <3>5, <4>2, PageIs DEF PageSeen
        <5> QED
          BY <3>5, <4>2, <5>1 DEF EntryInv
      <4> QED
        BY <2>1, <3>5, <4>1, <4>2 DEF JobMoves, SeenSource
    <3> QED
      BY <3>1, <3>3, <3>4, <3>5 DEF EntryInv
  <2> QED
    BY <2>1, <2>4, <2>6, <2>7, <2>8
<1> QED
  BY <1>1, <1>2

\* There are no rows at first, and no run.
LEMMA WorkInit == FireflyInit => WorkInv
<1> SUFFICES ASSUME FireflyInit PROVE WorkInv
  OBVIOUS
<1>1. Stored = {} /\ job = NoJob
  BY DEF FireflyInit, Stored, ToSet
<1>2. RowsInv
  BY DEF FireflyInit, RowsInv
<1>3. FeedInv
  BY <1>1, NoJobIs DEF FireflyInit, FeedInv
<1>4. JobInv
  BY <1>1, NoJobIs DEF JobInv, Orderly, InPhase
<1>5. CopiesTrack /\ SeenTrack
  BY <1>1, NoJobIs DEF CopiesTrack, SeenTrack
<1>6. EntryInv
  BY <1>1, NoJobIs DEF FireflyInit, EntryInv
<1> QED
  BY <1>2, <1>3, <1>4, <1>5, <1>6 DEF WorkInv

-----------------------------------------------------------------------------
(* A row reported as gone is gone.                                         *)

\* While a run asks about the token, the token was replaced since the read, or
\* does not work, or the row is not there.
AboutInv == job.step = "about" => job.renewed \/ ~tokenValid \/ ~Exists(Target)

\* Every step keeps that.
LEMMA AboutStep ==
  ASSUME WorkInv, AboutInv, [FireflyNext]_fireflyVars
  PROVE  AboutInv'
<1> USE DEF WorkInv
<1> SUFFICES ASSUME job'.step = "about"
             PROVE  job'.renewed \/ ~tokenValid' \/ ~Exists(Target)'
  BY DEF AboutInv
<1>1. ASSUME SameWork(job', job), \A h \in Stored' : \E g \in Stored : h.id = g.id
      PROVE  Exists(Target)' => Exists(Target)
  BY <1>1, SameWorkSame DEF Exists, Target, Current, SameWork
<1>2. CASE ReadRefused
  <2>1. SameWork(job', job) /\ UNCHANGED <<groups, tokenValid>>
    BY <1>2, RefusedIs DEF ReadRefused, Quiet, firefly, Asks
  <2> QED
    BY <1>1, <1>2, <2>1 DEF ReadRefused, Stored
<1>3. ASSUME job.step = "about", Alike(job', job), tokenValid' => tokenValid,
             \A h \in Stored' : \E g \in Stored : h.id = g.id
      PROVE  job'.renewed \/ ~tokenValid' \/ ~Exists(Target)'
  BY <1>1, <1>3 DEF Alike, AboutInv
<1>4. CASE UserStep
  <2>1. \A h \in Stored' : \E g \in Stored : h.id = g.id
    BY <1>4, UserStored DEF Evolves
  <2> QED
    BY <1>3, <1>4, <2>1, UserIs DEF Alike, SameWork
<1>5. CASE RateLimited \/ Unprocessed \/ AnswerLost
  <2>1. /\ job.step = "about" /\ Alike(job', job)
    BY <1>5, TroubledIs, NoJobIs DEF Failed, Alike
  <2>2. UNCHANGED <<groups, tokenValid>>
    BY <1>5, <2>1 DEF RateLimited, Unprocessed, AnswerLost, firefly
  <2> QED
    BY <1>3, <2>1, <2>2 DEF Stored
<1>6. CASE TokenReplaced
  BY <1>6, ReplacedIs
<1>7. CASE TokenExpires
  BY <1>7 DEF TokenExpires
<1>8. CASE UNCHANGED fireflyVars
  BY <1>3, <1>8 DEF fireflyVars, firefly, Alike, SameWork, Stored
<1>9. CASE \E p \in Bookings, status \in {"authorised", "booked"} : BankReports(p, status)
  BY <1>9 DEF BankReports
<1>10. ASSUME job' = NoJob \/ Failed \/ \E j : TurnedTo(j) PROVE FALSE
  BY <1>10, NoJobIs DEF Failed, TurnedTo
<1>11. CASE RunBegins \/ PageAnswered \/ SearchAnswered
  <2>1. RunBegins => job'.step = "page"
    BY BeginsIs
  <2>2. PageAnswered => job'.step # "about"
    BY <1>10, PagesIs
  <2>3. SearchAnswered => job'.step # "about"
    BY <1>10, SearchIs
  <2> QED
    BY <1>11, <2>1, <2>2, <2>3
<1>12. CASE ReadAnswered \/ WriteAnswered \/ PostAnswered \/ Settle
  BY <1>10, <1>12, ReadIs, WriteIs, MadeIs, SettleIs
<1>13. CASE AboutAnswered \/ WriteRefused \/ PostRefused \/ Unauthenticated
  BY <1>10, <1>13, ContinueFails
  DEF AboutAnswered, WriteRefused, PostRefused, Unauthenticated
<1>14. CASE BatchSettled \/ ImporterCrashes
  BY <1>10, <1>14, ContinueNoJob DEF BatchSettled, ImporterCrashes
<1> QED
  BY <1>2, <1>4, <1>5, <1>6, <1>7, <1>8, <1>9, <1>11, <1>12, <1>13, <1>14
  DEF FireflyNext, RunStep, TroubleStep

\* A transaction is reported as gone only when it is, however Firefly words a
\* token that expired: a token replaced between the two requests is beyond
\* telling (isGone).
THEOREM GoneIsGoneCorrect == FireflySpec => GoneIsGone
<1>1. FireflyInit => WorkInv /\ AboutInv
  BY WorkInit, NoJobIs DEF FireflyInit, AboutInv
<1>2. WorkInv /\ AboutInv /\ [FireflyNext]_fireflyVars => (WorkInv /\ AboutInv)'
  BY WorkStep, AboutStep
<1>3. WorkInv /\ AboutInv /\ [FireflyNext]_fireflyVars =>
        [\A i \in gone' \ gone : ~Exists(i) \/ job.renewed]_fireflyVars
  <2> SUFFICES ASSUME AboutInv, [FireflyNext]_fireflyVars, NEW i \in gone' \ gone
               PROVE  ~Exists(i) \/ job.renewed
    OBVIOUS
  <2>1. CASE AboutAnswered
    <3>1. tokenValid /\ i = Target /\ job.step = "about"
      BY <2>1 DEF AboutAnswered, StillWorks
    <3> QED
      BY <3>1 DEF AboutInv
  <2>2. CASE UNCHANGED gone
    BY <2>2
  <2> QED
    BY <2>1, <2>2
    DEF FireflyNext, RunStep, TroubleStep, BankReports, RunBegins, PageAnswered,
      SearchAnswered, ReadAnswered, ReadRefused, WriteAnswered, WriteRefused,
      PostAnswered, PostRefused, Unauthenticated, Settle, BatchSettled, RateLimited, Unprocessed,
      AnswerLost, ImporterCrashes, TokenExpires, TokenReplaced, Quiet, fireflyVars,
      UserStep, UserSplits, UserTags, UserReconciles, UserDeletes, Change, Edit
<1> QED
  BY <1>1, <1>2, <1>3, PTL DEF FireflySpec, GoneIsGone

-----------------------------------------------------------------------------
(* The user's work is kept.                                                *)

\* The row a run is about to write is as it read it, but for what the user has
\* done since: one split, not reconciled, its tags among those read.
WriteInv ==
    /\ edits \in Nat
    /\ job.step = "write" =>
          \A g \in Stored : g.id = Target =>
             \/ g.of \in edited
             \/ /\ Single(g) /\ ~g.reconciled
                /\ "own" \in g.tags => "own" \in job.base

\* The target of a run that goes on about the same booking.
LEMMA SameTarget ==
  ASSUME SameWork(job', job)
  PROVE  Target' = Target /\ Current' = Current /\ Phase(job') = Phase(job)
  BY SameWorkSame DEF Target, Current, SameWork

\* The edits are counted, by the user's steps alone.
LEMMA EditsKept ==
  ASSUME [FireflyNext]_fireflyVars
  PROVE  UNCHANGED edits \/ (UserStep /\ edits' = edits + 1)
  BY DEF FireflyNext, RunStep, TroubleStep, BankReports, RunBegins, PageAnswered,
      SearchAnswered, ReadAnswered, ReadRefused, AboutAnswered, WriteAnswered, WriteRefused,
      PostAnswered, PostRefused, Unauthenticated, Settle, BatchSettled, RateLimited, Unprocessed,
      AnswerLost, ImporterCrashes, TokenExpires, TokenReplaced, Quiet, editState, fireflyVars,
      UserStep, UserSplits, UserTags, UserReconciles, UserDeletes, Change, Edit

\* A run comes to write by reading, and stays at it while its request is lost.
LEMMA WriteComes ==
  ASSUME WorkInv, [FireflyNext]_fireflyVars, job'.step = "write"
  PROVE  \/ ReadAnswered
         \/ /\ job.step = "write" /\ SameWork(job', job) /\ job'.base = job.base
            /\ job'.stage = job.stage
            /\ \/ UserStep
               \/ AnswerLost
               \/ UNCHANGED <<groups, edited>>
<1> USE DEF WorkInv
<1>1. ASSUME job' = NoJob \/ Failed \/ \E j : TurnedTo(j) PROVE FALSE
  BY <1>1, NoJobIs DEF Failed, TurnedTo
<1>2. CASE UserStep
  BY <1>2, UserIs DEF SameWork
<1>3. CASE RateLimited \/ Unprocessed \/ AnswerLost
  <2>1. Alike(job', job)
    BY <1>1, <1>3, TroubledIs
  <2> QED
    BY <1>3, <2>1 DEF Alike, RateLimited, Unprocessed, firefly, editState
<1>4. CASE TokenReplaced
  BY <1>4, ReplacedIs DEF TokenReplaced, editState
<1>5. CASE TokenExpires \/ UNCHANGED fireflyVars
  BY <1>5 DEF TokenExpires, fireflyVars, firefly, editState, SameWork
<1>6. CASE \E p \in Bookings, status \in {"authorised", "booked"} : BankReports(p, status)
  BY <1>6 DEF BankReports
<1>7. CASE RunBegins \/ PageAnswered \/ SearchAnswered
  <2>1. RunBegins => job'.step = "page"
    BY BeginsIs
  <2>2. PageAnswered => job'.step # "write"
    BY <1>1, PagesIs
  <2>3. SearchAnswered => job'.step # "write"
    BY <1>1, SearchIs
  <2> QED
    BY <1>7, <2>1, <2>2, <2>3
<1>8. CASE ReadRefused \/ WriteAnswered \/ PostAnswered \/ Settle
  BY <1>1, <1>8, RefusedIs, WriteIs, MadeIs, SettleIs DEF Asks
<1>9. CASE AboutAnswered \/ WriteRefused \/ PostRefused \/ Unauthenticated
  BY <1>1, <1>9, ContinueFails DEF AboutAnswered, WriteRefused, PostRefused, Unauthenticated
<1>10. CASE BatchSettled \/ ImporterCrashes
  BY <1>1, <1>10, ContinueNoJob DEF BatchSettled, ImporterCrashes
<1> QED
  BY <1>2, <1>3, <1>4, <1>5, <1>6, <1>7, <1>8, <1>9, <1>10
  DEF FireflyNext, RunStep, TroubleStep

\* What is read is what a write starts from.
LEMMA ReadToWrite ==
  ASSUME WorkInv, ReadAnswered, job'.step = "write"
  PROVE  /\ ~Group(Target).reconciled /\ Single(Group(Target))
         /\ SameWork(job', job) /\ job'.stage = job.stage
         /\ job'.base = Group(Target).tags /\ UNCHANGED groups
         /\ \A g \in Stored : g.id = Target => g = Group(Target)
         /\ Group(Target) \in Stored /\ Group(Target).id = Target /\ Target' = Target
<1>1. ~Failed
  BY NoJobIs DEF Failed
<1>2. /\ ~Group(Target).reconciled /\ ~Untouchable(Group(Target)) /\ SameWork(job', job)
      /\ job'.base = Group(Target).tags /\ job'.stage = job.stage /\ Exists(Target)
  BY <1>1, ReadIs DEF WorkInv
<1>3. Group(Target) \in Stored /\ Group(Target).id = Target
  BY <1>2 DEF Exists, Group
<1>4. \A g \in Stored : g.id = Target => g = Group(Target)
  BY <1>3, StoredIs DEF WorkInv, RowsInv
<1>5. UNCHANGED groups /\ Single(Group(Target))
  BY <1>2 DEF ReadAnswered, firefly, Untouchable, Single
<1> QED
  BY <1>2, <1>3, <1>4, <1>5, SameTarget

\* Every step keeps what a run is about to write as it read it.
LEMMA WriteStep ==
  ASSUME WorkInv, WriteInv, [FireflyNext]_fireflyVars
  PROVE  WriteInv'
<1> USE DEF WorkInv
<1>1. edits' \in Nat
  BY EditsKept DEF WriteInv
<1>2. ASSUME job'.step = "write", NEW h \in Stored', h.id = Target'
      PROVE  \/ h.of \in edited'
             \/ Single(h) /\ ~h.reconciled /\ ("own" \in h.tags => "own" \in job'.base)
  <2>1. CASE ReadAnswered
    BY <1>2, <2>1, ReadToWrite DEF Stored
  <2>2. CASE /\ job.step = "write" /\ SameWork(job', job) /\ job'.base = job.base
             /\ UserStep \/ AnswerLost \/ UNCHANGED <<groups, edited>>
    <3>1. Target' = Target
      BY <2>2, SameTarget
    <3>2. CASE UserStep
      <4>1. PICK g \in Stored : Evolves(g, h) /\ (h = g \/ h.of \in edited')
        BY <1>2, <3>2, UserStored
      <4>2. edited \subseteq edited'
        BY <3>2, UserIs
      <4> QED
        BY <1>2, <2>2, <3>1, <4>1, <4>2 DEF WriteInv, Evolves
    <3>3. CASE UNCHANGED <<groups, edited>>
      BY <1>2, <2>2, <3>1, <3>3 DEF WriteInv, Stored
    <3>4. CASE AnswerLost
      <4>1. Put(Target) /\ UNCHANGED <<nextGroup, edited>>
        BY <2>2, <3>4 DEF AnswerLost, editState
      <4>2. job.base \subseteq Marks
        BY DEF JobInv, Jobs
      <4>3. /\ DOMAIN groups' = DOMAIN groups
            /\ \A i \in DOMAIN groups :
                  /\ groups[i].id = Target =>
                       groups'[i] = Submitted(CurrentPatch, job.base, groups[i])
                  /\ Evolves(groups[i], groups'[i])
        BY <4>1, <4>2, PutIs
      <4>4. PICK i \in DOMAIN groups : h = groups'[i]
        BY <1>2, <4>3 DEF Stored, ToSet
      <4> PICK g : g = groups[i]
        OBVIOUS
      <4>5. g \in Stored /\ g \in Groups /\ g.id = Target
        BY <1>2, <3>1, <4>3, <4>4, StoredIs DEF RowsInv, Evolves
      <4>6. h = Submitted(CurrentPatch, job.base, g)
        BY <4>3, <4>4, <4>5
      <4>7. /\ h.of = g.of /\ h.splits = 1 /\ h.reconciled = g.reconciled
            /\ h.tags = IF "cleared" \in CurrentPatch THEN job.base \ {"pending"} ELSE g.tags
        BY <4>5, <4>6 DEF Submitted, Groups
      <4> QED
        BY <2>2, <4>1, <4>5, <4>7 DEF WriteInv, Single
    <3> QED
      BY <2>2, <3>2, <3>3, <3>4
  <2> QED
    BY <1>2, <2>1, <2>2, WriteComes
<1> QED
  BY <1>1, <1>2 DEF WriteInv

\* A step of ours leaves the user's splits, tags and reconciled rows, unless
\* they made them after we had read the row (Update).
THEOREM UserWorkKeptCorrect == FireflySpec => UserWorkKept
<1>1. FireflyInit => WorkInv /\ WriteInv
  BY WorkInit, NoJobIs DEF FireflyInit, WriteInv
<1>2. WorkInv /\ WriteInv /\ [FireflyNext]_fireflyVars => (WorkInv /\ WriteInv)'
  BY WorkStep, WriteStep
<1>3. ASSUME WorkInv, WriteInv, [FireflyNext]_fireflyVars, edits' = edits, NEW g \in Stored
      PROVE  g.of \in edited \/
                \E h \in Stored' : /\ h.id = g.id /\ h.splits = g.splits
                                   /\ "own" \in g.tags => "own" \in h.tags
                                   /\ g.reconciled => h = g
  <2> USE DEF WorkInv
  <2>1. ~UserStep
    BY <1>3, UserIs DEF WriteInv
  <2>2. CASE UNCHANGED groups
    BY <2>2 DEF Stored
  <2>3. CASE job.step = "write" /\ Put(Target) /\ UNCHANGED nextGroup
    <3>1. job.base \subseteq Marks
      BY <1>3 DEF JobInv, Jobs
    <3>2. /\ DOMAIN groups' = DOMAIN groups
          /\ \A i \in DOMAIN groups :
                /\ groups[i].id # Target => groups'[i] = groups[i]
                /\ groups[i].id = Target =>
                     groups'[i] = Submitted(CurrentPatch, job.base, groups[i])
      BY <1>3, <2>3, <3>1, PutIs
    <3>3. PICK i \in DOMAIN groups : g = groups[i]
      BY <1>3, StoredIs
    <3>4. PICK h : h = groups'[i]
      OBVIOUS
    <3>5. h \in Stored' /\ g \in Groups
      BY <1>3, <3>2, <3>3, <3>4 DEF Stored, ToSet, RowsInv
    <3>6. CASE g.id # Target
      BY <3>2, <3>3, <3>4, <3>5, <3>6
    <3>7. CASE g.id = Target
      <4>1. h = Submitted(CurrentPatch, job.base, g)
        BY <3>2, <3>3, <3>4, <3>7
      <4>2. /\ h.id = g.id /\ h.splits = 1
            /\ h.tags = IF "cleared" \in CurrentPatch THEN job.base \ {"pending"} ELSE g.tags
        BY <3>5, <4>1 DEF Submitted, Groups
      <4> QED
        BY <1>3, <2>3, <3>5, <3>7, <4>2 DEF WriteInv, Single
    <3> QED
      BY <3>6, <3>7
  <2>4. CASE job.step = "post" /\ Post(Current)
    <3>1. Current \in Bookings /\ feed[Current] # "none"
      BY <1>3, <2>4, PostingIs DEF FeedInv
    <3>2. Stored \subseteq Stored'
      BY <1>3, <2>4, <3>1, PostIs
    <3> QED
      BY <3>2
  <2> QED
    BY <1>3, <2>1, <2>2, <2>3, <2>4
    DEF FireflyNext, RunStep, TroubleStep, BankReports, RunBegins, PageAnswered,
      SearchAnswered, ReadAnswered, ReadRefused, AboutAnswered, WriteAnswered, WriteRefused,
      PostAnswered, PostRefused, Unauthenticated, Settle, BatchSettled, RateLimited, Unprocessed,
      AnswerLost, ImporterCrashes, TokenExpires, TokenReplaced, Quiet, firefly, fireflyVars
<1>4. WorkInv /\ WriteInv /\ [FireflyNext]_fireflyVars =>
        [edits' = edits =>
           \A g \in Stored : g.of \in edited \/
              \E h \in Stored' : /\ h.id = g.id /\ h.splits = g.splits
                                 /\ "own" \in g.tags => "own" \in h.tags
                                 /\ g.reconciled => h = g]_fireflyVars
  BY <1>3
<1> QED
  BY <1>1, <1>2, <1>4, PTL DEF FireflySpec, UserWorkKept


-----------------------------------------------------------------------------
(* Type correctness.                                                       *)

\* What of the state a run does not hold.
AroundInv ==
    /\ tokenValid \in BOOLEAN /\ shifted \in BOOLEAN
    /\ placed \subseteq Bookings /\ edited \subseteq Bookings /\ gone \subseteq Ids

\* What counts as edited is of bookings.
LEMMA EditedTyped ==
  ASSUME WorkInv, AroundInv, [FireflyNext]_fireflyVars
  PROVE  edited' \subseteq Bookings /\ shifted' \in BOOLEAN
<1> USE DEF WorkInv
<1>1. CASE UserStep
  <2>1. PICK n \in DOMAIN groups :
           UserSplits(n) \/ UserTags(n) \/ UserReconciles(n) \/ UserDeletes(n)
    BY <1>1 DEF UserStep
  <2>2. groups[n] \in Groups /\ groups[n].of \in Bookings
    <3>1. groups[n] \in Groups
      BY <2>1 DEF RowsInv
    <3> QED
      BY <3>1 DEF Groups
  <2>3. /\ edited' = edited \cup {groups[n].of}
        /\ shifted' \in {shifted, shifted \/ (job.step = "page" /\ job.page > 1)}
    BY <2>1, <2>2
    DEF UserSplits, UserTags, UserReconciles, UserDeletes, Change, Edit, Groups
  <2> QED
    BY <2>2, <2>3 DEF AroundInv
<1>2. CASE ~UserStep
  BY <1>2
  DEF AroundInv, FireflyNext, RunStep, TroubleStep, BankReports, RunBegins, PageAnswered,
      SearchAnswered, ReadAnswered, ReadRefused, AboutAnswered, WriteAnswered, WriteRefused,
      PostAnswered, PostRefused, Unauthenticated, Settle, BatchSettled, RateLimited, Unprocessed,
      AnswerLost, ImporterCrashes, TokenExpires, TokenReplaced, Quiet, editState, fireflyVars
<1> QED
  BY <1>1, <1>2

\* Fewer numbers are among more.
LEMMA Widens ==
  ASSUME NEW a \in Nat \ {0}, NEW b \in Nat \ {0}, a <= b
  PROVE  1..(a - 1) \subseteq 1..(b - 1)
  OBVIOUS

\* Every step keeps these types.
LEMMA AroundStep ==
  ASSUME WorkInv, AroundInv, [FireflyNext]_fireflyVars
  PROVE  AroundInv'
<1> USE DEF WorkInv
<1>1. tokenValid' \in BOOLEAN
  BY DEF AroundInv, FireflyNext, RunStep, TroubleStep, BankReports, RunBegins, PageAnswered,
      SearchAnswered, ReadAnswered, ReadRefused, AboutAnswered, WriteAnswered, WriteRefused,
      PostAnswered, PostRefused, Unauthenticated, Settle, BatchSettled, RateLimited, Unprocessed,
      AnswerLost, ImporterCrashes, TokenExpires, TokenReplaced, Quiet, firefly, fireflyVars,
      UserStep, UserSplits, UserTags, UserReconciles, UserDeletes, Change, Edit
<1>2. placed' \subseteq Bookings
  <2>1. CASE Settle \/ BatchSettled
    <3>1. Settle => Current \in Bookings
      BY AtWorkIs DEF Settle
    <3> QED
      BY <2>1, <3>1 DEF AroundInv, Settle, BatchSettled, Record
  <2>2. CASE UNCHANGED placed
    BY <2>2 DEF AroundInv
  <2> QED
    BY <2>1, <2>2
    DEF FireflyNext, RunStep, TroubleStep, BankReports, RunBegins, PageAnswered,
      SearchAnswered, ReadAnswered, ReadRefused, AboutAnswered, WriteAnswered, WriteRefused,
      PostAnswered, PostRefused, Unauthenticated, RateLimited, Unprocessed, bankState,
      AnswerLost, ImporterCrashes, TokenExpires, TokenReplaced, Quiet, fireflyVars,
      UserStep, UserSplits, UserTags, UserReconciles, UserDeletes, Change, Edit
<1>3. Ids \subseteq Ids'
  <2>1. nextGroup \in Nat \ {0} /\ nextGroup' \in Nat \ {0} /\ nextGroup <= nextGroup'
    BY EveryRow DEF RowMoves, RowsInv
  <2> QED
    BY <2>1, Widens DEF Ids
<1>4. gone' \subseteq Ids'
  <2>1. CASE AboutAnswered
    <3>1. job.step = "about" /\ gone' \subseteq gone \cup {Target}
      BY <2>1 DEF AboutAnswered
    <3>2. /\ Current \in Bookings /\ job.copy[Current] # NoGroup
          /\ job.copy[Current] \in Groups
      BY <3>1, AtWorkIs
    <3>3. Target \in Nat \ {0} /\ Target < nextGroup /\ nextGroup \in Nat
      BY <3>2 DEF CopiesTrack, Tracks, Target, Groups, RowsInv
    <3>4. Target \in Ids
      BY <3>3 DEF Ids
    <3> QED
      BY <1>3, <3>1, <3>4 DEF AroundInv
  <2>2. CASE UNCHANGED gone
    BY <1>3, <2>2 DEF AroundInv
  <2> QED
    BY <2>1, <2>2
    DEF FireflyNext, RunStep, TroubleStep, BankReports, RunBegins, PageAnswered,
      SearchAnswered, ReadAnswered, ReadRefused, WriteAnswered, WriteRefused,
      PostAnswered, PostRefused, Unauthenticated, Settle, BatchSettled, RateLimited, Unprocessed,
      AnswerLost, ImporterCrashes, TokenExpires, TokenReplaced, Quiet, fireflyVars,
      UserStep, UserSplits, UserTags, UserReconciles, UserDeletes, Change, Edit
<1> QED
  BY <1>1, <1>2, <1>4, EditedTyped DEF AroundInv

\* The values of the model's variables.
LEMMA WorkTyped ==
  ASSUME WorkInv, AroundInv
  PROVE  FireflyTypeOK
<1> USE DEF WorkInv
<1>1. nextGroup \in Nat \ {0} /\ \A g \in Stored : g \in Groups /\ g.id < nextGroup
  BY StoredIs DEF RowsInv
<1>2. ASSUME NEW g \in Stored
      PROVE  /\ g.id \in Ids /\ g.of \in Bookings /\ g.splits \in 1..2
             /\ g.amount \in {"authorised", "booked"} /\ g.tags \subseteq {"pending", "own"}
             /\ {g.ref, g.reconciled} \subseteq BOOLEAN
  <2>1. g \in Groups /\ g.id < nextGroup
    BY <1>1
  <2>2. g.id \in Ids
    BY <1>1, <2>1 DEF Groups, Ids
  <2> QED
    BY <2>1, <2>2 DEF Groups, Marks
<1>3. \A i, j \in DOMAIN groups : groups[i].id = groups[j].id => i = j
  BY DEF RowsInv
<1>4. entry \in [Bookings -> Ids \cup {0}]
  <2>1. entry \in [Bookings -> Nat] /\ \A p \in Bookings : entry[p] < nextGroup
    BY DEF EntryInv
  <2>2. \A n \in Nat : n < nextGroup => n \in Ids \cup {0}
    BY <1>1 DEF Ids
  <2> QED
    BY <2>1, <2>2
<1>5. /\ job.step \in Tasks /\ job.stage \in StageNames /\ job.attempt \in 0..MaxRateRetry
      /\ job.direct \cup job.placing \subseteq Bookings
      /\ job.lookup \cup job.listing \subseteq job.placing
  BY DEF JobInv, Jobs, Orderly
<1>6. job.stage \in {"", "amount", "enrich", "confirm", "adopt", "done"}
  BY <1>5, Zenon DEF StageNames
<1>7. job.step \in {"off", "page", "search", "read", "about", "write", "post", "settle",
                    "book"}
  BY <1>5 DEF Tasks
<1>8. feed \in [Bookings -> {"none", "authorised", "booked"}]
  BY DEF FeedInv
<1> QED
  BY <1>2, <1>3, <1>4, <1>5, <1>6, <1>7, <1>8, Zenon DEF FireflyTypeOK, AroundInv

\* The model is well typed.
THEOREM FireflyTypeCorrect == FireflySpec => []FireflyTypeOK
<1>1. FireflyInit => WorkInv /\ AroundInv
  BY WorkInit DEF FireflyInit, AroundInv
<1>2. WorkInv /\ AroundInv /\ [FireflyNext]_fireflyVars => (WorkInv /\ AroundInv)'
  BY WorkStep, AroundStep
<1>3. WorkInv /\ AroundInv => FireflyTypeOK
  BY WorkTyped
<1> QED
  BY <1>1, <1>2, <1>3, PTL DEF FireflySpec

-----------------------------------------------------------------------------
(* What is recorded as imported is so.                                     *)

\* A row that says what the bank reports of its booking, or is the user's by
\* now: the amount alone, and the amount and the pending marker.
Corrected(t, p) == t.reconciled \/ t.amount = feed[p]
Reported(t, p) ==
    t.reconciled \/ (t.amount = feed[p] /\ (IsBooked(p) => "pending" \notin t.tags))
Kept(p) == p \in edited \/ \E g \in GroupsOf(p) : Reported(g, p)

Writes == {"amount", "enrich", "confirm", "adopt"}

\* What a run has still to write of a booking, and what it has written.
StageInv ==
    /\ job.step \in {"read", "about", "write"} => job.stage \in Writes
    /\ job.step \in {"read", "about", "write"} /\ job.stage \in {"enrich", "confirm"} =>
          \A g \in Stored : g.id = Target => Corrected(g, Current)
    /\ job.step = "settle" => Kept(Current)
\* The bookings of a batch that are settled are no more worked on.
OutInv ==
    \A p \in Bookings : job.out[p] # 0 => p \notin job.direct \cup job.placing /\ Kept(p)

\* What a row says stays true of the rows that come of it.
LEMMA EvolvesReported ==
  ASSUME NEW g, NEW h, NEW p, Evolves(g, h), g.of = p
  PROVE  /\ Corrected(g, p) => Corrected(h, p)
         /\ Reported(g, p) => Reported(h, p)
  BY DEF Evolves, Corrected, Reported

\* A stage that is the first of a booking's leaves to write what the row that
\* was read does not say.
LEMMA OpeningMeans ==
  ASSUME NEW t, NEW p, NEW phase, NEW st, st = StageFrom(phase, 1, t, p)
  PROVE  /\ st = "done" => Reported(t, p)
         /\ st = "enrich" => Corrected(t, p)
         /\ st # "confirm" /\ (st = "done" \/ st \in Writes)
<1>1. AmountPatch(t, p) = {} => Corrected(t, p)
  BY DEF AmountPatch, Corrected
<1>2. MergePatch(t, p) = {} => t.reconciled \/ ~IsBooked(p) \/ "pending" \notin t.tags
  <2>1. ASSUME ~t.reconciled, IsBooked(p), "pending" \in t.tags
        PROVE  "cleared" \in MergePatch(t, p)
    BY <2>1 DEF MergePatch
  <2> QED
    BY <2>1
<1>3. AmountPatch(t, p) = {} /\ MergePatch(t, p) = {} => Reported(t, p)
  BY <1>1, <1>2 DEF Corrected, Reported
<1>4. CASE phase = "direct"
  BY <1>1, <1>3, <1>4, StageFromIs DEF Writes
<1>5. CASE phase # "direct"
  <2>1. st = IF AmountPatch(t, p) \cup MergePatch(t, p) # {} THEN "adopt" ELSE "done"
    BY <1>5, StageFromIs
  <2> QED
    BY <1>3, <2>1 DEF Writes
<1> QED
  BY <1>4, <1>5

\* A write that is the last of a booking's leaves the row as reported, and that
\* of the amount corrects it.
LEMMA WrittenMeans ==
  ASSUME NEW t, NEW p, NEW g, g \in Groups, Evolves(t, g), t.of = p, NEW base,
         NEW stage \in Writes,
         stage \in {"enrich", "confirm"} => Corrected(g, p),
         NEW h, h = Submitted(Patch(stage, t, p), base, g)
  PROVE  /\ h.id = g.id /\ h.of = p
         /\ AfterStage(stage, t, p) = "done" => Reported(h, p)
         /\ AfterStage(stage, t, p) = "enrich" => Corrected(h, p)
         /\ AfterStage(stage, t, p) # "confirm"
<1> DEFINE patch == Patch(stage, t, p)
<1>1. h = Submitted(patch, base, g) /\ g.of = p
  BY DEF Evolves
<1> HIDE DEF patch
<1> DEFINE a == IF "amount" \in patch THEN feed[g.of] ELSE g.amount
           tt == IF "cleared" \in patch THEN base \ {"pending"} ELSE g.tags
           r == g.ref \/ "ref" \in patch
<1>12. h = [g EXCEPT !.splits = 1, !.ref = r, !.amount = a, !.tags = tt]
  BY <1>1 DEF Submitted
<1>13. /\ "amount" \in patch => a = feed[p]
       /\ "amount" \notin patch => a = g.amount
       /\ "cleared" \in patch => "pending" \notin tt
       /\ "cleared" \notin patch => tt = g.tags
  BY <1>1
<1> HIDE DEF a, tt, r
<1>2. /\ h.id = g.id /\ h.of = p /\ h.reconciled = g.reconciled
      /\ "amount" \in patch => h.amount = feed[p]
      /\ "amount" \notin patch => h.amount = g.amount
      /\ "cleared" \in patch => "pending" \notin h.tags
      /\ "cleared" \notin patch => h.tags = g.tags
  BY <1>1, <1>12, <1>13 DEF Groups
<1>3. "amount" \notin AmountPatch(t, p) => Corrected(g, p)
  BY DEF AmountPatch, Corrected, Evolves
<1>4. "cleared" \notin MergePatch(t, p) =>
         g.reconciled \/ ~IsBooked(p) \/ "pending" \notin g.tags
  <2>1. ASSUME ~t.reconciled, IsBooked(p), "pending" \in t.tags
        PROVE  "cleared" \in MergePatch(t, p)
    BY <2>1 DEF MergePatch
  <2> QED
    BY <2>1 DEF Evolves
<1>5. "amount" \notin MergePatch(t, p) /\ "cleared" \notin AmountPatch(t, p)
  BY DEF MergePatch, AmountPatch
<1>6. /\ AfterStage(stage, t, p) \in {"done", "enrich"}
      /\ stage = "amount" /\ AfterStage(stage, t, p) = "done" => MergePatch(t, p) = {}
  BY AfterStageIs
<1>7. CASE stage = "amount"
  <2>1. patch = AmountPatch(t, p)
    BY <1>7 DEF Patch, patch
  <2> QED
    BY <1>2, <1>3, <1>4, <1>5, <1>6, <1>7, <2>1 DEF Corrected, Reported
<1>8. CASE stage = "enrich"
  <2>1. patch = MergePatch(t, p)
    BY <1>8 DEF Patch, patch
  <2>2. AfterStage(stage, t, p) = "done"
    BY <1>8, AfterStageIs
  <2> QED
    BY <1>2, <1>4, <1>5, <1>8, <2>1, <2>2 DEF Corrected, Reported
<1>9. CASE stage = "confirm"
  <2>1. patch = {"cleared"}
    BY <1>9 DEF Patch, patch
  <2>2. AfterStage(stage, t, p) = "done"
    BY <1>9, AfterStageIs
  <2> QED
    BY <1>2, <1>9, <2>1, <2>2 DEF Corrected, Reported
<1>10. CASE stage = "adopt"
  <2>1. patch = AmountPatch(t, p) \cup MergePatch(t, p)
    BY <1>10 DEF Patch, patch
  <2>2. AfterStage(stage, t, p) = "done"
    BY <1>10, AfterStageIs
  <2> QED
    BY <1>2, <1>3, <1>4, <1>5, <2>1, <2>2 DEF Corrected, Reported
<1> QED
  BY <1>2, <1>7, <1>8, <1>9, <1>10 DEF Writes

\* A row there was before came of one.
LEMMA RowCame ==
  ASSUME WorkInv, [FireflyNext]_fireflyVars, NEW h \in Stored', h.id < nextGroup
  PROVE  \E g \in Stored : Evolves(g, h)
<1>1. h.id # nextGroup
  BY DEF WorkInv, RowsInv
<1> QED
  BY <1>1, EveryRow DEF WorkInv, RowMoves

\* The row a run at work is about.
LEMMA TargetKnown ==
  ASSUME WorkInv, job.step \in {"read", "about", "write", "settle"}
  PROVE  /\ Current \in Bookings /\ Target < nextGroup
         /\ job.copy[Current] \in Groups /\ job.copy[Current].of = Current
         /\ Current \in job.direct \cup job.placing
         /\ \A g \in Stored : g.id = Target => Evolves(job.copy[Current], g) /\ g.of = Current
  BY AtWorkIs DEF WorkInv, CopiesTrack, Tracks, Target, Evolves

\* A row that is as reported stays so, unless it is the user's.
LEMMA KeptStays ==
  ASSUME WorkInv, [FireflyNext]_fireflyVars, UNCHANGED feed, NEW p \in Bookings, Kept(p),
         ~(RunBegins /\ job.step = "off"), ~(ReadAnswered /\ p = Current)
  PROVE  Kept(p)'
<1>1. CASE p \in edited
  BY <1>1, EditedKept DEF WorkInv, Kept
<1>2. CASE \E g \in GroupsOf(p) : Reported(g, p)
  <2>1. PICK g \in Stored : g.of = p /\ Reported(g, p)
    BY <1>2 DEF GroupsOf
  <2>2. Tracks(g) /\ g \in Groups
    BY <2>1, StoredTracks DEF WorkInv
  <2>3. Tracks(g)'
    BY <2>1, <2>2, TracksKept DEF WorkInv
  <2>4. CASE p \in edited'
    BY <2>4 DEF Kept
  <2>5. CASE \E h \in Stored' : h.id = g.id
    <3>1. PICK h \in Stored' : h.id = g.id
      BY <2>5
    <3>2. Evolves(g, h)
      BY <2>3, <3>1 DEF Tracks, Evolves
    <3>3. Reported(h, p) /\ h.of = p
      BY <2>1, <3>2, EvolvesReported DEF Evolves
    <3>4. h \in GroupsOf(p)'
      BY <3>1, <3>3 DEF GroupsOf
    <3>5. Reported(h, p)'
      BY <3>3 DEF Reported, IsBooked
    <3> QED
      BY <3>4, <3>5 DEF Kept
  <2> QED
    BY <2>1, <2>3, <2>4, <2>5 DEF Tracks
<1> QED
  BY <1>1, <1>2 DEF Kept

\* How a run comes to be about a row: it stays at its request, opens a booking,
\* confirms what it could not enrich, or has read, written or made the row.
Stays ==
    /\ SameWork(job', job) /\ job'.stage = job.stage
    /\ job.step \in {"read", "about", "write", "settle"}
    /\ job'.step = "settle" <=> job.step = "settle"
Opens ==
    /\ AtWork(job') /\ job'.stage = Opening(job')
    /\ job'.step = "settle" <=> Opening(job') = "done"
Confirms ==
    /\ SameWork(job', job) /\ job.stage = "enrich" /\ job.step \in {"read", "about", "write"}
    /\ job'.step = "read" /\ job'.stage = "confirm"
GoesOn ==
    /\ SameWork(job', job) /\ job.step \in {"read", "write"}
    /\ job'.stage = AfterStage(job.stage, job.copy[Current], Current)
    /\ job'.step = IF job'.stage = "done" THEN "settle" ELSE "read"

\* Turning to a booking opens it.
LEMMA TurnsOpen ==
  ASSUME JobInv', NEW j, TurnedTo(j), job'.step \in {"read", "about", "write", "settle"}
  PROVE  Opens
<1>1. Opening(j) = Opening(job')
  BY SameWorkSame DEF TurnedTo, Opening, SameWork
<1>2. AtWork(job')
  BY DEF JobInv, InPhase
<1> QED
  BY <1>1, <1>2 DEF TurnedTo, Opens

\* A failure in the loop goes on to confirm or opens another booking.
LEMMA FailureComes ==
  ASSUME JobInv, JobInv', Failed, job'.step \in {"read", "about", "write", "settle"},
         job.step \in Asking
  PROVE  Opens \/ Confirms
<1>1. job' # NoJob
  BY NoJobIs
<1>2. AtWork(job')
  BY DEF JobInv, InPhase
<1>3. Phase(job) = "direct" => job.step \in {"read", "about", "write"}
  BY DEF JobInv, InPhase, Asking
<1> QED
  BY <1>1, <1>2, <1>3 DEF Failed, Opens, Confirms

\* Every way of a run to be about a row.
LEMMA WorkComes ==
  ASSUME WorkInv, [FireflyNext]_fireflyVars,
         job'.step \in {"read", "about", "write", "settle"}
  PROVE  \/ Stays \/ Opens \/ Confirms
         \/ ReadAnswered /\ GoesOn /\ Group(Target).reconciled
         \/ WriteAnswered /\ GoesOn
         \/ PostAnswered
<1> USE DEF WorkInv
<1>1. JobInv' /\ job' # NoJob
  BY EveryMove, NoJobIs DEF JobMoves
<1>2. CASE SameWork(job', job) /\ job'.step = job.step /\ job'.stage = job.stage
  BY <1>2 DEF Stays
<1>3. CASE UNCHANGED job
  BY <1>2, <1>3 DEF SameWork
<1>4. ASSUME job.step \in Asking, Failed PROVE Opens \/ Confirms
  BY <1>1, <1>4, FailureComes
<1>5. CASE UserStep
  BY <1>3, <1>5, UserIs
<1>6. CASE RateLimited \/ Unprocessed \/ AnswerLost
  <2>1. job.step \in Asking /\ (Alike(job', job) \/ Failed)
    BY <1>6, TroubledIs
  <2> QED
    BY <1>2, <1>4, <2>1 DEF Alike
<1>7. CASE TokenReplaced
  BY <1>2, <1>7, ReplacedIs
<1>8. CASE TokenExpires \/ UNCHANGED fireflyVars
  BY <1>3, <1>8 DEF TokenExpires, fireflyVars
<1>9. CASE \E p \in Bookings, status \in {"authorised", "booked"} : BankReports(p, status)
  BY <1>3, <1>9 DEF BankReports
<1>10. CASE RunBegins
  BY <1>10, BeginsIs
<1>11. CASE PageAnswered
  BY <1>1, <1>11, PagesIs, TurnsOpen
<1>12. CASE SearchAnswered
  <2>1. CASE TurnedTo(NotFound)
    BY <1>1, <2>1, TurnsOpen
  <2>2. ASSUME NEW hit \in Stored, SameWork(job', Found(hit)), AtWork(job'),
               job'.stage = StageFrom("find", 1, hit, Current),
               job'.step = (IF job'.stage = "done" THEN "settle" ELSE "read"),
               Phase(Found(hit)) = "find", CurrentOf(Found(hit)) = Current,
               Current \in Bookings,
               \A p \in Bookings : Found(hit).copy[p] = IF p = Current THEN hit
                                                        ELSE job.copy[p]
        PROVE  Opens
    <3>1. Phase(job') = "find" /\ CurrentOf(job') = Current
      BY <2>2, SameWorkSame
    <3>2. job'.copy[Current] = hit
      BY <2>2 DEF SameWork
    <3>3. job'.stage = Opening(job')
      BY <2>2, <3>1, <3>2 DEF Opening
    <3> QED
      BY <2>2, <3>3 DEF Opens
  <2>3. Current \in Bookings
    <3>1. Phase(job) = "find" /\ job \in Jobs
      BY <1>12, SearchIs DEF JobInv
    <3> QED
      BY <3>1, CurrentIs DEF Current
  <2> QED
    BY <1>12, <2>1, <2>2, <2>3, SearchIs
<1>13. CASE ReadAnswered
  <2>1. job.step = "read" /\ job.step \in Asking
    BY <1>13 DEF ReadAnswered, Asking
  <2>2. CASE Failed
    BY <1>4, <2>1, <2>2
  <2>3. CASE /\ Group(Target).reconciled /\ SameWork(job', job)
             /\ job'.stage = AfterStage(job.stage, job.copy[Current], Current)
             /\ job'.step = IF job'.stage = "done" THEN "settle" ELSE "read"
    BY <1>13, <2>1, <2>3 DEF GoesOn
  <2>4. CASE SameWork(job', job) /\ job'.stage = job.stage /\ job'.step = "write"
    BY <2>1, <2>4 DEF Stays
  <2> QED
    BY <1>13, <2>2, <2>3, <2>4, ReadIs
<1>14. CASE ReadRefused
  BY <1>14, RefusedIs DEF Asks, Stays
<1>15. CASE WriteAnswered
  BY <1>15, WriteIs DEF GoesOn
<1>16. CASE Settle
  BY <1>1, <1>16, SettleIs, TurnsOpen
<1>17. CASE AboutAnswered \/ WriteRefused \/ PostRefused \/ Unauthenticated
  <2>1. job.step \in Asking /\ job.step # "off" /\ Continue(Fails)
    BY <1>17 DEF AboutAnswered, WriteRefused, PostRefused, Unauthenticated, Asking
  <2> QED
    BY <1>4, <2>1, ContinueFails
<1>18. CASE BatchSettled \/ ImporterCrashes
  BY <1>1, <1>18, ContinueNoJob DEF BatchSettled, ImporterCrashes
<1> QED
  BY <1>5, <1>6, <1>7, <1>8, <1>9, <1>10, <1>11, <1>12, <1>13, <1>14, <1>15, <1>16, <1>17, <1>18
  DEF FireflyNext, RunStep, TroubleStep

\* A copy the run holds, of a booking it opens.
LEMMA CopyMeans ==
  ASSUME WorkInv, [FireflyNext]_fireflyVars, UNCHANGED feed, NEW p \in Bookings,
         job'.copy[p] # NoGroup
  PROVE  /\ Reported(job'.copy[p], p) => Kept(p)'
         /\ \A h \in Stored' : h.id = job'.copy[p].id /\ Corrected(job'.copy[p], p) =>
               Corrected(h, p)
<1>1. PICK t : t = job'.copy[p]
  OBVIOUS
<1>2. t.of = p /\ Tracks(t)'
  BY <1>1, WorkStep DEF WorkInv, CopiesTrack, Tracks
<1>3. \A h \in Stored' : h.id = t.id => Evolves(t, h)
  BY <1>2 DEF Tracks, Evolves
<1>4. ASSUME Reported(t, p) PROVE Kept(p)'
  <2>1. CASE p \in edited'
    BY <2>1 DEF Kept
  <2>2. CASE \E h \in Stored' : h.id = t.id
    <3>1. PICK h \in Stored' : h.id = t.id
      BY <2>2
    <3>2. Reported(h, p) /\ h.of = p
      BY <1>2, <1>3, <1>4, <3>1, EvolvesReported DEF Evolves
    <3>3. h \in GroupsOf(p)' /\ Reported(h, p)'
      BY <3>1, <3>2 DEF GroupsOf, Reported, IsBooked
    <3> QED
      BY <3>3 DEF Kept
  <2> QED
    BY <1>2, <2>1, <2>2 DEF Tracks
<1>5. \A h \in Stored' : h.id = t.id /\ Corrected(t, p) => Corrected(h, p)
  BY <1>2, <1>3, EvolvesReported
<1> QED
  BY <1>1, <1>4, <1>5

\* Every step keeps what a run has written of a booking.
LEMMA StageStep ==
  ASSUME WorkInv, StageInv, [FireflyNext]_fireflyVars, UNCHANGED feed
  PROVE  StageInv'
<1> PICK p : p = CurrentOf(job')
  OBVIOUS
<1>1. Current' = p /\ Target' = job'.copy[p].id
  BY DEF Current, Target
<1>2. SUFFICES ASSUME job'.step \in {"read", "about", "write", "settle"}
               PROVE  /\ job'.step # "settle" => job'.stage \in Writes
                      /\ job'.step # "settle" /\ job'.stage \in {"enrich", "confirm"} =>
                           \A h \in Stored' : h.id = Target' => Corrected(h, p)
                      /\ job'.step = "settle" => Kept(p)'
  <2>1. \A h : Corrected(h, p) = Corrected(h, p)'
    BY DEF Corrected
  <2> QED
    BY <1>1, <2>1 DEF StageInv, Kept, GroupsOf, Reported, IsBooked
<1>3. ASSUME SameWork(job', job), job.step \in {"read", "about", "write", "settle"}
      PROVE  p = Current /\ Target' = Target
  BY <1>3, SameTarget DEF Current
<1>4. ASSUME NEW h \in Stored', SameWork(job', job), h.id = Target',
             job.step \in {"read", "about", "write"}, job.stage \in {"enrich", "confirm"}
      PROVE  Corrected(h, Current)
  <2>1. h.id < nextGroup
    BY <1>3, <1>4, TargetKnown
  <2>2. PICK g \in Stored : Evolves(g, h)
    BY <2>1, RowCame
  <2>3. g.id = Target
    BY <1>3, <1>4, <2>2 DEF Evolves
  <2>4. Corrected(g, Current) /\ g.of = Current
    BY <1>4, <2>3, TargetKnown DEF StageInv
  <2> QED
    BY <2>2, <2>4, EvolvesReported
<1>5. CASE Stays
  <2>1. p = Current
    BY <1>3, <1>5 DEF Stays
  <2>2. ASSUME job.step = "settle" PROVE Kept(p)'
    <3>1. Kept(p) /\ p \in Bookings
      BY <2>1, <2>2, TargetKnown DEF StageInv
    <3>2. ~RunBegins /\ ~ReadAnswered
      BY <2>2 DEF RunBegins, ReadAnswered
    <3> QED
      BY <3>1, <3>2, KeptStays
  <2> QED
    BY <1>2, <1>4, <1>5, <2>1, <2>2 DEF Stays, StageInv
<1>6. CASE Opens
  <2>1. JobInv'
    BY EveryMove DEF WorkInv, JobMoves
  <2>2. p \in Bookings /\ job'.copy[p] # NoGroup
    <3>1. job' \in Jobs
      BY <2>1 DEF JobInv
    <3> QED
      BY <1>6, <3>1, CurrentIs DEF Opens, AtWork
  <2> DEFINE t == job'.copy[p]
  <2>3. job'.stage = StageFrom(Phase(job'), 1, t, p)
    BY <1>6 DEF Opens, Opening
  <2>4. /\ job'.stage = "done" => Reported(t, p)
        /\ job'.stage = "enrich" => Corrected(t, p)
        /\ job'.stage # "confirm" /\ (job'.stage = "done" \/ job'.stage \in Writes)
    BY <2>3, OpeningMeans
  <2>5. /\ Reported(t, p) => Kept(p)'
        /\ \A h \in Stored' : h.id = t.id /\ Corrected(t, p) => Corrected(h, p)
    BY <2>2, CopyMeans
  <2>6. job'.step = "settle" <=> job'.stage = "done"
    BY <1>6 DEF Opens
  <2>7. Target' = t.id
    BY <1>1
  <2> HIDE DEF t
  <2> QED
    BY <2>4, <2>5, <2>6, <2>7
<1>7. CASE Confirms
  BY <1>3, <1>4, <1>7 DEF Confirms, Writes
<1>8. CASE ReadAnswered /\ GoesOn /\ Group(Target).reconciled
  <2>1. p = Current /\ Target' = Target /\ job.step = "read"
    BY <1>3, <1>8 DEF GoesOn, ReadAnswered
  <2>2. UNCHANGED groups /\ Exists(Target)
    BY <1>8 DEF ReadAnswered, firefly
  <2> DEFINE g == Group(Target)
  <2>3. g \in Stored /\ g.id = Target
    BY <2>2 DEF Exists, Group
  <2>4. g.of = Current /\ g.reconciled
    BY <1>8, <2>1, <2>3, TargetKnown
  <2>5. \A h \in Stored : h.id = Target => h = g
    BY <2>3, StoredIs DEF WorkInv, RowsInv
  <2>6. Stored' = Stored
    BY <2>2 DEF Stored
  <2> HIDE DEF g
  <2>7. Kept(p)'
    BY <2>1, <2>3, <2>4, <2>6 DEF Kept, GroupsOf, Reported
  <2>8. \A h \in Stored' : h.id = Target' => Corrected(h, p)
    BY <2>1, <2>4, <2>5, <2>6 DEF Corrected
  <2>9. job'.stage \in {"done", "enrich"}
    BY <1>8, AfterStageIs DEF GoesOn
  <2> QED
    BY <1>8, <2>7, <2>8, <2>9 DEF GoesOn, Writes
<1>9. CASE WriteAnswered /\ GoesOn
  <2>1. p = Current /\ Target' = Target /\ job.step = "write"
    BY <1>3, <1>9 DEF GoesOn, WriteAnswered
  <2>2. Put(Target) /\ (\E g \in Stored : g.id = Target) /\ job.base \subseteq Marks
        /\ UNCHANGED nextGroup
    BY <1>9, WriteIs DEF WorkInv, JobInv, Jobs
  <2>3. PICK t : t = job.copy[Current]
    OBVIOUS
  <2>4. /\ t \in Groups /\ t.of = p /\ job.stage \in Writes /\ p \in Bookings
        /\ \A g \in Stored : g.id = Target => Evolves(t, g)
        /\ job.stage \in {"enrich", "confirm"} =>
             \A g \in Stored : g.id = Target => Corrected(g, p)
    BY <2>1, <2>3, TargetKnown DEF StageInv
  <2>5. /\ DOMAIN groups' = DOMAIN groups
        /\ \A i \in DOMAIN groups :
              /\ groups[i].id = Target =>
                   groups'[i] = Submitted(Patch(job.stage, t, p), job.base, groups[i])
              /\ Evolves(groups[i], groups'[i])
    BY <2>1, <2>2, <2>3, PutIs DEF WorkInv, CurrentPatch
  <2>6. ASSUME NEW i \in DOMAIN groups, groups[i].id = Target, NEW h, h = groups'[i]
        PROVE  /\ h.of = p /\ h.id = Target
               /\ AfterStage(job.stage, t, p) = "done" => Reported(h, p)
               /\ AfterStage(job.stage, t, p) = "enrich" => Corrected(h, p)
    <3>1. PICK g : g = groups[i]
      OBVIOUS
    <3>2. g \in Groups /\ Evolves(t, g) /\ (job.stage \in {"enrich", "confirm"} => Corrected(g, p))
      BY <2>4, <2>6, <3>1, StoredIs DEF WorkInv, RowsInv
    <3>3. h = Submitted(Patch(job.stage, t, p), job.base, g)
      BY <2>5, <2>6, <3>1
    <3> QED
      BY <2>4, <2>6, <3>1, <3>2, <3>3, WrittenMeans
  <2>7. ASSUME AfterStage(job.stage, t, p) = "done" PROVE Kept(p)'
    <3>1. PICK i \in DOMAIN groups : groups[i].id = Target
      BY <2>2, StoredIs
    <3>2. PICK h : h = groups'[i]
      OBVIOUS
    <3>3. h \in Stored' /\ h.of = p /\ Reported(h, p)
      BY <2>5, <2>6, <2>7, <3>1, <3>2 DEF Stored, ToSet
    <3> QED
      BY <3>3 DEF Kept, GroupsOf, Reported, IsBooked
  <2>8. ASSUME AfterStage(job.stage, t, p) = "enrich", NEW h \in Stored', h.id = Target'
        PROVE  Corrected(h, p)
    <3>1. PICK i \in DOMAIN groups : h = groups'[i]
      BY <2>5, <2>8 DEF Stored, ToSet
    <3>2. groups[i].id = Target
      BY <2>1, <2>5, <2>8, <3>1 DEF Evolves
    <3> QED
      BY <2>6, <2>8, <3>1, <3>2
  <2>9. job'.stage = AfterStage(job.stage, t, p) /\ job'.stage \in {"done", "enrich"}
    BY <1>9, <2>1, <2>3, AfterStageIs DEF GoesOn
  <2> QED
    BY <1>9, <2>7, <2>8, <2>9 DEF GoesOn, Writes
<1>10. CASE PostAnswered
  <2>1. job'.step = "settle" /\ p = Current /\ Post(Current) /\ job.step = "post"
    BY <1>10, MadeIs DEF WorkInv
  <2>2. Current \in Bookings /\ feed[Current] # "none"
    BY <2>1, PostingIs DEF WorkInv, FeedInv
  <2>3. PICK h : h = Imported(Current)
    OBVIOUS
  <2>4. /\ h \in Stored' /\ h.of = p /\ h.amount = feed[p]
        /\ IsBooked(p) => h.tags = {}
    BY <2>1, <2>2, <2>3, PostIs DEF WorkInv
  <2> QED
    BY <2>1, <2>4 DEF Kept, GroupsOf, Reported, IsBooked
<1> QED
  BY <1>2, <1>5, <1>6, <1>7, <1>8, <1>9, <1>10, WorkComes

\* Every step keeps the bookings of a batch that are settled.
LEMMA OutStep ==
  ASSUME WorkInv, StageInv, OutInv, [FireflyNext]_fireflyVars, UNCHANGED feed
  PROVE  OutInv'
<1> SUFFICES ASSUME NEW p \in Bookings, job'.out[p] # 0
             PROVE  p \notin job'.direct \cup job'.placing /\ Kept(p)'
  BY DEF OutInv
<1>1. JobMoves /\ JobInv'
  BY EveryMove DEF WorkInv, JobMoves
<1>2. job # NoJob /\ job.step # "off" /\ ~RunBegins
  <2>1. RunBegins => ~job'.known
    BY BeginsIs
  <2>2. ~RunBegins
    BY <1>1, <2>1 DEF JobInv, Orderly
  <2>3. job.step = "off" => job = NoJob
    BY DEF WorkInv, JobInv, InPhase
  <2>4. job # NoJob
    BY <1>1, NoJobIs DEF JobMoves, OutSource, Settle
  <2> QED
    BY <2>2, <2>3, <2>4
<1>3. job'.placing \cup job'.direct \subseteq job.placing \cup job.direct
  BY <1>1, <1>2 DEF JobMoves
<1>4. CASE job'.out[p] = job.out[p]
  <2>1. p \notin job.direct \cup job.placing /\ Kept(p)
    BY <1>4 DEF OutInv
  <2>2. ~(ReadAnswered /\ p = Current)
    BY <2>1, TargetKnown DEF ReadAnswered
  <2> QED
    BY <1>2, <1>3, <2>1, <2>2, KeptStays
<1>5. CASE Settle /\ Phase(job) # "direct" /\ p = Current
  <2>1. TurnedTo(NextJob) /\ job.step = "settle"
        /\ NextJob.direct = job.direct /\ NextJob.placing = job.placing \ {Current}
    BY <1>5, SettleIs DEF WorkInv
  <2>2. job'.direct = job.direct /\ job'.placing = job.placing \ {Current}
    BY <2>1 DEF TurnedTo, SameWork
  <2>3. Current \notin job.direct
    <3>1. job \in Jobs /\ Orderly(job) /\ Phase(job) \in {"find", "place"}
      BY <1>5, <2>1 DEF WorkInv, JobInv, InPhase, AtWork
    <3> QED
      BY <3>1, CurrentIs DEF Orderly, Current
  <2>4. Kept(p)
    BY <1>5, <2>1 DEF StageInv
  <2>5. ~ReadAnswered
    BY <2>1 DEF ReadAnswered
  <2> QED
    BY <1>2, <1>5, <2>2, <2>3, <2>4, <2>5, KeptStays
<1> QED
  BY <1>1, <1>4, <1>5 DEF JobMoves, OutSource

\* Every step keeps both; the bank reports between runs.
LEMMA PlacingStep ==
  ASSUME WorkInv, StageInv, OutInv, [FireflyNext]_fireflyVars
  PROVE  StageInv' /\ OutInv'
<1>1. CASE UNCHANGED feed
  BY <1>1, StageStep, OutStep
<1>2. CASE ~UNCHANGED feed
  <2>1. job' = NoJob
    BY <1>2, FeedKept DEF WorkInv, JobInv, InPhase
  <2> QED
    BY <2>1, NoJobIs DEF StageInv, OutInv
<1> QED
  BY <1>1, <1>2

\* A booking recorded as imported has a row with the amount booked and no
\* pending marker, or it is the user's by now: the loop records a booking once
\* its last write went through, a batch when all of it did.
THEOREM PlacedAsReportedCorrect == FireflySpec => PlacedAsReported
<1>1. FireflyInit => WorkInv /\ StageInv /\ OutInv
  BY WorkInit, NoJobIs DEF FireflyInit, StageInv, OutInv
<1>2. WorkInv /\ StageInv /\ OutInv /\ [FireflyNext]_fireflyVars =>
        (WorkInv /\ StageInv /\ OutInv)'
  BY WorkStep, PlacingStep
<1>3. WorkInv /\ StageInv /\ OutInv /\ [FireflyNext]_fireflyVars =>
        [\A p \in placed' \ placed :
            p \in edited \/ \E g \in GroupsOf(p) :
                g.reconciled \/ (g.amount = "booked" /\ "pending" \notin g.tags)]_fireflyVars
  <2> SUFFICES ASSUME WorkInv, StageInv, OutInv, [FireflyNext]_fireflyVars,
                      NEW p \in placed' \ placed
               PROVE  p \in edited \/ \E g \in GroupsOf(p) :
                         g.reconciled \/ (g.amount = "booked" /\ "pending" \notin g.tags)
    OBVIOUS
  <2>1. IsBooked(p) /\ Kept(p)
    <3>1. CASE Settle
      BY <3>1 DEF Settle, Record, StageInv
    <3>2. CASE BatchSettled
      BY <3>2 DEF BatchSettled, Record, OutInv
    <3>3. CASE UNCHANGED placed
      BY <3>3
    <3> QED
      BY <3>1, <3>2, <3>3
      DEF FireflyNext, RunStep, TroubleStep, BankReports, RunBegins, PageAnswered,
        SearchAnswered, ReadAnswered, ReadRefused, AboutAnswered, WriteAnswered, WriteRefused,
        PostAnswered, PostRefused, Unauthenticated, RateLimited, Unprocessed, bankState,
        AnswerLost, ImporterCrashes, TokenExpires, TokenReplaced, Quiet, fireflyVars,
        UserStep, UserSplits, UserTags, UserReconciles, UserDeletes, Change, Edit
  <2> QED
    BY <2>1 DEF Kept, Reported, IsBooked
<1> QED
  BY <1>1, <1>2, <1>3, PTL DEF FireflySpec, PlacedAsReported

-----------------------------------------------------------------------------
(* One row of each booking.                                                *)

\* The parts of a division.
LEMMA DivIs ==
  ASSUME NEW a \in Nat, NEW b \in Nat \ {0}
  PROVE  a \div b \in Nat /\ b * (a \div b) <= a /\ a < b * (a \div b) + b
  BY SMTT(30)

\* How often a number goes into another.
LEMMA DivMost ==
  ASSUME NEW a \in Nat, NEW b \in Nat \ {0}, NEW c \in Nat, b * c <= a
  PROVE  c <= a \div b
<1>1. PICK q \in Nat : q = a \div b
  BY DivIs
<1>2. b * c < b * q + b
  BY <1>1, DivIs
<1>3. ASSUME q + 1 <= c PROVE FALSE
  <2>1. b * (q + 1) <= b * c
    BY <1>3, SMTT(30)
  <2>2. b * (q + 1) = b * q + b
    OBVIOUS
  <2> QED
    BY <1>2, <2>1, <2>2
<1> QED
  BY <1>1, <1>3

\* A place of a listing is on one of its pages.
LEMMA LastPage ==
  ASSUME NEW n \in Nat, NEW b \in Nat \ {0}, NEW i \in 1..n
  PROVE  (i - 1) \div b + 1 <= (n + b - 1) \div b
<1>1. i - 1 \in Nat /\ n + b - 1 \in Nat
  OBVIOUS
<1>2. PICK q \in Nat : q = (i - 1) \div b
  BY <1>1, DivIs
<1>3. b * q <= i - 1
  BY <1>1, <1>2, DivIs
<1>4. b * (q + 1) = b * q + b
  OBVIOUS
<1>5. b * (q + 1) <= n + b - 1
  BY <1>3, <1>4
<1> QED
  BY <1>1, <1>2, <1>5, DivMost

\* The page a place of the listing is on, counted from 0.
Turned(i) == (i - 1) \div PerPage

\* No two rows of a booking, but those the user has split apart.
AtMostOne == \A g, h \in Stored : g.of = h.of /\ Single(g) /\ Single(h) => g = h
\* What is on the pages before the one that is asked for was seen.
PageInv ==
    job.step = "page" =>
       \A i \in DOMAIN groups :
          Turned(i) < job.page - 1 /\ Single(groups[i]) =>
             \E h \in job.seen : h.of = groups[i].of
\* A booking whose candidates were listed, and that has no row, has none.
PlaceInv ==
    job.known =>
       \A p \in job.placing \ job.listing : job.copy[p] = NoGroup =>
          \A g \in GroupsOf(p) : ~Single(g)
\* The row about to be written, whether the user has split it since or not, is
\* the only one.
WriteOnly ==
    job.step = "write" =>
       \A g \in GroupsOf(Current) : g.id # Target => ~Single(g)

RowInv == shifted \/ (AtMostOne /\ PageInv /\ PlaceInv /\ WriteOnly)

\* A listing stays shifted.
LEMMA ShiftedStays ==
  ASSUME WorkInv, [FireflyNext]_fireflyVars
  PROVE  \/ UNCHANGED shifted
         \/ UserStep /\ shifted' = (shifted \/ (job.step = "page" /\ job.page > 1))
<1>1. CASE UserStep
  BY <1>1, UserIs DEF WorkInv
<1>2. CASE ~UserStep
  BY <1>2
  DEF FireflyNext, RunStep, TroubleStep, BankReports, RunBegins, PageAnswered,
      SearchAnswered, ReadAnswered, ReadRefused, AboutAnswered, WriteAnswered, WriteRefused,
      PostAnswered, PostRefused, Unauthenticated, Settle, BatchSettled, RateLimited, Unprocessed,
      AnswerLost, ImporterCrashes, TokenExpires, TokenReplaced, Quiet, editState, fireflyVars
<1> QED
  BY <1>1, <1>2

\* The row written, and the row made.
Wrote(h) == job.step = "write" /\ h.id = Target /\ h.of = Current
Landed(h) ==
    /\ job.step = "post" /\ (PostAnswered \/ AnswerLost)
    /\ h.id = nextGroup /\ h.of = Current

\* Where a single row comes from: it was one, or is written or made.
LEMMA SinglesCome ==
  ASSUME WorkInv, [FireflyNext]_fireflyVars, NEW h \in Stored', Single(h)
  PROVE  \/ \E g \in Stored : g.id = h.id /\ g.of = h.of /\ Single(g)
         \/ Wrote(h)
         \/ Landed(h)
<1> USE DEF WorkInv
<1>1. CASE UNCHANGED groups
  BY <1>1 DEF Stored
<1>2. CASE UserStep
  BY <1>2, UserStored DEF Evolves
<1>3. CASE job.step = "write" /\ Put(Target) /\ UNCHANGED nextGroup
  <2>1. job.base \subseteq Marks
    BY DEF JobInv, Jobs
  <2>2. /\ DOMAIN groups' = DOMAIN groups
        /\ \A i \in DOMAIN groups :
              /\ groups[i].id # Target => groups'[i] = groups[i]
              /\ Evolves(groups[i], groups'[i])
    BY <1>3, <2>1, PutIs
  <2>3. PICK i \in DOMAIN groups : h = groups'[i]
    BY <2>2 DEF Stored, ToSet
  <2>4. groups[i] \in Stored /\ groups[i].id = h.id /\ groups[i].of = h.of
    BY <2>2, <2>3, StoredIs DEF Evolves
  <2>5. CASE groups[i].id # Target
    BY <2>2, <2>3, <2>4, <2>5
  <2>6. CASE groups[i].id = Target
    BY <1>3, <2>4, <2>6, TargetKnown DEF Wrote
  <2> QED
    BY <2>5, <2>6
<1>4. CASE job.step = "post" /\ Post(Current) /\ (PostAnswered \/ AnswerLost)
  <2>1. Current \in Bookings /\ feed[Current] # "none"
    BY <1>4, PostingIs DEF FeedInv
  <2>2. h \in Stored \/ (h.id = nextGroup /\ h.of = Current)
    BY <1>4, <2>1, PostIs
  <2> QED
    BY <1>4, <2>2 DEF Landed
<1> QED
  BY <1>1, <1>2, <1>3, <1>4
  DEF FireflyNext, RunStep, TroubleStep, BankReports, RunBegins, PageAnswered,
      SearchAnswered, ReadAnswered, ReadRefused, AboutAnswered, WriteAnswered, WriteRefused,
      PostAnswered, PostRefused, Unauthenticated, Settle, BatchSettled, RateLimited, Unprocessed,
      AnswerLost, ImporterCrashes, TokenExpires, TokenReplaced, Quiet, firefly, fireflyVars

\* How a run comes to ask for a page.
LEMMA PageComes ==
  ASSUME WorkInv, [FireflyNext]_fireflyVars, job'.step = "page"
  PROVE  \/ job'.page = 1
         \/ /\ job.step = "page" /\ job'.page = job.page /\ job'.seen = job.seen
            /\ UserStep \/ UNCHANGED groups
         \/ /\ job.step = "page" /\ job'.page = job.page + 1 /\ job'.seen = PageSeen
            /\ UNCHANGED groups
<1> USE DEF WorkInv
<1>1. \A j : TurnedTo(j) => job'.page = 1
  BY DEF TurnedTo
<1>2. Failed => job'.page = 1
  BY NoJobIs DEF Failed
<1>3. CASE UserStep
  BY <1>3, UserIs
<1>4. CASE RateLimited \/ Unprocessed \/ AnswerLost
  <2>1. Alike(job', job) => ~AnswerLost
    BY DEF Alike, AnswerLost
  <2> QED
    BY <1>2, <1>4, <2>1, TroubledIs DEF Alike, RateLimited, Unprocessed, firefly
<1>5. CASE TokenReplaced
  BY <1>5, ReplacedIs DEF TokenReplaced
<1>6. CASE TokenExpires \/ UNCHANGED fireflyVars
  BY <1>6 DEF TokenExpires, fireflyVars, firefly
<1>7. CASE \E p \in Bookings, status \in {"authorised", "booked"} : BankReports(p, status)
  BY <1>7 DEF BankReports, firefly
<1>8. CASE RunBegins
  BY <1>8, BeginsIs
<1>9. CASE PageAnswered
  BY <1>1, <1>9, PagesIs DEF PageAnswered, Quiet, firefly
<1>10. CASE SearchAnswered
  <2>1. CASE TurnedTo(NotFound)
    BY <1>1, <2>1
  <2> QED
    BY <1>10, <2>1, SearchIs
<1>11. CASE ReadAnswered
  BY <1>2, <1>11, ReadIs
<1>12. CASE ReadRefused
  BY <1>12, RefusedIs DEF Asks
<1>13. CASE WriteAnswered
  BY <1>13, WriteIs
<1>14. CASE PostAnswered
  BY <1>14, MadeIs
<1>15. CASE Settle
  BY <1>1, <1>15, SettleIs
<1>16. CASE AboutAnswered \/ WriteRefused \/ PostRefused \/ Unauthenticated
  <2>1. job.step # "off" /\ Continue(Fails)
    BY <1>16 DEF AboutAnswered, WriteRefused, PostRefused, Unauthenticated
  <2> QED
    BY <1>2, <2>1, ContinueFails
<1>17. CASE BatchSettled \/ ImporterCrashes
  BY <1>17, ContinueNoJob, NoJobIs DEF BatchSettled, ImporterCrashes
<1> QED
  BY <1>3, <1>4, <1>5, <1>6, <1>7, <1>8, <1>9, <1>10, <1>11, <1>12, <1>13, <1>14, <1>15, <1>16,
     <1>17
  DEF FireflyNext, RunStep, TroubleStep

\* How a run comes to place a booking without a row.
LEMMA PlaceComes ==
  ASSUME WorkInv, [FireflyNext]_fireflyVars, job'.known,
         NEW p \in job'.placing \ job'.listing, job'.copy[p] = NoGroup
  PROVE  \/ /\ job.known /\ p \in job.placing \ job.listing /\ job.copy[p] = NoGroup
            /\ ~(PostAnswered /\ p = Current) /\ ~(AnswerLost /\ job.step = "post")
         \/ /\ PageAnswered /\ p = Current /\ ~(job.page < Pages)
            /\ Recognised(PageSeen, p) = NoGroup
<1> USE DEF WorkInv
<1>1. /\ job \in Jobs /\ JobInv' /\ job' # NoJob /\ p \in Bookings
      /\ job.known \in BOOLEAN
  BY EveryMove, NoJobIs DEF JobMoves, JobInv, Jobs
<1>2. job.step = "off" => ~job.known
  BY NoJobIs DEF JobInv, InPhase
<1> DEFINE Before == job.known /\ p \in job.placing \ job.listing /\ job.copy[p] = NoGroup
<1>3. SameWork(job', job) => Before
  BY DEF SameWork
<1>4. Failed => Before
  BY <1>1, <1>3 DEF Failed
<1>5. ASSUME PostAnswered PROVE Before /\ p # Current
  <2>1. Imported(Current) # NoGroup
    <3>1. Current \in Bookings /\ feed[Current] # "none"
      BY <1>5, PostingIs DEF PostAnswered, FeedInv
    <3> QED
      BY <1>5, <3>1, PostIs, NoGroupIs DEF PostAnswered
  <2> QED
    BY <1>1, <1>5, <2>1, MadeIs
<1>6. ~(AnswerLost /\ job.step = "post")
  <2>1. AnswerLost /\ job.step = "post" => Failed /\ Phase(job) = "place"
    BY TroubledIs, PostingIs
  <2> QED
    BY <1>1, <2>1 DEF Failed
<1>7. CASE RunBegins
  BY <1>7, BeginsIs
<1>8. CASE PageAnswered
  <2>1. CASE SameWork(job', job)
    BY <1>3, <1>6, <1>8, <2>1 DEF PageAnswered, PostAnswered
  <2>2. CASE ~(job.page < Pages) /\ job.known /\ Phase(job) = "list" /\ TurnedTo(Listed)
    <3>1. /\ job'.listing = job.listing \ {Current} /\ job'.placing = job.placing
          /\ job'.copy[p] = IF p = Current THEN Recognised(PageSeen, Current) ELSE job.copy[p]
      BY <1>1, <2>2, ListedIs DEF TurnedTo, SameWork
    <3>2. ~PostAnswered
      BY <1>8 DEF PageAnswered, PostAnswered
    <3> QED
      BY <1>6, <1>8, <2>2, <3>1, <3>2
  <2>3. CASE ~job.known /\ TurnedTo(Loaded(PageSeen))
    <3>1. job'.listing = job'.placing
      BY <2>3, PageIs, OpenedIs DEF TurnedTo, SameWork
    <3> QED
      BY <3>1
  <2> QED
    BY <1>8, <2>1, <2>2, <2>3, PagesIs
<1>9. ASSUME SearchAnswered PROVE Before
  <2>1. CASE TurnedTo(NotFound)
    BY <1>9, <2>1, SearchIs DEF TurnedTo, SameWork, NotFound
  <2>2. ASSUME NEW hit \in Stored, SameWork(job', Found(hit)),
               Found(hit).known = job.known, Found(hit).placing = job.placing,
               Found(hit).listing = job.listing,
               \A q \in Bookings : Found(hit).copy[q] = IF q = Current THEN hit
                                                        ELSE job.copy[q]
        PROVE  Before
    <3>1. hit # NoGroup
      BY <2>2, StoredTracks, NoGroupIs
    <3> QED
      BY <1>1, <2>2, <3>1 DEF SameWork
  <2> QED
    BY <1>9, <2>1, <2>2, SearchIs
<1>10. ASSUME Settle PROVE Before
  <2>1. /\ job'.placing = NextJob.placing /\ job'.listing = NextJob.listing
        /\ job'.copy = job.copy /\ job.known
    BY <1>10, SettleIs, AtWorkIs DEF TurnedTo, SameWork, Settle
  <2>2. CASE Phase(job) = "direct"
    BY <1>10, <2>1, <2>2, SettleIs
  <2>3. CASE Phase(job) # "direct"
    BY <1>10, <2>1, <2>3, SettleIs
  <2> QED
    BY <2>2, <2>3
<1>11. ASSUME AboutAnswered \/ WriteRefused \/ PostRefused \/ Unauthenticated PROVE Before
  <2>1. job.step # "off" /\ Continue(Fails)
    BY <1>11 DEF AboutAnswered, WriteRefused, PostRefused, Unauthenticated
  <2> QED
    BY <1>4, <2>1, ContinueFails
<1>12. ASSUME BatchSettled \/ ImporterCrashes PROVE FALSE
  BY <1>1, <1>12, ContinueNoJob DEF BatchSettled, ImporterCrashes
<1>13. ASSUME RateLimited \/ Unprocessed \/ AnswerLost PROVE Before
  BY <1>3, <1>4, <1>13, TroubledIs DEF Alike
<1>14. ASSUME UserStep \/ TokenExpires \/ UNCHANGED fireflyVars
              \/ \E q \in Bookings, status \in {"authorised", "booked"} : BankReports(q, status)
       PROVE  Before
  <2>1. UNCHANGED job
    BY <1>14, UserIs DEF TokenExpires, fireflyVars, BankReports
  <2> QED
    BY <2>1
<1>15. ASSUME ReadAnswered \/ ReadRefused \/ WriteAnswered \/ TokenReplaced PROVE Before
  BY <1>3, <1>4, <1>15, ReadIs, RefusedIs, WriteIs, ReplacedIs DEF Asks
<1>16. Before \/ PageAnswered \/ RunBegins
  BY <1>5, <1>9, <1>10, <1>11, <1>12, <1>13, <1>14, <1>15
  DEF FireflyNext, RunStep, TroubleStep
<1> QED
  BY <1>5, <1>6, <1>7, <1>8, <1>16

\* Every step keeps the rows of a booking one, while no listing is shifted.
LEMMA RowStep ==
  ASSUME WorkInv, ~shifted, AtMostOne, PageInv, PlaceInv, WriteOnly,
         [FireflyNext]_fireflyVars, ~shifted'
  PROVE  AtMostOne' /\ PageInv' /\ PlaceInv' /\ WriteOnly'
<1>1. RowsInv' /\ RowsInv
  BY WorkStep DEF WorkInv
<1>2. AtMostOne'
  <2> SUFFICES ASSUME NEW h \in Stored', NEW k \in Stored', h.of = k.of, Single(h), Single(k)
               PROVE  h = k
    BY DEF AtMostOne, Single
  <2>1. h.id = k.id => h = k
    BY <1>1 DEF RowsInv, Stored, ToSet
  <2>2. ASSUME NEW x \in Stored', NEW y \in Stored', x.of = y.of,
               Wrote(x) \/ Landed(x),
               NEW g \in Stored, g.id = y.id, g.of = y.of, Single(g)
        PROVE  x.id = y.id
    <3>1. CASE Wrote(x)
      BY <2>2, <3>1 DEF Wrote, WriteOnly, GroupsOf
    <3>2. CASE Landed(x)
      <4>1. job.step = "post" /\ g.of = Current
        BY <2>2, <3>2 DEF Landed
      <4>2. /\ job.known /\ Current \in job.placing \ job.listing
            /\ job.copy[Current] = NoGroup
        BY <4>1, PostingIs DEF WorkInv
      <4> QED
        BY <2>2, <4>1, <4>2 DEF PlaceInv, GroupsOf
    <3> QED
      BY <2>2, <3>1, <3>2
  <2>3. CASE (Wrote(h) \/ Landed(h)) /\ (Wrote(k) \/ Landed(k))
    BY <2>1, <2>3 DEF Wrote, Landed
  <2>4. CASE \E g \in Stored : g.id = h.id /\ g.of = h.of /\ Single(g)
    <3>1. PICK g \in Stored : g.id = h.id /\ g.of = h.of /\ Single(g)
      BY <2>4
    <3>2. CASE Wrote(k) \/ Landed(k)
      BY <2>1, <2>2, <3>1, <3>2
    <3>3. CASE \E f \in Stored : f.id = k.id /\ f.of = k.of /\ Single(f)
      BY <2>1, <3>1, <3>3 DEF AtMostOne
    <3> QED
      BY <3>2, <3>3, SinglesCome
  <2>5. CASE \E f \in Stored : f.id = k.id /\ f.of = k.of /\ Single(f)
    <3>1. PICK f \in Stored : f.id = k.id /\ f.of = k.of /\ Single(f)
      BY <2>5
    <3>2. CASE Wrote(h) \/ Landed(h)
      BY <2>1, <2>2, <3>1, <3>2
    <3> QED
      BY <2>4, <3>2, SinglesCome
  <2> QED
    BY <2>3, <2>4, <2>5, SinglesCome
<1>3. WriteOnly'
  <2> SUFFICES ASSUME job'.step = "write", NEW h \in Stored', h.of = Current',
                      h.id # Target', Single(h)
               PROVE  FALSE
    BY DEF WriteOnly, GroupsOf, Single
  <2>1. CASE ReadAnswered
    <3>1. /\ Single(Group(Target)) /\ UNCHANGED groups /\ SameWork(job', job)
          /\ Group(Target) \in Stored /\ Group(Target).id = Target /\ Target' = Target
      BY <2>1, ReadToWrite
    <3>2. Group(Target).of = Current /\ Current' = Current
      BY <2>1, <3>1, TargetKnown, SameTarget DEF ReadAnswered
    <3> QED
      BY <3>1, <3>2 DEF Stored, AtMostOne
  <2>2. CASE job.step = "write" /\ SameWork(job', job)
    <3>1. Target' = Target /\ Current' = Current
      BY <2>2, SameTarget
    <3>2. PICK g \in Stored : g.id = h.id /\ g.of = h.of /\ Single(g)
      BY <2>2, <3>1, SinglesCome DEF Wrote, Landed
    <3> QED
      BY <2>2, <3>1, <3>2 DEF WriteOnly, GroupsOf
  <2> QED
    BY <2>1, <2>2, WriteComes
<1>4. PlaceInv'
  <2> SUFFICES ASSUME job'.known, NEW p \in job'.placing \ job'.listing,
                      job'.copy[p] = NoGroup, NEW h \in Stored', h.of = p, Single(h)
               PROVE  FALSE
    BY DEF PlaceInv, GroupsOf, Single
  <2>1. CASE /\ job.known /\ p \in job.placing \ job.listing /\ job.copy[p] = NoGroup
             /\ ~(PostAnswered /\ p = Current) /\ ~(AnswerLost /\ job.step = "post")
    <3>1. ~Landed(h)
      BY <2>1 DEF Landed
    <3>2. ~Wrote(h)
      BY <2>1, AtWorkIs DEF Wrote, WorkInv
    <3>3. PICK g \in Stored : g.id = h.id /\ g.of = h.of /\ Single(g)
      BY <3>1, <3>2, SinglesCome
    <3> QED
      BY <2>1, <3>3 DEF PlaceInv, GroupsOf
  <2>2. CASE /\ PageAnswered /\ p = Current /\ ~(job.page < Pages)
             /\ Recognised(PageSeen, p) = NoGroup
    <3>1. job.step = "page" /\ UNCHANGED groups
      BY <2>2 DEF PageAnswered, Quiet, firefly
    <3>2. PICK i \in DOMAIN groups : h = groups[i]
      BY <3>1, StoredIs DEF Stored
    <3>3. /\ Len(groups) \in Nat /\ i \in 1..Len(groups) /\ PerPage \in Nat \ {0}
          /\ job.page \in Nat \ {0}
      BY <1>1, StoreAssumption DEF RowsInv, WorkInv, JobInv, Jobs
    <3>4. Turned(i) + 1 <= Pages /\ Turned(i) \in Nat
      <4>1. i - 1 \in Nat
        BY <3>3
      <4> QED
        BY <3>3, <4>1, LastPage, DivIs DEF Turned, Pages
    <3>5. Pages \in Nat
      <4>1. Len(groups) + PerPage - 1 \in Nat
        BY <3>3
      <4> QED
        BY <3>3, <4>1, DivIs DEF Pages
    <3>6. Turned(i) < job.page - 1 \/ Turned(i) = job.page - 1
      BY <2>2, <3>3, <3>4, <3>5
    <3>7. \E x \in PageSeen : x.of = p
      <4>1. CASE Turned(i) < job.page - 1
        BY <3>1, <3>2, <4>1 DEF PageInv, PageSeen
      <4>2. CASE Turned(i) = job.page - 1
        <5>1. h \in Usable(PageOf(job.page))
          BY <3>2, <4>2 DEF Usable, PageOf, Turned
        <5> QED
          BY <5>1 DEF PageSeen
      <4> QED
        BY <3>6, <4>1, <4>2
    <3>8. PageSeen \subseteq Groups
      BY PageIs DEF WorkInv
    <3> QED
      BY <2>2, <3>7, <3>8, RecognisedIs
  <2> QED
    BY <2>1, <2>2, PlaceComes
<1>5. PageInv'
  <2> SUFFICES ASSUME job'.step = "page", NEW i \in DOMAIN groups',
                      Turned(i) < job'.page - 1, Single(groups'[i])
               PROVE  \E h \in job'.seen : h.of = groups'[i].of
    BY DEF PageInv, Turned, Single
  <2>1. Turned(i) \in Nat
    <3>1. i - 1 \in Nat /\ PerPage \in Nat \ {0}
      <4>1. groups' \in Seq(Groups)
        BY <1>1 DEF RowsInv
      <4> QED
        BY <4>1, StoreAssumption
    <3> QED
      BY <3>1, DivIs DEF Turned
  <2>2. job.page \in Nat \ {0}
    BY DEF WorkInv, JobInv, Jobs
  <2>3. job'.page # 1
    BY <2>1
  <2>4. CASE job.step = "page" /\ job'.page = job.page /\ job'.seen = job.seen
             /\ (UserStep \/ UNCHANGED groups)
    <3>1. CASE UNCHANGED groups
      BY <2>4, <3>1 DEF PageInv
    <3>2. CASE UserStep
      <4>1. /\ DOMAIN groups' = DOMAIN groups
            /\ \A j \in DOMAIN groups :
                  /\ Evolves(groups[j], groups'[j])
                  /\ Single(groups'[j]) => Single(groups[j])
        <5>1. job.page > 1
          BY <2>2, <2>3, <2>4
        <5> QED
          BY <2>4, <3>2, <5>1, UserIs DEF WorkInv
      <4>2. Single(groups[i]) /\ groups'[i].of = groups[i].of /\ i \in DOMAIN groups
        BY <4>1 DEF Evolves
      <4> QED
        BY <2>4, <4>2 DEF PageInv
    <3> QED
      BY <2>4, <3>1, <3>2
  <2>5. CASE /\ job.step = "page" /\ job'.page = job.page + 1 /\ job'.seen = PageSeen
             /\ UNCHANGED groups
    <3>1. CASE Turned(i) < job.page - 1
      BY <2>5, <3>1 DEF PageInv, PageSeen
    <3>2. CASE Turned(i) = job.page - 1
      <4>1. groups[i] \in Usable(PageOf(job.page))
        BY <2>5, <3>2 DEF Usable, PageOf, Turned
      <4> QED
        BY <2>5, <4>1 DEF PageSeen
    <3> QED
      BY <2>1, <2>2, <2>5, <3>1, <3>2
  <2> QED
    BY <2>3, <2>4, <2>5, PageComes
<1> QED
  BY <1>2, <1>3, <1>4, <1>5

\* However requests and answers are lost and repeated and runs cut short, a
\* booking has one row, those the user has split apart, unless a deletion
\* shifted a listing under the run.
THEOREM OneRowEachCorrect == FireflySpec => []OneRowEach
<1>1. FireflyInit => WorkInv /\ RowInv
  <2> SUFFICES ASSUME FireflyInit PROVE AtMostOne /\ PageInv /\ PlaceInv /\ WriteOnly
    BY WorkInit DEF RowInv
  <2>1. Stored = {} /\ job = NoJob
    BY DEF FireflyInit, Stored, ToSet
  <2> QED
    BY <2>1, NoJobIs DEF AtMostOne, PageInv, PlaceInv, WriteOnly, GroupsOf
<1>2. WorkInv /\ RowInv /\ [FireflyNext]_fireflyVars => (WorkInv /\ RowInv)'
  BY WorkStep, RowStep, ShiftedStays DEF RowInv
<1>3. WorkInv /\ RowInv => OneRowEach
  <2> SUFFICES ASSUME AtMostOne, NEW p \in Bookings
               PROVE  Cardinality({g \in GroupsOf(p) : Single(g)}) <= 1
    BY DEF RowInv, OneRowEach
  <2> DEFINE S == {g \in GroupsOf(p) : Single(g)}
  <2>1. \A g, h \in S : g = h
    BY DEF AtMostOne, GroupsOf
  <2>2. CASE S = {}
    BY <2>2, FS_EmptySet
  <2>3. CASE S # {}
    <3>1. PICK g \in S : TRUE
      BY <2>3
    <3>2. S = {g}
      BY <2>1, <3>1
    <3> QED
      BY <3>2, FS_Singleton
  <2> QED
    BY <2>2, <2>3
<1> QED
  BY <1>1, <1>2, <1>3, PTL DEF FireflySpec
=============================================================================
