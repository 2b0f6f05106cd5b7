--------------------------- MODULE MCTwins_proofs ---------------------------
(***************************************************************************)
(* Theorems about TwinImport and MatchEvidence, the two models MCTwins     *)
(* puts side by side, for all purchases, payments, visitors, gates and     *)
(* bounds.  Of purchases that look alike: no entry is left on a row a      *)
(* booking has settled, no two end in one row, and rows do not outnumber   *)
(* them.  Of what the matcher learns: a label describes the comparison it  *)
(* was given for, a run decides with one fitted set, and a set goes into   *)
(* force only through the gate.                                            *)
(***************************************************************************)
EXTENDS MCTwins, FiniteSums, FiniteSetTheorems, TLAPS

-----------------------------------------------------------------------------
(* Greatest members.                                                       *)

\* A bounded set of naturals has a greatest member.
LEMMA Largest ==
  ASSUME NEW S \in SUBSET Nat, S # {}, NEW n \in Nat, \A x \in S : x <= n
  PROVE  \E x \in S : \A y \in S : x >= y
<1> DEFINE T == {n - x : x \in S}
<1>1. T \in SUBSET Nat /\ T # {}
  <2>1. \A x \in S : n - x \in Nat
    OBVIOUS
  <2>2. PICK x \in S : TRUE
    OBVIOUS
  <2> QED
    BY <2>1, <2>2
<1>2. PICK m \in T : \A y \in T : m <= y
  <2> HIDE DEF T
  <2> QED BY <1>1, Smallest
<1>3. PICK x \in S : m = n - x
  OBVIOUS
<1>4. ASSUME NEW y \in S PROVE x >= y
  BY <1>2, <1>3, n - y \in T
<1> QED
  BY <1>4

-----------------------------------------------------------------------------
(* What holds between the steps of a run over purchases that look alike.   *)

\* What the bank has reported carries the days it is keyed by.
Calendar ==
    /\ \A p \in Purchases : bank[p] # "none" => day[p] \in Days
    /\ \A p \in Purchases : bank[p] = "booked" => bookDay[p] \in Days

\* A run works on what its feed lists, without the withdrawn; between runs
\* there is no feed.
Feeding ==
    /\ feed \subseteq Reported
    /\ \A p \in todo \cup work : ~Withdrawn(p)
    /\ IsInjective(rank)
    /\ pc = "idle" => feed = {} /\ todo = {} /\ work = {}

\* Rows are numbered without gaps, and every record names one of them.
Numbered ==
    /\ rows \subseteq 1..Cardinality(rows)
    /\ \A k \in Keys : pend[k] # 0 => pend[k] \in rows
    /\ \A i \in Identities : identity[i] # 0 => identity[i] \in rows
    /\ \A r \in Rows : booked[r] # NoBooking => r \in rows

\* A row waits for one booking at most.
OneWaits == \A k, j \in Keys : pend[k] # 0 /\ pend[k] = pend[j] => k = j

\* A row nothing is remembered of.
Fresh(r) == booked[r] = NoBooking /\ Entries(r) = {} /\ Records(r) = {}

\* What a written batch is still to be remembered by: rows of their own, and
\* nothing is remembered yet of those that are new.
Unremembered ==
    pc = "settle" =>
        /\ \A p \in work : out[p].row \in rows
        /\ \A p, q \in work : out[p].row = out[q].row => p = q
        /\ \A p \in work : out[p].as = "created" => Fresh(out[p].row)

\* NoSecondSettlement, within a run too.
OpenEntries ==
    ~torn => \A k \in Keys : pend[k] # 0 => /\ booked[pend[k]] = NoBooking
                                            /\ Records(pend[k]) = {}

TwinInv == /\ TypeOK /\ Calendar /\ Feeding /\ Numbered /\ OneWaits
           /\ Unremembered /\ OpenEntries

-----------------------------------------------------------------------------
(* Keys, and the numbers of new rows.                                      *)

\* The position of one of finitely many things among them is a number from 1.
LEMMA Position ==
    ASSUME NEW S, NEW T \in SUBSET S, IsFiniteSet(S), T # {}
    PROVE  Cardinality(T) \in 1..Cardinality(S)
<1>1. /\ IsFiniteSet(T) /\ Cardinality(T) <= Cardinality(S)
  BY FS_Subset
<1>2. Cardinality(T) \in Nat /\ Cardinality(S) \in Nat
  BY <1>1, FS_CardinalityType
<1>3. Cardinality(T) # 0
  BY <1>1, FS_EmptySet
<1> QED  BY <1>1, <1>2, <1>3

\* The order of the feed (lessTxn) is total on what has a day.
LEMMA Ordered ==
    ASSUME TypeOK, NEW order \in [Purchases -> Purchases]
    PROVE  /\ \A p \in Purchases : Precedes(p, p, order)
           /\ \A p, q \in Purchases : Precedes(p, q, order) \/ Precedes(q, p, order)
           /\ \A p, q, r \in Purchases :
                 Precedes(p, q, order) /\ Precedes(q, r, order) => Precedes(p, r, order)
           /\ IsInjective(order) =>
                 \A p, q \in Purchases :
                    Precedes(p, q, order) /\ Precedes(q, p, order) => p = q
<1>1. \A p \in Purchases : day[p] \in Int /\ order[p] \in Int /\ Phase(p) \in Int
  <2> TAKE p \in Purchases
  <2>1. Purchases \subseteq Nat /\ MaxDay \in Nat
    BY ConstantsAssumption
  <2>2. day[p] \in 0..MaxDay
    BY DEF TypeOK
  <2>3a. order[p] \in Purchases /\ \A x \in Purchases : x \in Nat
    BY <2>1
  <2>3. Phase(p) \in {0, 1}
    BY DEF Phase
  <2>4. day[p] \in Int
    BY <2>1, <2>2
  <2>5. order[p] \in Int
    BY <2>3a
  <2>6. Phase(p) \in Int
    BY <2>3
  <2> QED  BY <2>4, <2>5, <2>6
<1>2. DOMAIN order = Purchases
  OBVIOUS
<1>3. \A p \in Purchases : Precedes(p, p, order)
  BY <1>1 DEF Precedes
<1>4. \A p, q \in Purchases : Precedes(p, q, order) \/ Precedes(q, p, order)
  BY <1>1 DEF Precedes
<1>5. \A p, q, r \in Purchases :
          Precedes(p, q, order) /\ Precedes(q, r, order) => Precedes(p, r, order)
  BY <1>1 DEF Precedes
<1>6. ASSUME IsInjective(order), NEW p \in Purchases, NEW q \in Purchases,
             Precedes(p, q, order), Precedes(q, p, order)
      PROVE  p = q
  <2>1. order[p] = order[q]
    BY <1>1, <1>6 DEF Precedes
  <2> QED  BY <2>1, <1>2, <1>6 DEF IsInjective
<1> QED  BY <1>3, <1>4, <1>5, <1>6

\* Every purchase at work in a run has a key (importKeys).
LEMMA KeyTyped ==
    ASSUME TypeOK, Calendar, Feeding, NEW p \in todo \cup work
    PROVE  Key(p) \in Keys /\ p \in Purchases /\ ~Withdrawn(p) /\ bank[p] # "none"
<1>1. p \in feed /\ p \in Purchases /\ ~Withdrawn(p) /\ bank[p] # "none"
  BY DEF TypeOK, Feeding, Reported
<1>2. day[p] \in Days
  BY <1>1 DEF Calendar
<1> DEFINE like == {q \in {x \in feed : ~Withdrawn(x)} :
                       /\ bank[q] = bank[p] /\ day[q] = day[p]
                       /\ Precedes(q, p, rank)}
<1>3. p \in like
  BY <1>1, Ordered DEF TypeOK
<1>4. like \in SUBSET Purchases /\ IsFiniteSet(Purchases)
  BY ConstantsAssumption DEF TypeOK
<1>5. Cardinality(like) \in Index
  BY <1>3, <1>4, Position DEF Index
<1>6. Key(p) = <<day[p], Cardinality(like)>>
  BY DEF Key, KeyIn
<1> QED  BY <1>1, <1>2, <1>5, <1>6 DEF Keys

\* So has every booking an identity (txnIdentities).
LEMMA IdentityTyped ==
    ASSUME TypeOK, Calendar, Feeding, NEW p \in todo \cup work, Booked(p)
    PROVE  Identity(p) \in Identities
<1>1. p \in feed /\ p \in Purchases
  BY DEF TypeOK
<1>2. day[p] \in Days /\ bookDay[p] \in Days
  BY <1>1 DEF Calendar, Booked
<1> DEFINE like == {q \in feed : /\ Booked(q) /\ bookDay[q] = bookDay[p]
                                 /\ day[q] = day[p] /\ Precedes(q, p, rank)}
<1>3. p \in like
  BY <1>1, Ordered DEF TypeOK
<1>4. like \in SUBSET Purchases /\ IsFiniteSet(Purchases)
  BY ConstantsAssumption DEF TypeOK
<1>5. Cardinality(like) \in Index
  BY <1>3, <1>4, Position DEF Index
<1>6. Identity(p) = <<bookDay[p], day[p], Cardinality(like)>>
  BY DEF Identity
<1> QED  BY <1>2, <1>5, <1>6 DEF Identities

\* The rows there are can be counted.
LEMMA RowsFinite ==
    ASSUME TypeOK
    PROVE  IsFiniteSet(rows) /\ Cardinality(rows) \in Nat /\ 0 \notin Rows /\ Rows \subseteq Nat
<1>1. IsFiniteSet(Rows)
  BY ConstantsAssumption, FS_Interval DEF Rows
<1>2. IsFiniteSet(rows)
  BY <1>1, FS_Subset DEF TypeOK
<1> QED  BY <1>2, FS_CardinalityType, ConstantsAssumption DEF Rows

-----------------------------------------------------------------------------
(* The steps of the bank, and those that leave the records alone.          *)

\* At the start nothing is reported and nothing remembered.
LEMMA TwinInit == Init => TwinInv
<1> SUFFICES ASSUME Init PROVE TwinInv
  OBVIOUS
<1>1. /\ Purchases \subseteq Nat /\ BatchSize \in Nat
      /\ MaxRows \in Nat /\ TypedRows \in Nat /\ MaxDay \in Nat /\ MaxFaults \in Nat
      /\ MaxDay # 0 /\ TypedRows <= MaxRows
  BY ConstantsAssumption
<1>2. rows \subseteq Rows /\ IsFiniteSet(rows) /\ Cardinality(rows) = TypedRows
  BY <1>1, FS_Interval DEF Init, Rows
<1>3. IsInjective(Stable)
  BY DEF IsInjective, Stable
<1>4. rowDay \in [Rows -> 0..MaxDay]
  BY <1>1 DEF Init, Days
<1>5. NoOutcome \in [Purchases -> [as : {"none", "created", "adopted", "held"},
                                   row : Rows \cup {0}]]
  BY DEF NoOutcome
<1>6. Stable \in [Purchases -> Purchases]
  BY DEF Stable
<1>7. TypeOK
  <2>1. 1 \in Days /\ 0 \in 0..MaxDay /\ 0 \in 0..MaxFaults /\ 0 \in 0..0
    BY <1>1 DEF Days
  <2>2. /\ today \in Days /\ watermark \in Days /\ faults \in 0..MaxFaults
        /\ bank \in [Purchases -> {"none", "pending", "booked", "withdrawn"}]
        /\ day \in [Purchases -> 0..MaxDay] /\ bookDay \in [Purchases -> 0..MaxDay]
    BY <2>1 DEF Init
  <2>3. /\ pend \in [Keys -> Rows \cup {0}]
        /\ identity \in [Identities -> Rows \cup {0}]
        /\ booked \in [Rows -> Keys \cup {NoBooking, Unkeyed}]
    BY DEF Init
  <2>4. torn \in BOOLEAN /\ masked \in BOOLEAN /\ cuts \in 0..faults
    BY <2>1 DEF Init
  <2>5. /\ rows \subseteq Rows /\ cleared \subseteq rows /\ held \subseteq Keys
        /\ pc \in {"idle", "import", "settle"} /\ feed \subseteq Purchases
        /\ from \in Days /\ rank \in [Purchases -> Purchases] /\ todo \subseteq feed
        /\ work \subseteq feed /\ claimed \subseteq Rows /\ failed \in BOOLEAN
        /\ delivered \subseteq Purchases
        /\ out \in [Purchases -> [as : {"none", "created", "adopted", "held"},
                                  row : Rows \cup {0}]]
    BY <1>2, <1>5, <1>6, <2>1 DEF Init
  <2> QED  BY <1>4, <2>2, <2>3, <2>4, <2>5 DEF TypeOK
<1>8. Calendar /\ Feeding
  BY <1>3 DEF Init, Calendar, Feeding, Reported
<1>9. Numbered /\ OneWaits /\ Unremembered /\ OpenEntries
  BY <1>2, <1>1 DEF Init, Numbered, OneWaits, Unremembered, OpenEntries, Records
<1> QED  BY <1>7, <1>8, <1>9 DEF TwinInv

\* A step that leaves rows and records alone keeps what is said of them.
LEMMA RecordsAside ==
    ASSUME TwinInv, UNCHANGED <<rows, pend, identity, booked>>,
           torn => torn', pc' = "settle" => pc = "settle" /\ UNCHANGED <<work, out>>
    PROVE  Numbered' /\ OneWaits' /\ Unremembered' /\ OpenEntries'
<1>1. Numbered' /\ OneWaits' /\ OpenEntries'
  BY DEF TwinInv, Numbered, OneWaits, OpenEntries, Records
<1>2. Unremembered'
  BY DEF TwinInv, Unremembered, Fresh, Entries, Records
<1> QED  BY <1>1, <1>2

\* The bank moves between runs only.
LEMMA BankKeeps == ASSUME TwinInv, BankStep PROVE TwinInv'
<1> USE DEF BankMoves, budgetVars, stateVars, runVars, history
<1>1. pc = "idle" /\ UNCHANGED <<budgetVars, stateVars, watermark, pc, runVars, history>>
  BY DEF BankStep, BankAuthorises, BankBooks, BankWithdraws, Tick
<1>2. Numbered' /\ OneWaits' /\ Unremembered' /\ OpenEntries'
  BY <1>1, RecordsAside
<1>3. feed = {} /\ todo = {} /\ work = {} /\ IsInjective(rank)
  BY <1>1 DEF TwinInv, Feeding
<1>4. Feeding'
  BY <1>1, <1>3 DEF Feeding, Reported
<1>5. today \in Days /\ Days \subseteq 0..MaxDay
  BY ConstantsAssumption DEF TwinInv, TypeOK, Days
<1>6. /\ today' \in Days
      /\ bank' \in [Purchases -> {"none", "pending", "booked", "withdrawn"}]
      /\ day' \in [Purchases -> 0..MaxDay] /\ bookDay' \in [Purchases -> 0..MaxDay]
      /\ Calendar'
  <2>0. /\ bank \in [Purchases -> {"none", "pending", "booked", "withdrawn"}]
        /\ day \in [Purchases -> 0..MaxDay] /\ bookDay \in [Purchases -> 0..MaxDay]
        /\ Calendar
    BY DEF TwinInv, TypeOK
  <2>1. ASSUME NEW p \in Purchases, BankAuthorises(p) PROVE <1>6!:
    BY <2>0, <2>1, <1>5 DEF BankAuthorises, Calendar
  <2>2. ASSUME NEW p \in Purchases, BankBooks(p) PROVE <1>6!:
    BY <2>0, <2>2, <1>5 DEF BankBooks, Calendar
  <2>3. ASSUME NEW p \in Purchases, BankWithdraws(p) PROVE <1>6!:
    BY <2>0, <2>3, <1>5 DEF BankWithdraws, Calendar
  <2>4. CASE Tick
    BY <2>0, <2>4, <1>5, ConstantsAssumption DEF Tick, Calendar, Days
  <2> QED  BY <2>1, <2>2, <2>3, <2>4 DEF BankStep
<1>7. TypeOK'
  BY <1>1, <1>6 DEF TwinInv, TypeOK, Days
<1> QED  BY <1>2, <1>4, <1>6, <1>7 DEF TwinInv

\* The window of a run begins on a day.
LEMMA DateFromTyped == ASSUME TypeOK PROVE DateFrom \in Days
<1> DEFINE D == {watermark} \cup {k[1] : k \in {j \in Keys : pend[j] # 0}}
<1>1. D \subseteq Days /\ D # {}
  BY DEF TypeOK, Keys
<1>2. D \in SUBSET Nat
  BY <1>1 DEF Days
<1> HIDE DEF D
<1>3. \E x \in D : \A y \in D : x <= y
  BY <1>1, <1>2, Smallest
<1>4. DateFrom \in D
  <2>1. Min(D) \in D
    BY <1>3 DEF Min
  <2> QED  BY <2>1 DEF DateFrom, D
<1> QED  BY <1>1, <1>4

\* A run starts from the feed, and drops the entries of the withdrawn.
LEMMA FetchKeeps == ASSUME TwinInv, NEW order \in Orders, Fetch(order) PROVE TwinInv'
<1> USE DEF bankVars, budgetVars
<1>1. /\ UNCHANGED <<today, bank, day, bookDay, rows, rowDay, cleared, identity, booked,
                     held, watermark, work, claimed, out, failed, delivered, torn, cuts, masked>>
      /\ rank' = order /\ feed' = Listed /\ from' = DateFrom
      /\ todo' = {p \in Listed : ~Withdrawn(p)}
      /\ pc' = "import" /\ pc = "idle"
      /\ pend' = [k \in Keys |-> IF k \in Released(Listed, order) THEN 0 ELSE pend[k]]
  BY DEF Fetch
<1>2. order \in [Purchases -> Purchases] /\ IsInjective(order)
  BY DEF Orders
<1>3. Listed \subseteq Reported /\ Reported \subseteq Purchases
  BY DEF Listed, Reported
<1>4. faults' \in 0..MaxFaults /\ cuts' \in 0..faults'
  BY ConstantsAssumption DEF Fetch, Disturbed, TwinInv, TypeOK
<1>5. work = {}
  BY <1>1 DEF TwinInv, Feeding
<1>6. pend' \in [Keys -> Rows \cup {0}]
  BY <1>1 DEF TwinInv, TypeOK
<1>7. TypeOK'
  <2>1. from' \in Days
    BY <1>1, DateFromTyped DEF TwinInv
  <2> QED  BY <2>1, <1>1, <1>2, <1>3, <1>4, <1>5, <1>6 DEF TwinInv, TypeOK, Days
<1>8. Calendar'
  BY <1>1 DEF TwinInv, Calendar
<1>9. Feeding'
  BY <1>1, <1>2, <1>3, <1>5 DEF Feeding, Reported, Withdrawn
<1>10. \A k \in Keys : pend'[k] # 0 => pend'[k] = pend[k]
  BY <1>1
<1>11. Numbered'
  BY <1>1, <1>10 DEF TwinInv, Numbered
<1>12. OneWaits'
  BY <1>1, <1>10 DEF TwinInv, OneWaits
<1>13. OpenEntries' /\ Unremembered'
  BY <1>1, <1>10 DEF TwinInv, OpenEntries, Unremembered, Records
<1> QED  BY <1>7, <1>8, <1>9, <1>11, <1>12, <1>13 DEF TwinInv

\* Within a run the bank stands still, and the feed with it.
LEMMA FeedStands ==
    ASSUME TwinInv, UNCHANGED <<bankVars, feed, from, rank>>, todo' \subseteq todo,
           work' \subseteq work \cup todo, pc' # "idle"
    PROVE  Calendar' /\ Feeding'
BY DEF TwinInv, Calendar, Feeding, Reported, Withdrawn, bankVars

\* Taking an item off the list writes no record.
LEMMA ItemKeeps ==
    ASSUME TwinInv, NEW p \in Purchases, SkipItem(p) \/ SeenItem(p) \/ QueueItem(p)
    PROVE  TwinInv'
<1> USE DEF budgetVars, stateVars, history, Next1
<1>1. /\ UNCHANGED <<bankVars, budgetVars, stateVars, watermark, pc, feed, from, rank, out,
                     failed, delivered, faults, torn, cuts>>
      /\ pc = "import" /\ p \in todo /\ todo' = todo \ {p} /\ work' \in {work, work \cup {p}}
      /\ masked' \in BOOLEAN
  BY DEF SkipItem, SeenItem, QueueItem, AtItem, IsFirst, TwinInv, TypeOK, Known, Booked
<1>2. Calendar' /\ Feeding'
  BY <1>1, FeedStands
<1>3. Numbered' /\ OneWaits' /\ Unremembered' /\ OpenEntries'
  BY <1>1, RecordsAside
<1>4. Key(p) \in Keys /\ (Booked(p) => Identity(p) \in Identities)
  BY <1>1, KeyTyped, IdentityTyped DEF TwinInv
<1>5. Pending(p) \/ Booked(p)
  <2>1. ~Withdrawn(p) /\ bank[p] # "none"
    BY <1>1, KeyTyped DEF TwinInv
  <2> QED  BY <2>1 DEF Pending, Booked, Withdrawn, TwinInv, TypeOK
<1>6. claimed' \subseteq Rows
  <2>1. CASE SeenItem(p)
    BY <2>1, <1>4, <1>5 DEF SeenItem, TwinInv, TypeOK
  <2>2. CASE ~SeenItem(p)
    BY <2>2 DEF SkipItem, QueueItem, TwinInv, TypeOK
  <2> QED  BY <2>1, <2>2
<1>7. TypeOK'
  BY <1>1, <1>6 DEF TwinInv, TypeOK, Days, bankVars
<1> QED  BY <1>2, <1>3, <1>7 DEF TwinInv

-----------------------------------------------------------------------------
(* A batch and its rows.                                                   *)

\* New purchases of the batch listed no later than p.
Upto(p, f) == {q \in work : f[q] = 0 /\ Precedes(q, p, rank)}

\* An arrangement pairs a purchase with a row there is, each row at most once.
LEMMA Arranged ==
    ASSUME TwinInv, NEW f \in Arrangements
    PROVE  /\ \A p \in work : f[p] \in rows \cup {0}
           /\ \A p, q \in work : f[p] = f[q] /\ f[p] # 0 => p = q
           /\ 0 \notin rows
BY RowsFinite DEF Arrangements, Candidates, TwinInv, TypeOK

\* New rows are numbered apart, behind those there are.
LEMMA NumbersApart ==
    ASSUME TwinInv, NEW f \in Arrangements
    PROVE  /\ \A p \in work : f[p] # 0 => RowFor(p, f) = f[p] /\ RowFor(p, f) \in rows
           /\ \A p \in work : f[p] = 0 => /\ RowFor(p, f) = Cardinality(rows)
                                                            + Cardinality(Upto(p, f))
                                          /\ Cardinality(Upto(p, f)) \in Nat \ {0}
                                          /\ RowFor(p, f) \notin rows
           /\ \A p, q \in work : RowFor(p, f) = RowFor(q, f) => p = q
<1>1. IsFiniteSet(work) /\ work \subseteq Purchases
  BY ConstantsAssumption, FS_Subset DEF TwinInv, TypeOK
<1>2. /\ \A p \in Purchases : Precedes(p, p, rank)
      /\ \A p, q \in Purchases : Precedes(p, q, rank) \/ Precedes(q, p, rank)
      /\ \A p, q, r \in Purchases :
            Precedes(p, q, rank) /\ Precedes(q, r, rank) => Precedes(p, r, rank)
      /\ \A p, q \in Purchases : Precedes(p, q, rank) /\ Precedes(q, p, rank) => p = q
  BY Ordered DEF TwinInv, TypeOK, Feeding
<1>3. \A p \in work : f[p] # 0 => RowFor(p, f) = f[p] /\ RowFor(p, f) \in rows
  BY Arranged DEF RowFor
<1>4. Cardinality(rows) \in Nat /\ rows \subseteq 1..Cardinality(rows)
  BY RowsFinite DEF TwinInv, Numbered
<1>5. ASSUME NEW p \in work, f[p] = 0
      PROVE  /\ RowFor(p, f) = Cardinality(rows) + Cardinality(Upto(p, f))
             /\ Cardinality(Upto(p, f)) \in Nat \ {0}
             /\ RowFor(p, f) \notin rows
  <2>1. Upto(p, f) \in SUBSET work /\ p \in Upto(p, f)
    BY <1>1, <1>2, <1>5 DEF Upto
  <2>2. Cardinality(Upto(p, f)) \in 1..Cardinality(work) /\ Cardinality(work) \in Nat
    BY <1>1, <2>1, Position, FS_CardinalityType
  <2>3. RowFor(p, f) = Cardinality(rows) + Cardinality(Upto(p, f))
    BY <1>5 DEF RowFor, Upto
  <2> QED  BY <2>2, <2>3, <1>4
<1>6. ASSUME NEW p \in work, NEW q \in work, f[p] = 0, f[q] = 0, p # q, Precedes(p, q, rank)
      PROVE  RowFor(p, f) # RowFor(q, f)
  <2>1. Upto(p, f) \in SUBSET Upto(q, f)
    BY <1>1, <1>2, <1>6 DEF Upto
  <2>2. q \in Upto(q, f) /\ q \notin Upto(p, f)
    BY <1>1, <1>2, <1>6 DEF Upto
  <2>3. IsFiniteSet(Upto(q, f))
    BY <1>1, FS_Subset DEF Upto
  <2>4. Cardinality(Upto(p, f)) # Cardinality(Upto(q, f))
    BY <2>1, <2>2, <2>3, FS_Subset
  <2> QED  BY <2>4, <1>4, <1>5, <1>6
<1>7. ASSUME NEW p \in work, NEW q \in work, RowFor(p, f) = RowFor(q, f)
      PROVE  p = q
  <2>1. CASE f[p] # 0 /\ f[q] # 0
    BY <2>1, <1>3, <1>7, Arranged
  <2>2. CASE f[p] = 0 /\ f[q] = 0
    BY <2>2, <1>1, <1>2, <1>6, <1>7
  <2>3. CASE f[p] # 0 /\ f[q] = 0
    BY <2>3, <1>3, <1>5, <1>7
  <2>4. CASE f[p] = 0 /\ f[q] # 0
    BY <2>4, <1>3, <1>5, <1>7
  <2> QED  BY <2>1, <2>2, <2>3, <2>4
<1> QED  BY <1>3, <1>5, <1>7

\* The rows after a batch, or after the part of one that was written.
Grown(done, f) == rows \cup {RowFor(p, f) : p \in {q \in done : f[q] = 0}}

\* Numbers without gaps: as many rows as the last one says, if what was written
\* is the head of the batch.
LEMMA GrownCounted ==
    ASSUME TwinInv, NEW f \in Arrangements, NEW done \in SUBSET work,
           \A p \in done, q \in work : Precedes(q, p, rank) => q \in done
    PROVE  Grown(done, f) \subseteq 1..Cardinality(Grown(done, f))
<1> DEFINE new == {q \in done : f[q] = 0}
           numbers == {RowFor(p, f) : p \in new}
           number == [p \in new |-> RowFor(p, f)]
<1>1. IsFiniteSet(work) /\ new \in SUBSET work /\ IsFiniteSet(new)
  BY ConstantsAssumption, FS_Subset DEF TwinInv, TypeOK
<1>2. IsFiniteSet(rows) /\ Cardinality(rows) \in Nat /\ rows \subseteq 1..Cardinality(rows)
  BY RowsFinite DEF TwinInv, Numbered
<1>3. number \in Bijection(new, numbers)
  <2>1. number \in [new -> numbers] /\ \A r \in numbers : \E p \in new : number[p] = r
    OBVIOUS
  <2>2. \A p, q \in new : number[p] = number[q] => p = q
    BY <1>1, NumbersApart
  <2> QED  BY <2>1, <2>2 DEF Bijection, Injection, Surjection, IsInjective
<1>4. IsFiniteSet(numbers) /\ Cardinality(numbers) = Cardinality(new)
  BY <1>1, <1>3, FS_Bijection DEF ExistsBijection
<1>5. rows \cap numbers = {}
  BY <1>1, NumbersApart
<1>6. Grown(done, f) = rows \cup numbers
  BY DEF Grown
<1> HIDE DEF number
<1>7. Cardinality(rows \cup numbers) = Cardinality(rows) + Cardinality(new)
  <2>1. rows \cap numbers = {} /\ IsFiniteSet(rows) /\ IsFiniteSet(numbers)
    BY <1>2, <1>4, <1>5
  <2> HIDE DEF numbers
  <2>2. Cardinality(rows \cup numbers)
             = Cardinality(rows) + Cardinality(numbers) - Cardinality(rows \cap numbers)
    BY <2>1, FS_Union
  <2>3. Cardinality(rows \cap numbers) = 0
    BY <2>1, FS_EmptySet
  <2>4. Cardinality(numbers) \in Nat
    BY <2>1, FS_CardinalityType
  <2>5. Cardinality(numbers) = Cardinality(new)
    BY <1>4
  <2> QED  BY <2>2, <2>3, <2>4, <2>5, <1>2
<1>8. ASSUME NEW p \in new
      PROVE  RowFor(p, f) \in 1..(Cardinality(rows) + Cardinality(new))
  <2>1. Upto(p, f) \in SUBSET new
    BY DEF Upto
  <2>2. Cardinality(Upto(p, f)) <= Cardinality(new) /\ Cardinality(new) \in Nat
    BY <1>1, <2>1, FS_Subset, FS_CardinalityType
  <2>3. /\ RowFor(p, f) = Cardinality(rows) + Cardinality(Upto(p, f))
        /\ Cardinality(Upto(p, f)) \in Nat \ {0}
    BY NumbersApart
  <2> QED  BY <2>2, <2>3, <1>2
<1>9. Cardinality(new) \in Nat
  BY <1>1, FS_CardinalityType
<1> QED  BY <1>2, <1>6, <1>7, <1>8, <1>9, SMTT(30)

\* What a written batch leaves in the budget.
LEMMA Written ==
    ASSUME TwinInv, NEW f \in Arrangements, NEW done \in SUBSET work, Write(done, f),
           \A p \in done, q \in work : Precedes(q, p, rank) => q \in done
    PROVE  /\ rows' = Grown(done, f) /\ rows \subseteq rows' /\ rows' \subseteq Rows
           /\ rowDay' \in [Rows -> 0..MaxDay]
           /\ cleared' \subseteq rows'
           /\ rows' \subseteq 1..Cardinality(rows')
<1>1. rows' = Grown(done, f) /\ rows' \subseteq Rows
  BY DEF Write, Grown
<1>2. rows \subseteq rows'
  BY <1>1 DEF Grown
<1>3. rows' \subseteq 1..Cardinality(rows')
  BY <1>1, GrownCounted
<1>4. cleared' \subseteq rows'
  BY <1>1, NumbersApart DEF Write, Grown, TwinInv, TypeOK
<1>5. rowDay' \in [Rows -> 0..MaxDay]
  <2>1. rowDay \in [Rows -> 0..MaxDay] /\ day \in [Purchases -> 0..MaxDay]
        /\ work \subseteq Purchases
    BY DEF TwinInv, TypeOK
  <2> DEFINE new == {p \in done : f[p] = 0}
  <2>2. rowDay' = [r \in Rows |-> IF \E p \in new : RowFor(p, f) = r
                                  THEN day[CHOOSE p \in new : RowFor(p, f) = r]
                                  ELSE rowDay[r]]
    BY DEF Write
  <2>3. ASSUME NEW r \in Rows, \E p \in new : RowFor(p, f) = r
        PROVE  (CHOOSE p \in new : RowFor(p, f) = r) \in Purchases
    BY <2>3, <2>1
  <2> QED  BY <2>1, <2>2, <2>3
<1> QED  BY <1>1, <1>2, <1>3, <1>4, <1>5

-----------------------------------------------------------------------------
(* A batch is written, or fails half-way.                                  *)

\* The whole batch is written; what it says of each purchase is not remembered yet.
LEMMA FlushKeeps == ASSUME TwinInv, Flush PROVE TwinInv'
<1> USE DEF bankVars, stateVars, history, FlushDue
<1>1. PICK f \in Arrangements :
          /\ Write(work, f)
          /\ out' = [p \in Purchases |-> IF p \in work
                                         THEN [as |-> Decided(p, f), row |-> RowFor(p, f)]
                                         ELSE out[p]]
  BY DEF Flush
<1>2. /\ UNCHANGED <<bankVars, stateVars, watermark, feed, from, rank, todo, work, claimed,
                     failed, history>>
      /\ pc' = "settle" /\ pc = "import"
  BY DEF Flush
<1>3. /\ rows \subseteq rows' /\ rows' \subseteq Rows
      /\ rowDay' \in [Rows -> 0..MaxDay] /\ cleared' \subseteq rows'
      /\ rows' \subseteq 1..Cardinality(rows')
      /\ rows' = Grown(work, f)
  BY <1>1, Written
<1>4. \A p \in work : RowFor(p, f) \in rows'
  BY <1>3, NumbersApart DEF Grown
<1>5. \A p \in work : out'[p] = [as |-> Decided(p, f), row |-> RowFor(p, f)]
  BY <1>1 DEF TwinInv, TypeOK
<1>5a. ASSUME NEW p \in work
       PROVE  out'[p].row = RowFor(p, f) /\ out'[p].as = Decided(p, f)
  <2>1. PICK a, n : a = Decided(p, f) /\ n = RowFor(p, f)
    OBVIOUS
  <2>2. out'[p] = [as |-> a, row |-> n]
    BY <1>5, <2>1
  <2>3. out'[p].as = a /\ out'[p].row = n
    BY <2>2
  <2> QED  BY <2>1, <2>3
<1>6. out' \in [Purchases -> [as : {"none", "created", "adopted", "held"},
                              row : Rows \cup {0}]]
  <2>1. out \in [Purchases -> [as : {"none", "created", "adopted", "held"},
                               row : Rows \cup {0}]]
    BY DEF TwinInv, TypeOK
  <2>2. \A p : Decided(p, f) \in {"none", "created", "adopted", "held"}
    BY DEF Decided
  <2>3. \A p \in work : RowFor(p, f) \in Rows \cup {0}
    BY <1>3, <1>4
  <2> QED  BY <1>1, <2>1, <2>2, <2>3
<1>7. TypeOK'
  BY <1>2, <1>3, <1>6 DEF TwinInv, TypeOK, Days
<1>8. Calendar' /\ Feeding'
  BY <1>2, FeedStands
<1>9. Numbered'
  BY <1>2, <1>3 DEF TwinInv, Numbered
<1>10. OneWaits' /\ OpenEntries'
  BY <1>2 DEF TwinInv, OneWaits, OpenEntries, Records
<1>11. ASSUME NEW p \in work, Decided(p, f) = "created" PROVE Fresh(out[p].row)'
  <2>1. f[p] = 0
    BY <1>11 DEF Decided
  <2>2. RowFor(p, f) \notin rows /\ RowFor(p, f) \in Rows
    BY <2>1, <1>3, <1>4, NumbersApart
  <2>3. PICK r : r = RowFor(p, f)
    OBVIOUS
  <2>4. r \in Rows \ rows /\ 0 \notin Rows
    BY <2>2, <2>3, RowsFinite DEF TwinInv
  <2>5. booked[r] = NoBooking
    BY <2>4 DEF TwinInv, Numbered
  <2>6. Entries(r) = {} /\ Records(r) = {}
    BY <2>4 DEF TwinInv, Numbered, Entries, Records
  <2>7. Fresh(r)'
    BY <2>5, <2>6, <1>2 DEF Fresh, Entries, Records
  <2>8. RowFor(p, f) = r /\ out'[p].row = r
    BY <2>3, <1>5a
  <2>9. Fresh(out[p].row)'
    BY <2>7, <2>8 DEF Fresh, Entries, Records
  <2> QED  BY <2>9
<1>12. Unremembered'
  <2>1. \A p \in work : out'[p].row = RowFor(p, f) /\ out'[p].as = Decided(p, f)
    BY <1>5a
  <2>2. \A p \in work' : (out[p].as)' = "created" => Fresh(out[p].row)'
    BY <2>1, <1>2, <1>11
  <2>3. \A p \in work' : (out[p].row)' \in rows'
    BY <2>1, <1>2, <1>4
  <2>4. \A p, q \in work' : (out[p].row)' = (out[q].row)' => p = q
    BY <2>1, <1>2, NumbersApart
  <2> QED  BY <2>2, <2>3, <2>4 DEF Unremembered
<1> QED  BY <1>7, <1>8, <1>9, <1>10, <1>12 DEF TwinInv

\* A refused batch leaves the rows it wrote and nothing that remembers them.
LEMMA FlushFailsKeeps == ASSUME TwinInv, FlushFails PROVE TwinInv'
<1> USE DEF bankVars, stateVars, FlushDue
<1>1. PICK f \in Arrangements, last \in work :
          Write({p \in work : p # last /\ Precedes(p, last, rank)}, f)
  BY DEF FlushFails
<1> DEFINE done == {p \in work : p # last /\ Precedes(p, last, rank)}
<1>2. /\ UNCHANGED <<bankVars, stateVars, watermark, pc, feed, from, rank, todo, claimed, out,
                     delivered, torn, cuts, masked>>
      /\ work' = {} /\ failed' = TRUE /\ pc = "import"
      /\ faults' \in 0..MaxFaults /\ cuts' \in 0..faults'
  BY ConstantsAssumption DEF FlushFails, Fault, Disturbed, TwinInv, TypeOK
<1>3. \A p \in done, q \in work : Precedes(q, p, rank) => q \in done
  <2>1. work \subseteq Purchases /\ last \in Purchases
    BY DEF TwinInv, TypeOK
  <2>2. /\ \A p, q, r \in Purchases :
              Precedes(p, q, rank) /\ Precedes(q, r, rank) => Precedes(p, r, rank)
        /\ \A p, q \in Purchases : Precedes(p, q, rank) /\ Precedes(q, p, rank) => p = q
    BY Ordered DEF TwinInv, TypeOK, Feeding
  <2> QED  BY <2>1, <2>2
<1>4. done \in SUBSET work /\ Write(done, f)
  BY <1>1
<1> HIDE DEF done
<1>5. /\ rows \subseteq rows' /\ rows' \subseteq Rows
      /\ rowDay' \in [Rows -> 0..MaxDay] /\ cleared' \subseteq rows'
      /\ rows' \subseteq 1..Cardinality(rows')
  BY <1>3, <1>4, Written
<1>6. TypeOK'
  BY <1>2, <1>5 DEF TwinInv, TypeOK, Days
<1>7. Calendar' /\ Feeding'
  BY <1>2, FeedStands
<1>8. Numbered'
  BY <1>2, <1>5 DEF TwinInv, Numbered
<1>9. OneWaits' /\ OpenEntries' /\ Unremembered'
  BY <1>2 DEF TwinInv, OneWaits, OpenEntries, Records, Unremembered
<1> QED  BY <1>6, <1>7, <1>8, <1>9 DEF TwinInv

-----------------------------------------------------------------------------
(* What is remembered of a transaction, and the end of a run.              *)

\* A run that ended, or died, leaves the rows and the records as they are.
LEMMA EndKeeps ==
    ASSUME TwinInv, EndRun, UNCHANGED bankVars
    PROVE  /\ Calendar' /\ Feeding' /\ Unremembered'
           /\ todo' \subseteq feed' /\ work' \subseteq feed' /\ claimed' \subseteq Rows
           /\ pc' = "idle" /\ feed' \subseteq Purchases /\ rank' \in [Purchases -> Purchases]
           /\ failed' \in BOOLEAN /\ from' \in Days
           /\ out' \in [Purchases -> [as : {"none", "created", "adopted", "held"},
                                      row : Rows \cup {0}]]
<1>1. IsInjective(Stable) /\ Stable \in [Purchases -> Purchases]
  BY DEF IsInjective, Stable
<1>2. NoOutcome \in [Purchases -> [as : {"none", "created", "adopted", "held"},
                                   row : Rows \cup {0}]]
  BY DEF NoOutcome
<1>3. 1 \in Days
  BY ConstantsAssumption DEF Days
<1> QED
  BY <1>1, <1>2, <1>3 DEF EndRun, TwinInv, Calendar, Feeding, Unremembered, Reported, bankVars

\* The end of a run, and a death between two steps.
LEMMA EndsKeep == ASSUME TwinInv, Conclude \/ Crash PROVE TwinInv'
<1> USE DEF bankVars, budgetVars, stateVars
<1>1. /\ EndRun /\ UNCHANGED <<bankVars, budgetVars, stateVars, torn, cuts, masked>>
      /\ watermark' \in {watermark, today} /\ faults' \in 0..MaxFaults /\ cuts' \in 0..faults'
      /\ delivered' \subseteq delivered \cup feed
  BY ConstantsAssumption DEF Conclude, Crash, Fault, Disturbed, TwinInv, TypeOK
<1>2. pc' = "idle"
  BY <1>1 DEF EndRun
<1>3. Numbered' /\ OneWaits' /\ OpenEntries'
  BY <1>1, <1>2, RecordsAside
<1>4. TypeOK'
  BY <1>1, EndKeeps DEF TwinInv, TypeOK, Days
<1> QED  BY <1>1, <1>3, <1>4, EndKeeps DEF TwinInv

\* The booking of a known authorisation: its entry, its row, its key.
LEMMA ConfirmedItem ==
    ASSUME TwinInv, NEW p \in Purchases, AtItem(p), Confirms(p)
    PROVE  /\ Key(p) \in Keys /\ Identity(p) \in Identities
           /\ pend[Key(p)] \in rows /\ pend[Key(p)] \in Rows /\ p \in todo
           /\ pend[Key(p)] # 0
BY KeyTyped, IdentityTyped
   DEF TwinInv, TypeOK, AtItem, IsFirst, Confirms, Numbered

\* An entry goes, and its row may be booked under its key, and recognised by the
\* identity of the booking: no other entry waits for that row.
LEMMA EntryGoes ==
    ASSUME TwinInv, NEW k \in Keys, NEW r \in rows, pend[k] = r,
           pend' = [pend EXCEPT ![k] = 0],
           booked' = booked \/ booked' = [booked EXCEPT ![r] = k],
           identity' = identity \/ \E i \in Identities : identity' = [identity EXCEPT ![i] = r],
           rows' = rows, torn' = torn
    PROVE  /\ pend' \in [Keys -> Rows \cup {0}]
           /\ identity' \in [Identities -> Rows \cup {0}]
           /\ booked' \in [Rows -> Keys \cup {NoBooking, Unkeyed}]
           /\ Numbered' /\ OneWaits' /\ OpenEntries'
           /\ \A x \in rows : x # r /\ Fresh(x) => Fresh(x)'
<1>1. r \in Rows /\ 0 \notin Rows
  BY RowsFinite DEF TwinInv, TypeOK
<1>2. /\ pend' \in [Keys -> Rows \cup {0}]
      /\ identity' \in [Identities -> Rows \cup {0}]
      /\ booked' \in [Rows -> Keys \cup {NoBooking, Unkeyed}]
  <2>1. /\ pend \in [Keys -> Rows \cup {0}]
        /\ identity \in [Identities -> Rows \cup {0}]
        /\ booked \in [Rows -> Keys \cup {NoBooking, Unkeyed}]
    BY DEF TwinInv, TypeOK
  <2>2. pend' \in [Keys -> Rows \cup {0}]
    BY <2>1
  <2>3. identity' \in [Identities -> Rows \cup {0}]
    BY <1>1, <2>1
  <2>4. booked' \in [Rows -> Keys \cup {NoBooking, Unkeyed}]
    BY <2>1
  <2> QED  BY <2>2, <2>3, <2>4
<1>3. /\ pend'[k] = 0 /\ \A j \in Keys : j # k => pend'[j] = pend[j]
      /\ \A x \in Rows : x # r => booked'[x] = booked[x]
      /\ \A i \in Identities : identity'[i] = identity[i] \/ identity'[i] = r
  BY <1>1 DEF TwinInv, TypeOK
<1>4. \A j \in Keys : pend'[j] # 0 => pend'[j] = pend[j] /\ pend[j] # r /\ pend[j] \in rows
  BY <1>1, <1>3 DEF TwinInv, OneWaits, Numbered
<1>5. Numbered'
  BY <1>3, <1>4 DEF TwinInv, Numbered
<1>6. OneWaits'
  BY <1>3, <1>4 DEF TwinInv, OneWaits
<1>7. \A x : x # r => Records(x)' \subseteq Records(x)
  BY <1>3 DEF Records
<1>8. ASSUME ~torn', NEW j \in Keys, pend'[j] # 0
      PROVE  booked'[pend'[j]] = NoBooking /\ Records(pend[j])' = {}
  <2>1. PICK x : x = pend[j]
    OBVIOUS
  <2>2. x \in Rows /\ x # r /\ x # 0 /\ pend'[j] = x /\ pend[j] = x
    BY <2>1, <1>4, <1>8 DEF TwinInv, TypeOK
  <2>3. booked[x] = NoBooking /\ Records(x) = {}
    BY <2>2, <1>8 DEF TwinInv, OpenEntries
  <2>4. booked'[x] = NoBooking /\ Records(x)' = {}
    BY <2>2, <2>3, <1>3, <1>7
  <2> QED  BY <2>2, <2>4 DEF Records
<1>9. OpenEntries'
  BY <1>8 DEF OpenEntries
<1>10. ASSUME NEW x \in rows, x # r, Fresh(x) PROVE Fresh(x)'
  <2>1. x \in Rows /\ x # 0
    BY <1>1 DEF TwinInv, TypeOK
  <2>2. booked'[x] = NoBooking
    BY <2>1, <1>3, <1>10 DEF Fresh
  <2>3. Entries(x)' = {}
    BY <2>1, <1>3, <1>10 DEF Fresh, Entries
  <2>4. Records(x)' = {}
    BY <1>7, <1>10 DEF Fresh
  <2> QED  BY <2>2, <2>3, <2>4 DEF Fresh
<1> QED  BY <1>2, <1>5, <1>6, <1>9, <1>10

\* The confirmation of an authorisation.
LEMMA ConfirmKeeps == ASSUME TwinInv, NEW p \in Purchases, Confirm(p) PROVE TwinInv'
<1> USE DEF bankVars, budgetVars, stateVars, history, Next1
<1>1. PICK k, r, i : k = Key(p) /\ r = pend[k] /\ i = Identity(p)
  OBVIOUS
<1>2. /\ k \in Keys /\ r \in rows /\ r \in Rows /\ i \in Identities /\ p \in todo
  BY <1>1, ConfirmedItem DEF Confirm
<1>3. /\ UNCHANGED <<bankVars, rows, rowDay, held, watermark, pc, feed, from, rank, work,
                     out, failed, history>>
      /\ pc = "import" /\ todo' = todo \ {p}
      /\ cleared' = cleared \cup {r} /\ claimed' = claimed \cup {r}
      /\ pend' = [pend EXCEPT ![k] = 0]
      /\ booked' = [booked EXCEPT ![r] = k]
      /\ identity' = [identity EXCEPT ![i] = r]
  BY <1>1 DEF Confirm, AtItem
<1>4. /\ pend' \in [Keys -> Rows \cup {0}]
      /\ identity' \in [Identities -> Rows \cup {0}]
      /\ booked' \in [Rows -> Keys \cup {NoBooking, Unkeyed}]
      /\ Numbered' /\ OneWaits' /\ OpenEntries'
  BY <1>1, <1>2, <1>3, EntryGoes
<1>5. TypeOK'
  BY <1>2, <1>3, <1>4 DEF TwinInv, TypeOK, Days
<1>6. Calendar' /\ Feeding'
  BY <1>3, FeedStands
<1>7. Unremembered'
  BY <1>3 DEF Unremembered
<1> QED  BY <1>4, <1>5, <1>6, <1>7 DEF TwinInv

\* A death within one: the row is settled, the entry may wait still.
LEMMA CrashConfirmingKeeps ==
    ASSUME TwinInv, NEW p \in Purchases, CrashConfirming(p)
    PROVE  TwinInv'
<1>1. PICK k, r : k = Key(p) /\ r = pend[k]
  OBVIOUS
<1>2. k \in Keys /\ r \in rows /\ r \in Rows
  BY <1>1, ConfirmedItem DEF CrashConfirming
<1>3. /\ EndRun /\ UNCHANGED <<bankVars, rows, rowDay, identity, held, watermark,
                               delivered, torn, masked>>
      /\ cleared' = cleared \cup {r}
      /\ faults' \in 0..MaxFaults /\ cuts' \in 0..faults'
      /\ \/ pend' = pend /\ booked' = booked
         \/ /\ pend' = [pend EXCEPT ![k] = 0]
            /\ booked' = booked \/ booked' = [booked EXCEPT ![r] = k]
  BY <1>1, ConstantsAssumption DEF CrashConfirming, Fault, Disturbed, TwinInv, TypeOK
<1>4. /\ pend' \in [Keys -> Rows \cup {0}]
      /\ booked' \in [Rows -> Keys \cup {NoBooking, Unkeyed}]
      /\ Numbered' /\ OneWaits' /\ OpenEntries'
  <2>1. CASE pend' = pend /\ booked' = booked
    <3>1. pc' = "idle"
      BY <1>3 DEF EndRun
    <3> QED  BY <2>1, <3>1, <1>3, RecordsAside DEF TwinInv, TypeOK
  <2>2. CASE /\ pend' = [pend EXCEPT ![k] = 0]
             /\ booked' = booked \/ booked' = [booked EXCEPT ![r] = k]
    BY <2>2, <1>1, <1>2, <1>3, EntryGoes
  <2> QED  BY <1>3, <2>1, <2>2
<1>5. TypeOK'
  BY <1>2, <1>3, <1>4, EndKeeps DEF TwinInv, TypeOK, Days, bankVars
<1> QED  BY <1>3, <1>4, <1>5, EndKeeps DEF TwinInv

-----------------------------------------------------------------------------
(* A written batch is remembered, one purchase at a time.                  *)

\* Whoever is next has a row of its own.
LEMMA NextSettled ==
    ASSUME TwinInv, NEW p \in Purchases, AtSettle(p)
    PROVE  /\ p \in work /\ pc = "settle" /\ out[p].row \in rows /\ out[p].row \in Rows
           /\ Key(p) \in Keys /\ (Booked(p) => Identity(p) \in Identities)
           /\ \A q \in work : q # p => out[q].row # out[p].row
           /\ out[p].as = "created" => Fresh(out[p].row)
BY KeyTyped, IdentityTyped DEF TwinInv, TypeOK, AtSettle, IsFirst, Unremembered

\* The others of the batch keep their rows, and the new ones stay fresh.
LEMMA OthersWait ==
    ASSUME TwinInv, NEW p \in Purchases, AtSettle(p), Settled(p),
           rows' = rows, out' = out,
           \A x \in rows : x # out[p].row /\ Fresh(x) => Fresh(x)'
    PROVE  Unremembered'
<1>1. work' = work \ {p}
  BY DEF Settled
<1>2. ASSUME NEW q \in work', out[q].as = "created" PROVE Fresh(out[q].row)'
  <2>1. PICK x : x = out[q].row
    OBVIOUS
  <2>2. q \in work /\ q # p /\ x \in rows /\ x # out[p].row /\ Fresh(x)
    BY <1>1, <1>2, <2>1, NextSettled DEF TwinInv, Unremembered
  <2>3. Fresh(x)'
    BY <2>2
  <2>4. out'[q].row = x
    BY <2>1
  <2> QED  BY <2>3, <2>4 DEF Fresh, Entries, Records
<1>3. pc = "settle"
  BY NextSettled
<1> QED  BY <1>1, <1>2, <1>3 DEF TwinInv, Unremembered

\* What a settling step leaves of the run.
LEMMA SettledRun ==
    ASSUME TwinInv, NEW p \in Purchases, AtSettle(p), Settled(p),
           UNCHANGED <<bankVars, feed, from, rank, todo>>
    PROVE  /\ Calendar' /\ Feeding' /\ pc' \in {"import", "settle"}
           /\ work' \subseteq work
BY FeedStands DEF Settled

\* A held purchase is remembered by its key alone.
LEMMA HoldKeeps == ASSUME TwinInv, NEW p \in Purchases, Hold(p) PROVE TwinInv'
<1> USE DEF budgetVars, history
<1>1. /\ AtSettle(p) /\ Settled(p) /\ held' = held \cup {Key(p)}
      /\ UNCHANGED <<bankVars, budgetVars, pend, identity, booked, watermark, feed, from, rank,
                     todo, claimed, out, failed, history>>
  BY DEF Hold
<1>2. Calendar' /\ Feeding' /\ pc' \in {"import", "settle"} /\ work' \subseteq work
  BY <1>1, SettledRun
<1>3. Key(p) \in Keys
  BY <1>1, NextSettled
<1>4. TypeOK'
  BY <1>1, <1>2, <1>3 DEF TwinInv, TypeOK, Days, bankVars
<1>5. Numbered' /\ OneWaits' /\ OpenEntries'
  BY <1>1 DEF TwinInv, Numbered, OneWaits, OpenEntries, Records
<1>6. \A x \in rows : Fresh(x) => Fresh(x)'
  BY <1>1 DEF Fresh, Entries, Records
<1>7. Unremembered'
  BY <1>1, <1>6, OthersWait
<1> QED  BY <1>2, <1>4, <1>5, <1>7 DEF TwinInv

\* An authorisation whose row is new waits for its booking under its key.
LEMMA SettlePendingKeeps ==
    ASSUME TwinInv, NEW p \in Purchases, SettlePending(p)
    PROVE  TwinInv'
<1> USE DEF budgetVars, history
<1>1. PICK r, k : r = out[p].row /\ k = Key(p)
  OBVIOUS
<1>2. /\ AtSettle(p) /\ Settled(p) /\ claimed' = claimed \cup {r}
      /\ UNCHANGED <<bankVars, budgetVars, identity, booked, held, watermark, feed, from, rank,
                     todo, out, failed, history>>
      /\ pend' = IF out[p].as = "created" THEN [pend EXCEPT ![k] = r] ELSE pend
  BY <1>1 DEF SettlePending
<1>3. /\ r \in rows /\ r \in Rows /\ k \in Keys /\ r # 0
      /\ out[p].as = "created" => Fresh(r)
  BY <1>1, <1>2, NextSettled, RowsFinite DEF TwinInv
<1>4. Calendar' /\ Feeding' /\ pc' \in {"import", "settle"} /\ work' \subseteq work
  BY <1>2, SettledRun
<1>5. pend' \in [Keys -> Rows \cup {0}]
  BY <1>2, <1>3 DEF TwinInv, TypeOK
<1>6. TypeOK'
  BY <1>2, <1>3, <1>4, <1>5 DEF TwinInv, TypeOK, Days, bankVars
<1>7. CASE out[p].as # "created"
  <2>1. Numbered' /\ OneWaits' /\ OpenEntries'
    BY <1>2, <1>7 DEF TwinInv, Numbered, OneWaits, OpenEntries, Records
  <2>2. \A x \in rows : Fresh(x) => Fresh(x)'
    BY <1>2, <1>7 DEF Fresh, Entries, Records
  <2>3. Unremembered'
    BY <1>2, <2>2, OthersWait
  <2> QED  BY <1>4, <1>6, <2>1, <2>3 DEF TwinInv
<1>8. CASE out[p].as = "created"
  <2>1. Fresh(r) /\ pend'[k] = r /\ \A j \in Keys : j # k => pend'[j] = pend[j] /\ pend[j] # r
    BY <1>2, <1>3, <1>8 DEF TwinInv, TypeOK, Fresh, Entries
  <2>2. Numbered'
    BY <2>1, <1>2, <1>3 DEF TwinInv, Numbered
  <2>3. OneWaits'
    BY <2>1, <1>3 DEF TwinInv, OneWaits
  <2>4. ASSUME ~torn', NEW j \in Keys, pend'[j] # 0
        PROVE  booked'[pend'[j]] = NoBooking /\ Records(pend[j])' = {}
    <3>1. PICK x : x = pend'[j]
      OBVIOUS
    <3>2. booked[x] = NoBooking /\ Records(x) = {}
      BY <2>1, <2>4, <3>1, <1>2 DEF TwinInv, OpenEntries, Fresh
    <3> QED  BY <3>1, <3>2, <1>2 DEF Records
  <2>5. OpenEntries'
    BY <2>4 DEF OpenEntries
  <2>6. \A x \in rows : x # r /\ Fresh(x) => Fresh(x)'
    BY <2>1, <1>2 DEF Fresh, Entries, Records
  <2>7. Unremembered'
    BY <1>1, <1>2, <2>6, OthersWait
  <2> QED  BY <1>4, <1>6, <2>2, <2>3, <2>5, <2>7 DEF TwinInv
<1> QED  BY <1>7, <1>8

\* A booking nothing waits for: its row is recognised, and may be marked.
LEMMA NothingWaits ==
    ASSUME TwinInv, NEW r \in rows, Entries(r) = {}, pend' = pend,
           NEW i \in Identities, identity' = [identity EXCEPT ![i] = r],
           booked' = booked \/ booked' = [booked EXCEPT ![r] = Unkeyed],
           rows' = rows, torn' = torn
    PROVE  /\ identity' \in [Identities -> Rows \cup {0}]
           /\ booked' \in [Rows -> Keys \cup {NoBooking, Unkeyed}]
           /\ Numbered' /\ OneWaits' /\ OpenEntries'
           /\ \A x \in rows : x # r /\ Fresh(x) => Fresh(x)'
<1>1. r \in Rows /\ r # 0
  BY RowsFinite DEF TwinInv, TypeOK
<1>2. /\ identity' \in [Identities -> Rows \cup {0}]
      /\ booked' \in [Rows -> Keys \cup {NoBooking, Unkeyed}]
  BY <1>1 DEF TwinInv, TypeOK
<1>3. /\ \A x \in Rows : x # r => booked'[x] = booked[x]
      /\ \A j \in Identities : identity'[j] = identity[j] \/ identity'[j] = r
      /\ \A j \in Keys : pend[j] # r
  BY <1>1 DEF TwinInv, TypeOK, Entries
<1>4. Numbered' /\ OneWaits'
  BY <1>3 DEF TwinInv, Numbered, OneWaits
<1>5. \A x : x # r => Records(x)' \subseteq Records(x)
  BY <1>3 DEF Records
<1>6. ASSUME ~torn', NEW j \in Keys, pend'[j] # 0
      PROVE  booked'[pend'[j]] = NoBooking /\ Records(pend[j])' = {}
  <2>1. PICK x : x = pend[j]
    OBVIOUS
  <2>2. x \in Rows /\ x # r /\ booked[x] = NoBooking /\ Records(x) = {}
    BY <2>1, <1>3, <1>6 DEF TwinInv, TypeOK, OpenEntries, Numbered
  <2>3. booked'[x] = NoBooking /\ Records(x)' = {}
    BY <2>2, <1>3, <1>5
  <2> QED  BY <2>1, <2>3 DEF Records
<1>7. OpenEntries'
  BY <1>6 DEF OpenEntries
<1>8. ASSUME NEW x \in rows, x # r, Fresh(x) PROVE Fresh(x)'
  <2>1. booked'[x] = NoBooking /\ Records(x)' = {}
    BY <1>3, <1>5, <1>8 DEF Fresh, TwinInv, TypeOK
  <2>2. Entries(x)' = {}
    BY <1>8 DEF Fresh, Entries
  <2> QED  BY <2>1, <2>2 DEF Fresh
<1> QED  BY <1>2, <1>4, <1>7, <1>8

\* A booking is remembered by its identity, and its row by the entry it took.
LEMMA SettleBookedKeeps ==
    ASSUME TwinInv, NEW p \in Purchases, SettleBooked(p)
    PROVE  TwinInv'
<1> USE DEF budgetVars, history
<1>1. PICK r, i : r = out[p].row /\ i = Identity(p)
  OBVIOUS
<1>2. /\ AtSettle(p) /\ Settled(p) /\ claimed' = claimed \cup {r}
      /\ UNCHANGED <<bankVars, budgetVars, held, watermark, feed, from, rank, todo, out, failed,
                     history>>
      /\ identity' = [identity EXCEPT ![i] = r]
      /\ \/ /\ out[p].as = "created" \/ Entries(r) = {}
            /\ booked' = MarkBooked(r)
            /\ pend' = pend
         \/ \E k \in Entries(r) : /\ pend' = [pend EXCEPT ![k] = 0]
                                  /\ booked' = [booked EXCEPT ![r] = k]
  BY <1>1 DEF SettleBooked
<1>3. /\ r \in rows /\ r \in Rows /\ i \in Identities
      /\ out[p].as = "created" => Fresh(r)
  BY <1>1, <1>2, NextSettled DEF SettleBooked
<1>4. Calendar' /\ Feeding' /\ pc' \in {"import", "settle"} /\ work' \subseteq work
  BY <1>2, SettledRun
<1>5. /\ pend' \in [Keys -> Rows \cup {0}]
      /\ identity' \in [Identities -> Rows \cup {0}]
      /\ booked' \in [Rows -> Keys \cup {NoBooking, Unkeyed}]
      /\ Numbered' /\ OneWaits' /\ OpenEntries'
      /\ \A x \in rows : x # r /\ Fresh(x) => Fresh(x)'
  <2>1. CASE /\ out[p].as = "created" \/ Entries(r) = {}
             /\ booked' = MarkBooked(r) /\ pend' = pend
    <3>1. Entries(r) = {}
      BY <2>1, <1>3 DEF Fresh
    <3>2. booked' = booked \/ booked' = [booked EXCEPT ![r] = Unkeyed]
      BY <2>1 DEF MarkBooked
    <3>3. pend' \in [Keys -> Rows \cup {0}]
      BY <2>1 DEF TwinInv, TypeOK
    <3> QED  BY <2>1, <3>1, <3>2, <3>3, <1>2, <1>3, NothingWaits
  <2>2. ASSUME NEW k \in Entries(r), pend' = [pend EXCEPT ![k] = 0],
               booked' = [booked EXCEPT ![r] = k]
        PROVE  <1>5!:
    <3>1. k \in Keys /\ pend[k] = r
      BY <2>2 DEF Entries
    <3> QED  BY <2>2, <3>1, <1>2, <1>3, EntryGoes
  <2> QED  BY <1>2, <2>1, <2>2
<1>6. TypeOK'
  BY <1>2, <1>3, <1>4, <1>5 DEF TwinInv, TypeOK, Days, bankVars
<1>7. Unremembered'
  BY <1>1, <1>2, <1>5, OthersWait
<1> QED  BY <1>4, <1>5, <1>6, <1>7 DEF TwinInv

\* A death within: between the identity and the entry it leaves a row settled
\* that an authorisation still waits for, and from then on the state is torn.
LEMMA CrashSettlingKeeps ==
    ASSUME TwinInv, NEW p \in Purchases, CrashSettling(p)
    PROVE  TwinInv'
<1>1. PICK r, i : r = out[p].row /\ i = Identity(p)
  OBVIOUS
<1>2. /\ EndRun /\ AtSettle(p) /\ Booked(p)
      /\ UNCHANGED <<bankVars, budgetVars, booked, held, watermark, delivered, cuts, masked>>
      /\ identity' = [identity EXCEPT ![i] = r]
      /\ faults' \in 0..MaxFaults /\ cuts' \in 0..faults'
      /\ \/ pend' = pend /\ torn' = (torn \/ Entries(r) # {})
         \/ torn' = torn /\ \E k \in Entries(r) : pend' = [pend EXCEPT ![k] = 0]
  BY <1>1, ConstantsAssumption DEF CrashSettling, Fault, Disturbed, TwinInv, TypeOK
<1>3. r \in rows /\ r \in Rows /\ i \in Identities
  BY <1>1, <1>2, NextSettled
<1>4. rows' = rows /\ booked' = booked
  BY <1>2 DEF budgetVars
<1>5. /\ pend' \in [Keys -> Rows \cup {0}]
      /\ identity' \in [Identities -> Rows \cup {0}]
      /\ torn' \in BOOLEAN
      /\ Numbered' /\ OneWaits' /\ OpenEntries'
  <2>1. CASE pend' = pend /\ Entries(r) # {} /\ torn'
    <3>1. /\ identity' \in [Identities -> Rows \cup {0}]
          /\ \A j \in Identities : identity'[j] \in {identity[j], r}
      BY <1>2, <1>3 DEF TwinInv, TypeOK
    <3>2. Numbered' /\ OneWaits'
      BY <2>1, <3>1, <1>3, <1>4 DEF TwinInv, Numbered, OneWaits
    <3> QED  BY <2>1, <3>1, <3>2 DEF OpenEntries, TwinInv, TypeOK
  <2>2. CASE pend' = pend /\ Entries(r) = {} /\ torn' = torn
    BY <2>2, <1>2, <1>3, <1>4, NothingWaits DEF TwinInv, TypeOK
  <2>3. ASSUME NEW k \in Entries(r), pend' = [pend EXCEPT ![k] = 0], torn' = torn
        PROVE  <1>5!:
    <3>1. k \in Keys /\ pend[k] = r
      BY <2>3 DEF Entries
    <3>2. torn' \in BOOLEAN
      BY <2>3 DEF TwinInv, TypeOK
    <3> QED  BY <2>3, <3>1, <3>2, <1>2, <1>3, <1>4, EntryGoes
  <2>4. torn \in BOOLEAN
    BY DEF TwinInv, TypeOK
  <2> QED  BY <1>2, <2>1, <2>2, <2>3, <2>4
<1>6. TypeOK'
  BY <1>2, <1>5, EndKeeps DEF TwinInv, TypeOK, Days, bankVars, budgetVars
<1> QED  BY <1>2, <1>5, <1>6, EndKeeps DEF TwinInv

-----------------------------------------------------------------------------
(* The theorems.                                                           *)

\* Every step keeps what holds between the steps of a run.
LEMMA TwinStep == TwinInv /\ [Next]_vars => TwinInv'
<1> SUFFICES ASSUME TwinInv, [Next]_vars PROVE TwinInv'
  OBVIOUS
<1>1. CASE BankStep
  BY <1>1, BankKeeps
<1>2. ASSUME NEW order \in Orders, Fetch(order) PROVE TwinInv'
  BY <1>2, FetchKeeps
<1>3. ASSUME NEW p \in Purchases, SkipItem(p) \/ SeenItem(p) \/ QueueItem(p) PROVE TwinInv'
  BY <1>3, ItemKeeps
<1>4. ASSUME NEW p \in Purchases, Confirm(p) PROVE TwinInv'
  BY <1>4, ConfirmKeeps
<1>5. ASSUME NEW p \in Purchases, SettlePending(p) PROVE TwinInv'
  BY <1>5, SettlePendingKeeps
<1>6. ASSUME NEW p \in Purchases, SettleBooked(p) PROVE TwinInv'
  BY <1>6, SettleBookedKeeps
<1>7. ASSUME NEW p \in Purchases, Hold(p) PROVE TwinInv'
  BY <1>7, HoldKeeps
<1>8. CASE Flush
  BY <1>8, FlushKeeps
<1>9. CASE Conclude \/ Crash
  BY <1>9, EndsKeep
<1>10. CASE FlushFails
  BY <1>10, FlushFailsKeeps
<1>11. ASSUME NEW p \in Purchases, CrashConfirming(p) PROVE TwinInv'
  BY <1>11, CrashConfirmingKeeps
<1>12. ASSUME NEW p \in Purchases, CrashSettling(p) PROVE TwinInv'
  BY <1>12, CrashSettlingKeeps
<1>13. CASE UNCHANGED vars
  BY <1>13 DEF vars, bankVars, budgetVars, stateVars, runVars, history, TwinInv, TypeOK, Days,
     Calendar, Feeding, Reported, Withdrawn, Numbered, OneWaits, Unremembered, Fresh, Entries,
     Records, OpenEntries
<1> QED
  BY <1>1, <1>2, <1>3, <1>4, <1>5, <1>6, <1>7, <1>8, <1>9, <1>10, <1>11, <1>12, <1>13
  DEF Next, RunStep, FaultStep

\* The invariant of a run over purchases that look alike.
LEMMA TwinHolds == Spec => []TwinInv
<1> QED  BY TwinInit, TwinStep, PTL DEF Spec

\* No entry of pending_map is left on a row a booking has settled, whatever
\* was retried, confirmed, adopted or cut short, unless the process died between
\* recordIdentity and consumePending.
THEOREM NoSecondSettlementCorrect == Spec => []NoSecondSettlement
<1>1. TwinInv => NoSecondSettlement
  BY DEF TwinInv, OpenEntries, NoSecondSettlement
<1> QED  BY <1>1, TwinHolds, PTL

\* Feed, rows, records and the state of a run keep the form the code gives them.
THEOREM TwinTypeCorrect == Spec => []TypeOK
<1>1. TwinInv => TypeOK
  BY DEF TwinInv
<1> QED  BY <1>1, TwinHolds, PTL

-----------------------------------------------------------------------------
(* One row for one purchase.                                               *)

\* Bookings of one day for purchases of one day; those of them in the feed.
Class(b, d) == {q \in Purchases : Booked(q) /\ bookDay[q] = b /\ day[q] = d}
FeedClass(b, d) == {q \in feed : Booked(q) /\ bookDay[q] = b /\ day[q] = d}

\* The place of q among some of them.
Place(q, S) == Cardinality({x \in S : Precedes(x, q, rank)})

\* Places are numbers from 1, and no two share one.
LEMMA Places ==
    ASSUME TypeOK, IsInjective(rank), NEW S \in SUBSET Purchases
    PROVE  /\ IsFiniteSet(S)
           /\ \A q \in S : Place(q, S) \in 1..Cardinality(S)
           /\ \A p, q \in S : Place(p, S) = Place(q, S) => p = q
           /\ \A t \in 1..Cardinality(S) : \E q \in S : Place(q, S) = t
<1>1. IsFiniteSet(S)
  BY ConstantsAssumption, FS_Subset
<1>2. /\ \A p \in Purchases : Precedes(p, p, rank)
      /\ \A p, q \in Purchases : Precedes(p, q, rank) \/ Precedes(q, p, rank)
      /\ \A p, q, r \in Purchases :
            Precedes(p, q, rank) /\ Precedes(q, r, rank) => Precedes(p, r, rank)
      /\ \A p, q \in Purchases : Precedes(p, q, rank) /\ Precedes(q, p, rank) => p = q
  BY Ordered DEF TypeOK
<1> DEFINE upto(q) == {x \in S : Precedes(x, q, rank)}
<1>3. \A q \in S : upto(q) \in SUBSET S /\ q \in upto(q) /\ IsFiniteSet(upto(q))
  BY <1>1, <1>2, FS_Subset
<1>4. \A q \in S : Place(q, S) \in 1..Cardinality(S)
  BY <1>1, <1>3, Position DEF Place
<1>5. ASSUME NEW p \in S, NEW q \in S, Precedes(p, q, rank), Place(p, S) = Place(q, S)
      PROVE  p = q
  <2>1. upto(p) \in SUBSET upto(q)
    BY <1>2, <1>5
  <2>2. upto(p) = upto(q)
    BY <2>1, <1>3, <1>5, FS_Subset DEF Place
  <2>3. q \in upto(p)
    BY <2>2, <1>3
  <2> QED  BY <2>3, <1>2, <1>5
<1>6. \A p, q \in S : Place(p, S) = Place(q, S) => p = q
  BY <1>2, <1>5
<1>7. \A t \in 1..Cardinality(S) : \E q \in S : Place(q, S) = t
  <2> DEFINE place == [q \in S |-> Place(q, S)]
             n == Cardinality(S)
  <2>1. place \in Injection(S, 1..n)
    BY <1>4, <1>6 DEF Injection, IsInjective
  <2>2. n \in Nat
    BY <1>1, FS_CardinalityType
  <2>3. IsFiniteSet(1..n) /\ Cardinality(1..n) = n
    BY <2>2, FS_Interval
  <2> HIDE DEF place
  <2>4. place \in Surjection(S, 1..n)
    <3> HIDE DEF n
    <3>1. Cardinality(S) = Cardinality(1..n)
      BY <2>3 DEF n
    <3> QED  BY <2>1, <2>3, <3>1, FS_Injection
  <2> QED  BY <2>4 DEF Surjection, place
<1> QED  BY <1>1, <1>4, <1>6, <1>7

\* The turn in an identity is the place in the class (txnIdentities).
LEMMA IdentityPlace ==
    ASSUME NEW p
    PROVE  Identity(p) = <<bookDay[p], day[p], Place(p, FeedClass(bookDay[p], day[p]))>>
<1>1. {q \in feed : /\ Booked(q) /\ bookDay[q] = bookDay[p]
                    /\ day[q] = day[p] /\ Precedes(q, p, rank)}
         = {x \in FeedClass(bookDay[p], day[p]) : Precedes(x, p, rank)}
  BY DEF FeedClass
<1> QED  BY <1>1 DEF Identity, Place

\* An identity is one booking's; it fits the class, and whatever fits the class
\* in the feed is the identity of a booking in the feed.
LEMMA IdentityOwn ==
    ASSUME TwinInv
    PROVE  /\ \A p, q \in feed : Booked(p) /\ Booked(q) /\ Identity(p) = Identity(q) => p = q
           /\ \A p \in feed : Booked(p) =>
                 /\ Identity(p)[1] = bookDay[p] /\ Identity(p)[2] = day[p]
                 /\ Identity(p)[3] <= Cardinality(Class(bookDay[p], day[p]))
           /\ \A i \in Identities : i[3] <= Cardinality(FeedClass(i[1], i[2])) =>
                 \E q \in feed : Booked(q) /\ Identity(q) = i
<1>1. TypeOK /\ IsInjective(rank) /\ feed \subseteq Purchases
  BY DEF TwinInv, Feeding, TypeOK
<1>2. ASSUME NEW p \in feed, NEW q \in feed, Booked(p), Booked(q), Identity(p) = Identity(q)
      PROVE  p = q
  <2> DEFINE S == FeedClass(bookDay[p], day[p])
  <2>1. bookDay[p] = bookDay[q] /\ day[p] = day[q]
        /\ Place(p, S) = Place(q, FeedClass(bookDay[q], day[q]))
    BY <1>2, IdentityPlace
  <2>2. p \in S /\ q \in S /\ S \in SUBSET Purchases /\ Place(p, S) = Place(q, S)
    BY <1>1, <1>2, <2>1 DEF FeedClass
  <2> HIDE DEF S
  <2> QED  BY <1>1, <2>2, Places
<1>3. ASSUME NEW p \in feed, Booked(p)
      PROVE  /\ Identity(p)[1] = bookDay[p] /\ Identity(p)[2] = day[p]
             /\ Identity(p)[3] <= Cardinality(Class(bookDay[p], day[p]))
  <2> DEFINE S == FeedClass(bookDay[p], day[p])
             T == Class(bookDay[p], day[p])
  <2>1. p \in S /\ S \in SUBSET T /\ S \in SUBSET Purchases /\ T \in SUBSET Purchases
    BY <1>1, <1>3 DEF FeedClass, Class
  <2>2. /\ Identity(p)[1] = bookDay[p] /\ Identity(p)[2] = day[p]
        /\ Identity(p)[3] = Place(p, S)
    BY IdentityPlace
  <2> HIDE DEF S, T
  <2>3. Place(p, S) \in 1..Cardinality(S) /\ IsFiniteSet(T)
    BY <1>1, <2>1, Places
  <2>4. Cardinality(S) <= Cardinality(T)
    BY <2>1, <2>3, FS_Subset
  <2>5. Cardinality(S) \in Nat /\ Cardinality(T) \in Nat
    BY <2>1, <2>3, FS_Subset, FS_CardinalityType
  <2>6. Place(p, S) <= Cardinality(T)
    BY <2>3, <2>4, <2>5
  <2> QED  BY <2>2, <2>6 DEF T
<1>4. ASSUME NEW i \in Identities, i[3] <= Cardinality(FeedClass(i[1], i[2]))
      PROVE  \E q \in feed : Booked(q) /\ Identity(q) = i
  <2> DEFINE S == FeedClass(i[1], i[2])
  <2>1. S \in SUBSET Purchases
    BY <1>1 DEF FeedClass
  <2>2. i = <<i[1], i[2], i[3]>> /\ i[3] \in Nat /\ i[3] >= 1
    BY DEF Identities, Index
  <2>3. i[3] <= Cardinality(S)
    BY <1>4
  <2> HIDE DEF S
  <2>4. i[3] \in 1..Cardinality(S)
    <3>1. Cardinality(S) \in Nat
      BY <2>1, <1>1, Places, FS_CardinalityType
    <3> QED  BY <2>2, <2>3, <3>1
  <2>5. PICK q \in S : Place(q, S) = i[3]
    BY <1>1, <2>1, <2>4, Places
  <2>6. q \in feed /\ Booked(q) /\ bookDay[q] = i[1] /\ day[q] = i[2]
    BY DEF FeedClass, S
  <2>7. Identity(q) = <<i[1], i[2], i[3]>>
    BY <2>5, <2>6, IdentityPlace DEF S
  <2> QED  BY <2>2, <2>6, <2>7
<1> QED  BY <1>2, <1>3, <1>4

\* The feed of a run is what the bank reports from its window on.
Windowed == pc # "idle" => feed = {p \in Reported : Reach(p) >= from}

\* What is in the batch has left the list, and a booking in it is not known.
BatchNew == /\ todo \cap work = {}
            /\ \A p \in work : Booked(p) => identity[Identity(p)] = 0

\* A record names one of the bookings of its days.
RecordsFit == \A i \in Identities : identity[i] # 0 => i[3] <= Cardinality(Class(i[1], i[2]))

\* The loop has taken the row of every known booking it has passed, and what it
\* has passed is known or waits for an answer.
Passed == ~masked => \A q \in feed \ (todo \cup work) :
                         Known(q) => identity[Identity(q)] \in claimed
Followed == pc # "idle" /\ ~failed => \A q \in feed \ (todo \cup work) :
                         Booked(q) => Known(q) \/ Key(q) \in held

\* A batch can hold all that look alike.
Whole == Cardinality(Purchases) <= BatchSize

\* What is recorded has a settled row of its own, and so will what a batch is
\* about to record.
OwnRows == Whole /\ ~torn /\ ~masked =>
               \A i, j \in Identities : identity[i] # 0 /\ identity[i] = identity[j] => i = j
SettledRows == \A i \in Identities : identity[i] # 0 => identity[i] \in cleared
Unrecorded == pc = "settle" => \A p \in work : Booked(p) /\ out[p].as # "held" =>
                  /\ out[p].row \in cleared
                  /\ Whole /\ ~torn /\ ~masked => Records(out[p].row) = {}

ApartInv == /\ Windowed /\ BatchNew /\ RecordsFit /\ Passed /\ Followed /\ OwnRows
            /\ SettledRows /\ Unrecorded

\* Keys and identities stay as long as the feed does.
LEMMA KeysStand ==
    ASSUME UNCHANGED <<bankVars, feed, rank>>
    PROVE  \A p : /\ Identity(p)' = Identity(p) /\ Key(p)' = Key(p)
                  /\ Booked(p)' = Booked(p) /\ Pending(p)' = Pending(p)
                  /\ Withdrawn(p)' = Withdrawn(p)
<1>1. \A p, q : Precedes(p, q, rank)' = Precedes(p, q, rank)
  BY DEF Precedes, Phase, Booked, bankVars
<1>2. \A p : /\ Booked(p)' = Booked(p) /\ Pending(p)' = Pending(p)
             /\ Withdrawn(p)' = Withdrawn(p)
  BY DEF Booked, Pending, Withdrawn, bankVars
<1>3. \A p : Identity(p)' = Identity(p)
  BY <1>1, <1>2 DEF Identity, bankVars
<1>4. \A p : Key(p)' = Key(p)
  BY <1>1, <1>2 DEF Key, KeyIn, bankVars
<1> QED  BY <1>2, <1>3, <1>4

\* At the start nothing is recorded.
LEMMA ApartInit == Init => ApartInv
BY DEF Init, ApartInv, Windowed, BatchNew, RecordsFit, Passed, Followed, OwnRows,
       SettledRows, Unrecorded

\* Bookings stay what they are, so a class only grows.
LEMMA ClassGrows ==
    ASSUME TypeOK, [BankStep]_bankVars
    PROVE  \A b, d : Cardinality(Class(b, d)) <= Cardinality(Class(b, d)')
<1>1. ASSUME NEW b, NEW d PROVE Class(b, d) \in SUBSET (Class(b, d)')
  <2>1. ASSUME NEW q \in Purchases, bank[q] = "booked"
        PROVE  bank'[q] = "booked" /\ bookDay'[q] = bookDay[q] /\ day'[q] = day[q]
    <3> DEFINE stays == bank'[q] = "booked" /\ bookDay'[q] = bookDay[q] /\ day'[q] = day[q]
    <3>1. CASE UNCHANGED bankVars
      BY <2>1, <3>1 DEF bankVars
    <3>2. ASSUME NEW p \in Purchases, BankAuthorises(p) PROVE stays
      BY <2>1, <3>2 DEF BankAuthorises, TypeOK
    <3>3. ASSUME NEW p \in Purchases, BankBooks(p) PROVE stays
      BY <2>1, <3>3 DEF BankBooks, TypeOK
    <3>4. ASSUME NEW p \in Purchases, BankWithdraws(p) PROVE stays
      BY <2>1, <3>4 DEF BankWithdraws, TypeOK
    <3>5. CASE Tick
      BY <2>1, <3>5 DEF Tick
    <3> QED  BY <3>1, <3>2, <3>3, <3>4, <3>5 DEF BankStep
  <2> QED  BY <2>1 DEF Class, Booked
<1>2. ASSUME NEW b, NEW d PROVE IsFiniteSet(Class(b, d)')
  <2>1. Class(b, d)' \in SUBSET Purchases
    BY DEF Class
  <2> QED  BY <2>1, ConstantsAssumption, FS_Subset
<1> QED  BY <1>1, <1>2, FS_Subset

\* Between runs there is nothing to follow.
LEMMA ApartIdle ==
    ASSUME TwinInv', pc' = "idle", RecordsFit', OwnRows', SettledRows'
    PROVE  ApartInv'
<1>1. feed' = {} /\ todo' = {} /\ work' = {}
  BY DEF TwinInv, Feeding
<1> QED  BY <1>1 DEF ApartInv, Windowed, BatchNew, Passed, Followed, Unrecorded

\* The bank moves between runs.
LEMMA ApartBank == ASSUME TwinInv, TwinInv', ApartInv, BankStep PROVE ApartInv'
<1>1. pc = "idle" /\ UNCHANGED <<budgetVars, stateVars, watermark, pc, runVars, history>>
  BY DEF BankStep, BankAuthorises, BankBooks, BankWithdraws, Tick, BankMoves
<1>2. RecordsFit'
  <2> SUFFICES ASSUME NEW i \in Identities, identity'[i] # 0
               PROVE  i[3] <= Cardinality(Class(i[1], i[2])')
    BY DEF RecordsFit
  <2> DEFINE c == Cardinality(Class(i[1], i[2]))
             d == Cardinality(Class(i[1], i[2])')
  <2>1. identity[i] # 0
    BY <1>1 DEF stateVars
  <2>2. i[3] <= c
    BY <2>1 DEF ApartInv, RecordsFit
  <2>3. c <= d
    BY ClassGrows DEF TwinInv
  <2>4. c \in Nat /\ d \in Nat /\ i[3] \in Nat
    <3>1. Class(i[1], i[2]) \in SUBSET Purchases /\ Class(i[1], i[2])' \in SUBSET Purchases
      BY DEF Class
    <3>2. /\ IsFiniteSet(Class(i[1], i[2])) /\ IsFiniteSet(Class(i[1], i[2])')
      BY <3>1, ConstantsAssumption, FS_Subset
    <3>3. c \in Nat /\ d \in Nat
      BY <3>2, FS_CardinalityType
    <3>4. i[3] \in Nat
      BY DEF Identities, Index
    <3> QED  BY <3>3, <3>4
  <2> HIDE DEF c, d
  <2>5. i[3] <= d
    BY <2>2, <2>3, <2>4
  <2> QED  BY <2>5 DEF d
<1>3. OwnRows' /\ SettledRows'
  BY <1>1 DEF ApartInv, OwnRows, SettledRows, stateVars, budgetVars, history
<1> QED  BY <1>1, <1>2, <1>3, ApartIdle

\* A run starts with everything it will look at on the list.
LEMMA ApartFetch ==
    ASSUME TwinInv, ApartInv, NEW order \in Orders, Fetch(order)
    PROVE  ApartInv'
<1>1. /\ UNCHANGED <<bankVars, cleared, identity, work, torn, masked>>
      /\ feed' = Listed /\ from' = DateFrom /\ todo' = {p \in Listed : ~Withdrawn(p)}
      /\ pc' = "import" /\ pc = "idle"
  BY DEF Fetch, budgetVars
<1>2. work = {} /\ work' = {}
  BY <1>1 DEF TwinInv, Feeding
<1>3. \A q \in feed' \ todo' : ~Booked(q)'
  BY <1>1 DEF Withdrawn, Booked, bankVars
<1>4. Windowed'
  BY <1>1 DEF Windowed, Listed, Reported, Reach, bankVars
<1>5. Passed' /\ Followed' /\ BatchNew'
  BY <1>2, <1>3 DEF Passed, Followed, BatchNew, Known
<1>6. RecordsFit' /\ OwnRows' /\ SettledRows'
  BY <1>1 DEF ApartInv, RecordsFit, OwnRows, SettledRows, Class, Booked, bankVars
<1>7. Unrecorded'
  BY <1>1 DEF Unrecorded
<1> QED  BY <1>4, <1>5, <1>6, <1>7 DEF ApartInv

\* Every booking of the feed has an identity.
LEMMA FeedIdentity ==
    ASSUME TwinInv, NEW q \in feed, Booked(q)
    PROVE  Identity(q) \in Identities
<1>1. q \in Purchases /\ TypeOK /\ IsInjective(rank) /\ feed \subseteq Purchases
  BY DEF TwinInv, TypeOK, Feeding
<1>2. day[q] \in Days /\ bookDay[q] \in Days
  BY <1>1 DEF TwinInv, Calendar, Booked
<1> DEFINE S == FeedClass(bookDay[q], day[q])
<1>3. S \in SUBSET Purchases /\ q \in S
  BY <1>1 DEF FeedClass
<1>4. Place(q, S) \in Index
  <2> HIDE DEF S
  <2>1. Place(q, S) \in 1..Cardinality(S) /\ IsFiniteSet(S)
    BY <1>1, <1>3, Places
  <2>2. Cardinality(S) \in 1..Cardinality(Purchases)
    BY <1>3, ConstantsAssumption, Position
  <2>3. IsFiniteSet(Purchases)
    BY ConstantsAssumption
  <2>4. Cardinality(Purchases) \in Nat
    BY <2>3, FS_CardinalityType
  <2> QED  BY <2>1, <2>2, <2>4 DEF Index
<1> QED  BY <1>2, <1>4, IdentityPlace DEF Identities

\* What a run holds in hand is a booking of its feed.
LEMMA AtHand ==
    ASSUME TwinInv, NEW p \in todo \cup work
    PROVE  p \in feed /\ (Booked(p) => Identity(p) \in Identities)
                      /\ (Pending(p) \/ Booked(p)) /\ Key(p) \in Keys
<1>1. p \in feed /\ Key(p) \in Keys /\ ~Withdrawn(p) /\ bank[p] # "none" /\ p \in Purchases
  BY KeyTyped DEF TwinInv, TypeOK
<1>2. Pending(p) \/ Booked(p)
  BY <1>1 DEF Pending, Booked, Withdrawn, TwinInv, TypeOK
<1>3. Booked(p) => Identity(p) \in Identities
  BY IdentityTyped DEF TwinInv
<1> QED  BY <1>1, <1>2, <1>3

\* A booking of the feed is recorded on a settled row that no record names.
LEMMA RecordWritten ==
    ASSUME TwinInv, ApartInv, NEW p \in todo \cup work, Booked(p), NEW r \in rows,
           identity' = [identity EXCEPT ![Identity(p)] = r], UNCHANGED bankVars,
           r \in cleared', cleared \subseteq cleared', torn => torn', masked => masked',
           Whole /\ ~torn' /\ ~masked' => Records(r) = {}
    PROVE  RecordsFit' /\ OwnRows' /\ SettledRows'
<1>1. PICK k : k = Identity(p)
  OBVIOUS
<1>2. k \in Identities /\ p \in feed
  BY <1>1, AtHand
<1>3. k[1] = bookDay[p] /\ k[2] = day[p] /\ k[3] <= Cardinality(Class(k[1], k[2]))
  BY <1>1, <1>2, IdentityOwn
<1>4. /\ identity'[k] = r
      /\ \A i \in Identities : i # k => identity'[i] = identity[i]
  BY <1>1, <1>2 DEF TwinInv, TypeOK
<1>5. \A b, d : Class(b, d)' = Class(b, d)
  BY DEF Class, Booked, bankVars
<1>6. RecordsFit'
  BY <1>3, <1>4, <1>5 DEF ApartInv, RecordsFit
<1>7. OwnRows'
  BY <1>2, <1>4 DEF ApartInv, OwnRows, Records
<1>8. SettledRows'
  BY <1>4 DEF ApartInv, SettledRows
<1> QED  BY <1>6, <1>7, <1>8

\* A step of the loop that takes p off the list and writes at most its record.
LEMMA LoopKeeps ==
    ASSUME TwinInv, ApartInv, NEW p \in todo, UNCHANGED <<bankVars, feed, from, rank>>,
           pc' # "idle", pc # "idle", todo' = todo \ {p}, work' \in {work, work \cup {p}},
           claimed \subseteq claimed', held \subseteq held', masked => masked',
           failed => failed',
           \A i \in Identities : i # Identity(p) \/ ~Booked(p) => identity'[i] = identity[i],
           identity[Identity(p)] # 0 => identity'[Identity(p)] # 0,
           p \in work' /\ Booked(p) => identity'[Identity(p)] = 0,
           p \notin work' /\ Booked(p) => (identity'[Identity(p)] # 0 \/ Key(p) \in held'),
           p \notin work' /\ Booked(p) /\ ~masked' /\ identity'[Identity(p)] # 0
               => identity'[Identity(p)] \in claimed'
    PROVE  Windowed' /\ BatchNew' /\ Passed' /\ Followed'
<1>1. p \in feed /\ feed \subseteq Purchases /\ todo \subseteq feed /\ work \subseteq feed
  BY DEF TwinInv, TypeOK
<1>2. /\ \A q : /\ Identity(q)' = Identity(q) /\ Key(q)' = Key(q) /\ Booked(q)' = Booked(q)
  BY KeysStand
<1>3. \A q \in feed : Booked(q) => Identity(q) \in Identities
  <2> SUFFICES ASSUME NEW q \in feed, Booked(q) PROVE Identity(q) \in Identities
    OBVIOUS
  <2> QED  BY FeedIdentity
<1>4. \A q \in feed : Booked(q) /\ q # p => identity'[Identity(q)] = identity[Identity(q)]
  BY <1>1, <1>3, IdentityOwn
<1>5. Windowed'
  BY DEF ApartInv, Windowed, Reported, Reach, bankVars
<1>6. BatchNew'
  <2>1. todo' \cap work' = {}
    BY DEF ApartInv, BatchNew
  <2>2. ASSUME NEW q \in work', Booked(q) PROVE identity'[Identity(q)] = 0
    BY <2>2, <1>1, <1>4 DEF ApartInv, BatchNew
  <2> QED  BY <2>1, <2>2, <1>2 DEF BatchNew
<1>7. \A q \in feed \ (todo' \cup work') :
          (q = p /\ p \notin work') \/ q \in feed \ (todo \cup work)
  OBVIOUS
<1>8. Passed'
  <2> SUFFICES ASSUME ~masked', NEW q \in feed \ (todo' \cup work'), Booked(q),
                      identity'[Identity(q)] # 0
               PROVE  identity'[Identity(q)] \in claimed'
    BY <1>2 DEF Passed, Known
  <2>1. CASE q = p
    BY <2>1
  <2>2. CASE q # p
    <3>1. q \in feed \ (todo \cup work) /\ identity'[Identity(q)] = identity[Identity(q)]
      BY <2>2, <1>4, <1>7
    <3> QED  BY <3>1 DEF ApartInv, Passed, Known
  <2> QED  BY <2>1, <2>2
<1>9. Followed'
  <2> SUFFICES ASSUME ~failed', NEW q \in feed \ (todo' \cup work'), Booked(q)
               PROVE  identity'[Identity(q)] # 0 \/ Key(q) \in held'
    BY <1>2 DEF Followed, Known
  <2>1. CASE q = p
    BY <2>1
  <2>2. CASE q # p
    <3>1. q \in feed \ (todo \cup work) /\ identity'[Identity(q)] = identity[Identity(q)]
      BY <2>2, <1>4, <1>7
    <3> QED  BY <3>1 DEF ApartInv, Followed, Known
  <2> QED  BY <2>1, <2>2
<1> QED  BY <1>5, <1>6, <1>8, <1>9

-----------------------------------------------------------------------------
(* The steps of a run keep the rows apart.                                 *)

\* What a step that writes no record leaves.
LEMMA RecordsStand ==
    ASSUME ApartInv, UNCHANGED <<bankVars, identity>>, cleared \subseteq cleared',
           torn => torn', masked => masked'
    PROVE  RecordsFit' /\ OwnRows' /\ SettledRows'
<1>1. \A b, d : Class(b, d)' = Class(b, d)
  BY DEF Class, Booked, bankVars
<1> QED  BY <1>1 DEF ApartInv, RecordsFit, OwnRows, SettledRows

\* Taking an item off the list.
LEMMA ApartItem ==
    ASSUME TwinInv, ApartInv, NEW p \in Purchases, SkipItem(p) \/ SeenItem(p) \/ QueueItem(p)
    PROVE  ApartInv'
<1> USE DEF budgetVars, stateVars, history, Next1
<1>1. /\ UNCHANGED <<bankVars, budgetVars, stateVars, pc, feed, from, rank, failed, torn>>
      /\ pc = "import" /\ p \in todo /\ todo' = todo \ {p}
  BY DEF SkipItem, SeenItem, QueueItem, AtItem, IsFirst
<1>2. /\ Pending(p) \/ Booked(p)
      /\ Pending(p) => ~Booked(p)
      /\ identity' = identity /\ held' = held /\ pc' # "idle" /\ pc # "idle"
  BY <1>1, AtHand DEF Pending, Booked
<1>3. CASE SkipItem(p)
  <2>1. /\ work' = work /\ claimed' = claimed /\ masked' = (masked \/ Known(p))
        /\ Booked(p) => Key(p) \in held
    BY <1>2, <1>3 DEF SkipItem
  <2>2. masked => masked'
    BY <2>1
  <2>3. p \notin work
    BY <1>1 DEF ApartInv, BatchNew
  <2>4. Booked(p) /\ ~masked' => identity[Identity(p)] = 0
    BY <2>1 DEF Known
  <2>5. Windowed' /\ BatchNew' /\ Passed' /\ Followed'
    BY <1>1, <1>2, <2>1, <2>2, <2>3, <2>4, LoopKeeps
  <2>6. RecordsFit' /\ OwnRows' /\ SettledRows'
    BY <1>1, <2>2, RecordsStand
  <2> QED  BY <1>1, <2>5, <2>6 DEF ApartInv, Unrecorded
<1>4. CASE SeenItem(p)
  <2>1. /\ work' = work /\ masked' = masked
        /\ Booked(p) => identity[Identity(p)] # 0 /\ identity[Identity(p)] \in claimed'
        /\ claimed \subseteq claimed'
    BY <1>2, <1>4 DEF SeenItem
  <2>2. p \notin work
    BY <1>1 DEF ApartInv, BatchNew
  <2>5. Windowed' /\ BatchNew' /\ Passed' /\ Followed'
    BY <1>1, <1>2, <2>1, <2>2, LoopKeeps
  <2>6. RecordsFit' /\ OwnRows' /\ SettledRows'
    BY <1>1, <2>1, RecordsStand
  <2> QED  BY <1>1, <2>5, <2>6 DEF ApartInv, Unrecorded
<1>5. CASE QueueItem(p)
  <2>1. /\ work' = work \cup {p} /\ masked' = masked /\ claimed' = claimed
        /\ Booked(p) => identity[Identity(p)] = 0
    BY <1>2, <1>5 DEF QueueItem, Known
  <2>5. Windowed' /\ BatchNew' /\ Passed' /\ Followed'
    BY <1>1, <1>2, <2>1, LoopKeeps
  <2>6. RecordsFit' /\ OwnRows' /\ SettledRows'
    BY <1>1, <2>1, RecordsStand
  <2> QED  BY <1>1, <2>5, <2>6 DEF ApartInv, Unrecorded
<1> QED  BY <1>3, <1>4, <1>5

\* A confirmation lands on a row no booking has settled.
LEMMA ApartConfirm ==
    ASSUME TwinInv, ApartInv, NEW p \in Purchases, Confirm(p)
    PROVE  ApartInv'
<1>1. PICK r, i : r = pend[Key(p)] /\ i = Identity(p)
  OBVIOUS
<1>2. /\ r \in rows /\ r \in Rows /\ i \in Identities /\ p \in todo /\ r # 0
      /\ Key(p) \in Keys
  BY <1>1, ConfirmedItem DEF Confirm
<1>3. /\ UNCHANGED <<bankVars, pc, feed, from, rank, work, held, failed, torn, masked>>
      /\ pc = "import" /\ todo' = todo \ {p} /\ Booked(p) /\ identity[i] = 0
      /\ cleared' = cleared \cup {r} /\ claimed' = claimed \cup {r}
      /\ identity' = [identity EXCEPT ![i] = r]
  BY <1>1 DEF Confirm, AtItem, Confirms, Known, Next1, history
<1>4. ~torn => Records(r) = {}
  BY <1>1, <1>2 DEF TwinInv, OpenEntries
<1>5. RecordsFit' /\ OwnRows' /\ SettledRows'
  BY <1>1, <1>2, <1>3, <1>4, RecordWritten
<1>6. /\ identity'[i] = r /\ \A j \in Identities : j # i => identity'[j] = identity[j]
  BY <1>2, <1>3 DEF TwinInv, TypeOK
<1>7. p \notin work
  BY <1>2 DEF ApartInv, BatchNew
<1>8. Windowed' /\ BatchNew' /\ Passed' /\ Followed'
  BY <1>1, <1>2, <1>3, <1>6, <1>7, LoopKeeps
<1> QED  BY <1>3, <1>5, <1>8 DEF ApartInv, Unrecorded

\* Remembering one of a written batch keeps the others as they are.
LEMMA ApartSettled ==
    ASSUME TwinInv, ApartInv, NEW p \in Purchases, AtSettle(p), Settled(p),
           UNCHANGED <<bankVars, feed, from, rank, todo, failed, masked, torn, cleared, out>>,
           claimed \subseteq claimed', held \subseteq held',
           \/ /\ identity' = identity
              /\ Booked(p) => Key(p) \in held'
           \/ /\ Booked(p) /\ out[p].as # "held" /\ out[p].row \in claimed'
              /\ identity' = [identity EXCEPT ![Identity(p)] = out[p].row]
    PROVE  ApartInv'
<1>1. PICK r, i : r = out[p].row /\ i = Identity(p)
  OBVIOUS
<1>2. /\ p \in work /\ pc = "settle" /\ r \in rows /\ r # 0
      /\ (Booked(p) => i \in Identities)
      /\ \A q \in work : q # p => out[q].row # r
      /\ work' = work \ {p} /\ pc' # "idle" /\ p \in feed
  BY <1>1, NextSettled, RowsFinite DEF Settled, TwinInv, TypeOK
<1>3. \A q : Identity(q)' = Identity(q) /\ Key(q)' = Key(q) /\ Booked(q)' = Booked(q)
  BY KeysStand
<1>4. \A q \in feed : Booked(q) => Identity(q) \in Identities
  <2> SUFFICES ASSUME NEW q \in feed, Booked(q) PROVE Identity(q) \in Identities
    OBVIOUS
  <2> QED  BY FeedIdentity
<1>5. \/ /\ identity' = identity /\ (Booked(p) => Key(p) \in held')
      \/ /\ Booked(p) /\ out[p].as # "held" /\ r \in claimed'
         /\ identity' = [identity EXCEPT ![i] = r] /\ identity'[i] = r
         /\ \A j \in Identities : j # i => identity'[j] = identity[j]
  BY <1>1, <1>2 DEF TwinInv, TypeOK
<1>6. \A q \in feed : Booked(q) /\ q # p => identity'[Identity(q)] = identity[Identity(q)]
  BY <1>1, <1>2, <1>4, <1>5, IdentityOwn
<1>7. Booked(p) => identity[i] = 0
  BY <1>1, <1>2 DEF ApartInv, BatchNew
<1>8. Windowed'
  BY <1>2 DEF ApartInv, Windowed, Reported, Reach, bankVars
<1>9. BatchNew'
  <2>1. todo' \cap work' = {}
    BY <1>2 DEF ApartInv, BatchNew
  <2>2. ASSUME NEW q \in work', Booked(q) PROVE identity'[Identity(q)] = 0
    BY <2>2, <1>2, <1>6 DEF ApartInv, BatchNew, TwinInv, TypeOK
  <2> QED  BY <2>1, <2>2, <1>3 DEF BatchNew
<1>10. \A q \in feed \ (todo' \cup work') : q = p \/ q \in feed \ (todo \cup work)
  BY <1>2
<1>11. Passed'
  <2> SUFFICES ASSUME ~masked', NEW q \in feed \ (todo' \cup work'), Booked(q),
                      identity'[Identity(q)] # 0
               PROVE  identity'[Identity(q)] \in claimed'
    BY <1>3 DEF Passed, Known
  <2>1. CASE q = p
    BY <2>1, <1>1, <1>5, <1>7
  <2>2. CASE q # p
    <3>1. q \in feed \ (todo \cup work) /\ identity'[Identity(q)] = identity[Identity(q)]
      BY <2>2, <1>6, <1>10
    <3> QED  BY <3>1 DEF ApartInv, Passed, Known
  <2> QED  BY <2>1, <2>2
<1>12. Followed'
  <2> SUFFICES ASSUME ~failed', NEW q \in feed \ (todo' \cup work'), Booked(q)
               PROVE  identity'[Identity(q)] # 0 \/ Key(q) \in held'
    BY <1>3 DEF Followed, Known
  <2>1. CASE q = p
    BY <2>1, <1>1, <1>2, <1>5
  <2>2. CASE q # p
    <3>1. q \in feed \ (todo \cup work) /\ identity'[Identity(q)] = identity[Identity(q)]
      BY <2>2, <1>6, <1>10
    <3> QED  BY <3>1, <1>2 DEF ApartInv, Followed, Known
  <2> QED  BY <2>1, <2>2
<1>13. RecordsFit' /\ OwnRows' /\ SettledRows'
  <2>1. CASE identity' = identity
    BY <2>1, RecordsStand
  <2>2. CASE Booked(p) /\ out[p].as # "held" /\ identity' = [identity EXCEPT ![i] = r]
    <3>1. r \in cleared /\ (Whole /\ ~torn /\ ~masked => Records(r) = {})
      BY <2>2, <1>1, <1>2 DEF ApartInv, Unrecorded
    <3> QED  BY <3>1, <2>2, <1>1, <1>2, RecordWritten
  <2> QED  BY <2>1, <2>2, <1>5
<1>14. Unrecorded'
  <2> SUFFICES ASSUME NEW q \in work', Booked(q), out[q].as # "held"
               PROVE  /\ out[q].row \in cleared
                      /\ Whole /\ ~torn /\ ~masked => Records(out[q].row)' = {}
    BY <1>3 DEF Unrecorded, Records
  <2>1. PICK x : x = out[q].row
    OBVIOUS
  <2>2. q \in work /\ x # r
    BY <2>1, <1>2
  <2>3. x \in cleared /\ (Whole /\ ~torn /\ ~masked => Records(x) = {})
    BY <2>1, <2>2, <1>2 DEF ApartInv, Unrecorded
  <2>4. Records(x)' \subseteq Records(x)
    BY <2>2, <1>5 DEF Records
  <2>5. out' = out /\ out[q].row = x
    BY <2>1
  <2> QED  BY <2>3, <2>4, <2>5 DEF Records
<1> QED  BY <1>8, <1>9, <1>11, <1>12, <1>13, <1>14 DEF ApartInv

\* What a run remembers of a batch.
LEMMA ApartSettle ==
    ASSUME TwinInv, ApartInv, NEW p \in Purchases, SettlePending(p) \/ SettleBooked(p) \/ Hold(p)
    PROVE  ApartInv'
<1> USE DEF budgetVars, history
<1>1. CASE SettlePending(p)
  <2>1. ~Booked(p)
    BY <1>1 DEF SettlePending, Pending, Booked
  <2> QED  BY <1>1, <2>1, ApartSettled DEF SettlePending
<1>2. CASE SettleBooked(p)
  <2>1. /\ AtSettle(p) /\ Settled(p)
        /\ UNCHANGED <<bankVars, feed, from, rank, todo, failed, masked, torn, cleared, out>>
        /\ claimed \subseteq claimed' /\ held \subseteq held'
        /\ Booked(p) /\ out[p].as \in {"created", "adopted"} /\ out[p].row \in claimed'
        /\ identity' = [identity EXCEPT ![Identity(p)] = out[p].row]
    BY <1>2 DEF SettleBooked
  <2>2. out[p].as # "held"
    BY <2>1
  <2> QED  BY <2>1, <2>2, ApartSettled
<1>3. CASE Hold(p)
  BY <1>3, ApartSettled DEF Hold
<1> QED  BY <1>1, <1>2, <1>3

\* The end of a run, and a death within one.
LEMMA ApartEnds ==
    ASSUME TwinInv, TwinInv', ApartInv,
           \/ Conclude \/ Crash
           \/ \E p \in Purchases : CrashConfirming(p) \/ CrashSettling(p)
    PROVE  ApartInv'
<1> USE DEF budgetVars, stateVars, history
<1>1. CASE Conclude \/ Crash
  <2>1. pc' = "idle" /\ UNCHANGED <<bankVars, identity, cleared, torn, masked>>
    BY <1>1 DEF Conclude, Crash, EndRun
  <2>2. RecordsFit' /\ OwnRows' /\ SettledRows'
    BY <2>1, RecordsStand
  <2> QED  BY <2>1, <2>2, ApartIdle
<1>2. ASSUME NEW p \in Purchases, CrashConfirming(p) PROVE ApartInv'
  <2>1. pc' = "idle" /\ UNCHANGED <<bankVars, identity, torn, masked>> /\ cleared \subseteq cleared'
    BY <1>2 DEF CrashConfirming, EndRun
  <2>2. RecordsFit' /\ OwnRows' /\ SettledRows'
    BY <2>1, RecordsStand
  <2> QED  BY <2>1, <2>2, ApartIdle
<1>3. ASSUME NEW p \in Purchases, CrashSettling(p) PROVE ApartInv'
  <2>a. torn => torn'
    BY <1>3 DEF CrashSettling
  <2>b. out[p].as # "held"
    BY <1>3 DEF CrashSettling
  <2>1. /\ pc' = "idle" /\ UNCHANGED <<bankVars, cleared, masked>> /\ (torn => torn')
        /\ AtSettle(p) /\ Booked(p) /\ out[p].as # "held"
        /\ identity' = [identity EXCEPT ![Identity(p)] = out[p].row]
    BY <1>3, <2>a, <2>b DEF CrashSettling, EndRun
  <2>2. p \in work /\ out[p].row \in rows /\ pc = "settle"
    BY <2>1, NextSettled
  <2>3. out[p].row \in cleared /\ (Whole /\ ~torn /\ ~masked => Records(out[p].row) = {})
    BY <2>1, <2>2 DEF ApartInv, Unrecorded
  <2>4. RecordsFit' /\ OwnRows' /\ SettledRows'
    BY <2>1, <2>2, <2>3, RecordWritten
  <2> QED  BY <2>1, <2>4, ApartIdle
<1> QED  BY <1>1, <1>2, <1>3

\* A row no run has claimed and that is not sealed stands for no booking: what a
\* batch that holds all that look alike finds recorded, the loop has passed.
LEMMA OpenRow ==
    ASSUME TwinInv, ApartInv, Whole, FlushDue, ~masked,
           NEW p \in work, Booked(p), NEW r \in rows \ claimed, ~Sealed(r, p)
    PROVE  Records(r) = {}
<1>1. r # 0 /\ feed \subseteq Purchases /\ work \subseteq feed /\ todo \subseteq feed
  BY RowsFinite DEF TwinInv, TypeOK
<1>2. todo = {}
  <2>1. CASE Cardinality(work) = BatchSize
    <3>1. IsFiniteSet(Purchases) /\ work \in SUBSET Purchases
      BY <1>1, ConstantsAssumption
    <3>2. Cardinality(work) <= Cardinality(Purchases)
      BY <3>1, FS_Subset
    <3>3. Cardinality(Purchases) \in Nat /\ BatchSize \in Nat
      BY <3>1, FS_CardinalityType, ConstantsAssumption
    <3>4. Cardinality(work) = Cardinality(Purchases)
      BY <2>1, <3>2, <3>3 DEF Whole
    <3>5. work = Purchases
      BY <3>1, <3>4, FS_Subset
    <3> QED  BY <3>5, <1>1 DEF ApartInv, BatchNew
  <2> QED  BY <2>1 DEF FlushDue
<1>3. SUFFICES ASSUME Records(r) # {} PROVE FALSE
  OBVIOUS
<1>4. identity[Identity(p)] = 0
  BY DEF ApartInv, BatchNew
<1>5. Identity(p) \notin Records(r)
  BY <1>1, <1>4 DEF Records
<1>6. PICK j \in Records(r) : ~(j[1] < from)
  BY <1>3, <1>5 DEF Sealed
<1>7. j \in Identities /\ identity[j] = r
  BY DEF Records
<1>8. j[1] >= from
  <2>1. j[1] \in Nat /\ from \in Nat
    BY <1>7, ConstantsAssumption DEF TwinInv, TypeOK, Identities, Days
  <2> QED  BY <2>1, <1>6
<1>9. FeedClass(j[1], j[2]) = Class(j[1], j[2])
  <2>1. pc # "idle"
    BY DEF FlushDue
  <2> QED
    BY <1>1, <1>8, <2>1 DEF FeedClass, Class, ApartInv, Windowed, Reported, Reach, Booked
<1>10. j[3] <= Cardinality(FeedClass(j[1], j[2]))
  BY <1>1, <1>7, <1>9 DEF ApartInv, RecordsFit
<1>11. PICK q \in feed : Booked(q) /\ Identity(q) = j
  BY <1>7, <1>10, IdentityOwn
<1>12. identity[Identity(q)] = r /\ Known(q)
  BY <1>1, <1>7, <1>11 DEF Known
<1>13. q \notin work
  BY <1>1, <1>11, <1>12 DEF ApartInv, BatchNew
<1> QED  BY <1>2, <1>12, <1>13 DEF ApartInv, Passed

\* A batch: what a booking adopts, or has created for it, stands for no other.
LEMMA ApartFlush ==
    ASSUME TwinInv, ApartInv, Flush
    PROVE  ApartInv'
<1> USE DEF stateVars, history
<1>1. PICK f \in Arrangements :
          /\ Write(work, f)
          /\ out' = [p \in Purchases |-> IF p \in work
                                         THEN [as |-> Decided(p, f), row |-> RowFor(p, f)]
                                         ELSE out[p]]
  BY DEF Flush
<1>2. /\ UNCHANGED <<bankVars, identity, held, feed, from, rank, todo, work, claimed,
                     failed, torn, masked>>
      /\ pc' = "settle" /\ pc = "import" /\ FlushDue
  BY DEF Flush, FlushDue
<1>3. \A q : Identity(q)' = Identity(q) /\ Key(q)' = Key(q) /\ Booked(q)' = Booked(q)
  BY <1>2, KeysStand
<1>4. cleared' = cleared \cup {RowFor(p, f) : p \in {q \in work : Booked(q)
                                                              /\ Decided(q, f) # "held"}}
  BY <1>1 DEF Write
<1>5. RecordsFit' /\ OwnRows' /\ SettledRows'
  BY <1>2, <1>4, RecordsStand
<1>6. Windowed'
  BY <1>2 DEF ApartInv, Windowed, Reported, Reach, bankVars
<1>7. BatchNew'
  BY <1>2, <1>3 DEF ApartInv, BatchNew
<1>8. Passed' /\ Followed'
  BY <1>2, <1>3 DEF ApartInv, Passed, Followed, Known
<1>9. ASSUME NEW p \in work PROVE out'[p].row = RowFor(p, f) /\ out'[p].as = Decided(p, f)
  <2>1. PICK a, n : a = Decided(p, f) /\ n = RowFor(p, f)
    OBVIOUS
  <2>2. out'[p] = [as |-> a, row |-> n]
    BY <1>1, <2>1 DEF TwinInv, TypeOK
  <2>3. out'[p].as = a /\ out'[p].row = n
    BY <2>2
  <2> QED  BY <2>1, <2>3
<1>10. ASSUME NEW p \in work, Booked(p), Decided(p, f) # "held", Whole, ~torn, ~masked
       PROVE  Records(RowFor(p, f)) = {}
  <2>1. CASE f[p] = 0
    <3>1. RowFor(p, f) \notin rows
      BY <2>1, NumbersApart
    <3>2. PICK x : x = RowFor(p, f)
      OBVIOUS
    <3>3. x \notin rows
      BY <3>1, <3>2
    <3>4. x \in Rows
      <4>1. x \in {RowFor(q, f) : q \in {y \in work : f[y] = 0}}
        BY <2>1, <3>2
      <4>2. rows' = rows \cup {RowFor(q, f) : q \in {y \in work : f[y] = 0}} /\ rows' \subseteq Rows
        BY <1>1 DEF Write
      <4> QED  BY <4>1, <4>2
    <3>5. x # 0
      BY <3>4, RowsFinite DEF TwinInv
    <3>6. Records(x) = {}
      BY <3>3, <3>5 DEF Records, TwinInv, Numbered
    <3> QED  BY <3>2, <3>6
  <2>2. CASE f[p] # 0
    <3>1. PICK x : x = f[p]
      OBVIOUS
    <3>2. RowFor(p, f) = x
      BY <2>2, <3>1 DEF RowFor
    <3>3. x \in Candidates(p)
      BY <2>2, <3>1 DEF Arrangements
    <3>4. x \in rows \ claimed /\ ~Sealed(x, p)
      BY <3>3, <1>10 DEF Candidates
    <3>5. Records(x) = {}
      BY <3>4, <1>2, <1>10, OpenRow
    <3> QED  BY <3>2, <3>5
  <2> QED  BY <2>1, <2>2
<1>11. Unrecorded'
  <2> SUFFICES ASSUME NEW p \in work, Booked(p), out'[p].as # "held"
               PROVE  /\ out'[p].row \in cleared'
                      /\ Whole /\ ~torn /\ ~masked => Records(out[p].row)' = {}
    BY <1>2, <1>3 DEF Unrecorded
  <2>1. PICK x : x = RowFor(p, f)
    OBVIOUS
  <2>2. out'[p].row = x /\ Decided(p, f) # "held"
    BY <1>9, <2>1
  <2>3. x \in cleared'
    BY <1>4, <2>1, <2>2
  <2>4. Whole /\ ~torn /\ ~masked => Records(x) = {}
    BY <1>10, <2>1, <2>2
  <2>5. Records(x)' = Records(x)
    BY <1>2 DEF Records
  <2> QED  BY <2>2, <2>3, <2>4, <2>5 DEF Records
<1> QED  BY <1>5, <1>6, <1>7, <1>8, <1>11 DEF ApartInv

\* A refused batch: nothing of it was known, and the run has failed.
LEMMA ApartFlushFails == ASSUME TwinInv, ApartInv, FlushFails PROVE ApartInv'
<1> USE DEF stateVars
<1>1. /\ UNCHANGED <<bankVars, identity, held, pc, feed, from, rank, todo, claimed, torn, masked>>
      /\ work' = {} /\ failed' = TRUE /\ pc = "import"
  BY DEF FlushFails, FlushDue
<1>2. cleared \subseteq cleared'
  BY DEF FlushFails, Write
<1>3. \A q : Identity(q)' = Identity(q) /\ Key(q)' = Key(q) /\ Booked(q)' = Booked(q)
  BY <1>1, KeysStand
<1>4. RecordsFit' /\ OwnRows' /\ SettledRows'
  BY <1>1, <1>2, RecordsStand
<1>5. Windowed'
  BY <1>1 DEF ApartInv, Windowed, Reported, Reach, bankVars
<1>6. Passed'
  <2> SUFFICES ASSUME ~masked, NEW q \in feed \ todo, Known(q)
               PROVE  identity[Identity(q)] \in claimed
    BY <1>1, <1>3 DEF Passed, Known
  <2>1. q \notin work
    BY DEF ApartInv, BatchNew, Known
  <2> QED  BY <2>1 DEF ApartInv, Passed
<1> QED  BY <1>1, <1>4, <1>5, <1>6 DEF ApartInv, BatchNew, Followed, Unrecorded

\* Every step keeps the rows apart.
LEMMA ApartStep == TwinInv /\ TwinInv' /\ ApartInv /\ [Next]_vars => ApartInv'
<1> SUFFICES ASSUME TwinInv, TwinInv', ApartInv, [Next]_vars PROVE ApartInv'
  OBVIOUS
<1>1. CASE BankStep
  BY <1>1, ApartBank
<1>2. ASSUME NEW order \in Orders, Fetch(order) PROVE ApartInv'
  BY <1>2, ApartFetch
<1>3. ASSUME NEW p \in Purchases, SkipItem(p) \/ SeenItem(p) \/ QueueItem(p) PROVE ApartInv'
  BY <1>3, ApartItem
<1>4. ASSUME NEW p \in Purchases, Confirm(p) PROVE ApartInv'
  BY <1>4, ApartConfirm
<1>5. ASSUME NEW p \in Purchases, SettlePending(p) \/ SettleBooked(p) \/ Hold(p) PROVE ApartInv'
  BY <1>5, ApartSettle
<1>6. CASE Flush
  BY <1>6, ApartFlush
<1>7. CASE FlushFails
  BY <1>7, ApartFlushFails
<1>8. CASE \/ Conclude \/ Crash
           \/ \E p \in Purchases : CrashConfirming(p) \/ CrashSettling(p)
  BY <1>8, ApartEnds
<1>9. CASE UNCHANGED vars
  <2>1. UNCHANGED <<bankVars, feed, rank>>
    BY <1>9 DEF vars, runVars
  <2>2. \A q : Identity(q)' = Identity(q) /\ Key(q)' = Key(q) /\ Booked(q)' = Booked(q)
    BY <2>1, KeysStand
  <2> QED
    BY <1>9, <2>2 DEF vars, bankVars, budgetVars, stateVars, runVars, history, ApartInv,
       Windowed, BatchNew, RecordsFit, Passed, Followed, OwnRows, SettledRows, Unrecorded,
       Reported, Reach, Known, Class, Records
<1> QED
  BY <1>1, <1>2, <1>3, <1>4, <1>5, <1>6, <1>7, <1>8, <1>9 DEF Next, RunStep, FaultStep

\* Purchases that look alike never end in one row, and what a run that moves the
\* watermark has been through is recorded on a settled row of its own or waits
\* for an answer, for as many purchases as a batch can hold.
THEOREM SettledApartCorrect ==
    ASSUME Cardinality(Purchases) <= BatchSize
    PROVE  Spec => []SettledApart
<1>1. Init => ApartInv
  BY ApartInit
<1>2. TwinInv /\ TwinInv' /\ ApartInv /\ [Next]_vars => ApartInv'
  BY ApartStep
<1>3. ApartInv => SettledApart
  BY DEF ApartInv, OwnRows, SettledRows, Followed, SettledApart, Whole
<1> QED  BY <1>1, <1>2, <1>3, TwinHolds, PTL DEF Spec

-----------------------------------------------------------------------------
(* The evidence of an arrangement.                                         *)

\* What each of a batch adds.
Gain(f) == [p \in work |-> IF f[p] = 0 THEN 0 ELSE Weight(p, f[p])]

\* The evidence (arrange, of assign.go) is the sum of what each adds.
LEMMA EvidenceSums ==
    ASSUME IsFiniteSet(work), NEW f, DOMAIN f = work
    PROVE  \E g : Sums(Gain(f), g) /\ Evidence(f) = g[work]
<1> DEFINE IsIter(g) == g = [s \in SUBSET work |->
                 IF s = {} THEN 0
                 ELSE (IF f[CHOOSE x \in s : TRUE] = 0 THEN 0
                       ELSE Weight(CHOOSE x \in s : TRUE, f[CHOOSE x \in s : TRUE]))
                      + g[s \ {CHOOSE x \in s : TRUE}]]
<1>1. Evidence(f) = (CHOOSE g : IsIter(g))[work]
  BY DEF Evidence, MapThenSumSet, MapThenFoldSet
<1>2. ASSUME NEW g PROVE IsIter(g) <=> Sums(Gain(f), g)
  <2> DEFINE Over(s) == IF s = {} THEN 0
                 ELSE (IF f[CHOOSE x \in s : TRUE] = 0 THEN 0
                       ELSE Weight(CHOOSE x \in s : TRUE, f[CHOOSE x \in s : TRUE]))
                      + g[s \ {CHOOSE x \in s : TRUE}]
             Gained(s) == IF s = {} THEN 0
                 ELSE Gain(f)[CHOOSE x \in s : TRUE] + g[s \ {CHOOSE x \in s : TRUE}]
  <2>1. DOMAIN Gain(f) = work
    BY DEF Gain
  <2>2. \A s \in SUBSET work : Over(s) = Gained(s)
    <3> SUFFICES ASSUME NEW s \in SUBSET work, s # {} PROVE Over(s) = Gained(s)
      OBVIOUS
    <3>1. PICK x : x = CHOOSE y \in s : TRUE
      OBVIOUS
    <3>2. x \in work
      BY <3>1
    <3>3. Gain(f)[x] = IF f[x] = 0 THEN 0 ELSE Weight(x, f[x])
      BY <3>2 DEF Gain
    <3> QED  BY <3>1, <3>3
  <2>3. IsIter(g) <=> g = [s \in SUBSET work |-> Over(s)]
    OBVIOUS
  <2>4. Sums(Gain(f), g) <=> g = [s \in SUBSET work |-> Gained(s)]
    BY <2>1 DEF Sums
  <2> HIDE DEF Over, Gained, IsIter
  <2>5. [s \in SUBSET work |-> Over(s)] = [s \in SUBSET work |-> Gained(s)]
    BY <2>2
  <2> QED  BY <2>3, <2>4, <2>5
<1>3. PICK h : Sums(Gain(f), h)
  <2>1. DOMAIN Gain(f) = work
    BY DEF Gain
  <2> QED  BY <2>1, SumsExist
<1> HIDE DEF IsIter
<1>4. IsIter(h)
  BY <1>2, <1>3
<1>5. IsIter(CHOOSE g : IsIter(g))
  BY <1>4
<1> QED  BY <1>1, <1>2, <1>5

\* Candidates there are, and what one of them is worth: something.
LEMMA Worth ==
    ASSUME TwinInv, NEW p \in work, NEW r \in Candidates(p)
    PROVE  Weight(p, r) \in 6..60
<1>1. IsFiniteSet(rows) /\ Candidates(p) \in SUBSET rows /\ Candidates(p) # {}
  BY RowsFinite DEF Candidates, TwinInv
<1>2. Cardinality(Candidates(p)) \in 1..Cardinality(rows) /\ Cardinality(rows) \in Nat
  BY <1>1, Position, FS_CardinalityType
<1>3. Cardinality(rows) <= MaxRows
  <2>1. IsFiniteSet(Rows) /\ Cardinality(Rows) = MaxRows
    BY ConstantsAssumption, FS_Interval DEF Rows
  <2> QED  BY <2>1, FS_Subset DEF TwinInv, TypeOK
<1>4. Cardinality(Candidates(p)) \in 1..MaxRows
  BY <1>2, <1>3, ConstantsAssumption
<1>5. Prior[Cardinality(Candidates(p))] \in 0..49
  BY <1>4, PriorAssumption
<1> QED  BY <1>5 DEF Weight

\* An arrangement adds something or nothing for each of a batch, and its evidence
\* is a number within bounds.
LEMMA Evidenced ==
    ASSUME TwinInv, NEW f \in Arrangements
    PROVE  /\ IsFiniteSet(work) /\ DOMAIN f = work /\ Gain(f) \in [work -> 0..60]
           /\ Evidence(f) \in Nat /\ Evidence(f) <= 60 * Cardinality(work)
<1>1. IsFiniteSet(work)
  BY ConstantsAssumption, FS_Subset DEF TwinInv, TypeOK
<1>2. DOMAIN f = work /\ \A p \in work : f[p] \in Candidates(p) \cup {0}
  BY DEF Arrangements
<1>3. Gain(f) \in [work -> 0..60]
  <2> SUFFICES ASSUME NEW p \in work, f[p] # 0 PROVE Weight(p, f[p]) \in 0..60
    BY DEF Gain
  <2>1. f[p] \in Candidates(p)
    BY <1>2
  <2>2. Weight(p, f[p]) \in 6..60
    BY <2>1, Worth
  <2> QED  BY <2>2
<1>4. PICK g : Sums(Gain(f), g) /\ Evidence(f) = g[work]
  BY <1>1, <1>2, EvidenceSums
<1>5. g[work] \in Nat /\ g[work] <= 60 * Cardinality(work)
  BY <1>1, <1>3, <1>4, SumsBounded
<1> QED  BY <1>1, <1>2, <1>3, <1>4, <1>5

\* The best arrangement is one no other outdoes (hungarian, of assign.go).
LEMMA BestIsMost ==
    ASSUME TwinInv, NEW f \in Arrangements, Best(f), NEW g \in Arrangements
    PROVE  Evidence(g) <= Evidence(f)
<1> DEFINE scores == {Evidence(h) : h \in Arrangements}
<1>1. Cardinality(work) \in Nat
  BY Evidenced, FS_CardinalityType
<1>2. PICK top : top = 60 * Cardinality(work)
  OBVIOUS
<1>3. top \in Nat /\ scores \in SUBSET Nat /\ scores # {} /\ \A x \in scores : x <= top
  <2>1. \A h \in Arrangements : Evidence(h) \in Nat /\ Evidence(h) <= top
    BY <1>2, Evidenced
  <2> QED  BY <1>1, <1>2, <2>1
<1>4. \E x \in scores : \A y \in scores : y <= x
  <2> HIDE DEF scores
  <2> QED  BY <1>3, Largest
<1>5. \E x \in scores : \A y \in scores : x >= y
  BY <1>3, <1>4
<1>6. \A y \in scores : Max(scores) >= y
  <2> HIDE DEF scores
  <2> QED  BY <1>5 DEF Max
<1>7. Evidence(f) = Max(scores)
  BY DEF Best, BestOf
<1>8. Evidence(g) \in scores /\ Evidence(f) \in scores
  OBVIOUS
<1>9. Evidence(f) >= Evidence(g)
  BY <1>6, <1>7, <1>8
<1>10. Evidence(f) \in Nat /\ Evidence(g) \in Nat
  BY Evidenced
<1> QED  BY <1>9, <1>10

\* A best arrangement leaves a purchase unpaired only where it takes every row the
\* purchase could have been paired with.
LEMMA NothingLeft ==
    ASSUME TwinInv, NEW f \in Arrangements, Best(f), NEW p \in work, f[p] = 0,
           NEW r \in Candidates(p)
    PROVE  \E q \in work : f[q] = r
<1>1. SUFFICES ASSUME \A q \in work : f[q] # r PROVE FALSE
  OBVIOUS
<1>2. PICK g : g = [f EXCEPT ![p] = r]
  OBVIOUS
<1>3. r \in rows /\ f \in [work -> rows \cup {0}] /\ r # 0
  BY RowsFinite DEF Candidates, Arrangements, TwinInv, TypeOK
<1>4. /\ g \in [work -> rows \cup {0}] /\ g[p] = r
      /\ \A q \in work : q # p => g[q] = f[q]
  BY <1>2, <1>3
<1>5. g \in Arrangements
  BY <1>1, <1>4 DEF Arrangements
<1>6. PICK a : Sums(Gain(f), a) /\ Evidence(f) = a[work]
  BY Evidenced, EvidenceSums
<1>7. PICK b : Sums(Gain(g), b) /\ Evidence(g) = b[work]
  BY <1>5, Evidenced, EvidenceSums
<1>8. Gain(f) \in [work -> Int] /\ Gain(g) \in [work -> Int] /\ IsFiniteSet(work)
  <2>1. Gain(f) \in [work -> 0..60] /\ Gain(g) \in [work -> 0..60] /\ IsFiniteSet(work)
    BY <1>5, Evidenced
  <2> QED  BY <2>1
<1>9. /\ \A q \in work : q # p => Gain(g)[q] = Gain(f)[q]
      /\ Gain(f)[p] = 0 /\ Gain(g)[p] = Weight(p, r)
  BY <1>3, <1>4 DEF Gain
<1>10. b[work] = a[work] + Weight(p, r)
  <2>1. Weight(p, r) \in Int
    BY Worth
  <2>2. b[work] = a[work] + (IF p \in work THEN Gain(g)[p] - Gain(f)[p] ELSE 0)
    BY <1>6, <1>7, <1>8, <1>9, SumsMove
  <2>3. a[work] \in Nat
    BY <1>6, Evidenced
  <2> QED  BY <1>9, <2>1, <2>2, <2>3
<1>11. Evidence(g) <= Evidence(f)
  BY <1>5, BestIsMost
<1>12. Weight(p, r) \in 6..60 /\ Evidence(f) \in Nat
  BY Worth, Evidenced
<1> QED  BY <1>6, <1>7, <1>10, <1>11, <1>12

-----------------------------------------------------------------------------
(* Rows are counted against purchases.                                     *)

\* Rows some booking is recorded on; rows marked booked that no booking is
\* recorded on; authorisations a run has passed.
RecordedRows == {r \in Rows : Records(r) # {}}
Orphans  == {r \in Rows : booked[r] # NoBooking /\ Records(r) = {}}
PastPending == {q \in feed \ (todo \cup work) : Pending(q)}

\* A row a run has claimed is recorded, or an authorisation it passed has it.
ClaimsCounted == Cardinality(claimed \ RecordedRows) <= Cardinality(PastPending)

\* Each row left marked without a record is the doing of one death.
OrphansCounted == Cardinality(Orphans) <= cuts

SurplusInv == ClaimsCounted /\ OrphansCounted /\ NoSurplus

\* Rows, claims and purchases can be counted.
LEMMA Countable ==
    ASSUME TwinInv
    PROVE  /\ IsFiniteSet(Rows) /\ IsFiniteSet(Purchases)
           /\ RecordedRows \in SUBSET Rows /\ Orphans \in SUBSET Rows
           /\ claimed \in SUBSET Rows /\ rows \in SUBSET Rows
           /\ work \in SUBSET Purchases /\ PastPending \in SUBSET Purchases
           /\ Reported \in SUBSET Purchases
           /\ \A S \in SUBSET Rows : IsFiniteSet(S) /\ Cardinality(S) \in Nat
           /\ \A S \in SUBSET Purchases : IsFiniteSet(S) /\ Cardinality(S) \in Nat
           /\ cuts \in Nat /\ TypedRows \in Nat
<1>a. MaxRows \in Int /\ 1 \in Int /\ IsFiniteSet(Purchases)
  BY ConstantsAssumption
<1>b. IsFiniteSet(1..MaxRows)
  BY <1>a, FS_Interval
<1>1. IsFiniteSet(Rows) /\ IsFiniteSet(Purchases)
  BY <1>a, <1>b DEF Rows
<1>2. /\ \A S \in SUBSET Rows : IsFiniteSet(S) /\ Cardinality(S) \in Nat
      /\ \A S \in SUBSET Purchases : IsFiniteSet(S) /\ Cardinality(S) \in Nat
  BY <1>1, FS_Subset, FS_CardinalityType
<1>3. /\ RecordedRows \in SUBSET Rows /\ Orphans \in SUBSET Rows
      /\ claimed \in SUBSET Rows /\ rows \in SUBSET Rows
      /\ work \in SUBSET Purchases /\ PastPending \in SUBSET Purchases
      /\ Reported \in SUBSET Purchases
  BY DEF RecordedRows, Orphans, PastPending, Reported, TwinInv, TypeOK
<1>4. cuts \in Nat /\ TypedRows \in Nat
  BY ConstantsAssumption DEF TwinInv, TypeOK
<1> QED  BY <1>1, <1>2, <1>3, <1>4

\* Two sets together hold no more than each of them.
LEMMA AtMost ==
    ASSUME NEW S, NEW T, IsFiniteSet(S), IsFiniteSet(T)
    PROVE  /\ Cardinality(S) \in Nat /\ Cardinality(T) \in Nat
           /\ IsFiniteSet(S \cup T) /\ Cardinality(S \cup T) \in Nat
           /\ Cardinality(S \cup T) <= Cardinality(S) + Cardinality(T)
           /\ S \cap T = {} => Cardinality(S \cup T) = Cardinality(S) + Cardinality(T)
<1>1. Cardinality(S) \in Nat /\ Cardinality(T) \in Nat
  BY FS_CardinalityType
<1>2. /\ IsFiniteSet(S \cup T)
      /\ Cardinality(S \cup T) = Cardinality(S) + Cardinality(T) - Cardinality(S \cap T)
  BY FS_Union
<1>3. IsFiniteSet(S \cap T) /\ Cardinality(S \cap T) \in Nat
  <2>1. S \cap T \in SUBSET S
    OBVIOUS
  <2> QED  BY <2>1, FS_Subset, FS_CardinalityType
<1>4. S \cap T = {} => Cardinality(S \cap T) = 0
  BY FS_EmptySet
<1>5. Cardinality(S \cup T) \in Nat
  BY <1>2, FS_CardinalityType
<1> QED  BY <1>1, <1>2, <1>3, <1>4, <1>5

\* During a run every recorded row has a booking of its own that is not in the
\* batch: the one whose place among the bookings of its days is the turn recorded.
LEMMA Bearers ==
    ASSUME TwinInv, ApartInv, pc # "idle"
    PROVE  Cardinality(RecordedRows) <= Cardinality({q \in Purchases : Booked(q)} \ work)
<1> DEFINE Names(i, q) == q \in Class(i[1], i[2]) /\ Place(q, Class(i[1], i[2])) = i[3]
           settled == {q \in Purchases : Booked(q)} \ work
<1>1. ASSUME NEW i \in Identities, identity[i] # 0 PROVE \E q \in Purchases : Names(i, q)
  <2>1. PICK S : S = Class(i[1], i[2])
    OBVIOUS
  <2>2. S \in SUBSET Purchases /\ i[3] <= Cardinality(S) /\ i[3] \in Nat /\ i[3] >= 1
    BY <1>1, <2>1 DEF ApartInv, RecordsFit, Class, Identities, Index
  <2>3. IsFiniteSet(S) /\ \A t \in 1..Cardinality(S) : \E q \in S : Place(q, S) = t
    BY <2>2, Places DEF TwinInv, Feeding
  <2>4. i[3] \in 1..Cardinality(S)
    BY <2>2, <2>3, FS_CardinalityType
  <2> QED  BY <2>1, <2>2, <2>3, <2>4
<1>2. ASSUME NEW i \in Identities, NEW j \in Identities, NEW q, Names(i, q), Names(j, q)
      PROVE  i = j
  <2>1. i[1] = j[1] /\ i[2] = j[2]
    BY <1>2 DEF Class
  <2>2. i[3] = j[3]
    BY <1>2, <2>1
  <2> QED  BY <2>1, <2>2 DEF Identities
<1>3. ASSUME NEW i \in Identities, identity[i] # 0, NEW q, Names(i, q)
      PROVE  q \in settled
  <2>1. q \in Purchases /\ Booked(q) /\ bookDay[q] = i[1] /\ day[q] = i[2]
    BY <1>3 DEF Class
  <2>2. SUFFICES ASSUME q \in work PROVE FALSE
    BY <2>1
  <2>3. q \in feed
    BY <2>2 DEF TwinInv, TypeOK
  <2>4. i[1] >= from
    BY <2>1, <2>3 DEF ApartInv, Windowed, Reach, Booked
  <2>5. FeedClass(i[1], i[2]) = Class(i[1], i[2])
    BY <2>4 DEF FeedClass, Class, ApartInv, Windowed, Reported, Reach, Booked, TwinInv, TypeOK
  <2>6. Identity(q) = <<i[1], i[2], i[3]>>
    BY <1>3, <2>1, <2>5, IdentityPlace
  <2>7. Identity(q) = i
    BY <2>6 DEF Identities
  <2> QED  BY <1>3, <2>1, <2>2, <2>7 DEF ApartInv, BatchNew
<1> DEFINE record == [r \in RecordedRows |-> CHOOSE i \in Identities : identity[i] = r]
           bearer == [r \in RecordedRows |-> CHOOSE q \in Purchases : Names(record[r], q)]
<1> HIDE DEF Names, settled
<1>4. ASSUME NEW r \in RecordedRows
      PROVE  /\ record[r] \in Identities /\ identity[record[r]] = r /\ r # 0
  <2>1. \E i \in Identities : identity[i] = r
    BY DEF RecordedRows, Records
  <2>2. r # 0
    BY RowsFinite DEF RecordedRows, TwinInv
  <2> QED  BY <2>1, <2>2
<1> HIDE DEF record
<1>5. ASSUME NEW r \in RecordedRows
      PROVE  Names(record[r], bearer[r]) /\ bearer[r] \in settled
  <2>1. \E q \in Purchases : Names(record[r], q)
    BY <1>1, <1>4
  <2>2. Names(record[r], bearer[r])
    BY <2>1
  <2> QED  BY <2>2, <1>3, <1>4
<1>6. bearer \in [RecordedRows -> settled]
  BY <1>5
<1>7. ASSUME NEW r \in RecordedRows, NEW s \in RecordedRows, bearer[r] = bearer[s] PROVE r = s
  <2> HIDE DEF bearer
  <2>1. record[r] = record[s]
    BY <1>2, <1>4, <1>5, <1>7
  <2> QED  BY <2>1, <1>4
<1>8. bearer \in Injection(RecordedRows, settled)
  <2> HIDE DEF bearer
  <2> QED  BY <1>6, <1>7 DEF Injection, IsInjective
<1>9. IsFiniteSet(settled)
  <2>1. settled \in SUBSET Purchases
    BY DEF settled
  <2> QED  BY <2>1, Countable
<1>10. Cardinality(RecordedRows) <= Cardinality(settled)
  <2> HIDE DEF bearer
  <2> QED  BY <1>8, <1>9, FS_Injection
<1> QED  BY <1>10 DEF settled

\* What is recorded or claimed is no more than what is reported and not in the batch.
LEMMA TakenCounted ==
    ASSUME TwinInv, ApartInv, ClaimsCounted, pc # "idle"
    PROVE  Cardinality(claimed \cup RecordedRows) <= Cardinality(Reported \ work)
<1>1. PICK B : B = {q \in Purchases : Booked(q)} \ work
  OBVIOUS
<1>2. PICK C : C = claimed \ RecordedRows
  OBVIOUS
<1>3. /\ B \in SUBSET Purchases /\ C \in SUBSET Rows
      /\ IsFiniteSet(B) /\ IsFiniteSet(C) /\ IsFiniteSet(RecordedRows) /\ IsFiniteSet(PastPending)
  <2>1. B \in SUBSET Purchases /\ C \in SUBSET Rows
    BY <1>1, <1>2, Countable
  <2> QED  BY <2>1, Countable
<1>4. PastPending \cap B = {} /\ PastPending \cup B \in SUBSET (Reported \ work)
  BY <1>1 DEF PastPending, Pending, Booked, TwinInv, Feeding, Reported, TypeOK
<1>5. Cardinality(PastPending \cup B) = Cardinality(PastPending) + Cardinality(B)
      /\ Cardinality(PastPending) \in Nat /\ Cardinality(B) \in Nat
  BY <1>3, <1>4, AtMost
<1>6. /\ Cardinality(PastPending \cup B) <= Cardinality(Reported \ work)
      /\ Cardinality(PastPending \cup B) \in Nat /\ Cardinality(Reported \ work) \in Nat
  <2>1. IsFiniteSet(Reported \ work)
    BY Countable
  <2> QED  BY <1>4, <2>1, FS_Subset, FS_CardinalityType
<1>7. /\ Cardinality(C \cup RecordedRows) <= Cardinality(C) + Cardinality(RecordedRows)
      /\ Cardinality(C) \in Nat /\ Cardinality(RecordedRows) \in Nat
      /\ Cardinality(C \cup RecordedRows) \in Nat
  BY <1>3, AtMost
<1>8. Cardinality(C) <= Cardinality(PastPending) /\ Cardinality(RecordedRows) <= Cardinality(B)
  BY <1>1, <1>2, Bearers DEF ClaimsCounted
<1>9. C \cup RecordedRows = claimed \cup RecordedRows
  BY <1>2
<1>10. Cardinality(C \cup RecordedRows) <= Cardinality(Reported \ work)
  BY <1>5, <1>6, <1>7, <1>8
<1> QED  BY <1>9, <1>10

\* A batch creates rows only where every row that could have been meant is taken.
LEMMA FlushCounted ==
    ASSUME TwinInv, ApartInv, SurplusInv, FlushDue, NEW f \in Arrangements, Best(f),
           NEW done \in SUBSET work
    PROVE  Cardinality(Grown(done, f)) <= TypedRows + Cardinality(Reported) + cuts
<1>1. PICK new : new = {q \in done : f[q] = 0}
  OBVIOUS
<1>2. PICK unpaired : unpaired = {q \in work : f[q] = 0}
  OBVIOUS
<1>3. PICK numbers : numbers = {RowFor(q, f) : q \in new}
  OBVIOUS
<1>4. Grown(done, f) = rows \cup numbers
  BY <1>1, <1>3 DEF Grown
<1>5. CASE unpaired = {}
  <2>1. Grown(done, f) = rows
    BY <1>1, <1>2, <1>3, <1>4, <1>5
  <2> QED  BY <2>1 DEF SurplusInv, NoSurplus
<1>6. CASE unpaired # {}
  <2>1. PICK p \in unpaired : TRUE
    BY <1>6
  <2>2. PICK used : used = {f[q] : q \in work \ unpaired}
    OBVIOUS
  <2>3. rows \subseteq ((claimed \cup RecordedRows) \cup Orphans) \cup used
    <3> SUFFICES ASSUME NEW r \in rows, r \notin claimed, r \notin RecordedRows, r \notin Orphans
                 PROVE  r \in used
      OBVIOUS
    <3>1. r \in Rows /\ r # 0
      BY RowsFinite DEF TwinInv, TypeOK
    <3>2. Records(r) = {} /\ booked[r] = NoBooking
      BY <3>1 DEF RecordedRows, Orphans
    <3>3. r \in Candidates(p)
      BY <3>2 DEF Candidates, Sealed
    <3>4. PICK q \in work : f[q] = r
      BY <1>2, <2>1, <3>3, NothingLeft
    <3> QED  BY <1>2, <2>2, <3>1, <3>4
  <2>4. IsFiniteSet(work \ unpaired) /\ IsFiniteSet(unpaired) /\ unpaired \in SUBSET work
        /\ IsFiniteSet(new) /\ new \in SUBSET unpaired /\ work \in SUBSET Reported
    <3>1. work \ unpaired \in SUBSET Purchases /\ unpaired \in SUBSET Purchases
          /\ new \in SUBSET Purchases /\ unpaired \in SUBSET work /\ new \in SUBSET unpaired
      BY <1>1, <1>2, Countable
    <3>2. work \in SUBSET Reported
      BY DEF TwinInv, TypeOK, Feeding
    <3> QED  BY <3>1, <3>2, Countable
  <2>5. IsFiniteSet(used) /\ Cardinality(used) <= Cardinality(work \ unpaired)
    <3>1. PICK g : g = [q \in work \ unpaired |-> f[q]]
      OBVIOUS
    <3>2. g \in Surjection(work \ unpaired, used)
      BY <2>2, <3>1 DEF Surjection
    <3> QED  BY <2>4, <3>2, FS_Surjection
  <2>6. IsFiniteSet(numbers) /\ Cardinality(numbers) <= Cardinality(new)
    <3>1. PICK g : g = [q \in new |-> RowFor(q, f)]
      OBVIOUS
    <3>2. g \in Surjection(new, numbers)
      BY <1>3, <3>1 DEF Surjection
    <3> QED  BY <2>4, <3>2, FS_Surjection
  <2>7. PICK T : T = claimed \cup RecordedRows
    OBVIOUS
  <2>8. /\ IsFiniteSet(T) /\ Cardinality(T) \in Nat /\ IsFiniteSet(Orphans)
        /\ Cardinality(Orphans) \in Nat /\ Cardinality(rows) \in Nat /\ IsFiniteSet(rows)
    <3>1. T \in SUBSET Rows
      BY <2>7, Countable
    <3> QED  BY <3>1, Countable
  <2>9. /\ IsFiniteSet(T \cup Orphans) /\ Cardinality(T \cup Orphans) \in Nat
        /\ Cardinality(T \cup Orphans) <= Cardinality(T) + Cardinality(Orphans)
    BY <2>8, AtMost
  <2>10. /\ IsFiniteSet((T \cup Orphans) \cup used)
         /\ Cardinality((T \cup Orphans) \cup used)
                <= Cardinality(T \cup Orphans) + Cardinality(used)
         /\ Cardinality((T \cup Orphans) \cup used) \in Nat /\ Cardinality(used) \in Nat
    BY <2>5, <2>9, AtMost
  <2>11. Cardinality(rows) <= Cardinality((T \cup Orphans) \cup used)
    BY <2>3, <2>7, <2>10, FS_Subset
  <2>12. /\ Cardinality(rows \cup numbers) <= Cardinality(rows) + Cardinality(numbers)
         /\ Cardinality(rows \cup numbers) \in Nat /\ Cardinality(numbers) \in Nat
    BY <2>6, <2>8, AtMost
  <2>13. Cardinality(new) <= Cardinality(unpaired) /\ Cardinality(new) \in Nat
    BY <2>4, FS_Subset, FS_CardinalityType
  <2>14. /\ Cardinality(work \ unpaired) \in Nat /\ Cardinality(unpaired) \in Nat
         /\ Cardinality(work) = Cardinality(work \ unpaired) + Cardinality(unpaired)
    <3>1. (work \ unpaired) \cap unpaired = {} /\ (work \ unpaired) \cup unpaired = work
      BY <2>4
    <3> QED  BY <2>4, <3>1, AtMost
  <2>15. /\ Cardinality(Reported \ work) \in Nat
         /\ Cardinality(Reported) = Cardinality(Reported \ work) + Cardinality(work)
    <3>1. (Reported \ work) \cap work = {} /\ (Reported \ work) \cup work = Reported
      BY <2>4
    <3>2. IsFiniteSet(Reported \ work) /\ IsFiniteSet(work)
      BY Countable
    <3> QED  BY <3>1, <3>2, AtMost
  <2>16. Cardinality(T) <= Cardinality(Reported \ work)
    BY <2>7, TakenCounted DEF SurplusInv, FlushDue
  <2>17. Cardinality(Orphans) <= cuts /\ cuts \in Nat /\ TypedRows \in Nat
    BY Countable DEF SurplusInv, OrphansCounted
  <2>18. Cardinality(rows) <= Cardinality(Reported \ work) + cuts + Cardinality(work \ unpaired)
    BY <2>5, <2>8, <2>9, <2>10, <2>11, <2>14, <2>15, <2>16, <2>17
  <2>19. Cardinality(rows \cup numbers) <= Cardinality(rows) + Cardinality(unpaired)
    BY <2>6, <2>8, <2>12, <2>13, <2>14
  <2> QED  BY <1>4, <2>8, <2>12, <2>14, <2>15, <2>17, <2>18, <2>19
<1> QED  BY <1>5, <1>6

-----------------------------------------------------------------------------
(* The steps of a run keep the count.                                      *)

\* A record is only ever added.
LEMMA RecordedGrows ==
    ASSUME TwinInv,
           \/ identity' = identity
           \/ \E i \in Identities, r \in rows :
                 identity[i] = 0 /\ identity' = [identity EXCEPT ![i] = r]
    PROVE  RecordedRows \subseteq RecordedRows'
<1>1. SUFFICES ASSUME NEW x \in RecordedRows PROVE x \in RecordedRows'
  OBVIOUS
<1>2. PICK j \in Identities : identity[j] = x
  BY DEF RecordedRows, Records
<1>3. x \in Rows /\ x # 0
  BY RowsFinite DEF RecordedRows, TwinInv
<1>4. identity'[j] = x
  BY <1>2, <1>3 DEF TwinInv, TypeOK
<1> QED  BY <1>2, <1>3, <1>4 DEF RecordedRows, Records

\* The row that is written down is recorded.
LEMMA RecordedNow ==
    ASSUME TwinInv, NEW i \in Identities, NEW r \in rows,
           identity' = [identity EXCEPT ![i] = r]
    PROVE  r \in RecordedRows'
<1>1. identity'[i] = r /\ r \in Rows
  BY DEF TwinInv, TypeOK
<1> QED  BY <1>1 DEF RecordedRows, Records

\* A mark on a row that is recorded at once leaves none without a record.
LEMMA OrphansStand ==
    ASSUME TwinInv, OrphansCounted, RecordedRows \subseteq RecordedRows', cuts' = cuts,
           \A x \in Rows : booked'[x] = booked[x] \/ x \in RecordedRows'
    PROVE  OrphansCounted'
<1>1. Orphans' \subseteq Orphans
  BY DEF Orphans, RecordedRows
<1>2. IsFiniteSet(Orphans) /\ Cardinality(Orphans) \in Nat /\ cuts \in Nat
  BY Countable
<1>3. IsFiniteSet(Orphans') /\ Cardinality(Orphans') <= Cardinality(Orphans)
  BY <1>1, <1>2, FS_Subset
<1>4. Cardinality(Orphans') \in Nat
  BY <1>3, FS_CardinalityType
<1> QED  BY <1>2, <1>3, <1>4 DEF OrphansCounted

\* A run claims a row that is recorded, or one for an authorisation it passes.
LEMMA ClaimsGrow ==
    ASSUME TwinInv, TwinInv', ClaimsCounted, RecordedRows \subseteq RecordedRows',
           PastPending \subseteq PastPending',
           \/ claimed' \subseteq claimed
           \/ \E r \in RecordedRows' : claimed' \subseteq claimed \cup {r}
           \/ \E r : \E p \in PastPending' \ PastPending : claimed' \subseteq claimed \cup {r}
    PROVE  ClaimsCounted'
<1>1. PICK C, D, P, Q : /\ C = claimed \ RecordedRows /\ D = (claimed \ RecordedRows)'
                        /\ P = PastPending /\ Q = PastPending'
  OBVIOUS
<1>2. /\ IsFiniteSet(C) /\ Cardinality(C) \in Nat
      /\ IsFiniteSet(P) /\ Cardinality(P) \in Nat
      /\ IsFiniteSet(Q) /\ Cardinality(Q) \in Nat
      /\ IsFiniteSet(D) /\ Cardinality(D) \in Nat
  <2>1. C \in SUBSET Rows /\ P \in SUBSET Purchases
    BY <1>1, Countable
  <2>2. D \in SUBSET Rows /\ Q \in SUBSET Purchases
    BY <1>1 DEF TwinInv, TypeOK, PastPending
  <2> QED  BY <2>1, <2>2, Countable
<1>3. P \in SUBSET Q /\ Cardinality(P) <= Cardinality(Q) /\ Cardinality(C) <= Cardinality(P)
  <2>1. P \in SUBSET Q
    BY <1>1
  <2>2. Cardinality(C) <= Cardinality(P)
    BY <1>1 DEF ClaimsCounted
  <2> QED  BY <1>2, <2>1, <2>2, FS_Subset
<1>4. CASE D \subseteq C
  <2>1. Cardinality(D) <= Cardinality(C)
    BY <1>2, <1>4, FS_Subset
  <2>2. Cardinality(D) <= Cardinality(Q)
    BY <1>2, <1>3, <2>1
  <2> QED  BY <1>1, <2>2 DEF ClaimsCounted
<1>5. ASSUME NEW r, NEW p \in Q \ P, claimed' \subseteq claimed \cup {r}
      PROVE  ClaimsCounted'
  <2>1. D \in SUBSET (C \cup {r}) /\ P \cup {p} \in SUBSET Q
    BY <1>1, <1>3, <1>5
  <2>2. /\ IsFiniteSet(C \cup {r}) /\ Cardinality(C \cup {r}) <= Cardinality(C) + 1
        /\ Cardinality(C \cup {r}) \in Nat
    <3>1. IsFiniteSet({r}) /\ Cardinality({r}) = 1
      BY FS_Singleton
    <3> QED  BY <1>2, <3>1, AtMost
  <2>3. Cardinality(P \cup {p}) = Cardinality(P) + 1
    BY <1>2, <1>5, FS_AddElement
  <2>4. Cardinality(D) <= Cardinality(C \cup {r})
    BY <2>1, <2>2, FS_Subset
  <2>5. Cardinality(P \cup {p}) <= Cardinality(Q)
    BY <1>2, <2>1, FS_Subset
  <2>6. Cardinality(D) <= Cardinality(Q)
    BY <1>2, <1>3, <2>2, <2>3, <2>4, <2>5
  <2> QED  BY <1>1, <2>6 DEF ClaimsCounted
<1>6. ASSUME NEW r \in RecordedRows', claimed' \subseteq claimed \cup {r}
      PROVE  D \subseteq C
  BY <1>1, <1>6
<1>7. CASE claimed' \subseteq claimed
  BY <1>1, <1>4, <1>7
<1> QED  BY <1>1, <1>4, <1>5, <1>6, <1>7

\* What is passed stays passed while a run lasts.
LEMMA PastStays ==
    ASSUME UNCHANGED <<bankVars, feed, rank>>, todo' \cup work' \subseteq todo \cup work
    PROVE  PastPending \subseteq PastPending'
BY KeysStand DEF PastPending

\* The count of the rows stands where rows and bank do.
LEMMA CountStands ==
    ASSUME TwinInv, NoSurplus, rows' = rows, UNCHANGED bankVars, cuts' = cuts
    PROVE  NoSurplus'
BY DEF NoSurplus, Reported, bankVars

\* More purchases, no more rows.
LEMMA BankCounted ==
    ASSUME TwinInv, TwinInv', SurplusInv, BankStep
    PROVE  SurplusInv'
<1>1. pc = "idle" /\ UNCHANGED <<budgetVars, stateVars, watermark, pc, runVars, history>>
  BY DEF BankStep, BankAuthorises, BankBooks, BankWithdraws, Tick, BankMoves
<1>2. UNCHANGED <<rows, identity, booked, claimed, cuts>>
  BY <1>1 DEF budgetVars, stateVars, runVars, history
<1>3. PastPending = {}
  BY <1>1 DEF PastPending, TwinInv, Feeding
<1>4. RecordedRows \subseteq RecordedRows'
  BY <1>2, RecordedGrows
<1>5. ClaimsCounted'
  BY <1>2, <1>3, <1>4, ClaimsGrow DEF SurplusInv
<1>6. OrphansCounted'
  BY <1>2, <1>4, OrphansStand DEF SurplusInv
<1>7. Reported \subseteq Reported'
  BY DEF BankStep, BankAuthorises, BankBooks, BankWithdraws, Tick, Reported, TwinInv, TypeOK
<1>8. NoSurplus'
  <2>1. PICK R, S : R = Reported /\ S = Reported'
    OBVIOUS
  <2>2. S \in SUBSET Purchases /\ R \in SUBSET S
    BY <1>7, <2>1 DEF Reported
  <2>3. IsFiniteSet(S) /\ Cardinality(S) \in Nat
    BY <2>2, Countable
  <2>4. Cardinality(R) <= Cardinality(S) /\ Cardinality(R) \in Nat
    BY <2>2, <2>3, FS_Subset, FS_CardinalityType
  <2>5. Cardinality(rows) \in Nat /\ cuts \in Nat /\ TypedRows \in Nat
    BY Countable
  <2>6. Cardinality(rows) <= TypedRows + Cardinality(R) + cuts
    BY <2>1 DEF SurplusInv, NoSurplus
  <2>7. Cardinality(rows) <= TypedRows + Cardinality(S) + cuts
    BY <2>3, <2>4, <2>5, <2>6
  <2> QED  BY <1>2, <2>1, <2>7 DEF NoSurplus
<1> QED  BY <1>5, <1>6, <1>8 DEF SurplusInv

\* A run starts with nothing passed.
LEMMA FetchCounted ==
    ASSUME TwinInv, TwinInv', SurplusInv, NEW order \in Orders, Fetch(order)
    PROVE  SurplusInv'
<1>1. UNCHANGED <<bankVars, rows, identity, booked, claimed, cuts>> /\ pc = "idle"
  BY DEF Fetch, budgetVars
<1>2. PastPending = {}
  BY <1>1 DEF PastPending, TwinInv, Feeding
<1>3. RecordedRows \subseteq RecordedRows'
  BY <1>1, RecordedGrows
<1>4. ClaimsCounted' /\ OrphansCounted' /\ NoSurplus'
  BY <1>1, <1>2, <1>3, ClaimsGrow, OrphansStand, CountStands DEF SurplusInv
<1> QED  BY <1>4 DEF SurplusInv

\* An item of the list claims its own row.
LEMMA ItemCounted ==
    ASSUME TwinInv, TwinInv', ApartInv, SurplusInv, NEW p \in Purchases,
           SkipItem(p) \/ SeenItem(p) \/ QueueItem(p)
    PROVE  SurplusInv'
<1> USE DEF budgetVars, stateVars, history, Next1
<1>1. /\ UNCHANGED <<bankVars, rows, identity, booked, feed, rank, cuts>>
      /\ p \in todo /\ todo' = todo \ {p} /\ work' \in {work, work \cup {p}}
  BY DEF SkipItem, SeenItem, QueueItem, AtItem, IsFirst
<1>2. RecordedRows \subseteq RecordedRows'
  BY <1>1, RecordedGrows
<1>3. PastPending \subseteq PastPending'
  BY <1>1, PastStays
<1>4. OrphansCounted' /\ NoSurplus'
  BY <1>1, <1>2, OrphansStand, CountStands DEF SurplusInv
<1>5. ClaimsCounted'
  <2>1. CASE ~SeenItem(p)
    <3>1. claimed' = claimed
      BY <2>1 DEF SkipItem, QueueItem
    <3> QED  BY <3>1, <1>2, <1>3, ClaimsGrow DEF SurplusInv
  <2>2. CASE SeenItem(p) /\ Pending(p)
    <3>1. work' = work /\ \E r : claimed' \subseteq claimed \cup {r}
      BY <2>2 DEF SeenItem
    <3>2. p \in feed /\ Pending(p)'
      BY <1>1, <2>2 DEF TwinInv, TypeOK, Pending, bankVars
    <3>3. p \notin work
      BY <1>1 DEF ApartInv, BatchNew
    <3>4. p \in PastPending' \ PastPending
      BY <1>1, <3>1, <3>2, <3>3 DEF PastPending
    <3> QED  BY <3>1, <3>4, <1>2, <1>3, ClaimsGrow DEF SurplusInv
  <2>3. CASE SeenItem(p) /\ ~Pending(p)
    <3>1. PICK r : r = identity[Identity(p)]
      OBVIOUS
    <3>2. r # 0 /\ claimed' = claimed \cup {r} /\ Booked(p)
      BY <1>1, <2>3, <3>1, AtHand DEF SeenItem
    <3>3. Identity(p) \in Identities
      BY <1>1, <3>2, AtHand
    <3>4. r \in RecordedRows
      BY <3>1, <3>2, <3>3 DEF RecordedRows, Records, TwinInv, TypeOK
    <3>5. r \in RecordedRows'
      BY <3>4, <1>2
    <3> QED  BY <3>2, <3>5, <1>2, <1>3, ClaimsGrow DEF SurplusInv
  <2> QED  BY <2>1, <2>2, <2>3
<1> QED  BY <1>4, <1>5 DEF SurplusInv

\* A confirmation records the row it claims.
LEMMA ConfirmCounted ==
    ASSUME TwinInv, TwinInv', SurplusInv, NEW p \in Purchases, Confirm(p)
    PROVE  SurplusInv'
<1>1. PICK r, i : r = pend[Key(p)] /\ i = Identity(p)
  OBVIOUS
<1>2. r \in rows /\ i \in Identities
  BY <1>1, ConfirmedItem DEF Confirm
<1>3. /\ UNCHANGED <<bankVars, rows, feed, rank, work, cuts>>
      /\ todo' \subseteq todo /\ identity[i] = 0
      /\ claimed' = claimed \cup {r} /\ identity' = [identity EXCEPT ![i] = r]
      /\ booked' = [booked EXCEPT ![r] = Key(p)]
  BY <1>1 DEF Confirm, Confirms, Known, Next1, history
<1>4. RecordedRows \subseteq RecordedRows' /\ r \in RecordedRows'
  BY <1>2, <1>3, RecordedGrows, RecordedNow
<1>5. PastPending \subseteq PastPending'
  BY <1>3, PastStays
<1>6. \A x \in Rows : booked'[x] = booked[x] \/ x \in RecordedRows'
  BY <1>3, <1>4 DEF TwinInv, TypeOK
<1>7. ClaimsCounted'
  BY <1>3, <1>4, <1>5, ClaimsGrow DEF SurplusInv
<1>8. OrphansCounted' /\ NoSurplus'
  BY <1>3, <1>4, <1>6, OrphansStand, CountStands DEF SurplusInv
<1> QED  BY <1>7, <1>8 DEF SurplusInv

\* What is remembered of a batch is recorded or passed.
LEMMA SettleCounted ==
    ASSUME TwinInv, TwinInv', ApartInv, SurplusInv, NEW p \in Purchases,
           SettlePending(p) \/ SettleBooked(p) \/ Hold(p)
    PROVE  SurplusInv'
<1> USE DEF budgetVars, history
<1>1. /\ UNCHANGED <<bankVars, rows, feed, rank, todo, cuts>>
      /\ p \in work /\ work' = work \ {p} /\ out[p].row \in rows
      /\ Booked(p) => Identity(p) \in Identities
  <2>1. /\ UNCHANGED <<bankVars, rows, feed, rank, todo, cuts>>
        /\ AtSettle(p) /\ work' = work \ {p}
    BY DEF SettlePending, SettleBooked, Hold, Settled
  <2> QED  BY <2>1, NextSettled
<1>2. PastPending \subseteq PastPending'
  BY <1>1, PastStays
<1>3. CASE SettlePending(p)
  <2>1. /\ UNCHANGED <<identity, booked>> /\ Pending(p)
        /\ \E r : claimed' \subseteq claimed \cup {r}
    BY <1>3 DEF SettlePending
  <2>2. RecordedRows \subseteq RecordedRows'
    BY <2>1, RecordedGrows
  <2>3. p \in PastPending' \ PastPending
    <3>1. p \in feed /\ p \notin todo /\ Pending(p)'
      BY <1>1, <2>1 DEF ApartInv, BatchNew, TwinInv, TypeOK, Pending, bankVars
    <3> QED  BY <1>1, <3>1 DEF PastPending
  <2> QED
    BY <1>1, <1>2, <2>1, <2>2, <2>3, ClaimsGrow, OrphansStand, CountStands DEF SurplusInv
<1>4. CASE SettleBooked(p)
  <2>1. PICK r, i : r = out[p].row /\ i = Identity(p)
    OBVIOUS
  <2>2. /\ Booked(p) /\ i \in Identities /\ r \in rows
        /\ identity' = [identity EXCEPT ![i] = r] /\ claimed' = claimed \cup {r}
        /\ booked' = MarkBooked(r) \/ \E k \in Entries(r) : booked' = [booked EXCEPT ![r] = k]
    BY <1>1, <1>4, <2>1 DEF SettleBooked
  <2>3. identity[i] = 0
    BY <1>1, <2>1, <2>2 DEF ApartInv, BatchNew
  <2>4. RecordedRows \subseteq RecordedRows' /\ r \in RecordedRows'
    BY <2>2, <2>3, RecordedGrows, RecordedNow
  <2>5. \A x \in Rows : booked'[x] = booked[x] \/ x \in RecordedRows'
    BY <2>2, <2>4 DEF MarkBooked, TwinInv, TypeOK
  <2>6. ClaimsCounted'
    BY <2>2, <2>4, <1>2, ClaimsGrow DEF SurplusInv
  <2> QED
    BY <1>1, <2>4, <2>5, <2>6, OrphansStand, CountStands DEF SurplusInv
<1>5. CASE Hold(p)
  <2>1. UNCHANGED <<identity, booked, claimed>>
    BY <1>5 DEF Hold
  <2>2. RecordedRows \subseteq RecordedRows'
    BY <2>1, RecordedGrows
  <2> QED
    BY <1>1, <1>2, <2>1, <2>2, ClaimsGrow, OrphansStand, CountStands DEF SurplusInv
<1> QED  BY <1>3, <1>4, <1>5

\* A batch, whole or cut short.
LEMMA BatchCounted ==
    ASSUME TwinInv, TwinInv', ApartInv, SurplusInv, Flush \/ FlushFails
    PROVE  SurplusInv'
<1>1. /\ UNCHANGED <<bankVars, stateVars, feed, rank, todo, claimed, cuts>> /\ FlushDue
      /\ work' \subseteq work
  BY DEF Flush, FlushFails, history
<1>2. RecordedRows \subseteq RecordedRows'
  BY <1>1, RecordedGrows DEF stateVars
<1>3. PastPending \subseteq PastPending'
  BY <1>1, PastStays
<1>4. ClaimsCounted' /\ OrphansCounted'
  BY <1>1, <1>2, <1>3, ClaimsGrow, OrphansStand DEF SurplusInv, stateVars
<1>5. PICK f \in Arrangements, done \in SUBSET work : Best(f) /\ Write(done, f)
  <2>1. CASE Flush
    BY <2>1 DEF Flush
  <2>2. CASE FlushFails
    <3>1. PICK f \in Arrangements, last \in work :
              Best(f) /\ Write({p \in work : p # last /\ Precedes(p, last, rank)}, f)
      BY <2>2 DEF FlushFails
    <3>2. {p \in work : p # last /\ Precedes(p, last, rank)} \in SUBSET work
      OBVIOUS
    <3> QED  BY <3>1, <3>2
  <2> QED  BY <2>1, <2>2
<1>6. rows' = Grown(done, f)
  BY <1>5 DEF Write, Grown
<1>7. NoSurplus'
  BY <1>1, <1>5, <1>6, FlushCounted DEF NoSurplus, Reported, bankVars
<1> QED  BY <1>4, <1>7 DEF SurplusInv

\* Between runs nothing is claimed.
LEMMA NothingClaimed ==
    ASSUME TwinInv', claimed' = {}
    PROVE  ClaimsCounted'
<1>1. (claimed \ RecordedRows)' = {} /\ Cardinality({}) = 0
  BY FS_EmptySet
<1>2. PastPending' \in SUBSET Purchases
  BY DEF PastPending, TwinInv, TypeOK
<1>3. IsFiniteSet(PastPending')
  BY <1>2, ConstantsAssumption, FS_Subset
<1>4. Cardinality(PastPending') \in Nat
  BY <1>3, FS_CardinalityType
<1>5. Cardinality((claimed \ RecordedRows)') = 0
  BY <1>1
<1> QED  BY <1>4, <1>5 DEF ClaimsCounted

\* The end of a run, and a death within one: the one between booked_rows and the
\* identity leaves a row no authorisation will take.
LEMMA EndCounted ==
    ASSUME TwinInv, TwinInv', ApartInv, SurplusInv,
           \/ Conclude \/ Crash
           \/ \E p \in Purchases : CrashConfirming(p) \/ CrashSettling(p)
    PROVE  SurplusInv'
<1> USE DEF budgetVars, stateVars, history
<1>1. UNCHANGED <<bankVars, rows>> /\ claimed' = {}
  BY DEF Conclude, Crash, CrashConfirming, CrashSettling, EndRun
<1>2. ClaimsCounted'
  BY <1>1, NothingClaimed
<1>3. CASE Conclude \/ Crash
  <2>1. UNCHANGED <<identity, booked, cuts>>
    BY <1>3 DEF Conclude, Crash
  <2>2. RecordedRows \subseteq RecordedRows'
    BY <2>1, RecordedGrows
  <2> QED  BY <1>1, <1>2, <2>1, <2>2, OrphansStand, CountStands DEF SurplusInv
<1>4. ASSUME NEW p \in Purchases, CrashSettling(p) PROVE SurplusInv'
  <2>1. PICK r, i : r = out[p].row /\ i = Identity(p)
    OBVIOUS
  <2>2. /\ AtSettle(p) /\ Booked(p) /\ UNCHANGED <<booked, cuts>>
        /\ identity' = [identity EXCEPT ![i] = r]
    BY <1>4, <2>1 DEF CrashSettling
  <2>3. r \in rows /\ i \in Identities /\ p \in work
    BY <2>1, <2>2, NextSettled
  <2>4. identity[i] = 0
    BY <2>1, <2>2, <2>3 DEF ApartInv, BatchNew
  <2>5. RecordedRows \subseteq RecordedRows'
    BY <2>2, <2>3, <2>4, RecordedGrows
  <2> QED  BY <1>1, <1>2, <2>2, <2>5, OrphansStand, CountStands DEF SurplusInv
<1>5. ASSUME NEW p \in Purchases, CrashConfirming(p) PROVE SurplusInv'
  <2>1. PICK r : r = pend[Key(p)]
    OBVIOUS
  <2>2. /\ identity' = identity /\ r \in Rows
        /\ \/ booked' = booked /\ cuts' = cuts
           \/ booked' = [booked EXCEPT ![r] = Key(p)] /\ cuts' = cuts + 1
    BY <1>5, <2>1, ConfirmedItem DEF CrashConfirming
  <2>3. RecordedRows \subseteq RecordedRows'
    BY <2>2, RecordedGrows
  <2>4. CASE booked' = booked /\ cuts' = cuts
    BY <1>1, <1>2, <2>3, <2>4, OrphansStand, CountStands DEF SurplusInv
  <2>5. CASE booked' = [booked EXCEPT ![r] = Key(p)] /\ cuts' = cuts + 1
    <3>1. PICK A, B : A = Orphans /\ B = Orphans'
      OBVIOUS
    <3>2. B \in SUBSET (A \cup {r})
      BY <2>2, <2>5, <3>1 DEF Orphans, Records, TwinInv, TypeOK
    <3>3. IsFiniteSet(A) /\ Cardinality(A) \in Nat /\ cuts \in Nat
          /\ Cardinality(A) <= cuts
      BY <3>1, Countable DEF SurplusInv, OrphansCounted
    <3>4. IsFiniteSet({r}) /\ Cardinality({r}) = 1
      BY FS_Singleton
    <3>5. /\ IsFiniteSet(A \cup {r}) /\ Cardinality(A \cup {r}) \in Nat
          /\ Cardinality(A \cup {r}) <= Cardinality(A) + 1
      BY <3>3, <3>4, AtMost
    <3>6. IsFiniteSet(B) /\ Cardinality(B) <= Cardinality(A \cup {r})
      BY <3>2, <3>5, FS_Subset
    <3>7. Cardinality(B) \in Nat
      BY <3>6, FS_CardinalityType
    <3>8. Cardinality(B) <= cuts'
      BY <2>5, <3>3, <3>5, <3>6, <3>7
    <3>9. NoSurplus'
      <4>1. Cardinality(rows) \in Nat /\ TypedRows \in Nat /\ Cardinality(Reported) \in Nat
        BY Countable
      <4>2. Cardinality(rows) <= TypedRows + Cardinality(Reported) + cuts'
        BY <2>5, <3>3, <4>1 DEF SurplusInv, NoSurplus
      <4> QED  BY <1>1, <4>2 DEF NoSurplus, Reported, bankVars
    <3> QED  BY <1>2, <3>1, <3>8, <3>9 DEF SurplusInv, OrphansCounted
  <2> QED  BY <2>2, <2>4, <2>5
<1> QED  BY <1>3, <1>4, <1>5

\* Every step keeps the count.
LEMMA SurplusStep ==
    TwinInv /\ TwinInv' /\ ApartInv /\ SurplusInv /\ [Next]_vars => SurplusInv'
<1> SUFFICES ASSUME TwinInv, TwinInv', ApartInv, SurplusInv, [Next]_vars PROVE SurplusInv'
  OBVIOUS
<1>1. CASE BankStep
  BY <1>1, BankCounted
<1>2. ASSUME NEW order \in Orders, Fetch(order) PROVE SurplusInv'
  BY <1>2, FetchCounted
<1>3. ASSUME NEW p \in Purchases, SkipItem(p) \/ SeenItem(p) \/ QueueItem(p) PROVE SurplusInv'
  BY <1>3, ItemCounted
<1>4. ASSUME NEW p \in Purchases, Confirm(p) PROVE SurplusInv'
  BY <1>4, ConfirmCounted
<1>5. ASSUME NEW p \in Purchases, SettlePending(p) \/ SettleBooked(p) \/ Hold(p)
      PROVE  SurplusInv'
  BY <1>5, SettleCounted
<1>6. CASE Flush \/ FlushFails
  BY <1>6, BatchCounted
<1>7. CASE \/ Conclude \/ Crash
           \/ \E p \in Purchases : CrashConfirming(p) \/ CrashSettling(p)
  BY <1>7, EndCounted
<1>8. CASE UNCHANGED vars
  <2>1. /\ UNCHANGED <<bankVars, rows, identity, booked, claimed, cuts, feed, rank, todo, work>>
    BY <1>8 DEF vars, budgetVars, stateVars, runVars, history
  <2>2. RecordedRows \subseteq RecordedRows' /\ PastPending \subseteq PastPending'
    BY <2>1, RecordedGrows, PastStays
  <2> QED  BY <2>1, <2>2, ClaimsGrow, OrphansStand, CountStands DEF SurplusInv
<1> QED
  BY <1>1, <1>2, <1>3, <1>4, <1>5, <1>6, <1>7, <1>8 DEF Next, RunStep, FaultStep

\* At the start there are the rows the user typed, and nothing is claimed.
LEMMA SurplusInit == Init => SurplusInv
<1> SUFFICES ASSUME Init PROVE SurplusInv
  OBVIOUS
<1>1. TwinInv
  BY TwinInit
<1>2. claimed \ RecordedRows = {} /\ Orphans = {} /\ cuts = 0 /\ rows = 1..TypedRows
  BY DEF Init, Orphans
<1>3. Cardinality({}) = 0 /\ Cardinality(PastPending) \in Nat /\ Cardinality(Reported) \in Nat
  BY <1>1, Countable, FS_EmptySet
<1>4. Cardinality(rows) = TypedRows /\ TypedRows \in Nat
  BY <1>2, ConstantsAssumption, FS_Interval
<1>5. ClaimsCounted /\ OrphansCounted
  BY <1>2, <1>3 DEF ClaimsCounted, OrphansCounted
<1>6. NoSurplus
  BY <1>2, <1>3, <1>4 DEF NoSurplus
<1> QED  BY <1>5, <1>6 DEF SurplusInv

\* Rows never outnumber the purchases, beyond those the user typed and one for each
\* death between booked_rows and the identity: what a lost record makes look new
\* is recognised by the matcher, as the arrangement with the most evidence leaves
\* no row unused that a purchase left unpaired could have been.
THEOREM NoSurplusCorrect == Spec => []NoSurplus
<1>1. Init => ApartInv /\ SurplusInv
  BY ApartInit, SurplusInit
<1>2. TwinInv /\ TwinInv' /\ ApartInv /\ [Next]_vars => ApartInv'
  BY ApartStep
<1>3. TwinInv /\ TwinInv' /\ ApartInv /\ SurplusInv /\ [Next]_vars => SurplusInv'
  BY SurplusStep
<1>4. SurplusInv => NoSurplus
  BY DEF SurplusInv
<1> QED  BY <1>1, <1>2, <1>3, <1>4, TwinHolds, PTL DEF Spec

-----------------------------------------------------------------------------
(* The shape of what a run and a visit carry.                              *)

RunShape ==
    matching = [step |-> matching.step, asks |-> matching.asks,
                found |-> matching.found, met |-> matching.met]
VisitShape ==
    /\ visit = [v \in Visitors |-> visit[v]]
    /\ \A v \in Visitors :
          visit[v] = [step |-> visit[v].step, question |-> visit[v].question,
                      answer |-> visit[v].answer, trial |-> visit[v].trial,
                      rules |-> visit[v].rules]
Shape == RunShape /\ VisitShape

\* What a visitor carries who answers.
LEMMA AnswerCarries ==
  ASSUME NEW a, NEW step, NEW q
  PROVE  [NoVisit EXCEPT !.answer = a, !.step = step, !.question = q] =
         [step |-> step, question |-> q, answer |-> a, trial |-> None, rules |-> 0]
<1>1. ASSUME NEW r, NEW blank,
             r = [step |-> "off", question |-> 0, answer |-> blank, trial |-> None, rules |-> 0]
      PROVE  [r EXCEPT !.answer = a] =
         [step |-> "off", question |-> 0, answer |-> a, trial |-> None, rules |-> 0]
  BY <1>1
<1>2. ASSUME NEW r,
             r = [step |-> "off", question |-> 0, answer |-> a, trial |-> None, rules |-> 0]
      PROVE  [r EXCEPT !.step = step] =
             [step |-> step, question |-> 0, answer |-> a, trial |-> None, rules |-> 0]
  BY <1>2
<1>3. ASSUME NEW r,
             r = [step |-> step, question |-> 0, answer |-> a, trial |-> None, rules |-> 0]
      PROVE  [r EXCEPT !.question = q] =
             [step |-> step, question |-> q, answer |-> a, trial |-> None, rules |-> 0]
  BY <1>3
<1> QED
  BY <1>1, <1>2, <1>3, Zenon DEF NoVisit

\* Who does nothing is at no step.
LEMMA RestingVisit == NoVisit.step = "off"
  BY DEF NoVisit

\* Every step keeps the shape.
LEMMA ShapeStep == Shape /\ [EvidenceNext]_evidenceVars => Shape'
<1> SUFFICES ASSUME Shape, [EvidenceNext]_evidenceVars PROVE Shape'
  OBVIOUS
<1>1. RunShape'
  BY DEF Shape, RunShape, EvidenceNext, MatchingStep, VisitStep, SyncOpens, SyncPrunes,
     SamplerStarts, DecideAlone, DecideHeld, ReferenceLabel, DecideOne,
     FlushUSample, Ask, AskNothing, RunEnds, Goes, NoRun, AnswerCreated, AnswerMerged,
     AnswerReads, FileAnswer, CloseInquiry, WatchReads, WatchWrites, StopWatching,
     PromoteReads, PromoteJudges, PromoteInstalls, PromoteClears, RevertParameters,
     SettingsChange, TimePasses, Restarts, evidenceVars
<1>2. VisitShape'
  <2>1. CASE visit' = visit
    BY <2>1 DEF Shape, VisitShape
  <2>2. CASE visit' = [v \in Visitors |-> NoVisit]
    BY <2>2 DEF VisitShape, NoVisit
  <2>3. ASSUME NEW v \in Visitors, NEW new, visit' = [visit EXCEPT ![v] = new],
               new = [step |-> new.step, question |-> new.question, answer |-> new.answer,
                      trial |-> new.trial, rules |-> new.rules]
        PROVE  VisitShape'
    BY <2>3 DEF Shape, VisitShape
  <2>4. ASSUME NEW v \in Visitors, AnswerReads(v) PROVE VisitShape'
    <3>1. PICK a \in {"yes", "no", "unknown"} :
            visit' = [visit EXCEPT ![v] =
                        [NoVisit EXCEPT !.answer = a,
                                        !.step = IF a = "unknown" THEN "closing" ELSE "filing",
                                        !.question = Newest]]
      BY <2>4 DEF AnswerReads
    <3> DEFINE new == [step |-> IF a = "unknown" THEN "closing" ELSE "filing",
                       question |-> Newest, answer |-> a, trial |-> None, rules |-> 0]
    <3>2. visit' = [visit EXCEPT ![v] = new]
      BY <3>1, AnswerCarries
    <3> HIDE DEF new
    <3>3. new = [step |-> new.step, question |-> new.question, answer |-> new.answer,
                 trial |-> new.trial, rules |-> new.rules]
      BY DEF new
    <3> QED
      BY <2>3, <3>2, <3>3
  <2>5. ASSUME NEW v \in Visitors, FileAnswer(v) PROVE VisitShape'
    BY <2>5 DEF FileAnswer, Shape, VisitShape
  <2>6. ASSUME NEW v \in Visitors, VisitEnds(v) PROVE VisitShape'
    BY <2>3, <2>6 DEF VisitEnds, NoVisit
  <2>7. ASSUME NEW v \in Visitors, WatchReads(v) \/ PromoteReads(v) \/ PromoteInstalls(v)
        PROVE  VisitShape'
    <3>1. CASE WatchReads(v)
      BY <3>1 DEF WatchReads, NoVisit, Shape, VisitShape
    <3>2. CASE PromoteReads(v)
      BY <3>2 DEF PromoteReads, NoVisit, Shape, VisitShape
    <3>3. CASE PromoteInstalls(v)
      BY <3>3 DEF PromoteInstalls, NoVisit, Shape, VisitShape
    <3> QED
      BY <2>7, <3>1, <3>2, <3>3
  <2>8. ASSUME NEW v \in Visitors, PromoteJudges(v) PROVE VisitShape'
    <3>1. CASE Promotable(v)
      BY <2>8, <3>1 DEF PromoteJudges, Shape, VisitShape
    <3>2. CASE ~Promotable(v)
      BY <2>3, <2>8, <3>2 DEF PromoteJudges, NoVisit
    <3> QED
      BY <3>1, <3>2
  <2>9. CASE MatchingStep
    BY <2>1, <2>9
    DEF MatchingStep, SyncOpens, SyncPrunes, SamplerStarts, DecideAlone,
        DecideHeld, ReferenceLabel, DecideOne, FlushUSample, Ask, AskNothing
  <2>10. CASE VisitStep
    BY <2>1, <2>4, <2>5, <2>6, <2>7, <2>8, <2>10
    DEF VisitStep, AnswerCreated, AnswerMerged, CloseInquiry, WatchWrites, StopWatching,
        PromoteClears, RevertParameters, SettingsChange
  <2> QED
    BY <2>1, <2>2, <2>9, <2>10 DEF EvidenceNext, TimePasses, Restarts, evidenceVars
<1> QED
  BY <1>1, <1>2 DEF Shape

\* Nothing is under way at first.
LEMMA ShapeInit == EvidenceInit => Shape
<1>1. NoVisit = [step |-> NoVisit.step, question |-> NoVisit.question,
                 answer |-> NoVisit.answer, trial |-> NoVisit.trial, rules |-> NoVisit.rules]
  BY DEF NoVisit
<1>2. EvidenceInit => VisitShape
  BY <1>1 DEF EvidenceInit, VisitShape
<1>3. EvidenceInit => RunShape
  BY DEF EvidenceInit, RunShape, NoRun
<1> QED
  BY <1>2, <1>3 DEF Shape

-----------------------------------------------------------------------------
(* The gate.                                                               *)

\* A set that is about to be installed is one the gate was open for.
GateInv == \A v \in Visitors : VisitAt(v, "installing") => visit[v].trial \in opened

\* Nobody installs anything at first.
LEMMA GateInit == EvidenceInit => GateInv
  BY RestingVisit DEF EvidenceInit, GateInv, VisitAt

\* A set somebody carries stays among those the gate was open for.
LEMMA OpenedStays ==
  ASSUME Opens, NEW v \in Visitors, visit'[v].trial \in opened
  PROVE  visit'[v].trial \in opened'
  BY DEF Opens, HeldOn

\* Every step keeps it: promotion asks the gate about the set it carries.
LEMMA GateStep == Shape /\ GateInv /\ [EvidenceNext]_evidenceVars => GateInv'
<1> SUFFICES ASSUME Shape, GateInv, EvidenceNext, NEW v \in Visitors, VisitAt(v, "installing")'
             PROVE  (visit[v].trial \in opened)'
  BY DEF GateInv, VisitAt, evidenceVars
<1>0. visit'[v].step = "installing" /\ Opens
  BY DEF VisitAt, EvidenceNext
<1>1. CASE visit'[v] = visit[v]
  BY <1>0, <1>1, OpenedStays DEF GateInv, VisitAt
<1>2. CASE PromoteJudges(v)
  <2>1. Promotable(v) /\ visit'[v].trial = visit[v].trial
    BY <1>0, <1>2, RestingVisit DEF PromoteJudges, Shape, VisitShape
  <2>2. visit[v].trial = Fitted /\ GateOpen(inForce)
    BY <2>1 DEF Promotable, Version
  <2>3. Fitted' = Fitted
    BY <1>2 DEF PromoteJudges, evidence, parameters, Fitted, Counted, SampledU
  <2>4. GateOpen(inForce)' <=> GateOpen(inForce)
    BY <1>2, <2>3 DEF PromoteJudges, evidence, parameters, GateOpen, AnchorCheck,
       CalibrationCheck, Labelled
  <2>5. Fitted' \in opened'
    BY <1>0, <2>1, <2>2, <2>3, <2>4 DEF Opens, HeldOn
  <2> QED
    BY <2>1, <2>2, <2>3, <2>5
<1>3. ASSUME visit'[v] # visit[v], ~PromoteJudges(v) PROVE FALSE
  <2>1. CASE MatchingStep
    BY <1>3, <2>1
    DEF MatchingStep, SyncOpens, SyncPrunes, SamplerStarts, DecideAlone,
        DecideHeld, ReferenceLabel, DecideOne, FlushUSample, Ask, AskNothing
  <2>2. CASE visit' = [w \in Visitors |-> NoVisit]
    BY <1>0, <2>2, RestingVisit
  <2>3. ASSUME NEW w \in Visitors, VisitEnds(w) PROVE FALSE
    BY <1>0, <1>3, <2>3, RestingVisit DEF VisitEnds, Shape, VisitShape
  <2>4. ASSUME NEW w \in Visitors, AnswerReads(w) PROVE FALSE
    <3>1. PICK a \in {"yes", "no", "unknown"} :
            visit' = [visit EXCEPT ![w] =
                        [NoVisit EXCEPT !.answer = a,
                                        !.step = IF a = "unknown" THEN "closing" ELSE "filing",
                                        !.question = Newest]]
      BY <2>4 DEF AnswerReads
    <3>2. visit'[v].step \in {"closing", "filing"} \/ visit'[v] = visit[v]
      BY <3>1, AnswerCarries DEF Shape, VisitShape
    <3> QED
      BY <1>0, <1>3, <3>2
  <2>5. ASSUME NEW w \in Visitors, FileAnswer(w) \/ PromoteJudges(w) PROVE FALSE
    BY <1>0, <1>3, <2>5, RestingVisit DEF FileAnswer, PromoteJudges, Shape, VisitShape
  <2>6. ASSUME NEW w \in Visitors, WatchReads(w) \/ PromoteReads(w) \/ PromoteInstalls(w)
        PROVE  FALSE
    <3>1. visit'[v].step \in {"watching", "judging", "clearing"} \/ visit'[v] = visit[v]
      BY <2>6 DEF WatchReads, PromoteReads, PromoteInstalls, NoVisit, Shape, VisitShape
    <3> QED
      BY <1>0, <1>3, <3>1
  <2>7. CASE VisitStep
    BY <1>3, <2>3, <2>4, <2>5, <2>6, <2>7
    DEF VisitStep, AnswerCreated, AnswerMerged, CloseInquiry, WatchWrites, StopWatching,
        PromoteClears, RevertParameters, SettingsChange
  <2> QED
    BY <1>3, <2>1, <2>2, <2>7 DEF EvidenceNext, TimePasses, Restarts
<1> QED
  BY <1>1, <1>2, <1>3

\* What an installation puts in force was let through.
LEMMA InstalledOpened ==
  ASSUME Shape, GateInv, [EvidenceNext]_evidenceVars, inForce' \notin {inForce, Shipped}
  PROVE  inForce' \in opened
<1>1. \E v \in Visitors : PromoteInstalls(v)
  BY DEF EvidenceNext, MatchingStep, VisitStep, SyncOpens, SyncPrunes, SamplerStarts, DecideAlone, DecideHeld, ReferenceLabel, DecideOne, FlushUSample, Ask,
     AskNothing, AnswerCreated, AnswerMerged, AnswerReads, FileAnswer, CloseInquiry,
     WatchReads, WatchWrites, StopWatching, PromoteReads, PromoteJudges, PromoteClears,
     RevertParameters, SettingsChange, TimePasses, Restarts, parameters, evidenceVars
<1> QED
  BY <1>1 DEF PromoteInstalls, GateInv, VisitAt

\* The shape and the gate hold at every instant.
LEMMA GateHolds == EvidenceSpec => [](Shape /\ GateInv)
  BY ShapeInit, ShapeStep, GateInit, GateStep, PTL DEF EvidenceSpec

\* A set goes into force only if the gate was open for that very set, however
\* watching, stopping, promoting, reverting and new answers overlap
\* (PromoteTrial).
THEOREM PromotedAsJudgedCorrect == EvidenceSpec => PromotedAsJudged
<1>1. Shape /\ GateInv /\ [EvidenceNext]_evidenceVars =>
        [inForce' \notin {inForce, Shipped} => inForce' \in opened]_evidenceVars
  BY InstalledOpened
<1> QED
  BY <1>1, GateHolds, PTL DEF EvidenceSpec, PromotedAsJudged

-----------------------------------------------------------------------------
(* The decision log.                                                       *)

Truths == {"", "yes", "no"}
Comparisons == (Nat \X {"best", "other"}) \cup {NoPair}
LogRows == [id : Nat, of : Payments, pair : Comparisons, truth : Truths, named : BOOLEAN,
            told : Comparisons]

\* The log is a table: a key per record, given once, in ascending order.
LogTyped ==
    /\ decisions \in SUBSET LogRows /\ nextDecision \in Nat /\ nextDecision # 0
    /\ losses \in Nat
    /\ \A d \in decisions : d.id # 0 /\ d.id < nextDecision
    /\ \A d \in decisions, e \in decisions : d.id = e.id => d = e

\* A record that can be found by the payment it is about.
Mine(d, p) == d.of = p /\ d.named

\* i is the newest key of a record to be found by p, if there is one at all.
Tops(p, i) ==
    /\ \A d \in decisions : Mine(d, p) => d.id <= i
    /\ (\E d \in decisions : Mine(d, p)) => \E d \in decisions : Mine(d, p) /\ d.id = i

\* What is recorded under i is about p, and its levels are those of the
\* comparison it was made for.
Plain(p, i) == \A d \in decisions : d.id = i => d.of = p /\ d.pair = <<i, "best">>

\* The newest record is one of the payment's.
LEMMA LatestRecord ==
  ASSUME LogTyped, NEW p \in Payments
  PROVE  /\ Latest(p) \in Nat
         /\ Latest(p) = 0 \/ \E d \in decisions : Mine(d, p) /\ d.id = Latest(p)
<1> DEFINE S == {d.id : d \in Named(p)} \cup {0}
<1>1. S \in SUBSET Nat /\ S # {} /\ \A x \in S : x <= nextDecision
  BY DEF Named, LogTyped, LogRows
<1>2. \E x \in S : \A y \in S : x >= y
  <2> HIDE DEF S
  <2> QED
    BY <1>1, Largest DEF LogTyped
<1>3. Latest(p) \in S
  BY <1>2 DEF Latest, Max
<1> QED
  BY <1>1, <1>3 DEF Named, Mine

\* The newest record is the one known to be.
LEMMA LatestTops ==
  ASSUME LogTyped, NEW p \in Payments, NEW i \in Nat, Tops(p, i)
  PROVE  /\ Latest(p) \in {0, i}
         /\ (\E d \in decisions : Mine(d, p)) => Latest(p) = i
<1> DEFINE S == {d.id : d \in Named(p)} \cup {0}
<1>1. S \in SUBSET Nat /\ Latest(p) = Max(S)
  BY DEF Named, LogTyped, LogRows, Latest
<1>2. CASE \E d \in decisions : Mine(d, p)
  <2>1. i \in S /\ \A y \in S : i >= y
    BY <1>1, <1>2 DEF Tops, Named, Mine
  <2>2. Max(S) = i
    <3> HIDE DEF S
    <3>1. Max(S) \in S /\ Max(S) >= i
      BY <2>1 DEF Max
    <3>2. Max(S) \in Nat /\ i \in Nat /\ i >= Max(S)
      BY <1>1, <2>1, <3>1
    <3> QED
      BY <3>1, <3>2
  <2> QED
    BY <1>1, <2>2
<1>3. CASE ~\E d \in decisions : Mine(d, p)
  <2>1. S = {0}
    BY <1>3 DEF Named, Mine
  <2>2. Max({0}) = 0
    BY DEF Max
  <2> QED
    BY <1>1, <1>3, <2>1, <2>2
<1> QED
  BY <1>2, <1>3

\* A record with a truth, and what a label does to one.
Filed(d) == d.truth # ""
LabelOf(d, t, pair, told) == [d EXCEPT !.truth = t, !.pair = pair, !.told = told]

\* What is labelled is what has a truth.
LEMMA LabelledFiled == \A d : d \in Labelled <=> d \in decisions /\ Filed(d)
  BY Zenon DEF Labelled, Filed

\* A label changes a record's truth, its levels and what it was told about.
LEMMA LabelRecord ==
  ASSUME NEW d \in LogRows, NEW t \in Truths, NEW pair \in Comparisons, NEW told \in Comparisons
  PROVE  /\ LabelOf(d, t, pair, told) \in LogRows
         /\ LabelOf(d, t, pair, told).id = d.id /\ LabelOf(d, t, pair, told).of = d.of
         /\ LabelOf(d, t, pair, told).pair = pair /\ LabelOf(d, t, pair, told).told = told
         /\ \A p : Mine(LabelOf(d, t, pair, told), p) <=> Mine(d, p)
<1>1. [d EXCEPT !.truth = t] \in LogRows /\ [d EXCEPT !.truth = t].id = d.id
      /\ [d EXCEPT !.truth = t].of = d.of /\ ([d EXCEPT !.truth = t].named <=> d.named)
  BY DEF LogRows
<1>2. ASSUME NEW e \in LogRows PROVE /\ [e EXCEPT !.pair = pair] \in LogRows
                                     /\ [e EXCEPT !.pair = pair].id = e.id
                                     /\ [e EXCEPT !.pair = pair].of = e.of
                                     /\ [e EXCEPT !.pair = pair].pair = pair
                                     /\ [e EXCEPT !.pair = pair].named <=> e.named
  BY DEF LogRows
<1>3. ASSUME NEW e \in LogRows PROVE /\ [e EXCEPT !.told = told] \in LogRows
                                     /\ [e EXCEPT !.told = told].id = e.id
                                     /\ [e EXCEPT !.told = told].of = e.of
                                     /\ [e EXCEPT !.told = told].pair = e.pair
                                     /\ [e EXCEPT !.told = told].told = told
                                     /\ [e EXCEPT !.told = told].named <=> e.named
  BY DEF LogRows
<1> DEFINE a == [d EXCEPT !.truth = t]
           b == [a EXCEPT !.pair = pair]
           c == [b EXCEPT !.told = told]
<1>4. LabelOf(d, t, pair, told) = c
  BY Zenon DEF LabelOf
<1>5. b \in LogRows /\ b.id = d.id /\ b.of = d.of /\ b.pair = pair /\ (b.named <=> d.named)
  <2> HIDE DEF a
  <2>1. a \in LogRows /\ a.id = d.id /\ a.of = d.of /\ (a.named <=> d.named)
    BY <1>1 DEF a
  <2> QED
    BY <1>2, <2>1
<1>6. /\ c \in LogRows /\ c.id = d.id /\ c.of = d.of /\ c.pair = pair /\ c.told = told
      /\ c.named <=> d.named
  <2> HIDE DEF b
  <2> QED
    BY <1>3, <1>5
<1> HIDE DEF c
<1> QED
  BY <1>4, <1>6 DEF Mine

\* A label leaves the order of the log, and the levels of every other record.
LEMMA Relabelled ==
  ASSUME LogTyped, NEW i \in Nat, NEW t \in Truths, NEW pair \in Comparisons,
         NEW told \in Comparisons, Labelling(i, t, pair, told),
         UNCHANGED <<nextDecision, losses>>
  PROVE  /\ LogTyped'
         /\ \A p, j : Tops(p, j) => Tops(p, j)'
         /\ \A p, j : Plain(p, j) /\ (j # i \/ pair = <<j, "best">>) => Plain(p, j)'
         /\ \A e \in decisions' : /\ \E d \in decisions : d.id = e.id /\ d.of = e.of
                                  /\ \/ e.id = i /\ e.pair = pair /\ e.told = told
                                     \/ e.id # i /\ e \in decisions
<1> DEFINE New(d) == IF d.id = i THEN LabelOf(d, t, pair, told) ELSE d
<1>1. decisions' = {New(d) : d \in decisions}
  BY DEF Labelling, LabelOf
<1>2. \A d \in decisions :
        /\ New(d) \in LogRows /\ New(d).id = d.id /\ New(d).of = d.of
        /\ \A p : Mine(New(d), p) <=> Mine(d, p)
        /\ d.id = i => New(d).pair = pair /\ New(d).told = told
        /\ d.id # i => New(d) = d
  BY LabelRecord DEF LogTyped
<1> HIDE DEF New
<1>3. LogTyped'
  BY <1>1, <1>2 DEF LogTyped
<1>4. ASSUME NEW p, NEW j, Tops(p, j) PROVE Tops(p, j)'
  BY <1>1, <1>2, <1>4 DEF Tops
<1>5. ASSUME NEW p, NEW j, Plain(p, j), j # i \/ pair = <<j, "best">> PROVE Plain(p, j)'
  BY <1>1, <1>2, <1>5 DEF Plain
<1>6. ASSUME NEW e \in decisions'
      PROVE  /\ \E d \in decisions : d.id = e.id /\ d.of = e.of
             /\ \/ e.id = i /\ e.pair = pair /\ e.told = told
                \/ e.id # i /\ e \in decisions
  BY <1>1, <1>2, <1>6
<1> QED
  BY <1>3, <1>4, <1>5, <1>6

\* What ageing does to a record.
LEMMA AgedRecord ==
  ASSUME NEW d \in LogRows
  PROVE  /\ Aged(d) \in LogRows /\ Aged(d).id = d.id /\ Aged(d).of = d.of
         /\ Aged(d).pair = d.pair /\ Aged(d).told = d.told /\ (Filed(Aged(d)) <=> Filed(d))
         /\ \A p : Mine(Aged(d), p) <=> Mine(d, p) /\ ~Unreachable(p)
<1>1. /\ [d EXCEPT !.named = FALSE] \in LogRows /\ [d EXCEPT !.named = FALSE].id = d.id
      /\ [d EXCEPT !.named = FALSE].of = d.of /\ [d EXCEPT !.named = FALSE].pair = d.pair
      /\ [d EXCEPT !.named = FALSE].told = d.told
      /\ [d EXCEPT !.named = FALSE].truth = d.truth
      /\ ~[d EXCEPT !.named = FALSE].named
  BY DEF LogRows
<1>2. Filed([d EXCEPT !.named = FALSE]) <=> Filed(d)
  BY <1>1, Zenon DEF Filed
<1>3. CASE Unreachable(d.of)
  <2>1. Aged(d) = [d EXCEPT !.named = FALSE]
    BY <1>3 DEF Aged
  <2> HIDE DEF Aged
  <2>2. \A p : ~Mine(Aged(d), p)
    BY <1>1, <2>1 DEF Mine
  <2>3. \A p : Mine(d, p) => Unreachable(p)
    BY <1>3 DEF Mine
  <2> QED
    BY <1>1, <1>2, <2>1, <2>2, <2>3
<1>4. CASE ~Unreachable(d.of)
  <2>1. Aged(d) = d
    BY <1>4 DEF Aged
  <2>2. \A p : Mine(d, p) => ~Unreachable(p)
    BY <1>4 DEF Mine
  <2> QED
    BY <2>1, <2>2
<1> QED
  BY <1>3, <1>4

\* Retention takes a payment's records together, or none that can be found.
LEMMA Pruned ==
  ASSUME LogTyped, PruneMatchDecisions, UNCHANGED <<nextDecision, losses>>
  PROVE  /\ LogTyped'
         /\ \A p, j : Tops(p, j) => Tops(p, j)'
         /\ \A p, j : Plain(p, j) => Plain(p, j)'
         /\ \A e \in decisions' : \E d \in decisions :
               /\ d.id = e.id /\ d.of = e.of /\ d.pair = e.pair /\ d.told = e.told
               /\ Filed(d) <=> Filed(e)
<1> DEFINE Stays(d) == dated[d.of] # "old" /\ (d.truth = "" => ~Unreachable(d.of))
           Rest == {d \in decisions : Stays(d)}
<1>1. decisions' = {Aged(d) : d \in Rest}
  BY Zenon DEF PruneMatchDecisions
<1>2. Rest \subseteq decisions
  OBVIOUS
<1>3. \A d \in decisions : \A p : Mine(d, p) /\ ~Unreachable(p) => d \in Rest
  BY Zenon DEF Mine, Unreachable, OutOfWindow
<1>4. \A d \in Rest :
         /\ Aged(d) \in LogRows /\ Aged(d).id = d.id /\ Aged(d).of = d.of
         /\ Aged(d).pair = d.pair /\ Aged(d).told = d.told /\ (Filed(Aged(d)) <=> Filed(d))
         /\ \A p : Mine(Aged(d), p) <=> Mine(d, p) /\ ~Unreachable(p)
  <2> HIDE DEF Rest
  <2> QED
    BY <1>2, AgedRecord DEF LogTyped
<1> HIDE DEF Rest, Aged, Unreachable
<1>5. LogTyped'
  BY <1>1, <1>2, <1>4 DEF LogTyped
<1>6. ASSUME NEW p, NEW j, Tops(p, j) PROVE Tops(p, j)'
  <2>1. \A e \in decisions' : Mine(e, p) => e.id <= j
    BY <1>1, <1>2, <1>4, <1>6 DEF Tops
  <2>2. ASSUME NEW e \in decisions', Mine(e, p)
        PROVE  \E d \in decisions' : Mine(d, p) /\ d.id = j
    <3>1. ~Unreachable(p) /\ \E d \in decisions : Mine(d, p)
      BY <1>1, <1>2, <1>4, <2>2
    <3>2. PICK d \in decisions : Mine(d, p) /\ d.id = j
      BY <1>6, <3>1 DEF Tops
    <3>3. d \in Rest
      BY <1>3, <3>1, <3>2
    <3> QED
      BY <1>1, <1>4, <3>1, <3>2, <3>3
  <2> QED
    BY <2>1, <2>2 DEF Tops
<1>7. ASSUME NEW p, NEW j, Plain(p, j) PROVE Plain(p, j)'
  BY <1>1, <1>2, <1>4, <1>7 DEF Plain
<1>8. \A e \in decisions' : \E d \in decisions :
         /\ d.id = e.id /\ d.of = e.of /\ d.pair = e.pair /\ d.told = e.told
         /\ Filed(d) <=> Filed(e)
  BY <1>1, <1>2, <1>4
<1> QED
  BY <1>5, <1>6, <1>7, <1>8

\* A new record.
LEMMA NewRecord ==
  ASSUME LogTyped, NEW p \in Payments, NEW t \in Truths
  PROVE  /\ Row(p, t) \in LogRows /\ Row(p, t).id = nextDecision /\ Mine(Row(p, t), p)
         /\ Row(p, t).of = p /\ Row(p, t).pair = <<nextDecision, "best">>
         /\ Filed(Row(p, t)) => Row(p, t).pair = Row(p, t).told
<1> DEFINE Blank(told) == [id |-> nextDecision, of |-> p, pair |-> <<nextDecision, "best">>,
                          truth |-> t, named |-> TRUE, told |-> told]
<1>1. <<nextDecision, "best">> \in Comparisons /\ NoPair \in Comparisons
  BY DEF Comparisons, LogTyped
<1>2. t \in Truths
  OBVIOUS
<1>3. \/ Row(p, t) = Blank(NoPair) /\ t = ""
      \/ Row(p, t) = Blank(<<nextDecision, "best">>)
  BY Zenon DEF Row
<1>4. ASSUME NEW r, NEW told \in Comparisons, r = Blank(told)
      PROVE  /\ r \in LogRows /\ r.id = nextDecision /\ Mine(r, p) /\ r.of = p
             /\ r.pair = <<nextDecision, "best">> /\ r.truth = t /\ r.told = told
  BY <1>1, <1>2, <1>4 DEF LogRows, Mine, LogTyped
<1>5. CASE Row(p, t) = Blank(NoPair) /\ t = ""
  <2>1. Row(p, t) = Blank(NoPair)
    BY <1>5
  <2> HIDE DEF Blank, Row
  <2>2. Row(p, t).truth = t
    BY <1>1, <1>4, <2>1
  <2>3. ~Filed(Row(p, t))
    BY <1>5, <2>2, Zenon DEF Filed
  <2> QED
    BY <1>1, <1>4, <2>1, <2>3
<1>6. CASE Row(p, t) = Blank(<<nextDecision, "best">>)
  <2> HIDE DEF Blank, Row
  <2> QED
    BY <1>1, <1>4, <1>6
<1> QED
  BY <1>3, <1>5, <1>6, Zenon

\* A decision adds the newest record of its payment, unless it gets lost.
LEMMA Decides ==
  ASSUME LogTyped, NEW p \in Payments, NEW t \in Truths, NEW found, DecideOne(p, t, found),
         NEW i, i = nextDecision
  PROVE  /\ LogTyped' /\ nextDecision' = i + 1 /\ blurred \subseteq blurred'
         /\ \A q, j : q # p /\ Tops(q, j) => Tops(q, j)'
         /\ \A q, j : j \in Nat /\ j < nextDecision /\ Plain(q, j) => Plain(q, j)'
         /\ p \notin blurred' =>
               /\ p \notin matching.met /\ Tops(p, i)' /\ Plain(p, i)'
               /\ \E d \in decisions' : Mine(d, p) /\ d.id = i
         /\ Plain(p, i)'
         /\ \A e \in decisions' : \/ e \in decisions
                                  \/ Filed(e) => e.pair = e.told
<1> DEFINE new == Row(p, t)
<1>1. /\ new \in LogRows /\ new.id = nextDecision /\ Mine(new, p) /\ new.of = p
      /\ new.pair = <<nextDecision, "best">> /\ (Filed(new) => new.pair = new.told)
  BY NewRecord
<1>2. nextDecision' = nextDecision + 1 /\ nextDecision \in Nat
  BY DEF DecideOne, LogTyped
<1>3. \/ decisions' = decisions \cup {new} /\ losses' = losses
      \/ decisions' = decisions /\ losses' = losses + 1
  BY DEF DecideOne, Add, Loses
<1>4. /\ blurred \subseteq blurred'
      /\ p \notin blurred' => p \notin matching.met /\ ~(losses' > losses)
  BY DEF DecideOne
<1> HIDE DEF new
<1>8. \A d \in decisions : d.id \in Nat /\ d.id < nextDecision
  BY DEF LogTyped, LogRows
<1>5. LogTyped'
  <2>1. decisions' \in SUBSET LogRows /\ nextDecision' \in Nat /\ nextDecision' # 0
    BY <1>1, <1>2, <1>3 DEF LogTyped
  <2>2. losses' \in Nat
    BY <1>3 DEF LogTyped
  <2>3. decisions' \subseteq decisions \cup {new}
    BY <1>3
  <2> QED
    BY <1>1, <1>2, <1>8, <2>1, <2>2, <2>3 DEF LogTyped
<1>6. ASSUME NEW q, NEW j, q # p, Tops(q, j) PROVE Tops(q, j)'
  BY <1>1, <1>3, <1>6 DEF Tops, Mine
<1>7. ASSUME NEW q, NEW j \in Nat, j < nextDecision, Plain(q, j) PROVE Plain(q, j)'
  <2>1. decisions' \subseteq decisions \cup {new} /\ new.id # j
    BY <1>1, <1>2, <1>3, <1>7
  <2> QED
    BY <1>7, <2>1 DEF Plain
<1>9. ASSUME p \notin blurred'
      PROVE  /\ p \notin matching.met /\ Tops(p, i)'
             /\ \E d \in decisions' : Mine(d, p) /\ d.id = i
  <2>1. decisions' = decisions \cup {new}
    <3>1. losses \in Nat /\ losses + 1 > losses
      BY DEF LogTyped
    <3> QED
      BY <1>3, <1>4, <1>9, <3>1
  <2> QED
    BY <1>1, <1>2, <1>4, <1>8, <1>9, <2>1 DEF Tops
<1>10. Plain(p, i)'
  <2>1. decisions' \subseteq decisions \cup {new} /\ \A d \in decisions : d.id # i
    BY <1>1, <1>2, <1>3, <1>8
  <2> QED
    BY <1>1, <2>1 DEF Plain
<1>11. \A e \in decisions' : e \in decisions \/ (Filed(e) => e.pair = e.told)
  BY <1>1, <1>3
<1> QED
  BY <1>2, <1>4, <1>5, <1>6, <1>7, <1>9, <1>10, <1>11

-----------------------------------------------------------------------------
(* What a label is about.                                                  *)

Finds == [of : Payments, about : Nat]

\* A decision the sampler may ask about: its payment's newest, and not held.
GoodFind(f) ==
    /\ f.about < nextDecision
    /\ \/ f.of \in blurred
       \/ /\ f.about # 0 /\ awaiting[f.of] # f.about
          /\ Tops(f.of, f.about) /\ Plain(f.of, f.about)
          /\ \E d \in decisions : Mine(d, f.of) /\ d.id = f.about

\* A question is pinned to the decision it is about, which nobody holds.
GoodQuestion(q) ==
    /\ q.id \in Nat /\ q.of \in Payments /\ q.decision \in Nat /\ q.about \in Nat
    /\ q.decision < nextDecision
    /\ \A d \in decisions : d.id = q.decision => d.of = q.of
    /\ \/ q.of \in blurred
       \/ /\ q.decision = q.about /\ q.about # 0 /\ awaiting[q.of] # q.decision
          /\ Plain(q.of, q.decision)

\* A held payment is found under the decision it waits with.
AwaitInv ==
    /\ awaiting \in [Payments -> Nat]
    /\ \A p \in Payments : awaiting[p] < nextDecision
    /\ \A p \in Payments : p \notin blurred /\ awaiting[p] # 0 =>
          Tops(p, awaiting[p]) /\ Plain(p, awaiting[p])

FoundInv ==
    /\ matching.found \in SUBSET Finds
    /\ matching.step \notin {"deciding", "asking"} => matching.found = {}
    /\ matching.step = "deciding" => \A f \in matching.found : f.of \in matching.met
    /\ \A f \in matching.found : GoodFind(f)

QuestionInv ==
    /\ \A q \in questions : GoodQuestion(q)
    /\ \A q \in questions, r \in questions : q = r
    /\ nextQuestion \in Nat
    /\ \A v \in Visitors : visit[v].step = "filing" =>
          GoodQuestion(visit[v].question) /\ visit[v].answer \in Truths
    /\ matching.asks => questions = {}
    /\ matching.found # {} => questions = {}

LabelInv == \A d \in decisions : Filed(d) => d.of \in blurred \/ d.pair = d.told

EvidenceInv == LogTyped /\ AwaitInv /\ FoundInv /\ QuestionInv /\ LabelInv

\* Nothing has been decided at first.
LEMMA EvidenceInvInit == EvidenceInit => EvidenceInv
<1> SUFFICES ASSUME EvidenceInit PROVE EvidenceInv
  OBVIOUS
<1>1. /\ decisions = {} /\ nextDecision = 1 /\ questions = {} /\ nextQuestion = 1
      /\ awaiting = [p \in Payments |-> 0] /\ losses = 0
      /\ \A v \in Visitors : visit[v].step = "off"
  BY RestingVisit DEF EvidenceInit
<1>2. matching.found = {} /\ matching.step = "off"
  BY DEF EvidenceInit, NoRun
<1> QED
  BY <1>1, <1>2
  DEF EvidenceInv, LogTyped, AwaitInv, FoundInv, QuestionInv, LabelInv, Tops, Plain

\* What holds of the log goes on while the log and the queue are left alone.
LEMMA LogStays ==
  ASSUME EvidenceInv, UNCHANGED <<decisions, nextDecision, awaiting, blurred>>, losses' \in Nat
  PROVE  /\ LogTyped' /\ AwaitInv' /\ LabelInv'
         /\ \A f : GoodFind(f) => GoodFind(f)'
         /\ \A q : GoodQuestion(q) => GoodQuestion(q)'
<1>1. LogTyped'
  BY DEF EvidenceInv, LogTyped
<1>2. AwaitInv'
  BY DEF EvidenceInv, AwaitInv, Tops, Plain
<1>3. LabelInv'
  BY DEF EvidenceInv, LabelInv
<1>4. ASSUME NEW f, GoodFind(f) PROVE GoodFind(f)'
  BY <1>4 DEF GoodFind, Tops, Plain
<1>5. ASSUME NEW q, GoodQuestion(q) PROVE GoodQuestion(q)'
  BY <1>5 DEF GoodQuestion, Plain
<1> QED
  BY <1>1, <1>2, <1>3, <1>4, <1>5

\* A step that asks nothing new, shows no question and finds nothing keeps all
\* that was known of questions and finds.
LEMMA AsideKeeps ==
  ASSUME FoundInv, QuestionInv, nextQuestion' \in Nat,
         questions' \subseteq questions,
         matching'.asks => questions' = {},
         matching'.found \subseteq matching.found,
         matching'.step \notin {"deciding", "asking"} => matching'.found = {},
         matching'.step = "deciding" => \A f \in matching'.found : f.of \in matching'.met,
         \A v \in Visitors : visit'[v].step = "filing" => visit'[v] = visit[v],
         \A f \in matching'.found : GoodFind(f) => GoodFind(f)',
         \A q : GoodQuestion(q) => GoodQuestion(q)'
  PROVE  FoundInv' /\ QuestionInv'
<1>1. FoundInv'
  BY DEF FoundInv
<1>2. \A q \in questions' : GoodQuestion(q)'
  BY DEF QuestionInv
<1>3. ASSUME NEW v \in Visitors, visit'[v].step = "filing"
      PROVE  GoodQuestion(visit[v].question)' /\ visit'[v] = visit[v]
  BY <1>3 DEF QuestionInv
<1>4. \A v \in Visitors : visit'[v].step = "filing" =>
         GoodQuestion(visit[v].question)' /\ visit'[v].answer \in Truths
  BY <1>3 DEF QuestionInv
<1>5. QuestionInv'
  BY <1>2, <1>4 DEF QuestionInv
<1> QED
  BY <1>1, <1>5

\* The run's steps that decide nothing.
LEMMA RunAside ==
  ASSUME Shape, EvidenceInv,
         SyncPrunes \/ SamplerStarts \/ FlushUSample \/ AskNothing
  PROVE  EvidenceInv'
<1> USE DEF SyncPrunes, SamplerStarts, FlushUSample, AskNothing, RunEnds, NoRun,
            Goes, At, evidence, inquiry
<1>1. UNCHANGED <<decisions, nextDecision, awaiting, blurred, visit>>
  OBVIOUS
<1>2. losses' \in Nat
  BY DEF EvidenceInv, LogTyped
<1>3. questions' \subseteq questions /\ nextQuestion' = nextQuestion
  BY DEF PruneMatchInquiries
<1>4. /\ matching'.asks => questions' = {}
      /\ matching'.found \subseteq matching.found
      /\ matching'.step \notin {"deciding", "asking"} => matching'.found = {}
      /\ matching'.step = "deciding" => matching'.found = {}
  <2>1. CASE SyncPrunes
    <3>1. matching' = [matching EXCEPT !.step = "sampler"] /\ matching.step = "inquiries"
      BY <2>1
    <3> QED
      BY <1>3, <3>1 DEF EvidenceInv, FoundInv, QuestionInv, Shape, RunShape
  <2>2. CASE SamplerStarts
    <3>1. /\ matching'.asks <=> MayAsk
          /\ matching'.found = matching.found /\ matching'.step = "deciding"
          /\ matching.step = "sampler" /\ questions' = questions
      BY <2>2 DEF Shape, RunShape
    <3> QED
      BY <3>1 DEF EvidenceInv, FoundInv, MayAsk
  <2>3. CASE FlushUSample
    <3>1. matching'.found = matching.found /\ matching'.step = "asking" /\ ~matching'.asks
      BY <2>3
    <3> QED
      BY <3>1
  <2>4. CASE AskNothing
    <3>1. matching'.found = {} /\ matching'.step = "off" /\ ~matching'.asks
      BY <2>4
    <3> QED
      BY <3>1
  <2> QED
    BY <2>1, <2>2, <2>3, <2>4
<1>5. nextQuestion' \in Nat
  BY <1>3 DEF EvidenceInv, QuestionInv
<1> QED
  <2> USE DEF EvidenceInv
  <2>1. /\ LogTyped' /\ AwaitInv' /\ LabelInv'
        /\ \A f : GoodFind(f) => GoodFind(f)'
        /\ \A q : GoodQuestion(q) => GoodQuestion(q)'
    BY <1>1, <1>2, LogStays
  <2>2. FoundInv' /\ QuestionInv'
    BY <1>1, <1>3, <1>4, <1>5, <2>1, AsideKeeps
  <2> QED
    BY <2>1, <2>2

\* Requests that touch neither the log nor a question, days and settings.
LEMMA PageAside ==
  ASSUME EvidenceInv, UNCHANGED <<decisions, nextDecision, awaiting, blurred>>,
         losses' \in Nat, questions' \subseteq questions, nextQuestion' = nextQuestion,
         \/ matching' = matching
         \/ matching'.found = {} /\ matching'.step = "off" /\ ~matching'.asks,
         \A v \in Visitors : visit'[v].step = "filing" => visit'[v] = visit[v]
  PROVE  EvidenceInv'
<1> USE DEF EvidenceInv
<1>1. /\ LogTyped' /\ AwaitInv' /\ LabelInv'
      /\ \A f : GoodFind(f) => GoodFind(f)'
      /\ \A q : GoodQuestion(q) => GoodQuestion(q)'
  BY LogStays
<1>2. /\ matching'.asks => questions' = {}
      /\ matching'.found \subseteq matching.found
      /\ matching'.step \notin {"deciding", "asking"} => matching'.found = {}
      /\ matching'.step = "deciding" => \A f \in matching'.found : f.of \in matching'.met
  BY DEF FoundInv, QuestionInv
<1>3. nextQuestion' \in Nat
  BY DEF QuestionInv
<1>4. FoundInv' /\ QuestionInv'
  BY <1>1, <1>2, <1>3, AsideKeeps
<1> QED
  BY <1>1, <1>4

\* The page shows the one question there is.
LEMMA ReadsKeeps ==
  ASSUME Shape, EvidenceInv, NEW v \in Visitors, AnswerReads(v)
  PROVE  EvidenceInv'
<1> USE DEF EvidenceInv
<1>1. UNCHANGED <<decisions, nextDecision, awaiting, blurred, losses, questions, nextQuestion,
                  matching>>
  BY DEF AnswerReads, evidence, inquiry
<1>2. /\ LogTyped' /\ AwaitInv' /\ LabelInv'
      /\ \A f : GoodFind(f) => GoodFind(f)'
      /\ \A q : GoodQuestion(q) => GoodQuestion(q)'
  BY <1>1, LogStays DEF LogTyped
<1>3. FoundInv'
  BY <1>1, <1>2 DEF FoundInv
<1>4. Newest \in questions
  <2>1. PICK q \in questions : \A r \in questions : r = q
    BY DEF AnswerReads, QuestionInv
  <2>2. q.id <= q.id
    BY DEF QuestionInv, GoodQuestion
  <2>3. \A r \in questions : r.id <= q.id
    BY <2>1, <2>2
  <2> QED
    BY <2>3 DEF Newest
<1>5. PICK a \in {"yes", "no", "unknown"} :
        visit' = [visit EXCEPT ![v] =
                    [NoVisit EXCEPT !.answer = a,
                                    !.step = IF a = "unknown" THEN "closing" ELSE "filing",
                                    !.question = Newest]]
  BY DEF AnswerReads
<1>6. /\ visit'[v].question = Newest
      /\ visit'[v].step = "filing" => visit'[v].answer \in {"yes", "no"}
  BY <1>5, AnswerCarries DEF Shape, VisitShape
<1>7. \A w \in Visitors : w # v => visit'[w] = visit[w]
  BY <1>5 DEF Shape, VisitShape
<1>8. \A w \in Visitors : visit'[w].step = "filing" => GoodQuestion(visit'[w].question)
  BY <1>4, <1>6, <1>7 DEF QuestionInv
<1>9. ASSUME NEW w \in Visitors, visit'[w].step = "filing" PROVE GoodQuestion(visit[w].question)'
  <2>1. PICK q : q = visit'[w].question
    OBVIOUS
  <2>2. GoodQuestion(q)'
    BY <1>2, <1>8, <1>9, <2>1
  <2> QED
    BY <2>1, <2>2
<1>10. \A w \in Visitors : visit'[w].step = "filing" => visit'[w].answer \in Truths
  <2>1. "yes" \in Truths /\ "no" \in Truths
    BY Zenon DEF Truths
  <2> QED
    BY <1>6, <1>7, <2>1 DEF QuestionInv
<1>11. QuestionInv'
  BY <1>1, <1>2, <1>9, <1>10 DEF QuestionInv
<1> QED
  BY <1>2, <1>3, <1>11

\* A question is pinned to the decision the sampler took.
LEMMA AskKeeps == ASSUME Shape, EvidenceInv, Ask PROVE EvidenceInv'
<1> USE DEF EvidenceInv
<1>1. /\ UNCHANGED <<decisions, nextDecision, awaiting, blurred, losses, visit>>
      /\ nextQuestion' = nextQuestion + 1
      /\ matching' = NoRun
  BY DEF Ask, RunEnds, evidence
<1>2. PICK f \in matching.found : questions' = questions \cup {Question(f)}
  BY DEF Ask
<1>3. /\ LogTyped' /\ AwaitInv' /\ LabelInv'
      /\ \A q : GoodQuestion(q) => GoodQuestion(q)'
  BY <1>1, LogStays DEF LogTyped
<1>4. matching'.found = {} /\ matching'.step = "off" /\ ~matching'.asks
  BY <1>1 DEF NoRun
<1>5. FoundInv'
  BY <1>4 DEF FoundInv
<1>6. f \in Finds /\ GoodFind(f) /\ f.of \in Payments /\ f.about \in Nat
  BY DEF FoundInv, Finds
<1>7. questions' = {Question(f)}
  BY <1>2 DEF QuestionInv
<1>8. /\ Latest(f.of) \in Nat
      /\ Latest(f.of) = 0 \/ \E d \in decisions : Mine(d, f.of) /\ d.id = Latest(f.of)
  BY <1>6, LatestRecord
<1>9. /\ Question(f).id = nextQuestion /\ Question(f).of = f.of
      /\ Question(f).decision = Latest(f.of) /\ Question(f).about = f.about
  BY DEF Question, Pinned
<1>10. f.of \notin blurred => Latest(f.of) = f.about
  BY <1>6, LatestTops DEF GoodFind
<1>11. /\ Latest(f.of) < nextDecision
       /\ \A d \in decisions : d.id = Latest(f.of) => d.of = f.of
  BY <1>8 DEF LogTyped, LogRows, Mine
<1>12. GoodQuestion(Question(f))
  BY <1>6, <1>8, <1>9, <1>10, <1>11 DEF GoodQuestion, GoodFind, QuestionInv
<1>13. \A q \in questions' : GoodQuestion(q)'
  BY <1>3, <1>7, <1>12
<1>14. \A v \in Visitors : visit[v].step = "filing" =>
          GoodQuestion(visit[v].question)' /\ visit[v].answer \in Truths
  BY <1>1, <1>3 DEF QuestionInv
<1>15. QuestionInv'
  BY <1>1, <1>4, <1>7, <1>13, <1>14 DEF QuestionInv
<1> QED
  BY <1>3, <1>5, <1>15

\* A run begins with retention: what is out of reach leaves the log and the
\* queue together.
LEMMA OpensKeeps == ASSUME Shape, EvidenceInv, SyncOpens PROVE EvidenceInv'
<1> USE DEF EvidenceInv
<1>1. /\ UNCHANGED <<nextDecision, blurred, losses, questions, nextQuestion, visit>>
      /\ PruneMatchDecisions /\ matching.step = "off" /\ matching.found = {}
      /\ matching' = [matching EXCEPT !.step = "inquiries"]
      /\ awaiting' = [p \in Payments |-> IF OutOfWindow(p) THEN 0 ELSE awaiting[p]]
  BY DEF SyncOpens, PruneMatchReviews, At, Goes, inquiry, FoundInv
<1>2. /\ LogTyped'
      /\ \A p, j : Tops(p, j) => Tops(p, j)'
      /\ \A p, j : Plain(p, j) => Plain(p, j)'
      /\ \A e \in decisions' : \E d \in decisions :
            /\ d.id = e.id /\ d.of = e.of /\ d.pair = e.pair /\ d.told = e.told
            /\ Filed(d) <=> Filed(e)
  BY <1>1, Pruned
<1>3. \A p \in Payments : awaiting'[p] \in {0, awaiting[p]}
  BY <1>1
<1>4. AwaitInv'
  <2>1. awaiting' \in [Payments -> Nat] /\ \A p \in Payments : awaiting'[p] < nextDecision'
    BY <1>1, <1>3 DEF AwaitInv, LogTyped
  <2>2. ASSUME NEW p \in Payments, p \notin blurred, awaiting'[p] # 0, NEW j, j = awaiting'[p]
        PROVE  Tops(p, j)' /\ Plain(p, j)'
    BY <1>2, <1>3, <2>2 DEF AwaitInv
  <2>3. ASSUME NEW p \in Payments, p \notin blurred, awaiting'[p] # 0
        PROVE  (Tops(p, awaiting[p]) /\ Plain(p, awaiting[p]))'
    <3>1. PICK j : j = awaiting'[p]
      OBVIOUS
    <3> QED
      BY <2>2, <2>3, <3>1
  <2> QED
    BY <1>1, <2>1, <2>3 DEF AwaitInv
<1>5. LabelInv'
  BY <1>1, <1>2 DEF LabelInv
<1>6. matching'.found = {} /\ matching'.step = "inquiries" /\ (matching'.asks <=> matching.asks)
  BY <1>1 DEF Shape, RunShape
<1>7. FoundInv'
  BY <1>6 DEF FoundInv
<1>8. ASSUME NEW q, GoodQuestion(q) PROVE GoodQuestion(q)'
  <2>1. q.of \in blurred \/ (awaiting'[q.of] # q.decision /\ Plain(q.of, q.decision)')
    BY <1>2, <1>3, <1>8 DEF GoodQuestion
  <2>2. \A d \in decisions' : d.id = q.decision => d.of = q.of
    BY <1>2, <1>8 DEF GoodQuestion
  <2> QED
    BY <1>1, <1>8, <2>1, <2>2 DEF GoodQuestion
<1>9. QuestionInv'
  <2>1. \A v \in Visitors : visit[v].step = "filing" =>
           GoodQuestion(visit[v].question)' /\ visit[v].answer \in Truths
    BY <1>1, <1>8 DEF QuestionInv
  <2> QED
    BY <1>1, <1>6, <1>8, <2>1 DEF QuestionInv
<1> QED
  BY <1>2, <1>4, <1>5, <1>7, <1>9

\* A decision is new, so nothing open is about it; its payment waits for no
\* person, and was not found before, unless it gets blurred.
LEMMA DecideKeeps ==
  ASSUME Shape, EvidenceInv, NEW p \in Payments, NEW t \in Truths, NEW found,
         DecideOne(p, t, found),
         \/ awaiting' = awaiting /\ found \in {matching.found, Consider(p)}
         \/ awaiting' = [awaiting EXCEPT ![p] = nextDecision] /\ found = matching.found
  PROVE  EvidenceInv'
<1> USE DEF EvidenceInv
<1>1. /\ matching.step = "deciding" /\ (awaiting[p] = 0 \/ p \in matching.met)
      /\ matching' = [matching EXCEPT !.met = @ \cup {p}, !.found = found]
      /\ UNCHANGED <<questions, nextQuestion, visit>>
  BY DEF DecideOne, At, inquiry
<1>2. PICK i : i = nextDecision
  OBVIOUS
<1>3. /\ LogTyped' /\ nextDecision' = i + 1 /\ blurred \subseteq blurred'
      /\ \A q, j : q # p /\ Tops(q, j) => Tops(q, j)'
      /\ \A q, j : j \in Nat /\ j < nextDecision /\ Plain(q, j) => Plain(q, j)'
      /\ p \notin blurred' =>
            /\ p \notin matching.met /\ Tops(p, i)' /\ Plain(p, i)'
            /\ \E d \in decisions' : Mine(d, p) /\ d.id = i
      /\ Plain(p, i)'
      /\ \A e \in decisions' : \/ e \in decisions
                               \/ Filed(e) => e.pair = e.told
  BY <1>2, Decides
<1>4. i \in Nat /\ i # 0 /\ i = nextDecision
  BY <1>2 DEF LogTyped
<1>5. /\ awaiting' \in [Payments -> Nat]
      /\ \A q \in Payments : q # p => awaiting'[q] = awaiting[q]
      /\ awaiting'[p] \in {awaiting[p], i}
      /\ found = Consider(p) \/ found = matching.found
      /\ awaiting'[p] = awaiting[p] \/ found = matching.found
  BY <1>4 DEF AwaitInv
<1>6. AwaitInv'
  <2>1. \A q \in Payments : awaiting'[q] < nextDecision'
    BY <1>3, <1>4, <1>5 DEF AwaitInv
  <2>2. ASSUME NEW q \in Payments, q \notin blurred', awaiting'[q] # 0, NEW j, j = awaiting'[q]
        PROVE  Tops(q, j)' /\ Plain(q, j)'
    <3>1. CASE q = p
      <4>1. awaiting[p] = 0
        BY <1>1, <1>3, <2>2, <3>1
      <4>2. j = i
        BY <1>5, <2>2, <3>1, <4>1
      <4> QED
        BY <1>3, <2>2, <3>1, <4>2
    <3>2. CASE q # p
      <4>1. j = awaiting[q] /\ j \in Nat /\ j < nextDecision /\ q \notin blurred
        BY <1>3, <1>5, <2>2, <3>2 DEF AwaitInv
      <4>2. Tops(q, j) /\ Plain(q, j)
        BY <2>2, <4>1 DEF AwaitInv
      <4> QED
        BY <1>3, <3>2, <4>1, <4>2
    <3> QED
      BY <3>1, <3>2
  <2>3. ASSUME NEW q \in Payments, q \notin blurred', awaiting'[q] # 0
        PROVE  (Tops(q, awaiting[q]) /\ Plain(q, awaiting[q]))'
    <3>1. PICK j : j = awaiting'[q]
      OBVIOUS
    <3> QED
      BY <2>2, <2>3, <3>1
  <2> QED
    BY <1>5, <2>1, <2>3 DEF AwaitInv
<1>7. LabelInv'
  BY <1>3 DEF LabelInv
<1>8. /\ matching'.found = found /\ matching'.step = "deciding"
      /\ matching'.met = matching.met \cup {p} /\ (matching'.asks <=> matching.asks)
  BY <1>1 DEF Shape, RunShape
<1>9. \A f \in matching.found : f \in Finds /\ f.of \in matching.met /\ GoodFind(f)
  BY <1>1 DEF FoundInv
<1>10. \A f \in found : \/ f \in matching.found
                        \/ f = [of |-> p, about |-> i] /\ awaiting'[p] = awaiting[p]
  BY <1>2, <1>5 DEF Consider
<1>11. ASSUME NEW f \in matching.found PROVE GoodFind(f)'
  <2>1. f.about \in Nat /\ f.about < nextDecision /\ f.of \in Payments
    BY <1>9 DEF GoodFind, Finds
  <2>2. f.about < nextDecision'
    BY <1>3, <1>4, <2>1
  <2>3. CASE f.of \in blurred'
    BY <2>2, <2>3 DEF GoodFind
  <2>4. CASE f.of \notin blurred'
    <3>1. f.of # p /\ f.of \notin blurred
      BY <1>3, <1>9, <2>4
    <3>2. /\ f.about # 0 /\ awaiting[f.of] # f.about /\ Tops(f.of, f.about)
          /\ Plain(f.of, f.about)
          /\ \E d \in decisions : Mine(d, f.of) /\ d.id = f.about
      BY <1>9, <3>1 DEF GoodFind
    <3>3. Tops(f.of, f.about)' /\ Plain(f.of, f.about)'
      BY <1>3, <2>1, <3>1, <3>2
    <3>4. awaiting'[f.of] # f.about
      BY <1>5, <2>1, <3>1, <3>2
    <3>5. \E d \in decisions' : Mine(d, f.of) /\ d.id = f.about
      BY <3>2 DEF DecideOne, Add
    <3> QED
      BY <2>2, <3>2, <3>3, <3>4, <3>5 DEF GoodFind
  <2> QED
    BY <2>3, <2>4
<1>12. ASSUME NEW f, f = [of |-> p, about |-> i], awaiting'[p] = awaiting[p] PROVE GoodFind(f)'
  <2>1. f.of = p /\ f.about = i /\ i < nextDecision' /\ awaiting'[p] # i
    BY <1>3, <1>4, <1>12 DEF AwaitInv
  <2> QED
    BY <1>3, <1>4, <2>1 DEF GoodFind
<1>13. FoundInv'
  <2>1. found \in SUBSET Finds
    BY <1>4, <1>9, <1>10 DEF Finds
  <2>2. \A f \in found : f.of \in matching'.met
    BY <1>8, <1>9, <1>10
  <2>3. \A f \in found : GoodFind(f)'
    BY <1>10, <1>11, <1>12
  <2> QED
    BY <1>8, <2>1, <2>2, <2>3 DEF FoundInv
<1>14. ASSUME NEW q, GoodQuestion(q) PROVE GoodQuestion(q)'
  <2>1. q.decision \in Nat /\ q.decision < nextDecision' /\ q.of \in Payments
    BY <1>3, <1>4, <1>14 DEF GoodQuestion
  <2>2. \A d \in decisions' : d.id = q.decision => d.of = q.of
    <3>1. \A d \in decisions' : d \in decisions \/ d.id = i
      BY <1>4, NewRecord DEF DecideOne, Add
    <3>2. q.decision # i
      BY <1>4, <1>14 DEF GoodQuestion
    <3> QED
      BY <1>14, <3>1, <3>2 DEF GoodQuestion
  <2>3. CASE q.of \in blurred'
    BY <1>14, <2>1, <2>2, <2>3 DEF GoodQuestion
  <2>4. CASE q.of \notin blurred'
    <3>1. /\ q.decision = q.about /\ q.about # 0 /\ awaiting[q.of] # q.decision
          /\ Plain(q.of, q.decision) /\ q.decision < nextDecision
      BY <1>3, <1>14, <2>4 DEF GoodQuestion
    <3>2. awaiting'[q.of] # q.decision /\ Plain(q.of, q.decision)'
      BY <1>3, <1>4, <1>5, <2>1, <3>1
    <3> QED
      BY <1>14, <2>1, <2>2, <3>1, <3>2 DEF GoodQuestion
  <2> QED
    BY <2>3, <2>4
<1>15. QuestionInv'
  <2>1. found # {} => questions = {}
    BY <1>5 DEF QuestionInv, Consider
  <2>2. \A v \in Visitors : visit[v].step = "filing" =>
           GoodQuestion(visit[v].question)' /\ visit[v].answer \in Truths
    BY <1>1, <1>14 DEF QuestionInv
  <2> QED
    BY <1>1, <1>8, <1>14, <2>1, <2>2 DEF QuestionInv
<1> QED
  BY <1>3, <1>6, <1>7, <1>13, <1>15

\* A label keeps what holds if it leaves the levels as they were, or settles
\* the one record a held payment waits with.
LEMMA LabelKeeps ==
  ASSUME EvidenceInv, NEW i \in Nat, NEW t \in Truths, NEW pair \in Comparisons,
         NEW told \in Comparisons, Labelling(i, t, pair, told),
         UNCHANGED <<nextDecision, losses, blurred, questions, nextQuestion, matching>>,
         awaiting' \in [Payments -> Nat],
         \A p \in Payments : awaiting'[p] \in {0, awaiting[p]},
         \A v \in Visitors : visit'[v].step = "filing" => visit'[v] = visit[v],
         \A d \in decisions : d.id = i =>
             \/ d.of \in blurred
             \/ /\ pair = told
                /\ \/ pair = <<i, "best">>
                   \/ matching.found = {} /\ awaiting[d.of] = i /\ awaiting'[d.of] = 0
  PROVE  EvidenceInv'
<1> USE DEF EvidenceInv
<1>1. /\ LogTyped'
      /\ \A p, j : Tops(p, j) => Tops(p, j)'
      /\ \A p, j : Plain(p, j) /\ (j # i \/ pair = <<j, "best">>) => Plain(p, j)'
      /\ \A e \in decisions' : /\ \E d \in decisions : d.id = e.id /\ d.of = e.of
                               /\ \/ e.id = i /\ e.pair = pair /\ e.told = told
                                  \/ e.id # i /\ e \in decisions
  BY Relabelled
<1>2. ASSUME NEW p \in Payments, NEW j \in Nat, p \notin blurred, Plain(p, j),
             matching.found # {} \/ awaiting[p] # j \/ awaiting'[p] # 0
      PROVE  Plain(p, j)'
  <2>1. CASE j # i \/ pair = <<j, "best">>
    BY <1>1, <1>2, <2>1
  <2>2. CASE j = i /\ pair # <<j, "best">>
    <3>1. ASSUME NEW d \in decisions, d.id = i PROVE FALSE
      BY <1>2, <2>2, <3>1 DEF Plain
    <3>2. \A e \in decisions' : e.id # i
      BY <1>1, <3>1
    <3> QED
      BY <2>2, <3>2 DEF Plain
  <2> QED
    BY <2>1, <2>2
<1>3. AwaitInv'
  <2>1. \A p \in Payments : awaiting'[p] < nextDecision
    BY DEF AwaitInv, LogTyped
  <2>2. ASSUME NEW p \in Payments, p \notin blurred, awaiting'[p] # 0, NEW j, j = awaiting'[p]
        PROVE  Tops(p, j)' /\ Plain(p, j)'
    <3>1. j = awaiting[p] /\ Tops(p, j) /\ Plain(p, j) /\ j \in Nat
      BY <2>2 DEF AwaitInv
    <3> QED
      BY <1>1, <1>2, <2>2, <3>1
  <2>3. ASSUME NEW p \in Payments, p \notin blurred, awaiting'[p] # 0
        PROVE  (Tops(p, awaiting[p]) /\ Plain(p, awaiting[p]))'
    <3>1. PICK j : j = awaiting'[p]
      OBVIOUS
    <3> QED
      BY <2>2, <2>3, <3>1
  <2> QED
    BY <2>1, <2>3 DEF AwaitInv
<1>4. LabelInv'
  <2> SUFFICES ASSUME NEW e \in decisions', Filed(e) PROVE e.of \in blurred \/ e.pair = e.told
    BY DEF LabelInv
  <2>1. CASE e.id = i /\ e.pair = pair /\ e.told = told
    BY <1>1, <2>1
  <2>2. CASE e \in decisions
    BY <2>2 DEF LabelInv
  <2> QED
    BY <1>1, <2>1, <2>2
<1>5. ASSUME NEW f \in matching.found PROVE GoodFind(f)'
  <2>1. f \in Finds /\ GoodFind(f) /\ f.of \in Payments /\ f.about \in Nat
    BY DEF FoundInv, Finds
  <2>2. CASE f.of \in blurred
    BY <2>1, <2>2 DEF GoodFind
  <2>3. CASE f.of \notin blurred
    <3>1. /\ f.about # 0 /\ awaiting[f.of] # f.about
          /\ Tops(f.of, f.about) /\ Plain(f.of, f.about)
          /\ \E d \in decisions : Mine(d, f.of) /\ d.id = f.about
      BY <2>1, <2>3 DEF GoodFind
    <3>2. Tops(f.of, f.about)' /\ Plain(f.of, f.about)'
      BY <1>1, <1>2, <2>1, <2>3, <3>1
    <3>3. awaiting'[f.of] # f.about
      BY <2>1, <3>1
    <3>4. \E d \in decisions' : Mine(d, f.of) /\ d.id = f.about
      <4>1. PICK d \in decisions : Mine(d, f.of) /\ d.id = f.about
        BY <3>1
      <4>2. CASE d.id # i
        BY <4>1, <4>2 DEF Labelling
      <4>3. CASE d.id = i
        <5>1. LabelOf(d, t, pair, told) \in decisions'
          BY <4>3 DEF Labelling, LabelOf
        <5> QED
          BY <4>1, <5>1, LabelRecord DEF LogTyped
      <4> QED
        BY <4>2, <4>3
    <3> QED
      BY <2>1, <3>1, <3>2, <3>3, <3>4 DEF GoodFind
  <2> QED
    BY <2>2, <2>3
<1>6. FoundInv'
  BY <1>5 DEF FoundInv
<1>7. ASSUME NEW q, GoodQuestion(q) PROVE GoodQuestion(q)'
  <2>1. \A d \in decisions' : d.id = q.decision => d.of = q.of
    BY <1>1, <1>7 DEF GoodQuestion
  <2>2. CASE q.of \in blurred
    BY <1>7, <2>1, <2>2 DEF GoodQuestion
  <2>3. CASE q.of \notin blurred
    <3>1. /\ q.decision = q.about /\ q.about # 0 /\ awaiting[q.of] # q.decision
          /\ Plain(q.of, q.decision) /\ q.of \in Payments /\ q.decision \in Nat
      BY <1>7, <2>3 DEF GoodQuestion
    <3>2. awaiting'[q.of] # q.decision /\ Plain(q.of, q.decision)'
      BY <1>2, <2>3, <3>1
    <3> QED
      BY <1>7, <2>1, <3>1, <3>2 DEF GoodQuestion
  <2> QED
    BY <2>2, <2>3
<1>8. ASSUME NEW v \in Visitors, visit'[v].step = "filing"
      PROVE  visit'[v] = visit[v] /\ GoodQuestion(visit[v].question)'
             /\ visit[v].answer \in Truths
  <2>1. visit'[v] = visit[v] /\ GoodQuestion(visit[v].question) /\ visit[v].answer \in Truths
    BY <1>8 DEF QuestionInv
  <2>2. PICK q : q = visit[v].question
    OBVIOUS
  <2> QED
    BY <1>7, <2>1, <2>2
<1>9. QuestionInv'
  <2>1. \A v \in Visitors : visit'[v].step = "filing" =>
           GoodQuestion(visit[v].question)' /\ visit'[v].answer \in Truths
    BY <1>8
  <2>2. \A q \in questions : GoodQuestion(q)'
    BY <1>7 DEF QuestionInv
  <2> QED
    BY <2>1, <2>2 DEF QuestionInv
<1> QED
  BY <1>1, <1>3, <1>4, <1>6, <1>9

\* The levels a record has, looked up by its key.
LEMMA PairIs ==
  ASSUME LogTyped, NEW d \in decisions
  PROVE  PairOf(d.id) = d.pair /\ PairOf(d.id) \in Comparisons
<1>1. (CHOOSE e \in decisions : e.id = d.id) = d
  BY DEF LogTyped
<1> QED
  BY <1>1 DEF PairOf, LogTyped, LogRows

\* What an answer of the review queue labels.
LEMMA HeldRecord ==
  ASSUME EvidenceInv, NEW p \in Payments, awaiting[p] # 0, Latest(p) # 0
  PROVE  /\ Latest(p) \in Nat /\ awaiting[p] \in Nat
         /\ \E d \in decisions : d.id = Latest(p)
         /\ \A d \in decisions : d.id = Latest(p) =>
               /\ d.of = p
               /\ p \in blurred \/ (Latest(p) = awaiting[p] /\ d.pair = <<Latest(p), "best">>)
<1> USE DEF EvidenceInv
<1>1. /\ Latest(p) \in Nat /\ awaiting[p] \in Nat
      /\ \E d \in decisions : Mine(d, p) /\ d.id = Latest(p)
  BY LatestRecord DEF AwaitInv
<1>2. \A d \in decisions : d.id = Latest(p) => d.of = p
  BY <1>1 DEF LogTyped, Mine
<1>3. p \notin blurred => Latest(p) = awaiting[p] /\ Plain(p, awaiting[p])
  BY <1>1, LatestTops DEF AwaitInv
<1> QED
  BY <1>1, <1>2, <1>3 DEF Plain

\* An answer of the review queue: two payments.
LEMMA CreatedKeeps ==
  ASSUME EvidenceInv, NEW p \in Payments, AnswerCreated(p)
  PROVE  EvidenceInv'
<1>1. /\ UNCHANGED <<nextDecision, losses, blurred, questions, nextQuestion, matching, visit>>
      /\ awaiting[p] # 0 /\ awaiting' = [awaiting EXCEPT ![p] = 0]
  BY DEF AnswerCreated, Struck, inquiry
<1>2. /\ awaiting' \in [Payments -> Nat]
      /\ \A q \in Payments : awaiting'[q] \in {0, awaiting[q]}
      /\ awaiting[p] \in Nat
  BY <1>1 DEF EvidenceInv, AwaitInv
<1>3. <<awaiting[p], "best">> \in Comparisons
  BY <1>2 DEF Comparisons
<1>4. "no" \in Truths
  BY Zenon DEF Truths
<1>5. CASE Latest(p) = 0
  <2>1. Labelling(0, "no", <<awaiting[p], "best">>, <<awaiting[p], "best">>)
    BY <1>5 DEF AnswerCreated, Labelling, EvidenceInv, LogTyped
  <2>2. \A d \in decisions : d.id # 0
    BY DEF EvidenceInv, LogTyped
  <2> QED
    BY <1>1, <1>2, <1>3, <1>4, <2>1, <2>2, LabelKeeps
<1>6. CASE Latest(p) # 0
  <2>1. Labelling(Latest(p), "no", PairOf(Latest(p)), <<awaiting[p], "best">>)
    BY <1>6 DEF AnswerCreated
  <2>2. /\ Latest(p) \in Nat /\ PairOf(Latest(p)) \in Comparisons
        /\ \A d \in decisions : d.id = Latest(p) =>
              \/ d.of \in blurred
              \/ PairOf(Latest(p)) = <<awaiting[p], "best">> /\ awaiting[p] = Latest(p)
    <3>1. /\ Latest(p) \in Nat
          /\ \A e \in decisions : e.id = Latest(p) =>
                \/ p \in blurred /\ e.of = p
                \/ Latest(p) = awaiting[p] /\ e.pair = <<Latest(p), "best">>
      BY <1>1, <1>6, HeldRecord
    <3>2. PICK d \in decisions : d.id = Latest(p)
      BY <1>1, <1>6, HeldRecord
    <3>3. PairOf(Latest(p)) = d.pair /\ PairOf(Latest(p)) \in Comparisons
      BY <3>2, PairIs DEF EvidenceInv
    <3>4. \A e \in decisions : e.id = Latest(p) => e = d
      BY <3>2 DEF EvidenceInv, LogTyped
    <3> HIDE DEF Latest, PairOf
    <3> QED
      BY <3>1, <3>3, <3>4
  <2> HIDE DEF Latest, PairOf
  <2> QED
    BY <1>1, <1>2, <1>3, <1>4, <2>1, <2>2, LabelKeeps
<1> QED
  BY <1>5, <1>6

\* An answer of the review queue: one payment, merged into the chosen row.
LEMMA MergedKeeps ==
  ASSUME EvidenceInv, NEW p \in Payments, AnswerMerged(p)
  PROVE  EvidenceInv'
<1>1. /\ UNCHANGED <<nextDecision, losses, blurred, questions, nextQuestion, matching, visit>>
      /\ awaiting[p] # 0 /\ awaiting' = [awaiting EXCEPT ![p] = 0]
      /\ matching.found = {}
  BY DEF AnswerMerged, Struck, inquiry, At, EvidenceInv, FoundInv
<1>2. /\ awaiting' \in [Payments -> Nat]
      /\ \A q \in Payments : awaiting'[q] \in {0, awaiting[q]}
      /\ awaiting[p] \in Nat /\ awaiting'[p] = 0
  BY <1>1 DEF EvidenceInv, AwaitInv
<1>3. \A c \in {"best", "other"} : <<awaiting[p], c>> \in Comparisons
  BY <1>2 DEF Comparisons
<1>4. "yes" \in Truths
  BY Zenon DEF Truths
<1>5. CASE Latest(p) = 0
  <2>1. Labelling(0, "yes", <<awaiting[p], "best">>, <<awaiting[p], "best">>)
    BY <1>5 DEF AnswerMerged, Labelling, EvidenceInv, LogTyped
  <2>2. \A d \in decisions : d.id # 0
    BY DEF EvidenceInv, LogTyped
  <2> QED
    BY <1>1, <1>2, <1>3, <1>4, <2>1, <2>2, LabelKeeps
<1>6. CASE Latest(p) # 0
  <2>1. PICK c \in {"best", "other"} :
          Labelling(Latest(p), "yes", <<awaiting[p], c>>, <<awaiting[p], c>>)
    BY <1>6 DEF AnswerMerged, Resolved
  <2>2. /\ Latest(p) \in Nat
        /\ \A d \in decisions : d.id = Latest(p) =>
              d.of = p /\ (d.of \in blurred \/ awaiting[p] = Latest(p))
    BY <1>1, <1>6, HeldRecord
  <2> HIDE DEF Latest
  <2> QED
    BY <1>1, <1>2, <1>3, <1>4, <2>1, <2>2, LabelKeeps
<1> QED
  BY <1>5, <1>6

\* An answer to a question: the record it is pinned to, whenever it comes.
LEMMA FileKeeps ==
  ASSUME Shape, EvidenceInv, NEW v \in Visitors, FileAnswer(v)
  PROVE  EvidenceInv'
<1> DEFINE q == visit[v].question
           i == FiledAt(q)
<1>1. /\ UNCHANGED <<nextDecision, losses, blurred, questions, nextQuestion, matching, awaiting>>
      /\ GoodQuestion(q) /\ visit[v].answer \in Truths
  BY DEF FileAnswer, inquiry, VisitAt, EvidenceInv, QuestionInv
<1>2. \A w \in Visitors : visit'[w].step = "filing" => visit'[w] = visit[w]
  BY DEF FileAnswer, Shape, VisitShape
<1>3. /\ awaiting' \in [Payments -> Nat]
      /\ \A p \in Payments : awaiting'[p] \in {0, awaiting[p]}
  BY <1>1 DEF EvidenceInv, AwaitInv
<1>4. <<q.about, "best">> \in Comparisons
  BY <1>1 DEF Comparisons, GoodQuestion
<1>5. CASE ~Recorded(i)
  BY <1>1, <1>2, <1>5, PageAside DEF FileAnswer, EvidenceInv, LogTyped
<1>6. CASE Recorded(i)
  <2>1. Labelling(i, visit[v].answer, PairOf(i), <<q.about, "best">>)
    BY <1>6 DEF FileAnswer
  <2>2. PICK d \in decisions : d.id = i
    BY <1>6 DEF Recorded
  <2>3. i \in Nat /\ PairOf(i) = d.pair /\ PairOf(i) \in Comparisons
    BY <2>2, PairIs DEF EvidenceInv, LogTyped, LogRows
  <2>4. \A e \in decisions : e.id = i => e = d
    BY <2>2 DEF EvidenceInv, LogTyped
  <2>5. d.of \in blurred \/ (d.pair = <<q.about, "best">> /\ d.pair = <<i, "best">>)
    <3>1. CASE q.decision # 0
      <4>1. i = q.decision /\ d.of = q.of
        BY <1>1, <2>2, <3>1 DEF FiledAt, GoodQuestion
      <4> QED
        BY <1>1, <2>2, <4>1 DEF GoodQuestion, Plain
    <3>2. CASE q.decision = 0
      <4>1. i = Latest(q.of) /\ q.of \in Payments /\ q.of \in blurred
        BY <1>1, <3>2 DEF FiledAt, GoodQuestion
      <4>2. d.id # 0
        BY DEF EvidenceInv, LogTyped
      <4>3. \E e \in decisions : Mine(e, q.of) /\ e.id = i
        BY <2>2, <4>1, <4>2, LatestRecord DEF EvidenceInv
      <4> QED
        BY <2>4, <4>1, <4>3 DEF Mine
    <3> QED
      BY <3>1, <3>2
  <2> HIDE DEF i, q
  <2> QED
    BY <1>1, <1>2, <1>3, <1>4, <2>1, <2>3, <2>4, <2>5, LabelKeeps
<1> QED
  BY <1>5, <1>6

\* Every step keeps what is known of labels, questions and finds.
LEMMA EvidenceStep == Shape /\ EvidenceInv /\ [EvidenceNext]_evidenceVars => EvidenceInv'
<1> SUFFICES ASSUME Shape, EvidenceInv, [EvidenceNext]_evidenceVars PROVE EvidenceInv'
  OBVIOUS
<1>1. losses \in Nat
  BY DEF EvidenceInv, LogTyped
<1>2. "" \in Truths /\ "yes" \in Truths
  BY Zenon DEF Truths
<1>3. ASSUME NEW p \in Payments, DecideAlone(p) PROVE EvidenceInv'
  BY <1>2, <1>3, DecideKeeps DEF DecideAlone
<1>4. ASSUME NEW p \in Payments, DecideHeld(p) PROVE EvidenceInv'
  BY <1>2, <1>4, DecideKeeps DEF DecideHeld
<1>5. ASSUME NEW p \in Payments, ReferenceLabel(p) PROVE EvidenceInv'
  <2>1. PICK t \in {"yes", ""} : DecideOne(p, t, matching.found)
    BY <1>5 DEF ReferenceLabel
  <2>2. t \in Truths /\ awaiting' = awaiting
    BY <1>2, <1>5 DEF ReferenceLabel
  <2> QED
    BY <2>1, <2>2, DecideKeeps
<1>6. CASE MatchingStep
  BY <1>3, <1>4, <1>5, <1>6, OpensKeeps, RunAside, AskKeeps DEF MatchingStep
<1>7. ASSUME NEW v \in Visitors, CloseInquiry(v) \/ WatchWrites(v) \/ PromoteClears(v)
      PROVE  EvidenceInv'
  <2>1. \A w \in Visitors : visit'[w].step = "filing" => visit'[w] = visit[w]
    BY <1>7, RestingVisit
    DEF CloseInquiry, WatchWrites, PromoteClears, VisitEnds, Shape, VisitShape
  <2> QED
    BY <1>1, <1>7, <2>1, PageAside
    DEF CloseInquiry, WatchWrites, PromoteClears, evidence, inquiry, Loses
<1>8. ASSUME NEW v \in Visitors, WatchReads(v) \/ PromoteReads(v) PROVE EvidenceInv'
  <2>1. visit'[v].step \in {"watching", "judging"}
    BY <1>8 DEF WatchReads, PromoteReads, NoVisit, Shape, VisitShape
  <2>2. \A w \in Visitors : w # v => visit'[w] = visit[w]
    BY <1>8 DEF WatchReads, PromoteReads, Shape, VisitShape
  <2>3. \A w \in Visitors : visit'[w].step = "filing" => visit'[w] = visit[w]
    BY <2>1, <2>2
  <2> QED
    BY <1>1, <1>8, <2>3, PageAside DEF WatchReads, PromoteReads, evidence, inquiry
<1>9. ASSUME NEW v \in Visitors, PromoteJudges(v) PROVE EvidenceInv'
  <2>1. \A w \in Visitors : visit'[w].step = "filing" => visit'[w] = visit[w]
    BY <1>9, RestingVisit DEF PromoteJudges, Shape, VisitShape
  <2> QED
    BY <1>1, <1>9, <2>1, PageAside DEF PromoteJudges, evidence, inquiry
<1>10. ASSUME NEW v \in Visitors, PromoteInstalls(v) PROVE EvidenceInv'
  <2>1. visit'[v].step = "clearing"
    BY <1>10 DEF PromoteInstalls, NoVisit, Shape, VisitShape
  <2>2. \A w \in Visitors : w # v => visit'[w] = visit[w]
    BY <1>10 DEF PromoteInstalls, Shape, VisitShape
  <2>3. \A w \in Visitors : visit'[w].step = "filing" => visit'[w] = visit[w]
    BY <2>1, <2>2
  <2> QED
    BY <1>1, <1>10, <2>3, PageAside DEF PromoteInstalls, evidence, inquiry
<1>11. CASE \/ StopWatching \/ RevertParameters \/ SettingsChange
            \/ \E p \in Payments : TimePasses(p)
  BY <1>1, <1>11, PageAside
  DEF StopWatching, RevertParameters, SettingsChange, TimePasses, evidence, inquiry
<1>12. CASE Restarts
  <2>1. \A w \in Visitors : visit'[w].step = "filing" => visit'[w] = visit[w]
    BY <1>12, RestingVisit DEF Restarts
  <2>2. matching'.found = {} /\ matching'.step = "off" /\ ~matching'.asks
    BY <1>12 DEF Restarts, RunEnds, NoRun
  <2> QED
    BY <1>1, <1>12, <2>1, <2>2, PageAside DEF Restarts, Loses, evidence, inquiry
<1>13. CASE VisitStep
  BY <1>7, <1>8, <1>9, <1>10, <1>11, <1>13, CreatedKeeps, MergedKeeps, ReadsKeeps,
     FileKeeps
  DEF VisitStep
<1>14. CASE UNCHANGED evidenceVars
  BY <1>1, <1>14, PageAside DEF evidenceVars, evidence, inquiry
<1> QED
  BY <1>6, <1>11, <1>12, <1>13, <1>14 DEF EvidenceNext

\* What is known of labels holds at every instant.
LEMMA EvidenceHolds == EvidenceSpec => [](Shape /\ EvidenceInv)
  BY ShapeInit, ShapeStep, EvidenceInvInit, EvidenceStep, PTL DEF EvidenceSpec

\* A label describes the comparison the person was shown, however late the
\* answer, and whatever was decided about the same payment since
\* (recordInquiryAnswer, recordReviewAnswer).
THEOREM LabelsDescribeThePairCorrect == EvidenceSpec => []LabelsDescribeThePair
<1>1. EvidenceInv => LabelsDescribeThePair
  BY LabelledFiled DEF EvidenceInv, LabelInv, LabelsDescribeThePair
<1> QED
  BY <1>1, EvidenceHolds, PTL

\* One question is open at a time: "every caller relies on that"
\* (Store.OpenInquiry, newInquirySampler).
THEOREM OneQuestionCorrect == EvidenceSpec => [](Cardinality(questions) <= 1)
<1>1. EvidenceInv => Cardinality(questions) <= 1
  <2> SUFFICES ASSUME EvidenceInv PROVE Cardinality(questions) <= 1
    OBVIOUS
  <2>1. CASE questions = {}
    BY <2>1, FS_EmptySet
  <2>2. CASE questions # {}
    <3>1. PICK q : questions = {q}
      BY <2>2 DEF EvidenceInv, QuestionInv
    <3> QED
      BY <3>1, FS_Singleton
  <2> QED
    BY <2>1, <2>2
<1> QED
  BY <1>1, EvidenceHolds, PTL

-----------------------------------------------------------------------------
(* The form of log, questions and parameters.                              *)

\* Records, questions and finds name records within the bound of the log.
RecordsTyped ==
    /\ nextDecision \in 1..(MaxDecisions + 1)
    /\ \A d \in decisions : d.pair \in Pairs
    /\ awaiting \in [Payments -> 0..MaxDecisions]
    /\ nextQuestion \in Nat \ {0}
    /\ \A q \in questions : q.id \in 1..(nextQuestion - 1) /\ q.decision \in 0..MaxDecisions
    /\ \A f \in matching.found : f.about \in DecisionIds

\* Sets, settings and samples are those of the bounded log.
SettingsTyped ==
    /\ dated \in [Payments -> {"ahead", "near", "past", "old"}]
    /\ inForce \in Trials /\ watched \in Trials
    /\ rules \in 0..MaxRules /\ losses \in 0..MaxLosses
    /\ sample \in [0..MaxRules -> 0..MaxSample]
    /\ \A v \in Visitors : visit[v].trial \in Trials

LogInv == Shape /\ EvidenceInv /\ RecordsTyped /\ SettingsTyped

\* An empty log has them.
LEMMA LogInit == EvidenceInit => RecordsTyped /\ SettingsTyped
<1> SUFFICES ASSUME EvidenceInit PROVE RecordsTyped /\ SettingsTyped
  OBVIOUS
<1>1. 0 \in 0..MaxDecisions /\ 0 \in 0..MaxRules /\ 0 \in 0..MaxSample /\ 0 \in 0..MaxLosses
      /\ 1 \in 1..(MaxDecisions + 1)
  BY BoundsAssumption
<1>2. RecordsTyped
  BY <1>1 DEF EvidenceInit, RecordsTyped, NoRun
<1>3. Shipped \in Trials /\ None \in Trials /\ NoVisit.trial = None
  BY <1>1 DEF Trials, Shipped, None, NoVisit
<1>4. SettingsTyped
  BY <1>1, <1>3 DEF EvidenceInit, SettingsTyped
<1> QED  BY <1>2, <1>4

\* Keys are given once, so there are no more records than keys.
LEMMA FewRecords ==
    ASSUME EvidenceInv, RecordsTyped, NEW T \in SUBSET decisions
    PROVE  Cardinality(T) \in 0..MaxDecisions
<1> DEFINE key == [d \in T |-> d.id]
<1>1. MaxDecisions \in Nat
  BY BoundsAssumption
<1>2. IsFiniteSet(DecisionIds) /\ Cardinality(DecisionIds) = MaxDecisions
  BY <1>1, FS_Interval DEF DecisionIds
<1>3. \A d \in T : d.id \in DecisionIds
  BY <1>1 DEF EvidenceInv, LogTyped, LogRows, RecordsTyped, DecisionIds
<1>4. \A d, e \in T : d.id = e.id => d = e
  BY DEF EvidenceInv, LogTyped
<1>5. key \in Injection(T, DecisionIds)
  BY <1>3, <1>4 DEF Injection, IsInjective
<1>6. IsFiniteSet(T) /\ Cardinality(T) <= Cardinality(DecisionIds)
  BY <1>2, <1>5, FS_Injection
<1> QED  BY <1>1, <1>2, <1>6, FS_CardinalityType

\* What is fitted to the log is a set within the bounds.
LEMMA FittedTyped ==
    ASSUME EvidenceInv, RecordsTyped, SettingsTyped
    PROVE  Fitted \in Trials
<1>1. Counted("yes") \in 0..MaxDecisions /\ Counted("no") \in 0..MaxDecisions
  BY FewRecords DEF Counted
<1>2. SampledU \in 0..MaxSample
  BY DEF SampledU, SettingsTyped
<1> QED  BY <1>1, <1>2 DEF Fitted, Trials

\* What a visitor carries was watched or fitted when the visit began.
LEMMA TrialComes ==
    ASSUME Shape, EvidenceNext
    PROVE  \A v \in Visitors : visit'[v].trial \in {visit[v].trial, None, Fitted, watched}
<1>0. NoVisit.trial = None
  BY DEF NoVisit
<1> HIDE DEF Fitted, None
<1>1. CASE visit' = visit \/ visit' = [v \in Visitors |-> NoVisit]
  BY <1>0, <1>1
<1>2. ASSUME NEW v \in Visitors, AnswerReads(v)
      PROVE  visit'[v].trial = None /\ \A w \in Visitors : w # v => visit'[w] = visit[w]
  <2>1. PICK a \in {"yes", "no", "unknown"} :
            visit' = [visit EXCEPT ![v] =
                        [NoVisit EXCEPT !.answer = a,
                                        !.step = IF a = "unknown" THEN "closing" ELSE "filing",
                                        !.question = Newest]]
    BY <1>2 DEF AnswerReads
  <2> DEFINE new == [step |-> IF a = "unknown" THEN "closing" ELSE "filing",
                     question |-> Newest, answer |-> a, trial |-> None, rules |-> 0]
  <2>2. visit' = [visit EXCEPT ![v] = new] /\ new.trial = None
    BY <2>1, AnswerCarries
  <2> HIDE DEF new
  <2> QED  BY <2>2 DEF Shape, VisitShape
<1>3. ASSUME NEW v \in Visitors, FileAnswer(v)
      PROVE  visit'[v].trial = visit[v].trial /\ \A w \in Visitors : w # v => visit'[w] = visit[w]
  BY <1>3 DEF FileAnswer, Shape, VisitShape
<1>4. ASSUME NEW v \in Visitors, VisitEnds(v)
      PROVE  visit'[v].trial = None /\ \A w \in Visitors : w # v => visit'[w] = visit[w]
  BY <1>0, <1>4 DEF VisitEnds, Shape, VisitShape
<1>5. ASSUME NEW v \in Visitors, WatchReads(v)
      PROVE  visit'[v].trial = Fitted /\ \A w \in Visitors : w # v => visit'[w] = visit[w]
  BY <1>5 DEF WatchReads, NoVisit, Shape, VisitShape
<1>6. ASSUME NEW v \in Visitors, PromoteReads(v)
      PROVE  visit'[v].trial = watched /\ \A w \in Visitors : w # v => visit'[w] = visit[w]
  BY <1>6 DEF PromoteReads, NoVisit, Shape, VisitShape
<1>7. ASSUME NEW v \in Visitors, PromoteJudges(v)
      PROVE  /\ visit'[v].trial \in {visit[v].trial, None}
             /\ \A w \in Visitors : w # v => visit'[w] = visit[w]
  <2>1. CASE Promotable(v)
    <3>1. visit' = [visit EXCEPT ![v] = [visit[v] EXCEPT !.step = "installing", !.rules = 0]]
      BY <1>7, <2>1 DEF PromoteJudges
    <3>2. [visit[v] EXCEPT !.step = "installing", !.rules = 0].trial = visit[v].trial
      BY DEF Shape, VisitShape
    <3> QED  BY <3>1, <3>2 DEF Shape, VisitShape
  <2>2. CASE ~Promotable(v)
    BY <1>7, <2>2, <1>0 DEF PromoteJudges, Shape, VisitShape
  <2> QED  BY <2>1, <2>2
<1>8. ASSUME NEW v \in Visitors, PromoteInstalls(v)
      PROVE  visit'[v].trial = None /\ \A w \in Visitors : w # v => visit'[w] = visit[w]
  BY <1>8 DEF PromoteInstalls, NoVisit, Shape, VisitShape
<1>9. CASE MatchingStep
  BY <1>1, <1>9
  DEF MatchingStep, SyncOpens, SyncPrunes, SamplerStarts, DecideAlone,
      DecideHeld, ReferenceLabel, DecideOne, FlushUSample, Ask, AskNothing
<1>10. CASE VisitStep
  <2>1. \/ visit' = visit
        \/ \E v \in Visitors : \/ AnswerReads(v) \/ FileAnswer(v) \/ VisitEnds(v)
                               \/ WatchReads(v) \/ PromoteReads(v) \/ PromoteJudges(v)
                               \/ PromoteInstalls(v)
    BY <1>10
    DEF VisitStep, AnswerCreated, AnswerMerged, CloseInquiry, WatchWrites, StopWatching,
        PromoteClears, RevertParameters, SettingsChange
  <2> QED  BY <1>1, <1>2, <1>3, <1>4, <1>5, <1>6, <1>7, <1>8, <2>1
<1> QED  BY <1>1, <1>9, <1>10 DEF EvidenceNext, TimePasses, Restarts

\* Every step keeps sets, settings and samples within the bounds.
LEMMA SettingsStep ==
    ASSUME Shape, EvidenceInv, RecordsTyped, SettingsTyped, EvidenceNext
    PROVE  SettingsTyped'
<1>1. Shipped \in Trials /\ None \in Trials
  BY BoundsAssumption DEF Trials, Shipped, None
<1>2. \A v \in Visitors : visit'[v].trial \in Trials
  BY <1>1, FittedTyped, TrialComes DEF SettingsTyped
<1>3. /\ inForce' \in {inForce, Shipped} \cup {visit[v].trial : v \in Visitors}
      /\ watched' \in {watched, None} \cup {visit[v].trial : v \in Visitors}
  BY DEF EvidenceNext, MatchingStep, VisitStep, SyncOpens, SyncPrunes, SamplerStarts, DecideAlone, DecideHeld, ReferenceLabel, DecideOne, FlushUSample, Ask,
     AskNothing, AnswerCreated, AnswerMerged, AnswerReads, FileAnswer, CloseInquiry,
     WatchReads, WatchWrites, StopWatching, PromoteReads, PromoteJudges, PromoteInstalls,
     PromoteClears, RevertParameters, SettingsChange, TimePasses, Restarts, parameters
<1>4. inForce' \in Trials /\ watched' \in Trials
  BY <1>1, <1>3 DEF SettingsTyped
<1>5. rules' \in 0..MaxRules
  <2>1. rules' = rules \/ (rules < MaxRules /\ rules' = rules + 1)
    BY DEF EvidenceNext, MatchingStep, VisitStep, SyncOpens, SyncPrunes, SamplerStarts, DecideAlone, DecideHeld, ReferenceLabel, DecideOne, FlushUSample, Ask,
       AskNothing, AnswerCreated, AnswerMerged, AnswerReads, FileAnswer, CloseInquiry,
       WatchReads, WatchWrites, StopWatching, PromoteReads, PromoteJudges, PromoteInstalls,
       PromoteClears, RevertParameters, SettingsChange, TimePasses, Restarts, parameters
  <2> QED  BY <2>1, BoundsAssumption DEF SettingsTyped
<1>6. losses' \in 0..MaxLosses
  <2>1. losses' = losses \/ (losses < MaxLosses /\ losses' = losses + 1)
    BY DEF EvidenceNext, MatchingStep, VisitStep, SyncOpens, SyncPrunes, SamplerStarts, DecideAlone, DecideHeld, ReferenceLabel, DecideOne, Add, FlushUSample, Ask,
       AskNothing, AnswerCreated, AnswerMerged, AnswerReads, FileAnswer, CloseInquiry,
       WatchReads, WatchWrites, StopWatching, PromoteReads, PromoteJudges, PromoteInstalls,
       PromoteClears, RevertParameters, SettingsChange, TimePasses, Restarts, Loses
  <2> QED  BY <2>1, BoundsAssumption DEF SettingsTyped
<1>7. dated' \in [Payments -> {"ahead", "near", "past", "old"}]
  <2>1. dated' = dated \/ \E p \in Payments : dated' = [dated EXCEPT ![p] = Later(@)]
    BY DEF EvidenceNext, MatchingStep, VisitStep, SyncOpens, SyncPrunes, SamplerStarts, DecideAlone, DecideHeld, ReferenceLabel, DecideOne, FlushUSample, Ask,
       AskNothing, AnswerCreated, AnswerMerged, AnswerReads, FileAnswer, CloseInquiry,
       WatchReads, WatchWrites, StopWatching, PromoteReads, PromoteJudges, PromoteInstalls,
       PromoteClears, RevertParameters, SettingsChange, TimePasses, Restarts
  <2>2. \A d : Later(d) \in {"ahead", "near", "past", "old"}
    BY DEF Later
  <2> QED  BY <2>1, <2>2 DEF SettingsTyped
<1>8. sample' \in [0..MaxRules -> 0..MaxSample]
  <2>1. \/ sample' = sample
        \/ PruneLevelObservations
        \/ sample[rules] < MaxSample /\ sample' = [sample EXCEPT ![rules] = @ + 1]
    BY DEF EvidenceNext, MatchingStep, VisitStep, SyncOpens, SyncPrunes, SamplerStarts, DecideAlone, DecideHeld, ReferenceLabel, DecideOne, FlushUSample, Ask,
       AskNothing, AnswerCreated, AnswerMerged, AnswerReads, FileAnswer, CloseInquiry,
       WatchReads, WatchWrites, StopWatching, PromoteReads, PromoteJudges, PromoteInstalls,
       PromoteClears, RevertParameters, SettingsChange, TimePasses, Restarts
  <2> QED  BY <2>1, BoundsAssumption DEF SettingsTyped, PruneLevelObservations
<1> QED  BY <1>2, <1>4, <1>5, <1>6, <1>7, <1>8 DEF SettingsTyped

\* What a run finds is what it is about to record.
LEMMA FindsTyped ==
    ASSUME Shape, RecordsTyped, EvidenceNext
    PROVE  \A f \in matching'.found : f.about \in DecisionIds
<1>1. ASSUME matching'.found \subseteq matching.found
      PROVE  \A f \in matching'.found : f.about \in DecisionIds
  BY <1>1 DEF RecordsTyped
<1>2. CASE matching' = matching \/ RunEnds
  <2>1. matching'.found \subseteq matching.found
    BY <1>2 DEF RunEnds, NoRun, Shape, RunShape
  <2> QED  BY <1>1, <2>1
<1>3. CASE SyncOpens \/ SyncPrunes \/ SamplerStarts \/ FlushUSample
  <2>1. matching'.found = matching.found
    <3>1. CASE SyncOpens \/ SyncPrunes
      BY <3>1 DEF SyncOpens, SyncPrunes, Goes, Shape, RunShape
    <3>2. CASE SamplerStarts
      BY <3>2 DEF SamplerStarts, Shape, RunShape
    <3>3. CASE FlushUSample
      BY <3>3 DEF FlushUSample, NoRun
    <3> QED  BY <1>3, <3>1, <3>2, <3>3
  <2> QED  BY <1>1, <2>1
<1>4. ASSUME NEW p \in Payments, NEW t, NEW found, DecideOne(p, t, found),
             found \in {matching.found, Consider(p)}
      PROVE  \A f \in matching'.found : f.about \in DecisionIds
  <2>1. matching'.found = found /\ nextDecision \in DecisionIds
    BY <1>4 DEF DecideOne, Shape, RunShape
  <2>2. \A f \in Consider(p) : f \in matching.found \/ f.about = nextDecision
    BY DEF Consider
  <2> QED  BY <1>4, <2>1, <2>2 DEF RecordsTyped
<1>5. CASE MatchingStep
  BY <1>2, <1>3, <1>4, <1>5
  DEF MatchingStep, DecideAlone, DecideHeld, ReferenceLabel, Ask, AskNothing
<1>6. CASE VisitStep \/ (\E p \in Payments : TimePasses(p)) \/ Restarts
  <2>1. matching' = matching \/ RunEnds
    BY <1>6 DEF VisitStep, AnswerCreated, AnswerMerged, AnswerReads, FileAnswer, CloseInquiry,
       WatchReads, WatchWrites, StopWatching, PromoteReads, PromoteJudges, PromoteInstalls,
       PromoteClears, RevertParameters, SettingsChange, TimePasses, Restarts
  <2> QED  BY <1>2, <2>1
<1> QED  BY <1>5, <1>6 DEF EvidenceNext

\* A label takes levels from a comparison within the bound.
LEMMA LabelTyped ==
    ASSUME EvidenceInv, RecordsTyped, NEW i \in Nat, NEW t \in Truths, NEW pair \in Pairs,
           NEW told \in Comparisons, Labelling(i, t, pair, told),
           UNCHANGED <<nextDecision, losses>>
    PROVE  \A d \in decisions' : d.pair \in Pairs
<1>1. pair \in Comparisons
  BY BoundsAssumption DEF Pairs, Comparisons, DecisionIds
<1> QED  BY <1>1, Relabelled DEF EvidenceInv, RecordsTyped

\* Every record has the levels of a comparison within the bound.
LEMMA LevelsTyped ==
    ASSUME Shape, EvidenceInv, RecordsTyped, EvidenceNext
    PROVE  \A d \in decisions' : d.pair \in Pairs
<1> DEFINE Goal == \A d \in decisions' : d.pair \in Pairs
<1> USE DEF EvidenceInv
<1>1. CASE decisions' = decisions
  BY <1>1 DEF RecordsTyped
<1>2. CASE SyncOpens
  BY <1>2, Pruned DEF SyncOpens, RecordsTyped
<1>3. ASSUME NEW p \in Payments, NEW t, NEW found, DecideOne(p, t, found)
      PROVE  Goal
  <2>1. nextDecision \in DecisionIds /\ Row(p, t).pair = <<nextDecision, "best">>
    BY <1>3 DEF DecideOne, Row
  <2>2. Row(p, t).pair \in Pairs
    BY <2>1 DEF Pairs
  <2> HIDE DEF Row
  <2> QED  BY <1>3, <2>2 DEF DecideOne, Add, RecordsTyped
<1>4. /\ "yes" \in Truths /\ "no" \in Truths
      /\ \A p \in Payments, c \in {"best", "other"} :
            awaiting[p] # 0 => <<awaiting[p], c>> \in Pairs /\ <<awaiting[p], c>> \in Comparisons
  <2>1. "yes" \in Truths /\ "no" \in Truths
    BY Zenon DEF Truths
  <2>2. \A p \in Payments : awaiting[p] # 0 => awaiting[p] \in DecisionIds /\ awaiting[p] \in Nat
    BY BoundsAssumption DEF RecordsTyped, DecisionIds
  <2> QED  BY <2>1, <2>2 DEF Pairs, Comparisons
<1>5. ASSUME NEW p \in Payments, AnswerCreated(p) PROVE Goal
  <2>1. CASE Latest(p) = 0
    BY <1>1, <1>5, <2>1 DEF AnswerCreated
  <2>2. CASE Latest(p) # 0
    <3>1. Labelling(Latest(p), "no", PairOf(Latest(p)), <<awaiting[p], "best">>)
      BY <1>5, <2>2 DEF AnswerCreated
    <3>2. awaiting[p] # 0 /\ UNCHANGED <<nextDecision, losses>>
      BY <1>5 DEF AnswerCreated
    <3>3. PICK d \in decisions : d.id = Latest(p)
      BY <2>2, <3>2, HeldRecord
    <3>4. PairOf(Latest(p)) \in Pairs /\ Latest(p) \in Nat
      BY <3>3, PairIs, LatestRecord DEF RecordsTyped
    <3> HIDE DEF Latest, PairOf
    <3> QED  BY <1>4, <3>1, <3>2, <3>4, LabelTyped
  <2> QED  BY <2>1, <2>2
<1>6. ASSUME NEW p \in Payments, AnswerMerged(p) PROVE Goal
  <2>1. CASE Latest(p) = 0
    BY <1>1, <1>6, <2>1 DEF AnswerMerged
  <2>2. CASE Latest(p) # 0
    <3>1. PICK c \in {"best", "other"} :
              Labelling(Latest(p), "yes", <<awaiting[p], c>>, <<awaiting[p], c>>)
      BY <1>6, <2>2 DEF AnswerMerged, Resolved
    <3>2. awaiting[p] # 0 /\ UNCHANGED <<nextDecision, losses>>
      BY <1>6 DEF AnswerMerged
    <3>3. Latest(p) \in Nat
      BY LatestRecord
    <3> HIDE DEF Latest
    <3> QED  BY <1>4, <3>1, <3>2, <3>3, LabelTyped
  <2> QED  BY <2>1, <2>2
<1>7. ASSUME NEW v \in Visitors, FileAnswer(v) PROVE Goal
  <2> DEFINE q == visit[v].question
             i == FiledAt(q)
  <2>1. CASE ~Recorded(i)
    BY <1>1, <1>7, <2>1 DEF FileAnswer
  <2>2. CASE Recorded(i)
    <3>1. Labelling(i, visit[v].answer, PairOf(i), <<q.about, "best">>)
      BY <1>7, <2>2 DEF FileAnswer
    <3>2. /\ UNCHANGED <<nextDecision, losses>>
          /\ GoodQuestion(q) /\ visit[v].answer \in Truths
      BY <1>7 DEF FileAnswer, VisitAt, QuestionInv
    <3>3. <<q.about, "best">> \in Comparisons
      BY <3>2 DEF Comparisons, GoodQuestion
    <3>4. PICK d \in decisions : d.id = i
      BY <2>2 DEF Recorded
    <3>5. PairOf(i) \in Pairs /\ i \in Nat
      BY <3>4, PairIs DEF RecordsTyped, LogTyped, LogRows
    <3> HIDE DEF i, q
    <3> QED  BY <3>1, <3>2, <3>3, <3>5, LabelTyped
  <2> QED  BY <2>1, <2>2
<1>8. CASE MatchingStep
  BY <1>1, <1>2, <1>3, <1>8
  DEF MatchingStep, DecideAlone, DecideHeld, ReferenceLabel, SyncPrunes, SamplerStarts, FlushUSample, Ask, AskNothing, evidence
<1>9. CASE VisitStep
  BY <1>1, <1>5, <1>6, <1>7, <1>9
  DEF VisitStep, AnswerReads, CloseInquiry, WatchReads, WatchWrites, StopWatching,
      PromoteReads, PromoteJudges, PromoteInstalls, PromoteClears, RevertParameters,
      SettingsChange, evidence
<1> QED  BY <1>1, <1>8, <1>9 DEF EvidenceNext, TimePasses, Restarts, evidence

\* Every step keeps records, questions and finds within the bounds.
LEMMA RecordsStep ==
    ASSUME Shape, EvidenceInv, RecordsTyped, EvidenceNext
    PROVE  RecordsTyped'
<1>1. \A d \in decisions' : d.pair \in Pairs
  BY LevelsTyped
<1>2. \A f \in matching'.found : f.about \in DecisionIds
  BY FindsTyped
<1>3. MaxDecisions \in Nat /\ MaxQuestions \in Nat
  BY BoundsAssumption
<1>4. nextDecision' \in 1..(MaxDecisions + 1)
  <2>1. \/ nextDecision' = nextDecision
        \/ nextDecision \in DecisionIds /\ nextDecision' = nextDecision + 1
    BY DEF EvidenceNext, MatchingStep, VisitStep, SyncOpens, SyncPrunes, SamplerStarts, DecideAlone, DecideHeld, ReferenceLabel, DecideOne, FlushUSample, Ask,
       AskNothing, AnswerCreated, AnswerMerged, AnswerReads, FileAnswer, CloseInquiry,
       WatchReads, WatchWrites, StopWatching, PromoteReads, PromoteJudges, PromoteInstalls,
       PromoteClears, RevertParameters, SettingsChange, TimePasses, Restarts, evidence
  <2> QED  BY <1>3, <2>1 DEF RecordsTyped, DecisionIds
<1>5. awaiting' \in [Payments -> 0..MaxDecisions]
  <2>1. \/ awaiting' = awaiting
        \/ PruneMatchReviews
        \/ \E p \in Payments : Struck(p)
        \/ \E p \in Payments : /\ awaiting' = [awaiting EXCEPT ![p] = nextDecision]
                               /\ nextDecision \in DecisionIds
    BY DEF EvidenceNext, MatchingStep, VisitStep, SyncOpens, SyncPrunes, SamplerStarts, DecideAlone, DecideHeld, ReferenceLabel, DecideOne, FlushUSample, Ask,
       AskNothing, AnswerCreated, AnswerMerged, AnswerReads, FileAnswer, CloseInquiry,
       WatchReads, WatchWrites, StopWatching, PromoteReads, PromoteJudges, PromoteInstalls,
       PromoteClears, RevertParameters, SettingsChange, TimePasses, Restarts
  <2>2. DecisionIds \subseteq 0..MaxDecisions /\ 0 \in 0..MaxDecisions
    BY <1>3 DEF DecisionIds
  <2> QED  BY <2>1, <2>2 DEF RecordsTyped, PruneMatchReviews, Struck
<1>6. /\ nextQuestion' \in Nat \ {0}
      /\ \A q \in questions' : q.id \in 1..(nextQuestion' - 1) /\ q.decision \in 0..MaxDecisions
  <2>1. CASE questions' \subseteq questions /\ nextQuestion' = nextQuestion
    BY <2>1 DEF RecordsTyped
  <2>2. CASE Ask
    <3>1. PICK f \in matching.found : questions' = questions \cup {Question(f)}
      BY <2>2 DEF Ask
    <3>2. nextQuestion' = nextQuestion + 1
      BY <2>2 DEF Ask
    <3>3. f.of \in Payments
      BY DEF EvidenceInv, FoundInv, Finds
    <3>4. Latest(f.of) \in 0..MaxDecisions
      <4>1. \A d \in decisions : d.id \in 0..MaxDecisions
        BY <1>3 DEF EvidenceInv, LogTyped, LogRows, RecordsTyped
      <4>2. /\ Latest(f.of) \in Nat
            /\ Latest(f.of) = 0 \/ \E d \in decisions : d.id = Latest(f.of)
        BY <3>3, LatestRecord DEF EvidenceInv
      <4> HIDE DEF Latest
      <4> QED  BY <1>3, <4>1, <4>2
    <3>5. Question(f).id = nextQuestion /\ Question(f).decision = Latest(f.of)
      BY DEF Question, Pinned
    <3> HIDE DEF Latest, Question
    <3>6. nextQuestion \in Nat \ {0}
          /\ \A q \in questions : q.id \in 1..(nextQuestion - 1) /\ q.decision \in 0..MaxDecisions
      BY DEF RecordsTyped
    <3> QED  BY <3>1, <3>2, <3>4, <3>5, <3>6
  <2>3. Ask \/ (questions' \subseteq questions /\ nextQuestion' = nextQuestion)
    BY DEF EvidenceNext, MatchingStep, VisitStep, SyncOpens, SyncPrunes, SamplerStarts, DecideAlone, DecideHeld, ReferenceLabel, DecideOne, FlushUSample,
       AskNothing, AnswerCreated, AnswerMerged, AnswerReads, FileAnswer, CloseInquiry,
       WatchReads, WatchWrites, StopWatching, PromoteReads, PromoteJudges, PromoteInstalls,
       PromoteClears, RevertParameters, SettingsChange, TimePasses, Restarts, inquiry,
       PruneMatchInquiries
  <2> QED  BY <2>1, <2>2, <2>3
<1> QED  BY <1>1, <1>2, <1>4, <1>5, <1>6 DEF RecordsTyped

\* Form and contents of the log hold together.
LEMMA LogStep == LogInv /\ [EvidenceNext]_evidenceVars => LogInv'
<1> SUFFICES ASSUME LogInv, [EvidenceNext]_evidenceVars PROVE LogInv'
  OBVIOUS
<1>1. Shape' /\ EvidenceInv'
  BY ShapeStep, EvidenceStep DEF LogInv
<1>2. CASE EvidenceNext
  BY <1>1, <1>2, RecordsStep, SettingsStep DEF LogInv
<1>3. CASE UNCHANGED evidenceVars
  BY <1>1, <1>3 DEF LogInv, RecordsTyped, SettingsTyped, evidenceVars, evidence, inquiry,
     parameters
<1> QED  BY <1>2, <1>3

\* What holds of the log has the form the stores give it.
LEMMA LogForm == LogInv => EvidenceTypeOK
<1> SUFFICES ASSUME LogInv PROVE EvidenceTypeOK
  OBVIOUS
<1>1. \A d \in decisions :
          /\ d.id \in 1..(nextDecision - 1) /\ d.of \in Payments
          /\ d.pair \in Pairs /\ d.truth \in Truths /\ d.named \in BOOLEAN
  BY DEF LogInv, EvidenceInv, LogTyped, LogRows, RecordsTyped
<1>2. Truths = {"", "yes", "no"}
  BY DEF Truths
<1>3. Cardinality(questions) <= 1
  <2>1. CASE questions = {}
    BY <2>1, FS_EmptySet
  <2>2. CASE questions # {}
    <3>1. PICK q : questions = {q}
      BY <2>2 DEF LogInv, EvidenceInv, QuestionInv
    <3> QED  BY <3>1, FS_Singleton
  <2> QED  BY <2>1, <2>2
<1>4. \A f \in matching.found : f.of \in Payments /\ f.about \in DecisionIds
  BY DEF LogInv, EvidenceInv, FoundInv, Finds, RecordsTyped
<1>5. \A q \in questions : q.id \in 1..(nextQuestion - 1) /\ q.decision \in 0..MaxDecisions
  BY DEF LogInv, RecordsTyped
<1>6. awaiting \in [Payments -> 0..MaxDecisions]
  BY DEF LogInv, RecordsTyped
<1>7. /\ dated \in [Payments -> {"ahead", "near", "past", "old"}]
      /\ {inForce, watched} \subseteq Trials
      /\ rules \in 0..MaxRules /\ losses \in 0..MaxLosses
  BY DEF LogInv, SettingsTyped
<1>8. \A d \in decisions :
          /\ d.id \in 1..(nextDecision - 1) /\ d.of \in Payments
          /\ d.pair \in Pairs /\ d.truth \in {"", "yes", "no"} /\ d.named \in BOOLEAN
  BY <1>1, <1>2, Zenon
<1> QED  BY <1>3, <1>4, <1>5, <1>6, <1>7, <1>8, Zenon DEF EvidenceTypeOK

\* Log, labels, questions and parameters keep the form the stores give them, one
\* open question included (Store.OpenInquiry).
THEOREM EvidenceTypeCorrect == EvidenceSpec => []EvidenceTypeOK
<1>1. EvidenceInit => LogInv
  BY ShapeInit, EvidenceInvInit, LogInit DEF LogInv
<1> QED  BY <1>1, LogStep, LogForm, PTL DEF EvidenceSpec

\* Side by side both models keep their types.
THEOREM TypesCorrect == MCSpec => []TypesOK
<1> DEFINE Both == TwinInv /\ LogInv
<1>1. MCInit => Both
  BY TwinInit, ShapeInit, EvidenceInvInit, LogInit DEF MCInit, LogInv
<1>2. Both /\ [MCNext]_mcVars => Both'
  <2>1. [MCNext]_mcVars => [Next]_vars /\ [EvidenceNext]_evidenceVars
    BY DEF MCNext, TwinsPart, EvidencePart, mcVars
  <2> QED  BY <2>1, TwinStep, LogStep
<1>3. Both => TypesOK
  BY LogForm DEF TypesOK, TwinInv
<1> QED  BY <1>1, <1>2, <1>3, PTL DEF MCSpec
=============================================================================
