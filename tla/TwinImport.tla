----------------------------- MODULE TwinImport -----------------------------
(***************************************************************************)
(* Purchases the bank gives no reference and nothing tells apart: the same *)
(* shop, the same amount, days close together.  bankingsync recognises     *)
(* them by position (importKeys, txnIdentities of src/main.go), remembers  *)
(* which rows stand for what (pending_map, booked_rows and                 *)
(* booking_identities, src/state.go), and leaves the rest to the matcher   *)
(* (ReconcileBatch, Assess, Solve of src/budget).                          *)
(*                                                                         *)
(* The bank moves between runs only: a run works on one feed, and what the *)
(* bank books during it is dated no earlier than the watermark it leaves.  *)
(* Deadlines, several accounts and the resume point are in ImportRun, what *)
(* a person answers to a held purchase is in ReviewQueue.  A held          *)
(* authorisation, which the matcher also offers to a booking of another    *)
(* key as a provisional candidate, is not offered here.                    *)
(***************************************************************************)
EXTENDS Integers, FiniteSets, FiniteSetsExt, Functions

CONSTANTS
    Purchases,     \* numbers: the order in which the bank lists them
    BatchSize,     \* assignBatchSize
    MaxRows,       \* bound: rows of the budget
    TypedRows,     \* rows the user has typed ahead of the import
    MaxDay,        \* bound: the last day of a behaviour
    MaxFaults,     \* bound: failed batches, crashes, and days listed in another order
    MaxLoad,       \* bound: purchases reported, failed batches and crashes
    Prior          \* sixths of a bit: what a choice among n candidates costs, 6 log2(n)

ASSUME ConstantsAssumption ==
    /\ Purchases \subseteq Nat /\ IsFiniteSet(Purchases)
    /\ BatchSize \in Nat \ {0}
    /\ {MaxRows, TypedRows, MaxDay, MaxFaults, MaxLoad} \subseteq Nat
    /\ MaxDay # 0 /\ TypedRows <= MaxRows

\* Which of them is meant costs less than a match is worth: up to 287 candidates.
ASSUME PriorAssumption == Prior \in [1..MaxRows -> 0..49]

Days  == 1..MaxDay
Rows  == 1..MaxRows
Index == 1..Cardinality(Purchases)
Keys  == Days \X Index                \* importKeys without a reference
Identities == Days \X Days \X Index   \* txnIdentities: the record, then its turn

VARIABLES
    \* The bank, and the calendar.
    today, bank, day, bookDay,
    \* The budget: the rows there are, the day each carries, the cleared ones.
    rows, rowDay, cleared,
    \* State: pending_map and booking_identities by row (0 when there is none),
    \* booked_rows with the key consumed (<<>> when none was), held keys.
    pend, identity, booked, held,
    \* last_sync_date, and the run under way.
    watermark, pc, feed, from, rank, todo, work, claimed, out, failed,
    \* History: bookings a run that concluded has been through, faults so far,
    \* whether one left an entry of pending_map on a row already settled, how
    \* many left a row in booked_rows without its booking in booking_identities,
    \* and whether a booking known by its identity was skipped under a held key.
    delivered, faults, torn, cuts, masked

bankVars   == <<today, bank, day, bookDay>>
budgetVars == <<rows, rowDay, cleared>>
stateVars  == <<pend, identity, booked, held>>
runVars    == <<feed, from, rank, todo, work, claimed, out, failed>>
history    == <<delivered, faults, torn, cuts, masked>>
vars == <<bankVars, budgetVars, stateVars, watermark, pc, runVars, history>>

Stable    == [p \in Purchases |-> p]
NoOutcome == [p \in Purchases |-> [as |-> "none", row |-> 0]]
NoBooking == <<0, 0>>
Unkeyed   == <<0, 1>>

TypeOK ==
    /\ today \in Days
    /\ bank \in [Purchases -> {"none", "pending", "booked", "withdrawn"}]
    /\ day \in [Purchases -> 0..MaxDay] /\ bookDay \in [Purchases -> 0..MaxDay]
    /\ rows \subseteq Rows /\ rowDay \in [Rows -> 0..MaxDay] /\ cleared \subseteq rows
    /\ pend \in [Keys -> Rows \cup {0}]
    /\ identity \in [Identities -> Rows \cup {0}]
    /\ booked \in [Rows -> Keys \cup {NoBooking, Unkeyed}]
    /\ held \subseteq Keys
    /\ watermark \in Days
    /\ pc \in {"idle", "import", "settle"}
    /\ feed \subseteq Purchases /\ from \in Days /\ rank \in [Purchases -> Purchases]
    /\ todo \subseteq feed /\ work \subseteq feed /\ claimed \subseteq Rows
    /\ out \in [Purchases -> [as : {"none", "created", "adopted", "held"},
                              row : Rows \cup {0}]]
    /\ failed \in BOOLEAN
    /\ delivered \subseteq Purchases /\ faults \in 0..MaxFaults
    /\ torn \in BOOLEAN /\ cuts \in 0..faults /\ masked \in BOOLEAN

Reported == {p \in Purchases : bank[p] # "none"}
RoomLeft == Cardinality(Reported) + faults < MaxLoad
Disturbed == faults < MaxFaults /\ faults' = faults + 1
Fault == RoomLeft /\ Disturbed

-----------------------------------------------------------------------------
(* The bank.                                                               *)

BankMoves == pc = "idle"
             /\ UNCHANGED <<budgetVars, stateVars, watermark, pc, runVars, history>>

\* The date a transaction carries is the day of the purchase.
BankAuthorises(p) ==
    /\ BankMoves /\ bank[p] = "none" /\ RoomLeft
    /\ bank' = [bank EXCEPT ![p] = "pending"]
    /\ day' = [day EXCEPT ![p] = today]
    /\ UNCHANGED <<today, bookDay>>

BankBooks(p) ==
    /\ BankMoves /\ bank[p] \in {"none", "pending"}
    /\ bank[p] = "pending" \/ RoomLeft
    /\ bank' = [bank EXCEPT ![p] = "booked"]
    /\ bookDay' = [bookDay EXCEPT ![p] = today]
    /\ \E d \in Days : /\ d <= today /\ (bank[p] = "pending" => d = day[p])
                       /\ day' = [day EXCEPT ![p] = d]
    /\ UNCHANGED today

BankWithdraws(p) ==
    /\ BankMoves /\ bank[p] = "pending"
    /\ bank' = [bank EXCEPT ![p] = "withdrawn"]
    /\ UNCHANGED <<today, day, bookDay>>

Tick == BankMoves /\ today < MaxDay /\ today' = today + 1 /\ UNCHANGED <<bank, day, bookDay>>

-----------------------------------------------------------------------------
(* The feed and the identities in it.                                      *)

\* An authorisation not settled yet keeps the window open to its day.
DateFrom == Min({watermark} \cup {k[1] : k \in {j \in Keys : pend[j] # 0}})
Reach(p) == IF bank[p] = "booked" THEN bookDay[p] ELSE day[p]
Listed == {p \in Reported : Reach(p) >= DateFrom}

Pending(p)   == bank[p] = "pending"
Booked(p)    == bank[p] = "booked"
Withdrawn(p) == bank[p] = "withdrawn"

\* lessTxn: by day, an authorisation first, then as the bank lists them.
Phase(p) == IF Booked(p) THEN 1 ELSE 0
Precedes(p, q, order) ==
    \/ day[p] < day[q]
    \/ day[p] = day[q] /\ Phase(p) < Phase(q)
    \/ day[p] = day[q] /\ Phase(p) = Phase(q) /\ order[p] <= order[q]
IsFirst(p, S) == p \in S /\ \A q \in S : Precedes(p, q, rank)

\* The turn of p among those of its status that share its fields.
KeyIn(p, among, order) ==
    <<day[p], Cardinality({q \in among : /\ bank[q] = bank[p] /\ day[q] = day[p]
                                         /\ Precedes(q, p, order)})>>
Key(p) == KeyIn(p, {q \in feed : ~Withdrawn(q)}, rank)
Identity(p) ==
    <<bookDay[p], day[p],
      Cardinality({q \in feed : /\ Booked(q) /\ bookDay[q] = bookDay[p]
                                /\ day[q] = day[p] /\ Precedes(q, p, rank)})>>
ListedPending == {Key(p) : p \in {q \in feed : Pending(q)}}

-----------------------------------------------------------------------------
(* The run.                                                                *)

\* releaseWithdrawn numbers the withdrawn among themselves, and leaves a key
\* alone that something still listed answers to.
Released(seen, order) ==
    LET live == {p \in seen : ~Withdrawn(p)}
        gone == seen \ live
    IN {KeyIn(p, gone, order) : p \in gone} \ {KeyIn(p, live, order) : p \in live}

Fetch(order) ==
    /\ pc = "idle"
    /\ IF order = Stable THEN UNCHANGED faults ELSE Disturbed
    /\ rank' = order
    /\ feed' = Listed /\ from' = DateFrom
    /\ todo' = {p \in Listed : ~Withdrawn(p)}
    /\ pend' = [k \in Keys |-> IF k \in Released(Listed, order) THEN 0 ELSE pend[k]]
    /\ pc' = "import"
    /\ UNCHANGED <<bankVars, budgetVars, identity, booked, held, watermark, work, claimed,
                   out, failed, delivered, torn, cuts, masked>>

AtItem(p) == pc = "import" /\ Cardinality(work) < BatchSize /\ IsFirst(p, todo)
Next1(p) == todo' = todo \ {p}

Consumed(k) == \E r \in Rows : booked[r] = k
Known(p) == Booked(p) /\ identity[Identity(p)] # 0

\* Waiting for a decision, or the booking of this authorisation is in.
SkipItem(p) ==
    /\ AtItem(p)
    /\ Key(p) \in held \/ (Pending(p) /\ Consumed(Key(p)))
    /\ Next1(p)
    /\ masked' = (masked \/ Known(p))
    /\ UNCHANGED <<bankVars, budgetVars, stateVars, watermark, pc, feed, from, rank, work,
                   claimed, out, failed, delivered, faults, torn, cuts>>

SeenUnclaimed(p) ==
    LET row == IF Pending(p) THEN pend[Key(p)] ELSE identity[Identity(p)] IN
    /\ AtItem(p) /\ Key(p) \notin held
    /\ ~(Pending(p) /\ Consumed(Key(p))) /\ row # 0
    /\ Next1(p)
    /\ UNCHANGED <<bankVars, budgetVars, stateVars, watermark, pc, feed, from, rank, work, claimed,
                   out, failed, history>>

\* Imported by an earlier run: its row is taken, whatever else is looked for.
SeenItem(p) ==
    LET row == IF Pending(p) THEN pend[Key(p)] ELSE identity[Identity(p)] IN
    /\ AtItem(p) /\ Key(p) \notin held
    /\ ~(Pending(p) /\ Consumed(Key(p))) /\ row # 0
    /\ claimed' = claimed \cup {row}
    /\ Next1(p)
    /\ UNCHANGED <<bankVars, budgetVars, stateVars, watermark, pc, feed, from, rank, work, out,
                   failed, history>>

\* The pending map answers for a booking unless the bank still lists an
\* authorisation under the same key.
Confirms(p) == /\ Booked(p) /\ ~Known(p) /\ Key(p) \notin held
               /\ pend[Key(p)] # 0 /\ Key(p) \notin ListedPending

\* The row is settled in place, then consumePending, then the identity.
Confirm(p) ==
    LET row == pend[Key(p)] IN
    /\ AtItem(p) /\ Confirms(p)
    /\ cleared' = cleared \cup {row}
    /\ pend' = [pend EXCEPT ![Key(p)] = 0]
    /\ booked' = [booked EXCEPT ![row] = Key(p)]
    /\ identity' = [identity EXCEPT ![Identity(p)] = row]
    /\ claimed' = claimed \cup {row}
    /\ Next1(p)
    /\ UNCHANGED <<bankVars, rows, rowDay, held, watermark, pc, feed, from, rank, work,
                   out, failed, history>>

\* The process dies after the row, the entry, or both.
EndRun == /\ pc' = "idle" /\ feed' = {} /\ todo' = {} /\ work' = {} /\ claimed' = {}
          /\ out' = NoOutcome /\ failed' = FALSE /\ rank' = Stable /\ from' = 1

CrashConfirming(p) ==
    LET row == pend[Key(p)] IN
    /\ AtItem(p) /\ Confirms(p)
    /\ Fault
    /\ cleared' = cleared \cup {row}
    /\ \/ UNCHANGED <<pend, booked, cuts>>
       \/ pend' = [pend EXCEPT ![Key(p)] = 0] /\ UNCHANGED <<booked, cuts>>
       \/ pend' = [pend EXCEPT ![Key(p)] = 0]
          /\ booked' = [booked EXCEPT ![row] = Key(p)] /\ cuts' = cuts + 1
    /\ EndRun
    /\ UNCHANGED <<bankVars, rows, rowDay, identity, held, watermark, delivered, torn,
                   masked>>

QueueItem(p) ==
    /\ AtItem(p) /\ Key(p) \notin held
    /\ IF Pending(p) THEN ~Consumed(Key(p)) /\ pend[Key(p)] = 0
                     ELSE ~Known(p) /\ ~Confirms(p)
    /\ Next1(p)
    /\ work' = work \cup {p}
    /\ UNCHANGED <<bankVars, budgetVars, stateVars, watermark, pc, feed, from, rank, claimed,
                   out, failed, history>>

-----------------------------------------------------------------------------
(* The matcher.                                                            *)

\* A booked row whose every record is behind the run's window stands for
\* nothing the feed could deliver again.
Records(r) == {i \in Identities : identity[i] = r}
Sealed(r, p) == /\ Records(r) # {} /\ Identity(p) \notin Records(r)
                /\ \A i \in Records(r) : i[1] < from

\* Hard rules: not claimed in this run; an authorisation never takes a booked
\* row, nor a booking a sealed one.
OpenOnly(p) == {r \in rows \ (claimed \cup cleared) :
    /\ Pending(p) => booked[r] = NoBooking
    /\ Booked(p)  => ~Sealed(r, p)}
Candidates(p) == {r \in rows \ claimed :
    /\ Pending(p) => booked[r] = NoBooking
    /\ Booked(p)  => ~Sealed(r, p)}

\* Sixths of a bit: payee and amount agree exactly, the day exactly or
\* nearly, and the prior is spread over the candidates.
Weight(p, r) == (IF rowDay[r] = day[p] THEN 60 ELSE 55) - Prior[Cardinality(Candidates(p))]
MarginUnits == 6

\* One-to-one arrangements of a batch; 0 leaves a transaction unpaired.
Arrangements ==
    {f \in [work -> rows \cup {0}] :
        /\ \A p \in work : f[p] \in Candidates(p) \cup {0}
        /\ \A p, q \in work : p # q /\ f[p] # 0 => f[p] # f[q]}
Evidence(f) == MapThenSumSet(LAMBDA p : IF f[p] = 0 THEN 0 ELSE Weight(p, f[p]), DOMAIN f)
BestOf(F) == Max({Evidence(f) : f \in F})

\* Rows that would leave the same budget.
Interchangeable(r, q) == rowDay[r] = rowDay[q] /\ (r \in cleared <=> q \in cleared)
Without(p, r) == {f \in Arrangements : f[p] = 0 \/ ~Interchangeable(f[p], r)}

\* The batch loses less than the margin when p may not have its row.
Doubtful(p, f) == /\ f[p] # 0
                  /\ Evidence(f) - BestOf(Without(p, f[p])) < MarginUnits

-----------------------------------------------------------------------------
(* flushWork: the batch is written, then each transaction settled in turn. *)

\* HoldForReview is always on.
Decided(p, f) == IF f[p] = 0 THEN "created" ELSE IF Doubtful(p, f) THEN "held" ELSE "adopted"

\* New rows are numbered after the ones there are.
RowFor(p, f) ==
    IF f[p] # 0 THEN f[p]
    ELSE Cardinality(rows) + Cardinality({q \in work : f[q] = 0 /\ Precedes(q, p, rank)})

\* An adopted row keeps its day, and a booking clears the row it lands on.
Write(done, f) ==
    LET new == {p \in done : f[p] = 0}
        settled == {p \in done : Booked(p) /\ Decided(p, f) # "held"}
    IN /\ rows' = rows \cup {RowFor(p, f) : p \in new}
       /\ rows' \subseteq Rows
       /\ rowDay' = [r \in Rows |-> IF \E p \in new : RowFor(p, f) = r
                                    THEN day[CHOOSE p \in new : RowFor(p, f) = r]
                                    ELSE rowDay[r]]
       /\ cleared' = cleared \cup {RowFor(p, f) : p \in settled}

FlushDue == /\ pc = "import" /\ work # {}
            /\ Cardinality(work) = BatchSize \/ todo = {}

\* An arrangement with the most evidence; which of several equal ones is the
\* solver's affair.
Best(f) == Evidence(f) = BestOf(Arrangements)

Flush ==
    /\ FlushDue
    /\ \E f \in Arrangements :
           /\ Best(f)
           /\ Write(work, f)
           /\ out' = [p \in Purchases |-> IF p \in work
                                          THEN [as |-> Decided(p, f), row |-> RowFor(p, f)]
                                          ELSE out[p]]
    /\ pc' = "settle"
    /\ UNCHANGED <<bankVars, stateVars, watermark, feed, from, rank, todo, work, claimed,
                   failed, history>>

\* The backend refuses a write: what came before it in the batch stays, and
\* nothing of the batch is remembered.
FlushFails ==
    /\ FlushDue
    /\ Fault
    /\ \E f \in Arrangements, last \in work :
           Best(f) /\ Write({p \in work : p # last /\ Precedes(p, last, rank)}, f)
    /\ work' = {} /\ failed' = TRUE
    /\ UNCHANGED <<bankVars, stateVars, watermark, pc, feed, from, rank, todo, claimed, out,
                   delivered, torn, cuts, masked>>

NoEntries(r) == {}
Entries(r) == {k \in Keys : pend[k] = r}
MarkBooked(r) == IF booked[r] = NoBooking THEN [booked EXCEPT ![r] = Unkeyed] ELSE booked

AtSettle(p) == pc = "settle" /\ IsFirst(p, work)
Settled(p) == /\ work' = work \ {p}
              /\ pc' = IF work = {p} THEN "import" ELSE "settle"

SettlePending(p) ==
    /\ AtSettle(p) /\ Pending(p) /\ out[p].as \in {"created", "adopted"}
    /\ pend' = IF out[p].as = "created" THEN [pend EXCEPT ![Key(p)] = out[p].row] ELSE pend
    /\ claimed' = claimed \cup {out[p].row}
    /\ Settled(p)
    /\ UNCHANGED <<bankVars, budgetVars, identity, booked, held, watermark, feed, from, rank, todo,
                   out, failed, history>>

\* The identity first, then the entry that waited for this row.
SettleBooked(p) ==
    LET r == out[p].row IN
    /\ AtSettle(p) /\ Booked(p) /\ out[p].as \in {"created", "adopted"}
    /\ identity' = [identity EXCEPT ![Identity(p)] = r]
    /\ \/ /\ out[p].as = "created" \/ Entries(r) = {}
          /\ booked' = MarkBooked(r)
          /\ UNCHANGED pend
       \/ /\ out[p].as = "adopted"
          /\ \E k \in Entries(r) : /\ pend' = [pend EXCEPT ![k] = 0]
                                   /\ booked' = [booked EXCEPT ![r] = k]
    /\ claimed' = claimed \cup {r}
    /\ Settled(p)
    /\ UNCHANGED <<bankVars, budgetVars, held, watermark, feed, from, rank, todo, out, failed,
                   history>>

\* The process dies after the identity, or after the entry as well.
CrashSettling(p) ==
    LET r == out[p].row IN
    /\ AtSettle(p) /\ Booked(p) /\ out[p].as \in {"created", "adopted"}
    /\ Fault
    /\ identity' = [identity EXCEPT ![Identity(p)] = r]
    /\ \/ UNCHANGED pend /\ torn' = (torn \/ Entries(r) # {})
       \/ /\ out[p].as = "adopted"
          /\ \E k \in Entries(r) : pend' = [pend EXCEPT ![k] = 0]
          /\ UNCHANGED torn
    /\ EndRun
    /\ UNCHANGED <<bankVars, budgetVars, booked, held, watermark, delivered, cuts, masked>>

Hold(p) ==
    /\ AtSettle(p) /\ out[p].as = "held"
    /\ held' = held \cup {Key(p)}
    /\ Settled(p)
    /\ UNCHANGED <<bankVars, budgetVars, pend, identity, booked, watermark, feed, from, rank, todo,
                   claimed, out, failed, history>>

\* The process dies between two steps.
Crash ==
    /\ pc # "idle"
    /\ Fault
    /\ EndRun
    /\ UNCHANGED <<bankVars, budgetVars, stateVars, watermark, delivered, torn, cuts, masked>>

\* The watermark moves unless a write failed.
Conclude ==
    /\ pc = "import" /\ todo = {} /\ work = {}
    /\ IF failed THEN UNCHANGED <<watermark, delivered>>
       ELSE /\ watermark' = today
            /\ delivered' = delivered \cup {p \in feed : Booked(p)}
    /\ EndRun
    /\ UNCHANGED <<bankVars, budgetVars, stateVars, faults, torn, cuts, masked>>

-----------------------------------------------------------------------------
Init ==
    /\ today = 1 /\ bank = [p \in Purchases |-> "none"]
    /\ day = [p \in Purchases |-> 0] /\ bookDay = [p \in Purchases |-> 0]
    /\ rows = 1..TypedRows /\ cleared = {}
    /\ rowDay \in {f \in [Rows -> Days \cup {0}] : \A r \in Rows : f[r] # 0 <=> r \in rows}
    /\ pend = [k \in Keys |-> 0] /\ identity = [i \in Identities |-> 0]
    /\ booked = [r \in Rows |-> NoBooking] /\ held = {}
    /\ watermark = 1 /\ pc = "idle"
    /\ feed = {} /\ from = 1 /\ rank = Stable /\ todo = {} /\ work = {} /\ claimed = {}
    /\ out = NoOutcome /\ failed = FALSE
    /\ delivered = {} /\ faults = 0 /\ torn = FALSE /\ cuts = 0 /\ masked = FALSE

BankStep == \/ \E p \in Purchases : BankAuthorises(p) \/ BankBooks(p) \/ BankWithdraws(p)
            \/ Tick
Orders == {o \in [Purchases -> Purchases] : IsInjective(o)}
RunStep == \/ \E order \in Orders : Fetch(order)
           \/ \E p \in Purchases : \/ SkipItem(p) \/ SeenItem(p) \/ Confirm(p) \/ QueueItem(p)
                                   \/ SettlePending(p) \/ SettleBooked(p) \/ Hold(p)
           \/ Flush \/ Conclude
FaultStep == \/ FlushFails \/ Crash
             \/ \E p \in Purchases : CrashConfirming(p) \/ CrashSettling(p)
Next == BankStep \/ RunStep \/ FaultStep
Spec == Init /\ [][Next]_vars
-----------------------------------------------------------------------------
(* What recognition by position promises.                                  *)

AtRest == pc = "idle"

\* Purchases that look alike never end in one row, which would lose one of
\* them: what is recorded has a settled row of its own, and what a run that moves
\* the watermark has been through is recorded or waits for an answer (the claimed
\* rows of a run, Sealed, the pending map's yield to a listed authorisation).
SettledApart == ~torn /\ ~masked =>
    /\ \A i, j \in Identities : identity[i] # 0 /\ identity[i] = identity[j] => i = j
    /\ \A i \in Identities : identity[i] # 0 => identity[i] \in cleared
    /\ (pc = "import" /\ todo = {} /\ work = {} /\ ~failed) =>
           \A p \in feed : Booked(p) => Known(p) \/ Key(p) \in held

\* Rows never outnumber the purchases, whatever was retried, released, listed
\* in another order or renumbered since: what a lost record makes look new is
\* recognised by the matcher.  A death between booked_rows and the identity may
\* cost a row, as no authorisation will take the one it left.
NoSurplus == Cardinality(rows) <= TypedRows + Cardinality(Reported) + cuts

\* No entry of pending_map is left on a row a booking has settled, neither by
\* booked_rows nor by booking_identities: the booking of a twin would be
\* confirmed onto that row (consumePending, recordIdentity, settle).
NoSecondSettlement == AtRest /\ ~torn =>
    \A k \in Keys : pend[k] # 0 => booked[pend[k]] = NoBooking /\ Records(pend[k]) = {}

\* importKeys, of the position in its key: "stable across runs as long as the
\* bank returns a day's rows in a stable order ... a broken assumption produces
\* a visible duplicate rather than a silent loss".
NeverSilent == AtRest /\ faults = 0 =>
    Cardinality(delivered) <= Cardinality(cleared) + Cardinality(held)
=============================================================================
