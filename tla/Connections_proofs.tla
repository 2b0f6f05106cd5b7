------------------------- MODULE Connections_proofs -------------------------
(***************************************************************************)
(* Theorems about Connections, for all accounts, banks, identifiers and    *)
(* requests and any number of authorisations and faults: an id is used     *)
(* once, a mark means that the row's own session ended, renewals decided   *)
(* by identifiers keep a row with its account, an authorisation ends on    *)
(* one row and does what it was started for, and a start date goes only by *)
(* a sync that used it.                                                    *)
(***************************************************************************)
EXTENDS Connections, TLAPS

-----------------------------------------------------------------------------
(* The inductive invariant, part by part.                                  *)

Slots == [Ids -> Rows \cup {NoRow}]

\* What a request and a sync carry.
Tickets == [at : Stages, flow : Flows, id : 0..MaxIds, entries : SUBSET Offered,
            sure : SUBSET Certain]
Passes == [at : Phases, todo : SUBSET Ids, snapshot : [Ids -> Seen \cup {Nothing}],
           synced : SUBSET Ids]

Types ==
    /\ accounts \in Slots
    /\ sequence \in 0..MaxIds /\ booked \subseteq Ids
    /\ renewId \in 0..MaxIds /\ offerRenews \in 0..MaxIds
    /\ offer \subseteq Offered
    /\ req \in [Requests -> Tickets]
    /\ \A r \in Requests : req[r].at = "renew" => req[r].id \in Ids
    /\ sync \in Passes
    /\ asked \in Seq(Banks)

-----------------------------------------------------------------------------
(* Rows.                                                                   *)

\* Which slots hold a row shows.
LEMMA PresentRows ==
  ASSUME NEW row \in Rows \cup {NoRow}
  PROVE  row.present \in BOOLEAN /\ (row.present => row \in Rows) /\ (~row.present => row = NoRow)
<1>1. ASSUME row \in Rows PROVE row.present = TRUE
  BY <1>1 DEF Rows
<1>2. ASSUME row = NoRow PROVE row.present = FALSE
  BY <1>2 DEF NoRow
<1>3. CASE row \in Rows
  BY <1>1, <1>3
<1>4. CASE row = NoRow
  BY <1>2, <1>4
<1> QED
  BY <1>3, <1>4

\* Every identifier is one of those the session may give.
LEMMA EntryTypes ==
  ASSUME NEW a \in Real, NEW f \in Flows, NEW what
  PROVE  Entry(a, f, what) \in Offered
  BY DEF Entry, Offered, Uid, Identifiers

\* Identifiers that are filled in are identifiers.
LEMMA FilledTypes ==
  ASSUME NEW old \in Identifiers, NEW new \in Identifiers
  PROVE  /\ Filled(old, new) \in Identifiers
         /\ \A n \in {"hash", "iban", "currency"} : Filled(old, new)[n] \in {old[n], new[n]}
  BY DEF Filled, Identifiers, Given

\* Row i is renewed to e, if it is there, and no other row changes.
WrittenBy(i, e, s) ==
    /\ \A j \in Ids : (Present(j)' <=> Present(j))
    /\ \A j \in Ids \ {i} : accounts'[j] = accounts[j]
    /\ Present(i) =>
         /\ accounts'[i].uid = e.uid
         /\ accounts'[i].ids = Filled(accounts[i].ids, e.ids)
         /\ accounts'[i].ended = FALSE
         /\ accounts'[i].origin = accounts[i].origin
         /\ accounts'[i].start = accounts[i].start
         /\ accounts'[i].sure = accounts[i].sure \cap s

\* A renewal changes one row, if it is there: UID, identifiers, mark and what
\* it rests on.
LEMMA RenewedWrites ==
  ASSUME accounts \in Slots, NEW i \in Ids, NEW e \in Offered, NEW s \in SUBSET Certain,
         accounts' = IF Present(i) THEN Renewed(i, e, s) ELSE accounts
  PROVE  accounts' \in Slots /\ WrittenBy(i, e, s)
<1>1. CASE Present(i)
  <2>1. accounts[i] \in Rows
    BY <1>1, PresentRows DEF Slots, Present
  <2>2. e.uid \in Uid /\ e.ids \in Identifiers
    BY DEF Offered
  <2> DEFINE ids == Filled(accounts[i].ids, e.ids)
  <2> DEFINE sure == accounts[i].sure \cap s
  <2>3. ids \in Identifiers /\ sure \in SUBSET Certain
    BY <2>1, <2>2, FilledTypes DEF Rows
  <2>4. accounts' = [accounts EXCEPT ![i].uid = e.uid, ![i].ids = ids,
                                     ![i].ended = FALSE, ![i].sure = sure]
    BY <1>1, <2>1 DEF Renewed, Slots, Rows
  <2> HIDE DEF ids, sure
  <2> DEFINE row == [present |-> TRUE, uid |-> e.uid, ids |-> ids, ended |-> FALSE,
                     start |-> accounts[i].start, origin |-> accounts[i].origin, sure |-> sure]
  <2>5. accounts' = [accounts EXCEPT ![i] = row]
    BY <2>1, <2>4 DEF Slots, Rows
  <2>6. row \in Rows
    BY <2>1, <2>2, <2>3 DEF Rows
  <2>7. /\ row.present /\ row.uid = e.uid /\ row.ids = ids /\ row.ended = FALSE
        /\ row.origin = accounts[i].origin /\ row.start = accounts[i].start
        /\ row.sure = sure
    OBVIOUS
  <2> HIDE DEF row
  <2>8. /\ accounts' \in Slots /\ accounts'[i] = row
        /\ \A j \in Ids \ {i} : accounts'[j] = accounts[j]
    BY <2>5, <2>6 DEF Slots
  <2>9. \A j \in Ids : Present(j)' <=> Present(j)
    BY <1>1, <2>7, <2>8 DEF Present
  <2> QED
    BY <2>7, <2>8, <2>9 DEF WrittenBy, ids, sure
<1>2. CASE ~Present(i)
  BY <1>2 DEF Present, WrittenBy
<1> QED
  BY <1>1, <1>2

\* A new row.
LEMMA AddedRow ==
  ASSUME accounts \in Slots, NEW i \in Ids, NEW e \in Offered, NEW d \in StartDates
  PROVE  /\ Added(e, i, d) \in Slots
         /\ \A j \in Ids \ {i} : Added(e, i, d)[j] = accounts[j]
         /\ Added(e, i, d)[i].present
         /\ Added(e, i, d)[i].uid = e.uid
         /\ Added(e, i, d)[i].ids = e.ids
         /\ Added(e, i, d)[i].ended = FALSE
         /\ Added(e, i, d)[i].origin = e.uid.real
         /\ Added(e, i, d)[i].sure = Certain
<1>1. e.uid \in Uid /\ e.ids \in Identifiers /\ e.uid.real \in Real
  BY DEF Offered, Uid
<1>2. [present |-> TRUE, uid |-> e.uid, ids |-> e.ids, ended |-> FALSE,
       start |-> d, origin |-> e.uid.real, sure |-> Certain] \in Rows
  BY <1>1 DEF Rows
<1> QED
  BY <1>2 DEF Added, Slots

\* A row whose start date changes keeps all else.
LEMMA StartedRow ==
  ASSUME accounts \in Slots, NEW i \in Ids, Present(i), NEW d \in StartDates \cup {0}
  PROVE  LET row == [accounts[i] EXCEPT !.start = d] IN
         /\ row \in Rows /\ row.present
         /\ row.uid = accounts[i].uid /\ row.ids = accounts[i].ids
         /\ row.ended = accounts[i].ended
         /\ row.origin = accounts[i].origin /\ row.sure = accounts[i].sure
<1>1. accounts[i] \in Rows
  BY PresentRows DEF Slots, Present
<1> QED
  BY <1>1 DEF Rows

\* A row that is marked stays a row.
LEMMA MarkedRow ==
  ASSUME accounts \in Slots, NEW i \in Ids, Present(i)
  PROVE  LET row == [accounts[i] EXCEPT !.ended = TRUE] IN
         /\ row \in Rows /\ row.present
         /\ row.uid = accounts[i].uid /\ row.ids = accounts[i].ids
         /\ row.origin = accounts[i].origin /\ row.sure = accounts[i].sure
<1>1. accounts[i] \in Rows
  BY PresentRows DEF Slots, Present
<1> QED
  BY <1>1 DEF Rows

-----------------------------------------------------------------------------
(* Types.                                                                  *)

\* Nobody at work.
LEMMA IdleTypes ==
  /\ Idle \in Tickets /\ Idle.at = "idle" /\ Idle.id = 0 /\ Idle.entries = {}
  /\ AtRest \in Passes /\ AtRest.todo = {} /\ AtRest.synced = {}
<1>1. Idle \in Tickets
  BY ConnectionsAssumption DEF Idle, Tickets, Stages, Flows, Certain
<1>2. Nothing \in Seen \cup {Nothing} /\ AtRest \in Passes
  BY DEF AtRest, Passes, Phases
<1> QED
  BY <1>1, <1>2 DEF Idle, AtRest

\* The rows, the requests and the sync are well formed at first.
LEMMA TypesInit == ConnInit => Types
<1> SUFFICES ASSUME ConnInit PROVE Types
  OBVIOUS
<1>1. PICK what \in Reveals : accounts = [i \in Ids |-> IF i # 1 THEN NoRow ELSE
              [present |-> TRUE, uid |-> [real |-> Home, flow |-> 0],
               ids |-> Entry(Home, 0, what).ids, ended |-> FALSE, start |-> 0,
               origin |-> Home, sure |-> Certain]]
  BY DEF ConnInit
<1>2. Home \in Real /\ 0 \in Flows /\ Entry(Home, 0, what) \in Offered
  BY EntryTypes, ConnectionsAssumption DEF Flows
<1>3. [present |-> TRUE, uid |-> [real |-> Home, flow |-> 0],
       ids |-> Entry(Home, 0, what).ids, ended |-> FALSE, start |-> 0,
       origin |-> Home, sure |-> Certain] \in Rows
  BY <1>2 DEF Rows, Uid, Offered
<1>4. accounts \in Slots
  BY <1>1, <1>3 DEF Slots
<1>5. 1 \in Ids /\ 1 \in 0..MaxIds /\ 0 \in 0..MaxIds
  BY ConnectionsAssumption DEF Ids
<1> QED
  BY <1>4, <1>5, IdleTypes DEF ConnInit, Types

\* What the write of a renewal leaves.
LEMMA WriteTypes ==
  ASSUME Types, NEW r \in Requests, req[r].id \in Ids, WriteRenewal(r)
  PROVE  accounts' \in Slots
<1>1. PICK e \in req[r].entries :
         accounts' = IF Present(req[r].id) THEN Renewed(req[r].id, e, req[r].sure) ELSE accounts
  BY DEF WriteRenewal
<1>2. e \in Offered /\ req[r].sure \in SUBSET Certain
  BY DEF Types, Tickets
<1> QED
  BY <1>1, <1>2, RenewedWrites DEF Types

\* A request that goes on keeps its form.
LEMMA TicketMoves ==
  ASSUME NEW t \in Tickets, NEW stage \in Stages
  PROVE  /\ [t EXCEPT !.at = stage] \in Tickets
         /\ [t EXCEPT !.at = stage].at = stage /\ [t EXCEPT !.at = stage].id = t.id
         /\ [t EXCEPT !.at = stage].entries = t.entries
         /\ [t EXCEPT !.at = stage].sure = t.sure
  BY DEF Tickets

\* An authorisation that is started.
LEMMA StartTypes ==
  ASSUME Types, NEW r \in Requests, NEW bank \in Banks, NEW id \in 0..MaxIds,
         Start(r, bank, id)
  PROVE  /\ asked' \in Seq(Banks)
         /\ req' \in [Requests -> Tickets]
         /\ req'[r].at = "start" /\ req'[r].entries = {}
         /\ \A q \in Requests \ {r} : req'[q] = req[q]
<1> DEFINE ticket == [Idle EXCEPT !.at = "start", !.flow = NextFlow, !.id = id]
<1>1. NextFlow \in Flows
  BY ConnectionsAssumption DEF Start, NextFlow, Flows, Types
<1>2. ticket \in Tickets /\ ticket.at = "start" /\ ticket.entries = {}
  BY <1>1, IdleTypes DEF Tickets, Stages
<1>3. req' = [req EXCEPT ![r] = ticket] /\ asked' = Append(asked, bank)
  BY DEF Start
<1> HIDE DEF ticket
<1>4. asked' \in Seq(Banks)
  BY <1>3 DEF Types
<1> QED
  BY <1>2, <1>3, <1>4 DEF Types

\* Where an authorisation goes that the bank has granted: to the row it renews,
\* to the picker, or nowhere when that row is gone.
Granted(f, S, what) ==
    LET entries == {Entry(a, f, what) : a \in S} IN
    IF renewId # 0 /\ ~Present(renewId) THEN Idle
    ELSE IF renewId # 0 /\ Matched(accounts[renewId], entries)
    THEN [at |-> "renew", flow |-> f, id |-> renewId,
          entries |-> Matching(accounts[renewId], entries),
          sure |-> Sure(accounts[renewId], entries)]
    ELSE [at |-> "store", flow |-> f, id |-> renewId, entries |-> entries, sure |-> {}]

\* What is granted has the form of a request.
LEMMA GrantedTypes ==
  ASSUME Types, NEW f \in Flows, NEW S \in SUBSET Real, NEW what \in Reveals
  PROVE  /\ Granted(f, S, what) \in Tickets
         /\ Granted(f, S, what).at = "renew" => Granted(f, S, what).id \in Ids
         /\ Granted(f, S, what).at \in {"idle", "renew", "store"}
         /\ Granted(f, S, what).id \in {0, renewId}
<1> DEFINE entries == {Entry(a, f, what) : a \in S}
<1>1. entries \subseteq Offered
  BY EntryTypes
<1>2. \A row : Matching(row, entries) \subseteq entries
  BY DEF Matching
<1> DEFINE match == Matching(accounts[renewId], entries)
<1> DEFINE sure == Sure(accounts[renewId], entries)
<1>3. sure \in SUBSET Certain
  BY DEF Sure, Certain
<1>4. match \subseteq Offered
  BY <1>1, <1>2
<1>5. renewId \in 0..MaxIds /\ (renewId # 0 => renewId \in Ids)
  BY DEF Types, Ids
<1> HIDE DEF match, sure, entries
<1>6. CASE renewId # 0 /\ ~Present(renewId)
  <2>1. Granted(f, S, what) = Idle
    BY <1>6 DEF Granted
  <2> QED
    BY <2>1, IdleTypes
<1>7. CASE ~(renewId # 0 /\ ~Present(renewId)) /\ renewId # 0 /\ Matched(accounts[renewId], entries)
  <2>1. Granted(f, S, what) = [at |-> "renew", flow |-> f, id |-> renewId,
                               entries |-> match, sure |-> sure]
    BY <1>7 DEF Granted, match, sure, entries
  <2> QED
    <3>1. [at |-> "renew", flow |-> f, id |-> renewId, entries |-> match,
           sure |-> sure] \in Tickets
      BY <1>3, <1>4, <1>5 DEF Tickets, Stages
    <3> QED
      BY <2>1, <3>1, <1>5, <1>7
<1>8. CASE ~(renewId # 0 /\ ~Present(renewId)) /\ ~(renewId # 0 /\ Matched(accounts[renewId], entries))
  <2>1. Granted(f, S, what) = [at |-> "store", flow |-> f, id |-> renewId,
                               entries |-> entries, sure |-> {}]
    BY <1>8 DEF Granted, entries
  <2> QED
    BY <2>1, <1>1 DEF Tickets, Stages, Types
<1> QED
  BY <1>6, <1>7, <1>8

\* The request after the bank's answer.
LEMMA FinishGrants ==
  ASSUME Types, NEW r \in Requests, FinishAuth(r)
  PROVE  \E S \in SUBSET Real, what \in Reveals :
            req' = [req EXCEPT ![r] = Granted(req[r].flow, S, what)]
<1>1. PICK S \in (SUBSET {a \in Real : BankOf[a] = asked[req[r].flow]}) \ {{}}, what \in Reveals :
         req' = [req EXCEPT ![r] = Granted(req[r].flow, S, what)]
  BY Zenon DEF FinishAuth, Granted
<1> QED
  BY <1>1

\* Every step keeps rows, requests and sync well formed.
LEMMA TypesStep == Types /\ [ConnNext]_connVars => Types'
<1> SUFFICES ASSUME Types, [ConnNext]_connVars PROVE Types'
  OBVIOUS
<1> USE ConnectionsAssumption, IdleTypes
    DEF Types, connVars, bankSide, table, pending, picker, flowHistory, syncHistory
<1>1. ASSUME NEW r \in Requests, NEW b \in Banks, Connect(r, b) PROVE Types'
  <2>1. 0 \in 0..MaxIds /\ Start(r, b, 0)
    BY <1>1 DEF Connect
  <2> QED
    BY ZenonT(30), <1>1, <2>1, StartTypes DEF Connect, Start
<1>2. ASSUME NEW r \in Requests, NEW i \in Ids, StartRenewal(r, i) PROVE Types'
  <2>1. accounts[i].uid.real \in Real /\ i \in 0..MaxIds
    <3>1. accounts[i] \in Rows
      BY <1>2, PresentRows DEF StartRenewal, Slots, Present
    <3>2. accounts[i].uid \in Uid
      BY <3>1 DEF Rows
    <3> QED
      BY <3>2 DEF Uid, Ids
  <2>2. BankOf[accounts[i].uid.real] \in Banks
    BY <2>1 DEF Banks
  <2>3. Start(r, BankOf[accounts[i].uid.real], i) /\ renewId' = i
    BY <1>2 DEF StartRenewal
  <2> QED
    <3>1. /\ asked' \in Seq(Banks)
          /\ req' \in [Requests -> Tickets] /\ req'[r].at = "start"
          /\ \A q \in Requests \ {r} : req'[q] = req[q]
      BY <2>1, <2>2, <2>3, StartTypes
    <3>2. UNCHANGED <<accounts, sequence, booked, offerRenews, offer, sync>>
      BY <2>3 DEF Start
    <3> QED
      BY <2>1, <2>3, <3>1, <3>2
<1>3. ASSUME NEW r \in Requests, NEW f \in Flows, Callback(r, f) PROVE Types'
  <2> DEFINE ticket == [Idle EXCEPT !.at = "complete", !.flow = f]
  <2>1. ticket \in Tickets /\ ticket.at = "complete"
    BY DEF Tickets, Stages
  <2>2. req' = [req EXCEPT ![r] = ticket]
    BY <1>3 DEF Callback
  <2> HIDE DEF ticket
  <2> QED
    BY <1>3, <2>1, <2>2 DEF Callback
<1>4. ASSUME NEW r \in Requests, StartAnswered(r) PROVE Types'
  BY <1>4 DEF StartAnswered
<1>5. ASSUME NEW r \in Requests, StartRefused(r) PROVE Types'
  BY <1>5 DEF StartRefused
<1>6. ASSUME NEW r \in Requests, CallbackFails(r) PROVE Types'
  BY <1>6 DEF CallbackFails
<1>7. ASSUME NEW r \in Requests, FinishAuth(r) PROVE Types'
  <2>1. req[r].flow \in Flows
    BY DEF Tickets
  <2>2. PICK S \in SUBSET Real, what \in Reveals :
           req' = [req EXCEPT ![r] = Granted(req[r].flow, S, what)]
    BY <1>7, FinishGrants
  <2>3. /\ UNCHANGED <<accounts, sequence, booked, offerRenews, offer, sync, asked>>
        /\ renewId' = 0
    BY <1>7 DEF FinishAuth, PendingCleared
  <2> QED
    BY <2>1, <2>2, <2>3, GrantedTypes
<1>8. ASSUME NEW r \in Requests, RenewRow(r) PROVE Types'
  <2>1. accounts' \in Slots
    BY <1>8, WriteTypes DEF RenewRow
  <2> QED
    BY <1>8, <2>1 DEF RenewRow
<1>9. ASSUME NEW r \in Requests, StoreRenews(r) PROVE Types'
  <2>1. [req[r] EXCEPT !.at = "offer"] \in Tickets /\ [req[r] EXCEPT !.at = "offer"].at = "offer"
    BY ZenonT(30), TicketMoves DEF Stages
  <2>2. req' = [req EXCEPT ![r] = [req[r] EXCEPT !.at = "offer"]]
    BY <1>9 DEF StoreRenews
  <2>3. req[r].id \in 0..MaxIds
    BY DEF Tickets
  <2> QED
    BY <1>9, <2>1, <2>2, <2>3 DEF StoreRenews
<1>10. ASSUME NEW r \in Requests, StoreOffer(r) PROVE Types'
  BY <1>10 DEF StoreOffer, Tickets
<1>11. ASSUME NEW r \in Requests, Pick(r) PROVE Types'
  BY <1>11 DEF Pick, Tickets, Stages, Offered, Uid
<1>12. ASSUME NEW r \in Requests, PickRenews(r) PROVE Types'
  <2>1. req[r].id \in Ids
    BY <1>12 DEF PickRenews, Tickets, Ids
  <2>2. accounts' \in Slots
    BY <1>12, <2>1, WriteTypes DEF PickRenews
  <2>3. [req[r] EXCEPT !.at = "clear"] \in Tickets /\ [req[r] EXCEPT !.at = "clear"].at = "clear"
    BY ZenonT(30), TicketMoves DEF Stages
  <2>4. req' = [req EXCEPT ![r] = IF Present(req[r].id) THEN [req[r] EXCEPT !.at = "clear"]
                                  ELSE Idle]
    BY <1>12 DEF PickRenews
  <2> QED
    BY <1>12, <2>2, <2>3, <2>4 DEF PickRenews
<1>13. ASSUME NEW r \in Requests, PickAdds(r) PROVE Types'
  <2>1. NextId \in Ids /\ req[r].entries \subseteq Offered
    BY <1>13 DEF PickAdds, NextId, Ids, Tickets
  <2>2. accounts' \in Slots
    <3>1. PICK e \in req[r].entries, d \in StartDates : accounts' = Added(e, NextId, d)
      BY <1>13 DEF PickAdds
    <3> QED
      BY <2>1, <3>1, AddedRow
  <2>3. [req[r] EXCEPT !.at = "clear"] \in Tickets /\ [req[r] EXCEPT !.at = "clear"].at = "clear"
    BY ZenonT(30), TicketMoves DEF Stages
  <2>4. req' = [req EXCEPT ![r] = [req[r] EXCEPT !.at = "clear"]] /\ sequence' \in 0..MaxIds
    BY <1>13, <2>1 DEF PickAdds, Ids
  <2> QED
    BY <1>13, <2>2, <2>3, <2>4 DEF PickAdds
<1>14. ASSUME NEW r \in Requests, PickClears(r) PROVE Types'
  BY <1>14 DEF PickClears, OfferCleared
<1>15. ASSUME NEW r \in Requests, PickClearFails(r) PROVE Types'
  BY <1>15 DEF PickClearFails
<1>16. CASE SyncStarts
  <2>1. ASSUME NEW i \in Ids
        PROVE  (IF Present(i) THEN [uid |-> accounts[i].uid, ended |-> accounts[i].ended,
                                    start |-> accounts[i].start]
                ELSE Nothing) \in Seen \cup {Nothing}
    BY PresentRows DEF Present, Slots, Rows, Seen
  <2>2. RowIds \in SUBSET Ids
    BY DEF RowIds
  <2>3. sync' \in Passes
    BY <1>16, <2>1, <2>2 DEF SyncStarts, Passes, Phases
  <2> QED
    BY <1>16, <2>3 DEF SyncStarts
<1>17. ASSUME NEW i \in Ids, SkipEnded(i) PROVE Types'
  BY <1>17 DEF SkipEnded, Done, Passes
<1>18. ASSUME NEW i \in Ids, FetchAccount(i) PROVE Types'
  <2>1. sync' \in Passes
    BY <1>18 DEF FetchAccount, Done, Passes
  <2> QED
    BY <1>18, <2>1 DEF FetchAccount
<1>19. ASSUME NEW i \in Ids, SessionEnded(i) PROVE Types'
  <2>1. accounts' \in Slots
    BY <1>19, MarkedRow DEF SessionEnded, MarkEnded, Slots
  <2> QED
    BY <1>19, <2>1 DEF SessionEnded, Done, Passes
<1>20. ASSUME NEW i \in Ids, FetchError(i) PROVE Types'
  BY <1>20 DEF FetchError, Done, Passes
<1>21. ASSUME NEW i \in Ids, ImportStops(i) PROVE Types'
  <2>1. accounts' \in Slots
    BY <1>21, StartedRow DEF ImportStops, Slots
  <2>2. sync' \in Passes
    BY <1>21 DEF ImportStops, Done, Passes
  <2> QED
    BY <1>21, <2>1, <2>2 DEF ImportStops
<1>22. CASE Commits
  <2>1. Backfilled \subseteq Ids
    BY DEF Backfilled, Passes
  <2>2. sync' \in Passes
    BY <1>22, <2>1 DEF Commits, Passes, Phases
  <2> QED
    BY <1>22, <2>2 DEF Commits
<1>23. ASSUME NEW i \in Ids, ClearStart(i) PROVE Types'
  <2>1. accounts' \in Slots
    BY <1>23, StartedRow DEF ClearStart, Slots
  <2>2. sync' \in Passes
    BY <1>23 DEF ClearStart, Done, Passes
  <2> QED
    BY <1>23, <2>1, <2>2 DEF ClearStart
<1>24. ASSUME NEW i \in Ids, ClearFails(i) PROVE Types'
  BY <1>24 DEF ClearFails, Done, Passes
<1>25. CASE SyncEnds
  BY <1>25 DEF SyncEnds
<1>26. CASE SyncFails
  BY <1>26 DEF SyncFails
<1>27. CASE ProcessDies
  BY <1>27 DEF ProcessDies
<1>28. ASSUME NEW i \in Ids, RemoveAccount(i) PROVE Types'
  BY <1>28 DEF RemoveAccount, Slots
<1>29. ASSUME NEW i \in Ids, ResetSync(i) PROVE Types'
  BY <1>29, StartedRow DEF ResetSync, Slots
<1>30. ASSUME NEW f \in Flows, BankEnds(f) PROVE Types'
  BY <1>30 DEF BankEnds
<1>31. CASE UNCHANGED connVars
  BY <1>31
<1> QED
  BY <1>1, <1>2, <1>3, <1>4, <1>5, <1>6, <1>7, <1>8, <1>9, <1>10, <1>11, <1>12, <1>13,
     <1>14, <1>15, <1>16, <1>17, <1>18, <1>19, <1>20, <1>21, <1>22, <1>23, <1>24, <1>25,
     <1>26, <1>27, <1>28, <1>29, <1>30, <1>31
  DEF ConnNext, RequestStep, SyncStep, AccountTurn, DateTurn

-----------------------------------------------------------------------------
(* What steps do to the rows.                                              *)

\* A row that keeps its session and its identity.
Kept(j) ==
    /\ (Present(j)' <=> Present(j))
    /\ Present(j) =>
         /\ accounts'[j].uid = accounts[j].uid /\ accounts'[j].ids = accounts[j].ids
         /\ accounts'[j].origin = accounts[j].origin
         /\ accounts'[j].sure = accounts[j].sure

\* A renewal writes the row of the request, if it is there, and no other.
LEMMA WriteRows ==
  ASSUME Types, NEW r \in Requests, req[r].id \in Ids, WriteRenewal(r)
  PROVE  \E e \in req[r].entries : WrittenBy(req[r].id, e, req[r].sure)
<1>1. PICK e \in req[r].entries :
         accounts' = IF Present(req[r].id) THEN Renewed(req[r].id, e, req[r].sure) ELSE accounts
  BY DEF WriteRenewal
<1>2. e \in Offered /\ accounts \in Slots /\ req[r].sure \in SUBSET Certain
  BY DEF Types, Tickets
<1>3. WrittenBy(req[r].id, e, req[r].sure)
  BY <1>1, <1>2, RenewedWrites
<1> QED
  BY <1>3

\* A new row is the only one that changes.
LEMMA AddRows ==
  ASSUME Types, NEW r \in Requests, PickAdds(r)
  PROVE  /\ NextId \in Ids /\ sequence' = NextId
         /\ \A j \in Ids \ {NextId} : accounts'[j] = accounts[j]
         /\ \E e \in req[r].entries :
               /\ accounts'[NextId].present
               /\ accounts'[NextId].uid = e.uid /\ accounts'[NextId].ids = e.ids
               /\ accounts'[NextId].ended = FALSE
               /\ accounts'[NextId].origin = e.uid.real
<1>1. NextId \in Ids /\ req[r].entries \subseteq Offered /\ accounts \in Slots
  BY DEF PickAdds, NextId, Ids, Types, Tickets
<1>2. PICK e \in req[r].entries, d \in StartDates : accounts' = Added(e, NextId, d)
  BY DEF PickAdds
<1>3. /\ \A j \in Ids \ {NextId} : accounts'[j] = accounts[j]
      /\ accounts'[NextId].present
      /\ accounts'[NextId].uid = e.uid /\ accounts'[NextId].ids = e.ids
      /\ accounts'[NextId].ended = FALSE /\ accounts'[NextId].origin = e.uid.real
  BY ZenonT(30), <1>1, <1>2, AddedRow
<1>4. sequence' = NextId
  BY DEF PickAdds
<1> QED
  BY <1>1, <1>3, <1>4

\* A start date that is set, set back or taken leaves all else of the rows.
LEMMA DatedRows ==
  ASSUME Types, NEW i \in Ids, ResetSync(i) \/ ImportStops(i) \/ ClearStart(i), NEW j \in Ids
  PROVE  Kept(j) /\ (Present(j) => accounts'[j].ended = accounts[j].ended)
<1>1. CASE accounts' = accounts
  BY <1>1 DEF Kept, Present
<1>2. CASE Present(i) /\ \E d \in StartDates \cup {0} : accounts' = [accounts EXCEPT ![i].start = d]
  <2>1. PICK d \in StartDates \cup {0} : accounts' = [accounts EXCEPT ![i].start = d]
    BY <1>2
  <2>2. CASE i = j
    <3>1. accounts'[j] = [accounts[j] EXCEPT !.start = d] /\ accounts \in Slots
      BY <2>1, <2>2 DEF Types, Slots
    <3> QED
      BY <1>2, <2>2, <3>1, StartedRow DEF Kept, Present
  <2>3. CASE i # j
    BY <2>1, <2>3 DEF Kept, Present, Types, Slots
  <2> QED
    BY <2>2, <2>3
<1> QED
  BY <1>1, <1>2 DEF ResetSync, ImportStops, ClearStart

\* A mark changes one row.
LEMMA MarkRows ==
  ASSUME Types, NEW i \in Ids, MarkEnded(i), NEW j \in Ids
  PROVE  Kept(j) /\ (j # i => accounts'[j] = accounts[j])
<1>1. CASE i = j /\ Present(i)
  <2>1. accounts'[j] = [accounts[j] EXCEPT !.ended = TRUE] /\ accounts \in Slots
    BY <1>1 DEF Types, Slots, MarkEnded
  <2> QED
    BY <1>1, <2>1, MarkedRow DEF Kept, Present
<1>2. CASE ~(i = j /\ Present(i))
  BY <1>2 DEF Kept, Present, Types, Slots, MarkEnded
<1> QED
  BY <1>1, <1>2

\* A removed row is gone, the others are left.
LEMMA RemoveRows ==
  ASSUME Types, NEW i \in Ids, RemoveAccount(i), NEW j \in Ids
  PROVE  IF i = j THEN ~Present(j)' ELSE accounts'[j] = accounts[j]
  BY DEF RemoveAccount, Types, Slots, Present, NoRow

-----------------------------------------------------------------------------
(* Ids are used once.                                                      *)

\* Whoever knows an id knows one the table has given out.
IdsInv ==
    /\ \A i \in Ids : Present(i) => i <= sequence
    /\ \A i \in booked \cup sync.todo \cup sync.synced : i <= sequence
    /\ renewId <= sequence /\ offerRenews <= sequence
    /\ \A r \in Requests : req[r].id <= sequence

\* One row at first.
LEMMA IdsInit == ConnInit => IdsInv
  BY ConnectionsAssumption DEF ConnInit, IdsInv, Present, NoRow, Idle, AtRest, Ids

\* No step makes a later id known.
LEMMA IdsStep ==
  ASSUME Types, Types', IdsInv, [ConnNext]_connVars
  PROVE  IdsInv'
<1> USE ConnectionsAssumption, IdleTypes
    DEF Types, IdsInv, Tickets, Passes, Ids, connVars, bankSide, table,
        pending, picker, flowHistory, syncHistory
<1>0. 0 <= sequence
  OBVIOUS
<1>1. ASSUME NEW r \in Requests, NEW b \in Banks, Connect(r, b) PROVE IdsInv'
  BY <1>1 DEF Connect, Start, Present
<1>2. ASSUME NEW r \in Requests, NEW i \in Ids, StartRenewal(r, i) PROVE IdsInv'
  BY <1>2 DEF StartRenewal, Start, Present
<1>3. ASSUME NEW r \in Requests, NEW f \in Flows, Callback(r, f) PROVE IdsInv'
  BY <1>3 DEF Callback, Present
<1>4. ASSUME NEW r \in Requests, StartAnswered(r) PROVE IdsInv'
  BY <1>4 DEF StartAnswered, Present
<1>5. ASSUME NEW r \in Requests, StartRefused(r) PROVE IdsInv'
  BY <1>5 DEF StartRefused, Present
<1>6. ASSUME NEW r \in Requests, CallbackFails(r) PROVE IdsInv'
  BY <1>6 DEF CallbackFails, Present
<1>7. ASSUME NEW r \in Requests, FinishAuth(r) PROVE IdsInv'
  <2>1. PICK S \in SUBSET Real, what \in Reveals :
           req' = [req EXCEPT ![r] = Granted(req[r].flow, S, what)]
    BY <1>7, FinishGrants
  <2>2. Granted(req[r].flow, S, what).id \in {0, renewId}
    BY GrantedTypes
  <2>3. /\ UNCHANGED <<accounts, sequence, booked, offerRenews, sync>> /\ renewId' = 0
    BY <1>7 DEF FinishAuth, PendingCleared
  <2> QED
    BY <2>1, <2>2, <2>3 DEF Present
<1>8. ASSUME NEW r \in Requests, RenewRow(r) PROVE IdsInv'
  <2>1. \A j \in Ids : Present(j)' <=> Present(j)
    BY <1>8, WriteRows DEF RenewRow, WrittenBy
  <2> QED
    BY <1>8, <2>1 DEF RenewRow
<1>9. ASSUME NEW r \in Requests, StoreRenews(r) PROVE IdsInv'
  BY <1>9 DEF StoreRenews, Present
<1>10. ASSUME NEW r \in Requests, StoreOffer(r) PROVE IdsInv'
  <2>1. /\ \A q \in Requests : req'[q].id \in {req[q].id, 0}
        /\ UNCHANGED <<accounts, sequence, booked, renewId, offerRenews, sync>>
    BY <1>10 DEF StoreOffer
  <2>2. ASSUME NEW q \in Requests PROVE req'[q].id <= sequence
    <3>1. req[q].id <= sequence
      OBVIOUS
    <3> QED
      BY <1>0, <2>1, <3>1
  <2> QED
    BY <2>1, <2>2 DEF Present
<1>11. ASSUME NEW r \in Requests, Pick(r) PROVE IdsInv'
  BY <1>11 DEF Pick, Present
<1>12. ASSUME NEW r \in Requests, PickRenews(r) PROVE IdsInv'
  <2>0. req[r].id \in Ids /\ WriteRenewal(r)
    BY <1>12 DEF PickRenews
  <2>1. \A j \in Ids : Present(j)' <=> Present(j)
    BY <2>0, WriteRows DEF WrittenBy
  <2>2. \A q \in Requests : req'[q].id \in {req[q].id, 0}
    BY <1>12 DEF PickRenews
  <2> QED
    BY <1>12, <2>1, <2>2 DEF PickRenews
<1>13. ASSUME NEW r \in Requests, PickAdds(r) PROVE IdsInv'
  <2>1. /\ sequence' = sequence + 1
        /\ \A j \in Ids : j <= sequence \/ j = NextId \/ (Present(j)' <=> Present(j))
        /\ NextId = sequence + 1
    BY <1>13, AddRows DEF PickAdds, NextId, Present
  <2>2. \A q \in Requests : req'[q].id = req[q].id
    BY <1>13 DEF PickAdds
  <2>3. UNCHANGED <<booked, sync, renewId, offerRenews>>
    BY <1>13 DEF PickAdds
  <2> QED
    BY <2>1, <2>2, <2>3
<1>14. ASSUME NEW r \in Requests, PickClears(r) PROVE IdsInv'
  BY <1>14 DEF PickClears, OfferCleared, Present
<1>15. ASSUME NEW r \in Requests, PickClearFails(r) PROVE IdsInv'
  BY <1>15 DEF PickClearFails, Present
<1>16. CASE SyncStarts
  <2>1. sync'.todo = RowIds /\ sync'.synced = {}
    BY <1>16 DEF SyncStarts
  <2> QED
    BY <1>16, <2>1 DEF SyncStarts, RowIds, Present
<1>17. ASSUME NEW i \in Ids, SkipEnded(i) PROVE IdsInv'
  BY <1>17 DEF SkipEnded, Done, Present
<1>18. ASSUME NEW i \in Ids, FetchAccount(i) PROVE IdsInv'
  <2>1. /\ sync'.todo \subseteq sync.todo /\ i \in sync.todo
        /\ sync'.synced \subseteq sync.synced \cup {i}
    BY <1>18 DEF FetchAccount, Done, Turn
  <2>2. booked' = booked \cup {i} /\ UNCHANGED <<accounts, sequence, renewId, offerRenews, req>>
    BY <1>18 DEF FetchAccount
  <2> QED
    BY <2>1, <2>2 DEF Present
<1>19. ASSUME NEW i \in Ids, SessionEnded(i) PROVE IdsInv'
  BY <1>19, MarkRows DEF SessionEnded, MarkEnded, Done, Present
<1>20. ASSUME NEW i \in Ids, FetchError(i) PROVE IdsInv'
  BY <1>20 DEF FetchError, Done, Present
<1>21. ASSUME NEW i \in Ids, ImportStops(i) PROVE IdsInv'
  <2>1. /\ sync'.todo \subseteq sync.todo /\ i \in sync.todo /\ sync'.synced = sync.synced
        /\ booked' = booked \cup {i} /\ UNCHANGED <<sequence, renewId, offerRenews, req>>
    BY <1>21 DEF ImportStops, Done, Turn
  <2>2. \A j \in Ids : Present(j)' <=> Present(j)
    BY <1>21, DatedRows DEF Kept
  <2> QED
    BY <2>1, <2>2
<1>22. CASE Commits
  BY <1>22 DEF Commits, Backfilled, Present
<1>23. ASSUME NEW i \in Ids, ClearStart(i) PROVE IdsInv'
  <2>1. /\ sync'.todo \subseteq sync.todo /\ sync'.synced = sync.synced
        /\ UNCHANGED <<booked, sequence, renewId, offerRenews, req>>
    BY <1>23 DEF ClearStart, Done
  <2>2. \A j \in Ids : Present(j)' <=> Present(j)
    BY <1>23, DatedRows DEF Kept
  <2> QED
    BY <2>1, <2>2
<1>24. ASSUME NEW i \in Ids, ClearFails(i) PROVE IdsInv'
  BY <1>24 DEF ClearFails, Done, Present
<1>25. CASE SyncEnds
  BY <1>25 DEF SyncEnds, Present
<1>26. CASE SyncFails
  BY <1>26 DEF SyncFails, Present
<1>27. CASE ProcessDies
  <2>1. /\ sync'.todo = {} /\ sync'.synced = {} /\ \A r \in Requests : req'[r].id = 0
        /\ UNCHANGED <<accounts, sequence, booked, renewId, offerRenews>>
    BY <1>27 DEF ProcessDies
  <2> QED
    BY <2>1 DEF Present
<1>28. ASSUME NEW i \in Ids, RemoveAccount(i) PROVE IdsInv'
  BY <1>28, RemoveRows DEF RemoveAccount, Present
<1>29. ASSUME NEW i \in Ids, ResetSync(i) PROVE IdsInv'
  BY <1>29, DatedRows DEF ResetSync, Present
<1>30. ASSUME NEW f \in Flows, BankEnds(f) PROVE IdsInv'
  BY <1>30 DEF BankEnds, Present
<1>31. CASE UNCHANGED connVars
  BY <1>31 DEF Present
<1> QED
  BY <1>1, <1>2, <1>3, <1>4, <1>5, <1>6, <1>7, <1>8, <1>9, <1>10, <1>11, <1>12, <1>13,
     <1>14, <1>15, <1>16, <1>17, <1>18, <1>19, <1>20, <1>21, <1>22, <1>23, <1>24, <1>25,
     <1>26, <1>27, <1>28, <1>29, <1>30, <1>31
  DEF ConnNext, RequestStep, SyncStep, AccountTurn, DateTurn

\* Who writes rows at all.
LEMMA RowWriters ==
  ASSUME [ConnNext]_connVars
  PROVE  \/ accounts' = accounts
         \/ \E r \in Requests : RenewRow(r) \/ PickRenews(r) \/ PickAdds(r)
         \/ \E i \in Ids : \/ SessionEnded(i) \/ RemoveAccount(i)
                          \/ ResetSync(i) \/ ImportStops(i) \/ ClearStart(i)
  BY ZenonT(30) DEF ConnNext, RequestStep, SyncStep, AccountTurn, DateTurn, Connect, StartRenewal,
         Start, Callback, StartAnswered, StartRefused, CallbackFails, FinishAuth, StoreRenews,
         StoreOffer, Pick, PickClears, PickClearFails, SyncStarts, SkipEnded, FetchAccount,
         FetchError, Commits, ClearFails, SyncEnds, SyncFails, ProcessDies, BankEnds, connVars, table

\* Types and ids together are kept by every step.
LEMMA IdsHold == ConnSpec => [](Types /\ IdsInv)
  BY TypesInit, TypesStep, IdsInit, IdsStep, PTL DEF ConnSpec

\* A row that appears is a new one, under an id no bookkeeping knows.
LEMMA AppearsUnbooked ==
  ASSUME Types, IdsInv, [ConnNext]_connVars, NEW i \in Ids, ~Present(i), Present(i)'
  PROVE  i \notin booked
<1>1. CASE accounts' = accounts
  BY <1>1 DEF Present
<1>3. ASSUME NEW r \in Requests, RenewRow(r) PROVE i \notin booked
  <2>1. req[r].id \in Ids /\ WriteRenewal(r)
    BY <1>3 DEF RenewRow, Types
  <2> QED
    BY <2>1, WriteRows DEF WrittenBy
<1>4. ASSUME NEW r \in Requests, PickRenews(r) PROVE i \notin booked
  <2>1. req[r].id \in Ids /\ WriteRenewal(r)
    BY <1>4, ConnectionsAssumption DEF PickRenews, Types, Tickets, Ids
  <2> QED
    BY <2>1, WriteRows DEF WrittenBy
<1>5. ASSUME NEW r \in Requests, PickAdds(r) PROVE i \notin booked
  <2>1. \A j \in Ids \ {NextId} : accounts'[j] = accounts[j]
    BY <1>5, AddRows
  <2>2. i = sequence + 1
    BY <2>1 DEF Present, NextId
  <2> QED
    BY <2>2, ConnectionsAssumption DEF IdsInv, Types
<1>6. ASSUME NEW j \in Ids, SessionEnded(j) PROVE i \notin booked
  BY <1>6, MarkRows DEF SessionEnded, Kept
<1>7. ASSUME NEW j \in Ids, RemoveAccount(j) PROVE i \notin booked
  BY <1>7, RemoveRows DEF Present
<1>8. ASSUME NEW j \in Ids, ResetSync(j) \/ ImportStops(j) \/ ClearStart(j) PROVE i \notin booked
  BY <1>8, DatedRows DEF Kept
<1> QED
  BY <1>1, <1>3, <1>4, <1>5, <1>6, <1>7, <1>8, RowWriters

\* A new row starts without the bookkeeping of an account removed before it:
\* AUTOINCREMENT, with syncs that write for a row that is gone meanwhile.
THEOREM StartsUnbookedCorrect == ConnSpec => StartsUnbooked
<1>1. Types /\ IdsInv /\ [ConnNext]_connVars =>
        [\A i \in Ids : ~Present(i) /\ Present(i)' => i \notin booked]_connVars
  BY AppearsUnbooked
<1> QED
  BY <1>1, IdsHold, PTL DEF ConnSpec, StartsUnbooked

-----------------------------------------------------------------------------
(* Marks.                                                                  *)

\* Whatever names a session names one the bank has authorised.
SessionInv ==
    /\ \A i \in Ids : Present(i) => accounts[i].uid.flow \in authorised
    /\ \A e \in offer : e.uid.flow \in authorised
    /\ \A r \in Requests : \A e \in req[r].entries : e.uid.flow \in authorised
    /\ EndedMeansEnded

\* One row at first, of an open session.
LEMMA SessionInit == ConnInit => SessionInv
  BY ConnectionsAssumption
  DEF ConnInit, SessionInv, EndedMeansEnded, RowIds, Present, NoRow, Idle, Ids

\* What is granted names the session that was just authorised.
LEMMA GrantedFlow ==
  ASSUME NEW f, NEW S, NEW what, NEW e \in Granted(f, S, what).entries
  PROVE  e.uid.flow = f
<1> DEFINE entries == {Entry(a, f, what) : a \in S}
<1>1. \A x \in entries : x.uid.flow = f
  BY DEF Entry
<1>2. \A row : Matching(row, entries) \subseteq entries
  BY DEF Matching
<1>3. Granted(f, S, what).entries \subseteq entries
  BY <1>2, IdleTypes DEF Granted
<1> QED
  BY <1>1, <1>3

\* A mark is set by a sync that saw the session ended, and a session that is
\* opened is of no row yet.
LEMMA SessionStep ==
  ASSUME Types, IdsInv, SessionInv, [ConnNext]_connVars
  PROVE  SessionInv'
<1> USE ConnectionsAssumption, IdleTypes
    DEF Types, SessionInv, EndedMeansEnded, RowIds, Tickets, Passes, connVars, bankSide, table,
        pending, picker, flowHistory, syncHistory
<1>1. ASSUME NEW r \in Requests, NEW b \in Banks, Connect(r, b) PROVE SessionInv'
  <2>1. 0 \in 0..MaxIds /\ Start(r, b, 0)
    BY <1>1 DEF Connect
  <2>2. /\ \A q \in Requests : req'[q].entries = {} \/ req'[q] = req[q]
        /\ UNCHANGED <<accounts, offer, authorised, open, mismarked>>
    BY <2>1, StartTypes DEF Start
  <2> QED
    BY <2>2 DEF Present
<1>2. ASSUME NEW r \in Requests, NEW i \in Ids, StartRenewal(r, i) PROVE SessionInv'
  <2>1. Start(r, BankOf[accounts[i].uid.real], i)
    BY <1>2 DEF StartRenewal
  <2>2. /\ req' = [req EXCEPT ![r] = [Idle EXCEPT !.at = "start", !.flow = NextFlow, !.id = i]]
        /\ UNCHANGED <<accounts, offer, authorised, open, mismarked>>
    BY <2>1 DEF Start
  <2>3. \A q \in Requests : req'[q].entries = {} \/ req'[q] = req[q]
    BY <2>2
  <2> QED
    BY <2>2, <2>3 DEF Present
<1>3. ASSUME NEW r \in Requests, NEW f \in Flows, Callback(r, f) PROVE SessionInv'
  BY <1>3 DEF Callback, Present
<1>4. ASSUME NEW r \in Requests, StartAnswered(r) PROVE SessionInv'
  BY <1>4 DEF StartAnswered, Present
<1>5. ASSUME NEW r \in Requests, StartRefused(r) PROVE SessionInv'
  BY <1>5 DEF StartRefused, Present
<1>6. ASSUME NEW r \in Requests, CallbackFails(r) PROVE SessionInv'
  BY <1>6 DEF CallbackFails, Present
<1>7. ASSUME NEW r \in Requests, FinishAuth(r) PROVE SessionInv'
  <2>1. PICK S \in SUBSET Real, what \in Reveals :
           req' = [req EXCEPT ![r] = Granted(req[r].flow, S, what)]
    BY <1>7, FinishGrants
  <2>2. /\ UNCHANGED <<accounts, offer, mismarked>>
        /\ authorised' = authorised \cup {req[r].flow} /\ open' = open \cup {req[r].flow}
        /\ req[r].flow \notin authorised
    BY <1>7 DEF FinishAuth
  <2>3. \A q \in Requests : \A e \in req'[q].entries : e.uid.flow \in authorised'
    BY <2>1, <2>2, GrantedFlow
  <2> QED
    BY <2>2, <2>3 DEF Present
<1>8. ASSUME NEW r \in Requests, RenewRow(r) PROVE SessionInv'
  <2>1. req[r].id \in Ids /\ WriteRenewal(r)
    BY <1>8 DEF RenewRow, Ids
  <2>2. /\ UNCHANGED <<offer, authorised, open>> /\ mismarked' = mismarked \ {req[r].id}
        /\ \A q \in Requests : req'[q].entries \subseteq req[q].entries
    BY <1>8 DEF RenewRow, WriteRenewal
  <2>3. PICK e \in req[r].entries :
           WrittenBy(req[r].id, e, req[r].sure)
    BY <2>1, WriteRows
  <2>4. ASSUME NEW j \in Ids, Present(j)'
        PROVE  /\ accounts'[j].uid.flow \in authorised'
               /\ accounts'[j].ended => accounts'[j].uid.flow \notin open' \/ j \in mismarked'
    BY <2>2, <2>3, <2>4 DEF WrittenBy
  <2> QED
    BY <2>2, <2>4 DEF Present
<1>9. ASSUME NEW r \in Requests, StoreRenews(r) PROVE SessionInv'
  BY <1>9 DEF StoreRenews, Present
<1>10. ASSUME NEW r \in Requests, StoreOffer(r) PROVE SessionInv'
  BY <1>10 DEF StoreOffer, Present
<1>11. ASSUME NEW r \in Requests, Pick(r) PROVE SessionInv'
  BY <1>11 DEF Pick, Present
<1>12. ASSUME NEW r \in Requests, PickRenews(r) PROVE SessionInv'
  <2>1. req[r].id \in Ids /\ WriteRenewal(r)
    BY <1>12 DEF PickRenews, Ids
  <2>2. /\ UNCHANGED <<offer, authorised, open>> /\ mismarked' = mismarked \ {req[r].id}
        /\ \A q \in Requests : req'[q].entries \subseteq req[q].entries
    BY <1>12 DEF PickRenews, WriteRenewal
  <2>3. PICK e \in req[r].entries :
           WrittenBy(req[r].id, e, req[r].sure)
    BY <2>1, WriteRows
  <2>4. ASSUME NEW j \in Ids, Present(j)'
        PROVE  /\ accounts'[j].uid.flow \in authorised'
               /\ accounts'[j].ended => accounts'[j].uid.flow \notin open' \/ j \in mismarked'
    BY <2>2, <2>3, <2>4 DEF WrittenBy
  <2> QED
    BY <2>2, <2>4 DEF Present
<1>13. ASSUME NEW r \in Requests, PickAdds(r) PROVE SessionInv'
  <2>1. /\ UNCHANGED <<offer, authorised, open, mismarked>>
        /\ \A q \in Requests : req'[q].entries = req[q].entries
    BY <1>13 DEF PickAdds
  <2>2. PICK e \in req[r].entries :
           /\ \A j \in Ids \ {NextId} : accounts'[j] = accounts[j]
           /\ accounts'[NextId].uid = e.uid /\ accounts'[NextId].ended = FALSE
    BY <1>13, AddRows
  <2>3. ASSUME NEW j \in Ids, Present(j)'
        PROVE  /\ accounts'[j].uid.flow \in authorised'
               /\ accounts'[j].ended => accounts'[j].uid.flow \notin open' \/ j \in mismarked'
    <3>1. CASE j = NextId
      BY <2>1, <2>2, <3>1
    <3>2. CASE j # NextId
      BY <2>1, <2>2, <2>3, <3>2 DEF Present
    <3> QED
      BY <3>1, <3>2
  <2> QED
    BY <2>1, <2>3 DEF Present
<1>14. ASSUME NEW r \in Requests, PickClears(r) PROVE SessionInv'
  BY <1>14 DEF PickClears, OfferCleared, Present
<1>15. ASSUME NEW r \in Requests, PickClearFails(r) PROVE SessionInv'
  BY <1>15 DEF PickClearFails, Present
<1>16. CASE SyncStarts
  BY <1>16 DEF SyncStarts, Present
<1>17. ASSUME NEW i \in Ids, SkipEnded(i) PROVE SessionInv'
  BY <1>17 DEF SkipEnded, Done, Present
<1>18. ASSUME NEW i \in Ids, FetchAccount(i) PROVE SessionInv'
  BY <1>18 DEF FetchAccount, Done, Present
<1>19. ASSUME NEW i \in Ids, SessionEnded(i) PROVE SessionInv'
  BY <1>19, MarkRows DEF SessionEnded, MarkEnded, Done, Present
<1>20. ASSUME NEW i \in Ids, FetchError(i) PROVE SessionInv'
  BY <1>20 DEF FetchError, Done, Present
<1>21. ASSUME NEW i \in Ids, ImportStops(i) PROVE SessionInv'
  <2>1. UNCHANGED <<offer, authorised, open, req, mismarked>>
    BY <1>21 DEF ImportStops
  <2>2. \A j \in Ids : Kept(j) /\ (Present(j) => accounts'[j].ended = accounts[j].ended)
    BY <1>21, DatedRows
  <2> QED
    BY <2>1, <2>2 DEF Kept, Present
<1>22. CASE Commits
  BY <1>22 DEF Commits, Present
<1>23. ASSUME NEW i \in Ids, ClearStart(i) PROVE SessionInv'
  <2>1. UNCHANGED <<offer, authorised, open, req, mismarked>>
    BY <1>23 DEF ClearStart
  <2>2. \A j \in Ids : Kept(j) /\ (Present(j) => accounts'[j].ended = accounts[j].ended)
    BY <1>23, DatedRows
  <2> QED
    BY <2>1, <2>2 DEF Kept, Present
<1>24. ASSUME NEW i \in Ids, ClearFails(i) PROVE SessionInv'
  BY <1>24 DEF ClearFails, Done, Present
<1>25. CASE SyncEnds
  BY <1>25 DEF SyncEnds, Present
<1>26. CASE SyncFails
  BY <1>26 DEF SyncFails, Present
<1>27. CASE ProcessDies
  BY <1>27 DEF ProcessDies, Present
<1>28. ASSUME NEW i \in Ids, RemoveAccount(i) PROVE SessionInv'
  <2>1. UNCHANGED <<offer, authorised, open, req>> /\ mismarked' = mismarked \ {i}
    BY <1>28 DEF RemoveAccount
  <2>2. ASSUME NEW j \in Ids, Present(j)' PROVE j # i /\ accounts'[j] = accounts[j]
    BY <1>28, <2>2, RemoveRows
  <2> QED
    BY <2>1, <2>2 DEF Present
<1>29. ASSUME NEW i \in Ids, ResetSync(i) PROVE SessionInv'
  BY <1>29, DatedRows DEF ResetSync, Present
<1>30. ASSUME NEW f \in Flows, BankEnds(f) PROVE SessionInv'
  BY <1>30 DEF BankEnds, Present
<1>31. CASE UNCHANGED connVars
  BY <1>31 DEF Present
<1> QED
  BY <1>1, <1>2, <1>3, <1>4, <1>5, <1>6, <1>7, <1>8, <1>9, <1>10, <1>11, <1>12, <1>13,
     <1>14, <1>15, <1>16, <1>17, <1>18, <1>19, <1>20, <1>21, <1>22, <1>23, <1>24, <1>25,
     <1>26, <1>27, <1>28, <1>29, <1>30, <1>31
  DEF ConnNext, RequestStep, SyncStep, AccountTurn, DateTurn

\* Types, ids and sessions together are kept by every step.
LEMMA SessionsHold == ConnSpec => [](Types /\ IdsInv /\ SessionInv)
  BY TypesInit, TypesStep, IdsInit, IdsStep, SessionInit, SessionStep, PTL DEF ConnSpec

\* A row is marked as ended only when its own session has ended, or by a sync
\* that read it before it was renewed (MarkSessionEnded goes by the id).
THEOREM EndedMeansEndedCorrect == ConnSpec => []EndedMeansEnded
<1>1. SessionInv => EndedMeansEnded
  BY DEF SessionInv
<1> QED
  BY <1>1, SessionsHold, PTL

-----------------------------------------------------------------------------
(* The account of a row.                                                   *)

\* The identifiers are those of the account the UID belongs to.
Own(x) ==
    /\ x.ids.hash \in {Unknown, Hash[x.uid.real]}
    /\ x.ids.iban \in {Unknown, IbanOf[x.uid.real]}
    /\ x.ids.currency \in {Unknown, CurrencyOf[x.uid.real]}

\* The hash is of an account with the IBAN of the UID's, and the IBAN is that one.
Near(x) ==
    /\ x.ids.hash = Unknown
       \/ \E b \in Real : x.ids.hash = Hash[b] /\ IbanOf[b] = IbanOf[x.uid.real]
    /\ x.ids.iban \in {Unknown, IbanOf[x.uid.real]}

\* The same account, or only accounts of the same IBAN, by what is certain; and
\* identifiers that tell as much.
SameAs(c, a, b) == IF c = "account" THEN a = b ELSE IbanOf[a] = IbanOf[b]
Tells(c, x) == IF c = "account" THEN Own(x) ELSE Near(x)

\* What a session says is true; a row is the account, or of the IBAN, it was
\* added for, as far as that is certain, and its identifiers say so; a renewal
\* under way that was decided by identifiers is of what its row belongs to.
OwnInv ==
    /\ \A e \in offer : Own(e)
    /\ \A r \in Requests : \A e \in req[r].entries : Own(e)
    /\ \A i \in Ids : Present(i) => \A c \in accounts[i].sure :
          SameAs(c, accounts[i].uid.real, accounts[i].origin) /\ Tells(c, accounts[i])
    /\ \A r \in Requests : req[r].at = "renew" /\ Present(req[r].id) =>
          \A c \in req[r].sure \cap accounts[req[r].id].sure, e \in req[r].entries :
              SameAs(c, e.uid.real, accounts[req[r].id].uid.real)
    /\ \A r \in Requests : req[r].at = "picked" => req[r].sure = {}

\* What a session says of an account is its own.
LEMMA EntryOwn ==
  ASSUME NEW a \in Real, NEW f, NEW what
  PROVE  Own(Entry(a, f, what))
  BY DEF Own, Entry

\* Identifiers of an account's own tell both.
LEMMA OwnTells ==
  ASSUME NEW x, x.uid.real \in Real, Own(x), NEW c
  PROVE  Tells(c, x)
  BY DEF Tells, Own, Near

\* An account that matches is the row's as far as the match is certain.
LEMMA SureMatches ==
  ASSUME NEW row \in Rows, NEW entries \in SUBSET Offered,
         \A e \in entries : Own(e), NEW c \in Sure(row, entries), Tells(c, row),
         NEW e \in Matching(row, entries)
  PROVE  SameAs(c, e.uid.real, row.uid.real)
<1>1. row.uid.real \in Real /\ e \in entries /\ e.uid.real \in Real /\ Own(e)
  BY DEF Rows, Uid, Matching, Offered
<1>2. CASE ByHash(row, entries)
  <2>1. e.ids.hash = row.ids.hash /\ row.ids.hash # Unknown
    BY <1>2 DEF Matching, ByHash, Given
  <2>2. e.ids.hash = Hash[e.uid.real] /\ Hash[e.uid.real] # Unknown
    BY <1>1, <2>1 DEF Own
  <2>3. CASE c = "account"
    <3>1. Hash[e.uid.real] = Hash[row.uid.real]
      BY <2>1, <2>2, <2>3 DEF Own, Tells
    <3>2. e.uid.real = row.uid.real
      BY <1>1, <2>2, <3>1, ConnectionsAssumption
    <3> QED
      BY <2>3, <3>2 DEF SameAs
  <2>4. CASE c # "account"
    <3>1. PICK b \in Real : row.ids.hash = Hash[b] /\ IbanOf[b] = IbanOf[row.uid.real]
      BY <2>1, <2>4 DEF Tells, Near
    <3>2. b = e.uid.real
      BY <1>1, <2>1, <2>2, <3>1, ConnectionsAssumption
    <3> QED
      BY <2>4, <3>1, <3>2 DEF SameAs
  <2> QED
    BY <2>3, <2>4
<1>3. CASE ~ByHash(row, entries)
  <2>1. ByIban(row, entries)
    BY <1>3 DEF Sure
  <2>2. e.ids.iban = row.ids.iban /\ SameCurrency(e.ids.currency, row.ids.currency)
    BY <1>3, <2>1 DEF Matching
  <2>3. row.ids.iban # Unknown
    BY <2>1 DEF ByIban, Given
  <2>4. IbanOf[e.uid.real] = IbanOf[row.uid.real]
    BY <1>1, <2>2, <2>3 DEF Own, Tells, Near
  <2>5. CASE c = "account"
    <3>1. Given(row.ids.currency) /\ Given(e.ids.currency)
      BY <1>3, <2>1, <2>5 DEF Sure
    <3>2. e.ids.currency = row.ids.currency
      BY <2>2, <3>1 DEF Given, SameCurrency
    <3>3. CurrencyOf[e.uid.real] = CurrencyOf[row.uid.real]
      BY <1>1, <2>5, <3>1, <3>2 DEF Own, Tells, Given
    <3>4. e.uid.real = row.uid.real
      BY <1>1, <2>4, <3>3, ConnectionsAssumption
    <3> QED
      BY <2>5, <3>4 DEF SameAs
  <2>6. CASE c # "account"
    BY <2>4, <2>6 DEF SameAs
  <2> QED
    BY <2>5, <2>6
<1> QED
  BY <1>2, <1>3

\* Identifiers filled in from what the row belongs to tell as much.
LEMMA FilledOwn ==
  ASSUME NEW row \in Rows, NEW e \in Offered, NEW c, Tells(c, row), Own(e),
         SameAs(c, e.uid.real, row.uid.real),
         NEW x, x.uid = e.uid, x.ids = Filled(row.ids, e.ids)
  PROVE  Tells(c, x)
<1>1. row.ids \in Identifiers /\ e.ids \in Identifiers /\ e.uid.real \in Real
  BY DEF Rows, Offered, Uid
<1>2. \A n \in {"hash", "iban", "currency"} : Filled(row.ids, e.ids)[n] \in {row.ids[n], e.ids[n]}
  BY <1>1, FilledTypes
<1>3. /\ x.ids.hash \in {row.ids.hash, e.ids.hash}
      /\ x.ids.iban \in {row.ids.iban, e.ids.iban}
      /\ x.ids.currency \in {row.ids.currency, e.ids.currency}
      /\ x.uid.real = e.uid.real
  BY <1>2
<1>4. CASE c = "account"
  BY <1>3, <1>4 DEF Own, Tells, SameAs
<1>5. CASE c # "account"
  <2>1. Near(row) /\ IbanOf[e.uid.real] = IbanOf[row.uid.real]
    BY <1>5 DEF Tells, SameAs
  <2>2. Near(x)
    BY <1>1, <1>3, <2>1 DEF Own, Near
  <2> QED
    BY <1>5, <2>2 DEF Tells
<1> QED
  BY <1>4, <1>5

\* What is granted is its own, and what renews is the row's as far as certain.
LEMMA GrantedOwn ==
  ASSUME Types, OwnInv, NEW f \in Flows, NEW S \in SUBSET Real, NEW what \in Reveals
  PROVE  LET g == Granted(f, S, what) IN
         /\ \A e \in g.entries : Own(e)
         /\ g.at # "picked"
         /\ g.at = "renew" /\ Present(g.id) =>
              \A c \in g.sure \cap accounts[g.id].sure, e \in g.entries :
                  SameAs(c, e.uid.real, accounts[g.id].uid.real)
<1> DEFINE entries == {Entry(a, f, what) : a \in S}
<1> DEFINE g == Granted(f, S, what)
<1>1. entries \in SUBSET Offered /\ \A e \in entries : Own(e)
  BY EntryTypes, EntryOwn
<1>2. \A row : Matching(row, entries) \subseteq entries
  BY DEF Matching
<1>3. g.entries \subseteq entries /\ g.at # "picked"
  BY <1>2, IdleTypes DEF Granted
<1>4. ASSUME g.at = "renew", Present(g.id), NEW c \in g.sure \cap accounts[g.id].sure,
             NEW e \in g.entries
      PROVE  SameAs(c, e.uid.real, accounts[g.id].uid.real)
  <2>1. /\ g.id = renewId /\ g.entries = Matching(accounts[renewId], entries)
        /\ g.sure = Sure(accounts[renewId], entries)
    BY <1>4, IdleTypes DEF Granted
  <2>2. renewId \in Ids
    BY <1>4, GrantedTypes, <2>1
  <2>3. accounts[renewId] \in Rows
    BY <1>4, <2>1, <2>2, PresentRows DEF Types, Slots, Present
  <2>4. Tells(c, accounts[renewId]) /\ c \in Sure(accounts[renewId], entries)
    BY <1>4, <2>1, <2>2 DEF OwnInv
  <2> HIDE DEF g, entries
  <2> QED
    BY <1>1, <1>4, <2>1, <2>3, <2>4, SureMatches
<1> QED
  BY <1>1, <1>3, <1>4

\* A row is certain of no more than before, and still what it was certain of.
Stays(j) ==
    Present(j)' => \A c \in accounts'[j].sure :
        /\ Present(j) /\ c \in accounts[j].sure
        /\ SameAs(c, accounts'[j].uid.real, accounts[j].uid.real)
        /\ SameAs(c, accounts'[j].uid.real, accounts'[j].origin)
        /\ Tells(c, accounts'[j])

\* What a request keeps when it moves on.
Quiet(q) == \/ req'[q] = req[q]
            \/ req'[q].at \notin {"renew", "picked"} /\ req'[q].entries \subseteq req[q].entries

\* Rows that stay and requests that move on break nothing.
LEMMA OwnStays ==
  ASSUME Types, OwnInv, offer' \subseteq offer \cup UNION {req[r].entries : r \in Requests},
         \A j \in Ids : Stays(j), \A q \in Requests : Quiet(q)
  PROVE  OwnInv'
<1>1. \A e \in offer' : Own(e)
  BY DEF OwnInv
<1>2. ASSUME NEW q \in Requests PROVE \A e \in req'[q].entries : Own(e)
  BY DEF OwnInv, Quiet
<1>3. \A i \in Ids : Present(i)' => \A c \in accounts'[i].sure :
          SameAs(c, accounts'[i].uid.real, accounts'[i].origin) /\ Tells(c, accounts'[i])
  BY DEF Stays
<1>4. ASSUME NEW q \in Requests, req'[q].at = "renew", accounts'[req'[q].id].present,
             NEW c \in req'[q].sure \cap accounts'[req'[q].id].sure, NEW e \in req'[q].entries
      PROVE  SameAs(c, e.uid.real, accounts'[req'[q].id].uid.real)
  <2>1. req'[q] = req[q] /\ req[q].id \in Ids
    BY <1>4 DEF Quiet, Types
  <2>2. /\ Present(req[q].id) /\ c \in accounts[req[q].id].sure
        /\ SameAs(c, accounts'[req[q].id].uid.real, accounts[req[q].id].uid.real)
    BY <1>4, <2>1 DEF Stays, Present
  <2>3. SameAs(c, e.uid.real, accounts[req[q].id].uid.real)
    BY <1>4, <2>1, <2>2 DEF OwnInv
  <2> QED
    BY <2>1, <2>2, <2>3 DEF SameAs
<1>5. \A q \in Requests : req'[q].at = "picked" => req'[q].sure = {}
  BY DEF OwnInv, Quiet
<1> QED
  BY <1>1, <1>2, <1>3, <1>4, <1>5 DEF OwnInv, Own, Near, Tells, Present

\* Rows that keep their identity stay.
LEMMA KeptStays ==
  ASSUME OwnInv, NEW j \in Ids, Kept(j)
  PROVE  Stays(j)
<1> SUFFICES ASSUME Present(j)', NEW c \in accounts'[j].sure
             PROVE  /\ Present(j) /\ c \in accounts[j].sure
                    /\ SameAs(c, accounts'[j].uid.real, accounts[j].uid.real)
                    /\ SameAs(c, accounts'[j].uid.real, accounts'[j].origin)
                    /\ Tells(c, accounts'[j])
  BY DEF Stays
<1>1. /\ Present(j) /\ c \in accounts[j].sure
      /\ accounts'[j].uid = accounts[j].uid /\ accounts'[j].ids = accounts[j].ids
      /\ accounts'[j].origin = accounts[j].origin
  BY DEF Kept
<1>2. SameAs(c, accounts[j].uid.real, accounts[j].origin) /\ Tells(c, accounts[j])
  BY <1>1 DEF OwnInv
<1> QED
  BY <1>1, <1>2 DEF SameAs, Tells, Own, Near

\* A renewal leaves its row with what it is certain of, as far as the row was.
LEMMA WriteStays ==
  ASSUME Types, OwnInv, NEW i \in Ids, NEW e \in Offered, Own(e), NEW s \in SUBSET Certain,
         WrittenBy(i, e, s),
         Present(i) => \A c \in s \cap accounts[i].sure :
                           SameAs(c, e.uid.real, accounts[i].uid.real),
         NEW j \in Ids
  PROVE  Stays(j)
<1>1. CASE j # i
  <2>1. Kept(j)
    BY <1>1 DEF WrittenBy, Kept
  <2> QED
    BY <2>1, KeptStays
<1>2. CASE j = i
  <2> SUFFICES ASSUME Present(i)', NEW c \in accounts'[i].sure
               PROVE  /\ Present(i) /\ c \in accounts[i].sure
                      /\ SameAs(c, accounts'[i].uid.real, accounts[i].uid.real)
                      /\ SameAs(c, accounts'[i].uid.real, accounts'[i].origin)
                      /\ Tells(c, accounts'[i])
    BY <1>2 DEF Stays
  <2>1. Present(i) /\ c \in accounts[i].sure /\ c \in s
    BY DEF WrittenBy
  <2>2. /\ SameAs(c, e.uid.real, accounts[i].uid.real)
        /\ SameAs(c, accounts[i].uid.real, accounts[i].origin) /\ Tells(c, accounts[i])
    BY <2>1 DEF OwnInv
  <2>3. accounts[i] \in Rows
    BY <2>1, PresentRows DEF Types, Slots, Present
  <2>4. accounts'[i].uid = e.uid /\ accounts'[i].origin = accounts[i].origin
        /\ accounts'[i].ids = Filled(accounts[i].ids, e.ids)
    BY <2>1 DEF WrittenBy
  <2>5. Tells(c, accounts'[i])
    BY <2>2, <2>3, <2>4, FilledOwn
  <2> QED
    BY <2>1, <2>2, <2>4, <2>5 DEF SameAs
<1> QED
  BY <1>1, <1>2

\* The first row is its own account's.
LEMMA OwnInit == ConnInit => OwnInv
<1> SUFFICES ASSUME ConnInit PROVE OwnInv
  OBVIOUS
<1>1. PICK what \in Reveals : accounts = [i \in Ids |-> IF i # 1 THEN NoRow ELSE
              [present |-> TRUE, uid |-> [real |-> Home, flow |-> 0],
               ids |-> Entry(Home, 0, what).ids, ended |-> FALSE, start |-> 0,
               origin |-> Home, sure |-> Certain]]
  BY DEF ConnInit
<1>2. Own(Entry(Home, 0, what)) /\ Entry(Home, 0, what).uid.real = Home
  BY EntryOwn, ConnectionsAssumption DEF Entry
<1>3. ASSUME NEW i \in Ids, Present(i), NEW c
      PROVE  SameAs(c, accounts[i].uid.real, accounts[i].origin) /\ Tells(c, accounts[i])
  <2>1. accounts[i].uid.real = Home /\ accounts[i].origin = Home /\ Own(accounts[i])
    BY <1>1, <1>2, <1>3 DEF Present, NoRow, Own
  <2> QED
    BY <2>1, OwnTells, ConnectionsAssumption DEF SameAs
<1>4. offer = {} /\ req = [r \in Requests |-> Idle]
  BY DEF ConnInit
<1> QED
  BY <1>3, <1>4, IdleTypes DEF OwnInv

\* Every step leaves a row with what it is certain of, or less certain.
LEMMA OwnStep ==
  ASSUME Types, IdsInv, OwnInv, [ConnNext]_connVars
  PROVE  OwnInv'
<1>0. ASSUME accounts' = accounts, NEW j \in Ids PROVE Stays(j)
  BY <1>0, KeptStays DEF Kept, Present
<1>1. ASSUME NEW r \in Requests, NEW b \in Banks, Connect(r, b) PROVE OwnInv'
  <2>1. 0 \in 0..MaxIds /\ Start(r, b, 0)
    BY <1>1, ConnectionsAssumption DEF Connect
  <2>2. UNCHANGED <<accounts, offer>>
    BY <2>1 DEF Start, table, picker
  <2>3. \A q \in Requests : Quiet(q)
    BY <2>1, StartTypes DEF Quiet
  <2> QED
    BY <1>0, <2>2, <2>3, OwnStays
<1>2. ASSUME NEW r \in Requests, NEW i \in Ids, StartRenewal(r, i) PROVE OwnInv'
  <2>1. Start(r, BankOf[accounts[i].uid.real], i)
    BY <1>2 DEF StartRenewal
  <2>2. /\ req' = [req EXCEPT ![r] = [Idle EXCEPT !.at = "start", !.flow = NextFlow, !.id = i]]
        /\ UNCHANGED <<accounts, offer>>
    BY <2>1 DEF Start, table, picker
  <2>3. \A q \in Requests : Quiet(q)
    BY <2>2, IdleTypes DEF Quiet, Types, Tickets
  <2> QED
    BY <1>0, <2>2, <2>3, OwnStays
<1>3. ASSUME NEW r \in Requests, NEW f \in Flows, Callback(r, f) PROVE OwnInv'
  <2>1. accounts' = accounts
    BY <1>3 DEF Callback, table
  <2>2. offer' \subseteq offer \cup UNION {req[u].entries : u \in Requests}
    BY <1>3 DEF Callback, picker
  <2>3. \A q \in Requests : Quiet(q)
    BY <1>3, IdleTypes DEF Callback, Quiet, Types, Tickets
  <2> QED
    BY <1>0, <2>1, <2>2, <2>3, OwnStays
<1>4. ASSUME NEW r \in Requests, StartAnswered(r) PROVE OwnInv'
  <2>1. accounts' = accounts
    BY <1>4 DEF StartAnswered, table
  <2>2. offer' \subseteq offer \cup UNION {req[u].entries : u \in Requests}
    BY <1>4 DEF StartAnswered, picker
  <2>3. \A q \in Requests : Quiet(q)
    BY <1>4, IdleTypes DEF StartAnswered, Quiet, Types, Tickets
  <2> QED
    BY <1>0, <2>1, <2>2, <2>3, OwnStays
<1>5. ASSUME NEW r \in Requests, StartRefused(r) PROVE OwnInv'
  <2>1. accounts' = accounts
    BY <1>5 DEF StartRefused, table
  <2>2. offer' \subseteq offer \cup UNION {req[u].entries : u \in Requests}
    BY <1>5 DEF StartRefused, picker
  <2>3. \A q \in Requests : Quiet(q)
    BY <1>5, IdleTypes DEF StartRefused, Quiet, Types, Tickets
  <2> QED
    BY <1>0, <2>1, <2>2, <2>3, OwnStays
<1>6. ASSUME NEW r \in Requests, CallbackFails(r) PROVE OwnInv'
  <2>1. accounts' = accounts
    BY <1>6 DEF CallbackFails, table
  <2>2. offer' \subseteq offer \cup UNION {req[u].entries : u \in Requests}
    BY <1>6 DEF CallbackFails, picker
  <2>3. \A q \in Requests : Quiet(q)
    BY <1>6, IdleTypes DEF CallbackFails, Quiet, Types, Tickets
  <2> QED
    BY <1>0, <2>1, <2>2, <2>3, OwnStays
<1>7. ASSUME NEW r \in Requests, FinishAuth(r) PROVE OwnInv'
  <2>1. PICK S \in SUBSET Real, what \in Reveals :
           req' = [req EXCEPT ![r] = Granted(req[r].flow, S, what)]
    BY <1>7, FinishGrants
  <2>2. UNCHANGED <<accounts, offer>> /\ req[r].flow \in Flows
    BY <1>7 DEF FinishAuth, table, picker, Types, Tickets
  <2> DEFINE g == Granted(req[r].flow, S, what)
  <2>3. /\ \A e \in g.entries : Own(e)
        /\ g.at # "picked"
        /\ g.at = "renew" /\ Present(g.id) =>
             \A c \in g.sure \cap accounts[g.id].sure, e \in g.entries :
                 SameAs(c, e.uid.real, accounts[g.id].uid.real)
    BY <2>2, GrantedOwn
  <2>4. \A q \in Requests : req'[q] = IF q = r THEN g ELSE req[q]
    BY <2>1 DEF Types
  <2> HIDE DEF g
  <2> QED
    <3>1. \A q \in Requests : \A e \in req'[q].entries : Own(e)
      BY <2>3, <2>4 DEF OwnInv
    <3>2. ASSUME NEW q \in Requests, req'[q].at = "renew", Present(req'[q].id),
                 NEW c \in req'[q].sure \cap accounts[req'[q].id].sure, NEW e \in req'[q].entries
          PROVE  SameAs(c, e.uid.real, accounts[req'[q].id].uid.real)
      BY <2>3, <2>4, <3>2 DEF OwnInv
    <3>3. \A q \in Requests : req'[q].at = "picked" => req'[q].sure = {}
      BY <2>3, <2>4 DEF OwnInv
    <3> QED
      BY <2>2, <3>1, <3>2, <3>3 DEF OwnInv, Own, Near, Tells, Present
<1>8. ASSUME NEW r \in Requests, RenewRow(r) PROVE OwnInv'
  <2>1. req[r].id \in Ids /\ WriteRenewal(r) /\ UNCHANGED offer /\ req[r].sure \in SUBSET Certain
    BY <1>8, ConnectionsAssumption DEF RenewRow, Types, Tickets, Ids, picker
  <2>2. PICK e \in req[r].entries : WrittenBy(req[r].id, e, req[r].sure)
    BY <2>1, WriteRows
  <2>3. e \in Offered /\ Own(e)
    BY <2>2 DEF Types, Tickets, OwnInv
  <2>4. Present(req[r].id) => \A c \in req[r].sure \cap accounts[req[r].id].sure :
                                  SameAs(c, e.uid.real, accounts[req[r].id].uid.real)
    BY <1>8 DEF RenewRow, OwnInv
  <2>5. \A j \in Ids : Stays(j)
    BY <2>1, <2>2, <2>3, <2>4, WriteStays
  <2>6. \A q \in Requests : Quiet(q)
    BY <1>8, IdleTypes DEF RenewRow, Quiet, Types, Tickets
  <2> QED
    BY <2>1, <2>5, <2>6, OwnStays
<1>9. ASSUME NEW r \in Requests, StoreRenews(r) PROVE OwnInv'
  <2>1. accounts' = accounts
    BY <1>9 DEF StoreRenews, table
  <2>2. offer' \subseteq offer \cup UNION {req[u].entries : u \in Requests}
    BY <1>9 DEF StoreRenews, picker
  <2>3. \A q \in Requests : Quiet(q)
    BY <1>9, IdleTypes DEF StoreRenews, Quiet, Types, Tickets
  <2> QED
    BY <1>0, <2>1, <2>2, <2>3, OwnStays
<1>10. ASSUME NEW r \in Requests, StoreOffer(r) PROVE OwnInv'
  <2>1. accounts' = accounts
    BY <1>10 DEF StoreOffer, table
  <2>2. offer' \subseteq offer \cup UNION {req[u].entries : u \in Requests}
    BY <1>10 DEF StoreOffer, picker
  <2>3. \A q \in Requests : Quiet(q)
    BY <1>10, IdleTypes DEF StoreOffer, Quiet, Types, Tickets
  <2> QED
    BY <1>0, <2>1, <2>2, <2>3, OwnStays
<1>11. ASSUME NEW r \in Requests, Pick(r) PROVE OwnInv'
  <2>1. UNCHANGED <<accounts, offer>>
    BY <1>11 DEF Pick, table, picker
  <2>2. PICK e \in offer : /\ req'[r].entries = {e} /\ req'[r].sure = {} /\ req'[r].at = "picked"
                           /\ \A q \in Requests \ {r} : req'[q] = req[q]
    BY <1>11 DEF Pick, Types
  <2> QED
    BY <2>1, <2>2 DEF OwnInv, Own, Near, Tells, Present
<1>12. ASSUME NEW r \in Requests, PickRenews(r) PROVE OwnInv'
  <2>1. req[r].id \in Ids /\ WriteRenewal(r) /\ UNCHANGED offer /\ req[r].sure \in SUBSET Certain
    BY <1>12, ConnectionsAssumption DEF PickRenews, Types, Tickets, Ids, picker
  <2>2. PICK e \in req[r].entries : WrittenBy(req[r].id, e, req[r].sure)
    BY <2>1, WriteRows
  <2>3. e \in Offered /\ Own(e)
    BY <2>2 DEF Types, Tickets, OwnInv
  <2>4. Present(req[r].id) => \A c \in req[r].sure \cap accounts[req[r].id].sure :
                                  SameAs(c, e.uid.real, accounts[req[r].id].uid.real)
    BY <1>12 DEF PickRenews, OwnInv
  <2>5. \A j \in Ids : Stays(j)
    BY <2>1, <2>2, <2>3, <2>4, WriteStays
  <2>6. \A q \in Requests : Quiet(q)
    BY <1>12, IdleTypes DEF PickRenews, Quiet, Types, Tickets
  <2> QED
    BY <2>1, <2>5, <2>6, OwnStays
<1>13. ASSUME NEW r \in Requests, PickAdds(r) PROVE OwnInv'
  <2>1. PICK e \in req[r].entries :
           /\ \A j \in Ids \ {NextId} : accounts'[j] = accounts[j]
           /\ accounts'[NextId].uid = e.uid /\ accounts'[NextId].ids = e.ids
           /\ accounts'[NextId].origin = e.uid.real
    BY <1>13, AddRows
  <2>2. Own(e) /\ NextId = sequence + 1 /\ sequence \in Nat
    BY ConnectionsAssumption DEF OwnInv, NextId, Types
  <2>3. UNCHANGED offer /\ \A q \in Requests : Quiet(q)
    BY <1>13 DEF PickAdds, picker, Quiet, Types, Tickets
  <2>4. ASSUME NEW j \in Ids, Present(j)', NEW c \in accounts'[j].sure
        PROVE  SameAs(c, accounts'[j].uid.real, accounts'[j].origin) /\ Tells(c, accounts'[j])
    <3>1. CASE j = NextId
      <4>1. accounts'[j].uid.real = accounts'[j].origin /\ Own(accounts'[j])
        BY <2>1, <2>2, <3>1 DEF Own
      <4>2. accounts'[j].uid.real \in Real
        BY <2>1, <3>1 DEF Types, Tickets, Offered, Uid
      <4> QED
        BY <4>1, <4>2, OwnTells DEF SameAs
    <3>2. CASE j # NextId
      BY <2>1, <2>4, <3>2 DEF OwnInv, Present
    <3> QED
      BY <3>1, <3>2
  <2>5. ASSUME NEW q \in Requests, req'[q].at = "renew", accounts'[req'[q].id].present,
               NEW c \in req'[q].sure \cap accounts'[req'[q].id].sure,
               NEW x \in req'[q].entries
        PROVE  SameAs(c, x.uid.real, accounts'[req'[q].id].uid.real)
    <3>1. req'[q] = req[q] /\ req[q].id \in Ids /\ req[q].id <= sequence
      BY <2>3, <2>5 DEF Quiet, Types, IdsInv
    <3>2. req[q].id # NextId
      BY <2>2, <3>1 DEF Ids
    <3>3. accounts'[req[q].id] = accounts[req[q].id]
      BY <2>1, <3>1, <3>2
    <3> QED
      BY <2>5, <3>1, <3>3 DEF OwnInv, Present
  <2>6. /\ \A x \in offer' : Own(x)
        /\ \A q \in Requests : \A x \in req'[q].entries : Own(x)
        /\ \A q \in Requests : req'[q].at = "picked" => req'[q].sure = {}
    BY <2>3 DEF OwnInv, Quiet
  <2> QED
    BY <2>4, <2>5, <2>6 DEF OwnInv, Own, Near, Tells, Present
<1>14. ASSUME NEW r \in Requests, PickClears(r) PROVE OwnInv'
  <2>1. accounts' = accounts
    BY <1>14 DEF PickClears, OfferCleared, table
  <2>2. offer' \subseteq offer \cup UNION {req[u].entries : u \in Requests}
    BY <1>14 DEF PickClears, OfferCleared, picker
  <2>3. \A q \in Requests : Quiet(q)
    BY <1>14, IdleTypes DEF PickClears, OfferCleared, Quiet, Types, Tickets
  <2> QED
    BY <1>0, <2>1, <2>2, <2>3, OwnStays
<1>15. ASSUME NEW r \in Requests, PickClearFails(r) PROVE OwnInv'
  <2>1. accounts' = accounts
    BY <1>15 DEF PickClearFails, table
  <2>2. offer' \subseteq offer \cup UNION {req[u].entries : u \in Requests}
    BY <1>15 DEF PickClearFails, picker
  <2>3. \A q \in Requests : Quiet(q)
    BY <1>15, IdleTypes DEF PickClearFails, Quiet, Types, Tickets
  <2> QED
    BY <1>0, <2>1, <2>2, <2>3, OwnStays
<1>16. CASE SyncStarts
  <2>1. UNCHANGED <<accounts, offer, req>>
    BY <1>16 DEF SyncStarts, table, picker
  <2> QED
    BY <1>0, <2>1, OwnStays DEF Quiet
<1>17. ASSUME NEW i \in Ids, SkipEnded(i) PROVE OwnInv'
  <2>1. UNCHANGED <<accounts, offer, req>>
    BY <1>17 DEF SkipEnded, table, picker
  <2> QED
    BY <1>0, <2>1, OwnStays DEF Quiet
<1>18. ASSUME NEW i \in Ids, FetchAccount(i) PROVE OwnInv'
  <2>1. UNCHANGED <<accounts, offer, req>>
    BY <1>18 DEF FetchAccount, table, picker
  <2> QED
    BY <1>0, <2>1, OwnStays DEF Quiet
<1>19. ASSUME NEW i \in Ids, SessionEnded(i) PROVE OwnInv'
  <2>1. UNCHANGED <<offer, req>> /\ MarkEnded(i)
    BY <1>19 DEF SessionEnded, picker
  <2>2. \A j \in Ids : Stays(j)
    BY <2>1, MarkRows, KeptStays
  <2> QED
    BY <2>1, <2>2, OwnStays DEF Quiet
<1>20. ASSUME NEW i \in Ids, FetchError(i) PROVE OwnInv'
  <2>1. UNCHANGED <<accounts, offer, req>>
    BY <1>20 DEF FetchError, table, picker
  <2> QED
    BY <1>0, <2>1, OwnStays DEF Quiet
<1>21. ASSUME NEW i \in Ids, ImportStops(i) PROVE OwnInv'
  <2>1. UNCHANGED <<offer, req>>
    BY <1>21 DEF ImportStops, picker
  <2>2. \A j \in Ids : Stays(j)
    BY <1>21, DatedRows, KeptStays
  <2> QED
    BY <2>1, <2>2, OwnStays DEF Quiet
<1>22. CASE Commits
  <2>1. UNCHANGED <<accounts, offer, req>>
    BY <1>22 DEF Commits, table, picker
  <2> QED
    BY <1>0, <2>1, OwnStays DEF Quiet
<1>23. ASSUME NEW i \in Ids, ClearStart(i) PROVE OwnInv'
  <2>1. UNCHANGED <<offer, req>>
    BY <1>23 DEF ClearStart, picker
  <2>2. \A j \in Ids : Stays(j)
    BY <1>23, DatedRows, KeptStays
  <2> QED
    BY <2>1, <2>2, OwnStays DEF Quiet
<1>24. ASSUME NEW i \in Ids, ClearFails(i) PROVE OwnInv'
  <2>1. UNCHANGED <<accounts, offer, req>>
    BY <1>24 DEF ClearFails, table, picker
  <2> QED
    BY <1>0, <2>1, OwnStays DEF Quiet
<1>25. CASE SyncEnds
  <2>1. UNCHANGED <<accounts, offer, req>>
    BY <1>25 DEF SyncEnds, table, picker
  <2> QED
    BY <1>0, <2>1, OwnStays DEF Quiet
<1>26. CASE SyncFails
  <2>1. UNCHANGED <<accounts, offer, req>>
    BY <1>26 DEF SyncFails, table, picker
  <2> QED
    BY <1>0, <2>1, OwnStays DEF Quiet
<1>27. CASE ProcessDies
  <2>1. accounts' = accounts
    BY <1>27 DEF ProcessDies, table
  <2>2. offer' \subseteq offer \cup UNION {req[r].entries : r \in Requests}
    BY <1>27 DEF ProcessDies, picker
  <2>3. \A q \in Requests : Quiet(q)
    BY <1>27, IdleTypes DEF ProcessDies, Quiet, Types, Tickets
  <2> QED
    BY <1>0, <2>1, <2>2, <2>3, OwnStays
<1>28. ASSUME NEW i \in Ids, RemoveAccount(i) PROVE OwnInv'
  <2>1. UNCHANGED <<offer, req>>
    BY <1>28 DEF RemoveAccount, picker
  <2>2. \A j \in Ids : Stays(j)
    BY <1>28, RemoveRows, KeptStays DEF Stays, Kept, Present
  <2> QED
    BY <2>1, <2>2, OwnStays DEF Quiet
<1>29. ASSUME NEW i \in Ids, ResetSync(i) PROVE OwnInv'
  <2>1. UNCHANGED <<offer, req>>
    BY <1>29 DEF ResetSync, picker
  <2>2. \A j \in Ids : Stays(j)
    BY <1>29, DatedRows, KeptStays
  <2> QED
    BY <2>1, <2>2, OwnStays DEF Quiet
<1>30. ASSUME NEW f \in Flows, BankEnds(f) PROVE OwnInv'
  <2>1. UNCHANGED <<accounts, offer, req>>
    BY <1>30 DEF BankEnds, table, picker
  <2> QED
    BY <1>0, <2>1, OwnStays DEF Quiet
<1>31. CASE UNCHANGED connVars
  <2>1. UNCHANGED <<accounts, offer, req>>
    BY <1>31 DEF connVars, table, picker
  <2> QED
    BY <1>0, <2>1, OwnStays DEF Quiet
<1> QED
  BY <1>1, <1>2, <1>3, <1>4, <1>5, <1>6, <1>7, <1>8, <1>9, <1>10, <1>11, <1>12, <1>13,
     <1>14, <1>15, <1>16, <1>17, <1>18, <1>19, <1>20, <1>21, <1>22, <1>23, <1>24, <1>25,
     <1>26, <1>27, <1>28, <1>29, <1>30, <1>31
  DEF ConnNext, RequestStep, SyncStep, AccountTurn, DateTurn

\* Everything is kept by every step.
LEMMA OwnHolds == ConnSpec => [](Types /\ IdsInv /\ OwnInv)
  BY TypesInit, TypesStep, IdsInit, IdsStep, OwnInit, OwnStep, PTL DEF ConnSpec

\* As long as identifiers decide its renewals a row stays with the IBAN it was
\* added for, and with the very account as long as no renewal went by an IBAN
\* with a currency missing (matchRenewal): overlapping, abandoned and failed
\* authorisations, removed rows and what a session leaves out included.
THEOREM SameAccountCorrect == ConnSpec => []SameAccount
<1>1. OwnInv => SameAccount
  BY DEF OwnInv, SameAccount, RowIds, SameAs
<1> QED
  BY <1>1, OwnHolds, PTL

-----------------------------------------------------------------------------
(* Where an authorisation is.                                              *)

\* The request that carries a flow to a row or to the picker, and those that
\* carry it from the picker to a row.
Carries(r, f) == req[r].at \in {"renew", "store", "offer"} /\ req[r].flow = f
Picks(r, f) == req[r].at \in {"picked", "clear"} /\ req[r].flow = f
OnOffer(f) == \E e \in offer : e.uid.flow = f
HasRow(f, i) == Present(i) /\ accounts[i].uid.flow = f

\* A request carries what its own flow was granted, and that was granted.
OwnEntries ==
    \A r \in Requests : \A f \in Flows :
        Carries(r, f) \/ Picks(r, f) =>
            f \in authorised /\ \A e \in req[r].entries : e.uid.flow = f

\* A flow that has not reached the picker or a row is with one request only.
CarriedOnce ==
    \A r \in Requests : \A f \in Flows :
        Carries(r, f) =>
            /\ \A q \in Requests : (Carries(q, f) => q = r) /\ ~Picks(q, f)
            /\ ~OnOffer(f)
            /\ \A i \in Ids : ~HasRow(f, i)

\* A flow whose pick is not repeated is picked by one request, which writes it
\* to one row and, before it can be picked again, clears the offer.
PickedOnce ==
    \A f \in Flows \ repicked :
        /\ \A r, q \in Requests : Picks(r, f) /\ Picks(q, f) => r = q
        /\ \A r \in Requests : req[r].at = "picked" /\ req[r].flow = f =>
              \A i \in Ids : ~HasRow(f, i)
        /\ OnOffer(f) /\ (\E i \in Ids : HasRow(f, i)) =>
              \E r \in Requests : req[r].at = "clear" /\ req[r].flow = f
        /\ \A i, j \in Ids : HasRow(f, i) /\ HasRow(f, j) => i = j

FlowInv == OwnEntries /\ CarriedOnce /\ PickedOnce

\* No authorisation at first but the one the first row came by.
LEMMA FlowInit == ConnInit => FlowInv
  BY ConnectionsAssumption, IdleTypes
  DEF ConnInit, FlowInv, OwnEntries, CarriedOnce, PickedOnce, Carries, Picks, OnOffer, HasRow,
      Present, NoRow, Ids, Flows

\* A row that stays with its session, or goes.
RowStays(j) == Present(j)' => Present(j) /\ accounts'[j].uid = accounts[j].uid

\* A request that takes up no flow; one that leaves without the offer cleared
\* leaves a pick that may be repeated.
TakesNone(q) ==
    \/ req'[q] = req[q]
    \/ /\ req'[q].at \in {"idle", "start", "complete"}
       /\ req[q].at = "clear" => offer' = {} \/ req[q].flow \in repicked'
    \/ /\ req[q].at = "store" /\ req'[q].at = "offer"
       /\ req'[q].flow = req[q].flow /\ req'[q].entries = req[q].entries

\* What requests and the sync do between writes repeats nothing.
LEMMA FlowStays ==
  ASSUME FlowInv, authorised \subseteq authorised', repicked \subseteq repicked',
         offer' \subseteq offer, \A j \in Ids : RowStays(j), \A q \in Requests : TakesNone(q)
  PROVE  FlowInv'
<1> USE DEF FlowInv, RowStays, TakesNone
<1>1. ASSUME NEW q \in Requests, NEW f \in Flows
      PROVE  /\ Carries(q, f)' => Carries(q, f) /\ req'[q].entries = req[q].entries
             /\ Picks(q, f)' => Picks(q, f) /\ req'[q] = req[q]
             /\ req[q].at = "clear" /\ req[q].flow = f /\ f \notin repicked' /\ OnOffer(f)' =>
                  req'[q] = req[q]
  BY DEF Carries, Picks, OnOffer
<1>2. ASSUME NEW f \in Flows
      PROVE  (OnOffer(f)' => OnOffer(f)) /\ \A j \in Ids : HasRow(f, j)' => HasRow(f, j)
  BY DEF OnOffer, HasRow, Present
<1>3. OwnEntries'
  BY <1>1 DEF OwnEntries
<1>4. CarriedOnce'
  BY <1>1, <1>2 DEF CarriedOnce
<1>5. ASSUME NEW f \in Flows, f \notin repicked'
      PROVE  /\ \A r, q \in Requests : Picks(r, f)' /\ Picks(q, f)' => r = q
             /\ \A r \in Requests : req'[r].at = "picked" /\ req'[r].flow = f =>
                   \A i \in Ids : ~HasRow(f, i)'
             /\ \A i, j \in Ids : HasRow(f, i)' /\ HasRow(f, j)' => i = j
  <2>1. f \in Flows \ repicked
    BY <1>5
  <2>2. ASSUME NEW r \in Requests, req'[r].at = "picked", req'[r].flow = f
        PROVE  req[r].at = "picked" /\ req[r].flow = f
    BY <1>1, <2>2 DEF Picks
  <2> QED
    BY <1>1, <1>2, <2>1, <2>2 DEF PickedOnce
<1>6. ASSUME NEW f \in Flows, f \notin repicked', OnOffer(f)', NEW i \in Ids, HasRow(f, i)'
      PROVE  \E r \in Requests : req'[r].at = "clear" /\ req'[r].flow = f
  <2>1. PICK r \in Requests : req[r].at = "clear" /\ req[r].flow = f
    BY <1>2, <1>6 DEF PickedOnce
  <2> QED
    BY <1>1, <1>6, <2>1
<1>7. PickedOnce'
  BY <1>5, <1>6 DEF PickedOnce
<1> QED
  BY <1>3, <1>4, <1>7

\* What a flow is written to: row i, and no other row changes its session.
WrittenTo(f, i) ==
    /\ \A j \in Ids \ {i} : RowStays(j)
    /\ Present(i)' => accounts'[i].uid.flow = f

\* A carrier that writes its flow is done with it.
LEMMA FlowRenews ==
  ASSUME FlowInv, NEW r \in Requests, NEW f \in Flows, Carries(r, f), NEW i \in Ids,
         WrittenTo(f, i), UNCHANGED <<authorised, offer, repicked>>,
         req'[r].at = "idle", \A q \in Requests \ {r} : req'[q] = req[q]
  PROVE  FlowInv'
<1> USE DEF FlowInv
<1>1. ASSUME NEW q \in Requests, NEW g \in Flows
      PROVE  /\ Carries(q, g)' => Carries(q, g) /\ q # r /\ req'[q] = req[q]
             /\ Picks(q, g)' => Picks(q, g) /\ q # r /\ req'[q] = req[q]
             /\ Picks(q, g) => req'[q] = req[q]
  BY DEF Carries, Picks
<1>2. ASSUME NEW g \in Flows
      PROVE  /\ OnOffer(g)' <=> OnOffer(g)
             /\ \A j \in Ids : HasRow(g, j)' => HasRow(g, j) \/ (g = f /\ j = i)
  BY DEF OnOffer, HasRow, WrittenTo, RowStays, Present
<1>3. /\ ~OnOffer(f) /\ \A j \in Ids : ~HasRow(f, j)
      /\ \A q \in Requests : ~Picks(q, f) /\ (Carries(q, f) => q = r)
  BY DEF CarriedOnce
<1>4. OwnEntries'
  BY <1>1 DEF OwnEntries
<1>5. CarriedOnce'
  BY <1>1, <1>2, <1>3 DEF CarriedOnce
<1>6. ASSUME NEW g \in Flows, g \notin repicked
      PROVE  /\ \A p, q \in Requests : Picks(p, g)' /\ Picks(q, g)' => p = q
             /\ \A q \in Requests : req'[q].at = "picked" /\ req'[q].flow = g =>
                   \A j \in Ids : ~HasRow(g, j)'
             /\ \A k, j \in Ids : HasRow(g, k)' /\ HasRow(g, j)' => k = j
  <2>1. g \in Flows \ repicked
    BY <1>6
  <2>2. ASSUME NEW q \in Requests, req'[q].at = "picked", req'[q].flow = g
        PROVE  req[q].at = "picked" /\ req[q].flow = g /\ g # f
    BY <1>1, <1>3, <2>2 DEF Picks
  <2> QED
    BY <1>1, <1>2, <1>3, <2>1, <2>2 DEF PickedOnce
<1>7. ASSUME NEW g \in Flows, g \notin repicked, OnOffer(g)', NEW k \in Ids, HasRow(g, k)'
      PROVE  \E q \in Requests : req'[q].at = "clear" /\ req'[q].flow = g
  <2>1. PICK q \in Requests : req[q].at = "clear" /\ req[q].flow = g
    BY <1>2, <1>3, <1>7 DEF PickedOnce
  <2> QED
    BY <1>1, <2>1 DEF Picks
<1>8. PickedOnce'
  BY <1>6, <1>7 DEF PickedOnce
<1> QED
  BY <1>4, <1>5, <1>8

\* A picker that writes its flow has the offer to clear.
LEMMA FlowWrites ==
  ASSUME FlowInv, NEW r \in Requests, NEW f \in Flows, req[r].at = "picked", req[r].flow = f,
         NEW i \in Ids, WrittenTo(f, i), UNCHANGED <<authorised, offer, repicked>>,
         req'[r].at = "clear", req'[r].flow = f, req'[r].entries = req[r].entries,
         \A q \in Requests \ {r} : req'[q] = req[q]
  PROVE  FlowInv'
<1> USE DEF FlowInv
<1>0. Picks(r, f) /\ Picks(r, f)'
  BY DEF Picks
<1>1. ASSUME NEW q \in Requests, NEW g \in Flows
      PROVE  /\ Carries(q, g)' => Carries(q, g)
             /\ Picks(q, g)' => Picks(q, g)
             /\ req[q].at = "clear" => req'[q] = req[q]
             /\ req'[q].entries = req[q].entries
             /\ req'[q].at = "picked" => q # r /\ req'[q] = req[q]
  BY DEF Carries, Picks
<1>2. ASSUME NEW g \in Flows
      PROVE  /\ OnOffer(g)' <=> OnOffer(g)
             /\ \A j \in Ids : HasRow(g, j)' => HasRow(g, j) \/ (g = f /\ j = i)
  BY DEF OnOffer, HasRow, WrittenTo, RowStays, Present
<1>3. \A q \in Requests : ~Carries(q, f)
  BY <1>0 DEF CarriedOnce
<1>4. OwnEntries'
  BY <1>1 DEF OwnEntries
<1>5. CarriedOnce'
  BY <1>1, <1>2, <1>3 DEF CarriedOnce
<1>6. ASSUME f \notin repicked
      PROVE  /\ \A j \in Ids : ~HasRow(f, j)
             /\ \A q \in Requests : Picks(q, f) => q = r
  BY <1>0, <1>6 DEF PickedOnce
<1>7. ASSUME NEW g \in Flows, g \notin repicked
      PROVE  /\ \A p, q \in Requests : Picks(p, g)' /\ Picks(q, g)' => p = q
             /\ \A q \in Requests : req'[q].at = "picked" /\ req'[q].flow = g =>
                   \A j \in Ids : ~HasRow(g, j)'
             /\ \A k, j \in Ids : HasRow(g, k)' /\ HasRow(g, j)' => k = j
  <2>1. g \in Flows \ repicked
    BY <1>7
  <2>2. ASSUME NEW q \in Requests, req'[q].at = "picked", req'[q].flow = g
        PROVE  req[q].at = "picked" /\ req[q].flow = g /\ g # f
    BY <1>1, <1>6, <1>7, <2>2 DEF Picks
  <2> QED
    BY <1>1, <1>2, <1>6, <2>1, <2>2 DEF PickedOnce
<1>8. ASSUME NEW g \in Flows, g \notin repicked, OnOffer(g)', NEW k \in Ids, HasRow(g, k)'
      PROVE  \E q \in Requests : req'[q].at = "clear" /\ req'[q].flow = g
  <2>1. CASE g = f
    BY <2>1
  <2>2. CASE g # f
    <3>1. PICK q \in Requests : req[q].at = "clear" /\ req[q].flow = g
      BY <1>2, <1>8, <2>2 DEF PickedOnce
    <3> QED
      BY <1>1, <3>1
  <2> QED
    BY <2>1, <2>2
<1>9. PickedOnce'
  BY <1>7, <1>8 DEF PickedOnce
<1> QED
  BY <1>4, <1>5, <1>9

\* A flow that is granted is new; from then on it is carried, offered, picked
\* and written once, unless a pick is repeated.
LEMMA FlowStep ==
  ASSUME Types, SessionInv, FlowInv, [ConnNext]_connVars
  PROVE  FlowInv'
<1> USE IdleTypes, ConnectionsAssumption
    DEF Types, Tickets, connVars, bankSide, table, pending, picker, flowHistory, syncHistory
<1>1. ASSUME NEW r \in Requests, NEW b \in Banks, Connect(r, b) PROVE FlowInv'
  <2>1. authorised \subseteq authorised' /\ repicked \subseteq repicked' /\ offer' \subseteq offer
    BY <1>1 DEF Connect, Start
  <2>2. \A j \in Ids : RowStays(j)
    BY <1>1 DEF Connect, Start, RowStays, Present
  <2>3. \A q \in Requests : TakesNone(q)
    BY <1>1 DEF Connect, Start, TakesNone, Tickets
  <2> QED
    BY <2>1, <2>2, <2>3, FlowStays
<1>2. ASSUME NEW r \in Requests, NEW i \in Ids, StartRenewal(r, i) PROVE FlowInv'
  <2>1. authorised \subseteq authorised' /\ repicked \subseteq repicked' /\ offer' \subseteq offer
    BY <1>2 DEF StartRenewal, Start
  <2>2. \A j \in Ids : RowStays(j)
    BY <1>2 DEF StartRenewal, Start, RowStays, Present
  <2>3. \A q \in Requests : TakesNone(q)
    BY <1>2 DEF StartRenewal, Start, TakesNone
  <2> QED
    BY <2>1, <2>2, <2>3, FlowStays
<1>3. ASSUME NEW r \in Requests, NEW f \in Flows, Callback(r, f) PROVE FlowInv'
  <2>1. authorised \subseteq authorised' /\ repicked \subseteq repicked' /\ offer' \subseteq offer
    BY <1>3 DEF Callback
  <2>2. \A j \in Ids : RowStays(j)
    BY <1>3 DEF Callback, RowStays, Present
  <2>3. \A q \in Requests : TakesNone(q)
    BY <1>3 DEF Callback, TakesNone
  <2> QED
    BY <2>1, <2>2, <2>3, FlowStays
<1>4. ASSUME NEW r \in Requests, StartAnswered(r) PROVE FlowInv'
  <2>1. authorised \subseteq authorised' /\ repicked \subseteq repicked' /\ offer' \subseteq offer
    BY <1>4 DEF StartAnswered
  <2>2. \A j \in Ids : RowStays(j)
    BY <1>4 DEF StartAnswered, RowStays, Present
  <2>3. \A q \in Requests : TakesNone(q)
    BY <1>4 DEF StartAnswered, TakesNone
  <2> QED
    BY <2>1, <2>2, <2>3, FlowStays
<1>5. ASSUME NEW r \in Requests, StartRefused(r) PROVE FlowInv'
  <2>1. authorised \subseteq authorised' /\ repicked \subseteq repicked' /\ offer' \subseteq offer
    BY <1>5 DEF StartRefused
  <2>2. \A j \in Ids : RowStays(j)
    BY <1>5 DEF StartRefused, RowStays, Present
  <2>3. \A q \in Requests : TakesNone(q)
    BY <1>5 DEF StartRefused, TakesNone
  <2> QED
    BY <2>1, <2>2, <2>3, FlowStays
<1>6. ASSUME NEW r \in Requests, CallbackFails(r) PROVE FlowInv'
  <2>1. authorised \subseteq authorised' /\ repicked \subseteq repicked' /\ offer' \subseteq offer
    BY <1>6 DEF CallbackFails
  <2>2. \A j \in Ids : RowStays(j)
    BY <1>6 DEF CallbackFails, RowStays, Present
  <2>3. \A q \in Requests : TakesNone(q)
    BY <1>6 DEF CallbackFails, TakesNone
  <2> QED
    BY <2>1, <2>2, <2>3, FlowStays
<1>7. ASSUME NEW r \in Requests, FinishAuth(r) PROVE FlowInv'
  <2> DEFINE f == req[r].flow
  <2>1. PICK S \in SUBSET Real, what \in Reveals : req' = [req EXCEPT ![r] = Granted(f, S, what)]
    BY <1>7, FinishGrants
  <2> DEFINE g == Granted(f, S, what)
  <2>2. /\ UNCHANGED <<accounts, offer, repicked>> /\ authorised' = authorised \cup {f}
        /\ f \notin authorised /\ f \in Flows
    BY <1>7 DEF FinishAuth
  <2>3. /\ \A e \in g.entries : e.uid.flow = f
        /\ g.at = "idle" \/ (g.at \in {"renew", "store"} /\ g.flow = f)
    <3>1. \A e \in g.entries : e.uid.flow = f
      BY GrantedFlow
    <3>2. g.at = "idle" \/ (g.at \in {"renew", "store"} /\ g.flow = f)
      BY DEF Granted
    <3> QED
      BY <3>1, <3>2
  <2>4. req'[r] = g /\ \A q \in Requests \ {r} : req'[q] = req[q]
    BY <2>1
  <2>5. /\ ~OnOffer(f) /\ \A i \in Ids : ~HasRow(f, i)
        /\ \A q \in Requests : ~Carries(q, f) /\ ~Picks(q, f)
    BY <2>2 DEF SessionInv, FlowInv, OwnEntries, OnOffer, HasRow
  <2> HIDE DEF f, g
  <2>6. ASSUME NEW q \in Requests, NEW h \in Flows
        PROVE  /\ Carries(q, h)' => (q = r /\ h = f) \/ (q # r /\ h # f /\ Carries(q, h))
               /\ Picks(q, h)' => q # r /\ Picks(q, h)
               /\ Picks(q, h) /\ q # r => Picks(q, h)'
    BY <2>3, <2>4, <2>5 DEF Carries, Picks
  <2>7. ASSUME NEW h \in Flows
        PROVE  (OnOffer(h)' <=> OnOffer(h)) /\ \A i \in Ids : HasRow(h, i)' <=> HasRow(h, i)
    BY <2>2 DEF OnOffer, HasRow, Present
  <2>8. OwnEntries'
    BY <2>2, <2>3, <2>4, <2>6 DEF FlowInv, OwnEntries
  <2>9. CarriedOnce'
    BY <2>5, <2>6, <2>7 DEF FlowInv, CarriedOnce
  <2>10. req[r].at = "complete" /\ repicked' = repicked
    BY <1>7, <2>2 DEF FinishAuth
  <2>11. \A q \in Requests : req'[q].at \in {"picked", "clear"} \/ req[q].at \in {"picked", "clear"}
            => req'[q] = req[q]
    BY <2>3, <2>4, <2>10
  <2>12. PickedOnce'
    BY SMTT(30), <2>2, <2>6, <2>7, <2>11 DEF FlowInv, PickedOnce, Picks
  <2> QED
    BY <2>8, <2>9, <2>12 DEF FlowInv
<1>8. ASSUME NEW r \in Requests, RenewRow(r) PROVE FlowInv'
  <2>1. req[r].id \in Ids /\ WriteRenewal(r)
    BY <1>8 DEF RenewRow
  <2>2. PICK i \in Ids, f \in Flows, e \in req[r].entries :
           i = req[r].id /\ f = req[r].flow /\ WrittenBy(i, e, req[r].sure)
    BY <2>1, WriteRows
  <2>3. /\ UNCHANGED <<authorised, offer, repicked>> /\ req'[r].at = "idle"
        /\ \A q \in Requests \ {r} : req'[q] = req[q]
    BY <1>8 DEF RenewRow
  <2>4. Carries(r, f) /\ e.uid.flow = f
    BY <1>8, <2>2 DEF RenewRow, Carries, FlowInv, OwnEntries
  <2>5. WrittenTo(f, i)
    BY <2>2, <2>4 DEF WrittenTo, WrittenBy, RowStays, Present
  <2> QED
    BY <2>3, <2>4, <2>5, FlowRenews
<1>9. ASSUME NEW r \in Requests, StoreRenews(r) PROVE FlowInv'
  <2>1. authorised \subseteq authorised' /\ repicked \subseteq repicked' /\ offer' \subseteq offer
    BY <1>9 DEF StoreRenews
  <2>2. \A j \in Ids : RowStays(j)
    BY <1>9 DEF StoreRenews, RowStays, Present
  <2>3. \A q \in Requests : TakesNone(q)
    BY <1>9 DEF StoreRenews, TakesNone
  <2> QED
    BY <2>1, <2>2, <2>3, FlowStays
<1>10. ASSUME NEW r \in Requests, StoreOffer(r) PROVE FlowInv'
  <2> DEFINE f == req[r].flow
  <2>1. /\ UNCHANGED <<accounts, authorised, repicked>> /\ offer' = req[r].entries
        /\ req'[r].at = "idle" /\ \A q \in Requests \ {r} : req'[q] = req[q]
    BY <1>10 DEF StoreOffer
  <2>2. f \in Flows /\ Carries(r, f)
    BY <1>10 DEF StoreOffer, Carries
  <2>3. /\ \A q \in Requests : ~Picks(q, f) /\ (Carries(q, f) => q = r)
        /\ \A i \in Ids : ~HasRow(f, i)
        /\ \A e \in req[r].entries : e.uid.flow = f
    BY <2>2 DEF FlowInv, CarriedOnce, OwnEntries
  <2> HIDE DEF f
  <2>4. ASSUME NEW q \in Requests, NEW h \in Flows
        PROVE  /\ Carries(q, h)' => q # r /\ h # f /\ Carries(q, h) /\ req'[q] = req[q]
               /\ Picks(q, h)' => h # f /\ Picks(q, h) /\ req'[q] = req[q]
    BY <2>1, <2>3 DEF Carries, Picks
  <2>5. ASSUME NEW h \in Flows
        PROVE  (OnOffer(h)' => h = f) /\ \A i \in Ids : HasRow(h, i)' <=> HasRow(h, i)
    BY <2>1, <2>3 DEF OnOffer, HasRow, Present
  <2>6. OwnEntries'
    BY <2>1, <2>4 DEF FlowInv, OwnEntries
  <2>7. CarriedOnce'
    BY <2>4, <2>5 DEF FlowInv, CarriedOnce
  <2>8. PickedOnce'
    BY <2>1, <2>3, <2>4, <2>5 DEF FlowInv, PickedOnce, Picks
  <2> QED
    BY <2>6, <2>7, <2>8 DEF FlowInv
<1>11. ASSUME NEW r \in Requests, Pick(r) PROVE FlowInv'
  <2>1. PICK e \in offer :
           /\ req'[r].at = "picked" /\ req'[r].flow = e.uid.flow /\ req'[r].entries = {e}
           /\ repicked \subseteq repicked'
           /\ (\E q \in Requests : req[q].at \in {"picked", "clear"}) =>
                 e.uid.flow \in repicked'
    BY <1>11 DEF Pick
  <2> DEFINE f == e.uid.flow
  <2>2. /\ UNCHANGED <<accounts, authorised, offer>> /\ req[r].at = "idle"
        /\ \A q \in Requests \ {r} : req'[q] = req[q]
    BY <1>11 DEF Pick
  <2>3. f \in Flows /\ OnOffer(f) /\ f \in authorised
    BY <2>1 DEF SessionInv, OnOffer, Offered, Uid
  <2>4. \A q \in Requests : ~Carries(q, f)
    BY <2>3 DEF FlowInv, CarriedOnce
  <2> HIDE DEF f
  <2>5. ASSUME NEW q \in Requests, NEW h \in Flows
        PROVE  /\ Carries(q, h)' => h # f /\ q # r /\ Carries(q, h)
               /\ Picks(q, h)' => (q = r /\ h = f) \/ (q # r /\ Picks(q, h))
               /\ Picks(q, h) => q # r
    BY <2>1, <2>2, <2>4 DEF Carries, Picks, f
  <2>6. ASSUME NEW h \in Flows
        PROVE  (OnOffer(h)' <=> OnOffer(h)) /\ \A i \in Ids : HasRow(h, i)' <=> HasRow(h, i)
    BY <2>2 DEF OnOffer, HasRow, Present
  <2>7. OwnEntries'
    BY <2>1, <2>2, <2>3, <2>5 DEF FlowInv, OwnEntries, f
  <2>8. CarriedOnce'
    BY <2>3, <2>5, <2>6 DEF FlowInv, CarriedOnce
  <2>9. repicked \subseteq repicked'
        /\ (f \notin repicked' => \A q \in Requests, h \in Flows : ~Picks(q, h))
    BY <2>1 DEF Picks, f
  <2>10. ASSUME NEW h \in Flows, h \notin repicked'
         PROVE  /\ \A p, q \in Requests : Picks(p, h)' /\ Picks(q, h)' => p = q
                /\ \A i, j \in Ids : HasRow(h, i)' /\ HasRow(h, j)' => i = j
    BY <2>5, <2>6, <2>9, <2>10 DEF FlowInv, PickedOnce
  <2>11. ASSUME NEW h \in Flows, h \notin repicked', NEW q \in Requests,
                req'[q].at = "picked", req'[q].flow = h, NEW i \in Ids
         PROVE  ~HasRow(h, i)'
    <3>1. CASE q = r
      <4>1. h = f /\ \A p \in Requests : ~Picks(p, f)
        BY <2>1, <2>3, <2>9, <2>11, <3>1 DEF f
      <4> QED
        BY <2>3, <2>6, <2>9, <2>11, <4>1 DEF FlowInv, PickedOnce, Picks
    <3>2. CASE q # r
      BY <2>2, <2>6, <2>9, <2>11, <3>2 DEF FlowInv, PickedOnce
    <3> QED
      BY <3>1, <3>2
  <2>12. ASSUME NEW h \in Flows, h \notin repicked', OnOffer(h)', NEW i \in Ids, HasRow(h, i)'
         PROVE  \E q \in Requests : req'[q].at = "clear" /\ req'[q].flow = h
    <3>1. PICK q \in Requests : req[q].at = "clear" /\ req[q].flow = h
      BY <2>6, <2>9, <2>12 DEF FlowInv, PickedOnce
    <3> QED
      BY <2>2, <3>1
  <2>13. PickedOnce'
    BY <2>10, <2>11, <2>12 DEF PickedOnce
  <2> QED
    BY <2>7, <2>8, <2>13 DEF FlowInv
<1>12. ASSUME NEW r \in Requests, PickRenews(r) PROVE FlowInv'
  <2>1. req[r].id \in Ids /\ WriteRenewal(r)
    BY <1>12 DEF PickRenews, Ids
  <2>2. PICK i \in Ids, f \in Flows, e \in req[r].entries :
           i = req[r].id /\ f = req[r].flow /\ WrittenBy(i, e, req[r].sure)
    BY <2>1, WriteRows
  <2>3. /\ UNCHANGED <<authorised, offer, repicked>> /\ req[r].at = "picked"
        /\ \A q \in Requests \ {r} : req'[q] = req[q]
        /\ req'[r] = IF Present(req[r].id) THEN [req[r] EXCEPT !.at = "clear"] ELSE Idle
    BY <1>12 DEF PickRenews
  <2>4. CASE Present(i)
    <3>1. /\ req'[r].at = "clear" /\ req'[r].flow = f
          /\ req'[r].entries = req[r].entries
      BY <2>2, <2>3, <2>4
    <3>2. e.uid.flow = f
      BY <2>2, <2>3 DEF Picks, FlowInv, OwnEntries
    <3>3. WrittenTo(f, i)
      BY <2>2, <3>2 DEF WrittenTo, WrittenBy, RowStays, Present
    <3>4. req[r].at = "picked" /\ req[r].flow = f
      BY <2>2, <2>3
    <3>5. UNCHANGED <<authorised, offer, repicked>> /\ \A q \in Requests \ {r} : req'[q] = req[q]
      BY <2>3
    <3> HIDE DEF Types
    <3> QED
      BY <3>1, <3>3, <3>4, <3>5, FlowWrites
  <2>5. CASE ~Present(i)
    <3>1. \A j \in Ids : RowStays(j)
      BY <2>2, <2>5 DEF WrittenBy, RowStays, Present
    <3>2. \A q \in Requests : TakesNone(q)
      BY <2>2, <2>3, <2>5 DEF TakesNone
    <3> QED
      BY <2>3, <3>1, <3>2, FlowStays
  <2> QED
    BY <2>4, <2>5
<1>13. ASSUME NEW r \in Requests, PickAdds(r) PROVE FlowInv'
  <2>1. PICK e \in req[r].entries :
           /\ NextId \in Ids /\ \A j \in Ids \ {NextId} : accounts'[j] = accounts[j]
           /\ accounts'[NextId].uid = e.uid
    BY <1>13, AddRows
  <2>2. /\ UNCHANGED <<authorised, offer, repicked>> /\ req[r].at = "picked"
        /\ \A q \in Requests \ {r} : req'[q] = req[q]
        /\ req'[r] = [req[r] EXCEPT !.at = "clear"]
    BY <1>13 DEF PickAdds
  <2>3. /\ req'[r].at = "clear" /\ req'[r].flow = req[r].flow
        /\ req'[r].entries = req[r].entries
    BY <2>2
  <2>4. req[r].flow \in Flows /\ e.uid.flow = req[r].flow
    BY <2>1, <2>2 DEF Picks, FlowInv, OwnEntries
  <2>5. PICK f \in Flows : f = req[r].flow
    BY <2>4
  <2>6. PICK id \in Ids : id = NextId
    BY <2>1
  <2>7. WrittenTo(f, id)
    BY <2>1, <2>4, <2>5, <2>6 DEF WrittenTo, RowStays, Present, NextId
  <2>8. req'[r].at = "clear" /\ req'[r].flow = f /\ req[r].flow = f
    BY <2>3, <2>5
  <2> QED
    BY ZenonT(60), <2>2, <2>3, <2>7, <2>8, FlowWrites
<1>14. ASSUME NEW r \in Requests, PickClears(r) PROVE FlowInv'
  <2>1. authorised \subseteq authorised' /\ repicked \subseteq repicked' /\ offer' \subseteq offer
    BY <1>14 DEF PickClears, OfferCleared
  <2>2. \A j \in Ids : RowStays(j)
    BY <1>14 DEF PickClears, OfferCleared, RowStays, Present
  <2>3. \A q \in Requests : TakesNone(q)
    BY <1>14 DEF PickClears, OfferCleared, TakesNone
  <2> QED
    BY <2>1, <2>2, <2>3, FlowStays
<1>15. ASSUME NEW r \in Requests, PickClearFails(r) PROVE FlowInv'
  <2>1. authorised \subseteq authorised' /\ repicked \subseteq repicked' /\ offer' \subseteq offer
    BY <1>15 DEF PickClearFails
  <2>2. \A j \in Ids : RowStays(j)
    BY <1>15 DEF PickClearFails, RowStays, Present
  <2>3. \A q \in Requests : TakesNone(q)
    BY <1>15 DEF PickClearFails, TakesNone
  <2> QED
    BY <2>1, <2>2, <2>3, FlowStays
<1>16. CASE SyncStarts
  <2>1. authorised \subseteq authorised' /\ repicked \subseteq repicked' /\ offer' \subseteq offer
    BY <1>16 DEF SyncStarts
  <2>2. \A j \in Ids : RowStays(j)
    BY <1>16 DEF SyncStarts, RowStays, Present
  <2>3. \A q \in Requests : TakesNone(q)
    BY <1>16 DEF SyncStarts, TakesNone
  <2> QED
    BY <2>1, <2>2, <2>3, FlowStays
<1>17. ASSUME NEW i \in Ids, SkipEnded(i) PROVE FlowInv'
  <2>1. authorised \subseteq authorised' /\ repicked \subseteq repicked' /\ offer' \subseteq offer
    BY <1>17 DEF SkipEnded
  <2>2. \A j \in Ids : RowStays(j)
    BY <1>17 DEF SkipEnded, RowStays, Present
  <2>3. \A q \in Requests : TakesNone(q)
    BY <1>17 DEF SkipEnded, TakesNone, Done
  <2> QED
    BY <2>1, <2>2, <2>3, FlowStays
<1>18. ASSUME NEW i \in Ids, FetchAccount(i) PROVE FlowInv'
  <2>1. authorised \subseteq authorised' /\ repicked \subseteq repicked' /\ offer' \subseteq offer
    BY <1>18 DEF FetchAccount
  <2>2. \A j \in Ids : RowStays(j)
    BY <1>18 DEF FetchAccount, RowStays, Present
  <2>3. \A q \in Requests : TakesNone(q)
    BY <1>18 DEF FetchAccount, TakesNone, Done
  <2> QED
    BY <2>1, <2>2, <2>3, FlowStays
<1>19. ASSUME NEW i \in Ids, SessionEnded(i) PROVE FlowInv'
  <2>1. authorised \subseteq authorised' /\ repicked \subseteq repicked' /\ offer' \subseteq offer
    BY <1>19 DEF SessionEnded
  <2>2. \A j \in Ids : RowStays(j)
    BY <1>19, MarkRows DEF SessionEnded, Kept, RowStays
  <2>3. \A q \in Requests : TakesNone(q)
    BY <1>19 DEF SessionEnded, TakesNone
  <2> QED
    BY <2>1, <2>2, <2>3, FlowStays
<1>20. ASSUME NEW i \in Ids, FetchError(i) PROVE FlowInv'
  <2>1. authorised \subseteq authorised' /\ repicked \subseteq repicked' /\ offer' \subseteq offer
    BY <1>20 DEF FetchError
  <2>2. \A j \in Ids : RowStays(j)
    BY <1>20 DEF FetchError, RowStays, Present
  <2>3. \A q \in Requests : TakesNone(q)
    BY <1>20 DEF FetchError, TakesNone
  <2> QED
    BY <2>1, <2>2, <2>3, FlowStays
<1>21. ASSUME NEW i \in Ids, ImportStops(i) PROVE FlowInv'
  <2>1. authorised \subseteq authorised' /\ repicked \subseteq repicked' /\ offer' \subseteq offer
    BY <1>21 DEF ImportStops
  <2>2. \A j \in Ids : RowStays(j)
    BY <1>21, DatedRows DEF Kept, RowStays
  <2>3. \A q \in Requests : TakesNone(q)
    BY <1>21 DEF ImportStops, TakesNone
  <2> QED
    BY <2>1, <2>2, <2>3, FlowStays
<1>22. CASE Commits
  <2>1. authorised \subseteq authorised' /\ repicked \subseteq repicked' /\ offer' \subseteq offer
    BY <1>22 DEF Commits
  <2>2. \A j \in Ids : RowStays(j)
    BY <1>22 DEF Commits, RowStays, Present
  <2>3. \A q \in Requests : TakesNone(q)
    BY <1>22 DEF Commits, TakesNone
  <2> QED
    BY <2>1, <2>2, <2>3, FlowStays
<1>23. ASSUME NEW i \in Ids, ClearStart(i) PROVE FlowInv'
  <2>1. authorised \subseteq authorised' /\ repicked \subseteq repicked' /\ offer' \subseteq offer
    BY <1>23 DEF ClearStart
  <2>2. \A j \in Ids : RowStays(j)
    BY <1>23, DatedRows DEF Kept, RowStays
  <2>3. \A q \in Requests : TakesNone(q)
    BY <1>23 DEF ClearStart, TakesNone
  <2> QED
    BY <2>1, <2>2, <2>3, FlowStays
<1>24. ASSUME NEW i \in Ids, ClearFails(i) PROVE FlowInv'
  <2>1. authorised \subseteq authorised' /\ repicked \subseteq repicked' /\ offer' \subseteq offer
    BY <1>24 DEF ClearFails
  <2>2. \A j \in Ids : RowStays(j)
    BY <1>24 DEF ClearFails, RowStays, Present
  <2>3. \A q \in Requests : TakesNone(q)
    BY <1>24 DEF ClearFails, TakesNone
  <2> QED
    BY <2>1, <2>2, <2>3, FlowStays
<1>25. CASE SyncEnds
  <2>1. authorised \subseteq authorised' /\ repicked \subseteq repicked' /\ offer' \subseteq offer
    BY <1>25 DEF SyncEnds
  <2>2. \A j \in Ids : RowStays(j)
    BY <1>25 DEF SyncEnds, RowStays, Present
  <2>3. \A q \in Requests : TakesNone(q)
    BY <1>25 DEF SyncEnds, TakesNone
  <2> QED
    BY <2>1, <2>2, <2>3, FlowStays
<1>26. CASE SyncFails
  <2>1. authorised \subseteq authorised' /\ repicked \subseteq repicked' /\ offer' \subseteq offer
    BY <1>26 DEF SyncFails
  <2>2. \A j \in Ids : RowStays(j)
    BY <1>26 DEF SyncFails, RowStays, Present
  <2>3. \A q \in Requests : TakesNone(q)
    BY <1>26 DEF SyncFails, TakesNone
  <2> QED
    BY <2>1, <2>2, <2>3, FlowStays
<1>27. CASE ProcessDies
  <2>1. authorised \subseteq authorised' /\ repicked \subseteq repicked' /\ offer' \subseteq offer
    BY <1>27 DEF ProcessDies
  <2>2. \A j \in Ids : RowStays(j)
    BY <1>27 DEF ProcessDies, RowStays, Present
  <2>3. \A q \in Requests : TakesNone(q)
    BY <1>27 DEF ProcessDies, TakesNone, FlowsAt
  <2> QED
    BY <2>1, <2>2, <2>3, FlowStays
<1>28. ASSUME NEW i \in Ids, RemoveAccount(i) PROVE FlowInv'
  <2>1. authorised \subseteq authorised' /\ repicked \subseteq repicked' /\ offer' \subseteq offer
    BY <1>28 DEF RemoveAccount
  <2>2. \A j \in Ids : RowStays(j)
    BY <1>28, RemoveRows DEF RowStays, Present
  <2>3. \A q \in Requests : TakesNone(q)
    BY <1>28 DEF RemoveAccount, TakesNone
  <2> QED
    BY <2>1, <2>2, <2>3, FlowStays
<1>29. ASSUME NEW i \in Ids, ResetSync(i) PROVE FlowInv'
  <2>1. authorised \subseteq authorised' /\ repicked \subseteq repicked' /\ offer' \subseteq offer
    BY <1>29 DEF ResetSync
  <2>2. \A j \in Ids : RowStays(j)
    BY <1>29, DatedRows DEF Kept, RowStays
  <2>3. \A q \in Requests : TakesNone(q)
    BY <1>29 DEF ResetSync, TakesNone
  <2> QED
    BY <2>1, <2>2, <2>3, FlowStays
<1>30. ASSUME NEW f \in Flows, BankEnds(f) PROVE FlowInv'
  <2>1. authorised \subseteq authorised' /\ repicked \subseteq repicked' /\ offer' \subseteq offer
    BY <1>30 DEF BankEnds
  <2>2. \A j \in Ids : RowStays(j)
    BY <1>30 DEF BankEnds, RowStays, Present
  <2>3. \A q \in Requests : TakesNone(q)
    BY <1>30 DEF BankEnds, TakesNone
  <2> QED
    BY <2>1, <2>2, <2>3, FlowStays
<1>31. CASE UNCHANGED connVars
  <2>1. authorised \subseteq authorised' /\ repicked \subseteq repicked' /\ offer' \subseteq offer
    BY <1>31 DEF connVars
  <2>2. \A j \in Ids : RowStays(j)
    BY <1>31 DEF connVars, RowStays, Present
  <2>3. \A q \in Requests : TakesNone(q)
    BY <1>31 DEF connVars, TakesNone
  <2> QED
    BY <2>1, <2>2, <2>3, FlowStays
<1> QED
  BY <1>1, <1>2, <1>3, <1>4, <1>5, <1>6, <1>7, <1>8, <1>9, <1>10, <1>11, <1>12, <1>13,
     <1>14, <1>15, <1>16, <1>17, <1>18, <1>19, <1>20, <1>21, <1>22, <1>23, <1>24, <1>25,
     <1>26, <1>27, <1>28, <1>29, <1>30, <1>31
  DEF ConnNext, RequestStep, SyncStep, AccountTurn, DateTurn

\* Flows too are kept by every step.
LEMMA FlowHolds == ConnSpec => [](Types /\ FlowInv)
  BY TypesInit, TypesStep, IdsInit, IdsStep, SessionInit, SessionStep, FlowInit, FlowStep, PTL
  DEF ConnSpec

\* An authorisation ends up on one row, however requests, failures and crashes
\* interleave, unless its pick was repeated before the offer was cleared.
THEOREM OneRowPerFlowCorrect == ConnSpec => []OneRowPerFlow
<1>1. ASSUME Types, FlowInv PROVE OneRowPerFlow
  <2>1. \A i \in RowIds : i \in Ids /\ Present(i) /\ accounts[i].uid.flow \in Flows
    BY <1>1, PresentRows DEF RowIds, Types, Slots, Present, Rows, Uid
  <2> QED
    BY <1>1, <2>1 DEF OneRowPerFlow, FlowInv, PickedOnce, HasRow
<1> QED
  BY <1>1, FlowHolds, PTL

-----------------------------------------------------------------------------
(* Start dates.                                                            *)

\* The rows whose start date a sync relies on: those it has to fetch for or is
\* through with, and after the commit those whose date it is to clear.
Held == IF sync.at = "run" THEN sync.todo \cup sync.synced ELSE sync.todo

\* A sync knows the start date of a row it relies on, unless it was reset
\* since; and what it clears after the commit it was through with.
StartInv ==
    /\ \A i \in Held : Present(i) /\ i \notin resetInSync =>
          sync.snapshot[i].start = accounts[i].start
    /\ sync.at = "run" => sync.todo \cap sync.synced = {}
    /\ sync.at = "clear" =>
          sync.todo \subseteq sync.synced /\ \A i \in sync.todo : sync.snapshot[i].start # 0
    /\ sync.at = "idle" => sync.todo = {}

\* No sync at first.
LEMMA StartInit == ConnInit => StartInv
  BY DEF ConnInit, StartInv, Held, AtRest

\* A row that goes, keeps its start date, or is too new for the sync.
DateKept(j) ==
    Present(j)' => \/ j > sequence
                   \/ Present(j) /\ accounts'[j].start = accounts[j].start

\* What the sync relies on are ids the table has given out.
LEMMA HeldIds ==
  ASSUME Types, IdsInv
  PROVE  Held \subseteq Ids /\ \A i \in Held : ~(i > sequence)
  BY ConnectionsAssumption DEF Types, Passes, IdsInv, Held, Ids

\* What the sync relies on stays known while the dates are kept.
LEMMA StartStays ==
  ASSUME Types, IdsInv, StartInv, Held' \subseteq Held,
         sync'.snapshot = sync.snapshot, resetInSync \subseteq resetInSync',
         \A j \in Held' : DateKept(j) \/ j \in resetInSync'
  PROVE  \A i \in Held' : Present(i)' /\ i \notin resetInSync' =>
             sync'.snapshot[i].start = accounts'[i].start
<1> SUFFICES ASSUME NEW i \in Held', Present(i)', i \notin resetInSync'
             PROVE  sync'.snapshot[i].start = accounts'[i].start
  OBVIOUS
<1>1. i \in Held /\ i \in Ids /\ ~(i > sequence)
  BY HeldIds
<1>2. Present(i) /\ accounts'[i].start = accounts[i].start
  BY <1>1 DEF DateKept
<1> QED
  BY <1>1, <1>2 DEF StartInv

\* A renewal leaves the start date of its row.
LEMMA WriteDates ==
  ASSUME Types, NEW r \in Requests, req[r].id \in Ids, WriteRenewal(r), NEW j \in Ids
  PROVE  DateKept(j)
<1>1. PICK e \in req[r].entries : WrittenBy(req[r].id, e, req[r].sure)
  BY WriteRows
<1>2. CASE j = req[r].id
  BY <1>1, <1>2 DEF WrittenBy, DateKept
<1>3. CASE j # req[r].id
  BY <1>1, <1>3 DEF WrittenBy, DateKept
<1> QED
  BY <1>2, <1>3

\* A row that is renewed, marked or left alone keeps its start date.
LEMMA DatesKept ==
  ASSUME Types, IdsInv, [ConnNext]_connVars, NEW j \in Ids
  PROVE  DateKept(j) \/ ClearStart(j) \/ ImportStops(j) \/ ResetSync(j)
<1>1. CASE accounts' = accounts
  BY <1>1 DEF DateKept, Present
<1>2. ASSUME NEW r \in Requests, req[r].id \in Ids, WriteRenewal(r) PROVE DateKept(j)
  BY <1>2, WriteDates
<1>3. ASSUME NEW r \in Requests, RenewRow(r) PROVE DateKept(j)
  BY <1>2, <1>3 DEF RenewRow, Types
<1>4. ASSUME NEW r \in Requests, PickRenews(r) PROVE DateKept(j)
  BY <1>2, <1>4, ConnectionsAssumption DEF PickRenews, Types, Tickets, Ids
<1>5. ASSUME NEW r \in Requests, PickAdds(r) PROVE DateKept(j)
  <2>1. \A k \in Ids \ {NextId} : accounts'[k] = accounts[k]
    BY <1>5, AddRows
  <2>2. CASE j = NextId
    BY <2>2, ConnectionsAssumption DEF DateKept, NextId, Types
  <2> QED
    BY <2>1, <2>2 DEF DateKept, Present
<1>6. ASSUME NEW i \in Ids, SessionEnded(i) PROVE DateKept(j)
  <2>1. accounts' = IF Present(i) THEN [accounts EXCEPT ![i].ended = TRUE] ELSE accounts
    BY <1>6 DEF SessionEnded, MarkEnded
  <2>2. CASE Present(i) /\ i = j
    <3>1. accounts'[j] = [accounts[j] EXCEPT !.ended = TRUE] /\ accounts[j] \in Rows
      BY <2>1, <2>2, PresentRows DEF Types, Slots, Present
    <3> QED
      BY <2>2, <3>1 DEF DateKept, Rows, Present
  <2>3. CASE ~(Present(i) /\ i = j)
    BY <2>1, <2>3 DEF DateKept, Types, Slots, Present
  <2> QED
    BY <2>2, <2>3
<1>7. ASSUME NEW i \in Ids, RemoveAccount(i) PROVE DateKept(j)
  BY <1>7, RemoveRows DEF DateKept, Present
<1>8. ASSUME NEW i \in Ids, ResetSync(i) \/ ClearStart(i) \/ ImportStops(i), i # j
      PROVE  DateKept(j)
  BY <1>8 DEF ResetSync, ClearStart, ImportStops, DateKept, Types, Slots, Present
<1> QED
  BY <1>1, <1>3, <1>4, <1>5, <1>6, <1>7, <1>8, RowWriters

\* Who moves the sync.
LEMMA SyncMovers ==
  ASSUME [ConnNext]_connVars
  PROVE  \/ sync' = sync \/ SyncStarts \/ sync' = AtRest \/ Commits
         \/ \E i \in Ids : \/ SkipEnded(i) \/ FetchAccount(i) \/ SessionEnded(i)
                          \/ FetchError(i) \/ ImportStops(i) \/ ClearStart(i) \/ ClearFails(i)
  BY DEF ConnNext, RequestStep, SyncStep, AccountTurn, DateTurn, Connect, StartRenewal, Start,
         Callback, StartAnswered, StartRefused, CallbackFails, FinishAuth, RenewRow, StoreRenews,
         StoreOffer, Pick, PickRenews, PickAdds, PickClears, PickClearFails, RemoveAccount,
         ResetSync, BankEnds, SyncEnds, SyncFails, ProcessDies, connVars

\* Only the start of a sync forgets what was reset, and only a new row moves the
\* sequence.
LEMMA OnlyGrows ==
  ASSUME Types, [ConnNext]_connVars
  PROVE  /\ sequence <= sequence'
         /\ resetInSync \subseteq resetInSync' \/ SyncStarts
<1>1. sequence <= sequence'
  <2>1. sequence' = sequence \/ \E r \in Requests : PickAdds(r)
    BY DEF ConnNext, RequestStep, SyncStep, AccountTurn, DateTurn, Connect, StartRenewal, Start,
      Callback, StartAnswered, StartRefused, CallbackFails, FinishAuth, RenewRow, StoreRenews,
      StoreOffer, Pick, PickRenews, PickClears, PickClearFails, RemoveAccount, ResetSync, BankEnds,
      SyncStarts, SkipEnded, FetchAccount, SessionEnded, FetchError, ImportStops, Commits,
      ClearStart, ClearFails, SyncEnds, SyncFails, ProcessDies, connVars, table
  <2> QED
    BY <2>1, ConnectionsAssumption DEF PickAdds, NextId, Types
<1>2. resetInSync \subseteq resetInSync' \/ SyncStarts
  BY DEF ConnNext, RequestStep, SyncStep, AccountTurn, DateTurn, Connect, StartRenewal, Start,
      Callback, StartAnswered, StartRefused, CallbackFails, FinishAuth, RenewRow, StoreRenews,
      StoreOffer, Pick, PickRenews, PickAdds, PickClears, PickClearFails, RemoveAccount, ResetSync,
      BankEnds, SkipEnded, FetchAccount, SessionEnded, FetchError, ImportStops, Commits,
      ClearStart, ClearFails, SyncEnds, SyncFails, ProcessDies, connVars, syncHistory
<1> QED
  BY <1>1, <1>2

\* An account's turn leaves the dates of the others, and its own unless the
\* sync relies on it no more.
LEMMA TurnStarts ==
  ASSUME Types, IdsInv, StartInv, [ConnNext]_connVars, NEW i \in Ids,
         \/ SkipEnded(i) \/ FetchAccount(i) \/ SessionEnded(i)
         \/ FetchError(i) \/ ImportStops(i) \/ ClearStart(i) \/ ClearFails(i)
  PROVE  StartInv'
<1>1. /\ i \in sync.todo /\ sync.at \in {"run", "clear"}
      /\ sync'.at = sync.at /\ sync'.todo = sync.todo \ {i}
      /\ sync'.snapshot = sync.snapshot /\ resetInSync' = resetInSync
      /\ \/ sync'.synced = sync.synced
         \/ FetchAccount(i) /\ sync.at = "run" /\ sync'.synced = sync.synced \cup {i}
  <2>1. CASE FetchAccount(i)
    BY <2>1 DEF FetchAccount, Done, Turn, Types, Passes, syncHistory
  <2>2. CASE ~FetchAccount(i)
    <3>1. i \in sync.todo /\ sync.at \in {"run", "clear"} /\ sync' = Done(i)
      BY <2>2 DEF SkipEnded, SessionEnded, FetchError, ImportStops, ClearStart, ClearFails,
                  Turn, Clearing
    <3>2. resetInSync' = resetInSync
      BY <2>2 DEF SkipEnded, SessionEnded, FetchError, ImportStops, ClearStart, ClearFails,
                  syncHistory
    <3>3. /\ sync'.at = sync.at /\ sync'.todo = sync.todo \ {i}
          /\ sync'.snapshot = sync.snapshot /\ sync'.synced = sync.synced
      BY <3>1 DEF Done, Types, Passes
    <3> QED
      BY <3>1, <3>2, <3>3
  <2> QED
    BY <2>1, <2>2
<1>2. Held' \subseteq Held
  BY <1>1 DEF Held
<1>3. i \in Held' => FetchAccount(i)
  BY <1>1 DEF Held, StartInv
<1>4. ASSUME NEW j \in Held' PROVE DateKept(j)
  <2>1. j \in Ids
    BY <1>2, HeldIds
  <2>2. CASE FetchAccount(i)
    BY <2>2 DEF FetchAccount, DateKept, Present
  <2>3. CASE ~FetchAccount(i)
    <3>1. j # i
      BY <1>3, <2>3
    <3>2. ~ResetSync(j)
      BY <1>1 DEF ResetSync
    <3>3. ~ClearStart(j) /\ ~ImportStops(j)
      <4>1. ClearStart(j) \/ ImportStops(j) => j \in sync.todo /\ sync'.todo = sync.todo \ {j}
        BY DEF ClearStart, ImportStops, Clearing, Turn, Done, Types, Passes
      <4> QED
        BY <1>1, <3>1, <4>1
    <3> QED
      BY <2>1, <3>2, <3>3, DatesKept
  <2> QED
    BY <2>2, <2>3
<1>5. \A j \in Held' : Present(j)' /\ j \notin resetInSync' =>
          sync'.snapshot[j].start = accounts'[j].start
  BY <1>1, <1>2, <1>4, StartStays
<1> QED
  BY <1>1, <1>5 DEF StartInv

\* A sync that deals with an account knows the date it is to clear.
LEMMA StartStep ==
  ASSUME Types, IdsInv, StartInv, [ConnNext]_connVars
  PROVE  StartInv'
<1>1. CASE sync' = sync
  <2>1. ~SyncStarts \/ Held' = {}
    BY <1>1 DEF SyncStarts, Syncing, Held
  <2>2. ASSUME NEW j \in Held' PROVE DateKept(j) \/ j \in resetInSync'
    <3>1. j \in Ids /\ Syncing
      BY <1>1, <2>2, HeldIds DEF Held, StartInv, Syncing
    <3>2. ~ClearStart(j) /\ ~ImportStops(j)
      <4>1. ClearStart(j) \/ ImportStops(j) => j \in sync.todo /\ sync'.todo = sync.todo \ {j}
        BY DEF ClearStart, ImportStops, Clearing, Turn, Done, Types, Passes
      <4> QED
        BY <1>1, <4>1
    <3>3. CASE ResetSync(j)
      BY <3>1, <3>3 DEF ResetSync
    <3> QED
      BY <3>1, <3>2, <3>3, DatesKept
  <2>3. Held' = Held /\ sync'.snapshot = sync.snapshot
    BY <1>1 DEF Held
  <2>4. \A j \in Held' : Present(j)' /\ j \notin resetInSync' =>
            sync'.snapshot[j].start = accounts'[j].start
    BY <2>1, <2>2, <2>3, OnlyGrows, StartStays
  <2> QED
    BY <1>1, <2>4 DEF StartInv
<1>2. CASE SyncStarts
  <2>1. /\ sync'.todo = RowIds /\ sync'.synced = {} /\ sync'.at = "run"
        /\ \A i \in Ids : Present(i) => sync'.snapshot[i].start = accounts[i].start
        /\ accounts' = accounts
    BY <1>2 DEF SyncStarts, table
  <2> QED
    BY <2>1 DEF StartInv, Held, Present, RowIds
<1>3. CASE sync' = AtRest
  BY <1>3 DEF StartInv, Held, AtRest
<1>4. CASE Commits
  <2>1. /\ sync.at = "run" /\ sync'.at = "clear" /\ sync'.todo = Backfilled
        /\ sync'.snapshot = sync.snapshot /\ sync'.synced = sync.synced
        /\ UNCHANGED <<accounts, resetInSync>>
    BY <1>4 DEF Commits, Types, Passes, table, syncHistory
  <2>2. Backfilled \subseteq sync.synced /\ \A i \in Backfilled : sync.snapshot[i].start # 0
    BY DEF Backfilled
  <2> QED
    BY <2>1, <2>2 DEF StartInv, Held, Present
<1> QED
  BY <1>1, <1>2, <1>3, <1>4, TurnStarts, SyncMovers

\* What syncs know is kept by every step.
LEMMA StartHolds == ConnSpec => [](Types /\ IdsInv /\ StartInv)
  BY TypesInit, TypesStep, IdsInit, IdsStep, StartInit, StartStep, PTL DEF ConnSpec

\* A start date goes only by a sync that knew of one, came through with the
\* account and committed, and it is the date that sync knew unless the account
\* was reset meanwhile (handleResetSync); renewals, marks, removals, stopped
\* imports and failed commits leave it.
THEOREM ResetHonouredCorrect == ConnSpec => ResetHonoured
<1>1. ASSUME Types, IdsInv, StartInv, [ConnNext]_connVars
      PROVE  [\A i \in RowIds : accounts[i].start # 0 /\ Present(i)' /\ accounts'[i].start = 0
               => /\ AfterCommit /\ i \in sync.synced
                  /\ sync.snapshot[i].start # 0
                  /\ sync.snapshot[i].start = accounts[i].start \/ i \in resetInSync]_connVars
  <2> SUFFICES ASSUME NEW i \in RowIds, accounts[i].start # 0, Present(i)',
                      accounts'[i].start = 0
               PROVE  /\ AfterCommit /\ i \in sync.synced
                      /\ sync.snapshot[i].start # 0
                      /\ sync.snapshot[i].start = accounts[i].start \/ i \in resetInSync
    OBVIOUS
  <2>1. i \in Ids /\ Present(i) /\ ~(i > sequence) /\ accounts[i] \in Rows
    BY <1>1, PresentRows, ConnectionsAssumption DEF RowIds, IdsInv, Types, Ids, Slots, Present
  <2>2. CASE ClearStart(i)
    <3>1. i \in sync.todo /\ sync.at = "clear" /\ i \in Held
      BY <2>2 DEF ClearStart, Clearing, Held
    <3> QED
      BY <1>1, <2>1, <3>1 DEF StartInv, AfterCommit
  <2>3. CASE ResetSync(i) \/ ImportStops(i)
    <3>1. accounts' # accounts
      OBVIOUS
    <3>2. PICK d \in StartDates : accounts' = [accounts EXCEPT ![i].start = d]
      BY <2>3, <3>1 DEF ResetSync, ImportStops
    <3>3. accounts'[i] = [accounts[i] EXCEPT !.start = d]
      BY <1>1, <2>1, <3>2 DEF Types, Slots
    <3>4. accounts'[i].start = d /\ d # 0
      BY <2>1, <3>3, ConnectionsAssumption DEF Rows
    <3> QED
      BY <3>4
  <2>4. CASE DateKept(i)
    BY <2>1, <2>4 DEF DateKept
  <2> QED
    BY <1>1, <2>1, <2>2, <2>3, <2>4, DatesKept
<1> QED
  BY <1>1, StartHolds, PTL DEF ConnSpec, ResetHonoured

-----------------------------------------------------------------------------
(* What an authorisation was started for.                                  *)

Started == 1..Len(asked)

\* Flows have been started, and for an id the table has given out.
StartedInv ==
    /\ intent \in Seq(0..MaxIds) /\ Len(intent) = Len(asked)
    /\ \A f \in Started : intent[f] <= sequence
    /\ awaited \in Started \cup {0} /\ shown \subseteq Started
    /\ \A r \in Requests : req[r].at # "idle" => req[r].flow \in Started
    /\ \A e \in offer : e.uid.flow \in Started

\* What a request knows of a flow that met no other one.
Knows(r, f) ==
    /\ req[r].at = "complete" /\ f \notin authorised => renewId = intent[f]
    /\ req[r].at \in {"renew", "store", "offer"} => req[r].id = intent[f]
    /\ req[r].at = "offer" => offerRenews = intent[f]
    /\ req[r].at = "picked" =>
         \/ req[r].id = intent[f]
         \/ req[r].id = 0 /\ intent[f] \in Ids /\ ~Present(intent[f])

\* What the settings and the requests know of a flow that met no other one.
IntentInv ==
    /\ ~loose => renewId = 0
    /\ awaited # 0 /\ awaited \notin crossed => renewId = intent[awaited]
    /\ \A r \in Requests : \A f \in Started \ crossed : req[r].flow = f => Knows(r, f)
    /\ \A e \in offer : e.uid.flow \in crossed \/ offerRenews = intent[e.uid.flow]

\* Nothing is started at first.
LEMMA IntentInit == ConnInit => StartedInv /\ IntentInv
  BY IdleTypes, ConnectionsAssumption DEF ConnInit, StartedInv, IntentInv, Started

\* A request that learns nothing.
LearnsNone(q) ==
    \/ req'[q] = req[q]
    \/ req'[q].at = "idle"
    \/ req'[q].at = "clear" /\ req[q].at = "picked" /\ req'[q].flow = req[q].flow

\* A row that was there before, or that no authorisation was started for.
NotBack(i) == Present(i)' => Present(i) \/ i > sequence

\* What is known stays true when no setting is written.
LEMMA IntentStays ==
  ASSUME Types, StartedInv, IntentInv,
         UNCHANGED <<asked, intent, awaited, renewId, loose, offerRenews>>,
         shown' \subseteq Started, sequence' \in Nat, sequence <= sequence',
         authorised \subseteq authorised', crossed \subseteq crossed',
         offer' \subseteq offer, \A i \in Ids : NotBack(i), \A q \in Requests : LearnsNone(q)
  PROVE  StartedInv' /\ IntentInv'
<1> USE DEF Started
<1>1. StartedInv'
  <2>1. \A f \in Started : intent[f] \in Nat /\ intent[f] <= sequence'
    BY ConnectionsAssumption DEF StartedInv, Types
  <2>2. \A q \in Requests : req'[q].at # "idle" => req'[q].flow \in Started
    BY DEF StartedInv, LearnsNone
  <2> QED
    BY <2>1, <2>2 DEF StartedInv
<1>2. ASSUME NEW r \in Requests, NEW f \in Started, f \notin crossed', req'[r].flow = f
      PROVE  Knows(r, f)'
  <2>1. CASE req'[r] = req[r]
    <3>1. Knows(r, f)
      BY <1>2, <2>1 DEF IntentInv
    <3>2. intent[f] \in Ids /\ ~Present(intent[f]) => ~Present(intent[f])'
      <4> DEFINE i == intent[f]
      <4>1. i <= sequence /\ intent' = intent
        BY <1>2 DEF StartedInv
      <4>2. i \in Ids /\ ~Present(i) => ~accounts'[i].present
        BY <4>1, ConnectionsAssumption DEF NotBack, Present, Ids, Types
      <4> QED
        BY <4>1, <4>2 DEF Present
    <3> QED
      BY <2>1, <3>1, <3>2 DEF Knows
  <2>2. CASE req'[r].at \in {"idle", "clear"}
    BY <2>2 DEF Knows
  <2> QED
    BY <2>1, <2>2 DEF LearnsNone
<1>3. IntentInv'
  BY <1>2 DEF IntentInv
<1> QED
  BY <1>1, <1>3

\* A start adds its own flow to those that were started.
LEMMA IntentStarts ==
  ASSUME Types, StartedInv, NEW r \in Requests, NEW bank, NEW id \in 0..MaxIds, id <= sequence,
         Start(r, bank, id), bank \in Banks
  PROVE  /\ StartedInv' /\ intent' = Append(intent, id) /\ intent'[NextFlow] = id
         /\ \A f \in Started : intent'[f] = intent[f] /\ f # NextFlow
<1> USE DEF Started, NextFlow
<1>1. /\ asked \in Seq(Banks) /\ asked' = Append(asked, bank)
      /\ intent \in Seq(0..MaxIds) /\ intent' = Append(intent, id)
      /\ Len(intent) = Len(asked)
  BY DEF Start, Types, StartedInv
<1>2. /\ Len(asked') = Len(asked) + 1 /\ Len(asked) \in Nat
      /\ intent' \in Seq(0..MaxIds) /\ Len(intent') = Len(asked')
      /\ intent'[NextFlow] = id /\ \A f \in Started : intent'[f] = intent[f] /\ f # NextFlow
  BY <1>1
<1>3. /\ UNCHANGED <<shown, sequence, offer>> /\ awaited' = NextFlow
      /\ req' = [req EXCEPT ![r] = [Idle EXCEPT !.at = "start", !.flow = NextFlow, !.id = id]]
  BY DEF Start, table, picker
<1>4. req'[r].flow = NextFlow /\ \A q \in Requests \ {r} : req'[q] = req[q]
  BY <1>3 DEF Types, Idle
<1>5. Started' = Started \cup {NextFlow}
  BY <1>2
<1>6. \A f \in Started' : intent'[f] <= sequence'
  BY <1>2, <1>3, <1>5 DEF StartedInv
<1>7. \A q \in Requests : req'[q].at # "idle" => req'[q].flow \in Started'
  BY <1>4, <1>5 DEF StartedInv
<1> HIDE DEF Started
<1>8. StartedInv'
  BY <1>2, <1>3, <1>5, <1>6, <1>7 DEF StartedInv
<1> QED
  BY <1>1, <1>2, <1>8

\* What the others know stays true, unless it is a renewal that is started
\* while they await an answer.
LEMMA StartKnows ==
  ASSUME Types, StartedInv, IntentInv, NEW r \in Requests, NEW bank, NEW id,
         Start(r, bank, id), crossed \subseteq crossed',
         renewId' = renewId \/ Answering \subseteq crossed',
         \A f \in Started : intent'[f] = intent[f] /\ f # NextFlow,
         NEW q \in Requests, NEW f \in Started', f \notin crossed', req'[q].flow = f
  PROVE  Knows(q, f)'
<1>1. /\ UNCHANGED <<accounts, authorised, offerRenews>>
      /\ req' = [req EXCEPT ![r] = [Idle EXCEPT !.at = "start", !.flow = NextFlow, !.id = id]]
  BY DEF Start, table, picker
<1>2. CASE q = r
  <2>1. req'[q].at = "start"
    BY <1>1, <1>2 DEF Types, Idle
  <2> QED
    BY <2>1 DEF Knows
<1>3. CASE q # r /\ req[q].at = "idle"
  <2>1. req'[q].at = "idle"
    BY <1>1, <1>3 DEF Types
  <2> QED
    BY <2>1 DEF Knows
<1>4. CASE q # r /\ req[q].at # "idle"
  <2>1. req'[q] = req[q] /\ f \in Started \ crossed
    BY <1>1, <1>4 DEF Types, StartedInv
  <2>2. Knows(q, f) /\ intent'[f] = intent[f]
    BY <2>1 DEF IntentInv
  <2>3. req[q].at = "complete" => renewId' = renewId
    BY <2>1 DEF Answering, FlowsAt
  <2> QED
    BY <1>1, <2>1, <2>2, <2>3 DEF Knows, Present
<1> QED
  BY <1>2, <1>3, <1>4

\* What the settings say of a flow that met no other one is its own, from the
\* start to the last write.
LEMMA IntentStep ==
  ASSUME Types, Types', IdsInv, FlowInv, StartedInv, IntentInv, [ConnNext]_connVars
  PROVE  StartedInv' /\ IntentInv'
<1> USE IdleTypes, ConnectionsAssumption
    DEF Types, Tickets, connVars, bankSide, table, pending, picker, flowHistory, syncHistory
<1>0. sequence' \in Nat /\ sequence <= sequence'
  BY OnlyGrows
<1>1. ASSUME NEW r \in Requests, NEW b \in Banks, Connect(r, b) PROVE StartedInv' /\ IntentInv'
  <2>1. Start(r, b, 0) /\ UNCHANGED <<renewId, loose>>
        /\ crossed' = IF loose THEN crossed \cup {NextFlow} ELSE crossed
    BY <1>1 DEF Connect
  <2>2. StartedInv' /\ intent' = Append(intent, 0) /\ intent'[NextFlow] = 0
        /\ \A f \in Started : intent'[f] = intent[f] /\ f # NextFlow
    BY <2>1, IntentStarts
  <2>3. awaited' = NextFlow /\ (NextFlow \notin crossed' => renewId = 0)
    BY <2>1 DEF Start, IntentInv
  <2>4. \A q \in Requests, f \in Started' : f \notin crossed' /\ req'[q].flow = f => Knows(q, f)'
    BY <2>1, <2>2, StartKnows
  <2>5. \A e \in offer' : e.uid.flow \in crossed' \/ offerRenews' = intent'[e.uid.flow]
    BY <2>1, <2>2 DEF IntentInv, StartedInv, Start
  <2> QED
    BY <2>1, <2>2, <2>3, <2>4, <2>5 DEF IntentInv
<1>2. ASSUME NEW r \in Requests, NEW i \in Ids, StartRenewal(r, i) PROVE StartedInv' /\ IntentInv'
  <2>1. /\ Start(r, BankOf[accounts[i].uid.real], i) /\ renewId' = i /\ loose' = TRUE
        /\ crossed' = crossed \cup Answering /\ i \in 0..MaxIds /\ i <= sequence
    BY <1>2 DEF StartRenewal, IdsInv, Ids
  <2> DEFINE bank == BankOf[accounts[i].uid.real]
  <2>2. bank \in Banks
    <3>1. accounts[i] \in Rows
      BY <1>2, PresentRows DEF StartRenewal, Slots, Present
    <3> QED
      BY <3>1 DEF Rows, Uid, Banks
  <2>3. Start(r, bank, i) /\ crossed \subseteq crossed' /\ Answering \subseteq crossed'
    BY <2>1
  <2> HIDE DEF bank
  <2>4. StartedInv' /\ intent' = Append(intent, i) /\ intent'[NextFlow] = i
        /\ \A f \in Started : intent'[f] = intent[f] /\ f # NextFlow
    BY <2>2, <2>3, <2>1, IntentStarts
  <2>5. awaited' = NextFlow
    BY <2>1 DEF Start
  <2>6. \A q \in Requests, f \in Started' : f \notin crossed' /\ req'[q].flow = f => Knows(q, f)'
    BY <2>3, <2>4, StartKnows
  <2>7. \A e \in offer' : e.uid.flow \in crossed' \/ offerRenews' = intent'[e.uid.flow]
    BY <2>1, <2>4 DEF IntentInv, StartedInv, Start
  <2> QED
    BY <2>1, <2>4, <2>5, <2>6, <2>7 DEF IntentInv
<1>3. ASSUME NEW r \in Requests, NEW f \in Flows, Callback(r, f) PROVE StartedInv' /\ IntentInv'
  <2>1. /\ f \in shown /\ awaited = f /\ f \in Started
        /\ req' = [req EXCEPT ![r] = [Idle EXCEPT !.at = "complete", !.flow = f]]
        /\ UNCHANGED <<bankSide, table, pending, picker, intent, loose, crossed>>
    BY <1>3 DEF Callback, StartedInv
  <2>2. req'[r].at = "complete" /\ req'[r].flow = f /\ \A q \in Requests \ {r} : req'[q] = req[q]
    BY <2>1 DEF Idle
  <2>3. StartedInv'
    BY <2>1, <2>2 DEF StartedInv, Started
  <2>4. f \notin crossed => renewId = intent[f]
    BY <2>1 DEF IntentInv, Started
  <2>5. ASSUME NEW q \in Requests, NEW g \in Started, g \notin crossed, req'[q].flow = g
        PROVE  Knows(q, g)'
    <3>1. CASE q = r
      BY <2>1, <2>2, <2>4, <2>5, <3>1 DEF Knows
    <3>2. CASE q # r
      <4>1. Knows(q, g) /\ req'[q] = req[q]
        BY <2>2, <2>5, <3>2 DEF IntentInv
      <4> QED
        BY <2>1, <4>1 DEF Knows, Present
    <3> QED
      BY <3>1, <3>2
  <2> QED
    BY <2>1, <2>3, <2>5 DEF IntentInv, Started
<1>4. ASSUME NEW r \in Requests, StartAnswered(r) PROVE StartedInv' /\ IntentInv'
  <2>1. /\ UNCHANGED <<asked, intent, awaited, renewId, loose, offerRenews>>
        /\ authorised \subseteq authorised' /\ crossed \subseteq crossed' /\ offer' \subseteq offer
    BY <1>4 DEF StartAnswered
  <2>2. shown' \subseteq Started
    BY <1>4 DEF StartAnswered, StartedInv
  <2>3. \A j \in Ids : NotBack(j)
    BY <1>4 DEF StartAnswered, NotBack, Present
  <2>4. \A q \in Requests : LearnsNone(q)
    BY <1>4 DEF StartAnswered, LearnsNone
  <2> QED
    BY <2>2, <1>0, <2>1, <2>3, <2>4, IntentStays
<1>5. ASSUME NEW r \in Requests, StartRefused(r) PROVE StartedInv' /\ IntentInv'
  <2>1. /\ UNCHANGED <<asked, intent, awaited, renewId, loose, offerRenews>>
        /\ shown' \subseteq Started /\ authorised \subseteq authorised'
        /\ crossed \subseteq crossed' /\ offer' \subseteq offer
    BY <1>5 DEF StartRefused, StartedInv
  <2>3. \A j \in Ids : NotBack(j)
    BY <1>5 DEF StartRefused, NotBack, Present
  <2>4. \A q \in Requests : LearnsNone(q)
    BY <1>5 DEF StartRefused, LearnsNone
  <2> QED
    BY <1>0, <2>1, <2>3, <2>4, IntentStays
<1>6. ASSUME NEW r \in Requests, CallbackFails(r) PROVE StartedInv' /\ IntentInv'
  <2>1. /\ UNCHANGED <<asked, intent, awaited, renewId, loose, offerRenews>>
        /\ shown' \subseteq Started /\ authorised \subseteq authorised'
        /\ crossed \subseteq crossed' /\ offer' \subseteq offer
    BY <1>6 DEF CallbackFails, StartedInv
  <2>3. \A j \in Ids : NotBack(j)
    BY <1>6 DEF CallbackFails, NotBack, Present
  <2>4. \A q \in Requests : LearnsNone(q)
    BY <1>6 DEF CallbackFails, LearnsNone
  <2> QED
    BY <1>0, <2>1, <2>3, <2>4, IntentStays
<1>7. ASSUME NEW r \in Requests, FinishAuth(r) PROVE StartedInv' /\ IntentInv'
  <2> DEFINE f == req[r].flow
  <2>1. PICK S \in SUBSET Real, what \in Reveals : req' = [req EXCEPT ![r] = Granted(f, S, what)]
    BY <1>7, FinishGrants
  <2> DEFINE g == Granted(f, S, what)
  <2>2. /\ UNCHANGED <<accounts, sequence, offer, offerRenews, asked, shown, intent>>
        /\ authorised' = authorised \cup {f} /\ f \notin authorised /\ req[r].at = "complete"
        /\ awaited' = 0 /\ renewId' = 0 /\ loose' = FALSE
        /\ crossed' = crossed \cup (({awaited} \cup Answering) \ {0, f})
    BY <1>7 DEF FinishAuth, PendingCleared
  <2>3. /\ g.at = "idle" \/ (g.at \in {"renew", "store"} /\ g.flow = f /\ g.id = renewId)
    BY DEF Granted
  <2>4. req'[r] = g /\ \A q \in Requests \ {r} : req'[q] = req[q]
    BY <2>1
  <2>5. f \in Started
    BY <2>2 DEF StartedInv
  <2>6. f \notin crossed => renewId = intent[f]
    BY <2>2, <2>5 DEF IntentInv, Knows
  <2> HIDE DEF f, g
  <2>7. StartedInv'
    <3>1. Started' = Started /\ f \in Started
      BY <2>2, <2>5 DEF Started
    <3>2. \A q \in Requests : req'[q].at # "idle" => req'[q].flow \in Started
      <4> SUFFICES ASSUME NEW q \in Requests, req'[q].at # "idle"
                   PROVE  req'[q].flow \in Started
        OBVIOUS
      <4>1. CASE q = r
        BY <2>3, <2>4, <2>5, <4>1
      <4>2. CASE q # r
        <5>1. req'[q] = req[q]
          BY <2>4, <4>2
        <5> QED
          BY <5>1 DEF StartedInv
      <4> QED
        BY <4>1, <4>2
    <3>3. /\ intent' = intent /\ sequence' = sequence /\ awaited' = 0 /\ shown' = shown
          /\ offer' = offer /\ asked' = asked
      BY <2>2
    <3> QED
      BY <3>1, <3>2, <3>3 DEF StartedInv
  <2>8. ASSUME NEW q \in Requests, NEW h \in Started, h \notin crossed', req'[q].flow = h
        PROVE  Knows(q, h)'
    <3>1. CASE q = r
      BY <2>2, <2>3, <2>4, <2>6, <2>8, <3>1 DEF Knows
    <3>2. CASE q # r
      <4>1. Knows(q, h) /\ req'[q] = req[q]
        BY <2>2, <2>4, <2>8, <3>2 DEF IntentInv
      <4>2. req[q].at = "complete" => h \in authorised'
        <5>1. req[q].at = "complete" => h \in Answering
          BY <2>8, <4>1 DEF Answering, FlowsAt
        <5>2. h # 0
          BY DEF Started
        <5> QED
          BY <2>2, <2>8, <5>1, <5>2
      <4> QED
        BY <2>2, <4>1, <4>2 DEF Knows, Present
    <3> QED
      BY <3>1, <3>2
  <2>9. IntentInv'
    BY <2>2, <2>8 DEF IntentInv, Started
  <2> QED
    BY <2>7, <2>9
<1>8. ASSUME NEW r \in Requests, RenewRow(r) PROVE StartedInv' /\ IntentInv'
  <2>1. /\ UNCHANGED <<asked, intent, awaited, renewId, loose, offerRenews>>
        /\ shown' \subseteq Started /\ authorised \subseteq authorised'
        /\ crossed \subseteq crossed' /\ offer' \subseteq offer
    BY <1>8 DEF RenewRow, StartedInv
  <2>2. req[r].id \in Ids /\ WriteRenewal(r)
    BY <1>8 DEF RenewRow, Ids
  <2>3. \A j \in Ids : NotBack(j)
    BY <2>2, WriteRows DEF WrittenBy, NotBack
  <2>4. \A q \in Requests : LearnsNone(q)
    BY <1>8 DEF RenewRow, LearnsNone
  <2> QED
    BY <1>0, <2>1, <2>3, <2>4, IntentStays
<1>9. ASSUME NEW r \in Requests, StoreRenews(r) PROVE StartedInv' /\ IntentInv'
  <2>1. /\ req[r].at = "store" /\ offerRenews' = req[r].id
        /\ crossed' = crossed \cup Offering \cup {e.uid.flow : e \in offer}
        /\ UNCHANGED <<bankSide, table, pending, offer, intent, loose>>
        /\ req' = [req EXCEPT ![r] = [req[r] EXCEPT !.at = "offer"]]
    BY <1>9 DEF StoreRenews
  <2>0. crossed \subseteq crossed' /\ Offering \subseteq crossed'
    BY <2>1
  <2>2. /\ req'[r].at = "offer" /\ req'[r].flow = req[r].flow /\ req'[r].id = req[r].id
        /\ \A q \in Requests \ {r} : req'[q] = req[q]
    BY <2>1
  <2>3. StartedInv'
    BY <2>1, <2>2 DEF StartedInv, Started
  <2>4. ASSUME NEW q \in Requests, NEW h \in Started, h \notin crossed', req'[q].flow = h
        PROVE  Knows(q, h)'
    <3>1. CASE q = r
      <4>1. Knows(r, h)
        BY ZenonT(30), <2>0, <2>2, <2>4, <3>1 DEF IntentInv
      <4> QED
        BY <2>1, <2>2, <3>1, <4>1 DEF Knows
    <3>2. CASE q # r
      <4>0. req'[q] = req[q] /\ req[q].flow = h
        BY <2>2, <2>4, <3>2
      <4>1. Knows(q, h) /\ req'[q] = req[q]
        BY ZenonT(60), <2>0, <2>4, <4>0 DEF IntentInv
      <4>2. req[q].at # "offer"
        BY <2>0, <2>4, <4>1 DEF Offering, FlowsAt
      <4> QED
        BY <2>1, <4>1, <4>2 DEF Knows, Present
    <3> QED
      BY <3>1, <3>2
  <2>5. IntentInv'
    BY <2>1, <2>4 DEF IntentInv, Started
  <2> QED
    BY <2>3, <2>5
<1>10. ASSUME NEW r \in Requests, StoreOffer(r) PROVE StartedInv' /\ IntentInv'
  <2>1. /\ req[r].at = "offer" /\ offer' = req[r].entries
        /\ UNCHANGED <<bankSide, table, pending, offerRenews, intent, loose, crossed>>
        /\ req'[r].at = "idle" /\ \A q \in Requests \ {r} : req'[q] = req[q]
    BY <1>10 DEF StoreOffer
  <2>2. /\ \A e \in offer' : e.uid.flow = req[r].flow
        /\ req[r].flow \in Started
    BY <2>1 DEF FlowInv, OwnEntries, Carries, StartedInv
  <2>3. req[r].flow \notin crossed => offerRenews = intent[req[r].flow]
    BY <2>1, <2>2 DEF IntentInv, Knows
  <2>4. StartedInv'
    BY <2>1, <2>2 DEF StartedInv, Started
  <2>5. ASSUME NEW q \in Requests, NEW h \in Started, h \notin crossed, req'[q].flow = h
        PROVE  Knows(q, h)'
    <3>1. CASE q = r
      BY <2>1, <3>1 DEF Knows
    <3>2. CASE q # r
      <4>1. Knows(q, h) /\ req'[q] = req[q]
        BY <2>1, <2>5, <3>2 DEF IntentInv
      <4> QED
        BY <2>1, <4>1 DEF Knows, Present
    <3> QED
      BY <3>1, <3>2
  <2>6. IntentInv'
    BY <2>1, <2>2, <2>3, <2>5 DEF IntentInv, Started
  <2> QED
    BY <2>4, <2>6
<1>11. ASSUME NEW r \in Requests, Pick(r) PROVE StartedInv' /\ IntentInv'
  <2>1. PICK e \in offer :
           req'[r].at = "picked" /\ req'[r].flow = e.uid.flow
           /\ req'[r].id = IF offerRenews # 0 /\ Present(offerRenews) THEN offerRenews ELSE 0
    BY <1>11 DEF Pick
  <2>2. /\ UNCHANGED <<bankSide, table, pending, picker, intent, loose, crossed>>
        /\ \A q \in Requests \ {r} : req'[q] = req[q]
    BY <1>11 DEF Pick
  <2>3. e.uid.flow \in Started /\ (e.uid.flow \in crossed \/ offerRenews = intent[e.uid.flow])
    BY DEF StartedInv, IntentInv
  <2>4. StartedInv'
    BY <2>1, <2>2, <2>3 DEF StartedInv, Started
  <2>5. ASSUME NEW q \in Requests, NEW h \in Started, h \notin crossed, req'[q].flow = h
        PROVE  Knows(q, h)'
    <3>1. CASE q = r
      <4>1. offerRenews = intent[h] /\ offerRenews \in 0..MaxIds
        BY <2>1, <2>3, <2>5, <3>1
      <4>2. req'[r].id = intent[h] \/ (req'[r].id = 0 /\ intent[h] \in Ids /\ ~Present(intent[h]))
        BY <2>1, <4>1 DEF Ids
      <4> QED
        BY <2>1, <2>2, <3>1, <4>2 DEF Knows, Present
    <3>2. CASE q # r
      <4>1. Knows(q, h) /\ req'[q] = req[q]
        BY <2>2, <2>5, <3>2 DEF IntentInv
      <4> QED
        BY <2>2, <4>1 DEF Knows, Present
    <3> QED
      BY <3>1, <3>2
  <2>6. IntentInv'
    BY <2>2, <2>5 DEF IntentInv, Started
  <2> QED
    BY <2>4, <2>6
<1>12. ASSUME NEW r \in Requests, PickRenews(r) PROVE StartedInv' /\ IntentInv'
  <2>1. /\ UNCHANGED <<asked, intent, awaited, renewId, loose, offerRenews>>
        /\ shown' \subseteq Started /\ authorised \subseteq authorised'
        /\ crossed \subseteq crossed' /\ offer' \subseteq offer
    BY <1>12 DEF PickRenews, StartedInv
  <2>2. req[r].id \in Ids /\ WriteRenewal(r)
    BY <1>12 DEF PickRenews, Ids
  <2>3. \A j \in Ids : NotBack(j)
    BY <2>2, WriteRows DEF WrittenBy, NotBack
  <2>4. \A q \in Requests : LearnsNone(q)
    BY <1>12 DEF PickRenews, LearnsNone
  <2> QED
    BY <1>0, <2>1, <2>3, <2>4, IntentStays
<1>13. ASSUME NEW r \in Requests, PickAdds(r) PROVE StartedInv' /\ IntentInv'
  <2>1. /\ UNCHANGED <<asked, intent, awaited, renewId, loose, offerRenews>>
        /\ shown' \subseteq Started /\ authorised \subseteq authorised'
        /\ crossed \subseteq crossed' /\ offer' \subseteq offer
    BY <1>13 DEF PickAdds, StartedInv
  <2>2. NextId > sequence
    BY DEF NextId
  <2>3. \A j \in Ids : NotBack(j)
    BY <1>13, <2>2, AddRows DEF NotBack, Present
  <2>4. \A q \in Requests : LearnsNone(q)
    BY <1>13 DEF PickAdds, LearnsNone
  <2> QED
    BY <1>0, <2>1, <2>3, <2>4, IntentStays
<1>14. ASSUME NEW r \in Requests, PickClears(r) PROVE StartedInv' /\ IntentInv'
  <2>1. /\ offer' = {} /\ crossed' = crossed \cup Offering
        /\ UNCHANGED <<bankSide, table, pending, intent, loose>>
        /\ req'[r].at = "idle" /\ \A q \in Requests \ {r} : req'[q] = req[q]
    BY <1>14 DEF PickClears, OfferCleared
  <2>2. StartedInv'
    BY <2>1 DEF StartedInv, Started
  <2>3. ASSUME NEW q \in Requests, NEW h \in Started, h \notin crossed', req'[q].flow = h
        PROVE  Knows(q, h)'
    <3>1. CASE q = r
      BY <2>1, <3>1 DEF Knows
    <3>2. CASE q # r
      <4>1. Knows(q, h) /\ req'[q] = req[q]
        BY <2>1, <2>3, <3>2 DEF IntentInv
      <4>2. req[q].at # "offer"
        BY <2>1, <2>3, <4>1 DEF Offering, FlowsAt
      <4> QED
        BY <2>1, <4>1, <4>2 DEF Knows, Present
    <3> QED
      BY <3>1, <3>2
  <2>4. IntentInv'
    BY <2>1, <2>3 DEF IntentInv, Started
  <2> QED
    BY <2>2, <2>4
<1>15. ASSUME NEW r \in Requests, PickClearFails(r) PROVE StartedInv' /\ IntentInv'
  <2>1. /\ UNCHANGED <<asked, intent, awaited, renewId, loose, offerRenews>>
        /\ shown' \subseteq Started /\ authorised \subseteq authorised'
        /\ crossed \subseteq crossed' /\ offer' \subseteq offer
    BY <1>15 DEF PickClearFails, StartedInv
  <2>3. \A j \in Ids : NotBack(j)
    BY <1>15 DEF PickClearFails, NotBack, Present
  <2>4. \A q \in Requests : LearnsNone(q)
    BY <1>15 DEF PickClearFails, LearnsNone
  <2> QED
    BY <1>0, <2>1, <2>3, <2>4, IntentStays
<1>16. CASE SyncStarts
  <2>1. /\ UNCHANGED <<asked, intent, awaited, renewId, loose, offerRenews>>
        /\ shown' \subseteq Started /\ authorised \subseteq authorised'
        /\ crossed \subseteq crossed' /\ offer' \subseteq offer
    BY <1>16 DEF SyncStarts, StartedInv
  <2>3. \A j \in Ids : NotBack(j)
    BY <1>16 DEF SyncStarts, NotBack, Present
  <2>4. \A q \in Requests : LearnsNone(q)
    BY <1>16 DEF SyncStarts, LearnsNone
  <2> QED
    BY <1>0, <2>1, <2>3, <2>4, IntentStays
<1>17. ASSUME NEW i \in Ids, SkipEnded(i) PROVE StartedInv' /\ IntentInv'
  <2>1. /\ UNCHANGED <<asked, intent, awaited, renewId, loose, offerRenews>>
        /\ shown' \subseteq Started /\ authorised \subseteq authorised'
        /\ crossed \subseteq crossed' /\ offer' \subseteq offer
    BY <1>17 DEF SkipEnded, StartedInv
  <2>3. \A j \in Ids : NotBack(j)
    BY <1>17 DEF SkipEnded, NotBack, Present
  <2>4. \A q \in Requests : LearnsNone(q)
    BY <1>17 DEF SkipEnded, LearnsNone
  <2> QED
    BY <1>0, <2>1, <2>3, <2>4, IntentStays
<1>18. ASSUME NEW i \in Ids, FetchAccount(i) PROVE StartedInv' /\ IntentInv'
  <2>1. /\ UNCHANGED <<asked, intent, awaited, renewId, loose, offerRenews>>
        /\ shown' \subseteq Started /\ authorised \subseteq authorised'
        /\ crossed \subseteq crossed' /\ offer' \subseteq offer
    BY <1>18 DEF FetchAccount, StartedInv
  <2>3. \A j \in Ids : NotBack(j)
    BY <1>18 DEF FetchAccount, NotBack, Present
  <2>4. \A q \in Requests : LearnsNone(q)
    BY <1>18 DEF FetchAccount, LearnsNone
  <2> QED
    BY <1>0, <2>1, <2>3, <2>4, IntentStays
<1>19. ASSUME NEW i \in Ids, SessionEnded(i) PROVE StartedInv' /\ IntentInv'
  <2>1. /\ UNCHANGED <<asked, intent, awaited, renewId, loose, offerRenews>>
        /\ shown' \subseteq Started /\ authorised \subseteq authorised'
        /\ crossed \subseteq crossed' /\ offer' \subseteq offer
    BY <1>19 DEF SessionEnded, StartedInv
  <2>3. \A j \in Ids : NotBack(j)
    BY <1>19, MarkRows DEF SessionEnded, Kept, NotBack
  <2>4. \A q \in Requests : LearnsNone(q)
    BY <1>19 DEF SessionEnded, LearnsNone
  <2> QED
    BY <1>0, <2>1, <2>3, <2>4, IntentStays
<1>20. ASSUME NEW i \in Ids, FetchError(i) PROVE StartedInv' /\ IntentInv'
  <2>1. /\ UNCHANGED <<asked, intent, awaited, renewId, loose, offerRenews>>
        /\ shown' \subseteq Started /\ authorised \subseteq authorised'
        /\ crossed \subseteq crossed' /\ offer' \subseteq offer
    BY <1>20 DEF FetchError, StartedInv
  <2>3. \A j \in Ids : NotBack(j)
    BY <1>20 DEF FetchError, NotBack, Present
  <2>4. \A q \in Requests : LearnsNone(q)
    BY <1>20 DEF FetchError, LearnsNone
  <2> QED
    BY <1>0, <2>1, <2>3, <2>4, IntentStays
<1>21. ASSUME NEW i \in Ids, ImportStops(i) PROVE StartedInv' /\ IntentInv'
  <2>1. /\ UNCHANGED <<asked, intent, awaited, renewId, loose, offerRenews>>
        /\ shown' \subseteq Started /\ authorised \subseteq authorised'
        /\ crossed \subseteq crossed' /\ offer' \subseteq offer
    BY <1>21 DEF ImportStops, StartedInv
  <2>3. \A j \in Ids : NotBack(j)
    BY <1>21, DatedRows DEF Kept, NotBack
  <2>4. \A q \in Requests : LearnsNone(q)
    BY <1>21 DEF ImportStops, LearnsNone
  <2> QED
    BY <1>0, <2>1, <2>3, <2>4, IntentStays
<1>22. CASE Commits
  <2>1. /\ UNCHANGED <<asked, intent, awaited, renewId, loose, offerRenews>>
        /\ shown' \subseteq Started /\ authorised \subseteq authorised'
        /\ crossed \subseteq crossed' /\ offer' \subseteq offer
    BY <1>22 DEF Commits, StartedInv
  <2>3. \A j \in Ids : NotBack(j)
    BY <1>22 DEF Commits, NotBack, Present
  <2>4. \A q \in Requests : LearnsNone(q)
    BY <1>22 DEF Commits, LearnsNone
  <2> QED
    BY <1>0, <2>1, <2>3, <2>4, IntentStays
<1>23. ASSUME NEW i \in Ids, ClearStart(i) PROVE StartedInv' /\ IntentInv'
  <2>1. /\ UNCHANGED <<asked, intent, awaited, renewId, loose, offerRenews>>
        /\ shown' \subseteq Started /\ authorised \subseteq authorised'
        /\ crossed \subseteq crossed' /\ offer' \subseteq offer
    BY <1>23 DEF ClearStart, StartedInv
  <2>3. \A j \in Ids : NotBack(j)
    BY <1>23, DatedRows DEF Kept, NotBack
  <2>4. \A q \in Requests : LearnsNone(q)
    BY <1>23 DEF ClearStart, LearnsNone
  <2> QED
    BY <1>0, <2>1, <2>3, <2>4, IntentStays
<1>24. ASSUME NEW i \in Ids, ClearFails(i) PROVE StartedInv' /\ IntentInv'
  <2>1. /\ UNCHANGED <<asked, intent, awaited, renewId, loose, offerRenews>>
        /\ shown' \subseteq Started /\ authorised \subseteq authorised'
        /\ crossed \subseteq crossed' /\ offer' \subseteq offer
    BY <1>24 DEF ClearFails, StartedInv
  <2>3. \A j \in Ids : NotBack(j)
    BY <1>24 DEF ClearFails, NotBack, Present
  <2>4. \A q \in Requests : LearnsNone(q)
    BY <1>24 DEF ClearFails, LearnsNone
  <2> QED
    BY <1>0, <2>1, <2>3, <2>4, IntentStays
<1>25. CASE SyncEnds
  <2>1. /\ UNCHANGED <<asked, intent, awaited, renewId, loose, offerRenews>>
        /\ shown' \subseteq Started /\ authorised \subseteq authorised'
        /\ crossed \subseteq crossed' /\ offer' \subseteq offer
    BY <1>25 DEF SyncEnds, StartedInv
  <2>3. \A j \in Ids : NotBack(j)
    BY <1>25 DEF SyncEnds, NotBack, Present
  <2>4. \A q \in Requests : LearnsNone(q)
    BY <1>25 DEF SyncEnds, LearnsNone
  <2> QED
    BY <1>0, <2>1, <2>3, <2>4, IntentStays
<1>26. CASE SyncFails
  <2>1. /\ UNCHANGED <<asked, intent, awaited, renewId, loose, offerRenews>>
        /\ shown' \subseteq Started /\ authorised \subseteq authorised'
        /\ crossed \subseteq crossed' /\ offer' \subseteq offer
    BY <1>26 DEF SyncFails, StartedInv
  <2>3. \A j \in Ids : NotBack(j)
    BY <1>26 DEF SyncFails, NotBack, Present
  <2>4. \A q \in Requests : LearnsNone(q)
    BY <1>26 DEF SyncFails, LearnsNone
  <2> QED
    BY <1>0, <2>1, <2>3, <2>4, IntentStays
<1>27. CASE ProcessDies
  <2>1. /\ UNCHANGED <<asked, intent, awaited, renewId, loose, offerRenews>>
        /\ shown' \subseteq Started /\ authorised \subseteq authorised'
        /\ crossed \subseteq crossed' /\ offer' \subseteq offer
    BY <1>27 DEF ProcessDies, StartedInv
  <2>3. \A j \in Ids : NotBack(j)
    BY <1>27 DEF ProcessDies, NotBack, Present
  <2>4. \A q \in Requests : LearnsNone(q)
    BY <1>27 DEF ProcessDies, LearnsNone
  <2> QED
    BY <1>0, <2>1, <2>3, <2>4, IntentStays
<1>28. ASSUME NEW i \in Ids, RemoveAccount(i) PROVE StartedInv' /\ IntentInv'
  <2>1. /\ UNCHANGED <<asked, intent, awaited, renewId, loose, offerRenews>>
        /\ shown' \subseteq Started /\ authorised \subseteq authorised'
        /\ crossed \subseteq crossed' /\ offer' \subseteq offer
    BY <1>28 DEF RemoveAccount, StartedInv
  <2>3. \A j \in Ids : NotBack(j)
    BY <1>28, RemoveRows DEF NotBack, Present
  <2>4. \A q \in Requests : LearnsNone(q)
    BY <1>28 DEF RemoveAccount, LearnsNone
  <2> QED
    BY <1>0, <2>1, <2>3, <2>4, IntentStays
<1>29. ASSUME NEW i \in Ids, ResetSync(i) PROVE StartedInv' /\ IntentInv'
  <2>1. /\ UNCHANGED <<asked, intent, awaited, renewId, loose, offerRenews>>
        /\ shown' \subseteq Started /\ authorised \subseteq authorised'
        /\ crossed \subseteq crossed' /\ offer' \subseteq offer
    BY <1>29 DEF ResetSync, StartedInv
  <2>3. \A j \in Ids : NotBack(j)
    BY <1>29, DatedRows DEF Kept, NotBack
  <2>4. \A q \in Requests : LearnsNone(q)
    BY <1>29 DEF ResetSync, LearnsNone
  <2> QED
    BY <1>0, <2>1, <2>3, <2>4, IntentStays
<1>30. ASSUME NEW f \in Flows, BankEnds(f) PROVE StartedInv' /\ IntentInv'
  <2>1. /\ UNCHANGED <<asked, intent, awaited, renewId, loose, offerRenews>>
        /\ shown' \subseteq Started /\ authorised \subseteq authorised'
        /\ crossed \subseteq crossed' /\ offer' \subseteq offer
    BY <1>30 DEF BankEnds, StartedInv
  <2>3. \A j \in Ids : NotBack(j)
    BY <1>30 DEF BankEnds, NotBack, Present
  <2>4. \A q \in Requests : LearnsNone(q)
    BY <1>30 DEF BankEnds, LearnsNone
  <2> QED
    BY <1>0, <2>1, <2>3, <2>4, IntentStays
<1>31. CASE UNCHANGED connVars
  <2>1. /\ UNCHANGED <<asked, intent, awaited, renewId, loose, offerRenews>>
        /\ shown' \subseteq Started /\ authorised \subseteq authorised'
        /\ crossed \subseteq crossed' /\ offer' \subseteq offer
    BY <1>31 DEF StartedInv
  <2>3. \A j \in Ids : NotBack(j)
    BY <1>31 DEF NotBack, Present
  <2>4. \A q \in Requests : LearnsNone(q)
    BY <1>31 DEF LearnsNone
  <2> QED
    BY <1>0, <2>1, <2>3, <2>4, IntentStays
<1> QED
  BY <1>1, <1>2, <1>3, <1>4, <1>5, <1>6, <1>7, <1>8, <1>9, <1>10, <1>11, <1>12, <1>13,
     <1>14, <1>15, <1>16, <1>17, <1>18, <1>19, <1>20, <1>21, <1>22, <1>23, <1>24, <1>25,
     <1>26, <1>27, <1>28, <1>29, <1>30, <1>31
  DEF ConnNext, RequestStep, SyncStep, AccountTurn, DateTurn

\* Intents too are kept by every step.
LEMMA IntentHolds == ConnSpec => [](Types /\ IdsInv /\ FlowInv /\ StartedInv /\ IntentInv)
  BY TypesInit, TypesStep, IdsInit, IdsStep, SessionInit, SessionStep, FlowInit, FlowStep,
     IntentInit, IntentStep, PTL
  DEF ConnSpec

\* An authorisation that met no other one in the settings all share writes the
\* row it was started for, or a new row when it was started for one or when
\* the row to renew is gone (finishAuth, handlePickAccount).
THEOREM DoneAsAskedCorrect == ConnSpec => DoneAsAsked
<1>1. ASSUME Types, IdsInv, FlowInv, StartedInv, IntentInv, [ConnNext]_connVars
      PROVE  [\A f \in 1..Len(asked), i \in Ids :
                Writes(f, i) => \/ f \in crossed
                                \/ Present(i) /\ intent[f] = i
                                \/ ~Present(i) /\ intent[f] = 0
                                \/ ~Present(i) /\ ~Present(intent[f])]_connVars
  <2> SUFFICES ASSUME NEW f \in 1..Len(asked), NEW i \in Ids, Present(i)',
                      accounts'[i].uid.flow = f, Present(i) => accounts[i].uid.flow # f,
                      f \notin crossed
               PROVE  \/ Present(i) /\ intent[f] = i
                      \/ ~Present(i) /\ intent[f] = 0
                      \/ ~Present(i) /\ ~Present(intent[f])
    BY DEF Writes
  <2>0. f \in Started \ crossed
    BY DEF Started
  <2>1. ~Kept(i) /\ accounts' # accounts
    BY DEF Kept, Present
  <2>2. ASSUME NEW r \in Requests, req[r].id \in Ids, WriteRenewal(r),
               req[r].at \in {"renew", "picked"}
        PROVE  Present(i) /\ intent[f] = i
    <3>1. PICK e \in req[r].entries : WrittenBy(req[r].id, e, req[r].sure)
      BY <1>1, <2>2, WriteRows
    <3>2. req[r].flow \in Flows
      BY <1>1 DEF Types, Tickets
    <3>3. e.uid.flow = req[r].flow
      BY <1>1, <2>2, <3>1, <3>2 DEF FlowInv, OwnEntries, Carries, Picks
    <3>4. i = req[r].id /\ Present(i)
      BY <2>1, <3>1 DEF WrittenBy, Kept
    <3>5. req[r].flow = f
      BY <3>1, <3>3, <3>4 DEF WrittenBy
    <3>6. Knows(r, f)
      BY <1>1, <2>0, <3>5 DEF IntentInv
    <3> QED
      BY <2>2, <3>4, <3>6, ConnectionsAssumption DEF Knows, Ids
  <2>3. ASSUME NEW r \in Requests, PickAdds(r)
        PROVE  ~Present(i) /\ (intent[f] = 0 \/ ~Present(intent[f]))
    <3>1. PICK e \in req[r].entries :
             /\ \A j \in Ids \ {NextId} : accounts'[j] = accounts[j]
             /\ accounts'[NextId].uid = e.uid
      BY <1>1, <2>3, AddRows
    <3>2. req[r].flow \in Flows /\ req[r].at = "picked" /\ req[r].id = 0
      BY <1>1, <2>3 DEF Types, Tickets, PickAdds
    <3>3. e.uid.flow = req[r].flow
      BY <1>1, <3>1, <3>2 DEF FlowInv, OwnEntries, Picks
    <3>4. i = NextId
      BY <2>1, <3>1 DEF Kept, Present
    <3>5. ~Present(i)
      BY <1>1, <3>4, ConnectionsAssumption DEF IdsInv, NextId, Types
    <3>6. req[r].flow = f
      BY <3>1, <3>3, <3>4
    <3>7. Knows(r, f)
      BY <1>1, <2>0, <3>6 DEF IntentInv
    <3> QED
      BY <3>2, <3>5, <3>7 DEF Knows
  <2>4. ASSUME NEW r \in Requests, RenewRow(r) PROVE Present(i) /\ intent[f] = i
    BY <1>1, <2>2, <2>4 DEF RenewRow, Types
  <2>5. ASSUME NEW r \in Requests, PickRenews(r) PROVE Present(i) /\ intent[f] = i
    <3>1. req[r].id \in Ids /\ WriteRenewal(r) /\ req[r].at = "picked"
      BY <1>1, <2>5, ConnectionsAssumption DEF PickRenews, Types, Tickets, Ids
    <3> QED
      BY <2>2, <3>1
  <2>6. \A j \in Ids : /\ ~SessionEnded(j) /\ ~RemoveAccount(j)
                       /\ ~ResetSync(j) /\ ~ImportStops(j) /\ ~ClearStart(j)
    <3>1. \A j \in Ids : ~ResetSync(j) /\ ~ImportStops(j) /\ ~ClearStart(j)
      BY <1>1, <2>1, DatedRows
    <3>2. ASSUME NEW j \in Ids, SessionEnded(j) PROVE FALSE
      BY <1>1, <2>1, <3>2, MarkRows DEF SessionEnded
    <3>3. ASSUME NEW j \in Ids, RemoveAccount(j) PROVE FALSE
      BY <1>1, <2>1, <3>3, RemoveRows DEF Kept, Present
    <3> QED
      BY <3>1, <3>2, <3>3
  <2> QED
    BY <1>1, <2>1, <2>3, <2>4, <2>5, <2>6, RowWriters
<1> QED
  BY <1>1, IntentHolds, PTL DEF ConnSpec, DoneAsAsked

-----------------------------------------------------------------------------
(* The type invariant.                                                     *)

\* The types that no other argument here needs.
HistoryTypes ==
    /\ Len(asked) <= MaxFlows
    /\ authorised \subseteq Flows /\ open \subseteq authorised
    /\ loose \in BOOLEAN /\ crossed \subseteq Flows /\ repicked \subseteq Flows
    /\ mismarked \subseteq Ids /\ resetInSync \subseteq Ids
    /\ events \in 0..MaxEvents

\* Every step keeps them.
LEMMA HistoryStep ==
  ASSUME Types, StartedInv, HistoryTypes, [ConnNext]_connVars
  PROVE  HistoryTypes'
<1> USE IdleTypes, ConnectionsAssumption
    DEF HistoryTypes, Event, connVars, bankSide, table, pending, picker, flowHistory, syncHistory
<1>a. /\ NextFlow <= MaxFlows => NextFlow \in Flows
      /\ Len(asked) \in Nat /\ \A b \in Banks : Len(Append(asked, b)) = NextFlow
  BY DEF NextFlow, Flows, Types
<1>b. /\ \A stage : FlowsAt(stage) \subseteq Flows
      /\ Answering \subseteq Flows /\ Offering \subseteq Flows
      /\ {e.uid.flow : e \in offer} \subseteq Flows
      /\ \A r \in Requests : req[r].flow \in Flows
  BY DEF FlowsAt, Answering, Offering, Types, Tickets, Offered, Uid
<1>c. awaited \in Flows
  BY <1>a DEF StartedInv, Started, Flows
<1>1. ASSUME NEW r \in Requests, NEW b \in Banks, Connect(r, b) PROVE HistoryTypes'
  <2>1. /\ Len(asked') = NextFlow /\ NextFlow \in Flows
        /\ UNCHANGED <<authorised, open, loose, repicked, mismarked, resetInSync, events>>
        /\ crossed' \subseteq crossed \cup {NextFlow}
    BY <1>1, <1>a DEF Connect, Start
  <2> QED
    BY <2>1 DEF Flows
<1>2. ASSUME NEW r \in Requests, NEW i \in Ids, StartRenewal(r, i) PROVE HistoryTypes'
  <2> DEFINE bank == BankOf[accounts[i].uid.real]
  <2>1. accounts[i] \in Rows
    BY <1>2, PresentRows DEF StartRenewal, Slots, Present, Types
  <2>2. bank \in Banks
    BY <2>1 DEF Rows, Uid, Banks
  <2>3. Start(r, bank, i) /\ loose' = TRUE /\ crossed' = crossed \cup Answering
    BY <1>2 DEF StartRenewal
  <2> HIDE DEF bank
  <2>4. /\ Len(asked') = NextFlow /\ NextFlow \in Flows
        /\ UNCHANGED <<authorised, open, repicked, mismarked, resetInSync, events>>
    BY <2>2, <2>3, <1>a DEF Start
  <2> QED
    BY <2>3, <2>4, <1>b DEF Flows
<1>3. ASSUME NEW r \in Requests, NEW f \in Flows, Callback(r, f) PROVE HistoryTypes'
  BY <1>3 DEF Callback
<1>4. ASSUME NEW r \in Requests, StartAnswered(r) PROVE HistoryTypes'
  BY <1>4 DEF StartAnswered
<1>5. ASSUME NEW r \in Requests, StartRefused(r) PROVE HistoryTypes'
  BY <1>5 DEF StartRefused
<1>6. ASSUME NEW r \in Requests, CallbackFails(r) PROVE HistoryTypes'
  BY <1>6, <1>b DEF CallbackFails
<1>7. ASSUME NEW r \in Requests, FinishAuth(r) PROVE HistoryTypes'
  <2>1. /\ UNCHANGED <<asked, repicked, mismarked, resetInSync, events>> /\ loose' = FALSE
        /\ authorised' = authorised \cup {req[r].flow} /\ open' = open \cup {req[r].flow}
        /\ crossed' = crossed \cup (({awaited} \cup Answering) \ {0, req[r].flow})
    BY <1>7 DEF FinishAuth
  <2>2. req[r].flow \in Flows /\ awaited \in Flows /\ Answering \subseteq Flows
    BY <1>b, <1>c
  <2>3. crossed' \subseteq Flows /\ authorised' \subseteq Flows /\ open' \subseteq authorised'
    BY <2>1, <2>2
  <2> QED
    BY <2>1, <2>3
<1>8. ASSUME NEW r \in Requests, RenewRow(r) PROVE HistoryTypes'
  BY <1>8 DEF RenewRow, WriteRenewal
<1>9. ASSUME NEW r \in Requests, StoreRenews(r) PROVE HistoryTypes'
  BY <1>9, <1>b DEF StoreRenews
<1>10. ASSUME NEW r \in Requests, StoreOffer(r) PROVE HistoryTypes'
  BY <1>10 DEF StoreOffer
<1>11. ASSUME NEW r \in Requests, Pick(r) PROVE HistoryTypes'
  <2>1. /\ UNCHANGED <<asked, authorised, open, loose, crossed, mismarked, resetInSync, events>>
        /\ repicked' \subseteq repicked \cup {e.uid.flow : e \in offer}
    BY <1>11 DEF Pick
  <2> QED
    BY <2>1, <1>b
<1>12. ASSUME NEW r \in Requests, PickRenews(r) PROVE HistoryTypes'
  BY <1>12 DEF PickRenews, WriteRenewal
<1>13. ASSUME NEW r \in Requests, PickAdds(r) PROVE HistoryTypes'
  BY <1>13 DEF PickAdds
<1>14. ASSUME NEW r \in Requests, PickClears(r) PROVE HistoryTypes'
  BY <1>14, <1>b DEF PickClears
<1>15. ASSUME NEW r \in Requests, PickClearFails(r) PROVE HistoryTypes'
  BY <1>15, <1>b DEF PickClearFails
<1>16. CASE SyncStarts
  BY <1>16 DEF SyncStarts
<1>17. ASSUME NEW i \in Ids, SkipEnded(i) PROVE HistoryTypes'
  BY <1>17 DEF SkipEnded
<1>18. ASSUME NEW i \in Ids, FetchAccount(i) PROVE HistoryTypes'
  BY <1>18 DEF FetchAccount
<1>19. ASSUME NEW i \in Ids, SessionEnded(i) PROVE HistoryTypes'
  BY <1>19 DEF SessionEnded, MarkEnded
<1>20. ASSUME NEW i \in Ids, FetchError(i) PROVE HistoryTypes'
  BY <1>20 DEF FetchError
<1>21. ASSUME NEW i \in Ids, ImportStops(i) PROVE HistoryTypes'
  BY <1>21 DEF ImportStops
<1>22. CASE Commits
  BY <1>22 DEF Commits
<1>23. ASSUME NEW i \in Ids, ClearStart(i) PROVE HistoryTypes'
  BY <1>23 DEF ClearStart
<1>24. ASSUME NEW i \in Ids, ClearFails(i) PROVE HistoryTypes'
  BY <1>24 DEF ClearFails
<1>25. CASE SyncEnds
  BY <1>25 DEF SyncEnds
<1>26. CASE SyncFails
  BY <1>26 DEF SyncFails
<1>27. CASE ProcessDies
  BY <1>27, <1>b DEF ProcessDies
<1>28. ASSUME NEW i \in Ids, RemoveAccount(i) PROVE HistoryTypes'
  BY <1>28 DEF RemoveAccount
<1>29. ASSUME NEW i \in Ids, ResetSync(i) PROVE HistoryTypes'
  BY <1>29 DEF ResetSync
<1>30. ASSUME NEW f \in Flows, BankEnds(f) PROVE HistoryTypes'
  BY <1>30 DEF BankEnds
<1>31. CASE UNCHANGED connVars
  BY <1>31 DEF ConnTypeOK
<1> QED
  BY <1>1, <1>2, <1>3, <1>4, <1>5, <1>6, <1>7, <1>8, <1>9, <1>10, <1>11, <1>12, <1>13,
     <1>14, <1>15, <1>16, <1>17, <1>18, <1>19, <1>20, <1>21, <1>22, <1>23, <1>24, <1>25,
     <1>26, <1>27, <1>28, <1>29, <1>30, <1>31
  DEF ConnNext, RequestStep, SyncStep, AccountTurn, DateTurn

\* Rows, settings, requests, the sync and the histories keep their types,
\* whatever the interleaving (rows of bank_accounts, settings pending_*).
THEOREM ConnTypeCorrect == ConnSpec => []ConnTypeOK
<1>1. ConnInit => HistoryTypes
  <2> SUFFICES ASSUME ConnInit PROVE HistoryTypes
    OBVIOUS
  <2>1. /\ asked = <<>> /\ authorised = {0} /\ open = {0} /\ loose = FALSE /\ crossed = {}
        /\ repicked = {} /\ mismarked = {} /\ resetInSync = {} /\ events = 0
    BY DEF ConnInit
  <2>2. MaxFlows \in Nat /\ MaxEvents \in Nat /\ Len(asked) = 0
    BY <2>1, ConnectionsAssumption
  <2>3. Len(asked) <= MaxFlows /\ events \in 0..MaxEvents /\ 0 \in Flows
    BY <2>1, <2>2 DEF Flows
  <2>4. /\ authorised \subseteq Flows /\ open \subseteq authorised /\ loose \in BOOLEAN
        /\ crossed \subseteq Flows /\ repicked \subseteq Flows
        /\ mismarked \subseteq Ids /\ resetInSync \subseteq Ids
    BY <2>1, <2>3, Zenon
  <2> QED
    BY <2>3, <2>4 DEF HistoryTypes
<1>2. Types /\ StartedInv /\ HistoryTypes => ConnTypeOK
  <2> SUFFICES ASSUME Types, StartedInv, HistoryTypes PROVE ConnTypeOK
    OBVIOUS
  <2>1. Started \subseteq Flows /\ 0 \in Flows
    BY ConnectionsAssumption DEF Started, Flows, HistoryTypes, Types
  <2> QED
    BY <2>1 DEF Types, Slots, Tickets, Passes, StartedInv, HistoryTypes, ConnTypeOK
<1> QED
  BY <1>1, <1>2, IntentHolds, HistoryStep, PTL DEF ConnSpec
=============================================================================
