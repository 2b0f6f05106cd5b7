---------------------------- MODULE Connections ----------------------------
(***************************************************************************)
(* How a bank account gets into bankingsync, stays authorised and leaves:  *)
(* the handlers of src/web/server.go (connect, renew, callback, picker,    *)
(* remove, reset), the rows they write (src/store/store.go) and the sync   *)
(* that works on a snapshot of those rows (Syncer.run of src/main.go).     *)
(*                                                                         *)
(* An authorisation is a flow: a request starts it, the user approves it   *)
(* at the bank, the bank sends the browser back, and a row is renewed or   *)
(* added, at once or through the picker.  Between its steps a flow lives   *)
(* in settings that all flows share.  Requests are handled concurrently,   *)
(* each step of one up to its next wait or its next durable write is an    *)
(* action, and the process may die between any two.                        *)
(*                                                                         *)
(* Enable Banking issues account UIDs per session, so a UID is the account *)
(* at the bank together with the flow whose session it belongs to.         *)
(* Expiry dates, names, the bank list and the pages are left out; so is    *)
(* bank_name, copied through the shared settings too: the bank a renewal   *)
(* asks is that of the row's account.  Settings that one handler writes    *)
(* in a row, without a look at the error, are written in one step.         *)
(***************************************************************************)
EXTENDS Naturals, Sequences, FiniteSets

CONSTANTS
    Real,          \* accounts at the banks
    BankOf,        \* the bank of each
    Hash,          \* its identification hash, Unknown where the bank has none
    IbanOf,        \* its IBAN: currency accounts may share one
    CurrencyOf,    \* its currency
    Unknown,       \* an identifier nobody supplied
    Reveals,       \* which identifiers a session may supply
    Home,          \* the account connected at first
    Requests,      \* requests that may be under way together
    MaxFlows,      \* bound: authorisations started
    MaxIds,        \* bound: rows ever added
    StartDates,    \* bound: dates a start date can be
    MaxEvents      \* bound: removals, resets, ended sessions, failures, crashes

Flows == 0..MaxFlows      \* 0 is the one Home was connected by
Ids == 1..MaxIds
Banks == {BankOf[a] : a \in Real}

ASSUME ConnectionsAssumption ==
    /\ IsFiniteSet(Real) /\ Home \in Real
    /\ DOMAIN BankOf = Real /\ DOMAIN Hash = Real
    /\ DOMAIN IbanOf = Real /\ DOMAIN CurrencyOf = Real
    /\ \A a, b \in Real : Hash[a] = Hash[b] /\ Hash[a] # Unknown => a = b
    /\ \A a, b \in Real :
          IbanOf[a] = IbanOf[b] /\ CurrencyOf[a] = CurrencyOf[b] => a = b
    /\ \A a \in Real : Unknown \notin {IbanOf[a], CurrencyOf[a]}
    /\ MaxFlows \in Nat /\ MaxIds \in Nat \ {0}
    /\ Reveals \subseteq SUBSET {"hash", "iban", "currency"}
    /\ StartDates \subseteq Nat \ {0} /\ MaxEvents \in Nat

VARIABLES
    \* The bank: the bank of each flow started, the flows a browser holds a
    \* link of, sessions ever authorised and those the bank has not ended.
    asked, shown, authorised, open,
    \* bank_accounts with its AUTOINCREMENT sequence, and the ids under which
    \* imports have left bookkeeping.
    accounts, sequence, booked,
    \* Settings pending_*: the flow whose state is expected and the id to renew
    \* (0: none).
    awaited, renewId,
    \* Settings pending_auth_*: what the picker offers, and the id it renews.
    offer, offerRenews,
    \* The requests and the sync under way.
    req, sync,
    \* History: what each flow was started for (0: a new account); a renewal
    \* was started and no authorisation finished since; flows that met another
    \* one in the settings; flows whose pick was repeated before it was cleared.
    intent, loose, crossed, repicked,
    \* History: ids marked by a sync that knew an older UID; ids reset while a
    \* sync was under way.
    mismarked, resetInSync,
    events

bankSide == <<asked, shown, authorised, open>>
table    == <<accounts, sequence, booked>>
pending  == <<awaited, renewId>>
picker   == <<offer, offerRenews>>
flowHistory == <<intent, loose, crossed, repicked>>
syncHistory == <<mismarked, resetInSync>>
connVars == <<bankSide, table, pending, picker, req, sync, flowHistory,
              syncHistory, events>>

Uid == [real : Real, flow : Flows]
Identifiers == [hash : {Hash[a] : a \in Real} \cup {Unknown},
                iban : {IbanOf[a] : a \in Real} \cup {Unknown},
                currency : {CurrencyOf[a] : a \in Real} \cup {Unknown}]
\* History: what the identifiers that decided a renewal name, the one account
\* or only an IBAN, which currency accounts share.
Certain == {"account", "iban"}
\* A row; origin and sure are history: the account it was added for, and what
\* every renewal since was decided by.
Rows == [present : {TRUE}, uid : Uid, ids : Identifiers, ended : BOOLEAN,
         start : StartDates \cup {0}, origin : Real, sure : SUBSET Certain]
NoRow == [present |-> FALSE]
\* What a sync reads of a row.
Seen == [uid : Uid, ended : BOOLEAN, start : StartDates \cup {0}]
Nothing == [ended |-> FALSE, start |-> 0]
Offered == [uid : Uid, ids : Identifiers]

Stages == {"idle", "start", "complete", "renew", "store", "offer", "picked", "clear"}
Idle == [at |-> "idle", flow |-> 0, id |-> 0, entries |-> {}, sure |-> {}]
Phases == {"idle", "run", "clear"}
AtRest == [at |-> "idle", todo |-> {}, snapshot |-> [i \in Ids |-> Nothing],
           synced |-> {}]

Present(i) == accounts[i].present
RowIds == {i \in Ids : Present(i)}
Syncing == sync.at # "idle"
Event == events < MaxEvents /\ events' = events + 1

ConnTypeOK ==
    /\ asked \in Seq(Banks) /\ Len(asked) <= MaxFlows
    /\ shown \subseteq Flows /\ authorised \subseteq Flows /\ open \subseteq authorised
    /\ accounts \in [Ids -> Rows \cup {NoRow}]
    /\ sequence \in 0..MaxIds /\ booked \subseteq Ids
    /\ awaited \in Flows /\ renewId \in 0..MaxIds
    /\ offer \subseteq Offered /\ offerRenews \in 0..MaxIds
    /\ req \in [Requests -> [at : Stages, flow : Flows, id : 0..MaxIds,
                             entries : SUBSET Offered, sure : SUBSET Certain]]
    /\ sync \in [at : Phases, todo : SUBSET Ids,
                 snapshot : [Ids -> Seen \cup {Nothing}], synced : SUBSET Ids]
    /\ intent \in Seq(0..MaxIds) /\ Len(intent) = Len(asked)
    /\ loose \in BOOLEAN /\ crossed \subseteq Flows /\ repicked \subseteq Flows
    /\ mismarked \subseteq Ids /\ resetInSync \subseteq Ids
    /\ events \in 0..MaxEvents

-----------------------------------------------------------------------------
(* What a session says about an account, and whose renewal it can be.      *)

Given(v) == v # Unknown

\* The bank may leave identifiers out; SessionAccount.UnmarshalJSON reads
\* whatever it finds.
Entry(a, f, what) ==
    [uid |-> [real |-> a, flow |-> f],
     ids |-> [hash |-> IF "hash" \in what THEN Hash[a] ELSE Unknown,
              iban |-> IF "iban" \in what THEN IbanOf[a] ELSE Unknown,
              currency |-> IF "currency" \in what THEN CurrencyOf[a] ELSE Unknown]]

ByHash(row, entries) ==
    Given(row.ids.hash) /\ \E e \in entries : Given(e.ids.hash)
ByIban(row, entries) ==
    Given(row.ids.iban) /\ \E e \in entries : Given(e.ids.iban)
SameCurrency(x, y) == ~Given(x) \/ ~Given(y) \/ x = y

\* A plausible slip: currency accounts that share an IBAN are taken for one.
MatchingAnyCurrency(row, entries) ==
    IF ByHash(row, entries)
    THEN {e \in entries : e.ids.hash = row.ids.hash}
    ELSE IF ByIban(row, entries)
    THEN {e \in entries : e.ids.iban = row.ids.iban}
    ELSE entries

\* The entries the strongest identifier carried by both sides leaves.
Matching(row, entries) ==
    IF ByHash(row, entries)
    THEN {e \in entries : e.ids.hash = row.ids.hash}
    ELSE IF ByIban(row, entries)
    THEN {e \in entries : /\ e.ids.iban = row.ids.iban
                          /\ SameCurrency(e.ids.currency, row.ids.currency)}
    ELSE entries

\* matchRenewal answers when exactly one entry is left.
Matched(row, entries) == Cardinality(Matching(row, entries)) = 1

\* History: what the answer rests on.  A hash names the account, and so does an
\* IBAN with the currency; an IBAN of which either side leaves the currency out
\* is accepted all the same (matchRenewal compares it "where both are known"),
\* and names the currency accounts that share it.
Sure(row, entries) ==
    IF ByHash(row, entries) THEN Certain
    ELSE IF ~ByIban(row, entries) THEN {}
    ELSE IF Given(row.ids.currency) /\ \A e \in Matching(row, entries) : Given(e.ids.currency)
    THEN Certain ELSE {"iban"}

\* Identifiers the session supplies replace the row's, the others are kept.
Filled(old, new) ==
    [n \in DOMAIN old |-> IF Given(new[n]) THEN new[n] ELSE old[n]]

-----------------------------------------------------------------------------
(* The rows.                                                               *)

\* A plausible slip: the mark of the ended session outlives the renewal.
RenewedStillEnded(i, e, sure) ==
    [accounts EXCEPT ![i].uid = e.uid, ![i].ids = Filled(@, e.ids),
                     ![i].sure = @ \cap sure]

\* RenewBankAccountSession.
Renewed(i, e, sure) ==
    [accounts EXCEPT ![i].uid = e.uid, ![i].ids = Filled(@, e.ids),
                     ![i].ended = FALSE, ![i].sure = @ \cap sure]

\* A plausible slip: the key is the highest in use plus one.
HighestPlusOne == 1 + Cardinality({i \in Ids : \E j \in RowIds : i <= j})

\* The id AddBankAccount gets: AUTOINCREMENT never reuses one.
NextId == sequence + 1

\* AddBankAccount.
Added(e, id, date) ==
    [accounts EXCEPT ![id] =
        [present |-> TRUE, uid |-> e.uid, ids |-> e.ids, ended |-> FALSE,
         start |-> date, origin |-> e.uid.real, sure |-> Certain]]

\* RemoveBankAccount: the row and its bookkeeping, in one transaction.
RemoveAccount(i) ==
    /\ Present(i) /\ Event
    /\ accounts' = [accounts EXCEPT ![i] = NoRow]
    /\ booked' = booked \ {i}
    /\ mismarked' = mismarked \ {i}
    /\ UNCHANGED <<bankSide, sequence, pending, picker, req, sync, flowHistory,
                   resetInSync>>

\* handleResetSync.
ResetSync(i) ==
    /\ Present(i) /\ Event
    /\ \E d \in StartDates : accounts' = [accounts EXCEPT ![i].start = d]
    /\ resetInSync' = IF Syncing THEN resetInSync \cup {i} ELSE resetInSync
    /\ UNCHANGED <<bankSide, sequence, booked, pending, picker, req, sync,
                   flowHistory, mismarked>>

-----------------------------------------------------------------------------
(* The requests.  A request waits for the bank in "start" and "complete"   *)
(* and has read, not yet written, in the stages after them.                *)

NextFlow == Len(asked) + 1
Renewing(r) == req[r].at \in {"renew", "store", "offer"}
FlowsAt(stage) == {req[r].flow : r \in {q \in Requests : req[q].at = stage}}
Answering == FlowsAt("complete")
Offering == FlowsAt("offer")

\* What both starts write before they ask the bank for a link, setting by setting
\* in the code.
Start(r, bank, id) ==
    /\ req[r].at = "idle" /\ NextFlow <= MaxFlows
    /\ asked' = Append(asked, bank)
    /\ intent' = Append(intent, id)
    /\ awaited' = NextFlow
    /\ req' = [req EXCEPT ![r] = [Idle EXCEPT !.at = "start", !.flow = NextFlow, !.id = id]]
    /\ UNCHANGED <<shown, authorised, open, table, picker, sync, repicked,
                   syncHistory, events>>

\* handleConnect: the id a renewal left is not cleared.
Connect(r, bank) ==
    /\ Start(r, bank, 0)
    /\ crossed' = IF loose THEN crossed \cup {NextFlow} ELSE crossed
    /\ UNCHANGED <<renewId, loose>>

\* handleRenew.
StartRenewal(r, i) ==
    /\ Present(i)
    /\ Start(r, BankOf[accounts[i].uid.real], i)
    /\ renewId' = i
    /\ loose' = TRUE
    /\ crossed' = crossed \cup Answering

\* The page that answers, or the connect page, shows the link.
StartAnswered(r) ==
    /\ req[r].at = "start"
    /\ shown' = shown \cup {req[r].flow}
    /\ req' = [req EXCEPT ![r] = Idle]
    /\ UNCHANGED <<asked, authorised, open, table, pending, picker, sync, flowHistory,
                   syncHistory, events>>

StartRefused(r) ==
    /\ req[r].at = "start" /\ Event
    /\ req' = [req EXCEPT ![r] = Idle]
    /\ UNCHANGED <<bankSide, table, pending, picker, sync, flowHistory, syncHistory>>

\* handleCallback: only the state last written is accepted.
Callback(r, f) ==
    /\ req[r].at = "idle" /\ f \in shown
    /\ awaited = f
    /\ req' = [req EXCEPT ![r] = [Idle EXCEPT !.at = "complete", !.flow = f]]
    /\ UNCHANGED <<bankSide, table, pending, picker, sync, flowHistory, syncHistory,
                   events>>

\* The bank refuses the code (a second use of it, too), returns no account, or
\* the answer is lost after the session came to be.
CallbackFails(r) ==
    /\ req[r].at = "complete"
    /\ \/ req[r].flow \in authorised /\ UNCHANGED <<authorised, open, events>>
       \/ Event /\ UNCHANGED <<authorised, open>>
       \/ /\ req[r].flow \notin authorised /\ Event
          /\ authorised' = authorised \cup {req[r].flow}
          /\ open' = open \cup {req[r].flow}
    /\ req' = [req EXCEPT ![r] = Idle]
    /\ UNCHANGED <<asked, shown, table, pending, picker, sync, flowHistory, syncHistory>>

\* A plausible slip: the renewal is left pending after it was read.
PendingKept == awaited' = 0 /\ UNCHANGED renewId

\* finishAuth reads the renewal and clears what every flow shares, five settings
\* one after another, whose errors it ignores.
PendingCleared == awaited' = 0 /\ renewId' = 0

\* CompleteAuth answers and finishAuth decides: the row a renewal was started
\* for is gone, the account is recognised, or the picker has to ask.
FinishAuth(r) ==
    LET f == req[r].flow IN
    /\ req[r].at = "complete" /\ f \notin authorised
    /\ authorised' = authorised \cup {f} /\ open' = open \cup {f}
    /\ PendingCleared /\ loose' = FALSE
    /\ crossed' = crossed \cup (({awaited} \cup Answering) \ {0, f})
    /\ \E S \in (SUBSET {a \in Real : BankOf[a] = asked[f]}) \ {{}}, what \in Reveals :
          LET entries == {Entry(a, f, what) : a \in S} IN
          req' = [req EXCEPT ![r] =
              IF renewId # 0 /\ ~Present(renewId) THEN Idle
              ELSE IF renewId # 0 /\ Matched(accounts[renewId], entries)
              THEN [at |-> "renew", flow |-> f, id |-> renewId,
                    entries |-> Matching(accounts[renewId], entries),
                    sure |-> Sure(accounts[renewId], entries)]
              ELSE [at |-> "store", flow |-> f, id |-> renewId,
                    entries |-> entries, sure |-> {}]]
    /\ UNCHANGED <<asked, shown, table, picker, sync, intent, repicked, syncHistory,
                   events>>

\* The row the request writes may be gone by now: then nothing is written.
WriteRenewal(r) ==
    \E e \in req[r].entries :
        LET i == req[r].id IN
        /\ accounts' = IF Present(i) THEN Renewed(i, e, req[r].sure) ELSE accounts
        /\ mismarked' = mismarked \ {i}

RenewRow(r) ==
    /\ req[r].at = "renew"
    /\ WriteRenewal(r)
    /\ req' = [req EXCEPT ![r] = Idle]
    /\ UNCHANGED <<bankSide, sequence, booked, pending, picker, sync, flowHistory,
                   resetInSync, events>>

\* finishAuth writes the id the picker renews before what the picker offers.
StoreRenews(r) ==
    /\ req[r].at = "store"
    /\ offerRenews' = req[r].id
    /\ req' = [req EXCEPT ![r].at = "offer"]
    /\ crossed' = crossed \cup Offering \cup {e.uid.flow : e \in offer}
    /\ UNCHANGED <<bankSide, table, pending, offer, sync, intent, loose, repicked,
                   syncHistory, events>>

StoreOffer(r) ==
    /\ req[r].at = "offer"
    /\ offer' = req[r].entries
    /\ req' = [req EXCEPT ![r] = Idle]
    /\ UNCHANGED <<bankSide, table, pending, offerRenews, sync, flowHistory,
                   syncHistory, events>>

\* handlePickAccount reads the settings; the form names one of the accounts
\* offered.  A row to renew that is gone makes it a new connection.
Pick(r) ==
    /\ req[r].at = "idle"
    /\ \E e \in offer :
          /\ req' = [req EXCEPT ![r] =
                [at |-> "picked", flow |-> e.uid.flow, entries |-> {e}, sure |-> {},
                 id |-> IF offerRenews # 0 /\ Present(offerRenews)
                        THEN offerRenews ELSE 0]]
          /\ repicked' = IF \E q \in Requests : req[q].at \in {"picked", "clear"}
                         THEN repicked \cup {e.uid.flow} ELSE repicked
    /\ UNCHANGED <<bankSide, table, pending, picker, sync, intent, loose, crossed,
                   syncHistory, events>>

PickRenews(r) ==
    /\ req[r].at = "picked" /\ req[r].id # 0
    /\ WriteRenewal(r)
    /\ req' = [req EXCEPT ![r] =
          IF Present(req[r].id) THEN [@ EXCEPT !.at = "clear"] ELSE Idle]
    /\ UNCHANGED <<bankSide, sequence, booked, pending, picker, sync, flowHistory,
                   resetInSync, events>>

PickAdds(r) ==
    /\ req[r].at = "picked" /\ req[r].id = 0 /\ NextId <= MaxIds
    /\ \E e \in req[r].entries, d \in StartDates : accounts' = Added(e, NextId, d)
    /\ sequence' = NextId
    /\ req' = [req EXCEPT ![r].at = "clear"]
    /\ UNCHANGED <<bankSide, booked, pending, picker, sync, flowHistory, syncHistory,
                   events>>

\* A plausible slip: only the renewal is forgotten.
OfferKept == UNCHANGED offer /\ offerRenews' = 0

\* clearPendingAuth.
OfferCleared == offer' = {} /\ offerRenews' = 0

PickClears(r) ==
    /\ req[r].at = "clear"
    /\ OfferCleared
    /\ req' = [req EXCEPT ![r] = Idle]
    /\ crossed' = crossed \cup Offering
    /\ UNCHANGED <<bankSide, table, pending, sync, intent, loose, repicked, syncHistory,
                   events>>

\* Each setting is written without a look at the error.
PickClearFails(r) ==
    /\ req[r].at = "clear" /\ Event
    /\ req' = [req EXCEPT ![r] = Idle]
    /\ repicked' = repicked \cup {req[r].flow}
    /\ UNCHANGED <<bankSide, table, pending, picker, sync, intent, loose, crossed,
                   syncHistory>>

-----------------------------------------------------------------------------
(* The sync, on the rows it read when it started.                          *)

SyncStarts ==
    /\ ~Syncing /\ RowIds # {}
    /\ sync' = [at |-> "run", todo |-> RowIds, synced |-> {},
                snapshot |-> [i \in Ids |-> IF Present(i)
                    THEN [uid |-> accounts[i].uid, ended |-> accounts[i].ended,
                          start |-> accounts[i].start]
                    ELSE Nothing]]
    /\ resetInSync' = {}
    /\ UNCHANGED <<bankSide, table, pending, picker, req, flowHistory, mismarked,
                   events>>

Turn(i) == i \in sync.todo /\ sync.at = "run"
Done(i) == [sync EXCEPT !.todo = @ \ {i}]

\* An account marked as ended is not asked for.
SkipEnded(i) ==
    /\ Turn(i) /\ sync.snapshot[i].ended
    /\ sync' = Done(i)
    /\ UNCHANGED <<bankSide, table, pending, picker, req, flowHistory, syncHistory,
                   events>>

\* The import leaves bookkeeping under the id, whether or not the row is there
\* still, and is through with the account (markSynced).
FetchAccount(i) ==
    /\ Turn(i) /\ ~sync.snapshot[i].ended
    /\ sync.snapshot[i].uid.flow \in open
    /\ sync' = [Done(i) EXCEPT !.synced = @ \cup {i}]
    /\ booked' = booked \cup {i}
    /\ UNCHANGED <<bankSide, accounts, sequence, pending, picker, req, flowHistory,
                   syncHistory, events>>

\* A plausible slip: the error is reported and the row is not marked.
EndReported(i) == UNCHANGED <<accounts, mismarked>>

\* MarkSessionEnded goes by the id alone.
MarkEnded(i) ==
    /\ accounts' = IF Present(i) THEN [accounts EXCEPT ![i].ended = TRUE] ELSE accounts
    /\ mismarked' = IF Present(i) /\ accounts[i].uid # sync.snapshot[i].uid
                    THEN mismarked \cup {i} ELSE mismarked

SessionEnded(i) ==
    /\ Turn(i) /\ ~sync.snapshot[i].ended
    /\ sync.snapshot[i].uid.flow \notin open
    /\ MarkEnded(i)
    /\ sync' = Done(i)
    /\ UNCHANGED <<bankSide, sequence, booked, pending, picker, req, flowHistory,
                   resetInSync, events>>

FetchError(i) ==
    /\ Turn(i) /\ ~sync.snapshot[i].ended /\ Event
    /\ sync' = Done(i)
    /\ UNCHANGED <<bankSide, table, pending, picker, req, flowHistory, syncHistory>>

\* An import with a failed write, or cut short by the deadline, leaves
\* bookkeeping but is not through; cut short, it leaves the date to resume from.
ImportStops(i) ==
    /\ Turn(i) /\ ~sync.snapshot[i].ended /\ Event
    /\ sync.snapshot[i].uid.flow \in open
    /\ sync' = Done(i)
    /\ booked' = booked \cup {i}
    /\ \/ UNCHANGED accounts
       \/ Present(i) /\ \E d \in StartDates : accounts' = [accounts EXCEPT ![i].start = d]
    /\ UNCHANGED <<bankSide, sequence, pending, picker, req, flowHistory, syncHistory>>

\* A plausible slip: every account of the run loses its start date.
AllBackfilled == {i \in Ids : sync.snapshot[i] # Nothing}

\* The accounts the sync is through with that had a start date to fetch from.
Backfilled == {i \in sync.synced : sync.snapshot[i].start # 0}

\* Commit succeeds; a run in which no account came through leaves without it.
Commits ==
    /\ sync.at = "run" /\ sync.todo = {} /\ sync.synced # {}
    /\ sync' = [sync EXCEPT !.at = "clear", !.todo = Backfilled]
    /\ UNCHANGED <<bankSide, table, pending, picker, req, flowHistory, syncHistory,
                   events>>

\* After it the start dates of the accounts that were backfilled go, one write
\* each; one that fails is reported and the loop goes on.
Clearing(i) == i \in sync.todo /\ sync.at = "clear"

ClearStart(i) ==
    /\ Clearing(i)
    /\ accounts' = IF Present(i) THEN [accounts EXCEPT ![i].start = 0] ELSE accounts
    /\ sync' = Done(i)
    /\ UNCHANGED <<bankSide, sequence, booked, pending, picker, req, flowHistory,
                   syncHistory, events>>

ClearFails(i) ==
    /\ Clearing(i) /\ Event
    /\ sync' = Done(i)
    /\ UNCHANGED <<bankSide, table, pending, picker, req, flowHistory, syncHistory>>

SyncEnds ==
    /\ Syncing /\ sync.todo = {}
    /\ sync.at = "clear" \/ sync.synced = {}
    /\ sync' = AtRest
    /\ UNCHANGED <<bankSide, table, pending, picker, req, flowHistory, syncHistory,
                   events>>

\* Commit failed, or the process ends.
SyncFails ==
    /\ Syncing /\ Event
    /\ sync' = AtRest
    /\ UNCHANGED <<bankSide, table, pending, picker, req, flowHistory, syncHistory>>

ProcessDies ==
    /\ Event
    /\ \E r \in Requests : req[r].at # "idle"
    /\ req' = [r \in Requests |-> Idle]
    /\ sync' = AtRest
    /\ repicked' = repicked \cup FlowsAt("clear")
    /\ crossed' = IF Offering # {}
                  THEN crossed \cup {e.uid.flow : e \in offer} ELSE crossed
    /\ UNCHANGED <<bankSide, table, pending, picker, intent, loose, syncHistory>>

\* The bank ends a session: the user revoked it, or it expired.
BankEnds(f) ==
    /\ f \in open /\ \E i \in RowIds : accounts[i].uid.flow = f
    /\ Event
    /\ open' = open \ {f}
    /\ UNCHANGED <<asked, shown, authorised, table, pending, picker, req, sync,
                   flowHistory, syncHistory>>

-----------------------------------------------------------------------------
ConnInit ==
    /\ asked = <<>> /\ shown = {} /\ authorised = {0} /\ open = {0}
    /\ sequence = 1 /\ booked = {1}
    /\ \E what \in Reveals :
          accounts = [i \in Ids |-> IF i # 1 THEN NoRow ELSE
              [present |-> TRUE, uid |-> [real |-> Home, flow |-> 0],
               ids |-> Entry(Home, 0, what).ids, ended |-> FALSE, start |-> 0,
               origin |-> Home, sure |-> Certain]]
    /\ awaited = 0 /\ renewId = 0
    /\ offer = {} /\ offerRenews = 0
    /\ req = [r \in Requests |-> Idle] /\ sync = AtRest
    /\ intent = <<>> /\ loose = FALSE /\ crossed = {} /\ repicked = {}
    /\ mismarked = {} /\ resetInSync = {} /\ events = 0

RequestStep ==
    \E r \in Requests :
        \/ \E b \in Banks : Connect(r, b)
        \/ \E i \in Ids : StartRenewal(r, i)
        \/ \E f \in Flows : Callback(r, f)
        \/ StartAnswered(r) \/ StartRefused(r) \/ CallbackFails(r) \/ FinishAuth(r)
        \/ RenewRow(r) \/ StoreRenews(r) \/ StoreOffer(r)
        \/ Pick(r) \/ PickRenews(r) \/ PickAdds(r) \/ PickClears(r) \/ PickClearFails(r)

AccountTurn ==
    \E i \in Ids : \/ SkipEnded(i) \/ FetchAccount(i) \/ SessionEnded(i)
                   \/ FetchError(i) \/ ImportStops(i)
DateTurn == \E i \in Ids : ClearStart(i) \/ ClearFails(i)
SyncStep == SyncStarts \/ AccountTurn \/ Commits \/ DateTurn \/ SyncEnds

ConnNext ==
    \/ RequestStep \/ SyncStep \/ SyncFails \/ ProcessDies
    \/ \E i \in Ids : RemoveAccount(i) \/ ResetSync(i)
    \/ \E f \in Flows : BankEnds(f)

ConnSpec == ConnInit /\ [][ConnNext]_connVars
ConnFairness == WF_connVars(SyncStep)
ConnFairSpec == ConnSpec /\ ConnFairness

-----------------------------------------------------------------------------
(* Properties.                                                             *)

\* As long as identifiers, and not a person or a single offer, decide its
\* renewals, a row does not leave the IBAN it was added for, and stays with the
\* very account as long as none of them went by an IBAN with a currency missing
\* (matchRenewal; with one missing the row may go to another currency account).
SameAccount ==
    \A i \in RowIds :
        LET real == accounts[i].uid.real IN LET origin == accounts[i].origin IN
        /\ "account" \in accounts[i].sure => real = origin
        /\ "iban" \in accounts[i].sure => IbanOf[real] = IbanOf[origin]

\* What an authorisation writes is what it was started for: the row that was
\* to be renewed, or a new row.  Excepted are flows that met another one in
\* the settings all flows share (crossed: there the code does mix them up), and
\* the picker that finds the row to renew gone and adds one (handlePickAccount).
Writes(f, i) == Present(i)' /\ accounts'[i].uid.flow = f
                /\ (Present(i) => accounts[i].uid.flow # f)
DoneAsAsked ==
    [][\A f \in 1..Len(asked), i \in Ids :
          Writes(f, i) => \/ f \in crossed
                          \/ Present(i) /\ intent[f] = i
                          \/ ~Present(i) /\ intent[f] = 0
                          \/ ~Present(i) /\ ~Present(intent[f])]_connVars

\* An authorisation ends up on one row, unless its pick was repeated before the
\* offer was cleared (two submissions, a crash or a failed write in between: then
\* the code does add a second row).
OneRowPerFlow ==
    \A i, j \in RowIds :
        accounts[i].uid.flow = accounts[j].uid.flow /\ i # j
            => accounts[i].uid.flow \in repicked

\* A row is marked as ended only when its own session has ended, and a renewal
\* takes the mark away; excepted is a mark by a sync that started before the
\* renewal, which does land on the renewed row (MarkSessionEnded).
EndedMeansEnded ==
    \A i \in RowIds : accounts[i].ended => accounts[i].uid.flow \notin open \/ i \in mismarked

\* A new row has no bookkeeping of an earlier account, although a sync goes on
\* writing for an account that was removed meanwhile.
StartsUnbooked == [][\A i \in Ids : ~Present(i) /\ Present(i)' => i \notin booked]_connVars

\* A start date goes only by a sync that knew of one when it started, came
\* through with the account and committed; and it is the date the sync started
\* from.  Excepted from the last is an account reset while that sync was under
\* way (handleResetSync): when the sync was backfilling it, the new date goes too.
AfterCommit == sync.at = "clear"
ResetHonoured ==
    [][\A i \in RowIds : accounts[i].start # 0 /\ Present(i)' /\ accounts'[i].start = 0
          => /\ AfterCommit /\ i \in sync.synced
             /\ sync.snapshot[i].start # 0
             /\ sync.snapshot[i].start = accounts[i].start \/ i \in resetInSync]_connVars

\* An abandoned renewal does not capture the next connection.
ConnectionAddsItsOwn ==
    [][\A f \in 1..Len(asked), i \in Ids : Writes(f, i) /\ Present(i) => intent[f] # 0]_connVars

\* The end of a session is noticed: while syncs go on, the row is marked in
\* the end, unless it is renewed or removed.
EndNoticed ==
    \A i \in Ids :
        Present(i) /\ accounts[i].uid.flow \notin open
            ~> ~Present(i) \/ accounts[i].ended \/ accounts[i].uid.flow \in open

=============================================================================
