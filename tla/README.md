# bankingsync in TLA+

Models, model checks and proofs of the parts of bankingsync in which an order of
steps decides whether money is imported once, twice or never. Every definition is
translated from the Go source; `PROJECT.json` maps each to the lines it stands for.
Paths below are relative to the repository.

## The system

bankingsync fetches transactions from banks through Enable Banking and writes them
into a budget (Actual, or Firefly III). One process: a scheduler (`main.go`) that
starts a run every few hours, and a web server whose requests share its `Syncer`.
`Syncer.running` is a try-lock: a run that finds it taken is skipped, a request is
refused. The SQLite store is written one statement at a time, so **the process may
die between any two writes**; there is no transaction around a run.

| Component | State it keeps | Operations | Talks to | What is hard | What makes it correct |
|---|---|---|---|---|---|
| Run and watermarks (`main.go`, `state.go`) | `start_sync_date`, `last_sync_date` per account, one `last_sync_date` for the installation, references imported, `pending_map`, held keys | `run`, `flushWork`, `settle`, `releaseWithdrawn` | bank, matcher, backend, store | batches that fail half-way, deadline, crash between writes, several accounts | no watermark passes a booking that was not placed; a retry doubles nothing |
| Recognition without a reference (`main.go`, `state.go`) | `pending_map`, `booked_rows`, `booking_identities` | `importKeys`, `txnIdentities`, `Sealed`, `Consumed` | run, matcher | keys are positions in a listing and move with the window | look-alikes are never merged, records never settle twice |
| Matcher (`budget/`) | none (parameters) | `ReconcileBatch`, `Assess`, `Solve`, `decideAssigned` | run, review queue | competing transactions, ties, margins | a batch is arranged one-to-one, doubtful pairs are held |
| Review queue (`review.go`) | `match_reviews`, held keys | `holdForReview`, `ResolveHeld`, `settleHeldPair`, `releaseHeld`, `retireCounterpart` | run, backend | a sync and several requests decide the same thing | nothing asked is forgotten, nothing is asked in vain |
| Opening balance and drift (`balance.go`) | `opening_balance_state`, the figure, `drift_state` | `settleBalances`, `checkDrift`, `OpeningBalancePreview`, `ClaimOpeningBalance` | bank, backend | the bank moves between three requests; two writers | the figure is exact, written once; drift means something |
| Actual backend (`actual/`) | local database, buffered changes, clock | `Commit`, `sync`, `Resync`, `NewClient`, `ensureActual` | sync server, other clients | lost answers, restart, concurrent edits | the contract of `budget.Store`; no edit of others is skipped |
| Firefly III backend (`firefly/`) | none, write-through; a token | listing, lookup, `Create`, `Update`, `GetOrCreateAccount`, `SetOpeningBalance` | Firefly, its user | lost answers, a user at work between two requests, expired tokens, searches by text | one row per booking, no work of the user's undone, one account per bank account |
| Bank connections (`web/`, `store/`, `main.go`) | `bank_accounts`, `pending_*` settings, requests in flight | connect, renew, callback, pick, remove, reset, `MarkSessionEnded` | bank, browser, run | authorisations that overlap or are abandoned; a run on an older snapshot | an authorisation writes what it was started for; a renewal keeps its account |
| Enable Banking client (`enablebanking/`) | tokens | paging, retries, parsing | bank | repeated pages, rate limits | complete listings, one status per row |
| Calibration, promotion, inquiry (`budget/`, `promotion.go`, `inquiry.go`) | decision log, questions, watched and promoted parameter sets | log, ask, answer, refit, watch, promote, revert | matcher, review queue | late answers, requests beside a run | labels describe what was shown; parameters change only through the gate |
| Store, rules, telemetry, mail, export, updates, support packages | — | — | — | — | — |

`PROJECT.json` lists all of them under `components`, those without a model too, and
under `hazards` what is hard to test in this code, at the line where it bites, with
the property that covers it or the reason why none does.

## Modules

Eight models, each about one hazard domain, with the others reduced to what they
promise it. They share no variables: where two meet, one side's steps are in the
other's model (a sync inside `Connections`, an import inside `FireflyStore`, review
answers inside `MatchEvidence`). A run, a review request and the opening-balance page
exclude each other through the lock, so composing them further multiplies states
without adding an interleaving; what does go on beside a run (connections, answers to
questions, promotions, other clients, users of the budget) is modelled as concurrent.

**`ImportRun`** — `Syncer.run` for transactions with a stable reference. `start`,
`last`, `globalLast` are the three watermarks, `Watermark`, `Reached` and `Listed`
the request to the bank (`reachDate`: the latest date of a transaction is what the
bank filters by). `Fetch` takes the listing; `SkipItem`, `SeenItem`, `QueueItem`,
`ConfirmRow`/`ConfirmBooks` are the branches of the loop over transactions, `Flush`,
`PlaceKnown`, `PlaceNew`, `SettleItem`, `HoldItem` a batch; `FinishAccount` is the
watermark switch, `Committed`, `StampSynced`, `ClearBackfilled`, `StampGlobal` the
end of the run. Each durable write is a step of its own, and `Crash`, `CrashConsumed`,
`Deadline`, `PlaceFails`, `PlaceAnswerLost`, `ConfirmFails`, `HoldItemFails`,
`CommitFails`, `FetchFails`, `AccountUnavailable` and `ConnectFails` may come between
them. What the matcher decides is any of created, adopted and held.

**`TwinImport`** — purchases of one payee and amount without a reference. Keys and
identities are computed from the feed as the code does (`KeyIn`, `Identity`), so they
move when the window moves, when the bank reorders a day, or when a twin is withdrawn.
`pend`, `booked`, `identity`, `held` are the four records; `Candidates`, `Weight`,
`Arrangements`, `Doubtful` are the matcher on such purchases (weights in sixths of a
bit; `Prior` is what a choice among n candidates costs), `Flush` and `SettleBooked` the
batch, `Sealed` the rule that frees or keeps a row. `from`, the first day of the window,
is set when the listing is fetched and stays for the run, as the policy `Sealed` is part
of does. `torn`, `cuts` and `masked` are history: deaths between two writes of one
booking, and a known booking skipped because its key is held.

**`ReviewQueue`** — one sync and several `ResolveHeld` requests. The page is drawn,
the review is read, the lock asked for, the answer carried out, published, and only
then the review struck; each is an action and a fault or crash may end it. The matcher
and the person are right by assumption: what is checked is order.

**`OpeningBalance`** — the account's part of a sync, the page that shows and writes
the figure, and a bank that posts between any two requests. `Before` is the truth a
figure is compared with.

**`ActualCommit`** refines **`DurableWrites`** — the local replica, the buffer and the
clock against a server and another client; `DurableWrites` is the contract written in
`budget/store.go`, within a session.

**`Connections`** — how a bank account is connected, renewed, removed and reset.
`startAuth`, the callback, the renewal, the picker and its clearing are the steps of a
request (`req`), several of which may be under way; `awaited`/`renewId` and
`offer`/`offerRenews` are the `pending_session_*` and `pending_auth_*` settings they all
share; `accounts` and `sequence` are the table. `Matching` is `matchRenewal`: hash, then
IBAN and currency, then the only one. A sync reads the table once (`sync.snapshot`) and
works on that: `FetchAccount`, `SessionEnded`/`MarkEnded`, `ImportStops` (a failed write or
the deadline, with the resume point). `synced` are the accounts it came through with;
`Commits` publishes, and only then `ClearStart`/`ClearFails` take the start dates of
`Backfilled` away, one write each. `sure` is history of a row: what its renewals were
decided by, `{"account", "iban"}` for a hash or an IBAN with both currencies, `{"iban"}` for
an IBAN with a currency missing, nothing for a person or a single offer.
Sessions may be ended by the bank at any moment; `Event` bounds removals, resets,
ended sessions, failures and crashes. Text of pages, names and expiry dates are out; the
settings one handler writes in a row, whose errors the code ignores, are one step
(`Start`, `FinishAuth`), and the bank a renewal asks is that of the row's account.

**`FireflyStore`** — one booking's way into Firefly III, request by request: the loop's
lookup of a known row, the lookup by reference, the paged listing, the create and the
read-and-PUT of `Update`, with the client's retries (`TriedAgain`, `SentAgain`), lost
answers, requests never processed, 429s, an expired and a replaced token, crashes, and a
user who splits, tags, reconciles and deletes transactions between any two of them.
`isGone` is the second request that tells a deleted row from an expired token. The
server is the one of `firefly/fireflytest`, which the code is tested against.

**`FireflyAccounts`** — the asset account of a bank account: search by IBAN, search by
name, adoption, creation, currency check, and the opening balance (claim, read, PUT),
as a run, a review and the page call them one after another, against a user who
renames, opens, deletes and re-labels accounts. The server keeps names and IBANs of
asset accounts unique (the comment at `firefly/store.go:84`; the fixture checks IBANs on
an update only). `home[b]` is history: the account `b` was first settled in by IBAN.

**`MatchEvidence`** — what the matcher learns from. `decisions` is the log, `questions`
the open ones with the record each is pinned to, `watched` and `inForce` the fitted sets.
A run holds the lock (`MatchingStep`); visitors answer, watch, stop, promote and revert
beside it, one write at a time; what `PromotionStatus` and `WatchTrial` read before they
write anything is one step each (`PromoteJudges`, `WatchReads`). With which set a run
decides is left out. A fitted set is represented by the number of
labels of each kind it was fitted to; whether it is better is a constant (`AnchorsHold`,
`Outscores`), so the gate is control without statistics. Retention (`PruneMatchInquiries`)
is `SyncPrunes` with `TimePasses`.

The MC modules give the constants their values and put models side by side, so that one
TLC run explores each of them; in every behaviour one `part` moves and the others rest:
`MCAccounts` = `ImportRun` with two accounts | `Connections` with one request at a time;
`MCBalances` = `OpeningBalance` | `Connections` with two requests that overlap |
`Connections` with sessions that say what they like; `MCBackends` =
`ActualCommit` | `FireflyStore` | `FireflyAccounts`; `MCTwins` = `TwinImport` |
`MatchEvidence`; `MCReviewQueue` = `ReviewQueue` | `FireflyStore` | `MatchEvidence`
(the last two for liveness). `MCImportRun`, `MCOpeningBalance` and `MCTwinImport` serve
the single models.
The modules ending in `_proofs` hold the theorems of the model they are named after;
`MCBalances_proofs` holds those of `OpeningBalance`, `MCBackends_proofs` those of
`ActualCommit` and `FireflyAccounts`, `MCTwins_proofs` those of `TwinImport` and
`MatchEvidence`, and each of the three the types of its composition. `FiniteSums` models
nothing: it holds what the proofs need of sums over finite sets.

## Runs

| Run | What it checks | Bounds, and why they suffice |
|---|---|---|
| `ImportBatch` | `NoGap`: the next request reaches every booking owed. `NoDuplicate`, `BooksAgree`: rows, references, entries and held keys agree | 1 account, 2 payments, batches of 2, 2 days, 2 faults: a fault and a fault during its retry, a batch that is half written, an authorisation and its booking on different days |
| `ImportAccounts` | with fairness, `Delivered`: a booking owed is imported or put to the user. `EndedMeansEnded`, `StartsUnbooked`, `ResetHonoured`, `EndNoticed`: a sync on a snapshot against rows that change | 2 accounts of which one has a payment, 3 days, 2 faults: one account fails while the other moves the shared watermark, twice. Connections: 3 real accounts at 2 banks (two currencies of one IBAN, no hash; one with a hash), 1 further authorisation, 2 ids, 2 start dates, 2 events: one row is renewed, removed or reset during a sync and one more thing (a fetch, an import, the commit, a clearing) fails |
| `ReviewQueue` | `DecisionPublished`, `NeverForgotten`, `OneRow`, `AskedOnce`; liveness `Arrives`, `Unblocks` | 1 purchase (its authorisation and its booking), 2 requests, 2 faults, a buffering backend: the items of different purchases do not interact here. Firefly: 2 bookings of which one has a reference, pages of one row, 1 trouble, 1 edit. Evidence: 1 payment, 2 questions, so that one can stand in the other's way, 1 sampling round |
| `OpeningBalance` | `FirstFigureExact`, `OneWriter`, `WrittenOnce`, `NoFalseDrift`; `SameAccount`, `OneRowPerFlow`, `DoneAsAsked` | 2 bookings posted anywhere, accounts of both kinds (`""` and `auto`), 2 faults. Connections at one bank: two currency accounts of one IBAN, of which one has a hash, and an account of its own IBAN. `overlap`: 2 requests, 2 authorisations at once, 1 event; the two currency accounts, every session says all it has. `renewals`: one request after the other, 2 authorisations, no failure; all three accounts, and each session says everything, only the IBAN, or nothing, so a row may know more or less than the session that renews it |
| `ActualCommit` | `KeepsContract` (refinement), `StartsCurrent`; `OneRowEach`, `UserWorkKept`, `PlacedAsReported`, `GoneIsGone`; `HomeStays`, `OpeningKept` | Actual: 2 cells, 6 messages, 3 faults: two failed commits and a restart around another client's edits. Firefly: 2 bookings, 1 retry, pages of one row, 2 troubles, 1 edit: an answer lost and its retry failing too, an edit between read and write. Accounts: 3 bank accounts (two of one name, two of one IBAN in different currencies), 3 names of which one contains another, 2 IBANs, 2 figures, 2 lost answers, 2 edits |
| `TwinImport` | `SettledApart`, `NoSurplus`, `NoSecondSettlement`; `LabelsDescribeThePair`, `PromotedAsJudged` | 3 purchases on 2 days in one batch, no typed rows (the theorems allow any); purchases reported, failed batches and crashes together at most 3, reordered listings counted as faults (2). Two twins suffice for every collision known; the third makes ties within a day. Evidence: 1 payment decided twice, 2 questions, 1 visitor, fits to up to 2 labels of a kind, 1 lost write |

Each passing run also checks a type invariant where its models are complete, and every
property has a mutant: a plausible mistake in one mapped definition that the run catches
(`mutants` in `PROJECT.json`).

Runs that are expected to fail, each against a sentence of the repository:

- `ImportMigrated` / `WindowKept`: an account with no date of its own takes the
  installation's watermark instead of the promised 30 days. The watermark moves even
  in a run in which that account failed.
- `ImportRefused` / `HeldOffered`: a held transaction whose review could not be stored
  is passed by the watermark, although the comment counts on its being offered again.
- `CommitLost` / `RetriedLater`: changes kept by a failed commit are dropped when the
  next run's ping fails and the client is replaced.
- `OpeningFormula`: the page's figure subtracts only what the bank lists since the last
  sync, so bookings imported before are counted twice.
- `TwinHeld` / `NeverSilent`: a new twin inherits the positional key of a held one and
  is skipped as held; no listing was reordered. Its two rows were typed by the user.
- `PendingRenewal` / `ConnectionAddsItsOwn`: a renewal abandoned at the bank leaves its
  account in the settings; connecting another account afterwards overwrites the old one.
  The test for this (`web/server_test.go:2685`) covers a renewal that reached the picker.

**What a property leaves out on purpose.** `NoGap` and `Delivered` are about accounts
with a start date (`WindowKept` is about the others) and not about refused reviews
(`HeldOffered`). `OneRow` and `AskedOnce` are about behaviours without faults and
without a request that acts on a review already gone (`stale`): `ResolveHeld` reads
the review before it has the lock, and "this is new" is not checked again, so two
requests can import one booking twice. `SettledApart` and `NoSecondSettlement` exempt a
crash between `recordIdentity` and `consumePending` (`torn`): TLC shows that a twin's
booking is then confirmed onto the settled row. `SettledApart` exempts a known booking
skipped under a held key (`masked`), too: the loop asks for the held key first
(`main.go:1419`), so the booking's row is not claimed in that run and a twin may be
adopted onto it. `NoSurplus` allows one row for each death between `booked_rows` and the
identity (`cuts`): nothing finds the row such a death leaves. `StartsCurrent`
exempts what a dead session left in the local copy. `EndedMeansEnded` exempts a row
marked by a sync that had read it before its renewal (`mismarked`): `MarkSessionEnded`
goes by the id alone, and such a row stays marked until the next renewal.
So it is about marks that survive a renewal and marks without a refusal, not about that
race. `ResetHonoured` lets a date go only after `Commit`, by a sync that came through with the
account and had a date for it when it started; that the date which goes is the one it
started from, it does not ask of an account reset while that sync was under way
(`resetInSync`): a reset during the account's own backfill is cleared with the old date.
`DoneAsAsked` exempts authorisations that met another one in
the shared settings (`crossed`), `OneRowPerFlow` a pick repeated before the offer was
cleared (`repicked`). In each of these four cases the code does go wrong, and but for the
abandoned renewal (`PendingRenewal`) no sentence of the repository denies it: the properties cover what remains of the hazard, and the `note` of
the hazard says so. `SameAccount` is about renewals
decided by identifiers: what a person picks, or the only account offered without any
identifier to compare, is taken at face value. Of a renewal decided by an IBAN with a
currency missing on either side, which `matchRenewal` accepts, it says only that the IBAN
stays: the row may become another currency account. `OneRowEach` exempts a listing shifted by
a deletion while it is paged, `Arrives` a booking with a lost create answer that the user
split since (`Refusing`: Firefly refuses its duplicate, `Update` refuses the split, for
ever), `GoneIsGone` a token replaced between the two requests. `LabelsDescribeThePair`
exempts payments compared twice in one run or with a lost write (`blurred`): then a
question is pinned by key to another record. `PromotedAsJudged` asks that the gate was
open for the set at some time while somebody knew it, not at the moment of the write.
`StartsCurrent` has another client that is on line and one clock that only advances.

**Fairness.** Safety runs assume none. `Delivered` assumes that a step of the run, a
failing one included, is eventually taken when possible (`WF` of `RunStep \/ FaultStep`):
the scheduler loop starts runs for ever and a run has no blocking step without a
deadline. Faults are finite, because a bank that never answers again delivers nothing.
`EndNoticed` and `Arrives` assume the same of the sync's and the import's own steps
(requests have a timeout, `WithHTTPClient`), never of a user, the bank or a fault, and
`Arrives` speaks of behaviours in which the token works from some point on. `Unblocks`
assumes that runs follow each other and that days pass; nobody need answer.

**Bounds in guards.** `MaxDay`, `MaxFaults`, `MaxRows`, `MaxLoad`, `MaxClock`, `MaxFlows`,
`MaxIds`, `MaxEvents`, `MaxTrouble`, `MaxEdits`, `MaxAccountTrouble`, `MaxAccountEdits`,
`MaxDecisions`, `MaxQuestions`, `MaxRules`, `MaxSample`, `MaxLosses`; they stop the bank,
the calendar, people, logs and faults, never a run that has something to do. (`MaxRows`
also bounds the rows a batch may create; in `TwinImport` it leaves room for a whole batch
on top of what `NoSurplus` allows, so it never comes to that.)
`CHECK_DEADLOCK FALSE` stands where the system really may stop: in `Connections` no
account may be left (a run then returns at once) and the authorisations are used up.

## Proofs

`ImportRun_proofs`, for every number of accounts and payments, every window and batch
size, and any number of faults:

- `TypeCorrect`: `Spec => []TypeOK`.
- `NoGapCorrect`: `~TickDuringRun` implies `Spec => []NoGap`.

`NoGap` is not inductive: it says nothing of what a run under way is about to conclude.
`GapInv` adds that. `DatesKnown`: what the bank lists carries a day that has come.
`Started`, `MarkKept`: an account connected with a start date always has a mark of its
own, and no booking owed lies before it. `Rested`, `LoopFree`: what the control point
says of the run's locals. `FeedSnapshot`: the loop works on a listing of this run.
`NothingDropped`: unless a write failed, everything the account in hand owes is still in
the loop or the batch, was booked today, or was cut off behind everything still queued.
`InOrder`: what is queued precedes what is still to do and neither lies before the resume
point, so a resume point steps over nothing. `CutExpired`: only a run without time left
is cut short. `SyncedClean`: the accounts the run will stamp owe only what was booked
today. `MarksPast`: no stored date lies ahead. Together they give, at `FinishAccount` and
`StampSynced`, that the date stored is one whose earlier bookings are all placed; a
booking of the day itself is within the next request, which is why the argument needs
that the day does not change within a run. `TypeInv` adds to `TypeOK` that an account is
in hand inside its loop.

The step splits by what an action can disturb. `GapWithin` and `GapLoop`: a step inside
an account's loop leaves the bank, the marks and the feed alone, so only `InOrder`,
`CutExpired` and `NothingDropped` are left to show, one lemma per action (`GapSeenItem`,
`GapConfirmBooks`, `GapSettleItem`, `GapSettleCut`, ...); `ResumeBehind` is the fact they
share about the resume point. `GapBetween`, `GapAside`, `GapEndRun`: steps that leave
alone or reset all the invariant speaks of. `GapFetch`, `GapFinishAccount`, `GapStamps`,
`GapBankBooks` and `GapTick` carry the argument about the marks. `GapStep` collects them.

The assumption is real: with midnight inside a run (`TickDuringRun = TRUE`) `NoGap`
fails, because the stamp (`main.go`, end of `run`) is the day the run ends.

`ImportRun_proofs` goes on, on the same types and for any number of faults:

- `NoDuplicateCorrect`: `Spec => []NoDuplicate`.
- `BooksAgreeCorrect`: `Spec => []BooksAgree`.

A reference is written after the row it stands for, so after a crash the row is there and
the reference is not. `BooksInv` says what holds at every point between: `RowOnce`, a
payment without a row has no copies either; `InBatch`, what is in a batch has left the loop
and is neither imported nor held; `Placed`, the outcome of a payment in the batch shows in
its row; `Confirming`, between the two writes of a confirmation the row is cleared and
nothing else done; `AtEase`, outside an account's import both are empty. A second row would
need `PlaceNew` for a payment that has one. `FirstUnique`: the loop has one first
transaction, because `TieBreak` tells all of them apart; without it the two halves of a
confirmation could be about different bookings.

`ReviewQueue_proofs`, for every set of purchases and requests, with and without a buffer:

- `QueueTypeCorrect`: `Spec => []TypeOK`.
- `NeverForgottenCorrect`, `DecisionPublishedCorrect`: `Spec => []NeverForgotten`,
  `Spec => []DecisionPublished`.

What decides is the position of whoever is about to strike a review: `SyncPlaced` (the run
has the row of what it settles), `AnswerPlaced` (a request past its write has the row, one
past its publication shows it to the user) and `RowsSent` (a row is on the server, on its
way, or died with a process). They hold one another up, because the run and the requests
strike reviews of each other's purchases.

- `OneRowCorrect`, `AskedOnceCorrect`: `Spec => []OneRow`, `Spec => []AskedOnce`.

Both are about calm behaviours (no fault, no request on a review already gone), and both
follow from `CalmInv`, which `OnceInv` asks for while calm and `LockInv` for always. The
lock orders the writers; what has to be shown is that each of them finds the books as the
one before left them. `NoRowYet` is the key: a purchase whose authorisation nobody has
handled, and an authorisation still in the queue, have no row unless one is being settled
at this moment (`Underway`). `FirstComes`: a booking never overtakes its own
authorisation in a feed, so "new" is right when it is answered. `BookedLeaves`, `InHand`
and `AnswerFits` say what an item in hand, in the run or in a request, still fits. There
is one step per action in `OnceStep`, and under it one per conjunct.

`MCBalances_proofs`, of `OpeningBalance`, for any finite number of bookings and all amounts:

- `OneWriterCorrect`: `Spec => []OneWriter`.
- `FirstFigureExactCorrect`: `LastCommitted => (Spec => []FirstFigureExact)`.
- `WrittenOnceCorrect`: `Spec => WrittenOnce`, an action property.
- `NoFalseDriftCorrect`: `LastCommitted => (Spec => NoFalseDrift)`, an action property.
- `BalanceTypeCorrect`: `Spec => []TypeOK`; `TypesCorrect`: `MCSpec => []TypesOK`, the
  types of `OpeningBalance` and `Connections` side by side.

`OneWriter` follows from `LockInv`: who is past asking has the lock. The figure is balance
minus listed bookings, and the argument is the code's: two readings that name the same last
booking enclose the listing, so nothing was posted between them and the listing holds
exactly what the balance counts (`ReadBefore`, `FeedAccounted`). At a bank that names no
last booking only the amounts are compared, and two bookings that cancel out pass: the
theorem is false there, which is why it is conditional. That bookings add up to an integer
(`TotalTyped`) rests on `FiniteSums`, below. `WrittenOnce` is a question of who may still write:
`WriterInv` says that a writer under way found no figure, and only one is under way.
`NoFalseDrift` compares the figure and what is imported with a balance read some requests
ago. `BalanceInv`: the balance in hand is `Before` plus the amounts of a set of bookings
that this feed or an earlier one delivered and that covers all that is imported, so a
difference is a booking delivered and not in the budget. `PostedInv` follows a booking
from the feed to where it was placed; `AlarmInv` says that the alarm stands over a figure,
and over a booking nobody could read if that figure is exact. It is conditional for the
same reason.

`MCBackends_proofs`, of `ActualCommit`, for all cells, clock bounds and faults:

- `KeepsContractCorrect`: `Spec => KeepsContract`, that is, `ActualCommit` implements
  `DurableWrites` with the buffer and the server's messages as refinement mapping.

`BufferInv` says that the buffer is a list of cells and that what is queued or published was
written by a run; each action is then mapped to a step of the contract or to a stutter. A
commit whose answer is lost publishes and keeps its buffer, which the contract allows; the
retry is a stutter.

- `StartsCurrentCorrect`: `Spec => StartsCurrent`, an action property.
- `BackendTypeCorrect`: `Spec => []TypeOK`; `TypesCorrect`: `MCSpec => []TypesOK`, with
  the types of `FireflyStore` and `FireflyAccounts`.

`StampInv`: messages carry distinct stamps up to the clock. `CurrentInv`: a cell whose
latest message was merged, in this session or before the clock was last saved, shows it;
and a cell published by a commit without an answer is newer than the clock saved before
it. The second part is what makes a restart safe: the new session asks from the saved
clock and gets back what the old one never learnt it had published. `SyncSince` and
`SyncValues` say what one exchange with the server does to the clock and to each cell.

`MCBackends_proofs`, of `FireflyAccounts`, for every set of bank accounts, names, IBANs and
figures, every relation "one text is part of another", and any number of lost answers and
edits:

- `AccountsTypeCorrect`: `AccountsSpec => []AccountsTypeOK`, the uniqueness of names and
  IBANs included.
- `HomeStaysCorrect`: `AccountsSpec => []HomeStays`.
- `OpeningKeptCorrect`: `AccountsSpec => OpeningKept`, an action property.

`HomeStays` speaks of the account in hand only, so it is not inductive. `HomeParts` adds
why: `HomeCarries`, the home of a bank account exists and carries its IBAN (whoever
changes that gives the home up, `Unsettle`); `NotHoused`, only a bank account without a
home is looked for by name, because the search by IBAN finds a home; `AdoptsFree`, what
is about to be adopted is nobody's home, since it was found without an IBAN; `Settled`
is the property itself. The step that needs them together is the adoption, which
overwrites an IBAN: the account adopted may have got one since the search, but it is not
a home. `OpeningKept` follows from `OpeningSeen`: before the PUT the account shows no
opening balance, or our own figure from an attempt whose answer was lost, or the user has
set one since the read (`userSet`). There is one lemma per action, for types, for
`HomeParts` and for `OpeningSeen`; steps that leave the accounts alone share one.

`Connections_proofs`, for all accounts, banks, identifiers and requests, and any number of
authorisations and faults:

- `StartsUnbookedCorrect`: `ConnSpec => StartsUnbooked`. `IdsInv`: ids in use and ids with
  bookings lie at or below the sequence, which a removal does not lower.
- `EndedMeansEndedCorrect`: `ConnSpec => []EndedMeansEnded`. `SessionInv`: whatever names a
  session (a row, the offer, a request) names one the bank has authorised, so a new session
  is open and no old row can carry it.
- `SameAccountCorrect`: `ConnSpec => []SameAccount`. `OwnInv`: what a session, an offer, a
  request or a row says of an account is that account's own (`Own`), what a row says once an IBAN alone has decided is of an account of that
  IBAN (`Near`, `Tells`), and a renewal decided by identifiers carries only entries of the
  same account, or of the same IBAN (`SameAs`). `SureMatches`
  is the heart: equal hashes, or equal IBANs and currencies both given, are one account
  (`ConnectionsAssumption`), and an equal IBAN keeps the IBAN. A renewal that fills in
  identifiers its row lacked takes them from an account as near, so what the row says
  afterwards is as true as before. A request works on ids that may have been removed and given
  again only if the sequence went back, which `IdsInv` excludes.
- `OneRowPerFlowCorrect`: `ConnSpec => []OneRowPerFlow`. `FlowInv` follows an
  authorisation from the callback to its row: `CarriedOnce`, before the picker one request
  has it and nothing else does; `PickedOnce`, from the picker one request takes it, and
  while it is both on offer and on a row that request is about to clear the offer. A flow
  whose pick is repeated (`repicked`) is only claimed to be granted what it carries.
- `ResetHonouredCorrect`: `ConnSpec => ResetHonoured`, an action property. `StartInv`: the
  accounts a sync still relies on (`Held`: to be asked or through; after `Commit`, to be
  cleared) have the start date of its snapshot, unless they were reset since, and none is
  both; after `Commit` only accounts that are through and had a date are left to clear. A
  resume point does not disturb that: whoever leaves one is done with, and not through.
- `DoneAsAskedCorrect`: `ConnSpec => DoneAsAsked`, an action property. `StartedInv`: every
  flow was started, for an id the table had given out. `IntentInv`: the settings and each
  request agree with what a flow was started for, at every control point (`Knows`), as
  long as the flow has not met another one in the settings; one that is on its way alone
  leaves no renewal behind (`loose`).
- `ConnTypeCorrect`: `ConnSpec => []ConnTypeOK`.

`FireflyStore_proofs`, for all bookings, references, page sizes and retries, and any number
of lost answers, crashes, expired tokens and edits of the user:

- `FireflyTypeCorrect`: `FireflySpec => []FireflyTypeOK`.
- `OneRowEachCorrect`: `FireflySpec => []OneRowEach`.
- `PlacedAsReportedCorrect`, `UserWorkKeptCorrect`, `GoneIsGoneCorrect`:
  `FireflySpec => PlacedAsReported` and so on, action properties.

All rest on `WorkInv`. A run works on copies while the user works on the rows, so what it
can know of a row is what `Tracks` says: the row of that id came of the copy (`Evolves`:
same booking, what was reconciled stays so, the amount if anything the bank's by now, the
marker if anything gone), or the user has
edited it since. `CopiesTrack`, `SeenTrack` and `EntryInv` say it of the copies, of the
page being listed and of pending_map; `JobInv` is the shape of a run, which the control
points determine (`Phase`). What is new beyond that is small. `AboutInv`: a second request
about a row that seemed gone is under way only if it is gone, the token is bad or was
replaced. `WriteInv`: the row about to be written is single, not reconciled and with the
tags that were read, or edited since. `StageInv`, `OutInv`: a correction comes before the
marker goes, and what is out of a batch says what the bank reports. `RowInv` is the
longest: while no deletion has shifted a listing, the pages before the one asked for were
seen (`PageInv`), so a booking that was listed and has no copy has no row (`PlaceInv`) and
may be created; `WriteOnly` keeps a correction from meeting a second row. That a row's page
is asked for at all is arithmetic on `\div` (`DivIs`, `DivMost`, `LastPage`).

`MCTwins_proofs`, of `MatchEvidence`, for all payments and visitors, any gate (`AnchorsHold` and
`Outscores` are arbitrary), and any number of runs, decisions, losses and restarts:

- `PromotedAsJudgedCorrect`: `EvidenceSpec => PromotedAsJudged`. `GateInv`: what a request
  carries past the gate is a set the gate was open for.
- `LabelsDescribeThePairCorrect`: `EvidenceSpec => []LabelsDescribeThePair`.
- `OneQuestionCorrect`: at most one question is open (the comment of `Store.OpenInquiry`).

Labels are found by payment, questions by record. `AwaitInv`: a held payment waits with its
newest record, if that has not been aged (`Tops`), and the record has the levels it was made
for (`Plain`). `FoundInv`: what the sampler considers is its payment's newest record and is
not held. `QuestionInv`: a question is pinned to the record it is about, which no review will
relabel; this holds of questions read by a visitor and closed since, too. Retention takes a
payment's records together (`Pruned`), a decision is the newest of its payment (`Decided`), a
label moves nothing else (`Relabelled`): each step is one of these. That the newest record
exists is `Largest`, from the library's theorem on well-founded relations.

- `EvidenceTypeCorrect`: `EvidenceSpec => []EvidenceTypeOK`, on `LogInv`: the invariants
  above with the ranges of counters and settings.

`MCTwins_proofs`, of `TwinImport`, for all numbers of purchases, days, rows and faults,
any order of a listing and rows the user typed ahead:

- `NoSecondSettlementCorrect`: `Spec => []NoSecondSettlement`.
- `SettledApartCorrect`: `Spec => []SettledApart`, if one batch holds all the purchases
  (`Cardinality(Purchases) <= BatchSize`).
- `NoSurplusCorrect`: `Spec => []NoSurplus`, for any batches.
- `TwinTypeCorrect`: `Spec => []TypeOK`; `TypesCorrect`: `MCSpec => []TypesOK`.

`TwinInv` holds within a run too. `OpenEntries`: an entry of pending_map names a row that
neither booked_rows nor booking_identities knows. `OneWaits`: and no other entry names it,
so taking one entry leaves none. `Unremembered`: the rows of a batch that is written and
not yet settled differ from one another, and of a new one nothing is remembered; that is
because new rows are numbered in the order of the listing (`Numbered`, `Feeding`). The
argument uses nothing of the matcher but that an arrangement is one-to-one, so it holds
whatever the weights are.

`SettledApart` is not inductive: it says what a finished run leaves, not what the records
mean while one is under way. `ApartInv` does, on top of `TwinInv`. `Windowed`: the listing
is all that is reported from the first day on. `RecordsFit`: no record has a turn beyond
the purchases of its days, so a record that could come again comes with the listing that
holds all of them. `Passed`, `Followed`: what the loop is done with has claimed the row its
record names, and, unless the run failed, is recorded or held. `OwnRows`: two records are
never of one row. `SettledRows`, `Unrecorded`, `BatchNew`: a recorded row is cleared, and
what is in the batch has no record. The step that needs them together is an adoption. The
row is open (`OpenRow`): not claimed in this run and not sealed. Were there a record of it,
either its days lie in the window, then its booking is in the listing, has been passed
before the batch is placed, and has claimed the row; or they lie before it, then the row
is sealed. Both need that the loop is done when the batch is placed, hence the hypothesis
on the batch; without it the theorem is false (see "Seen on the way").

`NoSurplus` is about the matcher: a new row may be created only when none is left for the
purchase. `ClaimsCounted`: claimed rows without a record are at most as many as listed
authorisations that have been passed. `OrphansCounted`: rows in `booked_rows` without an
identity are at most `cuts`. `Bearers`, `TakenCounted`: what else a row may be taken by is a
purchase outside the batch, so if the budget has as many rows as purchases, one is open for every
member of the batch that stays without. `NothingLeft`: an arrangement with the most evidence
never leaves a purchase without a row while one of its candidates is unused, because
pairing them adds at least a bit (`Worth`, from `PriorAssumption`) and takes nothing away.
So a batch creates no more rows than there are purchases without one (`FlushCounted`).

That comparison is of sums over a batch of any size. `Evidence`, like `Total` of
`OpeningBalance`, is a sum by recursion on a set (`MapThenSumSet`). `FiniteSums` shows that
the function chosen there exists and what it does (`SumsExist`, `SumsTake`, `SumsTyped`,
`SumsBounded`, and `SumsMove`: where one member adds something else, the sums differ by as
much). Induction would take an operator as a parameter; instead each proof looks at a
smallest set for which the claim fails (`LeastSet`), which the theorem on well-founded
relations provides.

The assumptions on the constants (`ConstantsAssumption`, `LockAssumption`,
`NoneAssumption`, `PriorAssumption`, `ClockAssumption`, `StoreAssumption`,
`AccountsAssumption`, `ConnectionsAssumption`, `BoundsAssumption`) stand in the models and
are evaluated by TLC. They type the constants and keep the values that stand for "none" or
"free" apart from the others; four say more. `ConnectionsAssumption`: equal hashes, or equal
IBANs and currencies, are one account. `AccountsAssumption`: a search for an IBAN finds the
account that carries it. `ConstantsAssumption` of `TwinImport`: the rows typed ahead fit in
`MaxRows`. `PriorAssumption`: choosing among the candidates costs less than a match is worth,
which holds of `6 log2(n)` up to 287 candidates for one transaction.

Only model-checked: the liveness properties, `Delivered`, `Arrives`, `Unblocks` and
`EndNoticed`. Temporal reasoning with ENABLED is outside this prover. All the other
properties of the passing runs are theorems. The models use sets and quantifiers, and no
RECURSIVE operator.

## Not modelled, and why

- Retention (90 days and more), zero-amount rows, the key formats of earlier versions:
  they add branches, no new order of events.
- Rules, reports, mail, metrics: they run after the import and feed nothing back.
- Single bookkeeping writes that fail while the process lives (crashes between them are).
- Comparison of payees, amounts and dates beyond exact twins, and the estimation of the
  weights: real-number statistics; the twins use the default weights of `linkage.go`.
- A held authorisation offered to a booking of another key is in `ReviewQueue`, not in
  `TwinImport`.
- Enable Banking's paging and rate limits, Actual's rules, transfers between own accounts
  in Firefly, the paging of its account search, the settings and log pages, telemetry,
  mail, export, updates, certificates: I/O and conversion without shared state.
- In `MatchEvidence`: the policy a run decides with, shadow tallies, decisions without a candidate, the removal of an
  account; records of one payment share a date.
- Dates in Firefly rows: an authorisation and its booking are taken to share the date the
  duplicate check hashes.

## Seen on the way

Behaviours the models have, or that were met while reading, which no document of the
repository contradicts or which no run has room for:

- `"writing"` left by a crash between claim and record of an opening balance: nothing
  takes it back.
- An account added through the web form starts with the state `""`, not `auto`, although
  the README promises new connections an opening balance; `OpeningBalance` starts from both.
- Without an `actual_account` the sync names an account `fallbackAccountName`
  (`main.go:753`), while reviews and the opening-balance page use `budgetAccountName`
  (`balance.go:658`). Without an IBAN, and always on Actual, the answers of the review
  page and the page's figure then go to another account of the budget.
- `ResolveHeld` does not `Resync` (`review.go:256`), so on Actual a row edited or deleted
  since the last run is merged into.
- `AnswerInquiry` compares the page's parameter version with the one stored in the
  question (`inquiry.go:235`), so a settings change never refuses an answer.
- `handleSettings` validates eight values together and saves them one by one
  (`web/server.go:1577`): a failed save, or a run in between, sees a mixture.
- A name search adopts the name of an account whatever IBAN that account carries
  (`firefly/store.go:115`); two currency accounts of one IBAN are refused for ever, since
  Firefly finds the first.
- `handlePickAccount` adds a row when the one to renew has been removed
  (`web/server_test.go:2711`). A renewal does not reset the stage of the expiry warning.
- A start date reset while a sync is backfilling that account is cleared with the old one
  (`main.go:1714`); one reset while a sync that is cut short imports the account is
  overwritten by the resume point (`main.go:1609`).
- An IBAN decides a renewal although either side leaves the currency out
  (`web/server.go:727`), so a row can go over to another currency account of that IBAN.
- Two authorisations started side by side share `pending_renew_account_id`
  (`web/server.go:606`): the one that answers first renews what the other was started for.
- The picker submitted twice, or again after a crash, adds two rows
  (`web/server.go:899`).
- A sync refused under the old session marks the row although it was renewed meanwhile
  (`store/store.go:666`); the mark stays until the next renewal.
- A promotion or a revert between the two reads of the promoted set (`balance.go:439` and
  `463`) gives one run the rescaling of one set and the level tables of another.
- An Actual client that was offline and delivers old messages late, and a wall clock that
  steps back, are not modelled (`actual/client.go:359`, `actual/hulc.go:79`).
- A transaction the user deleted in Firefly while its booking was pending is created
  again by the booking.
- Splitting a batch is said to cost nothing in practice (`main.go:1971`). Of look-alikes it
  can cost one, without a fault: a booking that arrives late with an earlier day fills a
  batch, which is placed before the loop has reached the twin imported before and claimed
  its row; it is adopted onto that row. It takes 200 transactions between the two
  (`assignBatchSize`), or a batch of 1 in the model (`SettledApartCorrect` supposes one
  batch).
- A twin listed under the key of a held one hides a booking already imported from the
  claims of that run (`masked`): one row typed ahead and three purchases, or four
  purchases, are enough to lose one, without a fault.

## Plan

1. Done: the eight models above, their runs, and the theorems under "Proofs"; all that the
   passing runs check is proved but for liveness.
2. Proofs next: what two pieces of the program owe each other and no run states yet, among
   them an abstract store for `FireflyStore` like `DurableWrites` for `ActualCommit`.
3. `Assignment`: `components`, `columnsFor` and `hungarian` as functions, checked against
   the best arrangement by definition over all small weight matrices; in the same run
   `Paging` (repeated and failing pages of Enable Banking).
4. A composition of `ReviewQueue` with windows, for an authorisation released by adoption,
   and with a user at work in Actual.
