--------------------------- MODULE OpeningBalance ---------------------------
(***************************************************************************)
(* The opening balance of one account and the drift check after it:        *)
(* settleBalances and OpeningBalancePreview of src/balance.go, with the    *)
(* claim that keeps two writers apart (store.ClaimOpeningBalance).         *)
(*                                                                         *)
(* The bank posts bookings at any moment, between any two requests of a    *)
(* run.  Both readings of the balance and the feed are therefore separate  *)
(* steps, and what the account held before the imported window is known to *)
(* the model (Before), so that a figure can be called right or wrong.      *)
(*                                                                         *)
(* Only booked entries and booked balances are modelled; dates are reduced *)
(* to what the feed delivers: a booking of a day before the account's      *)
(* watermark is not delivered again.                                       *)
(***************************************************************************)
EXTENDS Integers, FiniteSets, FiniteSetsExt

CONSTANTS
    None,            \* no figure, and no last committed transaction
    Payments,        \* bookings the bank may post
    Amount,          \* the amount of each
    Before,          \* what the account held before the first of them
    LastCommitted,   \* TRUE when the bank reports last_committed_transaction
    InitialStates,   \* opening_balance_state of the account at first
    MaxFaults        \* bound: failures and crashes in a behaviour

ASSUME ConstantsAssumption ==
    /\ IsFiniteSet(Payments)
    /\ Amount \in [Payments -> Int]
    /\ Before \in Int
    /\ LastCommitted \in BOOLEAN
    /\ InitialStates \subseteq {"", "auto"}
    /\ None \notin Payments
    /\ MaxFaults \in Nat

\* No figure is not a figure.
ASSUME NoneAssumption == None \notin Int

VARIABLES
    posted, latest,     \* the bank: bookings posted, and the last of them
    earlier, past,      \* posted before today; not delivered any more
    imported, held, unread,  \* what became of them: row, review, parse failure
    state, figure, recorded, \* opening_balance_state, the budget's, the store's
    drift,              \* drift_state
    lock, run, page,
    \* History: who wrote the figure; a sync is "first" while every booking
    \* is still within its window, however many syncs there were before.
    author, faults

bankVars == <<posted, latest, earlier>>
import   == <<imported, held, unread>>
opening  == <<state, figure, recorded, author>>
vars == <<bankVars, past, import, opening, drift, lock, run, page, faults>>

States == {"", "auto", "writing", "written", "unavailable", "denied"}
Claimable == {"", "auto"}
DriftStates == {"", "ok", "drift", "unstable", "incomplete", "no_opening_balance",
                "no_balance"}

Total(S) == MapThenSumSet(LAMBDA p : Amount[p], S)
BankBalance == Before + Total(posted)
\* A reading of the balances endpoint, as sameBalance compares it.
Reading == [cents |-> BankBalance, last |-> IF LastCommitted THEN latest ELSE None]
Unread == [cents |-> 0, last |-> "unread"]
FeedAhead == Payments \ past
Feed == posted \ past

RunSteps == {"off", "fetch", "import", "after", "claim", "write", "record", "check",
             "end"}
PageSteps == {"off", "asked", "feed", "claim", "write", "record"}

NoRun == [pc |-> "off", known |-> "", picked |-> Unread, feed |-> {}, complete |-> TRUE]
NoPage == [pc |-> "off", known |-> "", picked |-> Unread, feed |-> {}, apply |-> FALSE,
           expected |-> None]

\* OpeningCents: the balance, less what the window brought.
Figure(reading, feed) == reading.cents - Total(feed \ unread)

TypeOK ==
    /\ posted \subseteq Payments /\ latest \in Payments \cup {None}
    /\ earlier \subseteq posted /\ past \subseteq posted
    /\ imported \subseteq posted /\ held \subseteq posted /\ unread \subseteq posted
    /\ state \in States
    /\ figure = None \/ figure \in Int
    /\ recorded = None \/ recorded \in Int
    /\ author \in {"", "first", "later", "page"}
    /\ drift \in DriftStates
    /\ lock \in {"free", "run", "page"}
    /\ run.pc \in RunSteps /\ run.known \in States /\ run.feed \subseteq posted
    /\ page.pc \in PageSteps /\ page.known \in States /\ page.feed \subseteq posted
    /\ faults \in Nat

Fault == faults < MaxFaults /\ faults' = faults + 1

-----------------------------------------------------------------------------
(* The bank, the calendar and the person.                                  *)

Post(p) ==
    /\ p \notin posted
    /\ posted' = posted \cup {p} /\ latest' = p
    /\ UNCHANGED <<earlier, past, import, opening, drift, lock, run, page, faults>>

NewDay ==
    /\ lock = "free" /\ earlier # posted
    /\ earlier' = posted
    /\ UNCHANGED <<posted, latest, past, import, opening, drift, lock, run, page, faults>>

\* A held booking is decided on the review page.
Decide(p) ==
    /\ lock = "free" /\ p \in held
    /\ held' = held \ {p} /\ imported' = imported \cup {p}
    /\ UNCHANGED <<bankVars, past, unread, opening, drift, lock, run, page, faults>>

\* RenewBankAccountSession: a refused balance access is asked for afresh.
Renew ==
    /\ state = "denied"
    /\ state' = ""
    /\ UNCHANGED <<bankVars, past, import, figure, recorded, author, drift, lock, run,
                   page, faults>>

-----------------------------------------------------------------------------
(* The account's part of a sync.                                           *)

RunGoto(step) == run' = [run EXCEPT !.pc = step]

\* The account is read, then its balances (readBalances).
RunBegin ==
    /\ lock = "free"
    /\ lock' = "run"
    /\ run' = [NoRun EXCEPT !.pc = "fetch", !.known = state, !.picked = Reading]
    /\ UNCHANGED <<bankVars, past, import, opening, drift, page, faults>>

\* The bank refuses, or does not have, the endpoint: the state says so,
\* whatever it was.
BalancesRefused ==
    /\ lock = "free"
    /\ Fault
    /\ lock' = "run"
    /\ run' = [NoRun EXCEPT !.pc = "fetch", !.known = state]
    /\ \E s \in {"denied", "unavailable"} : state' = s
    /\ UNCHANGED <<bankVars, past, import, figure, recorded, author, drift, page>>

RunFetch ==
    /\ run.pc = "fetch"
    /\ run' = [run EXCEPT !.pc = "import", !.feed = Feed]
    /\ UNCHANGED <<bankVars, past, import, opening, drift, lock, page, faults>>

\* Of the new bookings some are written, some held, some cannot be parsed;
\* if any other is left a write failed or the deadline passed.
RunImport ==
    LET new == run.feed \ (imported \cup held \cup unread) IN
    /\ run.pc = "import"
    /\ \E w \in SUBSET new :
         /\ imported' = imported \cup w
         /\ IF w = new THEN UNCHANGED <<held, unread, faults>> /\ RunGoto("after")
            ELSE /\ Fault
                 /\ \E h \in SUBSET (new \ w), d \in SUBSET (new \ w) :
                      /\ h \cap d = {}
                      /\ held' = held \cup h /\ unread' = unread \cup d
                      /\ run' = [run EXCEPT !.pc = "after",
                                            !.complete = (h \cup d = new \ w)]
    /\ UNCHANGED <<bankVars, past, opening, drift, lock, page>>

\* The second reading has to agree with the first.
OneReading ==
    /\ run.pc = "after"
    /\ IF run.picked = Unread THEN drift' = "no_balance" /\ RunGoto("end")
       ELSE UNCHANGED drift /\ RunGoto(IF run.known = "auto" THEN "claim" ELSE "check")
    /\ UNCHANGED <<bankVars, past, import, opening, lock, page, faults>>

RunAfter ==
    /\ run.pc = "after"
    /\ IF run.picked = Unread THEN drift' = "no_balance" /\ RunGoto("end")
       ELSE IF Reading # run.picked THEN drift' = "unstable" /\ RunGoto("end")
       ELSE UNCHANGED drift /\ RunGoto(IF run.known = "auto" THEN "claim" ELSE "check")
    /\ UNCHANGED <<bankVars, past, import, opening, lock, page, faults>>

\* deferReason: everything that would fold money into the figure.
DroppedIgnored == ~run.complete \/ held # {}
Deferred == run.feed \cap unread # {} \/ ~run.complete \/ held # {}

\* ClaimOpeningBalance, a compare-and-swap.
RunClaim ==
    /\ run.pc = "claim"
    /\ IF ~Deferred /\ state \in Claimable
       THEN state' = "writing" /\ RunGoto("write")
       ELSE UNCHANGED state /\ RunGoto("check")
    /\ UNCHANGED <<bankVars, past, import, figure, recorded, author, drift, lock, page,
                   faults>>

\* Both backends look first and leave an opening balance that is there.
Overwrite(cents, who) == figure' = cents /\ author' = who
WriteOnce(cents, who) ==
    IF figure = None THEN figure' = cents /\ author' = who
    ELSE UNCHANGED <<figure, author>>

RunWrite ==
    /\ run.pc = "write"
    /\ WriteOnce(Figure(run.picked, run.feed),
                 IF past = {} THEN "first" ELSE "later")
    /\ RunGoto("record")
    /\ UNCHANGED <<bankVars, past, import, state, recorded, drift, lock, page, faults>>

RunWriteFails ==
    /\ run.pc = "write"
    /\ Fault
    /\ state' = "auto"
    /\ RunGoto("check")
    /\ UNCHANGED <<bankVars, past, import, figure, recorded, author, drift, lock, page>>

RunRecord ==
    /\ run.pc = "record"
    /\ state' = "written" /\ recorded' = Figure(run.picked, run.feed)
    /\ RunGoto("check")
    /\ UNCHANGED <<bankVars, past, import, figure, author, drift, lock, page, faults>>

RunRecordFails ==
    /\ run.pc = "record"
    /\ Fault
    /\ RunGoto("check")
    /\ UNCHANGED <<bankVars, past, import, opening, drift, lock, page>>

\* checkDrift, on the state as the run left it.
BudgetTotal == Total(imported) + (IF figure = None THEN 0 ELSE figure)
RunCheck ==
    /\ run.pc = "check"
    /\ drift' = IF state # "written" THEN "no_opening_balance"
                ELSE IF Deferred THEN "incomplete"
                ELSE IF BudgetTotal = run.picked.cents THEN "ok" ELSE "drift"
    /\ RunGoto("end")
    /\ UNCHANGED <<bankVars, past, import, opening, lock, page, faults>>

\* The watermark moves to today when every booking was placed.
RunEnd ==
    /\ run.pc = "end"
    /\ past' = IF run.complete THEN earlier ELSE past
    /\ lock' = "free" /\ run' = NoRun
    /\ UNCHANGED <<bankVars, import, opening, drift, page, faults>>

-----------------------------------------------------------------------------
(* OpeningBalancePreview: once to show the figure, once more to write it.  *)

PageGoto(step) == page' = [page EXCEPT !.pc = step]
PageEnd == lock' = "free" /\ page' = [NoPage EXCEPT !.expected = page.expected]

\* The account is read before the lock is asked for.
PageAsk(apply) ==
    /\ page.pc = "off" /\ state # "written"
    /\ apply => page.expected # None
    /\ page' = [page EXCEPT !.pc = "asked", !.known = state, !.apply = apply]
    /\ UNCHANGED <<bankVars, past, import, opening, drift, lock, run, faults>>

PageUnlocked ==
    /\ page.pc = "asked"
    /\ lock' = "page" /\ page' = [page EXCEPT !.pc = "feed", !.picked = Reading]
    /\ UNCHANGED <<bankVars, past, import, opening, drift, run, faults>>

PageBalances ==
    /\ page.pc = "asked"
    /\ IF lock = "free"
       THEN lock' = "page" /\ page' = [page EXCEPT !.pc = "feed", !.picked = Reading]
       ELSE UNCHANGED lock /\ page' = [NoPage EXCEPT !.expected = page.expected]
    /\ UNCHANGED <<bankVars, past, import, opening, drift, run, faults>>

\* The feed starts at the account's watermark; there is no second reading.
PageFeed ==
    LET cents == Figure(page.picked, Feed) IN
    /\ page.pc = "feed"
    /\ IF Feed \cap unread # {} \/ held # {} \/ (page.apply /\ page.expected # cents)
       THEN PageEnd
       ELSE IF ~page.apply THEN lock' = "free" /\ page' = [NoPage EXCEPT !.expected = cents]
       ELSE UNCHANGED lock /\ page' = [page EXCEPT !.pc = "claim", !.feed = Feed]
    /\ UNCHANGED <<bankVars, past, import, opening, drift, run, faults>>

PageClaim ==
    /\ page.pc = "claim"
    /\ IF state \in Claimable THEN state' = "writing" /\ PageGoto("write") /\ UNCHANGED lock
       ELSE UNCHANGED state /\ PageEnd
    /\ UNCHANGED <<bankVars, past, import, figure, recorded, author, drift, run, faults>>

PageWrite ==
    /\ page.pc = "write"
    /\ WriteOnce(Figure(page.picked, page.feed), "page")
    /\ PageGoto("record")
    /\ UNCHANGED <<bankVars, past, import, state, recorded, drift, lock, run, faults>>

\* The state goes back to what the account was read with.
PageWriteFails ==
    /\ page.pc = "write"
    /\ Fault
    /\ state' = page.known
    /\ PageEnd
    /\ UNCHANGED <<bankVars, past, import, figure, recorded, author, drift, run>>

PageRecord ==
    /\ page.pc = "record"
    /\ state' = "written" /\ recorded' = Figure(page.picked, page.feed)
    /\ PageEnd
    /\ UNCHANGED <<bankVars, past, import, figure, author, drift, run, faults>>

Crash ==
    /\ lock # "free"
    /\ Fault
    /\ lock' = "free" /\ run' = NoRun /\ page' = NoPage
    /\ UNCHANGED <<bankVars, past, import, opening, drift>>

-----------------------------------------------------------------------------
Init ==
    /\ posted = {} /\ latest = None /\ earlier = {} /\ past = {}
    /\ imported = {} /\ held = {} /\ unread = {}
    /\ state \in InitialStates /\ figure = None /\ recorded = None /\ author = ""
    /\ drift = "" /\ lock = "free" /\ run = NoRun /\ page = NoPage
    /\ faults = 0

RunStep ==
    \/ RunBegin \/ BalancesRefused \/ RunFetch \/ RunImport \/ RunAfter \/ RunClaim
    \/ RunWrite \/ RunWriteFails \/ RunRecord \/ RunRecordFails \/ RunCheck \/ RunEnd
PageStep ==
    \/ \E apply \in BOOLEAN : PageAsk(apply)
    \/ PageBalances \/ PageFeed \/ PageClaim \/ PageWrite \/ PageWriteFails \/ PageRecord
WorldStep ==
    \/ \E p \in Payments : Post(p) \/ Decide(p)
    \/ NewDay \/ Renew \/ Crash

Next == RunStep \/ PageStep \/ WorldStep

Spec == Init /\ [][Next]_vars

-----------------------------------------------------------------------------
(* What the opening balance promises.                                      *)

\* A figure derived by a sync whose window has not moved yet is
\* exactly the money that predates the window, however the bank posted while
\* the run was reading: both readings, the feed between them and every reason
\* to defer are needed for it (settleBalances, deferReason, sameBalance).
FirstFigureExact == author = "first" => figure = Before

\* The figure in the budget is written once: claims, retries after failures
\* and crashes, the page and the sync together never change it.
WrittenOnce == [][figure # None => figure' = figure]_vars

\* A claim is held by one writer at a time, and only while it works on it.
OneWriter ==
    /\ ~(run.pc \in {"write", "record"} /\ page.pc \in {"write", "record"})
    /\ run.pc \in {"write", "record"} \/ page.pc \in {"write", "record"}
         => state = "writing"

\* The alarm means something: with an exact figure, drift is reported only
\* when the budget lacks a booking the bank has posted.
NoFalseDrift ==
    [][drift' = "drift" /\ run.pc = "check" /\ author = "first" =>
         posted \ imported # {}]_vars

\* README.md: opening balance = the bank's booked balance less the booked
\* transactions we imported, so that the budget matches the bank.
OpeningFormula == author # "" => figure = Before
=============================================================================
