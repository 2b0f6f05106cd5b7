---------------------------- MODULE FireflyStore ----------------------------
(***************************************************************************)
(* The Firefly III backend: Store of src/firefly/store.go on the HTTP      *)
(* client of src/firefly/client.go, called by an import (the loop of       *)
(* src/main.go and ReconcileBatch of src/budget/reconcile.go).             *)
(*                                                                         *)
(* Firefly is write-through: a request that was processed is durable       *)
(* whatever becomes of its answer and of the run.  The user works on the   *)
(* same transactions at any moment, also between two requests of ours.     *)
(* The server's side is that of src/firefly/fireflytest, which reproduces  *)
(* what the client is written against.                                     *)
(*                                                                         *)
(* The matcher (TwinImport) is taken to recognise the row of a booking     *)
(* whenever it is shown that row; deadlines, several accounts and the      *)
(* partial failures of the bookkeeping are in ImportRun.                   *)
(***************************************************************************)
EXTENDS Naturals, Sequences, FiniteSets, FiniteSetsExt, SequencesExt

CONSTANTS
    Bookings,      \* numbers: what the bank reports, in the order of the feed
    Referenced,    \* those that carry a reference once they are booked
    MaxRateRetry,  \* maxRateRetry
    PerPage,       \* transactions on a page of a listing
    MaxTrouble,    \* bound: requests gone wrong, crashes, tokens expired
    MaxEdits       \* bound: changes the user makes

\* A page has at least one transaction on it; the bookings are numbered.
ASSUME StoreAssumption ==
    Bookings \subseteq Nat /\ MaxRateRetry \in Nat /\ PerPage \in Nat \ {0}

VARIABLES
    feed,          \* what the bank reports of each booking
    groups,        \* Firefly's transaction groups, in the order of a listing
    nextGroup,
    tokenValid,
    entry, placed, \* pending_map (0 for none); the bookings recorded as imported
    job,           \* the run under way, with its request
    \* History: bookings whose row the user changed since it was read, whether
    \* a listing was shifted under the reader, groups reported as gone.
    edited, shifted, gone,
    trouble, edits

bankState == <<feed, entry, placed>>
firefly == <<groups, nextGroup, tokenValid>>
editState == <<edited, shifted, edits>>
fireflyVars == <<bankState, firefly, job, editState, gone, trouble>>

NoGroup == [id |-> 0, of |-> 0, ref |-> FALSE, amount |-> "", tags |-> {},
            splits |-> 0, reconciled |-> FALSE]
\* What a run has left: entries with a known row, bookings whose reference is
\* to be looked up, whose candidates are to be listed, which are to be placed.
NoJob == [step |-> "off", known |-> FALSE, direct |-> {}, lookup |-> {}, listing |-> {},
          placing |-> {}, copy |-> [p \in Bookings |-> NoGroup], page |-> 1, seen |-> {},
          stage |-> "", base |-> {}, renewed |-> FALSE, attempt |-> 0,
          out |-> [p \in Bookings |-> 0]]

Ids == 1..(nextGroup - 1)
Stored == ToSet(groups)
GroupsOf(p) == {g \in Stored : g.of = p}
Exists(i) == \E g \in Stored : g.id = i
Group(i) == CHOOSE g \in Stored : g.id = i

FireflyTypeOK ==
    /\ feed \in [Bookings -> {"none", "authorised", "booked"}]
    /\ \A g \in Stored :
          /\ g.id \in Ids /\ g.of \in Bookings /\ g.splits \in 1..2
          /\ g.amount \in {"authorised", "booked"} /\ g.tags \subseteq {"pending", "own"}
          /\ {g.ref, g.reconciled} \subseteq BOOLEAN
    /\ \A i, j \in DOMAIN groups : groups[i].id = groups[j].id => i = j
    /\ tokenValid \in BOOLEAN
    /\ entry \in [Bookings -> Ids \cup {0}] /\ placed \subseteq Bookings
    /\ job.step \in {"off", "page", "search", "read", "about", "write", "post", "settle",
                      "book"}
    /\ job.direct \cup job.placing \subseteq Bookings
    /\ job.lookup \cup job.listing \subseteq job.placing
    /\ job.stage \in {"", "amount", "enrich", "confirm", "adopt", "done"}
    /\ job.attempt \in 0..MaxRateRetry
    /\ edited \subseteq Bookings /\ gone \subseteq Ids /\ shifted \in BOOLEAN

-----------------------------------------------------------------------------
(* The bank.  A run works on one answer of it.                             *)

BankReports(p, status) ==
    /\ job.step = "off"
    /\ \/ feed[p] = "none"
       \/ feed[p] = "authorised" /\ status = "booked"
    /\ feed' = [feed EXCEPT ![p] = status]
    /\ UNCHANGED <<entry, placed, firefly, job, editState, gone, trouble>>

-----------------------------------------------------------------------------
(* The user, in Firefly.                                                   *)

Edit(p) ==
    /\ edits < MaxEdits
    /\ edits' = edits + 1
    /\ edited' = edited \cup {p}
    /\ UNCHANGED <<bankState, nextGroup, tokenValid, job, gone, trouble>>

Change(n, g) == /\ Edit(g.of)
                /\ groups' = [groups EXCEPT ![n] = g]
                /\ UNCHANGED shifted

UserSplits(n) == groups[n].splits = 1 /\ Change(n, [groups[n] EXCEPT !.splits = 2])
UserTags(n) ==
    "own" \notin groups[n].tags /\ Change(n, [groups[n] EXCEPT !.tags = @ \cup {"own"}])
UserReconciles(n) ==
    ~groups[n].reconciled /\ Change(n, [groups[n] EXCEPT !.reconciled = TRUE])

\* What is listed after the group moves up by one place.
UserDeletes(n) ==
    /\ Edit(groups[n].of)
    /\ groups' = RemoveAt(groups, n)
    /\ shifted' = (shifted \/ (job.step = "page" /\ job.page > 1))

-----------------------------------------------------------------------------
(* The patches.                                                            *)

IsBooked(p) == feed[p] = "booked"

\* MergePatch and AmountPatch, from the copy the run holds.  A row the user
\* reconciled is left alone.
MergePatch(t, p) ==
    IF t.reconciled \/ ~IsBooked(p) THEN {}
    ELSE {f \in {"ref", "cleared"} : IF f = "ref" THEN p \in Referenced /\ ~t.ref
                                     ELSE "pending" \in t.tags}
AmountPatch(t, p) == IF t.reconciled \/ t.amount = feed[p] THEN {} ELSE {"amount"}

\* The loop corrects the amount and then merges, or at least confirms; an
\* adoption does both at once.
Patch(stage, t, p) ==
    CASE stage = "amount"  -> AmountPatch(t, p)
      [] stage = "enrich"  -> MergePatch(t, p)
      [] stage = "confirm" -> {"cleared"}
      [] stage = "adopt"   -> AmountPatch(t, p) \cup MergePatch(t, p)

Stages(phase) == IF phase = "direct" THEN <<"amount", "enrich">> ELSE <<"adopt">>

\* The first stage from the n-th on that has something to write.
StageFrom(phase, n, t, p) ==
    LET left == {i \in n..Len(Stages(phase)) : Patch(Stages(phase)[i], t, p) # {}}
    IN  IF left = {} THEN "done" ELSE Stages(phase)[Min(left)]

AfterStage(stage, t, p) ==
    IF stage = "amount" THEN StageFrom("direct", 2, t, p) ELSE "done"

\* What the loop does about a write that failed.
GoesOnUncorrected(stage) == IF stage = "confirm" THEN "failed" ELSE "confirm"
AfterFailure(stage) == IF stage = "enrich" THEN "confirm" ELSE "failed"

-----------------------------------------------------------------------------
(* The run, from phase to phase: the rows of pending_map are updated as    *)
(* the loop meets them; the rest is a batch, for which first the           *)
(* references are looked up, then the candidates of each are listed, and   *)
(* then each is placed.                                                    *)

Phase(j) == IF ~j.known            THEN "known"
            ELSE IF j.direct # {}  THEN "direct"
            ELSE IF j.lookup # {}  THEN "find"
            ELSE IF j.listing # {} THEN "list"
            ELSE IF j.placing # {} THEN "place"
            ELSE "book"

CurrentOf(j) == Min(CASE Phase(j) = "direct" -> j.direct
                      [] Phase(j) = "find"   -> j.lookup
                      [] Phase(j) = "list"   -> j.listing
                      [] Phase(j) = "place"  -> j.placing)
Current == CurrentOf(job)

Updating(j, stage) ==
    [j EXCEPT !.stage = stage, !.step = IF stage = "done" THEN "settle" ELSE "read"]
Paging(j) == [j EXCEPT !.step = "page", !.page = 1, !.seen = {}]

\* The first request of what comes next.
Turn(j) ==
    LET p == CurrentOf(j)
        opening == StageFrom(Phase(j), 1, j.copy[p], p)
    IN  CASE Phase(j) = "book"   -> [j EXCEPT !.step = "book"]
          [] Phase(j) = "find"   -> [j EXCEPT !.step = "search"]
          [] Phase(j) = "list"   -> Paging(j)
          [] Phase(j) = "direct" -> Updating(j, opening)
          [] OTHER               -> IF j.copy[p] = NoGroup THEN [j EXCEPT !.step = "post"]
                                    ELSE Updating(j, opening)

Continue(j) == job' = [j EXCEPT !.attempt = 0]

Unsettled == {p \in Bookings : \/ (IsBooked(p) /\ p \notin placed)
                               \/ (feed[p] = "authorised" /\ entry[p] = 0)}

\* The account's transactions are listed before the loop.
RunBegins ==
    /\ job.step = "off"
    /\ Continue(Paging([NoJob EXCEPT !.placing = Unsettled]))
    /\ edited' = {}
    /\ UNCHANGED <<bankState, firefly, shifted, edits, gone, trouble>>

-----------------------------------------------------------------------------
(* Reading.                                                                *)

Quiet == UNCHANGED <<bankState, firefly, editState, gone, trouble>>

\* ListTransactions: a group the user has split is not a candidate.
Single(g) == g.splits = 1
Pages == (Len(groups) + PerPage - 1) \div PerPage
PageOf(n) == {groups[i] : i \in {k \in DOMAIN groups : (k - 1) \div PerPage = n - 1}}
UsableAll(page) == page
Usable(page) == {g \in page : Single(g)}

\* toBudget reads one split and fails on any other number of them.
Convertible(page) == \A g \in page : g.splits = 1

\* knownByID: the entries of booked authorisations whose row was listed.
\* (An authorisation without an entry has entry 0, the id of no group.)
LoopStarts(seen) ==
    LET known == {p \in job.placing : \E g \in seen : g.id = entry[p]}
        rest == job.placing \ known
    IN  Turn([job EXCEPT
            !.known = TRUE, !.direct = known, !.placing = rest, !.listing = rest,
            !.lookup = {p \in rest \cap Referenced : IsBooked(p)},
            !.copy = [p \in Bookings |-> IF p \in known
                                         THEN CHOOSE g \in seen : g.id = entry[p]
                                         ELSE NoGroup]])

\* The candidate the matcher recognises, if it was shown one.
Candidates(seen, p) == {g \in seen : g.of = p}
Recognised(seen, p) ==
    IF Candidates(seen, p) = {} THEN NoGroup
    ELSE CHOOSE g \in Candidates(seen, p) : \A h \in Candidates(seen, p) : g.id <= h.id

CandidatesListed(seen) ==
    Turn([job EXCEPT !.listing = @ \ {Current}, !.copy[Current] = Recognised(seen, Current)])

\* GetPaged: the number of pages is what the answer says it is.
PageAnswered ==
    /\ job.step = "page" /\ tokenValid
    /\ LET page == Usable(PageOf(job.page))
           seen == job.seen \cup page
       IN  Continue(IF ~Convertible(page) THEN NoJob
                ELSE IF job.page < Pages THEN [job EXCEPT !.page = @ + 1, !.seen = seen]
                ELSE IF job.known THEN CandidatesListed(seen) ELSE LoopStarts(seen))
    /\ Quiet

\* FindByExternalRef.
SearchAnswered ==
    /\ job.step = "search" /\ tokenValid
    /\ LET hits == {g \in Usable(GroupsOf(Current)) : g.ref}
       IN  IF hits = {} THEN Continue(Turn([job EXCEPT !.lookup = @ \ {Current}]))
           ELSE LET hit == CHOOSE g \in hits : TRUE
                IN  Continue(Updating([job EXCEPT !.copy[Current] = hit],
                                  StageFrom("find", 1, hit, Current)))
    /\ Quiet

-----------------------------------------------------------------------------
(* Writing.                                                                *)

Target == job.copy[Current].id

\* A write that failed: the loop tries less, or leaves the booking to the
\* next run; a batch is left as a whole.
Fails ==
    IF Phase(job) = "direct"
    THEN IF AfterFailure(job.stage) = "failed"
         THEN Turn([job EXCEPT !.direct = @ \ {Current}])
         ELSE Updating(job, AfterFailure(job.stage))
    ELSE NoJob

\* Store.group, and what Update refuses.
NeverUntouchable(g) == FALSE
Untouchable(g) == g.splits # 1
ReadAnswered ==
    /\ job.step = "read" /\ tokenValid /\ Exists(Target)
    /\ LET g == Group(Target)
       IN  Continue(IF Untouchable(g) THEN Fails
                ELSE IF g.reconciled
                     THEN Updating(job, AfterStage(job.stage, job.copy[Current], Current))
                     ELSE [job EXCEPT !.step = "write", !.base = g.tags])
    /\ edited' = edited \ {Current}
    /\ UNCHANGED <<bankState, firefly, shifted, edits, gone, trouble>>

\* A group that is not there is answered 401, like a token that expired; isGone
\* asks whether the token still works.
ReadRefused ==
    /\ job.step = "read" /\ (~tokenValid \/ ~Exists(Target))
    /\ Continue([job EXCEPT !.step = "about", !.renewed = FALSE])
    /\ Quiet

AlwaysWorks == TRUE
StillWorks == tokenValid
AboutAnswered ==
    /\ job.step = "about"
    /\ gone' = IF StillWorks THEN gone \cup {Target} ELSE gone
    /\ Continue(Fails)
    /\ UNCHANGED <<bankState, firefly, editState, trouble>>

\* The tags submitted replace those there are, and a split not submitted is
\* deleted (handleUpdateTransaction, applyUpdate).
Submitted(patch, base, g) ==
    [g EXCEPT !.splits = 1,
              !.ref = g.ref \/ "ref" \in patch,
              !.amount = IF "amount" \in patch THEN feed[g.of] ELSE g.amount,
              !.tags = IF "cleared" \in patch THEN base \ {"pending"} ELSE g.tags]
CurrentPatch == Patch(job.stage, job.copy[Current], Current)
Refused(i) ==
    ~(tokenValid /\ \E g \in Stored : g.id = i /\ ~(g.reconciled /\ "amount" \in CurrentPatch))
Put(i) == groups' = [n \in DOMAIN groups |->
                        IF groups[n].id = i THEN Submitted(CurrentPatch, job.base, groups[n])
                        ELSE groups[n]]

WriteAnswered ==
    /\ job.step = "write" /\ ~Refused(Target)
    /\ Put(Target)
    /\ Continue(Updating(job, AfterStage(job.stage, job.copy[Current], Current)))
    /\ UNCHANGED <<bankState, nextGroup, tokenValid, editState, gone, trouble>>

WriteRefused ==
    /\ job.step = "write" /\ Refused(Target)
    /\ Continue(Fails)
    /\ Quiet

\* Store.Create.  Only a booking with a reference asks Firefly to refuse a
\* row it has already.
Imported(p) == [id |-> nextGroup, of |-> p, ref |-> IsBooked(p) /\ p \in Referenced,
                amount |-> feed[p], tags |-> IF IsBooked(p) THEN {} ELSE {"pending"},
                splits |-> 1, reconciled |-> FALSE]
Duplicate(p) == /\ Imported(p).ref
                /\ \E g \in GroupsOf(p) : g.ref /\ g.amount = feed[p]
Post(p) == /\ groups' = Append(groups, Imported(p))
           /\ nextGroup' = nextGroup + 1

PostAnswered ==
    /\ job.step = "post" /\ tokenValid /\ ~Duplicate(Current)
    /\ Post(Current)
    /\ Continue([job EXCEPT !.step = "settle", !.copy[Current] = Imported(Current)])
    /\ UNCHANGED <<bankState, tokenValid, editState, gone, trouble>>

PostRefused ==
    /\ job.step = "post" /\ tokenValid /\ Duplicate(Current)
    /\ Continue(Fails)
    /\ Quiet

\* A read other than the group's, or a write of a new row, without a token.
Unauthenticated ==
    /\ job.step \in {"page", "search", "post"} /\ ~tokenValid
    /\ Continue(Fails)
    /\ Quiet

-----------------------------------------------------------------------------
(* The bookkeeping.                                                        *)

Record(S, out) ==
    /\ placed' = placed \cup {p \in S : IsBooked(p)}
    /\ entry' = [p \in Bookings |-> IF p \notin S THEN entry[p]
                                    ELSE IF IsBooked(p) THEN 0 ELSE out[p]]

\* The loop records a booking at once, a batch when it is through.
Settle ==
    /\ job.step = "settle"
    /\ IF Phase(job) = "direct"
       THEN /\ Record({Current}, job.out)
            /\ Continue(Turn([job EXCEPT !.direct = @ \ {Current}]))
       ELSE /\ UNCHANGED <<entry, placed>>
            /\ Continue(Turn([job EXCEPT !.out[Current] = Target, !.lookup = @ \ {Current},
                                     !.listing = @ \ {Current}, !.placing = @ \ {Current}]))
    /\ UNCHANGED <<feed, firefly, editState, gone, trouble>>

BatchSettled ==
    /\ job.step = "book"
    /\ Record({p \in Bookings : job.out[p] # 0}, job.out)
    /\ Continue(NoJob)
    /\ UNCHANGED <<feed, firefly, editState, gone, trouble>>

-----------------------------------------------------------------------------
(* What goes wrong.                                                        *)

Trouble == trouble < MaxTrouble /\ trouble' = trouble + 1

Asking == {"page", "search", "read", "about", "write", "post"}

\* do: GET and PUT are sent again after a failure, POST only after a 429.
AlwaysAgain == TRUE
SentAgain == job.step # "post"
OnceMore(again) ==
    job' = IF again /\ job.attempt <= MaxRateRetry THEN [job EXCEPT !.attempt = @ + 1]
           ELSE [Fails EXCEPT !.attempt = 0]
TriedAgain(again) ==
    job' = IF again /\ job.attempt < MaxRateRetry THEN [job EXCEPT !.attempt = @ + 1]
           ELSE [Fails EXCEPT !.attempt = 0]

RateLimited ==
    /\ job.step \in Asking /\ Trouble
    /\ TriedAgain(TRUE)
    /\ UNCHANGED <<bankState, firefly, editState, gone>>

\* A 5xx, or a connection lost before the request was processed.
Unprocessed ==
    /\ job.step \in Asking /\ Trouble
    /\ TriedAgain(SentAgain)
    /\ UNCHANGED <<bankState, firefly, editState, gone>>

\* Processed, and the answer lost.
AnswerLost ==
    /\ tokenValid /\ Trouble
    /\ \/ job.step = "write" /\ ~Refused(Target) /\ Put(Target) /\ UNCHANGED nextGroup
       \/ job.step = "post" /\ ~Duplicate(Current) /\ Post(Current)
    /\ TriedAgain(SentAgain)
    /\ UNCHANGED <<bankState, tokenValid, editState, gone>>

ImporterCrashes ==
    /\ job.step # "off" /\ Trouble
    /\ Continue(NoJob)
    /\ UNCHANGED <<bankState, firefly, editState, gone>>

TokenExpires ==
    /\ tokenValid /\ Trouble
    /\ tokenValid' = FALSE
    /\ UNCHANGED <<bankState, groups, nextGroup, job, editState, gone>>

TokenReplaced ==
    /\ ~tokenValid
    /\ tokenValid' = TRUE
    /\ job' = [job EXCEPT !.renewed = @ \/ job.step = "about"]
    /\ UNCHANGED <<bankState, groups, nextGroup, editState, gone, trouble>>

-----------------------------------------------------------------------------
FireflyInit ==
    /\ feed = [p \in Bookings |-> "none"]
    /\ groups = <<>> /\ nextGroup = 1 /\ tokenValid = TRUE
    /\ entry = [p \in Bookings |-> 0] /\ placed = {}
    /\ job = NoJob
    /\ edited = {} /\ shifted = FALSE /\ gone = {}
    /\ trouble = 0 /\ edits = 0

UserStep == \E n \in DOMAIN groups :
               UserSplits(n) \/ UserTags(n) \/ UserReconciles(n) \/ UserDeletes(n)
RunStep == \/ RunBegins \/ PageAnswered \/ SearchAnswered
           \/ ReadAnswered \/ ReadRefused \/ AboutAnswered
           \/ WriteAnswered \/ WriteRefused \/ PostAnswered \/ PostRefused
           \/ Unauthenticated \/ Settle \/ BatchSettled
TroubleStep == \/ RateLimited \/ Unprocessed \/ AnswerLost
               \/ ImporterCrashes \/ TokenExpires \/ TokenReplaced

FireflyNext ==
    \/ \E p \in Bookings, status \in {"authorised", "booked"} : BankReports(p, status)
    \/ UserStep \/ RunStep \/ TroubleStep

FireflySpec == FireflyInit /\ [][FireflyNext]_fireflyVars

\* The scheduler starts one run after another, and a request is answered in
\* the end: WithHTTPClient has a timeout.
FireflyFairness == WF_fireflyVars(RunStep)
FireflyFairSpec == FireflySpec /\ FireflyFairness

-----------------------------------------------------------------------------
(* What has to hold.                                                       *)

\* However requests and answers are lost and repeated and runs cut short, a
\* booking has one row, those the user has split apart: a POST is not sent
\* again, and a row whose answer was lost is found by the next run (do,
\* error_if_duplicate_hash).  A deletion that shifts a listing while it is
\* paged hides a row from the run.
OneRowEach ==
    shifted \/ \A p \in Bookings : Cardinality({g \in GroupsOf(p) : Single(g)}) <= 1

\* A step of ours deletes no split of the user's and none of their tags, and
\* changes nothing of a row they reconciled, unless they did it after we had
\* read the row (Update).
UserWorkKept ==
    [][edits' = edits =>
         \A g \in Stored : g.of \in edited \/
            \E h \in Stored' : /\ h.id = g.id /\ h.splits = g.splits
                               /\ "own" \in g.tags => "own" \in h.tags
                               /\ g.reconciled => h = g]_fireflyVars

\* A booking recorded as imported has a row that says so: the amount booked
\* and no pending marker, or it is the user's by now (the loop's failWrite,
\* and the batch that is recorded only when all of it is through).
PlacedAsReported ==
    [][\A p \in placed' \ placed :
          p \in edited \/ \E g \in GroupsOf(p) :
              g.reconciled \/ (g.amount = "booked" /\ "pending" \notin g.tags)]_fireflyVars

\* A transaction is reported as gone only when it is, however Firefly words
\* a token that expired (isGone); a token replaced between the two requests
\* is beyond telling.
GoneIsGone == [][\A i \in gone' \ gone : ~Exists(i) \/ job.renewed]_fireflyVars

\* What the bank booked is recorded in the end, whatever the user did to
\* other rows, while the token works.  One row keeps a batch out for ever: a
\* booking Firefly has, its answer lost, and split by the user since.
Refusing == \E g \in Stored : g.splits > 1 /\ g.ref /\ g.of \notin placed
Arrives ==
    (<>[]tokenValid) =>
        \A p \in Bookings : feed[p] = "booked" ~> (p \in placed \/ Refusing)
=============================================================================
