------------------------- MODULE MCBalances_proofs -------------------------
(***************************************************************************)
(* Theorems about OpeningBalance, for all bookings and amounts and any     *)
(* number of failures and crashes: a claim has one writer, a figure stays  *)
(* as it was written, and, if the bank names its last booking, the figure  *)
(* of a first sync is exact and no drift is reported from it wrongly.      *)
(* The last theorem adds the types of Connections, side by side with it    *)
(* as in MCBalances.                                                       *)
(***************************************************************************)
EXTENDS MCBalances, Connections_proofs, FiniteSums, FiniteSetTheorems, TLAPS

-----------------------------------------------------------------------------
(* Totals.                                                                 *)

\* What some of the bookings amount to is an integer.
LEMMA TotalTyped == \A S \in SUBSET Payments : Total(S) \in Int
<1> SUFFICES ASSUME NEW S \in SUBSET Payments PROVE Total(S) \in Int
  OBVIOUS
<1> DEFINE IsIter(g) == g = [s \in SUBSET S |->
                 IF s = {} THEN 0
                 ELSE Amount[CHOOSE x \in s : TRUE] + g[s \ {CHOOSE x \in s : TRUE}]]
<1>1. Total(S) = (CHOOSE g : IsIter(g))[S]
  BY DEF Total, MapThenSumSet, MapThenFoldSet
<1>2. PICK w : w = [p \in S |-> Amount[p]]
  OBVIOUS
<1>3. w \in [S -> Int] /\ IsFiniteSet(S) /\ DOMAIN w = S
  BY <1>2, ConstantsAssumption, FS_Subset
<1>4. ASSUME NEW g PROVE IsIter(g) <=> Sums(w, g)
  <2> DEFINE Over(s) == IF s = {} THEN 0
                 ELSE Amount[CHOOSE x \in s : TRUE] + g[s \ {CHOOSE x \in s : TRUE}]
             Taken(s) == IF s = {} THEN 0
                 ELSE w[CHOOSE x \in s : TRUE] + g[s \ {CHOOSE x \in s : TRUE}]
  <2>1. \A s \in SUBSET S : Over(s) = Taken(s)
    <3> SUFFICES ASSUME NEW s \in SUBSET S, s # {} PROVE Over(s) = Taken(s)
      OBVIOUS
    <3>1. PICK x : x = CHOOSE y \in s : TRUE
      OBVIOUS
    <3>2. x \in S
      BY <3>1
    <3> QED  BY <3>1, <3>2, <1>2
  <2>2. IsIter(g) <=> g = [s \in SUBSET S |-> Over(s)]
    OBVIOUS
  <2>3. Sums(w, g) <=> g = [s \in SUBSET S |-> Taken(s)]
    BY <1>3 DEF Sums
  <2> HIDE DEF Over, Taken, IsIter
  <2>4. [s \in SUBSET S |-> Over(s)] = [s \in SUBSET S |-> Taken(s)]
    BY <2>1
  <2> QED  BY <2>2, <2>3, <2>4
<1>5. PICK h : Sums(w, h)
  BY <1>3, SumsExist
<1> HIDE DEF IsIter
<1>6. IsIter(h)
  BY <1>4, <1>5
<1>7. PICK g : g = CHOOSE k : IsIter(k)
  OBVIOUS
<1>8. IsIter(g)
  BY <1>6, <1>7
<1>9. Sums(w, g)
  BY <1>4, <1>8
<1>10. g[S] \in Int
  BY <1>3, <1>9, SumsTyped
<1> QED  BY <1>1, <1>7, <1>10

-----------------------------------------------------------------------------
(* One writer.                                                             *)

\* Who holds the lock is at work, and nobody else is past asking for it.
LockInv ==
    /\ lock \in {"free", "run", "page"}
    /\ lock # "run" => run.pc = "off"
    /\ lock # "page" => page.pc \in {"off", "asked"}

\* What is read, and what is derived from it.
Readings == [cents : Int, last : Payments \cup {None, "unread"}]
Figures == Int \cup {None}

\* What the run and the page work with.
Records ==
    /\ run \in [pc : RunSteps, known : States, picked : Readings,
                feed : SUBSET Payments, complete : BOOLEAN]
    /\ page \in [pc : PageSteps, known : States, picked : Readings,
                 feed : SUBSET Payments, apply : BOOLEAN, expected : Figures]
    /\ posted \subseteq Payments /\ latest \in Payments \cup {None}
    /\ state \in States

WriterInv == Records /\ LockInv /\ OneWriter

\* What is read and what is derived from it are figures.
LEMMA ReadingTypes ==
  /\ Unread \in Readings
  /\ Records => Reading \in Readings
  /\ None \in Figures
  /\ \A r \in Readings, S \in SUBSET Payments : Figure(r, S) \in Figures
<1>1. Unread \in Readings /\ None \in Figures
  BY DEF Unread, Readings, Figures
<1>2. ASSUME Records PROVE Reading \in Readings
  <2>1. Total(posted) \in Int
    BY <1>2, TotalTyped DEF Records
  <2>2. Before \in Int
    BY ConstantsAssumption
  <2>3. BankBalance \in Int
    BY <2>1, <2>2 DEF BankBalance
  <2>4. (IF LastCommitted THEN latest ELSE None) \in Payments \cup {None, "unread"}
    BY <1>2 DEF Records
  <2> QED
    BY <2>3, <2>4 DEF Reading, Readings
<1>3. ASSUME NEW r \in Readings, NEW S \in SUBSET Payments PROVE Figure(r, S) \in Figures
  <2>1. Total(S \ unread) \in Int
    BY TotalTyped
  <2> QED
    BY <2>1 DEF Figure, Figures, Readings
<1> QED
  BY <1>1, <1>2, <1>3

\* The states the store knows, and what nobody at work looks like.
LEMMA StateFacts ==
  /\ "" \in States /\ "auto" \in States /\ "writing" \in States /\ "written" \in States
  /\ "denied" \in States /\ "unavailable" \in States
  /\ InitialStates \subseteq States /\ Claimable \subseteq States
<1>1. /\ "" \in States /\ "auto" \in States /\ "writing" \in States /\ "written" \in States
      /\ "denied" \in States /\ "unavailable" \in States
  BY Zenon DEF States
<1>2. InitialStates \subseteq {"", "auto"}
  BY ConstantsAssumption, Zenon
<1> QED
  BY <1>1, <1>2, Zenon DEF Claimable

\* Nobody at work.
LEMMA Rested ==
  /\ NoRun \in [pc : RunSteps, known : States, picked : Readings,
                 feed : SUBSET Payments, complete : BOOLEAN]
  /\ NoPage \in [pc : PageSteps, known : States, picked : Readings,
                  feed : SUBSET Payments, apply : BOOLEAN, expected : Figures]
  /\ NoRun.pc = "off" /\ NoPage.pc = "off" /\ NoRun.picked = Unread
<1> DEFINE empty == ""
<1>1. empty \in States
  BY StateFacts, Zenon
<1>2. /\ NoRun = [pc |-> "off", known |-> empty, picked |-> Unread, feed |-> {},
                  complete |-> TRUE]
      /\ NoPage = [pc |-> "off", known |-> empty, picked |-> Unread, feed |-> {},
                   apply |-> FALSE, expected |-> None]
  BY Zenon DEF NoRun, NoPage
<1> HIDE DEF empty
<1> QED
  BY <1>1, <1>2, ReadingTypes DEF RunSteps, PageSteps

\* Nobody holds the lock at first.
LEMMA WriterInit == Init => WriterInv
<1> SUFFICES ASSUME Init PROVE WriterInv
  OBVIOUS
<1>1. /\ posted = {} /\ latest = None /\ lock = "free" /\ run = NoRun /\ page = NoPage
      /\ state \in States
  BY StateFacts, Zenon DEF Init
<1> QED
  BY <1>1, Rested DEF WriterInv, Records, LockInv, OneWriter

\* An import leaves the run with what it has read; complete or not.
LEMMA ImportKeeps ==
  ASSUME Records, RunImport
  PROVE  \E done \in BOOLEAN : run' = [run EXCEPT !.pc = "after", !.complete = done]
<1> DEFINE new == run.feed \ (imported \cup held \cup unread)
<1>1. PICK w \in SUBSET new :
         IF w = new THEN UNCHANGED <<held, unread, faults>> /\ RunGoto("after")
         ELSE /\ Fault
              /\ \E h \in SUBSET (new \ w), d \in SUBSET (new \ w) :
                   /\ h \cap d = {}
                   /\ held' = held \cup h /\ unread' = unread \cup d
                   /\ run' = [run EXCEPT !.pc = "after",
                                         !.complete = (h \cup d = new \ w)]
  BY Zenon DEF RunImport
<1>2. CASE w = new
  BY <1>1, <1>2 DEF Records, RunGoto
<1>3. CASE w # new
  <2>1. PICK h \in SUBSET (new \ w), d \in SUBSET (new \ w) :
           /\ h \cap d = {}
           /\ held' = held \cup h /\ unread' = unread \cup d
           /\ run' = [run EXCEPT !.pc = "after", !.complete = (h \cup d = new \ w)]
    BY <1>1, <1>3, Zenon
  <2> DEFINE done == (h \cup d = new \ w)
  <2>2. run' = [run EXCEPT !.pc = "after", !.complete = done] /\ done \in BOOLEAN
    BY <2>1
  <2> HIDE DEF done, new
  <2> QED
    BY <2>2
<1> QED
  BY <1>2, <1>3

\* Every step keeps the types, the lock and the claim.
LEMMA WriterStep == WriterInv /\ [Next]_vars => WriterInv'
<1> SUFFICES ASSUME WriterInv, [Next]_vars PROVE WriterInv'
  OBVIOUS
<1>0. Reading \in Readings
  BY ReadingTypes DEF WriterInv
<1> USE ReadingTypes, Rested
    DEF WriterInv, Records, LockInv, OneWriter, RunSteps, PageSteps, vars, bankVars, import,
        opening, Fault, RunGoto, PageGoto, PageEnd
<1>1. ASSUME NEW p \in Payments, Post(p) PROVE WriterInv'
  BY <1>1 DEF Post
<1>2. ASSUME NEW p \in Payments, Decide(p) PROVE WriterInv'
  BY <1>2 DEF Decide
<1>3. CASE NewDay
  BY <1>3 DEF NewDay
<1>4. CASE Renew
  <2>1. /\ state' \in States /\ state = "denied"
        /\ UNCHANGED <<posted, latest, lock, run, page>>
    BY <1>4, StateFacts, Zenon DEF Renew
  <2> QED
    BY <2>1
<1>5. CASE Crash
  BY <1>5 DEF Crash
<1>6. CASE RunBegin
  BY <1>6, <1>0 DEF RunBegin
<1>7. CASE BalancesRefused
  BY <1>7, StateFacts DEF BalancesRefused
<1>8. CASE RunFetch
  BY <1>8 DEF RunFetch, Feed
<1>9. CASE RunImport
  BY <1>9, ImportKeeps DEF RunImport
<1>10. CASE RunAfter
  BY <1>10 DEF RunAfter
<1>11. CASE RunClaim
  BY <1>11, StateFacts DEF RunClaim
<1>12. CASE RunWrite
  BY <1>12 DEF RunWrite
<1>13. CASE RunWriteFails
  BY <1>13, StateFacts DEF RunWriteFails
<1>14. CASE RunRecord
  BY <1>14, StateFacts DEF RunRecord
<1>15. CASE RunRecordFails
  BY <1>15 DEF RunRecordFails
<1>16. CASE RunCheck
  BY <1>16 DEF RunCheck
<1>17. CASE RunEnd
  BY <1>17 DEF RunEnd
<1>18. ASSUME NEW apply \in BOOLEAN, PageAsk(apply) PROVE WriterInv'
  BY <1>18 DEF PageAsk
<1>19. CASE PageBalances
  BY <1>19, <1>0 DEF PageBalances
<1>20. CASE PageFeed
  <2>1. Feed \in SUBSET Payments /\ Figure(page.picked, Feed) \in Figures
    BY <1>20 DEF PageFeed, Feed
  <2>2. page.pc = "feed" /\ UNCHANGED <<posted, latest, run, state>>
    BY <1>20 DEF PageFeed
  <2>3. \/ /\ lock' = "free"
           /\ \E x \in Figures : page' = [NoPage EXCEPT !.expected = x]
        \/ UNCHANGED lock /\ page' = [page EXCEPT !.pc = "claim", !.feed = Feed]
    BY <1>20, <2>1 DEF PageFeed
  <2> QED
    BY <2>1, <2>2, <2>3
<1>21. CASE PageClaim
  BY ZenonT(30), <1>21, StateFacts DEF PageClaim
<1>22. CASE PageWrite
  BY <1>22 DEF PageWrite
<1>23. CASE PageWriteFails
  BY <1>23 DEF PageWriteFails
<1>24. CASE PageRecord
  BY <1>24, StateFacts DEF PageRecord
<1>25. CASE UNCHANGED vars
  BY <1>25
<1> QED
  BY <1>1, <1>2, <1>3, <1>4, <1>5, <1>6, <1>7, <1>8, <1>9, <1>10, <1>11, <1>12, <1>13,
     <1>14, <1>15, <1>16, <1>17, <1>18, <1>19, <1>20, <1>21, <1>22, <1>23, <1>24, <1>25
  DEF Next, RunStep, PageStep, WorldStep

\* Types, lock and claim hold from the start.
LEMMA WriterHolds == Spec => []WriterInv
  BY WriterInit, WriterStep, PTL DEF Spec

\* A sync and the page never write the figure at the same time, and who writes
\* it holds the claim: ClaimOpeningBalance, with every failure and crash.
THEOREM OneWriterCorrect == Spec => []OneWriter
<1>1. WriterInv => OneWriter
  BY DEF WriterInv
<1> QED
  BY <1>1, WriterHolds, PTL

-----------------------------------------------------------------------------
(* The first figure.                                                       *)

\* S is what had been posted when the run read the balance.
ReadAt(S) ==
    /\ run.picked.cents = Before + Total(S)
    /\ run.picked.last \in S \cup {None}
    /\ S # posted => latest \in posted \ S

\* Until the second reading, bookings may come in between the first and the
\* feed: the feed has all the balance covers, and perhaps more.
ReadBefore ==
    run.pc \in {"fetch", "import", "after"} =>
        \/ run.picked = Unread
        \/ \E S \in SUBSET posted :
              ReadAt(S) /\ (run.pc # "fetch" /\ past = {} => S \subseteq run.feed)

\* After two equal readings the feed is exactly what the balance covers.
FeedAccounted ==
    /\ run.pc \in {"import", "after"} => run.feed \subseteq posted
    /\ run.pc \in {"claim", "write"} /\ past = {} =>
         run.picked.cents = Before + Total(run.feed)
    /\ run.pc = "write" => run.feed \cap unread = {}

FigureInv == latest \in posted \cup {None} /\ ReadBefore /\ FeedAccounted /\ FirstFigureExact

\* A reading is of what is posted.
LEMMA ReadsPosted ==
  ASSUME LastCommitted, Records, latest \in posted \cup {None}
  PROVE  Reading.cents = Before + Total(posted) /\ Reading.last \in posted \cup {None}
  BY DEF Reading, BankBalance

\* Two equal readings: nothing was posted between them.
LEMMA SameReading ==
  ASSUME LastCommitted, Records, NEW S \in SUBSET posted, ReadAt(S), Reading = run.picked
  PROVE  S = posted
<1>1. latest = run.picked.last
  BY DEF Reading
<1> QED
  BY <1>1, ConstantsAssumption DEF ReadAt, Records

\* The figure the run derives then is what the account held before.
LEMMA FigureOfFeed ==
  ASSUME Records, run.picked.cents = Before + Total(run.feed), run.feed \cap unread = {}
  PROVE  Figure(run.picked, run.feed) = Before
<1>1. run.feed \ unread = run.feed /\ run.feed \in SUBSET Payments
  BY DEF Records
<1>2. Total(run.feed) \in Int
  BY <1>1, TotalTyped
<1>3. Before \in Int
  BY ConstantsAssumption
<1>4. Figure(run.picked, run.feed) = run.picked.cents - Total(run.feed)
  BY <1>1, Zenon DEF Figure
<1>5. \A b, t \in Int : b + t - t = b
  OBVIOUS
<1> QED
  BY <1>2, <1>3, <1>4, <1>5

\* Nothing has been read or written at first.
LEMMA FigureInit == Init => FigureInv
<1> SUFFICES ASSUME Init PROVE FigureInv
  OBVIOUS
<1>1. latest = None /\ run = NoRun /\ author # "first"
  BY Zenon DEF Init
<1> QED
  BY <1>1, Rested DEF FigureInv, ReadBefore, FeedAccounted, FirstFigureExact

\* With a bank that names its last booking, every step keeps the figure.
LEMMA FigureStep ==
  ASSUME LastCommitted, WriterInv, FigureInv, [Next]_vars
  PROVE  FigureInv'
<1> USE Rested
    DEF WriterInv, Records, LockInv, FigureInv, ReadBefore, FeedAccounted, FirstFigureExact,
        ReadAt, RunSteps, PageSteps, vars, bankVars, import, opening, RunGoto, PageGoto,
        PageEnd
<1>1. ASSUME NEW p \in Payments, Post(p) PROVE FigureInv'
  BY <1>1 DEF Post
<1>2. ASSUME NEW p \in Payments, Decide(p) PROVE FigureInv'
  BY <1>2 DEF Decide
<1>3. CASE NewDay
  BY <1>3 DEF NewDay
<1>4. CASE Renew
  BY <1>4 DEF Renew
<1>5. CASE Crash
  BY <1>5 DEF Crash
<1>6. CASE RunBegin
  BY <1>6, ReadsPosted DEF RunBegin
<1>7. CASE BalancesRefused
  BY <1>7 DEF BalancesRefused
<1>8. CASE RunFetch
  BY <1>8 DEF RunFetch, Feed
<1>9. CASE RunImport
  <2>1. /\ run.pc = "import" /\ run'.pc = "after"
        /\ run'.picked = run.picked /\ run'.feed = run.feed
    BY <1>9, ImportKeeps DEF RunImport
  <2>2. UNCHANGED <<posted, latest, past, author, figure>>
    BY <1>9 DEF RunImport
  <2> QED
    BY <2>1, <2>2
<1>10. CASE RunAfter
  <2>1. /\ run.pc = "after" /\ run'.pc \in {"end", "claim", "check"}
        /\ run'.picked = run.picked /\ run'.feed = run.feed
        /\ UNCHANGED <<posted, latest, past, author, figure>>
    BY <1>10 DEF RunAfter
  <2>2. ASSUME run'.pc = "claim", past = {}
        PROVE  run.picked.cents = Before + Total(run.feed)
    <3>1. run.picked # Unread /\ Reading = run.picked
      BY <1>10, <2>2 DEF RunAfter
    <3>2. PICK S \in SUBSET posted : ReadAt(S) /\ S \subseteq run.feed
      BY <2>1, <2>2, <3>1
    <3>3. S = posted
      BY <3>1, <3>2, SameReading
    <3>4. run.feed = S
      BY <2>1, <3>2, <3>3
    <3> QED
      BY <3>2, <3>4
  <2> QED
    BY <2>1, <2>2
<1>11. CASE RunClaim
  BY <1>11 DEF RunClaim, Deferred
<1>12. CASE RunWrite
  BY <1>12, FigureOfFeed DEF RunWrite, WriteOnce
<1>13. CASE RunWriteFails
  BY <1>13 DEF RunWriteFails
<1>14. CASE RunRecord
  BY <1>14 DEF RunRecord
<1>15. CASE RunRecordFails
  BY <1>15 DEF RunRecordFails
<1>16. CASE RunCheck
  BY <1>16 DEF RunCheck
<1>17. CASE RunEnd
  BY <1>17 DEF RunEnd
<1>18. ASSUME NEW apply \in BOOLEAN, PageAsk(apply) PROVE FigureInv'
  BY <1>18 DEF PageAsk
<1>19. CASE PageBalances
  BY <1>19 DEF PageBalances
<1>20. CASE PageFeed
  BY <1>20 DEF PageFeed
<1>21. CASE PageClaim
  BY <1>21 DEF PageClaim
<1>22. CASE PageWrite
  BY <1>22 DEF PageWrite, WriteOnce
<1>23. CASE PageWriteFails
  BY <1>23 DEF PageWriteFails
<1>24. CASE PageRecord
  BY <1>24 DEF PageRecord
<1>25. CASE UNCHANGED vars
  BY <1>25
<1> QED
  BY <1>1, <1>2, <1>3, <1>4, <1>5, <1>6, <1>7, <1>8, <1>9, <1>10, <1>11, <1>12, <1>13,
     <1>14, <1>15, <1>16, <1>17, <1>18, <1>19, <1>20, <1>21, <1>22, <1>23, <1>24, <1>25
  DEF Next, RunStep, PageStep, WorldStep

\* A figure derived by a sync whose window has not moved is what the account
\* held before, if the bank names its last booking: two equal readings enclose
\* the feed, and a figure is deferred while anything in it is unread.
THEOREM FirstFigureExactCorrect == LastCommitted => (Spec => []FirstFigureExact)
<1> SUFFICES ASSUME LastCommitted PROVE Spec => []FirstFigureExact
  OBVIOUS
<1>1. WriterInv /\ FigureInv /\ [Next]_vars => (WriterInv /\ FigureInv)'
  BY WriterStep, FigureStep
<1>2. FigureInv => FirstFigureExact
  BY DEF FigureInv
<1> QED
  BY WriterInit, FigureInit, <1>1, <1>2, PTL DEF Spec

-----------------------------------------------------------------------------
(* The figure after it is written.                                         *)

\* Once there is a figure in the budget no step changes it: claims, retries
\* after failures and crashes, page and sync together (WriteOnce is what both
\* backends do).
THEOREM WrittenOnceCorrect == Spec => WrittenOnce
<1>1. ASSUME [Next]_vars, figure # None PROVE figure' = figure
  BY <1>1
  DEF Next, RunStep, PageStep, WorldStep, vars, opening, WriteOnce, Post, Decide, NewDay,
      Renew, Crash, RunBegin, BalancesRefused, RunFetch, RunImport, RunAfter, RunClaim,
      RunWrite, RunWriteFails, RunRecord, RunRecordFails, RunCheck, RunEnd, PageAsk,
      PageBalances, PageFeed, PageClaim, PageWrite, PageWriteFails, PageRecord
<1> QED
  BY <1>1, PTL DEF Spec, WrittenOnce

-----------------------------------------------------------------------------
(* The drift check.                                                        *)

Placed == imported \cup held \cup unread
Fetched == {"import", "after", "claim", "write", "record", "check", "end"}
Compared == {"claim", "write", "record", "check"}

\* What became of bookings, and what was delivered of them, has been posted; a
\* booking nobody could read is not in the budget and will not come again.
PostedInv ==
    /\ Placed \subseteq posted /\ unread \cap (imported \cup held) = {}
    /\ earlier \subseteq posted /\ past \subseteq Placed
    /\ run.feed \subseteq posted /\ page.feed \subseteq posted
    /\ run.pc \in Fetched => earlier \subseteq run.feed \cup past
    /\ run.pc \in Fetched \ {"import"} /\ run.complete => run.feed \subseteq Placed

\* The balance in hand covers what this feed or an earlier one delivered, and
\* all that is imported.
BalanceInv ==
    /\ latest \in posted \cup {None}
    /\ run.pc \in {"fetch", "import", "after"} =>
         \/ run.picked = Unread
         \/ \E S \in SUBSET posted :
               ReadAt(S) /\ (run.pc # "fetch" => S \subseteq run.feed \cup past)
    /\ run.pc \in Compared =>
         \E S \in SUBSET posted :
            /\ run.picked.cents = Before + Total(S)
            /\ S \subseteq run.feed \cup past /\ imported \subseteq S

\* An alarm stands only over a figure, and, if that is exact, over a booking
\* nobody could read.
AlarmInv ==
    /\ page.known # "written"
    /\ state = "written" \/ run.pc = "record" \/ page.pc = "record" \/ drift = "drift"
         => figure # None
    /\ drift = "drift" /\ author = "first" => unread # {}

\* Who is not at work has no feed and does not take the state for written.
LEMMA NothingInHand ==
  NoRun.feed = {} /\ NoPage.feed = {} /\ NoPage.known # "written"
  BY Zenon DEF NoRun, NoPage

\* Nothing is posted, and nothing written, at first.
LEMMA DriftInit == Init => PostedInv /\ BalanceInv /\ AlarmInv
<1> SUFFICES ASSUME Init PROVE PostedInv /\ BalanceInv /\ AlarmInv
  OBVIOUS
<1>1. /\ posted = {} /\ earlier = {} /\ past = {} /\ imported = {} /\ held = {}
      /\ unread = {} /\ run = NoRun /\ page = NoPage /\ latest = None
  BY Zenon DEF Init
<1>2. state # "written" /\ drift # "drift"
  BY ConstantsAssumption, Zenon DEF Init
<1> QED
  BY <1>1, <1>2, Rested, NothingInHand
  DEF PostedInv, BalanceInv, AlarmInv, Placed, Fetched, Compared

\* An import places only what the feed delivered, each booking in one place; and
\* all of it, if the run is complete.
LEMMA ImportPlaces ==
  ASSUME Records, RunImport, unread \cap (imported \cup held) = {}
  PROVE  /\ imported \cup held \cup unread \subseteq Placed'
         /\ Placed' \subseteq Placed \cup run.feed
         /\ unread' \cap (imported' \cup held') = {}
         /\ run'.complete => run.feed \subseteq Placed'
         /\ unread \subseteq unread'
<1> DEFINE new == run.feed \ (imported \cup held \cup unread)
<1>1. PICK w \in SUBSET new :
         /\ imported' = imported \cup w
         /\ IF w = new THEN UNCHANGED <<held, unread, faults>> /\ RunGoto("after")
            ELSE /\ Fault
                 /\ \E h \in SUBSET (new \ w), d \in SUBSET (new \ w) :
                      /\ h \cap d = {}
                      /\ held' = held \cup h /\ unread' = unread \cup d
                      /\ run' = [run EXCEPT !.pc = "after",
                                            !.complete = (h \cup d = new \ w)]
  BY Zenon DEF RunImport
<1>2. CASE w = new
  BY <1>1, <1>2 DEF Placed
<1>3. CASE w # new
  <2>1. PICK h \in SUBSET (new \ w), d \in SUBSET (new \ w) :
           /\ h \cap d = {}
           /\ held' = held \cup h /\ unread' = unread \cup d
           /\ run' = [run EXCEPT !.pc = "after", !.complete = (h \cup d = new \ w)]
    BY <1>1, <1>3, Zenon
  <2>2. run'.complete => h \cup d = new \ w
    BY <2>1 DEF Records
  <2> QED
    BY <1>1, <2>1, <2>2 DEF Placed
<1> QED
  BY <1>2, <1>3

\* Every step places, holds and delivers only what has been posted.
LEMMA PostedStep ==
  ASSUME WriterInv, PostedInv, [Next]_vars
  PROVE  PostedInv'
<1> USE NothingInHand, Rested
    DEF WriterInv, Records, LockInv, PostedInv, Placed, Fetched, vars, bankVars, import,
        opening, RunGoto, PageGoto, PageEnd
<1>1. ASSUME NEW p \in Payments, Post(p) PROVE PostedInv'
  BY <1>1 DEF Post
<1>2. ASSUME NEW p \in Payments, Decide(p) PROVE PostedInv'
  BY <1>2 DEF Decide
<1>3. CASE NewDay
  BY <1>3 DEF NewDay
<1>4. CASE Renew
  BY <1>4 DEF Renew
<1>5. CASE Crash
  BY <1>5 DEF Crash
<1>6. CASE RunBegin
  BY <1>6 DEF RunBegin
<1>7. CASE BalancesRefused
  BY <1>7 DEF BalancesRefused
<1>8. CASE RunFetch
  BY <1>8 DEF RunFetch, Feed
<1>9. CASE RunImport
  <2>1. /\ run'.pc = "after" /\ run'.feed = run.feed /\ run.pc = "import"
        /\ UNCHANGED <<posted, earlier, past, page>>
    BY <1>9, ImportKeeps DEF RunImport
  <2> HIDE DEF Placed
  <2>2. /\ Placed' \subseteq Placed \cup run.feed /\ Placed \subseteq Placed'
        /\ unread' \cap (imported' \cup held') = {}
        /\ run'.complete => run.feed \subseteq Placed'
    BY <1>9, ImportPlaces DEF Placed
  <2> QED
    BY <2>1, <2>2
<1>10. CASE RunAfter
  BY <1>10 DEF RunAfter
<1>11. CASE RunClaim
  BY <1>11 DEF RunClaim
<1>12. CASE RunWrite
  BY <1>12 DEF RunWrite
<1>13. CASE RunWriteFails
  BY <1>13 DEF RunWriteFails
<1>14. CASE RunRecord
  BY <1>14 DEF RunRecord
<1>15. CASE RunRecordFails
  BY <1>15 DEF RunRecordFails
<1>16. CASE RunCheck
  BY <1>16 DEF RunCheck
<1>17. CASE RunEnd
  BY <1>17 DEF RunEnd
<1>18. ASSUME NEW apply \in BOOLEAN, PageAsk(apply) PROVE PostedInv'
  BY <1>18 DEF PageAsk
<1>19. CASE PageBalances
  BY <1>19 DEF PageBalances
<1>20. CASE PageFeed
  <2>1. Feed \subseteq posted /\ Figure(page.picked, Feed) \in Figures
    BY ReadingTypes DEF Feed
  <2>2. \/ page' = [page EXCEPT !.pc = "claim", !.feed = Feed]
        \/ \E x \in Figures : page' = [NoPage EXCEPT !.expected = x]
    BY <1>20, <2>1 DEF PageFeed
  <2>3. page'.feed \subseteq posted
    BY <2>1, <2>2
  <2> QED
    BY <1>20, <2>3 DEF PageFeed
<1>21. CASE PageClaim
  BY <1>21 DEF PageClaim
<1>22. CASE PageWrite
  BY <1>22 DEF PageWrite
<1>23. CASE PageWriteFails
  BY <1>23 DEF PageWriteFails
<1>24. CASE PageRecord
  BY <1>24 DEF PageRecord
<1>25. CASE UNCHANGED vars
  BY <1>25
<1> QED
  BY <1>1, <1>2, <1>3, <1>4, <1>5, <1>6, <1>7, <1>8, <1>9, <1>10, <1>11, <1>12, <1>13,
     <1>14, <1>15, <1>16, <1>17, <1>18, <1>19, <1>20, <1>21, <1>22, <1>23, <1>24, <1>25
  DEF Next, RunStep, PageStep, WorldStep

\* With a bank that names its last booking, the balance in hand after two equal
\* readings covers only what has been delivered.
LEMMA BalanceStep ==
  ASSUME LastCommitted, WriterInv, PostedInv, BalanceInv, [Next]_vars
  PROVE  BalanceInv'
<1> USE Rested
    DEF WriterInv, Records, LockInv, PostedInv, BalanceInv, ReadAt, Compared, RunSteps,
        PageSteps, vars, bankVars, import, opening, RunGoto, PageGoto, PageEnd
<1>1. ASSUME NEW p \in Payments, Post(p) PROVE BalanceInv'
  BY <1>1 DEF Post
<1>2. ASSUME NEW p \in Payments, Decide(p) PROVE BalanceInv'
  BY <1>2 DEF Decide
<1>3. CASE NewDay
  BY <1>3 DEF NewDay
<1>4. CASE Renew
  BY ZenonT(30), <1>4 DEF Renew
<1>5. CASE Crash
  BY <1>5 DEF Crash
<1>6. CASE RunBegin
  BY <1>6, ReadsPosted DEF RunBegin
<1>7. CASE BalancesRefused
  BY <1>7 DEF BalancesRefused
<1>8. CASE RunFetch
  BY <1>8 DEF RunFetch, Feed
<1>9. CASE RunImport
  <2>1. /\ run.pc = "import" /\ run'.pc = "after"
        /\ run'.picked = run.picked /\ run'.feed = run.feed
    BY <1>9, ImportKeeps DEF RunImport
  <2>2. UNCHANGED <<posted, latest, past>>
    BY <1>9 DEF RunImport
  <2> QED
    BY <2>1, <2>2
<1>10. CASE RunAfter
  <2>1. /\ run.pc = "after" /\ run'.pc \in {"end", "claim", "check"}
        /\ run'.picked = run.picked /\ run'.feed = run.feed
        /\ UNCHANGED <<posted, latest, past, imported>>
    BY <1>10 DEF RunAfter
  <2>2. ASSUME run'.pc # "end"
        PROVE  /\ run.picked.cents = Before + Total(posted)
               /\ posted \subseteq run.feed \cup past
    <3>1. run.picked # Unread /\ Reading = run.picked
      BY <1>10, <2>2 DEF RunAfter
    <3>2. PICK S \in SUBSET posted : ReadAt(S) /\ S \subseteq run.feed \cup past
      BY <2>1, <3>1
    <3>3. S = posted
      BY <3>1, <3>2, SameReading
    <3> QED
      BY <3>2, <3>3
  <2> QED
    BY <2>1, <2>2 DEF Placed
<1>11. CASE RunClaim
  BY <1>11 DEF RunClaim
<1>12. CASE RunWrite
  BY <1>12 DEF RunWrite
<1>13. CASE RunWriteFails
  BY <1>13 DEF RunWriteFails
<1>14. CASE RunRecord
  BY <1>14 DEF RunRecord
<1>15. CASE RunRecordFails
  BY <1>15 DEF RunRecordFails
<1>16. CASE RunCheck
  BY <1>16 DEF RunCheck
<1>17. CASE RunEnd
  BY <1>17 DEF RunEnd
<1>18. ASSUME NEW apply \in BOOLEAN, PageAsk(apply) PROVE BalanceInv'
  BY <1>18 DEF PageAsk
<1>19. CASE PageBalances
  BY <1>19 DEF PageBalances
<1>20. CASE PageFeed
  BY <1>20 DEF PageFeed
<1>21. CASE PageClaim
  BY <1>21 DEF PageClaim
<1>22. CASE PageWrite
  BY <1>22 DEF PageWrite
<1>23. CASE PageWriteFails
  BY <1>23 DEF PageWriteFails
<1>24. CASE PageRecord
  BY <1>24 DEF PageRecord
<1>25. CASE UNCHANGED vars
  BY <1>25
<1> QED
  BY <1>1, <1>2, <1>3, <1>4, <1>5, <1>6, <1>7, <1>8, <1>9, <1>10, <1>11, <1>12, <1>13,
     <1>14, <1>15, <1>16, <1>17, <1>18, <1>19, <1>20, <1>21, <1>22, <1>23, <1>24, <1>25
  DEF Next, RunStep, PageStep, WorldStep

\* A check that finds drift with an exact figure has met a booking nobody could
\* read: all else the balance covers is in the budget.
LEMMA DriftMeansUnread ==
  ASSUME WriterInv, PostedInv, BalanceInv, FirstFigureExact, AlarmInv, RunCheck,
         drift' = "drift", author = "first"
  PROVE  unread # {}
<1>1. /\ run.pc = "check" /\ state = "written" /\ ~Deferred
      /\ BudgetTotal # run.picked.cents
  BY DEF RunCheck
<1>2. figure = Before /\ figure # None
  BY <1>1 DEF FirstFigureExact, AlarmInv
<1>3. PICK S \in SUBSET posted : /\ run.picked.cents = Before + Total(S)
                                 /\ S \subseteq run.feed \cup past /\ imported \subseteq S
  BY <1>1 DEF BalanceInv, Compared
<1>4. Before \in Int /\ Total(imported) \in Int
  BY <1>3, ConstantsAssumption, TotalTyped DEF WriterInv, Records
<1>5. BudgetTotal = Before + Total(imported)
  BY <1>2, <1>4 DEF BudgetTotal
<1>6. PICK p \in S : p \notin imported
  BY <1>1, <1>3, <1>5
<1>7. p \in Placed /\ held = {}
  BY <1>1, <1>3, <1>6 DEF PostedInv, Fetched, Deferred
<1> QED
  BY <1>6, <1>7 DEF Placed

\* Every step keeps the alarm over a booking nobody could read.
LEMMA AlarmStep ==
  ASSUME WriterInv, PostedInv, BalanceInv, FirstFigureExact, AlarmInv, [Next]_vars
  PROVE  AlarmInv'
<1> USE NothingInHand, Rested
    DEF WriterInv, Records, LockInv, AlarmInv, vars, bankVars, import, opening, RunGoto,
        PageGoto, PageEnd
<1>1. ASSUME NEW p \in Payments, Post(p) PROVE AlarmInv'
  BY <1>1 DEF Post
<1>2. ASSUME NEW p \in Payments, Decide(p) PROVE AlarmInv'
  BY <1>2 DEF Decide
<1>3. CASE NewDay
  BY <1>3 DEF NewDay
<1>4. CASE Renew
  BY <1>4 DEF Renew
<1>5. CASE Crash
  BY <1>5 DEF Crash
<1>6. CASE RunBegin
  BY <1>6 DEF RunBegin
<1>7. CASE BalancesRefused
  BY <1>7 DEF BalancesRefused
<1>8. CASE RunFetch
  BY <1>8 DEF RunFetch
<1>9. CASE RunImport
  <2>1. unread \subseteq unread'
    BY <1>9, ImportPlaces DEF PostedInv
  <2>2. run'.pc = "after" /\ UNCHANGED <<page, state, figure, drift, author>>
    BY <1>9, ImportKeeps DEF RunImport
  <2> QED
    BY <2>1, <2>2
<1>10. CASE RunAfter
  BY <1>10 DEF RunAfter
<1>11. CASE RunClaim
  BY <1>11 DEF RunClaim
<1>12. CASE RunWrite
  <2>1. Total(run.feed \ unread) \in Int /\ run.picked.cents \in Int
    BY TotalTyped DEF Readings
  <2>2. Figure(run.picked, run.feed) \in Int
    BY <2>1 DEF Figure
  <2>3. figure' # None /\ (author' = author \/ figure = None)
    BY <1>12, <2>2, NoneAssumption DEF RunWrite, WriteOnce
  <2> QED
    BY <1>12, <2>3 DEF RunWrite
<1>13. CASE RunWriteFails
  BY <1>13 DEF RunWriteFails
<1>14. CASE RunRecord
  BY <1>14 DEF RunRecord
<1>15. CASE RunRecordFails
  BY <1>15 DEF RunRecordFails
<1>16. CASE RunCheck
  <2>1. drift' = "drift" => state = "written"
    BY <1>16 DEF RunCheck
  <2>2. run'.pc = "end" /\ UNCHANGED <<page, state, figure, unread, author>>
    BY <1>16 DEF RunCheck
  <2> QED
    BY <1>16, <2>1, <2>2, DriftMeansUnread
<1>17. CASE RunEnd
  BY <1>17 DEF RunEnd
<1>18. ASSUME NEW apply \in BOOLEAN, PageAsk(apply) PROVE AlarmInv'
  BY <1>18 DEF PageAsk
<1>19. CASE PageBalances
  BY <1>19 DEF PageBalances
<1>20. CASE PageFeed
  BY <1>20 DEF PageFeed
<1>21. CASE PageClaim
  BY <1>21 DEF PageClaim
<1>22. CASE PageWrite
  <2>1. Total(page.feed \ unread) \in Int /\ page.picked.cents \in Int
    BY TotalTyped DEF Readings
  <2>2. Figure(page.picked, page.feed) \in Int
    BY <2>1 DEF Figure
  <2>3. figure' # None /\ (author' = author \/ figure = None)
    BY <1>22, <2>2, NoneAssumption DEF PageWrite, WriteOnce
  <2> QED
    BY <1>22, <2>3 DEF PageWrite
<1>23. CASE PageWriteFails
  BY <1>23 DEF PageWriteFails
<1>24. CASE PageRecord
  BY <1>24 DEF PageRecord
<1>25. CASE UNCHANGED vars
  BY <1>25
<1> QED
  BY <1>1, <1>2, <1>3, <1>4, <1>5, <1>6, <1>7, <1>8, <1>9, <1>10, <1>11, <1>12, <1>13,
     <1>14, <1>15, <1>16, <1>17, <1>18, <1>19, <1>20, <1>21, <1>22, <1>23, <1>24, <1>25
  DEF Next, RunStep, PageStep, WorldStep

\* With a bank that names its last booking, all of it holds together.
LEMMA DriftHolds ==
  LastCommitted =>
    (Spec => [](WriterInv /\ PostedInv /\ BalanceInv /\ FirstFigureExact /\ AlarmInv))
<1> SUFFICES ASSUME LastCommitted
             PROVE  Spec => [](WriterInv /\ PostedInv /\ BalanceInv /\ FirstFigureExact
                               /\ AlarmInv)
  OBVIOUS
<1>1. /\ WriterInv /\ PostedInv /\ [Next]_vars => PostedInv'
      /\ WriterInv /\ PostedInv /\ BalanceInv /\ [Next]_vars => BalanceInv'
      /\ WriterInv /\ PostedInv /\ BalanceInv /\ FirstFigureExact /\ AlarmInv
            /\ [Next]_vars => AlarmInv'
  BY PostedStep, BalanceStep, AlarmStep
<1>2. Spec => []WriterInv /\ []FirstFigureExact
  BY WriterHolds, FirstFigureExactCorrect
<1> QED
  BY <1>1, <1>2, DriftInit, PTL DEF Spec

\* With an exact figure, drift is reported only when the budget lacks a booking
\* the bank has posted (checkDrift), if the bank names its last booking.
THEOREM NoFalseDriftCorrect == LastCommitted => (Spec => NoFalseDrift)
<1> SUFFICES ASSUME LastCommitted PROVE Spec => NoFalseDrift
  OBVIOUS
<1>1. ASSUME WriterInv, PostedInv, BalanceInv, FirstFigureExact, AlarmInv, AlarmInv',
             [Next]_vars, drift' = "drift", run.pc = "check", author = "first"
      PROVE  posted \ imported # {}
  <2>1. CASE RunCheck
    BY <1>1, <2>1, DriftMeansUnread DEF PostedInv, Placed
  <2>2. CASE drift' = drift
    BY <1>1, <2>2 DEF PostedInv, Placed, AlarmInv
  <2>3. RunCheck \/ drift' = drift \/ RunAfter
    BY <1>1
    DEF Next, RunStep, PageStep, WorldStep, vars, Post, Decide, NewDay, Renew, Crash,
        RunBegin, BalancesRefused, RunFetch, RunImport, RunClaim, RunWrite, RunWriteFails,
        RunRecord, RunRecordFails, RunEnd, PageAsk, PageBalances, PageFeed, PageClaim,
        PageWrite, PageWriteFails, PageRecord
  <2> QED
    BY <1>1, <2>1, <2>2, <2>3 DEF RunAfter
<1> QED
  BY <1>1, DriftHolds, PTL DEF NoFalseDrift, Spec

-----------------------------------------------------------------------------
(* Types.                                                                  *)

Authors == {"", "first", "later", "page"}

\* The figure and what the store recorded of it, its author, and the drift.
FigureTypes ==
    /\ figure \in Figures /\ recorded \in Figures /\ faults \in Nat
    /\ author \in Authors /\ drift \in DriftStates

\* What is written is a figure.
LEMMA WrittenFigures ==
  ASSUME Records
  PROVE  /\ Figure(run.picked, run.feed) \in Figures
         /\ Figure(page.picked, page.feed) \in Figures
  BY ReadingTypes DEF Records

\* The names of authors and of drift states.
LEMMA Names ==
  /\ "" \in Authors /\ "first" \in Authors /\ "later" \in Authors /\ "page" \in Authors
  /\ "" \in DriftStates /\ "no_balance" \in DriftStates /\ "unstable" \in DriftStates
  /\ "no_opening_balance" \in DriftStates /\ "incomplete" \in DriftStates
  /\ "ok" \in DriftStates /\ "drift" \in DriftStates
  BY Zenon DEF Authors, DriftStates

\* No figure, no author and no drift at first; each step keeps their types.
LEMMA FigureTypesHold == Spec => []FigureTypes
<1>1. Init => FigureTypes
  <2> SUFFICES ASSUME Init PROVE FigureTypes
    OBVIOUS
  <2>1. author \in Authors /\ drift \in DriftStates
    BY Names, Zenon DEF Init
  <2>2. figure = None /\ recorded = None /\ faults = 0
    BY Zenon DEF Init
  <2> QED
    BY <2>1, <2>2, ReadingTypes DEF FigureTypes
<1>2. ASSUME WriterInv, FigureTypes, [Next]_vars PROVE FigureTypes'
  <2>1. faults' \in Nat
    <3>1. faults' = faults \/ Fault
      BY <1>2
      DEF Next, RunStep, PageStep, WorldStep, vars, opening, Post, Decide, NewDay,
      Renew, Crash, RunBegin, BalancesRefused, RunFetch, RunImport, RunAfter, RunClaim,
      RunWrite, RunWriteFails, RunRecord, RunRecordFails, RunCheck, RunEnd, PageAsk,
      PageBalances, PageFeed, PageClaim, PageWrite, PageWriteFails, PageRecord
    <3> QED
      BY <1>2, <3>1 DEF FigureTypes, Fault
  <2>2. /\ figure' \in {figure, Figure(run.picked, run.feed), Figure(page.picked, page.feed)}
        /\ recorded' \in {recorded, Figure(run.picked, run.feed),
                          Figure(page.picked, page.feed)}
    BY <1>2
    DEF WriteOnce, Next, RunStep, PageStep, WorldStep, vars, opening, Post, Decide, NewDay,
      Renew, Crash, RunBegin, BalancesRefused, RunFetch, RunImport, RunAfter, RunClaim,
      RunWrite, RunWriteFails, RunRecord, RunRecordFails, RunCheck, RunEnd, PageAsk,
      PageBalances, PageFeed, PageClaim, PageWrite, PageWriteFails, PageRecord
  <2>3. author' = author \/ author' \in {"first", "later", "page"}
    BY <1>2
    DEF WriteOnce, Next, RunStep, PageStep, WorldStep, vars, opening, Post, Decide, NewDay,
      Renew, Crash, RunBegin, BalancesRefused, RunFetch, RunImport, RunAfter, RunClaim,
      RunWrite, RunWriteFails, RunRecord, RunRecordFails, RunCheck, RunEnd, PageAsk,
      PageBalances, PageFeed, PageClaim, PageWrite, PageWriteFails, PageRecord
  <2>4. drift' = drift \/ drift' \in {"no_balance", "unstable", "no_opening_balance",
                                      "incomplete", "ok", "drift"}
    BY <1>2
    DEF Next, RunStep, PageStep, WorldStep, vars, opening, Post, Decide, NewDay,
      Renew, Crash, RunBegin, BalancesRefused, RunFetch, RunImport, RunAfter, RunClaim,
      RunWrite, RunWriteFails, RunRecord, RunRecordFails, RunCheck, RunEnd, PageAsk,
      PageBalances, PageFeed, PageClaim, PageWrite, PageWriteFails, PageRecord
  <2>5. figure' \in Figures /\ recorded' \in Figures
    BY <1>2, <2>2, WrittenFigures, Zenon DEF WriterInv, FigureTypes
  <2>6. author' \in Authors /\ drift' \in DriftStates
    BY <1>2, <2>3, <2>4, Names, Zenon DEF FigureTypes
  <2> QED
    BY <2>1, <2>5, <2>6, Zenon DEF FigureTypes
<1> QED
  BY <1>1, <1>2, WriterHolds, PTL DEF Spec

\* The steps keep what has been posted with the lock and the types.
LEMMA PostedHolds == Spec => []PostedInv
<1>1. Init => PostedInv
  BY DriftInit
<1>2. WriterInv /\ PostedInv /\ [Next]_vars => PostedInv'
  BY PostedStep
<1> QED
  BY <1>1, <1>2, WriterHolds, PTL DEF Spec

\* Every reachable state of the claim, the run, the page and the budget is well
\* typed, and nothing is imported, held, unread or delivered that the bank has
\* not posted.
THEOREM BalanceTypeCorrect == Spec => []TypeOK
<1>1. ASSUME WriterInv, PostedInv, FigureTypes, latest \in Payments \cup {None} PROVE TypeOK
  <2>1. /\ posted \subseteq Payments /\ state \in States
        /\ run.pc \in RunSteps /\ run.known \in States
        /\ page.pc \in PageSteps /\ page.known \in States
        /\ lock \in {"free", "run", "page"}
    BY <1>1 DEF WriterInv, Records, LockInv
  <2>2. /\ earlier \subseteq posted /\ past \subseteq posted
        /\ imported \subseteq posted /\ held \subseteq posted /\ unread \subseteq posted
        /\ run.feed \subseteq posted /\ page.feed \subseteq posted
    BY <1>1 DEF PostedInv, Placed
  <2>3. /\ figure = None \/ figure \in Int
        /\ recorded = None \/ recorded \in Int
        /\ faults \in Nat
    BY <1>1 DEF FigureTypes, Figures
  <2>4. author \in {"", "first", "later", "page"} /\ drift \in DriftStates
    BY <1>1, Zenon DEF FigureTypes, Authors
  <2> QED
    BY <1>1, <2>1, <2>2, <2>3, <2>4, Zenon DEF TypeOK
<1>2. WriterInv => latest \in Payments \cup {None}
  BY DEF WriterInv, Records
<1> QED
  BY <1>1, <1>2, WriterHolds, PostedHolds, FigureTypesHold, PTL

\* Side by side both models keep their types.
THEOREM TypesCorrect == MCSpec => []TypesOK
<1>1. MCInit => Init /\ ConnInit
  BY DEF MCInit
<1>2. [MCNext]_mcVars => [Next]_vars /\ [ConnNext]_connVars
  BY DEF MCNext, OpeningPart, ConnectionsPart, mcVars
<1>3. MCSpec => Spec /\ ConnSpec
  BY <1>1, <1>2, PTL DEF MCSpec, Spec, ConnSpec
<1>4. TypesOK <=> TypeOK /\ ConnTypeOK
  BY DEF TypesOK
<1> QED  BY <1>3, <1>4, BalanceTypeCorrect, ConnTypeCorrect, PTL
=============================================================================
