---------------------------- MODULE ActualCommit ----------------------------
(***************************************************************************)
(* The Actual backend as a replica of the budget: Client.Commit, sync and  *)
(* Resync of src/actual/client.go, the change buffer of src/actual/db.go,  *)
(* and Syncer.ensureActual of src/main.go, which pings and reconnects.     *)
(*                                                                         *)
(* The server keeps timestamped messages, one per cell of the budget; the  *)
(* latest of a cell is its value.  bankingsync keeps a local database that *)
(* outlives the process, and in memory the messages not yet committed and  *)
(* the clock it asks the server for news from.  Another client (the user)  *)
(* writes to the same cells at any time.                                   *)
(*                                                                         *)
(* A cell stands for one column of one row; a write of the run fills a     *)
(* cell that is empty locally (Create, MergePatch) and is never repeated,  *)
(* because the reference is recorded at once (ImportRun).  The server's    *)
(* side is modelled from how the client uses it.                           *)
(***************************************************************************)
EXTENDS Naturals, Sequences, FiniteSetsExt, SequencesExt

CONSTANTS
    Cells,
    MayCrash,      \* FALSE to look at the process while it lives
    MaxClock,      \* bound: messages the clock can stamp
    MaxFaults      \* bound: failed and unanswered requests, and crashes

\* The clock starts at zero and counts up.
ASSUME ClockAssumption == MaxClock \in Nat

VARIABLES
    clock,         \* the wall clock, one tick per message stamped
    server,        \* messages the server holds
    local,         \* the local database, by cell
    changes,       \* DB.changes: messages waiting for Commit
    since,         \* HULCClient.TS: the latest remote message merged
    savedSince,    \* messages_clock, as SaveHULC left it
    connected,     \* Syncer.ac # nil
    phase,         \* the run: "idle", "started", or "writing" after a write
    imported,      \* cells whose write the bookkeeping takes for done
    \* History: sessions ended, and writes a session took with it.
    sessions, lost, faults

client == <<changes, since, savedSince, connected, phase>>
vars == <<clock, server, local, client, imported, sessions, lost, faults>>

Writers == {"ours", "theirs"}
Values == {"none"} \cup Writers

TypeOK ==
    /\ clock \in 0..MaxClock
    /\ server \subseteq [ts : 1..clock, cell : Cells, by : Writers]
    /\ \A m, n \in server : m.ts = n.ts => m = n
    /\ local \in [Cells -> Values]
    /\ changes \in Seq(Cells)
    /\ since \in 0..clock /\ savedSince \in 0..clock
    /\ connected \in BOOLEAN /\ phase \in {"idle", "started", "writing"}
    /\ imported \subseteq Cells /\ lost \subseteq Cells
    /\ sessions \in Nat /\ faults \in Nat

Waiting == ToSet(changes)
Published == {m.cell : m \in {n \in server : n.by = "ours"}}

Latest(c) == Max({m.ts : m \in {n \in server : n.cell = c}} \cup {0})
Value(c) == IF Latest(c) = 0 THEN "none"
            ELSE (CHOOSE m \in server : m.ts = Latest(c)).by

\* The bound: room for n more messages and for those that wait.
Room(n) == clock + Len(changes) + n <= MaxClock

Fault == faults < MaxFaults /\ faults' = faults + 1

-----------------------------------------------------------------------------
(* The other client.                                                       *)

\* It publishes at once, with a stamp of the one clock.
UserEdits(c) ==
    /\ Room(1)
    /\ clock' = clock + 1
    /\ server' = server \cup {[ts |-> clock', cell |-> c, by |-> "theirs"]}
    /\ UNCHANGED <<local, client, imported, sessions, lost, faults>>

-----------------------------------------------------------------------------
(* The session.                                                            *)

\* sync: the messages after a timestamp are folded into the local copy and
\* the clock follows the latest of them (ApplyMessages, HULCClient.Merge).
News(from) == {c \in Cells : Latest(c) > from}
SyncFrom(from) ==
    /\ local' = [c \in Cells |-> IF c \in News(from) THEN Value(c) ELSE local[c]]
    /\ since' = Max({from} \cup {Latest(c) : c \in Cells})

\* ensureActual with a session: Ping is a Resync.
Ping ==
    /\ phase = "idle" /\ connected
    /\ SyncFrom(since)
    /\ phase' = "started"
    /\ UNCHANGED <<clock, server, changes, savedSince, connected, imported, sessions,
                   lost, faults>>

\* The client is closed, and what it had not committed goes with it.
EndSession ==
    /\ connected' = FALSE /\ phase' = "idle"
    /\ changes' = <<>> /\ since' = 0
    /\ lost' = lost \cup (Waiting \ Published)
    /\ sessions' = sessions + 1
    /\ UNCHANGED <<clock, server, local, savedSince, imported>>

PingFails == phase = "idle" /\ connected /\ Fault /\ EndSession

Crash == MayCrash /\ connected /\ Fault /\ EndSession

\* NewClient: the cached database is opened again, with the clock it holds.
Connect ==
    /\ phase = "idle" /\ ~connected
    /\ SyncFrom(savedSince)
    /\ connected' = TRUE /\ phase' = "started"
    /\ UNCHANGED <<clock, server, changes, savedSince, imported, sessions, lost, faults>>

-----------------------------------------------------------------------------
(* The run.                                                                *)

\* The local database is written, the message tracked, the reference noted.
Write(c) ==
    /\ phase # "idle"
    /\ Room(1)
    /\ phase' = "writing"
    /\ c \notin imported /\ local[c] = "none"
    /\ local' = [local EXCEPT ![c] = "ours"]
    /\ changes' = Append(changes, c)
    /\ imported' = imported \cup {c}
    /\ UNCHANGED <<clock, server, since, savedSince, connected, sessions, lost, faults>>

\* A message is stamped when it is committed, in the order it was tracked.
Stamp(i) == clock + i
Stamped == {[ts |-> Stamp(i), cell |-> changes[i], by |-> "ours"] :
               i \in DOMAIN changes}
Send ==
    /\ clock' = clock + Len(changes)
    /\ server' = server \cup Stamped

\* Stamping does not move the time the next sync asks from: it has not seen
\* what others wrote before it.
SinceStamped == clock'
SinceCommitted == since

\* FlushChanges, an answer from the server, SaveHULC.
Commit ==
    /\ phase # "idle"
    /\ Send
    /\ changes' = <<>>
    /\ since' = SinceCommitted /\ savedSince' = SinceCommitted
    /\ phase' = "idle"
    /\ UNCHANGED <<local, connected, imported, sessions, lost, faults>>

\* RestoreChanges puts the messages back.
Drained == <<>>
Restored == changes

CommitFails ==
    /\ phase # "idle"
    /\ Fault
    /\ changes' = Restored
    /\ phase' = "idle"
    /\ UNCHANGED <<clock, server, local, since, savedSince, connected, imported,
                   sessions, lost>>

\* The server took the messages; the answer did not arrive.
CommitUnanswered ==
    /\ phase # "idle"
    /\ Fault /\ Room(Len(changes))
    /\ Send
    /\ changes' = Restored
    /\ phase' = "idle"
    /\ UNCHANGED <<local, since, savedSince, connected, imported, sessions, lost>>

\* A run whose every fetch failed ends without a Commit, and wrote nothing.
EndUncommitted ==
    /\ phase = "started"
    /\ phase' = "idle"
    /\ UNCHANGED <<clock, server, local, changes, since, savedSince, connected, imported,
                   sessions, lost, faults>>

-----------------------------------------------------------------------------
Init ==
    /\ clock = 0 /\ server = {} /\ local = [c \in Cells |-> "none"]
    /\ changes = <<>> /\ since = 0 /\ savedSince = 0
    /\ connected = FALSE /\ phase = "idle"
    /\ imported = {} /\ sessions = 0 /\ lost = {} /\ faults = 0

Next ==
    \/ Ping \/ PingFails \/ Connect \/ Crash
    \/ Commit \/ CommitFails \/ CommitUnanswered \/ EndUncommitted
    \/ \E c \in Cells : UserEdits(c) \/ Write(c)

Spec == Init /\ [][Next]_vars

-----------------------------------------------------------------------------
(* What the backend promises.                                              *)

Contract == INSTANCE DurableWrites
    WITH Writes <- Cells, queued <- Waiting, durable <- Published, session <- sessions

\* Within a session the contract of budget.Store holds: what a failed or
\* unanswered Commit did not get through is queued for the next (FlushChanges
\* and RestoreChanges around every early return of Commit).
KeepsContract == Contract!Spec

\* A run starts on a local copy that agrees with the server in every cell,
\* its own unsent changes and those of a dead session apart: no message of
\* the other client is skipped, whatever was committed, retried or restarted
\* in between (SinceTimestamp, SaveHULC).  The other client is one that is on line:
\* what it writes is at the server at once.  Messages it delivers late, and clocks
\* that step back, are not modelled.
StartsCurrent ==
    [][phase' = "started" /\ phase = "idle" =>
         \A c \in Cells : c \notin Waiting' \cup lost' => local'[c] = Value(c)']_vars

\* src/main.go on a failed commit: "buffered changes are retried on the next
\* sync", and src/budget/store.go of a write that returned nil: durable or
\* "queued ... for automatic retry by a later Commit".
RetriedLater == \A c \in imported : c \in Waiting \cup Published
=============================================================================
