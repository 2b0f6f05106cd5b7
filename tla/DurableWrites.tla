---------------------------- MODULE DurableWrites ----------------------------
(***************************************************************************)
(* What budget.Store and budget.Flusher (src/budget/store.go) promise of a *)
(* write that returned no error, for a backend that buffers: it is queued, *)
(* a Commit makes everything queued durable, and a Commit that fails keeps *)
(* everything queued for a later one.  The promise is one of the session   *)
(* with the backend; what a session leaves behind is given up with it.     *)
(***************************************************************************)
EXTENDS Naturals

CONSTANT Writes

VARIABLES queued, durable, session
vars == <<queued, durable, session>>

Init == queued = {} /\ durable = {} /\ session = 0

Accept(w) ==
    /\ w \notin queued \cup durable
    /\ queued' = queued \cup {w}
    /\ UNCHANGED <<durable, session>>

Publish ==
    /\ durable' = durable \cup queued
    /\ queued' = {}
    /\ UNCHANGED session

\* Durable, but the answer did not arrive: still queued.
PublishUnanswered ==
    /\ durable' = durable \cup queued
    /\ UNCHANGED <<queued, session>>

EndSession ==
    /\ queued' = {}
    /\ session' = session + 1
    /\ UNCHANGED durable

Next == (\E w \in Writes : Accept(w)) \/ Publish \/ PublishUnanswered \/ EndSession

Spec == Init /\ [][Next]_vars
=============================================================================
