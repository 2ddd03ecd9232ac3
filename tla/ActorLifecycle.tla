--------------------------- MODULE ActorLifecycle ---------------------------
(***************************************************************************)
(* What an actor is promised about its life, whatever its context does: the *)
(* callbacks Actor::started, stopping and stopped, and in between the        *)
(* "work" of the actor (message handlers, spawned futures, wait futures).    *)
(* A stop request ends the work at once and is put to Actor::stopping; a     *)
(* termination is not; `stopped` is called once and is the end, unless a     *)
(* supervisor restarts the actor.                                            *)
(***************************************************************************)
CONSTANT Supervised   \* is the actor run by a Supervisor?

VARIABLES phase,      \* where the actor is in its life
          will        \* "run", "stop" once stop() was called, "end" once it is over

vars == <<phase, will>>

TypeOK ==
    /\ phase \in {"new", "running", "working", "stopping", "stopped", "gone"}
    /\ will \in {"run", "stop", "end"}

Init == phase = "new" /\ will = "run"

(* Actor::started is called. *)
Start == phase = "new" /\ phase' = "working" /\ UNCHANGED will

(* A handler or a future of the actor is entered: never after a stop. *)
BeginWork == phase = "running" /\ will = "run" /\ phase' = "working" /\ UNCHANGED will

EndWork == phase = "working" /\ phase' = "running" /\ UNCHANGED will

(* The actor calls ctx.stop() or ctx.terminate(). *)
CallStop == phase \in {"new", "working"} /\ will = "run" /\ will' = "stop" /\ UNCHANGED phase

CallTerminate == phase \in {"new", "working"} /\ will' = "end" /\ UNCHANGED phase

(* Actor::stopping is called, and answers. *)
Ask == phase = "running" /\ will # "end" /\ phase' = "stopping" /\ UNCHANGED will

Resume == phase = "stopping" /\ phase' = "running" /\ will' = "run"

Agree == phase = "stopping" /\ phase' = "stopped" /\ will' = "end"

(* Actor::stopped without Actor::stopping, after a termination. *)
Die == phase = "running" /\ will = "end" /\ phase' = "stopped" /\ UNCHANGED will

Drop == phase = "stopped" /\ phase' = "gone" /\ UNCHANGED will

Restart == Supervised /\ phase = "stopped" /\ phase' = "new" /\ will' = "run"

Next ==
    \/ Start \/ BeginWork \/ EndWork
    \/ CallStop \/ CallTerminate
    \/ Ask \/ Resume \/ Agree \/ Die
    \/ Drop \/ Restart

Spec == Init /\ [][Next]_vars
=============================================================================
