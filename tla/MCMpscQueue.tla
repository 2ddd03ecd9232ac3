----------------------------- MODULE MCMpscQueue -----------------------------
(* Two or three pushers and a popper of the queue of queue.rs, for TLC. *)
EXTENDS MpscQueue
=============================================================================
