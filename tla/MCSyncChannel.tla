---------------------------- MODULE MCSyncChannel ----------------------------
(* Instances of SyncChannel for TLC: two senders and the mailbox of an actor. *)
EXTENDS SyncChannel
=============================================================================
