-------------------------- MODULE MCDiskWriteQueue --------------------------
(* Instances of DiskWriteQueue for TLC. *)
EXTENDS DiskWriteQueueInv, TLC
=============================================================================
