-------------------------- MODULE MCStorageEndpoint --------------------------
(***************************************************************************)
(* Instances of StorageEndpoint for TLC: two web threads, the names of     *)
(* the initial file and another one (and one that is not valid).           *)
(***************************************************************************)
EXTENDS StorageEndpoint, TLC

AllOps     == {"fileCreate", "fileDelete", "fileRead", "dirCreate", "dirDelete", "dirGetEntries", "revert"}
DirOps     == {"fileCreate", "fileDelete", "dirCreate", "dirDelete", "revert"}
RaceOps    == {"fileDelete", "dirCreate"}
Symmetry   == Permutations(Thread)

\* Once a thread is done nothing depends on its answer or its pointer any more, and
\* of its request only on which upload it has reverted.  So it is with the history of
\* a directory that is gone.
MCView ==
  <<entries, nextUID, lock, pc,
    [t \in Thread |-> IF pc[t] = "done" /\ req[t].op # "revert" THEN <<>>
                      ELSE <<req[t], found[t], overlapped[t]>>],
    {uid \in torn : findDir(entries, uid) # NULL}>>

=============================================================================
