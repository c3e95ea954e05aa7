----------------------------- MODULE MCLinuxTfo -----------------------------
(* LinuxTfo with a few tasks, for TLC. *)
EXTENDS LinuxTfo, TLC

\* Nothing tells the tasks the read half may move between apart.
ReaderSymmetry == Permutations(ReaderTasks)
=============================================================================
