---------------------------- MODULE MCEventFiles ----------------------------
(***************************************************************************)
(* EventFiles for TLC.  Processes, threads, readers and commands are only  *)
(* compared for equality.                                                  *)
(***************************************************************************)
EXTENDS EventFiles, TLC

Symmetry == Permutations(Processes) \cup Permutations(Threads)
                \cup Permutations(Readers) \cup Permutations(Commands)
=============================================================================
