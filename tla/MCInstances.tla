---------------------------- MODULE MCInstances ----------------------------
(***************************************************************************)
(* TLC instances of Instances.                                             *)
(***************************************************************************)
EXTENDS Instances

\* Processes, links and file names are interchangeable.
Symmetries == Permutations(Procs) \cup Permutations(Links) \cup Permutations(Files)
=============================================================================
