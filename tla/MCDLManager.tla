---------------------------- MODULE MCDLManager ----------------------------
(***************************************************************************)
(* TLC instances of DLManager.                                             *)
(***************************************************************************)
EXTENDS DLManager, TLC

\* Objects are interchangeable, and so are names.
Symmetries == Permutations(Objs) \cup Permutations(Names)

\* Bound of the run with overlap, where two threads may retry one download: states
\* with fewer identities than copies under way are checked and not extended.
Enough == Cardinality(Pending) <= Cardinality(Unused)

\* The liveness runs: a download of every name is loaded, started or made to wait
\* by the constructor, and the user leaves the program alone from then on (one
\* who keeps restarting a failing download starves those before it in the list).
\* Identities and names are interchangeable: any choice of them will do.
LiveInit ==
  /\ Init
  /\ Len(List) = Cardinality(Names)
  /\ List = CHOOSE l \in [1 .. Len(List) -> Objs] : IsInjective(l)
  /\ name = CHOOSE f \in [Objs -> Names] : IsInjective([i \in DOMAIN List |-> f[List[i]]])

LiveNext ==
  \/ Timer
  \/ \E o \in Objs : Elapse(o) \/ Worker(o)
  \/ \E t \in Threads : Manager(t)

LiveSpec == LiveInit /\ [][LiveNext]_vars /\ Fairness
=============================================================================
