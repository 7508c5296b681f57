---------------------------- MODULE MCMapPermutator ----------------------------
(***************************************************************************)
(* Three lists with up to three values each, so that there are carries of  *)
(* every length: a loop over the permutations of the map of them, and then *)
(* one with an iterator for each list, nested in each other.               *)
(***************************************************************************)
EXTENDS MapPermutator

VARIABLES nestedVisited, nestedFinished, position, level, phase

Nested == INSTANCE PermutationIterator
  WITH visited <- nestedVisited, finished <- nestedFinished

nestedVars == <<nestedVisited, nestedFinished, position, level, phase>>

BothInit == Init /\ Nested!Init

BothNext ==
  \/ Next /\ UNCHANGED nestedVars
  \/ finished /\ Nested!Next /\ UNCHANGED vars

BothSpec ==
  BothInit /\ [][BothNext]_<<vars, nestedVars>>
           /\ WF_<<vars, nestedVars>>(BothNext)

\* The nested iterators visit each combination once, in the same order as the
\* iterator of the map.
NestedVisitsEachOnce == Nested!VisitsEachCombinationOnce

\* Both loops end.
BothTerminate == <>(finished /\ nestedFinished)

=============================================================================
