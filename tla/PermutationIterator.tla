-------------------------- MODULE PermutationIterator --------------------------
(***************************************************************************)
(* core::PermutationIterator under a loop from begin to end: one iterator  *)
(* for each collection, nested in each other by template recursion, the    *)
(* first collection outermost.  A call of operator++ goes down to the      *)
(* innermost iterator and carries on its way back; each turn of the        *)
(* recursion is one step.  The iterator at level k is the one over the     *)
(* collections k..N, of which there is at least one.                       *)
(***************************************************************************)
EXTENDS Combinations

VARIABLES
  position,   \* the position of the iterator of each collection
  level,      \* the level operator++ is at, 0 outside of it
  phase       \* "down" or "up" within operator++, "idle" outside of it

vars == <<size, visited, finished, position, level, phase>>

AtEnd(k) == position[k] = size[k]

HasEmptyCollection(k) == \E j \in k..N : size[j] = 0

\* The constructors: an iterator with others nested in it starts at its end
\* when one of the collections is empty.
BeginPosition(k) == IF k < N /\ HasEmptyCollection(k) THEN size[k] ELSE 0

Init ==
  /\ size \in [Key -> 0..MaxSize]
  /\ visited = {}
  /\ finished = FALSE
  /\ position = [k \in Key |-> BeginPosition(k)]
  /\ level = 0
  /\ phase = "idle"

\* operator*, then the call of operator++.  That the end iterator is equal to
\* another is decided by the outermost positions.
Visit ==
  /\ phase = "idle" /\ ~finished
  /\ ~AtEnd(1)
  /\ visited' = visited \cup {position}
  /\ level' = 1 /\ phase' = "down"
  /\ UNCHANGED <<size, finished, position>>

\* operator++ of an iterator with others nested in it, up to the call of theirs
Descend ==
  /\ phase = "down" /\ level < N
  /\ IF AtEnd(level) THEN phase' = "up" /\ level' = level - 1
     ELSE IF AtEnd(level + 1) THEN phase' = "up" /\ UNCHANGED level
     ELSE level' = level + 1 /\ UNCHANGED phase
  /\ UNCHANGED <<size, visited, finished, position>>

\* operator++ of the innermost iterator
Innermost ==
  /\ phase = "down" /\ level = N
  /\ position' = IF AtEnd(N) THEN position ELSE [position EXCEPT ![N] = @ + 1]
  /\ phase' = "up" /\ level' = N - 1
  /\ UNCHANGED <<size, visited, finished>>

\* Mutant: this iterator is advanced, but the nested ones are not restarted.
AdvanceOnly(k) == [position EXCEPT ![k] = @ + 1]

\* restart() of all nested iterators, and one step of this one
RestartAndAdvance(k) ==
  [j \in Key |-> IF j > k THEN 0
                 ELSE IF j = k THEN position[j] + 1 ELSE position[j]]

Ascend ==
  /\ phase = "up" /\ level > 0
  /\ position' = IF AtEnd(level + 1) THEN RestartAndAdvance(level) ELSE position
  /\ level' = level - 1
  /\ UNCHANGED <<size, visited, finished, phase>>

Return ==
  /\ phase = "up" /\ level = 0
  /\ phase' = "idle"
  /\ UNCHANGED <<size, visited, finished, position, level>>

LeaveLoop ==
  /\ phase = "idle" /\ ~finished
  /\ AtEnd(1)
  /\ finished' = TRUE
  /\ UNCHANGED <<size, visited, position, level, phase>>

Next == Visit \/ Descend \/ Innermost \/ Ascend \/ Return \/ LeaveLoop

-----------------------------------------------------------------------------
\* The nested iterators visit each combination once and in order, like the
\* iterator of MapPermutator.
VisitsEachCombinationOnce == AbstractSpec

=============================================================================
