----------------------------- MODULE MapPermutator -----------------------------
(***************************************************************************)
(* core::MapPermutator under a range-based for loop: the odometer every    *)
(* plugin iterates its pattern combinations with.  The values of the map   *)
(* do not matter, only how many there are for each key; an iterator holds  *)
(* one index per key and an end mark.                                      *)
(***************************************************************************)
EXTENDS Combinations

VARIABLES
  index,    \* m_indexes of the iterator of the loop
  mEnd,     \* its m_end
  carry     \* the key operator++ is at, or Idle between two calls of it

vars == <<size, visited, finished, index, mEnd, carry>>

Idle == N + 1

\* Mutant: only the last list is looked at.
LastListEmpty(k) == k > 0 /\ size[k] = 0

\* Iterator(map, end): the end mark is also set at the first empty list, and
\* the index of every key from there on is the number of its values.
EmptyUpTo(k) == \E p \in 1..k : size[p] = 0
BeginIndex(k) == IF EmptyUpTo(k) THEN size[k] ELSE 0

\* operator==(it, end()): the end iterator has its mark set and is at size.
AtEndIterator == mEnd \/ \A k \in Key : index[k] = size[k]

Init ==
  /\ size \in [Key -> 0..MaxSize]
  /\ visited = {}
  /\ finished = FALSE
  /\ index = [k \in Key |-> BeginIndex(k)]
  /\ mEnd = EmptyUpTo(N)
  /\ carry = Idle

\* The loop condition holds: the body sees the combination at the iterator,
\* then operator++ starts at the last key.
Visit ==
  /\ carry = Idle /\ ~finished
  /\ ~AtEndIterator
  /\ visited' = visited \cup {index}
  /\ carry' = N
  /\ UNCHANGED <<size, finished, index, mEnd>>

\* Mutant: the index of an exhausted key is not reset.
CarryWithoutReset ==
  /\ carry \in Key
  /\ IF index[carry] + 1 = size[carry]
     THEN UNCHANGED index /\ carry' = carry - 1
     ELSE index' = [index EXCEPT ![carry] = @ + 1] /\ carry' = Idle
  /\ UNCHANGED <<size, visited, finished, mEnd>>

\* One turn of the loop in operator++.
Carry ==
  /\ carry \in Key
  /\ IF index[carry] + 1 = size[carry]
     THEN index' = [index EXCEPT ![carry] = 0] /\ carry' = carry - 1
     ELSE index' = [index EXCEPT ![carry] = @ + 1] /\ carry' = Idle
  /\ UNCHANGED <<size, visited, finished, mEnd>>

\* Mutant: the end mark is not set.
CarryAround ==
  /\ carry = 0
  /\ carry' = Idle
  /\ UNCHANGED <<size, visited, finished, index, mEnd>>

\* operator++ went through the entire map.
CarryOut ==
  /\ carry = 0
  /\ mEnd' = TRUE
  /\ carry' = Idle
  /\ UNCHANGED <<size, visited, finished, index>>

LeaveLoop ==
  /\ carry = Idle /\ ~finished
  /\ AtEndIterator
  /\ finished' = TRUE
  /\ UNCHANGED <<size, visited, index, mEnd, carry>>

Next == Visit \/ Carry \/ CarryOut \/ LeaveLoop

Spec == Init /\ [][Next]_vars /\ WF_vars(Next)

-----------------------------------------------------------------------------
TypeOK ==
  /\ size \in [Key -> 0..MaxSize]
  /\ visited \subseteq [Key -> 0..MaxSize]
  /\ finished \in BOOLEAN
  /\ index \in [Key -> 0..MaxSize]
  /\ mEnd \in BOOLEAN
  /\ carry \in 0..Idle

\* The inductive invariant: between two calls of operator++ the combinations
\* visited are exactly those before the iterator (all of them once the end
\* mark is set); while it carries at key c, they are the ones up to and
\* including the one it started from, as far as the keys up to c can tell,
\* and the indexes after c have been reset.
IndexInRange == ~mEnd => index \in Combination \/ N = 0
VisitedBeforeIndex ==
  ~mEnd /\ carry = Idle => visited = {t \in Combination : Less(t, index)}
VisitedUpToCarry ==
  carry # Idle =>
    /\ ~mEnd /\ ~finished /\ N # 0
    /\ \A k \in (carry + 1)..N : index[k] = 0
    /\ visited = {t \in Combination : LessUpTo(carry, t, index)
                                        \/ EqualUpTo(carry, t, index)}
AllVisitedAtEnd == mEnd \/ finished => visited = Combination

Inv == TypeOK /\ IndexInRange /\ VisitedBeforeIndex /\ VisitedUpToCarry
       /\ AllVisitedAtEnd

\* A for loop over the permutations of a map, whatever the number of its keys
\* and values, sees each combination exactly once and in order.
VisitsEachCombinationOnce == AbstractSpec

\* The combination at the iterator is new each time the body is entered.
NothingVisitedTwice == [][visited' # visited => index \notin visited]_vars

=============================================================================
