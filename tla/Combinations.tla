----------------------------- MODULE Combinations -----------------------------
(***************************************************************************)
(* What iterating over the permutations of a map of lists promises: every  *)
(* combination of one index per key is visited exactly once, in            *)
(* lexicographic order (the first key is the slowest), and the iteration   *)
(* ends when there is none left.                                           *)
(***************************************************************************)
EXTENDS Integers

CONSTANTS
  N,         \* the number of keys of the map, taken in the order of the map
  MaxSize    \* bound: the largest number of values of a key

ASSUME SizeAssumption == N \in Nat /\ MaxSize \in Nat

VARIABLES
  size,      \* the number of values of each key
  visited,   \* the combinations visited so far
  finished   \* whether the iteration is over

combinationVars == <<size, visited, finished>>

Key == 1..N

\* t comes before u when only the keys up to k are compared
LessUpTo(k, t, u) ==
  \E p \in 1..k : t[p] < u[p] /\ \A q \in 1..(p - 1) : t[q] = u[q]
EqualUpTo(k, t, u) == \A p \in 1..k : t[p] = u[p]
Less(t, u) == LessUpTo(N, t, u)

\* All combinations; a map without keys has none to visit.
Combination ==
  IF N = 0 THEN {}
  ELSE {t \in [Key -> 0..MaxSize] : \A k \in Key : t[k] < size[k]}

AbstractInit ==
  /\ size \in [Key -> 0..MaxSize]
  /\ visited = {}
  /\ finished = FALSE

AbstractVisit(t) ==
  /\ ~finished
  /\ t \in Combination \ visited
  /\ \A u \in Combination : Less(u, t) => u \in visited
  /\ visited' = visited \cup {t}
  /\ UNCHANGED <<size, finished>>

AbstractFinish ==
  /\ ~finished
  /\ visited = Combination
  /\ finished' = TRUE
  /\ UNCHANGED <<size, visited>>

AbstractNext ==
  \/ \E t \in Combination : AbstractVisit(t)
  \/ AbstractFinish

AbstractSpec == AbstractInit /\ [][AbstractNext]_combinationVars

=============================================================================
