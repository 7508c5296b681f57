------------------------- MODULE MapPermutator_proofs -------------------------
(***************************************************************************)
(* The odometer of MapPermutator visits every combination exactly once, in *)
(* order, for any number of keys and of values per key, and so do the      *)
(* nested iterators of PermutationIterator.                                *)
(***************************************************************************)
EXTENDS MCMapPermutator, TLAPS

\* An index vector; the values are natural numbers.
IndexVector == [Key -> 0..MaxSize]

\* Turning over key c from its last value, when everything after it has been
\* reset, loses no combination: as far as the keys before c can tell, the same
\* combinations come before or are equal to the iterator.
LEMMA ResetKey ==
  ASSUME NEW c \in Key, NEW i \in IndexVector, NEW t \in IndexVector,
         t[c] <= i[c]
  PROVE  LET j == [i EXCEPT ![c] = 0]
         IN (LessUpTo(c, t, i) \/ EqualUpTo(c, t, i))
              <=> (LessUpTo(c - 1, t, j) \/ EqualUpTo(c - 1, t, j))
<1> DEFINE j == [i EXCEPT ![c] = 0]
<1> USE SizeAssumption DEF Key, IndexVector
<1>1. \A p \in 1..(c - 1) : p \in Key /\ p # c /\ j[p] = i[p]
  OBVIOUS
<1>2. \A p \in Key : t[p] \in Nat /\ i[p] \in Nat
  OBVIOUS
<1>3. ASSUME LessUpTo(c, t, i) PROVE LessUpTo(c - 1, t, j) \/ EqualUpTo(c - 1, t, j)
  <2>1. PICK p \in 1..c : t[p] < i[p] /\ \A q \in 1..(p - 1) : t[q] = i[q]
    BY <1>3 DEF LessUpTo
  <2>2. CASE p = c
    BY <2>1, <2>2, <1>1 DEF EqualUpTo
  <2>3. CASE p # c
    <3>1. p \in 1..(c - 1) /\ t[p] < j[p]
      BY <2>1, <2>3, <1>1
    <3>2. \A q \in 1..(p - 1) : t[q] = j[q]
      BY <2>1, <3>1, <1>1
    <3> QED
      BY <3>1, <3>2 DEF LessUpTo
  <2> QED
    BY <2>2, <2>3
<1>4. ASSUME EqualUpTo(c, t, i) PROVE EqualUpTo(c - 1, t, j)
  BY <1>4, <1>1 DEF EqualUpTo
<1>5. ASSUME LessUpTo(c - 1, t, j) PROVE LessUpTo(c, t, i)
  <2>1. PICK p \in 1..(c - 1) : t[p] < j[p] /\ \A q \in 1..(p - 1) : t[q] = j[q]
    BY <1>5 DEF LessUpTo
  <2>2. p \in 1..c /\ t[p] < i[p]
    BY <2>1, <1>1
  <2>3. \A q \in 1..(p - 1) : t[q] = i[q]
    BY <2>1, <1>1
  <2> QED
    BY <2>2, <2>3 DEF LessUpTo
<1>6. ASSUME EqualUpTo(c - 1, t, j) PROVE LessUpTo(c, t, i) \/ EqualUpTo(c, t, i)
  <2>1. \A q \in 1..(c - 1) : t[q] = i[q]
    BY <1>6, <1>1 DEF EqualUpTo
  <2>2. CASE t[c] = i[c]
    BY <2>1, <2>2, SMTT(30) DEF EqualUpTo
  <2>3. CASE t[c] < i[c]
    BY <2>1, <2>3 DEF LessUpTo
  <2> QED
    BY <2>2, <2>3, <1>2
<1> QED
  BY <1>3, <1>4, <1>5, <1>6

\* Advancing key c when everything after it has been reset: exactly the
\* combinations that were up to the iterator as far as c can tell now come
\* before it.
LEMMA AdvanceKey ==
  ASSUME NEW c \in Key, NEW i \in IndexVector, NEW t \in IndexVector,
         i[c] < MaxSize,
         \A k \in (c + 1)..N : i[k] = 0
  PROVE  LET j == [i EXCEPT ![c] = @ + 1]
         IN Less(t, j) <=> (LessUpTo(c, t, i) \/ EqualUpTo(c, t, i))
<1> DEFINE j == [i EXCEPT ![c] = @ + 1]
<1> USE SizeAssumption DEF Key, IndexVector
<1>1. j[c] = i[c] + 1 /\ \A p \in Key : p # c => j[p] = i[p]
  OBVIOUS
<1>2. \A p \in Key : t[p] \in Nat /\ i[p] \in Nat
  OBVIOUS
<1>3. ASSUME Less(t, j) PROVE LessUpTo(c, t, i) \/ EqualUpTo(c, t, i)
  <2>1. PICK p \in 1..N : t[p] < j[p] /\ \A q \in 1..(p - 1) : t[q] = j[q]
    BY <1>3 DEF Less, LessUpTo
  <2>2. CASE p < c
    <3>1. t[p] < i[p] /\ \A q \in 1..(p - 1) : t[q] = i[q]
      BY <2>1, <2>2, <1>1
    <3> QED
      BY <2>2, <3>1 DEF LessUpTo
  <2>3. CASE p = c
    <3>1. \A q \in 1..(c - 1) : t[q] = i[q]
      BY <2>1, <2>3, <1>1
    <3>2. t[c] < i[c] \/ t[c] = i[c]
      BY <2>1, <2>3, <1>1, <1>2
    <3> QED
      BY <3>1, <3>2 DEF LessUpTo, EqualUpTo
  <2>4. CASE p > c
    BY <2>1, <2>4, <1>1, <1>2
  <2> QED
    BY <2>2, <2>3, <2>4
<1>4. ASSUME LessUpTo(c, t, i) PROVE Less(t, j)
  <2>1. PICK p \in 1..c : t[p] < i[p] /\ \A q \in 1..(p - 1) : t[q] = i[q]
    BY <1>4 DEF LessUpTo
  <2>2. p \in 1..N /\ t[p] < j[p]
    BY <2>1, <1>1, <1>2
  <2>3. \A q \in 1..(p - 1) : t[q] = j[q]
    BY <2>1, <1>1
  <2> QED
    BY <2>2, <2>3 DEF Less, LessUpTo
<1>5. ASSUME EqualUpTo(c, t, i) PROVE Less(t, j)
  <2>1. t[c] < j[c]
    BY <1>5, <1>1, <1>2 DEF EqualUpTo
  <2>2. \A q \in 1..(c - 1) : t[q] = j[q]
    BY <1>5, <1>1 DEF EqualUpTo
  <2> QED
    BY <2>1, <2>2 DEF Less, LessUpTo
<1> QED
  BY <1>3, <1>4, <1>5

\* Compared at every key, what comes up to the iterator is what comes before
\* it and the iterator itself.
LEMMA UpToLastKey ==
  ASSUME NEW i \in IndexVector, NEW t \in IndexVector
  PROVE  (LessUpTo(N, t, i) \/ EqualUpTo(N, t, i)) <=> (Less(t, i) \/ t = i)
<1>1. EqualUpTo(N, t, i) => t = i
  BY SizeAssumption DEF EqualUpTo, IndexVector, Key
<1>2. t = i => EqualUpTo(N, t, i)
  BY DEF EqualUpTo
<1> QED
  BY <1>1, <1>2 DEF Less

LEMMA CombinationIsVector ==
  ASSUME NEW t \in Combination
  PROVE  N # 0 /\ t \in IndexVector /\ \A k \in Key : t[k] < size[k]
BY DEF Combination, IndexVector

-----------------------------------------------------------------------------
LEMMA InitInv == Init => Inv
<1> SUFFICES ASSUME Init PROVE Inv
  OBVIOUS
<1> USE SizeAssumption
<1>1. TypeOK
  <2>1. mEnd \in BOOLEAN
    BY DEF Init, EmptyUpTo
  <2>2. \A k \in Key : BeginIndex(k) \in 0..MaxSize
    BY DEF Init, BeginIndex
  <2>3. index \in [Key -> 0..MaxSize]
    BY <2>2 DEF Init
  <2>4. carry \in 0..Idle
    BY DEF Init, Idle
  <2> QED
    BY <2>1, <2>3, <2>4, Zenon DEF Init, TypeOK
<1>2. ASSUME ~mEnd PROVE \A k \in Key : size[k] > 0 /\ index[k] = 0
  BY <1>1, <1>2 DEF Init, TypeOK, EmptyUpTo, BeginIndex, Key
<1>3. IndexInRange
  BY <1>1, <1>2 DEF IndexInRange, Combination, TypeOK
<1>4. VisitedBeforeIndex
  <2> SUFFICES ASSUME ~mEnd, NEW t \in Combination, Less(t, index)
               PROVE  FALSE
    BY DEF VisitedBeforeIndex, Init
  <2>1. t \in [Key -> 0..MaxSize]
    BY CombinationIsVector DEF IndexVector
  <2>2. PICK p \in Key : t[p] < index[p]
    BY DEF Less, LessUpTo, Key
  <2> QED
    BY <1>2, <2>1, <2>2
<1>5. VisitedUpToCarry
  BY DEF Init, VisitedUpToCarry
<1>6. AllVisitedAtEnd
  <2> SUFFICES ASSUME mEnd PROVE Combination = {}
    BY DEF AllVisitedAtEnd, Init
  <2>1. PICK p \in Key : size[p] = 0
    BY DEF Init, EmptyUpTo, Key
  <2> QED
    BY <2>1, CombinationIsVector DEF IndexVector
<1> QED
  BY <1>1, <1>3, <1>4, <1>5, <1>6 DEF Inv

\* No step changes which combinations there are.
LEMMA SameCombinations ==
  ASSUME size' = size
  PROVE  Combination' = Combination
BY DEF Combination

LEMMA VisitInv == Inv /\ Visit => Inv'
<1> SUFFICES ASSUME Inv, Visit PROVE Inv'
  OBVIOUS
<1> USE SizeAssumption
<1>1. N # 0 /\ ~mEnd /\ index \in Combination /\ index \in IndexVector
  BY CombinationIsVector
  DEF Inv, TypeOK, IndexInRange, Visit, AtEndIterator, Key, IndexVector
<1>2. Combination' = Combination
  BY SameCombinations DEF Visit
<1>3. TypeOK'
  BY <1>1 DEF Inv, TypeOK, Visit, Idle, IndexVector
<1>4. VisitedUpToCarry'
  <2>1. visited = {t \in Combination : Less(t, index)}
    BY <1>1 DEF Inv, VisitedBeforeIndex, Visit
  <2>2. visited' = {t \in Combination : Less(t, index) \/ t = index}
    BY <2>1, <1>1 DEF Visit
  <2>3. \A t \in Combination :
          (LessUpTo(N, t, index) \/ EqualUpTo(N, t, index))
            <=> (Less(t, index) \/ t = index)
    BY <1>1, UpToLastKey, CombinationIsVector
  <2>4. visited' = {t \in Combination :
                     LessUpTo(N, t, index) \/ EqualUpTo(N, t, index)}
    BY <2>2, <2>3
  <2>5. \A k \in (N + 1)..N : index[k] = 0
    OBVIOUS
  <2> QED
    BY <1>1, <1>2, <2>4, <2>5
    DEF VisitedUpToCarry, Visit, LessUpTo, EqualUpTo
<1> QED
  BY <1>1, <1>2, <1>3, <1>4
  DEF Inv, IndexInRange, VisitedBeforeIndex, AllVisitedAtEnd, Visit, Idle

LEMMA CarryInv == Inv /\ Carry => Inv'
<1> SUFFICES ASSUME Inv, Carry PROVE Inv'
  OBVIOUS
<1> USE SizeAssumption
<1> DEFINE UpTo(c, i) ==
      {t \in Combination : LessUpTo(c, t, i) \/ EqualUpTo(c, t, i)}
<1>1. /\ carry \in 1..N /\ N # 0 /\ carry # Idle
      /\ ~mEnd /\ ~finished
      /\ index \in Combination /\ index \in IndexVector
      /\ \A k \in Key : index[k] < size[k]
      /\ \A k \in (carry + 1)..N : index[k] = 0
      /\ visited = UpTo(carry, index)
  BY CombinationIsVector
  DEF Inv, IndexInRange, VisitedUpToCarry, Carry, Key, Idle
<1>2. Combination' = Combination
  BY SameCombinations DEF Carry
<1>3. size \in [Key -> 0..MaxSize] /\ visited \subseteq [Key -> 0..MaxSize]
  BY DEF Inv, TypeOK
<1>4. CASE index[carry] + 1 = size[carry]
  <2>1. index' = [index EXCEPT ![carry] = 0] /\ carry' = carry - 1
    BY <1>4 DEF Carry
  <2>2. TypeOK'
    <3>1. 0 \in 0..MaxSize /\ index \in [Key -> 0..MaxSize]
      BY <1>1 DEF IndexVector
    <3>2. [index EXCEPT ![carry] = 0] \in [Key -> 0..MaxSize]
      BY <3>1, Zenon
    <3>3. index' \in [Key -> 0..MaxSize]
      BY <2>1, <3>2
    <3>4. carry' \in 0..Idle
      BY <1>1, <2>1 DEF Idle
    <3> QED
      BY <1>3, <3>3, <3>4 DEF Carry, TypeOK, Inv
  <2>3. index' \in Combination
    BY <1>1, <1>3, <2>1 DEF Combination, IndexVector, Key
  <2>4. \A k \in carry..N : index'[k] = 0
    BY <1>1, <2>1 DEF IndexVector, Key
  <2>5. visited = UpTo(carry - 1, index')
    <3>1. \A t \in Combination : t \in IndexVector /\ t[carry] <= index[carry]
      BY <1>1, <1>3, <1>4, CombinationIsVector, SMTT(30) DEF IndexVector, Key
    <3>2. \A t \in Combination :
            (LessUpTo(carry, t, index) \/ EqualUpTo(carry, t, index))
              <=> (LessUpTo(carry - 1, t, index')
                     \/ EqualUpTo(carry - 1, t, index'))
      BY <1>1, <2>1, <3>1, ResetKey DEF Key
    <3> QED
      BY <1>1, <3>2
  <2>6. VisitedUpToCarry'
    BY <1>1, <1>2, <2>1, <2>4, <2>5
    DEF VisitedUpToCarry, Carry, LessUpTo, EqualUpTo
  <2> QED
    BY <1>1, <1>2, <2>1, <2>2, <2>3, <2>6
    DEF Inv, IndexInRange, VisitedBeforeIndex, AllVisitedAtEnd, Carry, Idle
<1>5. CASE index[carry] + 1 # size[carry]
  <2>1. index' = [index EXCEPT ![carry] = @ + 1] /\ carry' = Idle
    BY <1>5 DEF Carry
  <2>2. index[carry] + 1 < size[carry] /\ index[carry] < MaxSize
    BY <1>1, <1>3, <1>5 DEF IndexVector, Key
  <2>3. TypeOK'
    <3>1. index[carry] + 1 \in 0..MaxSize
      BY <1>1, <2>2 DEF IndexVector, Key
    <3>2. [index EXCEPT ![carry] = index[carry] + 1] \in [Key -> 0..MaxSize]
      BY <1>1, <3>1, Zenon DEF IndexVector
    <3>3. index' \in [Key -> 0..MaxSize]
      BY <2>1, <3>2
    <3>4. carry' \in 0..Idle
      BY <2>1 DEF Idle
    <3> QED
      BY <1>3, <3>3, <3>4 DEF Carry, TypeOK, Inv
  <2>4. index' \in Combination
    <3>1. \A k \in Key : index'[k] < size[k]
      BY <1>1, <2>1, <2>2 DEF IndexVector
    <3> QED
      BY <1>1, <2>3, <3>1 DEF Combination, TypeOK
  <2>5. visited = {t \in Combination : Less(t, index')}
    <3>1. \A t \in Combination :
            Less(t, index') <=> (LessUpTo(carry, t, index)
                                   \/ EqualUpTo(carry, t, index))
      BY <1>1, <2>1, <2>2, AdvanceKey, CombinationIsVector DEF Key
    <3> QED
      BY <1>1, <3>1
  <2>6. VisitedBeforeIndex'
    BY <1>2, <2>5 DEF VisitedBeforeIndex, Carry, Less, LessUpTo
  <2> QED
    BY <1>1, <1>2, <2>1, <2>3, <2>4, <2>6
    DEF Inv, IndexInRange, VisitedUpToCarry, AllVisitedAtEnd, Carry
<1> QED
  BY <1>4, <1>5

LEMMA CarryOutInv == Inv /\ CarryOut => Inv'
<1> SUFFICES ASSUME Inv, CarryOut PROVE Inv'
  OBVIOUS
<1> USE SizeAssumption
<1>1. carry # Idle
  BY DEF CarryOut, Idle
<1>2. \A t : EqualUpTo(0, t, index)
  BY DEF EqualUpTo
<1>3. visited = Combination
  BY <1>1, <1>2 DEF Inv, VisitedUpToCarry, CarryOut
<1>4. Combination' = Combination
  BY SameCombinations DEF CarryOut
<1>5. TypeOK'
  BY DEF Inv, TypeOK, CarryOut, Idle
<1> QED
  BY <1>3, <1>4, <1>5
  DEF Inv, IndexInRange, VisitedBeforeIndex, VisitedUpToCarry,
      AllVisitedAtEnd, CarryOut

\* The loop is left only when there is nothing more to visit.
LEMMA LeaveLoopComplete == Inv /\ LeaveLoop => visited = Combination
<1> SUFFICES ASSUME Inv, LeaveLoop PROVE visited = Combination
  OBVIOUS
<1>1. CASE mEnd
  BY <1>1 DEF Inv, AllVisitedAtEnd
<1>2. CASE ~mEnd /\ N = 0
  BY <1>2 DEF Inv, VisitedBeforeIndex, LeaveLoop, Combination
<1>3. CASE ~mEnd /\ N # 0
  <2>1. 1 \in Key /\ index[1] < size[1] /\ size[1] \in Nat
    BY <1>3, CombinationIsVector, SizeAssumption
    DEF Inv, IndexInRange, Key, TypeOK
  <2> QED
    BY <1>3, <2>1 DEF LeaveLoop, AtEndIterator
<1> QED
  BY <1>1, <1>2, <1>3

LEMMA LeaveLoopInv == Inv /\ LeaveLoop => Inv'
<1> SUFFICES ASSUME Inv, LeaveLoop PROVE Inv'
  OBVIOUS
<1>1. visited = Combination
  BY LeaveLoopComplete
<1>2. Combination' = Combination
  BY SameCombinations DEF LeaveLoop
<1>3. TypeOK'
  BY DEF Inv, TypeOK, LeaveLoop
<1> QED
  BY <1>1, <1>2, <1>3
  DEF Inv, IndexInRange, VisitedBeforeIndex, VisitedUpToCarry,
      AllVisitedAtEnd, LeaveLoop, Less, LessUpTo

LEMMA NextInv == Inv /\ [Next]_vars => Inv'
<1> SUFFICES ASSUME Inv, [Next]_vars PROVE Inv'
  OBVIOUS
<1>1. CASE UNCHANGED vars
  BY <1>1 DEF vars, Inv, TypeOK, IndexInRange, VisitedBeforeIndex,
              VisitedUpToCarry, AllVisitedAtEnd, Combination, Less, LessUpTo,
              EqualUpTo
<1> QED
  BY <1>1, VisitInv, CarryInv, CarryOutInv, LeaveLoopInv DEF Next

-----------------------------------------------------------------------------
\* In every state of the loop, the combinations visited so far are exactly the
\* ones the iterator has passed, and all of them once it is at the end.
THEOREM LoopInvariant == Spec => []Inv
BY InitInv, NextInv, PTL DEF Spec

\* An iterator never holds more than one index per key of the map.
COROLLARY TypeCorrect == Spec => []TypeOK
<1>1. Inv => TypeOK
  BY DEF Inv
<1> QED
  BY <1>1, LoopInvariant, PTL

LEMMA VisitIsNew == Inv /\ Visit => index \in Combination \ visited
<1> SUFFICES ASSUME Inv, Visit PROVE index \in Combination \ visited
  OBVIOUS
<1>1. index \in Combination /\ index \in IndexVector
  BY CombinationIsVector, SizeAssumption
  DEF Inv, IndexInRange, Visit, AtEndIterator, Key
<1>2. visited = {t \in Combination : Less(t, index)}
  BY DEF Inv, VisitedBeforeIndex, Visit, AtEndIterator
<1>3. ~Less(index, index)
  BY <1>1, SizeAssumption DEF Less, LessUpTo, IndexVector, Key
<1> QED
  BY <1>1, <1>2, <1>3

\* The body of the loop never sees a combination twice.
THEOREM NoCombinationTwice == Spec => NothingVisitedTwice
<1>1. Inv /\ [Next]_vars => [visited' # visited => index \notin visited]_vars
  BY VisitIsNew DEF Next, Carry, CarryOut, LeaveLoop, vars
<1> QED
  BY <1>1, LoopInvariant, PTL DEF Spec, NothingVisitedTwice

-----------------------------------------------------------------------------
LEMMA StepRefines == Inv /\ [Next]_vars => [AbstractNext]_combinationVars
<1> SUFFICES ASSUME Inv, [Next]_vars
             PROVE  AbstractNext \/ UNCHANGED combinationVars
  BY DEF combinationVars
<1>1. CASE Visit
  <2>1. index \in Combination \ visited
    BY <1>1, VisitIsNew
  <2>2. visited = {t \in Combination : Less(t, index)}
    BY <1>1 DEF Inv, VisitedBeforeIndex, Visit, AtEndIterator
  <2>3. AbstractVisit(index)
    BY <1>1, <2>1, <2>2 DEF AbstractVisit, Visit
  <2> QED
    BY <2>1, <2>3 DEF AbstractNext
<1>2. CASE Carry
  BY <1>2 DEF Carry, combinationVars
<1>3. CASE CarryOut
  BY <1>3 DEF CarryOut, combinationVars
<1>4. CASE LeaveLoop
  <2>1. visited = Combination
    BY <1>4, LeaveLoopComplete
  <2> QED
    BY <1>4, <2>1 DEF LeaveLoop, AbstractFinish, AbstractNext
<1>5. CASE UNCHANGED vars
  BY <1>5 DEF vars, combinationVars
<1> QED
  BY <1>1, <1>2, <1>3, <1>4, <1>5 DEF Next

\* The odometer implements the iteration over all combinations in order, for
\* every number of keys and of values.
THEOREM ImplementsCombinations == Spec => VisitsEachCombinationOnce
<1>1. Init => AbstractInit
  BY DEF Init, AbstractInit
<1> QED
  BY <1>1, StepRefines, LoopInvariant, PTL
  DEF Spec, VisitsEachCombinationOnce, AbstractSpec

-----------------------------------------------------------------------------
(***************************************************************************)
(* The nested iterators.                                                   *)
(***************************************************************************)
UpTo(c, t, i) == LessUpTo(c, t, i) \/ EqualUpTo(c, t, i)

\* The combinations visited are those up to i, as far as the keys up to c tell.
SeenUpTo(c, i, seen) == seen = {t \in Combination : UpTo(c, t, i)}

SameUpTo(c, i, j) == \A k \in 1..c : i[k] = j[k]

\* j is i with the iterator at level c advanced.
Advance(c, i, j) == j = [i EXCEPT ![c] = @ + 1]

\* operator++ is done: the combinations visited are those before the iterator.
Advanced(i, seen) ==
  /\ i \in Combination
  /\ seen = {t \in Combination : Less(t, i)}

\* The iterator at level c has come to its end, those nested in it have been
\* restarted, and the iterators around it have to be advanced.
Exhausted(c, i, seen) ==
  /\ i \in IndexVector /\ i[c] = size[c]
  /\ \A k \in 1..(c - 1) : i[k] < size[k]
  /\ \A k \in (c + 1)..N : i[k] = 0
  /\ \A k \in Key : size[k] > 0
  /\ SeenUpTo(c - 1, i, seen)

IdleInv ==
  phase = "idle" =>
    \/ nestedVisited = Combination /\ position[1] = size[1]
    \/ Advanced(position, nestedVisited) /\ ~nestedFinished

DownInv ==
  phase = "down" =>
    /\ ~nestedFinished /\ level \in Key
    /\ position \in Combination
    /\ SeenUpTo(N, position, nestedVisited)

UpInv ==
  phase = "up" =>
    /\ ~nestedFinished /\ level \in 0..(N - 1)
    /\ \/ Advanced(position, nestedVisited)
       \/ Exhausted(level + 1, position, nestedVisited)

NestedInv ==
  /\ size \in [Key -> 0..MaxSize]
  /\ position \in IndexVector
  /\ phase \in {"idle", "down", "up"}
  /\ IdleInv /\ DownInv /\ UpInv

\* Both modules speak of the same combinations.
LEMMA SameOrder ==
  /\ Nested!Key = Key
  /\ Nested!Combination = Combination
  /\ \A t, u : Nested!Less(t, u) <=> Less(t, u)
BY DEF Nested!Key, Key, Nested!Combination, Combination, Nested!Less, Less,
       Nested!LessUpTo, LessUpTo

\* Only the keys up to c are compared.
LEMMA UpToSameKeys ==
  ASSUME NEW c \in Int, NEW t, NEW i, NEW j, SameUpTo(c, i, j)
  PROVE  UpTo(c, t, i) <=> UpTo(c, t, j)
BY DEF SameUpTo, UpTo, LessUpTo, EqualUpTo

\* An iterator that is not at its end is advanced, with those nested in it
\* restarted.
LEMMA AdvanceLevel ==
  ASSUME NEW c \in Key, NEW i \in Combination, NEW j, NEW seen,
         size \in [Key -> 0..MaxSize],
         \A k \in (c + 1)..N : i[k] = 0,
         SeenUpTo(c, i, seen), Advance(c, i, j)
  PROVE  Advanced(j, seen) \/ Exhausted(c, j, seen)
<1> USE SizeAssumption DEF Key
<1>1. i \in IndexVector /\ \A k \in Key : i[k] < size[k]
  BY CombinationIsVector
<1>2. \A t \in Combination : t \in IndexVector
  BY CombinationIsVector
<1>3. \A k \in Key : i[k] \in 0..MaxSize /\ size[k] \in 0..MaxSize
  BY <1>1 DEF IndexVector
<1>4. /\ i[c] < MaxSize /\ j[c] = i[c] + 1
      /\ \A k \in Key : k # c => j[k] = i[k]
  BY <1>1, <1>3 DEF IndexVector, Advance
<1>5. j \in IndexVector
  BY <1>1, <1>3, <1>4 DEF IndexVector, Advance
<1>6. CASE j[c] < size[c]
  <2>1. j \in Combination
    BY <1>1, <1>4, <1>5, <1>6 DEF Combination, IndexVector
  <2>2. \A t \in Combination : Less(t, j) <=> UpTo(c, t, i)
    BY <1>1, <1>2, <1>4, AdvanceKey DEF UpTo, Advance
  <2> QED
    BY <2>1, <2>2 DEF Advanced, SeenUpTo
<1>7. CASE ~(j[c] < size[c])
  <2> DEFINE reset == [i EXCEPT ![c] = 0]
  <2>1. j[c] = size[c]
    BY <1>1, <1>3, <1>4, <1>7
  <2>2. \A t \in Combination : t[c] <= i[c]
    BY <1>2, <1>3, <1>4, <2>1, CombinationIsVector DEF IndexVector
  <2>3. \A t \in Combination : UpTo(c, t, i) <=> UpTo(c - 1, t, reset)
    BY <1>1, <1>2, <2>2, ResetKey DEF UpTo
  <2>4. SameUpTo(c - 1, reset, j)
    BY <1>1, <1>4 DEF IndexVector, SameUpTo
  <2> HIDE DEF reset
  <2>6. ASSUME NEW t \in Combination
        PROVE  UpTo(c - 1, t, reset) <=> UpTo(c - 1, t, j)
    BY <2>4, UpToSameKeys
  <2>7. SeenUpTo(c - 1, j, seen)
    BY <2>3, <2>6 DEF SeenUpTo
  <2>8. \A k \in 1..(c - 1) : j[k] < size[k]
    BY <1>1, <1>4
  <2>9. \A k \in (c + 1)..N : j[k] = 0
    BY <1>4
  <2>10. \A k \in Key : size[k] > 0
    BY <1>1, <1>3
  <2> QED
    BY <1>5, <2>1, <2>7, <2>8, <2>9, <2>10 DEF Exhausted
<1> QED
  BY <1>6, <1>7

LEMMA NestedInitInv ==
  ASSUME N # 0, Nested!Init
  PROVE  NestedInv
<1> USE SizeAssumption DEF Key
<1>1. 1 \in Key /\ size \in [Key -> 0..MaxSize]
  BY DEF Nested!Init, Nested!Key
<1>2. /\ nestedVisited = {} /\ phase = "idle" /\ ~nestedFinished
      /\ position = [k \in Key |-> Nested!BeginPosition(k)]
  BY DEF Nested!Init, Nested!Key
<1>3. position \in IndexVector
  BY <1>1, <1>2 DEF Nested!BeginPosition, IndexVector
<1>4. ASSUME \A k \in Key : size[k] > 0
      PROVE  IdleInv
  <2>1. \A k \in Key : position[k] = 0
    BY <1>2, <1>4 DEF Nested!BeginPosition, Nested!HasEmptyCollection
  <2>2. position \in Combination
    BY <1>3, <1>4, <2>1 DEF Combination, IndexVector
  <2>3. \A t \in Combination : ~Less(t, position)
    BY <2>1, CombinationIsVector DEF Less, LessUpTo, IndexVector
  <2> QED
    BY <1>2, <2>2, <2>3 DEF IdleInv, Advanced
<1>5. ASSUME ~\A k \in Key : size[k] > 0
      PROVE  IdleInv
  <2>1. PICK k \in Key : size[k] = 0
    BY <1>1, <1>5
  <2>2. Combination = {}
    BY <2>1, CombinationIsVector DEF IndexVector
  <2>3. position[1] = size[1]
    BY <1>1, <1>2, <2>1 DEF Nested!BeginPosition, Nested!HasEmptyCollection
  <2> QED
    BY <1>2, <2>2, <2>3 DEF IdleInv
<1> QED
  BY <1>1, <1>2, <1>3, <1>4, <1>5 DEF NestedInv, DownInv, UpInv

\* The body sees the combination at the iterator, which is new.
LEMMA NestedVisitStep ==
  ASSUME N # 0, NestedInv, Nested!Visit
  PROVE  /\ NestedInv'
         /\ position \in Combination
         /\ nestedVisited = {t \in Combination : Less(t, position)}
<1> USE SizeAssumption DEF Key
<1>1. Advanced(position, nestedVisited)
  BY DEF NestedInv, IdleInv, Nested!Visit, Nested!AtEnd
<1>2. position \in IndexVector
  BY DEF NestedInv
<1>3. \A t \in Combination : UpTo(N, t, position) <=> (Less(t, position) \/ t = position)
  BY <1>2, UpToLastKey, CombinationIsVector DEF UpTo
<1>4. SeenUpTo(N, position, nestedVisited')
  BY <1>1, <1>3 DEF Advanced, SeenUpTo, Nested!Visit
<1>5. /\ Combination' = Combination
      /\ position' = position
  BY DEF Nested!Visit, Combination
<1>6. DownInv'
  BY <1>1, <1>4, <1>5 DEF DownInv, Advanced, SeenUpTo, UpTo, LessUpTo, EqualUpTo,
                      Nested!Visit
<1> QED
  BY <1>1, <1>6 DEF NestedInv, IdleInv, UpInv, Advanced, Nested!Visit, IndexVector

LEMMA NestedDescendStep ==
  ASSUME N # 0, NestedInv, Nested!Descend
  PROVE  NestedInv'
<1> USE SizeAssumption DEF Key
<1>1. /\ ~nestedFinished /\ level \in Key /\ position \in Combination
      /\ SeenUpTo(N, position, nestedVisited)
  BY DEF NestedInv, DownInv, Nested!Descend
<1>2. \A k \in Key : position[k] < size[k] /\ position[k] # size[k]
  BY <1>1, CombinationIsVector DEF NestedInv, IndexVector
<1>3. level' = level + 1 /\ phase' = phase /\ level + 1 \in Key
  BY <1>1, <1>2 DEF Nested!Descend, Nested!AtEnd
<1>4. /\ Combination' = Combination
      /\ position' = position /\ nestedVisited' = nestedVisited
  BY DEF Nested!Descend, Combination
<1>5. DownInv'
  BY <1>1, <1>3, <1>4 DEF DownInv, SeenUpTo, UpTo, LessUpTo, EqualUpTo,
                      Nested!Descend
<1> QED
  BY <1>3, <1>5 DEF NestedInv, IdleInv, UpInv, Nested!Descend, IndexVector

\* What has been reached on the way up does not depend on the step taken.
LEMMA ReachedLater ==
  ASSUME size' = size, nestedVisited' = nestedVisited
  PROVE  /\ Advanced(position', nestedVisited) => Advanced(position, nestedVisited)'
         /\ Exhausted(level' + 1, position', nestedVisited)
              => Exhausted(level + 1, position, nestedVisited)'
BY DEF Advanced, Exhausted, SeenUpTo, Combination, UpTo, LessUpTo, EqualUpTo, Less,
       IndexVector, Key

\* The innermost iterator is advanced.
LEMMA NestedInnermostStep ==
  ASSUME N # 0, NestedInv, Nested!Innermost
  PROVE  NestedInv'
<1> USE SizeAssumption DEF Key
<1>1. /\ ~nestedFinished /\ position \in Combination
      /\ SeenUpTo(N, position, nestedVisited)
  BY DEF NestedInv, DownInv, Nested!Innermost
<1>2. N \in Key /\ position[N] < size[N] /\ position[N] # size[N]
  BY <1>1, CombinationIsVector DEF NestedInv, IndexVector
<1>3. Advance(N, position, position')
  BY <1>2 DEF Nested!Innermost, Nested!AtEnd, Advance
<1>4. Advanced(position', nestedVisited) \/ Exhausted(N, position', nestedVisited)
  BY <1>1, <1>2, <1>3, AdvanceLevel DEF NestedInv
<1>5. /\ size' = size /\ nestedVisited' = nestedVisited
      /\ ~nestedFinished' /\ phase' = "up"
      /\ level' = N - 1 /\ level' + 1 = N /\ level' \in 0..(N - 1)
  BY <1>1 DEF Nested!Innermost
<1>6. UpInv'
  BY <1>4, <1>5, ReachedLater DEF UpInv
<1> QED
  BY <1>4, <1>5, <1>6
  DEF NestedInv, IdleInv, DownInv, Advanced, Exhausted, IndexVector, Combination

\* An iterator at its end is restarted, and the one around it advanced.
LEMMA NestedAscendStep ==
  ASSUME N # 0, NestedInv, Nested!Ascend
  PROVE  NestedInv'
<1> USE SizeAssumption DEF Key
<1>1. /\ ~nestedFinished /\ level \in Key /\ level + 1 \in Key
      /\ \/ Advanced(position, nestedVisited)
         \/ Exhausted(level + 1, position, nestedVisited)
  BY DEF NestedInv, UpInv, Nested!Ascend
<1>2. /\ size' = size /\ nestedVisited' = nestedVisited
      /\ ~nestedFinished' /\ phase' = "up"
      /\ level' + 1 = level /\ level' \in 0..(N - 1)
  BY <1>1 DEF Nested!Ascend
<1>3. CASE Advanced(position, nestedVisited)
  <2>1. position \in Combination
    BY <1>3 DEF Advanced
  <2>2. position[level + 1] # size[level + 1]
    <3>1. position[level + 1] < size[level + 1]
      BY <1>1, <2>1, CombinationIsVector
    <3>2. position[level + 1] \in Nat /\ size[level + 1] \in Nat
      BY <1>1 DEF NestedInv, IndexVector
    <3> QED
      BY <3>1, <3>2
  <2>3. position' = position
    BY <2>2 DEF Nested!Ascend, Nested!AtEnd
  <2>4. UpInv'
    BY <1>2, <1>3, <2>3, ReachedLater DEF UpInv
  <2> QED
    BY <1>2, <2>3, <2>4 DEF NestedInv, IdleInv, DownInv, IndexVector
<1>4. CASE Exhausted(level + 1, position, nestedVisited)
  <2> DEFINE reset == [position EXCEPT ![level + 1] = 0]
  <2>1. /\ position \in IndexVector /\ position[level + 1] = size[level + 1]
        /\ \A k \in 1..level : position[k] < size[k]
        /\ \A k \in (level + 2)..N : position[k] = 0
        /\ \A k \in Key : size[k] > 0
        /\ SeenUpTo(level, position, nestedVisited)
    BY <1>1, <1>4 DEF Exhausted
  <2>2. /\ reset \in IndexVector
        /\ reset[level + 1] = 0
        /\ \A k \in Key : k # level + 1 => reset[k] = position[k]
    BY <1>1, <2>1 DEF IndexVector
  <2>3. \A k \in (level + 1)..N : reset[k] = 0
    <3> TAKE k \in (level + 1)..N
    <3>1. k = level + 1 \/ k \in (level + 2)..N
      BY <1>1
    <3> QED
      BY <1>1, <2>1, <2>2, <3>1
  <2>4. \A k \in 1..level : reset[k] = position[k]
    BY <1>1, <2>2
  <2>5. reset \in Combination
    <3> SUFFICES ASSUME NEW k \in Key
                 PROVE  reset[k] < size[k]
      BY <2>2 DEF Combination, IndexVector
    <3>1. k \in 1..level \/ k \in (level + 1)..N
      BY <1>1
    <3> QED
      BY <2>1, <2>3, <2>4, <3>1
  <2>6. SeenUpTo(level, reset, nestedVisited)
    <3>1. SameUpTo(level, reset, position)
      BY <2>4 DEF SameUpTo
    <3>2. ASSUME NEW t \in Combination
          PROVE  UpTo(level, t, reset) <=> UpTo(level, t, position)
      BY <1>1, <3>1, UpToSameKeys
    <3> QED
      BY <2>1, <3>2 DEF SeenUpTo
  <2>7. Advance(level, reset, position')
    <3>1. position' = [k \in Key |-> IF k > level THEN 0
                                     ELSE IF k = level THEN position[k] + 1
                                     ELSE position[k]]
      BY <2>1 DEF Nested!Ascend, Nested!AtEnd, Nested!RestartAndAdvance,
                  Nested!Key
    <3>2. [reset EXCEPT ![level] = @ + 1]
            = [k \in Key |-> IF k = level THEN reset[level] + 1 ELSE reset[k]]
      BY <2>2 DEF IndexVector
    <3>3. \A k \in Key : k > level => k \in (level + 1)..N
      BY <1>1
    <3>4. \A k \in Key : ~(k > level) => k \in 1..level
      BY <1>1
    <3>5. level \in 1..level /\ level \in Key
      BY <1>1
    <3> HIDE DEF reset
    <3>6. ASSUME NEW k \in Key
          PROVE  (IF k = level THEN reset[level] + 1 ELSE reset[k])
                   = (IF k > level THEN 0 ELSE IF k = level THEN position[k] + 1
                      ELSE position[k])
      BY <2>3, <2>4, <3>3, <3>4, <3>5
    <3> QED
      BY <3>1, <3>2, <3>6 DEF Advance
  <2> HIDE DEF reset
  <2>8. \/ Advanced(position', nestedVisited)
        \/ Exhausted(level, position', nestedVisited)
    BY <1>1, <2>3, <2>5, <2>6, <2>7, AdvanceLevel DEF NestedInv
  <2>9. UpInv'
    BY <1>2, <2>8, ReachedLater DEF UpInv
  <2> QED
    BY <1>2, <2>8, <2>9
    DEF NestedInv, IdleInv, DownInv, Advanced, Exhausted, IndexVector, Combination
<1> QED
  BY <1>1, <1>3, <1>4

\* Once the outermost iterator is exhausted, everything has been visited.
LEMMA NestedReturnStep ==
  ASSUME N # 0, NestedInv, Nested!Return
  PROVE  NestedInv'
<1> USE SizeAssumption DEF Key
<1>1. /\ ~nestedFinished
      /\ \/ Advanced(position, nestedVisited)
         \/ Exhausted(1, position, nestedVisited)
  BY DEF NestedInv, UpInv, Nested!Return
<1>2. /\ size' = size /\ nestedVisited' = nestedVisited /\ phase' = "idle"
      /\ nestedFinished' = nestedFinished /\ position' = position
  BY DEF Nested!Return
<1>3. Exhausted(1, position, nestedVisited)
        => nestedVisited = Combination /\ position[1] = size[1]
  BY DEF Exhausted, SeenUpTo, UpTo, EqualUpTo
<1>4. Combination' = Combination
  BY <1>2 DEF Combination
<1>5. IdleInv'
  BY <1>1, <1>2, <1>3, <1>4, ReachedLater DEF IdleInv
<1> QED
  BY <1>2, <1>5 DEF NestedInv, DownInv, UpInv, IndexVector

LEMMA NestedLeaveLoopStep ==
  ASSUME N # 0, NestedInv, Nested!LeaveLoop
  PROVE  NestedInv' /\ nestedVisited = Combination
<1> USE SizeAssumption DEF Key
<1>1. position[1] = size[1] /\ phase = "idle"
  BY DEF Nested!LeaveLoop, Nested!AtEnd
<1>2. ~Advanced(position, nestedVisited)
  BY <1>1, CombinationIsVector DEF Advanced, NestedInv, IndexVector
<1>3. nestedVisited = Combination
  BY <1>1, <1>2 DEF NestedInv, IdleInv
<1>4. Combination' = Combination
  BY DEF Nested!LeaveLoop, Combination
<1> QED
  BY <1>1, <1>3, <1>4
  DEF NestedInv, IdleInv, DownInv, UpInv, IndexVector, Nested!LeaveLoop

\* A step of the nested iterators keeps the invariant, and is one of an
\* iteration over all combinations in order, or none.
LEMMA NestedStep ==
  ASSUME N # 0, NestedInv, [Nested!Next]_(Nested!vars)
  PROVE  /\ NestedInv'
         /\ [Nested!AbstractNext]_(Nested!combinationVars)
<1>1. CASE Nested!Visit
  <2>1. position \in Combination \ nestedVisited
    <3>1. ~Less(position, position)
      BY SizeAssumption DEF NestedInv, Less, LessUpTo, IndexVector, Key
    <3> QED
      BY <1>1, <3>1, NestedVisitStep
  <2>2. Nested!AbstractVisit(position)
    BY <1>1, <2>1, NestedVisitStep, SameOrder
    DEF Nested!AbstractVisit, Nested!Visit
  <2> QED
    BY <1>1, <2>1, <2>2, NestedVisitStep, SameOrder DEF Nested!AbstractNext
<1>2. CASE Nested!LeaveLoop
  <2>1. Nested!AbstractFinish
    BY <1>2, NestedLeaveLoopStep, SameOrder
    DEF Nested!AbstractFinish, Nested!LeaveLoop
  <2> QED
    BY <1>2, <2>1, NestedLeaveLoopStep DEF Nested!AbstractNext
<1>3. CASE Nested!Descend
  BY <1>3, NestedDescendStep DEF Nested!Descend, Nested!combinationVars
<1>4. CASE Nested!Innermost
  BY <1>4, NestedInnermostStep DEF Nested!Innermost, Nested!combinationVars
<1>5. CASE Nested!Ascend
  BY <1>5, NestedAscendStep DEF Nested!Ascend, Nested!combinationVars
<1>6. CASE Nested!Return
  BY <1>6, NestedReturnStep DEF Nested!Return, Nested!combinationVars
<1>7. CASE UNCHANGED Nested!vars
  BY <1>7
  DEF Nested!vars, Nested!combinationVars, NestedInv, IdleInv, DownInv, UpInv,
      Advanced, Exhausted, SeenUpTo, Combination, UpTo, LessUpTo, EqualUpTo,
      Less, IndexVector, Key
<1> QED
  BY <1>1, <1>2, <1>3, <1>4, <1>5, <1>6, <1>7 DEF Nested!Next

-----------------------------------------------------------------------------
\* A loop over the nested iterators implements the iteration over all
\* combinations in order, for every number of collections and of values.
THEOREM NestedImplementsCombinations ==
  ASSUME N # 0
  PROVE  Nested!Init /\ [][Nested!Next]_(Nested!vars)
           => Nested!VisitsEachCombinationOnce
<1>1. Nested!Init => NestedInv /\ Nested!AbstractInit
  BY NestedInitInv DEF Nested!Init, Nested!AbstractInit
<1>2. NestedInv /\ [Nested!Next]_(Nested!vars)
        => NestedInv' /\ [Nested!AbstractNext]_(Nested!combinationVars)
  BY NestedStep
<1> QED
  BY <1>1, <1>2, PTL DEF Nested!VisitsEachCombinationOnce, Nested!AbstractSpec

\* The loop over the nested iterators that follows one over the permutations
\* of the map visits the same combinations, each once and in order.
THEOREM NestedFollowsMap ==
  ASSUME N # 0
  PROVE  BothSpec => NestedVisitsEachOnce
<1>1. [BothNext]_<<vars, nestedVars>> => [Nested!Next]_(Nested!vars)
  BY DEF BothNext, Next, Visit, Carry, CarryOut, LeaveLoop, vars, nestedVars,
         Nested!vars
<1> QED
  BY <1>1, NestedImplementsCombinations, PTL
  DEF BothSpec, BothInit, NestedVisitsEachOnce

=============================================================================
