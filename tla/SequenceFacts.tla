------------------------------ MODULE SequenceFacts ------------------------------
(***************************************************************************)
(* Facts about the natural numbers, functions that are defined by          *)
(* recursion and the sequences they build, for the proofs of the modules   *)
(* that use them.  What is true of every number is stated of the set of    *)
(* the numbers it is true of.                                              *)
(***************************************************************************)
EXTENDS Integers, Sequences, SequencesExt, WellFoundedInduction, TLAPS

-----------------------------------------------------------------------------
(* Natural numbers *)

\* A set of natural numbers that is not empty has a least element.
LEMMA LeastNat ==
  ASSUME NEW T \in SUBSET Nat, T # {}
  PROVE  \E n \in T : \A m \in T : n <= m
<1> DEFINE R == OpToRel(<, Nat)
<1>1. \E n \in T : \A m \in T : ~(<<m, n>> \in R)
  <2>1. IsWellFoundedOn(R, Nat)
    BY NatLessThanWellFounded
  <2> HIDE DEF R
  <2> QED
    BY <2>1, WFMin
<1>2. \A m, n \in Nat : ~(<<m, n>> \in R) => n <= m
  BY DEF OpToRel
<1> HIDE DEF R
<1> QED
  BY <1>1, <1>2

\* Induction: a set with 0 and the successor of each of its numbers has all.
LEMMA Induction ==
  ASSUME NEW T, 0 \in T, \A n \in Nat : n \in T => n + 1 \in T
  PROVE  \A n \in Nat : n \in T
<1> SUFFICES ASSUME Nat \ T # {}
             PROVE  FALSE
  OBVIOUS
<1>1. PICK n \in Nat \ T : \A m \in Nat \ T : n <= m
  BY LeastNat
<1>2. n # 0 /\ n - 1 \in Nat
  BY <1>1
<1>3. n - 1 \in T
  BY <1>1, <1>2
<1> QED
  BY <1>1, <1>2, <1>3

\* The same up to a bound.
LEMMA InductionUpTo ==
  ASSUME NEW N \in Nat, NEW T, 0 \in T,
         \A n \in 0..(N - 1) : n \in T => n + 1 \in T
  PROVE  \A n \in 0..N : n \in T
<1> DEFINE U == {n \in Nat : n <= N => n \in T}
<1>1. 0 \in U
  OBVIOUS
<1>2. \A n \in Nat : n \in U => n + 1 \in U
  OBVIOUS
<1> HIDE DEF U
<1>3. \A n \in Nat : n \in U
  BY <1>1, <1>2, Induction
<1> QED
  BY <1>3 DEF U

\* A function that starts at base and goes on with a step for each number
Recursive(f, N, S, base, step) ==
  /\ f \in [0..N -> S]
  /\ f[0] = base
  /\ \A n \in 1..N : f[n] = step[n][f[n - 1]]

\* It exists, whatever the step is.
LEMMA RecursionExists ==
  ASSUME NEW N \in Nat, NEW S, NEW base \in S,
         NEW step \in [1..N -> [S -> S]]
  PROVE  \E f : Recursive(f, N, S, base, step)
<1> DEFINE Good(f, n) == /\ f \in [0..n -> S] /\ f[0] = base
                         /\ \A i \in 1..n : f[i] = step[i][f[i - 1]]
           T == {n \in Nat : \E f : Good(f, n)}
<1>1. 0 \in T
  <2>1. Good([i \in 0..0 |-> base], 0)
    OBVIOUS
  <2> QED
    BY <2>1
<1>2. \A n \in 0..(N - 1) : n \in T => n + 1 \in T
  <2> SUFFICES ASSUME NEW n \in 0..(N - 1), NEW f, Good(f, n)
               PROVE  \E g : Good(g, n + 1)
    OBVIOUS
  <2> DEFINE g == [i \in 0..(n + 1) |-> IF i <= n THEN f[i] ELSE step[i][f[n]]]
  <2>1. step[n + 1][f[n]] \in S
    <3>1. n + 1 \in 1..N /\ f[n] \in S
      OBVIOUS
    <3> QED
      BY <3>1
  <2>2. /\ \A i \in 0..n : g[i] = f[i]
        /\ g[n + 1] = step[n + 1][f[n]]
    OBVIOUS
  <2>3. g \in [0..(n + 1) -> S]
    <3>1. \A i \in 0..(n + 1) : g[i] \in S
      BY <2>1
    <3> QED
      BY <3>1
  <2> HIDE DEF g
  <2>4. \A i \in 1..(n + 1) : g[i] = step[i][g[i - 1]]
    <3> TAKE i \in 1..(n + 1)
    <3>1. CASE i \in 1..n
      BY <2>2, <3>1
    <3>2. CASE i = n + 1
      BY <2>2, <3>2
    <3> QED
      BY <3>1, <3>2
  <2>5. g[0] = base
    BY <2>2
  <2> QED
    BY <2>3, <2>4, <2>5
<1> HIDE DEF T
<1>3. \A n \in 0..N : n \in T
  BY <1>1, <1>2, InductionUpTo
<1>4. N \in T
  BY <1>3
<1> QED
  BY <1>4 DEF T, Recursive

-----------------------------------------------------------------------------
(* FlattenSeq *)

\* f[n] is the first n sequences appended to each other.
Appends(f, N, seqs) ==
  /\ f[1] = seqs[1]
  /\ \A n \in 2..N : f[n] = f[n - 1] \o seqs[n]

\* The equation FlattenSeq is defined by
Flattens(f, N, seqs) ==
  f = [n \in 1..N |-> IF n = 1 THEN seqs[n] ELSE f[n - 1] \o seqs[n]]

LEMMA FlattensAppends ==
  ASSUME NEW N \in Nat, N >= 1, NEW seqs, NEW f, Flattens(f, N, seqs)
  PROVE  Appends(f, N, seqs)
<1>1. \A n \in 1..N : f[n] = IF n = 1 THEN seqs[n] ELSE f[n - 1] \o seqs[n]
  BY DEF Flattens
<1>2. 1 \in 1..N /\ \A n \in 2..N : n \in 1..N /\ n # 1
  OBVIOUS
<1> QED
  BY <1>1, <1>2 DEF Appends

\* It has a solution.
LEMMA AppendsExist ==
  ASSUME NEW S, NEW seqs \in Seq(Seq(S)), seqs # <<>>
  PROVE  \E f : /\ f \in [1..Len(seqs) -> Seq(S)]
               /\ Appends(f, Len(seqs), seqs)
               /\ Flattens(f, Len(seqs), seqs)
<1> DEFINE N == Len(seqs)
           Texts == Seq(S)
           empty == <<>>
           step == [n \in 1..N |-> [x \in Texts |-> x \o seqs[n]]]
<1>1. N \in Nat /\ 1 \in 1..N
  OBVIOUS
<1>2. step \in [1..N -> [Texts -> Texts]]
  OBVIOUS
<1>3. empty \in Texts
  OBVIOUS
<1>4. \A n \in 1..N : \A x \in Texts : step[n][x] = x \o seqs[n]
  OBVIOUS
<1>5. \A n \in 1..N : seqs[n] \in Seq(S)
  OBVIOUS
<1> HIDE DEF step, empty, Texts, N
<1>6. \E f : Recursive(f, N, Texts, empty, step)
  BY <1>1, <1>2, <1>3, RecursionExists
<1>7. PICK f \in [0..N -> Texts] :
        f[0] = empty /\ \A n \in 1..N : f[n] = step[n][f[n - 1]]
  BY <1>6 DEF Recursive
<1>8. \A n \in 1..N : f[n] = f[n - 1] \o seqs[n]
  <2> TAKE n \in 1..N
  <2>1. n - 1 \in 0..N
    BY <1>1
  <2>2. f[n - 1] \in Texts
    BY <2>1, <1>7
  <2> QED
    BY <2>2, <1>4, <1>7
<1>9. f[1] = seqs[1]
  <2>1. f[1] = f[1 - 1] \o seqs[1] /\ seqs[1] \in Seq(S)
    BY <1>1, <1>5, <1>8
  <2>2. f[1 - 1] = <<>>
    BY <1>7 DEF empty
  <2> QED
    BY <2>1, <2>2
<1> DEFINE g == [n \in 1..N |-> f[n]]
<1>10. g \in [1..N -> Texts] /\ g[1] = seqs[1]
  BY <1>1, <1>7, <1>9
<1>11. \A i \in 2..N : g[i] = g[i - 1] \o seqs[i]
  <2> TAKE i \in 2..N
  <2>1. i \in 1..N /\ i - 1 \in 1..N
    BY <1>1
  <2>2. g[i] = f[i] /\ g[i - 1] = f[i - 1]
    BY <2>1
  <2> QED
    BY <2>1, <2>2, <1>8
<1> HIDE DEF g
<1>12. Appends(g, N, seqs)
  BY <1>10, <1>11 DEF Appends
<1>13. Flattens(g, N, seqs)
  <2>1. \A n \in 1..N :
          g[n] = IF n = 1 THEN seqs[n] ELSE g[n - 1] \o seqs[n]
    <3> TAKE n \in 1..N
    <3>1. CASE n = 1
      BY <3>1, <1>10
    <3>2. CASE n # 1
      <4>1. n \in 2..N
        BY <3>2, <1>1
      <4> QED
        BY <4>1, <3>2, <1>11
    <3> QED
      BY <3>1, <3>2
  <2>2. g = [n \in 1..N |-> g[n]]
    BY <1>10
  <2> QED
    BY <2>1, <2>2 DEF Flattens
<1> QED
  BY <1>10, <1>12, <1>13 DEF N, Texts

\* Two functions that append the same sequences are the same.
LEMMA AppendsAgree ==
  ASSUME NEW N \in Nat, NEW seqs, NEW f, NEW g,
         Appends(f, N, seqs), Appends(g, N, seqs)
  PROVE  \A n \in 1..N : f[n] = g[n]
<1> DEFINE T == {n \in 0..N : n >= 1 => f[n] = g[n]}
<1>1. 0 \in T
  OBVIOUS
<1>2. \A n \in 0..(N - 1) : n \in T => n + 1 \in T
  <2> SUFFICES ASSUME NEW n \in 0..(N - 1), n \in T
               PROVE  f[n + 1] = g[n + 1]
    OBVIOUS
  <2>1. CASE n = 0
    BY <2>1 DEF Appends
  <2>2. CASE n # 0
    <3>1. n + 1 \in 2..N /\ (n + 1) - 1 = n
      BY <2>2
    <3>2. f[n] = g[n]
      BY <2>2
    <3> QED
      BY <3>1, <3>2 DEF Appends
  <2> QED
    BY <2>1, <2>2
<1> HIDE DEF T
<1>3. \A n \in 0..N : n \in T
  BY <1>1, <1>2, InductionUpTo
<1> QED
  BY <1>3 DEF T

\* FlattenSeq appends them all.
LEMMA FlattenAppends ==
  ASSUME NEW S, NEW seqs \in Seq(Seq(S)), seqs # <<>>
  PROVE  \E f : /\ f \in [1..Len(seqs) -> Seq(S)]
               /\ Appends(f, Len(seqs), seqs)
               /\ FlattenSeq(seqs) = f[Len(seqs)]
<1> DEFINE N == Len(seqs)
           flatten == CHOOSE f : Flattens(f, N, seqs)
<1>1. N \in Nat /\ N >= 1 /\ N # 0
  OBVIOUS
<1>2. FlattenSeq(seqs) = flatten[N]
  BY <1>1, Zenon DEF FlattenSeq, Flattens
<1>3. PICK f : f \in [1..N -> Seq(S)] /\ Appends(f, N, seqs)
               /\ Flattens(f, N, seqs)
  BY AppendsExist
<1> HIDE DEF N
<1>4. Flattens(flatten, N, seqs)
  BY <1>3, Zenon
<1> HIDE DEF flatten
<1>5. Appends(flatten, N, seqs)
  BY <1>1, <1>4, FlattensAppends
<1>6. flatten[N] = f[N]
  BY <1>1, <1>3, <1>5, AppendsAgree
<1> QED
  BY <1>2, <1>3, <1>6 DEF N

\* There is nothing in no sequences.
LEMMA FlattenEmpty ==
  FlattenSeq(<<>>) = <<>>
<1>1. Len(<<>>) = 0
  OBVIOUS
<1> QED
  BY <1>1 DEF FlattenSeq

\* What the sequences have elements of is what they have elements of together.
LEMMA FlattenType ==
  ASSUME NEW S, NEW seqs \in Seq(Seq(S))
  PROVE  FlattenSeq(seqs) \in Seq(S)
<1>1. CASE seqs = <<>>
  <2>1. <<>> \in Seq(S)
    OBVIOUS
  <2> QED
    BY <1>1, <2>1, FlattenEmpty, Zenon
<1>2. CASE seqs # <<>>
  <2>1. PICK f : f \in [1..Len(seqs) -> Seq(S)] /\ FlattenSeq(seqs) = f[Len(seqs)]
    BY <1>2, FlattenAppends
  <2>2. Len(seqs) \in 1..Len(seqs)
    BY <1>2
  <2> QED
    BY <2>1, <2>2
<1> QED
  BY <1>1, <1>2

\* One more sequence comes after the others.
LEMMA FlattenAppend ==
  ASSUME NEW S, NEW seqs \in Seq(Seq(S)), NEW s \in Seq(S)
  PROVE  FlattenSeq(Append(seqs, s)) = FlattenSeq(seqs) \o s
<1> DEFINE longer == Append(seqs, s)
           N == Len(seqs)
           Texts == Seq(S)
<1>1. longer \in Seq(Seq(S)) /\ longer # <<>>
  <2>1. seqs \in Seq(Texts) /\ s \in Texts
    OBVIOUS
  <2> HIDE DEF Texts
  <2>2. Append(seqs, s) \in Seq(Texts) /\ Append(seqs, s) # <<>>
    BY <2>1
  <2> QED
    BY <2>2 DEF Texts
<1>2. N \in Nat /\ Len(longer) = N + 1
  OBVIOUS
<1>3. longer[N + 1] = s /\ \A n \in 1..N : longer[n] = seqs[n]
  OBVIOUS
<1> HIDE DEF longer
<1>4. PICK g : Appends(g, N + 1, longer) /\ FlattenSeq(longer) = g[N + 1]
  BY <1>1, <1>2, FlattenAppends
<1>5. CASE seqs = <<>>
  <2>1. N = 0
    BY <1>5
  <2>2. FlattenSeq(longer) = s
    BY <1>3, <1>4, <2>1 DEF Appends
  <2>3. FlattenSeq(seqs) = <<>>
    BY <1>5, FlattenEmpty
  <2> QED
    BY <2>2, <2>3 DEF longer
<1>6. CASE seqs # <<>>
  <2>1. PICK f : Appends(f, N, seqs) /\ FlattenSeq(seqs) = f[N]
    BY <1>6, FlattenAppends
  <2>2. N >= 1
    BY <1>6
  <2> HIDE DEF N
  <2>3. 1 \in 1..N /\ \A n \in 2..N : n \in 1..N /\ n \in 2..(N + 1)
    BY <1>2, <2>2
  <2>4. Appends(g, N, seqs)
    BY <1>3, <1>4, <2>3 DEF Appends
  <2>5. f[N] = g[N]
    BY <1>2, <2>1, <2>2, <2>4, AppendsAgree
  <2>6. N + 1 \in 2..(N + 1) /\ (N + 1) - 1 = N
    BY <1>2, <2>2
  <2>7. g[N + 1] = g[N] \o s
    BY <1>3, <1>4, <2>6 DEF Appends
  <2> QED
    BY <1>4, <2>1, <2>5, <2>7 DEF longer
<1> QED
  BY <1>5, <1>6

\* What a function makes of the elements of a list, appended
FlatMap(f, list) == FlattenSeq([i \in DOMAIN list |-> f[list[i]]])

ListsOf(f, C, R) == f \in [C -> Seq(R)]

LEMMA FlatMapType ==
  ASSUME NEW C, NEW R, NEW f, ListsOf(f, C, R), NEW list \in Seq(C)
  PROVE  FlatMap(f, list) \in Seq(R)
<1> DEFINE Texts == Seq(R)
           each == [i \in DOMAIN list |-> f[list[i]]]
<1>1. each \in Seq(Texts)
  <2>1. f \in [C -> Texts]
    BY DEF ListsOf
  <2> HIDE DEF Texts
  <2> QED
    BY <2>1
<1> HIDE DEF each
<1>2. FlattenSeq(each) \in Seq(R)
  BY <1>1, FlattenType
<1> QED
  BY <1>2 DEF FlatMap, each

\* A text is two others appended.
Joins(text, first, second) == text = first \o second

LEMMA FlatMapAppend ==
  ASSUME NEW C, NEW R, NEW f, ListsOf(f, C, R),
         NEW list \in Seq(C), NEW c \in C
  PROVE  Joins(FlatMap(f, Append(list, c)), FlatMap(f, list), f[c])
<1> DEFINE Texts == Seq(R)
           each == [i \in DOMAIN list |-> f[list[i]]]
           more == [i \in DOMAIN Append(list, c) |-> f[Append(list, c)[i]]]
<1>1. each \in Seq(Texts) /\ f[c] \in Texts
  <2>1. f \in [C -> Texts]
    BY DEF ListsOf
  <2> HIDE DEF Texts
  <2> QED
    BY <2>1
<1>2. more = Append(each, f[c])
  OBVIOUS
<1> HIDE DEF each, more
<1>3. FlattenSeq(Append(each, f[c])) = FlattenSeq(each) \o f[c]
  BY <1>1, FlattenAppend
<1> QED
  BY <1>2, <1>3 DEF FlatMap, Joins, each, more

LEMMA FlatMapEmpty ==
  ASSUME NEW f
  PROVE  FlatMap(f, <<>>) = <<>>
<1>1. [i \in DOMAIN <<>> |-> f[<<>>[i]]] = <<>>
  OBVIOUS
<1> QED
  BY <1>1, FlattenEmpty DEF FlatMap

-----------------------------------------------------------------------------
(* Lists, of whatever is in them *)

LEMMA ListOfMore ==
  ASSUME NEW S, NEW T, S \subseteq T, NEW list \in Seq(S)
  PROVE  list \in Seq(T)
OBVIOUS

LEMMA ListOf ==
  ASSUME NEW S, NEW list \in Seq(S)
  PROVE  list \in Seq(Range(list))
BY DEF Range

LEMMA ListAppended ==
  ASSUME NEW list, list \in Seq(Range(list)), NEW last
  PROVE  /\ Append(list, last) \in Seq(Range(Append(list, last)))
         /\ \A i \in DOMAIN Append(list, last) :
              \/ i \in DOMAIN list /\ Append(list, last)[i] = list[i]
              \/ Append(list, last)[i] = last
<1> DEFINE S == Range(list) \cup {last}
<1>1. Append(list, last) \in Seq(S)
  <2>1. list \in Seq(S)
    BY DEF Range
  <2> HIDE DEF S
  <2>2. last \in S
    BY DEF S
  <2> QED
    BY <2>1, <2>2
<1> HIDE DEF S
<1>2. \A i \in DOMAIN Append(list, last) :
        \/ i \in DOMAIN list /\ Append(list, last)[i] = list[i]
        \/ Append(list, last)[i] = last
  OBVIOUS
<1> QED
  BY <1>1, <1>2, ListOf

LEMMA ListsJoined ==
  ASSUME NEW a, NEW b, a \in Seq(Range(a)), b \in Seq(Range(b))
  PROVE  /\ a \o b \in Seq(Range(a \o b))
         /\ \A i \in DOMAIN (a \o b) :
              \/ i \in DOMAIN a /\ (a \o b)[i] = a[i]
              \/ \E j \in DOMAIN b : (a \o b)[i] = b[j]
<1> DEFINE S == Range(a) \cup Range(b)
<1>1. a \in Seq(S) /\ b \in Seq(S)
  BY DEF Range
<1> HIDE DEF S
<1>2. a \o b \in Seq(S)
  BY <1>1
<1>3. ASSUME NEW i \in DOMAIN (a \o b)
      PROVE  \/ i \in DOMAIN a /\ (a \o b)[i] = a[i]
             \/ \E j \in DOMAIN b : (a \o b)[i] = b[j]
  <2>1. CASE i <= Len(a)
    BY <1>1, <2>1
  <2>2. CASE i > Len(a)
    <3>1. i - Len(a) \in DOMAIN b /\ (a \o b)[i] = b[i - Len(a)]
      BY <1>1, <2>2
    <3> QED
      BY <3>1
  <2> QED
    BY <1>1, <2>1, <2>2
<1> QED
  BY <1>2, <1>3, ListOf

LEMMA ListsTail ==
  ASSUME NEW list, list \in Seq(Range(list)), list # <<>>
  PROVE  /\ Tail(list) \in Seq(Range(Tail(list)))
         /\ \A i \in DOMAIN Tail(list) :
              i + 1 \in DOMAIN list /\ Tail(list)[i] = list[i + 1]
         /\ 1 \in DOMAIN list /\ Head(list) = list[1]
<1>1. Tail(list) \in Seq(Range(list))
  OBVIOUS
<1>2. \A i \in DOMAIN Tail(list) :
        i + 1 \in DOMAIN list /\ Tail(list)[i] = list[i + 1]
  OBVIOUS
<1>3. 1 \in DOMAIN list /\ Head(list) = list[1]
  OBVIOUS
<1> QED
  BY <1>1, <1>2, <1>3, ListOf

\* FlattenSeq makes a list of lists a list, of the elements of those.
LEMMA FlattenLists ==
  ASSUME NEW seqs, seqs \in Seq(Range(seqs)),
         \A j \in DOMAIN seqs : seqs[j] \in Seq(Range(seqs[j]))
  PROVE  /\ FlattenSeq(seqs) \in Seq(Range(FlattenSeq(seqs)))
         /\ \A i \in DOMAIN FlattenSeq(seqs) : \E j \in DOMAIN seqs :
              \E k \in DOMAIN seqs[j] : FlattenSeq(seqs)[i] = seqs[j][k]
<1> DEFINE U == UNION {Range(seqs[j]) : j \in DOMAIN seqs}
           Texts == Seq(U)
<1>1. \A j \in DOMAIN seqs : seqs[j] \in Texts
  <2> TAKE j \in DOMAIN seqs
  <2>1. Range(seqs[j]) \subseteq U
    OBVIOUS
  <2> HIDE DEF U
  <2>2. seqs[j] \in Seq(Range(seqs[j]))
    OBVIOUS
  <2> QED
    BY <2>1, <2>2, ListOfMore
<1>2. seqs \in Seq(Texts)
  <2> HIDE DEF Texts
  <2> QED
    BY <1>1
<1> HIDE DEF U
<1>3. FlattenSeq(seqs) \in Seq(U)
  BY <1>2, FlattenType
<1>4. \A i \in DOMAIN FlattenSeq(seqs) : FlattenSeq(seqs)[i] \in U
  BY <1>3
<1> QED
  BY <1>3, <1>4, ListOf DEF U, Range

LEMMA BothHeld ==
  ASSUME NEW S, NEW a \in Seq(S), NEW b \in Seq(S), NEW both, Joins(both, a, b)
  PROVE  Range(a) \subseteq Range(both) /\ Range(b) \subseteq Range(both)
<1>1. \A i \in DOMAIN a : i \in DOMAIN (a \o b) /\ (a \o b)[i] = a[i]
  OBVIOUS
<1>2. \A i \in DOMAIN b :
        i + Len(a) \in DOMAIN (a \o b) /\ (a \o b)[i + Len(a)] = b[i]
  OBVIOUS
<1> QED
  BY <1>1, <1>2 DEF Range, Joins

\* And it leaves none of them out.
LEMMA FlattenHolds ==
  ASSUME NEW seqs, seqs \in Seq(Range(seqs)),
         \A j \in DOMAIN seqs : seqs[j] \in Seq(Range(seqs[j]))
  PROVE  \A j \in DOMAIN seqs : Range(seqs[j]) \subseteq Range(FlattenSeq(seqs))
<1> DEFINE U == UNION {Range(seqs[j]) : j \in DOMAIN seqs}
           Texts == Seq(U)
           N == Len(seqs)
<1> SUFFICES ASSUME seqs # <<>>
             PROVE  \A j \in DOMAIN seqs : Range(seqs[j]) \subseteq Range(FlattenSeq(seqs))
  OBVIOUS
<1>1. \A j \in DOMAIN seqs : seqs[j] \in Texts
  <2> TAKE j \in DOMAIN seqs
  <2>1. Range(seqs[j]) \subseteq U
    OBVIOUS
  <2> HIDE DEF U
  <2>2. seqs[j] \in Seq(Range(seqs[j]))
    OBVIOUS
  <2> QED
    BY <2>1, <2>2, ListOfMore
<1>2. seqs \in Seq(Texts)
  <2> HIDE DEF Texts
  <2> QED
    BY <1>1
<1> HIDE DEF U
<1>3. PICK f : /\ f \in [1..N -> Seq(U)] /\ Appends(f, N, seqs)
               /\ FlattenSeq(seqs) = f[N]
  BY <1>2, FlattenAppends
<1>4. N \in Nat /\ N >= 1 /\ DOMAIN seqs = 1..N
  OBVIOUS
<1>5. \A n \in 1..N : f[n] \in Seq(U) /\ seqs[n] \in Seq(U)
  <2> HIDE DEF N
  <2> QED
    BY <1>1, <1>3, <1>4
<1> HIDE DEF N, Texts
<1> DEFINE T == {n \in 0..N : \A j \in 1..n : Range(seqs[j]) \subseteq Range(f[n])}
<1>6. 0 \in T
  BY <1>4
<1>7. \A n \in 0..(N - 1) : n \in T => n + 1 \in T
  <2>0. \A n \in 0..(N - 1) : n + 1 \in 0..N
    BY <1>4
  <2> SUFFICES ASSUME NEW n \in 0..(N - 1), n \in T
               PROVE  \A j \in 1..(n + 1) : Range(seqs[j]) \subseteq Range(f[n + 1])
    BY <2>0
  <2>1. CASE n = 0
    <3>1. n + 1 = 1 /\ \A j \in 1..1 : j = 1
      BY <2>1
    <3>2. f[1] = seqs[1]
      BY <1>3 DEF Appends
    <3> QED
      BY <3>1, <3>2
  <2>2. CASE n # 0
    <3>1. n \in 1..N /\ n + 1 \in 1..N /\ n + 1 \in 2..N /\ (n + 1) - 1 = n
      BY <1>4, <2>2
    <3>2. Joins(f[n + 1], f[n], seqs[n + 1])
      BY <1>3, <3>1 DEF Appends, Joins
    <3>3. /\ Range(f[n]) \subseteq Range(f[n + 1])
          /\ Range(seqs[n + 1]) \subseteq Range(f[n + 1])
      BY <1>5, <3>1, <3>2, BothHeld
    <3>4. \A j \in 1..(n + 1) : j \in 1..n \/ j = n + 1
      BY <3>1
    <3> QED
      BY <3>3, <3>4
  <2> QED
    BY <2>1, <2>2
<1> HIDE DEF T
<1>8. \A n \in 0..N : n \in T
  BY <1>4, <1>6, <1>7, InductionUpTo
<1>9. N \in 0..N /\ N \in T
  BY <1>4, <1>8
<1> QED
  BY <1>3, <1>4, <1>9 DEF T

=============================================================================
