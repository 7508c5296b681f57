-------------------------- MODULE OwnedStrings_proofs --------------------------
(***************************************************************************)
(* Proofs about OwnedStrings, for any number of objects, strings and       *)
(* addresses: no string is lost, freed twice or shared, every vector ends  *)
(* with its null pointer, and the objects are the lists of StringLists.    *)
(***************************************************************************)
EXTENDS OwnedStrings, TLAPS

-----------------------------------------------------------------------------
(* The invariant, for a function p of vectors and a heap h.                *)

\* Positions that hold a string, all but the one of the null pointer.
Used(vector) == 1..(Len(vector) - 1)

TypeOf(p, h) ==
  /\ p \in [Objects -> Seq(Addresses \cup {Null})]
  /\ DOMAIN h \subseteq Addresses
  /\ h \in [DOMAIN h -> Strings]

\* A vector is empty, or a list of allocated strings and a null pointer.
Terminated(p, h) ==
  \A o \in Objects :
    p[o] # <<>> => /\ p[o][Len(p[o])] = Null
                   /\ \A i \in Used(p[o]) : p[o][i] \in DOMAIN h

OneOwner(p) ==
  \A o, q \in Objects : \A i \in Used(p[o]), j \in Used(p[q]) :
    p[o][i] = p[q][j] => o = q /\ i = j

AllOwned(p, h) ==
  \A address \in DOMAIN h :
    \E o \in Objects : \E i \in Used(p[o]) : p[o][i] = address

\* The number of strings of a vector is one a size_t can have.
Countable(p) == \A o \in Objects : Len(p[o]) - 1 < SizeRange

Consistent(p, h) ==
  TypeOf(p, h) /\ Terminated(p, h) /\ OneOwner(p) /\ AllOwned(p, h)
  /\ Countable(p)

\* A place without an object has no vector: what the destructor leaves.
Inv ==
  /\ alive \in SUBSET Objects
  /\ Consistent(pointers, heap)
  /\ \A o \in Objects \ alive : pointers[o] = <<>>

\* What a vector means on a heap.
StringsIn(vector, h) == [i \in 1..Count(vector) |-> h[vector[i]]]

-----------------------------------------------------------------------------
(* Vectors *)

\* An empty vector has no strings.
LEMMA CountEmpty == Count(<<>>) = 0
BY DEF Count

\* The strings of a vector are those before its null pointer.
LEMMA CountTerminated ==
  ASSUME HeapAssumption, NEW v \in Seq(Addresses \cup {Null}), v # <<>>,
         v[Len(v)] = Null, \A i \in Used(v) : v[i] \in Addresses
  PROVE  Count(v) = Len(v) - 1
<1>1. Len(v) \in Nat \ {0}
  OBVIOUS
<1> DEFINE Before(n) == /\ \A i \in 1..n : v[i] # Null
                        /\ n = Len(v) \/ v[n + 1] = Null
<1>2. Len(v) - 1 \in 0..Len(v) /\ Before(Len(v) - 1)
  BY <1>1 DEF Used, HeapAssumption
<1>3. \A n \in 0..Len(v) : Before(n) => n = Len(v) - 1
  <2> SUFFICES ASSUME NEW n \in 0..Len(v), Before(n), n # Len(v) - 1
               PROVE  FALSE
    OBVIOUS
  <2>1. CASE n = Len(v)
    BY <1>1, <2>1
  <2>2. CASE n < Len(v) - 1
    <3>1. n + 1 \in Used(v) /\ n # Len(v)
      BY <1>1, <2>2 DEF Used
    <3> QED
      BY <3>1 DEF HeapAssumption
  <2> QED
    BY <1>1, <2>1, <2>2
<1> HIDE DEF Before
<1>4. Count(v) = CHOOSE n \in 0..Len(v) : Before(n)
  BY DEF Count, Before
<1> QED
  BY <1>2, <1>3, <1>4

\* In a consistent state every vector is counted to its null pointer.
LEMMA CountConsistent ==
  ASSUME HeapAssumption, NEW p, NEW h, Consistent(p, h), NEW o \in Objects
  PROVE  /\ p[o] \in Seq(Addresses \cup {Null})
         /\ Len(p[o]) \in Nat
         /\ p[o] = <<>> => Count(p[o]) = 0
         /\ p[o] # <<>> => Count(p[o]) = Len(p[o]) - 1
         /\ 1..Count(p[o]) = Used(p[o])
         /\ \A i \in Used(p[o]) : p[o][i] \in DOMAIN h
<1>1. p[o] \in Seq(Addresses \cup {Null})
  BY DEF Consistent, TypeOf
<1>2. Len(p[o]) \in Nat /\ (p[o] = <<>> => Len(p[o]) = 0)
      /\ (p[o] # <<>> => Len(p[o]) # 0)
  BY <1>1
<1>3. CASE p[o] = <<>>
  BY <1>1, <1>2, <1>3, CountEmpty DEF Used
<1>4. CASE p[o] # <<>>
  <2>1. p[o][Len(p[o])] = Null /\ \A i \in Used(p[o]) : p[o][i] \in DOMAIN h
    BY <1>4 DEF Consistent, Terminated
  <2>2. \A i \in Used(p[o]) : p[o][i] \in Addresses
    BY <2>1 DEF Consistent, TypeOf
  <2>3. Count(p[o]) = Len(p[o]) - 1
    BY <1>1, <1>4, <2>1, <2>2, CountTerminated
  <2> QED
    BY <1>1, <1>2, <1>4, <2>1, <2>3 DEF Used
<1> QED
  BY <1>3, <1>4

-----------------------------------------------------------------------------
(* The three things that happen to vectors and the heap: p and h before,   *)
(* p1 and h1 after.                                                        *)

Freed(o, p, h, p1, h1) ==
  /\ p1 = [p EXCEPT ![o] = <<>>]
  /\ h1 = [address \in DOMAIN h \ {p[o][i] : i \in DOMAIN p[o]} |-> h[address]]

Written(o, new, strings, p, h, p1, h1) ==
  /\ p1 = [p EXCEPT ![o] = Append(new, Null)]
  /\ h1 = Write(new, strings, h)

Swapped(o, q, p, p1) == p1 = [p EXCEPT ![o] = p[q], ![q] = p[o]]

\* Freeing a vector and emptying it leaves everything else as it was.
LEMMA FreeVector ==
  ASSUME HeapAssumption, NEW p, NEW h, Consistent(p, h), NEW o \in Objects,
         NEW p1, NEW h1, Freed(o, p, h, p1, h1)
  PROVE  /\ Consistent(p1, h1)
         /\ p1[o] = <<>>
         /\ \A q \in Objects \ {o} :
              p1[q] = p[q] /\ StringsIn(p1[q], h1) = StringsIn(p[q], h)
<1>0. /\ p1 = [p EXCEPT ![o] = <<>>]
      /\ h1 = [address \in DOMAIN h \ {p[o][i] : i \in DOMAIN p[o]}
                 |-> h[address]]
  BY DEF Freed
<1>1. /\ p \in [Objects -> Seq(Addresses \cup {Null})]
      /\ DOMAIN h \subseteq Addresses /\ h \in [DOMAIN h -> Strings]
  BY DEF Consistent, TypeOf
<1>2. p1[o] = <<>> /\ \A q \in Objects \ {o} : p1[q] = p[q]
  BY <1>0, <1>1
<1>3. p1 \in [Objects -> Seq(Addresses \cup {Null})]
  BY <1>0, <1>1
<1>4. Used(p1[o]) = {} /\ \A q \in Objects : Used(p[q]) \subseteq DOMAIN p[q]
  BY <1>1, <1>2 DEF Used
<1>5. \A q \in Objects \ {o} : \A i \in Used(p[q]) :
        p[q][i] \in DOMAIN h1 /\ h1[p[q][i]] = h[p[q][i]]
  <2> TAKE q \in Objects \ {o}
  <2> TAKE i \in Used(p[q])
  <2>1. p[q][i] \in DOMAIN h
    BY CountConsistent
  <2>2. ASSUME NEW j \in DOMAIN p[o], p[o][j] = p[q][i]
        PROVE  FALSE
    <3>1. j \in Used(p[o]) \/ j = Len(p[o])
      BY <1>1 DEF Used
    <3>2. CASE j \in Used(p[o])
      BY <2>2, <3>2 DEF Consistent, OneOwner
    <3>3. CASE j = Len(p[o])
      <4>1. p[o] # <<>>
        BY <1>1
      <4>2. p[o][j] = Null
        BY <3>3, <4>1 DEF Consistent, Terminated
      <4> QED
        BY <1>1, <2>1, <2>2, <4>2 DEF HeapAssumption
    <3> QED
      BY <3>1, <3>2, <3>3
  <2> QED
    BY <1>0, <2>1, <2>2
<1>6. TypeOf(p1, h1)
  BY <1>0, <1>1, <1>3 DEF TypeOf
<1>7. Terminated(p1, h1)
  BY <1>2, <1>5 DEF Terminated, Consistent
<1>8. OneOwner(p1)
  BY <1>2, <1>4 DEF OneOwner, Consistent
<1>9. AllOwned(p1, h1)
  <2> SUFFICES ASSUME NEW address \in DOMAIN h1
               PROVE  \E q \in Objects : \E i \in Used(p1[q]) :
                        p1[q][i] = address
    BY DEF AllOwned
  <2>1. PICK q \in Objects : \E i \in Used(p[q]) : p[q][i] = address
    BY <1>0 DEF AllOwned, Consistent
  <2>2. q # o
    BY <1>0, <1>4, <2>1
  <2> QED
    BY <1>2, <2>1, <2>2
<1>10. Countable(p1)
  BY <1>1, <1>2 DEF Countable, Consistent, HeapAssumption
<1>11. Consistent(p1, h1)
  BY <1>6, <1>7, <1>8, <1>9, <1>10 DEF Consistent
<1>12. \A q \in Objects \ {o} : StringsIn(p1[q], h1) = StringsIn(p[q], h)
  BY <1>2, <1>5, CountConsistent DEF StringsIn
<1> QED
  BY <1>2, <1>11, <1>12

\* Writing strings to new addresses gives an empty vector these strings.
LEMMA WriteVector ==
  ASSUME HeapAssumption, NEW p, NEW h, Consistent(p, h), NEW o \in Objects,
         p[o] = <<>>, NEW strings \in Seq(Strings), Len(strings) < SizeRange,
         NEW new \in Fresh(Len(strings), DOMAIN h),
         NEW p1, NEW h1, Written(o, new, strings, p, h, p1, h1)
  PROVE  /\ Consistent(p1, h1)
         /\ p1[o] # <<>>
         /\ StringsIn(p1[o], h1) = strings
         /\ \A q \in Objects \ {o} :
              p1[q] = p[q] /\ StringsIn(p1[q], h1) = StringsIn(p[q], h)
<1>0. p1 = [p EXCEPT ![o] = Append(new, Null)] /\ h1 = Write(new, strings, h)
  BY DEF Written
<1>1. /\ p \in [Objects -> Seq(Addresses \cup {Null})]
      /\ DOMAIN h \subseteq Addresses /\ h \in [DOMAIN h -> Strings]
  BY DEF Consistent, TypeOf
<1>2. /\ Len(strings) \in Nat
      /\ new \in [1..Len(strings) -> Addresses \ DOMAIN h]
      /\ \A i, j \in 1..Len(strings) : new[i] = new[j] => i = j
  BY DEF Fresh
<1> DEFINE v == Append(new, Null)
<1>3. /\ new \in Seq(Addresses \cup {Null}) /\ Len(new) = Len(strings)
      /\ DOMAIN new = 1..Len(strings)
  BY <1>2
<1>4. /\ v \in Seq(Addresses \cup {Null}) /\ Len(v) = Len(strings) + 1
      /\ v # <<>> /\ v[Len(v)] = Null
      /\ Used(v) = 1..Len(strings)
      /\ \A i \in Used(v) : v[i] = new[i]
  BY <1>2, <1>3 DEF Used
<1> HIDE DEF v
<1>5. p1[o] = v /\ \A q \in Objects \ {o} : p1[q] = p[q]
  BY <1>0, <1>1 DEF v
<1>6. /\ DOMAIN h1 = DOMAIN h \cup {new[i] : i \in 1..Len(strings)}
      /\ \A i \in 1..Len(strings) : h1[new[i]] = strings[i]
      /\ \A address \in DOMAIN h : h1[address] = h[address]
  <2>1. \A i \in 1..Len(strings) :
          (CHOOSE j \in 1..Len(strings) : new[j] = new[i]) = i
    BY <1>2
  <2> QED
    BY <1>0, <1>2, <1>3, <2>1 DEF Write
<1>7. h1 \in [DOMAIN h1 -> Strings] /\ DOMAIN h1 \subseteq Addresses
  <2>1. h1 = [address \in DOMAIN h1 |-> h1[address]]
    BY <1>0 DEF Write
  <2>2. \A i \in 1..Len(strings) : strings[i] \in Strings
    OBVIOUS
  <2>3. ASSUME NEW address \in DOMAIN h1
        PROVE  h1[address] \in Strings /\ address \in Addresses
    <3>1. CASE address \in DOMAIN h
      BY <1>1, <1>6, <3>1
    <3>2. CASE address \notin DOMAIN h
      <4>1. PICK i \in 1..Len(strings) : address = new[i]
        BY <1>6, <3>2
      <4> QED
        BY <1>2, <1>6, <2>2, <4>1
    <3> QED
      BY <3>1, <3>2
  <2>4. \A address \in DOMAIN h1 : h1[address] \in Strings
    BY <2>3
  <2>5. h1 \in [DOMAIN h1 -> Strings]
    BY <2>1, <2>4
  <2> QED
    BY <2>3, <2>5
<1>8. TypeOf(p1, h1)
  BY <1>0, <1>1, <1>4, <1>5, <1>7 DEF TypeOf, v
<1>9. \A i \in Used(p1[o]) :
        i \in 1..Len(strings) /\ p1[o][i] = new[i] /\ p1[o][i] \notin DOMAIN h
  BY <1>2, <1>4, <1>5
<1>10. \A q \in Objects \ {o} : \A i \in Used(p1[q]) :
         i \in Used(p[q]) /\ p1[q][i] = p[q][i] /\ p1[q][i] \in DOMAIN h
  BY <1>5, CountConsistent
<1>11. Terminated(p1, h1)
  <2> SUFFICES ASSUME NEW q \in Objects, p1[q] # <<>>
               PROVE  /\ p1[q][Len(p1[q])] = Null
                      /\ \A i \in Used(p1[q]) : p1[q][i] \in DOMAIN h1
    BY DEF Terminated
  <2>1. CASE q = o
    BY <1>4, <1>5, <1>6, <1>9, <2>1
  <2>2. CASE q # o
    <3>1. p1[q] = p[q] /\ p[q][Len(p[q])] = Null
      BY <1>5, <2>2 DEF Terminated, Consistent
    <3> QED
      BY <1>6, <1>10, <2>2, <3>1
  <2> QED
    BY <2>1, <2>2
<1>12. OneOwner(p1)
  <2> SUFFICES ASSUME NEW a \in Objects, NEW b \in Objects,
                      NEW i \in Used(p1[a]), NEW j \in Used(p1[b]),
                      p1[a][i] = p1[b][j]
               PROVE  a = b /\ i = j
    BY DEF OneOwner
  <2>1. CASE a = o /\ b = o
    BY <1>2, <1>9, <2>1
  <2>2. CASE a = o /\ b # o
    <3>1. p1[a][i] \notin DOMAIN h
      BY <1>9, <2>2
    <3>2. p1[b][j] \in DOMAIN h
      BY <1>10, <2>2
    <3> QED
      BY <3>1, <3>2
  <2>3. CASE a # o /\ b = o
    <3>1. p1[a][i] \in DOMAIN h
      BY <1>10, <2>3
    <3>2. p1[b][j] \notin DOMAIN h
      BY <1>9, <2>3
    <3> QED
      BY <3>1, <3>2
  <2>4. CASE a # o /\ b # o
    <3>1. i \in Used(p[a]) /\ j \in Used(p[b]) /\ p[a][i] = p[b][j]
      BY <1>10, <2>4
    <3> QED
      BY <3>1 DEF OneOwner, Consistent
  <2> QED
    BY <2>1, <2>2, <2>3, <2>4
<1>13. AllOwned(p1, h1)
  <2> SUFFICES ASSUME NEW address \in DOMAIN h1
               PROVE  \E q \in Objects : \E i \in Used(p1[q]) :
                        p1[q][i] = address
    BY DEF AllOwned
  <2>1. CASE address \in DOMAIN h
    <3>1. PICK q \in Objects : \E i \in Used(p[q]) : p[q][i] = address
      BY <2>1 DEF AllOwned, Consistent
    <3>2. q # o
      BY <3>1 DEF Used
    <3> QED
      BY <1>5, <3>1, <3>2
  <2>2. CASE address \notin DOMAIN h
    <3>1. PICK i \in 1..Len(strings) : address = new[i]
      BY <1>6, <2>2
    <3> QED
      BY <1>4, <1>5, <3>1
  <2> QED
    BY <2>1, <2>2
<1>14. Countable(p1)
  <2>1. Len(p1[o]) - 1 < SizeRange
    BY <1>2, <1>4, <1>5 DEF HeapAssumption
  <2>2. \A q \in Objects \ {o} : Len(p1[q]) - 1 < SizeRange
    BY <1>5 DEF Countable, Consistent
  <2> QED
    BY <2>1, <2>2 DEF Countable
<1>15. Consistent(p1, h1)
  BY <1>8, <1>11, <1>12, <1>13, <1>14 DEF Consistent
<1>16. StringsIn(p1[o], h1) = strings
  <2>1. Count(p1[o]) = Len(strings)
    <3>1. p1[o] # <<>> /\ Len(p1[o]) - 1 = Len(strings)
      BY <1>2, <1>4, <1>5
    <3> QED
      BY <1>15, <3>1, CountConsistent
  <2>2. \A i \in 1..Len(strings) : h1[p1[o][i]] = strings[i]
    BY <1>4, <1>5, <1>6
  <2>3. StringsIn(p1[o], h1) = [i \in 1..Len(strings) |-> strings[i]]
    BY <2>1, <2>2 DEF StringsIn
  <2> QED
    BY <2>3
<1>17. \A q \in Objects \ {o} : StringsIn(p1[q], h1) = StringsIn(p[q], h)
  <2> TAKE q \in Objects \ {o}
  <2>1. p1[q] = p[q] /\ 1..Count(p[q]) = Used(p[q])
    BY <1>5, CountConsistent
  <2>2. \A i \in Used(p[q]) : h1[p[q][i]] = h[p[q][i]]
    BY <1>6, <1>10, <2>1
  <2> QED
    BY <2>1, <2>2 DEF StringsIn
<1> QED
  BY <1>4, <1>5, <1>15, <1>16, <1>17

\* Two vectors change places.
LEMMA SwapVectors ==
  ASSUME HeapAssumption, NEW p, NEW h, Consistent(p, h),
         NEW o \in Objects, NEW q \in Objects,
         NEW p1, Swapped(o, q, p, p1)
  PROVE  /\ Consistent(p1, h)
         /\ p1[o] = p[q] /\ p1[q] = p[o]
         /\ \A r \in Objects \ {o, q} : p1[r] = p[r]
<1>0. p1 = [p EXCEPT ![o] = p[q], ![q] = p[o]]
  BY DEF Swapped
<1>1. p \in [Objects -> Seq(Addresses \cup {Null})]
  BY DEF Consistent, TypeOf
<1> DEFINE Partner(r) == IF r = o THEN q ELSE IF r = q THEN o ELSE r
<1>2. \A r \in Objects : Partner(r) \in Objects /\ p1[r] = p[Partner(r)]
  BY <1>0, <1>1
<1>3. /\ \A r, s \in Objects : Partner(r) = Partner(s) => r = s
      /\ \A r \in Objects : Partner(Partner(r)) = r
  OBVIOUS
<1>4. p1[o] = p[q] /\ p1[q] = p[o] /\ \A r \in Objects \ {o, q} : p1[r] = p[r]
  BY <1>0, <1>1
<1> HIDE DEF Partner
<1>5. TypeOf(p1, h)
  BY <1>0, <1>1 DEF TypeOf, Consistent
<1>6. Terminated(p1, h)
  BY <1>2 DEF Terminated, Consistent
<1>7. OneOwner(p1)
  BY <1>2, <1>3 DEF OneOwner, Consistent
<1>8. AllOwned(p1, h)
  <2> SUFFICES ASSUME NEW address \in DOMAIN h
               PROVE  \E r \in Objects : \E i \in Used(p1[r]) :
                        p1[r][i] = address
    BY DEF AllOwned
  <2>1. PICK r \in Objects : \E i \in Used(p[r]) : p[r][i] = address
    BY DEF AllOwned, Consistent
  <2>2. Partner(r) \in Objects /\ p1[Partner(r)] = p[r]
    BY <1>2, <1>3
  <2> QED
    BY <2>1, <2>2
<1>9. Countable(p1)
  BY <1>2 DEF Countable, Consistent
<1> QED
  BY <1>4, <1>5, <1>6, <1>7, <1>8, <1>9 DEF Consistent

-----------------------------------------------------------------------------
(* What the objects are for StringLists.                                   *)

\* The content of an object is a list of strings, of a length that is counted.
LEMMA ContentIsList ==
  ASSUME HeapAssumption, Inv, NEW o \in Objects
  PROVE  /\ StringsOf(pointers[o]) = StringsIn(pointers[o], heap)
         /\ StringsOf(pointers[o]) \in Seq(Strings)
         /\ Len(StringsOf(pointers[o])) < SizeRange
         /\ Content(o) # Null <=> o \in alive
         /\ pointers[o] = <<>> => StringsOf(pointers[o]) = <<>>
<1>1. Consistent(pointers, heap)
  BY DEF Inv
<1>2. Count(pointers[o]) \in Nat /\ Count(pointers[o]) < SizeRange
      /\ (pointers[o] = <<>> => Count(pointers[o]) = 0)
  BY <1>1, CountConsistent DEF Consistent, Countable, HeapAssumption
<1>3. \A i \in 1..Count(pointers[o]) : heap[pointers[o][i]] \in Strings
  BY <1>1, CountConsistent DEF Consistent, TypeOf
<1>4. /\ StringsOf(pointers[o]) \in Seq(Strings)
      /\ Len(StringsOf(pointers[o])) = Count(pointers[o])
  BY <1>2, <1>3 DEF StringsOf
<1>5. pointers[o] = <<>> => StringsOf(pointers[o]) = <<>>
  BY <1>2, <1>4
<1> QED
  BY <1>2, <1>4, <1>5 DEF StringsOf, StringsIn, Content, HeapAssumption

\* The mapping of the refinement, seen from StringLists.
LEMMA MappedAlive ==
  ASSUME HeapAssumption, Inv, NEW o \in Objects
  PROVE  /\ Promise!Alive(o) <=> o \in alive
         /\ ListsNow[o] = Content(o)
<1>1. ListsNow[o] = Content(o)
  BY DEF ListsNow
<1> QED
  BY <1>1, ContentIsList DEF Promise!Alive

\* A call changes the content of one object.
LEMMA OneContent ==
  ASSUME NEW o \in Objects, NEW content, Content(o)' = content,
         \A q \in Objects \ {o} : Content(q)' = Content(q)
  PROVE  ListsNow' = [ListsNow EXCEPT ![o] = content]
BY DEF ListsNow

\* A call changes the content of two objects, or of one twice.
LEMMA TwoContents ==
  ASSUME NEW o \in Objects, NEW r \in Objects, NEW mine, NEW other,
         o # r => Content(o)' = mine, Content(r)' = other,
         \A q \in Objects \ {o, r} : Content(q)' = Content(q)
  PROVE  ListsNow' = [ListsNow EXCEPT ![o] = mine, ![r] = other]
BY DEF ListsNow

-----------------------------------------------------------------------------
(* Each operation keeps the invariant and does what StringLists promises.  *)

LEMMA ConstructStep ==
  ASSUME HeapAssumption, Inv, NEW o \in Objects, NEW list \in Lists,
         Construct(o, list)
  PROVE  Inv' /\ Promise!Make(o, list)
<1>1. /\ Consistent(pointers, heap) /\ o \notin alive /\ pointers[o] = <<>>
      /\ list \in Seq(Strings) /\ Len(list) < SizeRange
  BY DEF Inv, Construct, HeapAssumption
<1>2. PICK new \in Fresh(Len(list), DOMAIN heap) :
        Written(o, new, list, pointers, heap, pointers', heap')
  BY DEF Construct, Written
<1>3. /\ Consistent(pointers', heap')
      /\ StringsIn(pointers'[o], heap') = list
      /\ \A q \in Objects \ {o} :
           /\ pointers'[q] = pointers[q]
           /\ StringsIn(pointers'[q], heap') = StringsIn(pointers[q], heap)
  BY <1>1, <1>2, WriteVector
<1>4. alive' = alive \cup {o}
  BY DEF Construct
<1>5. Inv'
  BY <1>3, <1>4 DEF Inv
<1>6. Content(o)' = list
  BY <1>3, <1>4 DEF Content, StringsOf, StringsIn
<1>7. \A q \in Objects \ {o} : Content(q)' = Content(q)
  BY <1>3, <1>4 DEF Content, StringsOf, StringsIn
<1>8. ListsNow' = [ListsNow EXCEPT ![o] = list]
  BY <1>6, <1>7, OneContent
<1> QED
  BY <1>1, <1>5, <1>8, MappedAlive
  DEF Promise!Make, Construct

\* deepCopy from another object, for the copy constructor and assignment.
LEMMA DeepCopyStep ==
  ASSUME HeapAssumption, Inv, NEW o \in Objects, NEW r \in alive, r # o,
         DeepCopy(o, r)
  PROVE  /\ Consistent(pointers', heap')
         /\ StringsIn(pointers'[o], heap') = StringsOf(pointers[r])
         /\ \A q \in Objects \ {o} :
              /\ pointers'[q] = pointers[q]
              /\ StringsIn(pointers'[q], heap') = StringsIn(pointers[q], heap)
<1> DEFINE strings == StringsOf(pointers[r])
           memory == Free(pointers[o])
           p1 == [pointers EXCEPT ![o] = <<>>]
<1>1. /\ Consistent(pointers, heap)
      /\ strings \in Seq(Strings) /\ Len(strings) < SizeRange
  BY ContentIsList DEF Inv
<1>2. /\ Consistent(p1, memory)
      /\ p1[o] = <<>>
      /\ \A q \in Objects \ {o} :
           /\ p1[q] = pointers[q]
           /\ StringsIn(p1[q], memory) = StringsIn(pointers[q], heap)
  <2>1. Freed(o, pointers, heap, p1, memory)
    BY DEF Freed, Free
  <2> HIDE DEF p1, memory
  <2> QED
    BY <1>1, <2>1, FreeVector
<1>3. PICK new \in Fresh(Len(strings), DOMAIN memory) :
        /\ pointers' = [pointers EXCEPT ![o] = Append(new, Null)]
        /\ heap' = Write(new, strings, memory)
  BY DEF DeepCopy
<1>4. Written(o, new, strings, p1, memory, pointers', heap')
  BY <1>1, <1>3 DEF Consistent, TypeOf, Written
<1> HIDE DEF strings, memory, p1
<1>5. /\ Consistent(pointers', heap')
      /\ StringsIn(pointers'[o], heap') = strings
      /\ \A q \in Objects \ {o} :
           /\ pointers'[q] = p1[q]
           /\ StringsIn(pointers'[q], heap') = StringsIn(p1[q], memory)
  <2>1. /\ Consistent(p1, memory) /\ p1[o] = <<>>
        /\ strings \in Seq(Strings) /\ Len(strings) < SizeRange
        /\ new \in Fresh(Len(strings), DOMAIN memory)
    BY <1>1, <1>2, <1>3
  <2> QED
    BY <1>4, <2>1, WriteVector
<1> QED
  BY <1>2, <1>5 DEF strings

LEMMA CopyConstructStep ==
  ASSUME HeapAssumption, Inv, NEW o \in Objects, NEW r \in Objects,
         CopyConstruct(o, r)
  PROVE  Inv' /\ Promise!Copy(o, r)
<1>1. r \in alive /\ r # o /\ DeepCopy(o, r) /\ alive' = alive \cup {o}
  BY DEF CopyConstruct
<1>2. /\ Consistent(pointers', heap')
      /\ StringsIn(pointers'[o], heap') = StringsOf(pointers[r])
      /\ \A q \in Objects \ {o} :
           /\ pointers'[q] = pointers[q]
           /\ StringsIn(pointers'[q], heap') = StringsIn(pointers[q], heap)
  BY <1>1, DeepCopyStep
<1>3. Inv'
  BY <1>1, <1>2 DEF Inv
<1>4. Content(o)' = Content(r)
  BY <1>1, <1>2 DEF Content, StringsOf, StringsIn
<1>5. \A q \in Objects \ {o} : Content(q)' = Content(q)
  BY <1>1, <1>2 DEF Content, StringsOf, StringsIn
<1>6. ListsNow' = [ListsNow EXCEPT ![o] = Content(r)]
  BY <1>4, <1>5, OneContent
<1> QED
  BY <1>1, <1>3, <1>6, MappedAlive
  DEF Promise!Copy, CopyConstruct

LEMMA CopyAssignStep ==
  ASSUME HeapAssumption, Inv, NEW o \in Objects, NEW r \in Objects,
         CopyAssign(o, r)
  PROVE  Inv' /\ Promise!Copy(o, r)
<1>1. r \in alive /\ o \in alive /\ alive' = alive
  BY DEF CopyAssign
<1>2. CASE o = r
  <2>1. pointers' = pointers /\ heap' = heap
    BY <1>2 DEF CopyAssign
  <2>2. Inv'
    BY <1>1, <2>1 DEF Inv
  <2>3. \A q \in Objects : Content(q)' = Content(q)
    BY <1>1, <2>1 DEF Content, StringsOf
  <2>4. ListsNow' = [ListsNow EXCEPT ![o] = Content(r)]
    BY <1>2, <2>3, OneContent
  <2> QED
    BY <1>1, <2>2, <2>4, MappedAlive
    DEF Promise!Copy, CopyAssign
<1>3. CASE o # r
  <2>1. /\ Consistent(pointers', heap')
        /\ StringsIn(pointers'[o], heap') = StringsOf(pointers[r])
        /\ \A q \in Objects \ {o} :
             /\ pointers'[q] = pointers[q]
             /\ StringsIn(pointers'[q], heap') = StringsIn(pointers[q], heap)
    BY <1>1, <1>3, DeepCopyStep DEF CopyAssign
  <2>2. Inv'
    BY <1>1, <2>1 DEF Inv
  <2>3. Content(o)' = Content(r)
    BY <1>1, <2>1 DEF Content, StringsOf, StringsIn
  <2>4. \A q \in Objects \ {o} : Content(q)' = Content(q)
    BY <1>1, <2>1 DEF Content, StringsOf, StringsIn
  <2>5. ListsNow' = [ListsNow EXCEPT ![o] = Content(r)]
    BY <2>3, <2>4, OneContent
  <2> QED
    BY <1>1, <2>2, <2>5, MappedAlive
    DEF Promise!Copy, CopyAssign
<1> QED
  BY <1>2, <1>3

LEMMA MoveConstructStep ==
  ASSUME HeapAssumption, Inv, NEW o \in Objects, NEW r \in Objects,
         MoveConstruct(o, r)
  PROVE  Inv' /\ Promise!Move(o, r)
<1>1. /\ r \in alive /\ o \notin alive /\ alive' = alive \cup {o}
      /\ heap' = heap /\ pointers[o] = <<>>
  BY DEF MoveConstruct, Inv
<1>2. Swapped(o, r, pointers, pointers')
  BY <1>1 DEF MoveConstruct, Swapped
<1>3. /\ Consistent(pointers', heap)
      /\ pointers'[o] = pointers[r] /\ pointers'[r] = <<>>
      /\ \A q \in Objects \ {o, r} : pointers'[q] = pointers[q]
  BY <1>1, <1>2, SwapVectors DEF Inv
<1>4. Inv'
  BY <1>1, <1>3 DEF Inv
<1>5. o # r /\ Content(o)' = Content(r)
  BY <1>1, <1>3 DEF Content, StringsOf
<1>6. Content(r)' = <<>>
  BY <1>1, <1>3, <1>4, CountEmpty DEF Content, StringsOf
<1>7. \A q \in Objects \ {o, r} : Content(q)' = Content(q)
  BY <1>1, <1>3 DEF Content, StringsOf
<1>8. ListsNow' = [ListsNow EXCEPT ![o] = Content(r), ![r] = <<>>]
  BY <1>5, <1>6, <1>7, TwoContents
<1> QED
  BY <1>1, <1>4, <1>8, MappedAlive
  DEF Promise!Move, MoveConstruct

\* Both swap and the move assignment, which swaps.
LEMMA SwapStep ==
  ASSUME HeapAssumption, Inv, NEW o \in Objects, NEW r \in Objects, Swap(o, r)
  PROVE  Inv' /\ Promise!Exchange(o, r)
<1>1. r \in alive /\ o \in alive /\ alive' = alive /\ heap' = heap
  BY DEF Swap
<1>2. Swapped(o, r, pointers, pointers')
  BY DEF Swap, Swapped
<1>3. /\ Consistent(pointers', heap)
      /\ pointers'[o] = pointers[r] /\ pointers'[r] = pointers[o]
      /\ \A q \in Objects \ {o, r} : pointers'[q] = pointers[q]
  BY <1>2, SwapVectors DEF Inv
<1>4. Inv'
  BY <1>1, <1>3 DEF Inv
<1>5. Content(o)' = Content(r) /\ Content(r)' = Content(o)
  BY <1>1, <1>3 DEF Content, StringsOf
<1>6. \A q \in Objects \ {o, r} : Content(q)' = Content(q)
  BY <1>1, <1>3 DEF Content, StringsOf
<1>7. ListsNow' = [ListsNow EXCEPT ![o] = Content(r), ![r] = Content(o)]
  BY <1>5, <1>6, TwoContents
<1> QED
  BY <1>1, <1>4, <1>7, MappedAlive
  DEF Promise!Exchange, Swap

LEMMA ClearStep ==
  ASSUME HeapAssumption, Inv, NEW o \in Objects, Clear(o)
  PROVE  Inv' /\ Promise!Empty(o)
<1>1. o \in alive /\ alive' = alive
  BY DEF Clear
<1>2. /\ Consistent(pointers', heap')
      /\ pointers'[o] = <<>>
      /\ \A q \in Objects \ {o} :
           /\ pointers'[q] = pointers[q]
           /\ StringsIn(pointers'[q], heap') = StringsIn(pointers[q], heap)
  <2>1. Freed(o, pointers, heap, pointers', heap')
    BY DEF Clear, Free, Freed
  <2> QED
    BY <2>1, FreeVector DEF Inv
<1>3. Inv'
  BY <1>1, <1>2 DEF Inv
<1>4. Content(o)' = <<>>
  BY <1>1, <1>2, CountEmpty DEF Content, StringsOf
<1>5. \A q \in Objects \ {o} : Content(q)' = Content(q)
  BY <1>1, <1>2 DEF Content, StringsOf, StringsIn
<1>6. ListsNow' = [ListsNow EXCEPT ![o] = <<>>]
  BY <1>4, <1>5, OneContent
<1> QED
  BY <1>1, <1>3, <1>6, MappedAlive
  DEF Promise!Empty, Clear

LEMMA DestroyStep ==
  ASSUME HeapAssumption, Inv, NEW o \in Objects, Destroy(o)
  PROVE  Inv' /\ Promise!Destroy(o)
<1>1. o \in alive /\ alive' = alive \ {o}
  BY DEF Destroy
<1>2. /\ Consistent(pointers', heap')
      /\ pointers'[o] = <<>>
      /\ \A q \in Objects \ {o} :
           /\ pointers'[q] = pointers[q]
           /\ StringsIn(pointers'[q], heap') = StringsIn(pointers[q], heap)
  <2>1. Freed(o, pointers, heap, pointers', heap')
    BY DEF Destroy, Free, Freed
  <2> QED
    BY <2>1, FreeVector DEF Inv
<1>3. Inv'
  BY <1>1, <1>2 DEF Inv
<1>4. Content(o)' = Null
  BY <1>1 DEF Content
<1>5. \A q \in Objects \ {o} : Content(q)' = Content(q)
  BY <1>1, <1>2 DEF Content, StringsOf, StringsIn
<1>6. ListsNow' = [ListsNow EXCEPT ![o] = Null]
  BY <1>4, <1>5, OneContent
<1> QED
  BY <1>1, <1>3, <1>6, MappedAlive
  DEF Promise!Destroy, Destroy

-----------------------------------------------------------------------------
(* The theorems *)

LEMMA InitInv ==
  ASSUME HeapAssumption, Init
  PROVE  Inv /\ Promise!Init
<1>1. \A o \in Objects : pointers[o] = <<>> /\ Used(pointers[o]) = {}
  BY DEF Init, Used
<1>2. DOMAIN heap = {}
  BY DEF Init
<1>3. TypeOf(pointers, heap)
  <2>1. pointers \in [Objects -> Seq(Addresses \cup {Null})]
    BY DEF Init
  <2>2. heap \in [DOMAIN heap -> Strings]
    BY <1>2 DEF Init
  <2> QED
    BY <1>2, <2>1, <2>2 DEF TypeOf
<1>4. /\ Terminated(pointers, heap) /\ OneOwner(pointers)
      /\ AllOwned(pointers, heap)
  BY <1>1, <1>2 DEF Terminated, OneOwner, AllOwned
<1>5. Countable(pointers)
  BY <1>1 DEF Countable, HeapAssumption
<1>6. Inv
  BY <1>1, <1>3, <1>4, <1>5 DEF Inv, Consistent, Init
<1>7. ListsNow = [object \in Objects |-> Null]
  BY DEF ListsNow, Content, Init
<1> QED
  BY <1>6, <1>7 DEF Promise!Init, Init

LEMMA NextKeeps ==
  ASSUME HeapAssumption, Inv, [Next]_vars
  PROVE  Inv' /\ [Promise!Next]_Promise!vars
<1>1. ASSUME NEW o \in Objects, NEW list \in Lists, Construct(o, list)
      PROVE  Inv' /\ Promise!Next
  BY <1>1, ConstructStep DEF Promise!Next
<1>2. ASSUME NEW o \in Objects, NEW r \in Objects,
             CopyConstruct(o, r) \/ CopyAssign(o, r)
      PROVE  Inv' /\ Promise!Next
  BY <1>2, CopyConstructStep, CopyAssignStep DEF Promise!Next
<1>3. ASSUME NEW o \in Objects, NEW r \in Objects, MoveConstruct(o, r)
      PROVE  Inv' /\ Promise!Next
  BY <1>3, MoveConstructStep DEF Promise!Next
<1>4. ASSUME NEW o \in Objects, NEW r \in Objects,
             Swap(o, r) \/ MoveAssign(o, r)
      PROVE  Inv' /\ Promise!Next
  BY <1>4, SwapStep DEF Promise!Next, MoveAssign
<1>5. ASSUME NEW o \in Objects, Clear(o)
      PROVE  Inv' /\ Promise!Next
  BY <1>5, ClearStep DEF Promise!Next
<1>6. ASSUME NEW o \in Objects, Destroy(o)
      PROVE  Inv' /\ Promise!Next
  BY <1>6, DestroyStep DEF Promise!Next
<1>7. CASE UNCHANGED vars
  <2>1. Inv'
    BY <1>7 DEF Inv, vars
  <2>2. ListsNow' = ListsNow
    BY <1>7 DEF ListsNow, Content, StringsOf, vars
  <2> QED
    BY <1>7, <2>1, <2>2 DEF Promise!vars, vars
<1> QED
  BY <1>1, <1>2, <1>3, <1>4, <1>5, <1>6, <1>7 DEF Next

\* Whatever is called in whatever order, every string on the heap is in one
\* place of one vector of one object: copying, moving, swapping, clearing and
\* destroying Argv and Envp never loses, shares or frees twice what new char[]
\* returned.
THEOREM NoStringLostOrShared ==
  ASSUME HeapAssumption
  PROVE  Spec => []OwnedOnce
<1>1. Inv => OwnedOnce
  <2> SUFFICES ASSUME Inv, NEW address \in DOMAIN heap
               PROVE  \E object \in alive : \E i \in DOMAIN pointers[object] :
                        /\ pointers[object][i] = address
                        /\ \A other \in alive : \A j \in DOMAIN pointers[other] :
                             pointers[other][j] = address
                               => other = object /\ j = i
    BY DEF OwnedOnce
  <2>1. PICK o \in Objects : \E i \in Used(pointers[o]) : pointers[o][i] = address
    BY DEF Inv, Consistent, AllOwned
  <2>2. PICK i \in Used(pointers[o]) : pointers[o][i] = address
    BY <2>1
  <2>3. \A q \in Objects : Used(pointers[q]) \subseteq DOMAIN pointers[q]
    BY DEF Inv, Consistent, TypeOf, Used
  <2>4. o \in alive
    BY <2>2 DEF Inv, Used
  <2>5. ASSUME NEW q \in alive, NEW j \in DOMAIN pointers[q],
               pointers[q][j] = address
        PROVE  q = o /\ j = i
    <3>1. q \in Objects /\ pointers[q] \in Seq(Addresses \cup {Null})
      BY DEF Inv, Consistent, TypeOf
    <3>2. j \in Used(pointers[q]) \/ j = Len(pointers[q])
      BY <3>1 DEF Used
    <3>3. CASE j \in Used(pointers[q])
      BY <2>2, <2>5, <3>1, <3>3 DEF Inv, Consistent, OneOwner
    <3>4. CASE j = Len(pointers[q])
      <4>1. pointers[q] # <<>>
        BY <3>1
      <4>2. pointers[q][j] = Null
        BY <3>1, <3>4, <4>1 DEF Inv, Consistent, Terminated
      <4> QED
        BY <2>5, <4>2 DEF Inv, Consistent, TypeOf, HeapAssumption
    <3> QED
      BY <3>2, <3>3, <3>4
  <2> QED
    BY <2>2, <2>3, <2>4, <2>5
<1>2. Init => Inv
  BY InitInv
<1>3. Inv /\ [Next]_vars => Inv'
  BY NextKeeps
<1> QED
  BY <1>1, <1>2, <1>3, PTL DEF Spec

\* Every vector that was not moved from or cleared is what execve and
\* boost::program_options may be given: a null pointer at the end and nowhere
\* else, and an argc that counts the strings before it, whatever the width of
\* size_t.
THEOREM VectorsEndInNull ==
  ASSUME HeapAssumption
  PROVE  Spec => []EndsInNull
<1>1. Inv => EndsInNull
  <2> SUFFICES ASSUME Inv, NEW o \in alive, pointers[o] # <<>>
               PROVE  /\ Count(pointers[o]) = Len(pointers[o]) - 1
                      /\ Argc(o) = Count(pointers[o])
    BY DEF EndsInNull
  <2>1. o \in Objects /\ Consistent(pointers, heap)
    BY DEF Inv
  <2>2. /\ Count(pointers[o]) = Len(pointers[o]) - 1
        /\ Len(pointers[o]) \in Nat
        /\ pointers[o] \in Seq(Addresses \cup {Null})
    BY <2>1, CountConsistent
  <2>3. Len(pointers[o]) - 1 \in 0..(SizeRange - 1)
    BY <2>1, <2>2 DEF Consistent, Countable, HeapAssumption
  <2>4. (Len(pointers[o]) - 1) % SizeRange = Len(pointers[o]) - 1
    BY <2>3 DEF HeapAssumption
  <2> QED
    BY <2>2, <2>4 DEF Argc
<1>2. Init => Inv
  BY InitInv
<1>3. Inv /\ [Next]_vars => Inv'
  BY NextKeeps
<1> QED
  BY <1>1, <1>2, <1>3, PTL DEF Spec

\* Argv and Envp implement StringLists: as far as their strings can tell, each
\* object is a list of its own, and every call changes it as promised.
THEOREM ObjectsAreLists ==
  ASSUME HeapAssumption
  PROVE  Spec => IsListOfStrings
<1>1. Init => Inv /\ Promise!Init
  BY InitInv
<1>2. Inv /\ [Next]_vars => Inv' /\ [Promise!Next]_Promise!vars
  BY NextKeeps
<1> QED
  BY <1>1, <1>2, PTL DEF Spec, IsListOfStrings, Promise!Spec

=============================================================================
