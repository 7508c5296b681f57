----------------------------- MODULE OwnedStrings -----------------------------
(***************************************************************************)
(* Argv and Envp: vectors of pointers to strings on the heap, ended by a   *)
(* null pointer, that own what they point to.  Both classes copy, move and *)
(* free the same way.  The heap may give out any address that is free.     *)
(***************************************************************************)
EXTENDS Integers, Sequences, SequencesExt, FiniteSets

CONSTANTS
  Objects,   \* the places an object may be in
  Strings,   \* what an argument, or a variable and its value, may be
  Lists,     \* the lists of strings an object is made from
  Addresses, \* the heap
  Null,      \* the null pointer, which is no address
  SizeRange  \* 2^w for a size_t of w bits

\* Lists of strings, addresses and the null pointer can be told apart, and no
\* list is longer than a size_t can count.
ASSUME HeapAssumption ==
  /\ Null \notin Addresses
  /\ Null \notin Seq(Strings)
  /\ Lists \subseteq Seq(Strings)
  /\ SizeRange \in Nat \ {0}
  /\ \A list \in Lists : Len(list) < SizeRange

VARIABLES
  alive,    \* the places with an object
  pointers, \* m_argv and m_envp: function: places -> the vector of the object
  heap,     \* function: addresses that are not free -> the strings there
  call      \* history: the last call

vars == <<alive, pointers, heap, call>>

Init ==
  /\ alive = {}
  /\ pointers = [object \in Objects |-> <<>>]
  /\ heap = [address \in {} |-> Null]
  /\ call = <<>>

\* The vectors new char[] may return for as many strings.
Fresh(number, used) ==
  {new \in [1..number -> Addresses \ used] :
     \A i, j \in 1..number : new[i] = new[j] => i = j}

\* The strings, in the order of the vector, are written to new addresses.
Write(new, strings, memory) ==
  [address \in DOMAIN memory \cup {new[i] : i \in DOMAIN new} |->
     IF \E i \in DOMAIN new : new[i] = address
     THEN strings[CHOOSE i \in DOMAIN new : new[i] = address]
     ELSE memory[address]]

\* The memory after delete[] of all elements of a vector.
Free(vector) ==
  [address \in DOMAIN heap \ {vector[i] : i \in DOMAIN vector} |-> heap[address]]

\* The number of elements before the first null pointer.
Count(vector) ==
  CHOOSE n \in 0..Len(vector) :
    /\ \A i \in 1..n : vector[i] # Null
    /\ n = Len(vector) \/ vector[n + 1] = Null

StringsOf(vector) == [i \in 1..Count(vector) |-> heap[vector[i]]]

Construct(object, list) ==
  /\ object \notin alive
  /\ \E new \in Fresh(Len(list), DOMAIN heap) :
       /\ pointers' = [pointers EXCEPT ![object] = Append(new, Null)]
       /\ heap' = Write(new, list, heap)
  /\ alive' = alive \cup {object}
  /\ call' = <<"make", object, list>>

\* Mutant: the copies are added to what the vector has.
AppendCopy(object, other) ==
  LET strings == StringsOf(pointers[other])
  IN \E new \in Fresh(Len(strings), DOMAIN heap) :
       /\ pointers' = [pointers EXCEPT ![object] = @ \o Append(new, Null)]
       /\ heap' = Write(new, strings, heap)

\* deepCopy: the vector is cleared first; that of the other is read after that.
DeepCopy(object, other) ==
  LET memory == Free(pointers[object])
      strings == IF object = other THEN <<>> ELSE StringsOf(pointers[other])
  IN \E new \in Fresh(Len(strings), DOMAIN memory) :
       /\ pointers' = [pointers EXCEPT ![object] = Append(new, Null)]
       /\ heap' = Write(new, strings, memory)

CopyConstruct(object, other) ==
  /\ object \notin alive /\ other \in alive
  /\ DeepCopy(object, other)
  /\ alive' = alive \cup {object}
  /\ call' = <<"copy", object, other>>

\* Mutant: the pointers are copied and not taken.
ShareConstruct(object, other) ==
  /\ object \notin alive /\ other \in alive
  /\ pointers' = [pointers EXCEPT ![object] = pointers[other]]
  /\ alive' = alive \cup {object}
  /\ UNCHANGED heap
  /\ call' = <<"move", object, other>>

\* The new vector, which has no elements, is swapped with that of the other.
MoveConstruct(object, other) ==
  /\ object \notin alive /\ other \in alive
  /\ pointers' = [pointers EXCEPT ![object] = pointers[other], ![other] = <<>>]
  /\ alive' = alive \cup {object}
  /\ UNCHANGED heap
  /\ call' = <<"move", object, other>>

\* Mutant: an object that is assigned to itself is copied as well.
AssignAlways(object, other) ==
  /\ object \in alive /\ other \in alive
  /\ DeepCopy(object, other)
  /\ UNCHANGED alive
  /\ call' = <<"copy", object, other>>

CopyAssign(object, other) ==
  /\ object \in alive /\ other \in alive
  /\ IF object = other THEN UNCHANGED <<pointers, heap>>
     ELSE DeepCopy(object, other)
  /\ UNCHANGED alive
  /\ call' = <<"copy", object, other>>

Swap(object, other) ==
  /\ object \in alive /\ other \in alive
  /\ pointers' = [pointers EXCEPT ![object] = pointers[other],
                                  ![other] = pointers[object]]
  /\ UNCHANGED <<alive, heap>>
  /\ call' = <<"exchange", object, other>>

MoveAssign(object, other) == Swap(object, other)

Clear(object) ==
  /\ object \in alive
  /\ heap' = Free(pointers[object])
  /\ pointers' = [pointers EXCEPT ![object] = <<>>]
  /\ UNCHANGED alive
  /\ call' = <<"empty", object>>

Destroy(object) ==
  /\ object \in alive
  /\ heap' = Free(pointers[object])
  /\ pointers' = [pointers EXCEPT ![object] = <<>>]
  /\ alive' = alive \ {object}
  /\ call' = <<"destroy", object>>

Next ==
  \E object \in Objects :
    \/ \E list \in Lists : Construct(object, list)
    \/ \E other \in Objects :
         \/ CopyConstruct(object, other) \/ MoveConstruct(object, other)
         \/ CopyAssign(object, other) \/ MoveAssign(object, other)
         \/ Swap(object, other)
    \/ Clear(object) \/ Destroy(object)

Spec == Init /\ [][Next]_vars

\* getArgc and size: the difference of unsigned numbers.
Argc(object) == (Len(pointers[object]) - 1) % SizeRange

-----------------------------------------------------------------------------
(* Properties *)

\* Every string on the heap is in one place of one vector: what is freed twice,
\* used after it was freed or never freed would be in two, or in none.
OwnedOnce ==
  \A address \in DOMAIN heap :
    \E object \in alive : \E i \in DOMAIN pointers[object] :
      /\ pointers[object][i] = address
      /\ \A other \in alive : \A j \in DOMAIN pointers[other] :
           pointers[other][j] = address => other = object /\ j = i

\* A vector that is not empty ends with a null pointer, the only one in it, and
\* argc counts the others: both are what execve and boost::program_options are
\* given.  A vector that was moved from is empty, and its argc is no number of
\* arguments.
EndsInNull ==
  \A object \in alive :
    pointers[object] # <<>> =>
      Count(pointers[object]) = Len(pointers[object]) - 1
      /\ Argc(object) = Count(pointers[object])

\* Each object is a list of strings of its own, that every call changes as
\* promised (StringLists).
Content(object) ==
  IF object \in alive THEN StringsOf(pointers[object]) ELSE Null

ListsNow == [object \in Objects |-> Content(object)]

Promise == INSTANCE StringLists WITH NoObject <- Null, lists <- ListsNow

IsListOfStrings == Promise!Spec

=============================================================================
