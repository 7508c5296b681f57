------------------------------ MODULE StringLists ------------------------------
(***************************************************************************)
(* What the wrappers of argv and envp promise: each of them is a list of   *)
(* strings of its own, a copy has the same strings and a life of its own.  *)
(***************************************************************************)
EXTENDS Sequences

CONSTANTS
  Objects,  \* the places an object may be in
  Lists,    \* the lists of strings an object is made from
  NoObject  \* what is in a place without one

VARIABLES
  lists, \* function: places -> the strings of the object there
  call   \* history: the last call

vars == <<lists, call>>

Alive(object) == lists[object] # NoObject

Init ==
  /\ lists = [object \in Objects |-> NoObject]
  /\ call = <<>>

Make(object, list) ==
  /\ ~Alive(object)
  /\ lists' = [lists EXCEPT ![object] = list]
  /\ call' = <<"make", object, list>>

\* A copy is made of another object, or takes the place of what was there.
Copy(object, other) ==
  /\ Alive(other)
  /\ lists' = [lists EXCEPT ![object] = lists[other]]
  /\ call' = <<"copy", object, other>>

\* An object that is moved from has no strings.
Move(object, other) ==
  /\ ~Alive(object) /\ Alive(other)
  /\ lists' = [lists EXCEPT ![object] = lists[other], ![other] = <<>>]
  /\ call' = <<"move", object, other>>

Exchange(object, other) ==
  /\ Alive(object) /\ Alive(other)
  /\ lists' = [lists EXCEPT ![object] = lists[other], ![other] = lists[object]]
  /\ call' = <<"exchange", object, other>>

Empty(object) ==
  /\ Alive(object)
  /\ lists' = [lists EXCEPT ![object] = <<>>]
  /\ call' = <<"empty", object>>

Destroy(object) ==
  /\ Alive(object)
  /\ lists' = [lists EXCEPT ![object] = NoObject]
  /\ call' = <<"destroy", object>>

Next ==
  \E object \in Objects :
    \/ \E list \in Lists : Make(object, list)
    \/ \E other \in Objects :
         Copy(object, other) \/ Move(object, other) \/ Exchange(object, other)
    \/ Empty(object) \/ Destroy(object)

Spec == Init /\ [][Next]_vars

=============================================================================
