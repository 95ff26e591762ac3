----------------------------- MODULE FifoQueue -----------------------------
(***************************************************************************)
(* What the kernel's queue promises: a first-in first-out buffer of at     *)
(* most Capacity items.  A push puts its item in, and a pop takes the      *)
(* oldest one out, at one moment between its call and its return; what is  *)
(* in it goes with it when it is destroyed.                                *)
(***************************************************************************)
EXTENDS Naturals, Sequences

CONSTANTS
  Tasks,
  Items,
  Capacity,
  NULL

VARIABLES
  contents,   \* the items in the queue, oldest first
  got         \* the item a task has popped and not returned yet, or NULL

fifoVars == <<contents, got>>

Init ==
  /\ contents = <<>>
  /\ got = [t \in Tasks |-> NULL]

Push(x) ==
  /\ Len(contents) < Capacity
  /\ contents' = Append(contents, x)
  /\ UNCHANGED got

Pop(t) ==
  /\ contents # <<>>
  /\ got[t] = NULL
  /\ got' = [got EXCEPT ![t] = Head(contents)]
  /\ contents' = Tail(contents)

Return(t) ==
  /\ got[t] # NULL
  /\ got' = [got EXCEPT ![t] = NULL]
  /\ UNCHANGED contents

Discard ==
  /\ contents' = <<>>
  /\ UNCHANGED got

Next ==
  \/ \E x \in Items : Push(x)
  \/ \E t \in Tasks : Pop(t) \/ Return(t)
  \/ Discard

FifoSpec == Init /\ [][Next]_fifoVars
=============================================================================
