---------------------------- MODULE BoundedFifo ----------------------------
(***************************************************************************)
(* What lw::CircularQueue<T> promises its users: a first-in first-out      *)
(* queue of at most Capacity values.  `result' is the outcome of the last  *)
(* call, as its caller sees it.                                            *)
(***************************************************************************)
EXTENDS Naturals, Sequences

CONSTANTS Value,      \* the values of type T
          Capacity    \* the constructor's `capacity'

VARIABLES contents, result

fifoVars == <<contents, result>>

Returned(v) == [kind |-> "value", value |-> v]
Done        == [kind |-> "done"]
Refused     == [kind |-> "false"]
Thrown(e)   == [kind |-> "throw", error |-> e]

Init ==
  /\ contents = <<>>
  /\ result = Done

TryPushBack(v) ==
  \/ /\ Len(contents) < Capacity
     /\ contents' = Append(contents, v)
     /\ result' = Done
  \/ /\ Len(contents) = Capacity
     /\ result' = Refused
     /\ UNCHANGED contents

PushBack(v) ==
  \/ /\ Len(contents) < Capacity
     /\ contents' = Append(contents, v)
     /\ result' = Done
  \/ /\ Len(contents) = Capacity
     /\ result' = Thrown("ResourceExhausted")
     /\ UNCHANGED contents

PopFront ==
  \/ /\ contents # <<>>
     /\ contents' = Tail(contents)
     /\ result' = Returned(Head(contents))
  \/ /\ contents = <<>>
     /\ result' = Thrown("FailedPrecondition")
     /\ UNCHANGED contents

Next ==
  \/ \E v \in Value : TryPushBack(v) \/ PushBack(v)
  \/ PopFront

Spec == Init /\ [][Next]_fifoVars
=============================================================================
