--------------------------- MODULE CircularQueue ---------------------------
(***************************************************************************)
(* lw::CircularQueue<T> (lw/memory/circular_queue.h): a ring of _capacity  *)
(* slots.  push_back writes at _head, pop_front reads at _tail, and both   *)
(* indices advance modulo the capacity; _size tells a full ring from an    *)
(* empty one.  A popped slot keeps its (moved-from) bytes.                 *)
(***************************************************************************)
EXTENDS Naturals, Sequences

CONSTANTS Value,      \* the values of type T
          Capacity,   \* the constructor's `capacity'
          Garbage     \* what a slot that was never written holds

\* The scheduler's capacity is a command-line flag, so zero is possible.
ASSUME CapacityAssumption == Capacity \in Nat
ASSUME GarbageAssumption == Garbage \notin Value

VARIABLES size, head, tail, buffer, result

vars == <<size, head, tail, buffer, result>>

Slots == 0 .. (Capacity - 1)

Returned(v) == [kind |-> "value", value |-> v]
Done        == [kind |-> "done"]
Refused     == [kind |-> "false"]
Thrown(e)   == [kind |-> "throw", error |-> e]

Results ==
  [kind : {"value"}, value : Value \cup {Garbage}] \cup {Done, Refused}
    \cup {Thrown("ResourceExhausted"), Thrown("FailedPrecondition")}

NextIndex(i) == (i + 1) % Capacity
IsEmpty == size = 0

\* A slip: one slot is kept free, as rings without a size field do.
IsFullEarly == size + 1 >= Capacity

IsFull  == size = Capacity

Init ==
  /\ size = 0
  /\ head = 0
  /\ tail = 0
  /\ buffer = [i \in Slots |-> Garbage]
  /\ result = Done

\* A slip: the element is not counted.
StoreUncounted(v) ==
  /\ ~IsFull
  /\ head' = NextIndex(head)
  /\ buffer' = [buffer EXCEPT ![head] = v]
  /\ result' = Done
  /\ UNCHANGED <<size, tail>>

\* The part of try_push_back that stores the value.
Store(v) ==
  /\ ~IsFull
  /\ head' = NextIndex(head)
  /\ buffer' = [buffer EXCEPT ![head] = v]
  /\ size' = size + 1
  /\ result' = Done
  /\ UNCHANGED tail

TryPushBack(v) ==
  \/ Store(v)
  \/ /\ IsFull
     /\ result' = Refused
     /\ UNCHANGED <<size, head, tail, buffer>>

\* push_back and emplace_back.
PushBack(v) ==
  \/ Store(v)
  \/ /\ IsFull
     /\ result' = Thrown("ResourceExhausted")
     /\ UNCHANGED <<size, head, tail, buffer>>

PopFront ==
  \/ /\ ~IsEmpty
     /\ tail' = NextIndex(tail)
     /\ size' = size - 1
     /\ result' = Returned(buffer[tail])
     /\ UNCHANGED <<head, buffer>>
  \/ /\ IsEmpty
     /\ result' = Thrown("FailedPrecondition")
     /\ UNCHANGED <<size, head, tail, buffer>>

Next ==
  \/ \E v \in Value : TryPushBack(v) \/ PushBack(v)
  \/ PopFront

Spec == Init /\ [][Next]_vars

-----------------------------------------------------------------------------

\* Type invariant: the indices stay inside the reserved storage.
TypeOK ==
  /\ size \in 0 .. Capacity
  /\ head \in Nat /\ tail \in Nat
  /\ Capacity > 0 => head \in Slots /\ tail \in Slots
  /\ buffer \in [Slots -> Value \cup {Garbage}]
  /\ result \in Results

\* The slot that holds the i-th value of the queue, counted from the front.
SlotOf(i) == (tail + (i - 1)) % Capacity

\* The values in the queue, front first: what the ring stands for.
Contents == [i \in 1 .. size |-> buffer[SlotOf(i)]]

\* The write index is _size slots ahead of the read index: the two indices and
\* the size, three separate fields that every operation updates separately,
\* never disagree about which slots hold values.
IndicesAgree == Capacity > 0 => head = (tail + size) % Capacity

\* No operation ever hands out, or keeps in the queue, a slot that was reserved
\* but never written.
NoGarbage ==
  /\ \A i \in 1 .. size : buffer[SlotOf(i)] # Garbage
  /\ result.kind = "value" => result.value # Garbage

Fifo == INSTANCE BoundedFifo WITH contents <- Contents

\* The ring implements the bounded FIFO queue: every call returns or throws what
\* the abstract queue would, across any number of wrap-arounds.
ImplementsFifo == Fifo!Spec
=============================================================================
