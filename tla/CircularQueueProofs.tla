------------------------ MODULE CircularQueueProofs ------------------------
(***************************************************************************)
(* CircularQueue, of any capacity, keeps its indices consistent and        *)
(* implements BoundedFifo.                                                 *)
(***************************************************************************)
EXTENDS CircularQueue, Integers, SequenceTheorems, TLAPS

\* What % does to an index that is at most once past the end of the ring.
LEMMA ModBelow == \A c \in Nat \ {0}, i \in Nat : i < c => i % c = i
  BY Z3

LEMMA ModOnce ==
  \A c \in Nat \ {0}, i \in Nat : c <= i /\ i < 2 * c => i % c = i - c
  BY Z3

\* Sequences with the same elements are equal.
LEMMA SeqExtensional ==
  \A S : \A s, t \in Seq(S) :
    Len(s) = Len(t) /\ (\A i \in 1 .. Len(s) : s[i] = t[i]) => s = t
  BY SeqEqual

\* The slot k places after slot i.
LEMMA SlotAfter ==
  Capacity > 0 =>
    \A i \in Slots, k \in 0 .. Capacity :
      /\ (i + k) % Capacity = IF i + k < Capacity THEN i + k
                                                  ELSE i + k - Capacity
      /\ (i + k) % Capacity \in Slots
<1> SUFFICES ASSUME Capacity > 0, NEW i \in Slots, NEW k \in 0 .. Capacity
             PROVE  /\ (i + k) % Capacity = IF i + k < Capacity
                                            THEN i + k ELSE i + k - Capacity
                    /\ (i + k) % Capacity \in Slots
  OBVIOUS
<1> DEFINE s == i + k
<1>1. Capacity \in Nat \ {0} /\ s \in Nat /\ s < 2 * Capacity
  BY CapacityAssumption DEF Slots
<1> HIDE DEF s
<1>2. CASE s < Capacity
  <2>1. s % Capacity = s
    BY <1>1, <1>2, ModBelow
  <2> QED  BY <1>1, <1>2, <2>1 DEF Slots, s
<1>3. CASE ~(s < Capacity)
  <2>1. Capacity <= s
    BY <1>1, <1>3
  <2>2. s % Capacity = s - Capacity
    BY <1>1, <2>1, ModOnce
  <2> QED  BY <1>1, <2>1, <2>2 DEF Slots, s
<1> QED  BY <1>2, <1>3

\* Two of the slots that follow slot i within one turn are different.
LEMMA SlotsDiffer ==
  Capacity > 0 =>
    \A i \in Slots, j, k \in 0 .. Capacity - 1 :
      j # k => (i + j) % Capacity # (i + k) % Capacity
<1> SUFFICES ASSUME Capacity > 0, NEW i \in Slots,
                    NEW j \in 0 .. Capacity - 1, NEW k \in 0 .. Capacity - 1,
                    j # k
             PROVE  (i + j) % Capacity # (i + k) % Capacity
  OBVIOUS
<1>1. j \in 0 .. Capacity /\ k \in 0 .. Capacity
  BY CapacityAssumption
<1>2. i \in Int /\ j \in Int /\ k \in Int /\ Capacity \in Nat
  BY CapacityAssumption DEF Slots
<1>3. /\ (i + j) % Capacity = IF i + j < Capacity THEN i + j ELSE i + j - Capacity
      /\ (i + k) % Capacity = IF i + k < Capacity THEN i + k ELSE i + k - Capacity
  BY <1>1, SlotAfter
<1>4. 0 <= i /\ i < Capacity /\ 0 <= j /\ j < Capacity /\ 0 <= k /\ k < Capacity
  BY <1>2 DEF Slots
<1> QED  BY <1>2, <1>3, <1>4

\* The strengthened invariant.
QueueInv == TypeOK /\ IndicesAgree /\ NoGarbage

LEMMA InitInv == Init => QueueInv
<1> SUFFICES ASSUME Init PROVE QueueInv
  OBVIOUS
<1> USE CapacityAssumption DEF Init
<1>1. TypeOK
  BY DEF TypeOK, Slots, Results, Done
<1>2. IndicesAgree
  BY ModBelow DEF IndicesAgree
<1>3. NoGarbage
  BY DEF NoGarbage, Done
<1> QED  BY <1>1, <1>2, <1>3 DEF QueueInv

\* Storing a value appends it to the contents.
LEMMA StoreContents ==
  ASSUME QueueInv, NEW v \in Value, Store(v)
  PROVE  /\ QueueInv'
         /\ Len(Contents) < Capacity
         /\ Contents' = Append(Contents, v)
<1> USE CapacityAssumption
<1>1. /\ Capacity > 0 /\ size \in Nat /\ size < Capacity
      /\ head \in Slots /\ tail \in Slots
      /\ head = (tail + size) % Capacity
      /\ size' = size + 1 /\ tail' = tail
  BY DEF QueueInv, TypeOK, IndicesAgree, Store, IsFull
<1>2. head' = (tail + size') % Capacity /\ head' \in Slots
  <2>1. head' = IF head + 1 < Capacity THEN head + 1 ELSE head + 1 - Capacity
    BY <1>1, SlotAfter DEF Store, NextIndex
  <2>a. size \in 0 .. Capacity /\ size + 1 \in 0 .. Capacity
    BY <1>1
  <2>2. head = IF tail + size < Capacity THEN tail + size ELSE tail + size - Capacity
    BY <1>1, <2>a, SlotAfter
  <2>3. (tail + (size + 1)) % Capacity = IF tail + (size + 1) < Capacity
            THEN tail + (size + 1) ELSE tail + (size + 1) - Capacity
    BY <1>1, <2>a, SlotAfter
  <2>4. tail \in Nat /\ tail < Capacity
    BY <1>1 DEF Slots
  <2> QED  BY <1>1, <2>1, <2>2, <2>3, <2>4 DEF Slots
<1>3. \A i \in 1 .. size : SlotOf(i) \in Slots /\ SlotOf(i) # head
  <2> SUFFICES ASSUME NEW i \in 1 .. size
               PROVE SlotOf(i) \in Slots /\ SlotOf(i) # head
    OBVIOUS
  <2>1. i - 1 \in 0 .. Capacity - 1 /\ size \in 0 .. Capacity - 1 /\ i - 1 # size
    BY <1>1
  <2>2. (tail + (i - 1)) % Capacity # (tail + size) % Capacity
    BY <1>1, <2>1, SlotsDiffer
  <2>3. (tail + (i - 1)) % Capacity \in Slots
    <3>1. i - 1 \in 0 .. Capacity
      BY <1>1
    <3> QED  BY <1>1, <3>1, SlotAfter
  <2> QED  BY <1>1, <2>2, <2>3 DEF SlotOf
<1>4. buffer' = [buffer EXCEPT ![head] = v] /\ buffer \in [Slots -> Value \cup {Garbage}]
  BY DEF Store, QueueInv, TypeOK
<1>5. \A i \in 1 .. size : buffer'[SlotOf(i)] = buffer[SlotOf(i)]
  BY <1>3, <1>4
<1>6. buffer'[SlotOf(size + 1)] = v
  BY <1>1, <1>4 DEF SlotOf
<1>7. \A i : SlotOf(i)' = SlotOf(i)
  BY <1>1 DEF SlotOf
<1>8. TypeOK'
  <2>1. size' \in 0 .. Capacity /\ head' \in Nat /\ tail' \in Nat
    BY <1>1, <1>2 DEF Slots
  <2>2. buffer' \in [Slots -> Value \cup {Garbage}]
    BY <1>4
  <2>3. result' \in Results
    BY DEF Results, Store
  <2> QED  BY <1>1, <1>2, <2>1, <2>2, <2>3 DEF TypeOK
<1>9. NoGarbage'
  <2>1. \A i \in 1 .. size' : i \in 1 .. size \/ i = size + 1
    BY <1>1
  <2>2. \A i \in 1 .. size : buffer[SlotOf(i)] # Garbage
    BY DEF QueueInv, NoGarbage
  <2>3. \A i \in 1 .. size' : buffer'[SlotOf(i)] # Garbage
    BY <1>5, <1>6, <2>1, <2>2, GarbageAssumption
  <2>4. result'.kind # "value"
    BY DEF Store, Done
  <2> QED  BY <1>7, <2>3, <2>4 DEF NoGarbage
<1>10. QueueInv'
  BY <1>1, <1>2, <1>8, <1>9 DEF QueueInv, IndicesAgree
<1>11. Contents \in Seq(Value) /\ Len(Contents) = size
  <2>1. \A i \in 1 .. size : buffer[SlotOf(i)] \in Value
    BY <1>3, <1>4 DEF QueueInv, NoGarbage
  <2> QED  BY <1>1, <2>1 DEF Contents
<1>12. Contents' = [i \in 1 .. size + 1 |-> IF i = size + 1 THEN v ELSE Contents[i]]
  <2>1. Contents' = [i \in 1 .. size + 1 |-> buffer'[SlotOf(i)]]
    BY <1>1, <1>7 DEF Contents
  <2>2. \A i \in 1 .. size + 1 :
          buffer'[SlotOf(i)] = IF i = size + 1 THEN v ELSE Contents[i]
    BY <1>1, <1>5, <1>6 DEF Contents
  <2> QED  BY <2>1, <2>2
<1>13. Contents' = Append(Contents, v)
  <2>1. Append(Contents, v) \in Seq(Value) /\ Len(Append(Contents, v)) = size + 1
    BY <1>11
  <2>2. \A i \in 1 .. size + 1 :
          Append(Contents, v)[i] = IF i = size + 1 THEN v ELSE Contents[i]
    BY <1>1, <1>11
  <2>3. \A i \in 1 .. size + 1 : Contents'[i] = Append(Contents, v)[i]
    BY <1>12, <2>2
  <2>4. Contents' \in Seq(Value) /\ Len(Contents') = size + 1
    <3>1. \A i \in 1 .. size + 1 : (IF i = size + 1 THEN v ELSE Contents[i]) \in Value
      BY <1>1, <1>11
    <3> QED  BY <1>1, <1>12, <3>1
  <2> QED  BY <2>1, <2>3, <2>4, SeqExtensional
<1> QED  BY <1>1, <1>10, <1>11, <1>13

\* Taking the front value leaves the others, in order.
LEMMA PopContents ==
  ASSUME QueueInv, PopFront, ~IsEmpty
  PROVE  /\ QueueInv'
         /\ Contents # <<>>
         /\ Contents' = Tail(Contents)
         /\ result' = Returned(Head(Contents))
<1> USE CapacityAssumption
<1>1. /\ Capacity > 0 /\ size \in Nat /\ size > 0 /\ size <= Capacity
      /\ tail \in Slots /\ head \in Slots
      /\ head = (tail + size) % Capacity
      /\ size' = size - 1 /\ head' = head /\ buffer' = buffer
      /\ tail' = NextIndex(tail) /\ result' = Returned(buffer[tail])
      /\ buffer \in [Slots -> Value \cup {Garbage}]
  BY DEF QueueInv, TypeOK, IndicesAgree, PopFront, IsEmpty
<1>2. tail \in Nat /\ tail < Capacity
  BY <1>1 DEF Slots
<1>3. /\ tail' = IF tail + 1 < Capacity THEN tail + 1 ELSE tail + 1 - Capacity
      /\ tail' \in Slots
  BY <1>1, SlotAfter DEF NextIndex
<1>4. \A k \in 0 .. size - 1 : (tail' + k) % Capacity = (tail + (k + 1)) % Capacity
  <2> SUFFICES ASSUME NEW k \in 0 .. size - 1
               PROVE (tail' + k) % Capacity = (tail + (k + 1)) % Capacity
    OBVIOUS
  <2>a. k \in 0 .. Capacity /\ k + 1 \in 0 .. Capacity
    BY <1>1
  <2>1. (tail + (k + 1)) % Capacity = IF tail + (k + 1) < Capacity
            THEN tail + (k + 1) ELSE tail + (k + 1) - Capacity
    BY <1>1, <2>a, SlotAfter
  <2>2. (tail' + k) % Capacity = IF tail' + k < Capacity
            THEN tail' + k ELSE tail' + k - Capacity
    BY <1>1, <1>3, <2>a, SlotAfter
  <2> QED  BY <1>1, <1>2, <1>3, <2>1, <2>2
<1>5. \A i \in 1 .. size' : SlotOf(i)' = SlotOf(i + 1)
  <2> SUFFICES ASSUME NEW i \in 1 .. size - 1
               PROVE (tail' + (i - 1)) % Capacity = (tail + ((i + 1) - 1)) % Capacity
    BY <1>1 DEF SlotOf
  <2>1. i - 1 \in 0 .. size - 1 /\ (i - 1) + 1 = (i + 1) - 1
    BY <1>1
  <2> QED  BY <1>4, <2>1
<1>6. SlotOf(1) = tail
  BY <1>1, <1>2, ModBelow DEF SlotOf
<1>7. \A i \in 1 .. size : SlotOf(i) \in Slots /\ buffer[SlotOf(i)] \in Value
  <2> SUFFICES ASSUME NEW i \in 1 .. size
               PROVE SlotOf(i) \in Slots /\ buffer[SlotOf(i)] \in Value
    OBVIOUS
  <2>1. i - 1 \in 0 .. Capacity
    BY <1>1
  <2>2. SlotOf(i) \in Slots
    BY <1>1, <2>1, SlotAfter DEF SlotOf
  <2> QED  BY <1>1, <2>2 DEF QueueInv, NoGarbage
<1>8. Contents \in Seq(Value) /\ Len(Contents) = size
  BY <1>1, <1>7 DEF Contents
<1>9. Contents' = [i \in 1 .. size - 1 |-> Contents[i + 1]]
  <2>1. Contents' = [i \in 1 .. size - 1 |-> buffer[SlotOf(i)']]
    BY <1>1 DEF Contents
  <2>2. \A i \in 1 .. size - 1 : buffer[SlotOf(i)'] = Contents[i + 1]
    BY <1>1, <1>5 DEF Contents
  <2> QED  BY <2>1, <2>2
<1>10. Contents' = Tail(Contents)
  <2>1. Tail(Contents) \in Seq(Value) /\ Len(Tail(Contents)) = size - 1
    BY <1>1, <1>8
  <2>2. \A i \in 1 .. size - 1 : Tail(Contents)[i] = Contents[i + 1]
    BY <1>1, <1>8
  <2>3. \A i \in 1 .. size - 1 : Contents'[i] = Tail(Contents)[i]
    BY <1>9, <2>2
  <2>4. Contents' \in Seq(Value) /\ Len(Contents') = size - 1
    <3>1. \A i \in 1 .. size - 1 : Contents[i + 1] \in Value
      BY <1>1, <1>8
    <3> QED  BY <1>1, <1>9, <3>1
  <2> QED  BY <2>1, <2>3, <2>4, SeqExtensional
<1>11. Head(Contents) = buffer[tail] /\ Contents # <<>>
  BY <1>1, <1>6, <1>8 DEF Contents
<1>12. buffer[tail] \in Value
  BY <1>1, <1>6, <1>7
<1>13. TypeOK'
  <2>1. result' \in Results
    BY <1>1, <1>12 DEF Results, Returned
  <2>2. size' \in 0 .. Capacity /\ tail' \in Nat /\ head' \in Nat
    BY <1>1, <1>3 DEF Slots
  <2> QED  BY <1>1, <1>3, <2>1, <2>2 DEF TypeOK
<1>14. IndicesAgree'
  <2>1. (tail' + (size - 1)) % Capacity = (tail + ((size - 1) + 1)) % Capacity
    BY <1>1, <1>4
  <2>2. (size - 1) + 1 = size
    BY <1>1
  <2> QED  BY <1>1, <2>1, <2>2 DEF IndicesAgree
<1>15. NoGarbage'
  <2>1. \A i \in 1 .. size' : i + 1 \in 1 .. size
    BY <1>1
  <2>2. \A i \in 1 .. size' : buffer'[SlotOf(i)'] # Garbage
    BY <1>1, <1>5, <1>7, <2>1, GarbageAssumption
  <2>3. result'.value # Garbage
    BY <1>1, <1>12, GarbageAssumption DEF Returned
  <2> QED  BY <2>2, <2>3 DEF NoGarbage
<1> QED  BY <1>1, <1>10, <1>11, <1>13, <1>14, <1>15 DEF QueueInv

\* A call that throws or returns false changes nothing but its result.
LEMMA RefusedContents ==
  ASSUME QueueInv, UNCHANGED <<size, head, tail, buffer>>,
         result' \in Results, result'.kind # "value"
  PROVE  QueueInv' /\ Contents' = Contents
<1>1. TypeOK' /\ IndicesAgree'
  BY DEF QueueInv, TypeOK, IndicesAgree
<1>2. \A i : SlotOf(i)' = SlotOf(i)
  BY DEF SlotOf
<1>3. NoGarbage'
  BY <1>2 DEF QueueInv, NoGarbage
<1>4. Contents' = Contents
  BY <1>2 DEF Contents
<1> QED  BY <1>1, <1>3, <1>4 DEF QueueInv

\* Every step keeps the invariant and is a step, or a stutter, of the FIFO.
LEMMA StepInv ==
  ASSUME QueueInv, [Next]_vars
  PROVE  QueueInv' /\ [Fifo!Next]_<<Contents, result>>
<1>1. Capacity \in Nat /\ Contents \in Seq(Value) /\ Len(Contents) = size
      /\ size \in Nat
  <2>1. size \in Nat /\ size <= Capacity /\ Capacity \in Nat
    BY CapacityAssumption DEF QueueInv, TypeOK
  <2>2. \A i \in 1 .. size : buffer[SlotOf(i)] \in Value
    <3> SUFFICES ASSUME NEW i \in 1 .. size PROVE buffer[SlotOf(i)] \in Value
      OBVIOUS
    <3>1. Capacity > 0 /\ tail \in Slots /\ i - 1 \in 0 .. Capacity
      BY <2>1 DEF QueueInv, TypeOK
    <3>2. SlotOf(i) \in Slots
      BY <3>1, SlotAfter DEF SlotOf
    <3> QED  BY <3>2 DEF QueueInv, TypeOK, NoGarbage
  <2> QED  BY <2>1, <2>2 DEF Contents
<1>2. ASSUME NEW v \in Value, TryPushBack(v)
      PROVE  QueueInv' /\ Fifo!Next
  <2>1. CASE Store(v)
    <3>1. QueueInv' /\ Len(Contents) < Capacity /\ Contents' = Append(Contents, v)
      BY <2>1, StoreContents
    <3>2. result' = Fifo!Done
      BY <2>1 DEF Store, Done, Fifo!Done
    <3> QED  BY <3>1, <3>2 DEF Fifo!Next, Fifo!TryPushBack
  <2>2. CASE IsFull /\ result' = Refused /\ UNCHANGED <<size, head, tail, buffer>>
    <3>1. QueueInv' /\ Contents' = Contents
      BY <2>2, RefusedContents DEF Results, Refused
    <3> QED  BY <1>1, <2>2, <3>1
             DEF Fifo!Next, Fifo!TryPushBack, IsFull, Refused, Fifo!Refused
  <2> QED  BY <1>2, <2>1, <2>2 DEF TryPushBack
<1>3. ASSUME NEW v \in Value, PushBack(v)
      PROVE  QueueInv' /\ Fifo!Next
  <2>1. CASE Store(v)
    <3>1. QueueInv' /\ Len(Contents) < Capacity /\ Contents' = Append(Contents, v)
      BY <2>1, StoreContents
    <3>2. result' = Fifo!Done
      BY <2>1 DEF Store, Done, Fifo!Done
    <3> QED  BY <3>1, <3>2 DEF Fifo!Next, Fifo!PushBack
  <2>2. CASE /\ IsFull /\ result' = Thrown("ResourceExhausted")
             /\ UNCHANGED <<size, head, tail, buffer>>
    <3>1. QueueInv' /\ Contents' = Contents
      BY <2>2, RefusedContents DEF Results, Thrown
    <3> QED  BY <1>1, <2>2, <3>1
             DEF Fifo!Next, Fifo!PushBack, IsFull, Thrown, Fifo!Thrown
  <2> QED  BY <1>3, <2>1, <2>2 DEF PushBack
<1>4. ASSUME PopFront
      PROVE  QueueInv' /\ Fifo!Next
  <2>1. CASE ~IsEmpty
    <3>1. /\ QueueInv' /\ Contents # <<>> /\ Contents' = Tail(Contents)
          /\ result' = Returned(Head(Contents))
      BY <1>4, <2>1, PopContents
    <3> QED  BY <3>1 DEF Fifo!Next, Fifo!PopFront, Returned, Fifo!Returned
  <2>2. CASE IsEmpty
    <3>1. /\ result' = Thrown("FailedPrecondition")
          /\ UNCHANGED <<size, head, tail, buffer>>
      BY <1>4, <2>2 DEF PopFront
    <3>2. QueueInv' /\ Contents' = Contents
      BY <3>1, RefusedContents DEF Results, Thrown
    <3>3. Contents = <<>>
      BY <1>1, <2>2 DEF IsEmpty
    <3> QED  BY <3>1, <3>2, <3>3 DEF Fifo!Next, Fifo!PopFront, Thrown, Fifo!Thrown
  <2> QED  BY <2>1, <2>2
<1>5. ASSUME UNCHANGED vars
      PROVE  QueueInv' /\ UNCHANGED <<Contents, result>>
  <2>1. \A i : SlotOf(i)' = SlotOf(i)
    BY <1>5 DEF vars, SlotOf
  <2>2. UNCHANGED <<Contents, result>>
    BY <1>5, <2>1 DEF vars, Contents
  <2>3. QueueInv'
    BY <1>5, <2>1 DEF vars, QueueInv, TypeOK, IndicesAgree, NoGarbage
  <2> QED  BY <2>2, <2>3
<1> QED  BY <1>2, <1>3, <1>4, <1>5 DEF Next

\* The queue's three counters always agree, and no slot that was never written
\* is handed out: for every capacity, zero included.
THEOREM QueueSafe == Spec => [](TypeOK /\ IndicesAgree /\ NoGarbage)
<1>1. QueueInv /\ [Next]_vars => QueueInv'
  BY StepInv
<1> QED  BY InitInv, <1>1, PTL DEF Spec, QueueInv

\* CircularQueue implements the bounded FIFO queue the scheduler relies on.
THEOREM QueueImplementsFifo == Spec => ImplementsFifo
<1>1. Init => Fifo!Init
  <2> SUFFICES ASSUME Init PROVE Fifo!Init
    OBVIOUS
  <2>1. Contents = <<>>
    BY DEF Init, Contents
  <2> QED  BY <2>1 DEF Init, Fifo!Init, Done, Fifo!Done
<1>2. QueueInv /\ [Next]_vars => QueueInv' /\ [Fifo!Next]_(Fifo!fifoVars)
  BY StepInv DEF Fifo!fifoVars
<1> QED  BY InitInv, <1>1, <1>2, PTL DEF Spec, ImplementsFifo, Fifo!Spec
=============================================================================
