--------------------------- MODULE CoReaderProofs ---------------------------
(***************************************************************************)
(* The safety of CoReader's windows for every source, every buffer size    *)
(* and every sequence of calls.                                            *)
(*                                                                         *)
(* The windows' arithmetic is inductive together with ScanInv: once a      *)
(* read_until has asked the source for bytes, the two windows together are *)
(* as long as its limit, which is why its index stays inside the buffer    *)
(* although it runs ahead of the loaded bytes when the source delivers     *)
(* nothing.                                                                *)
(***************************************************************************)
EXTENDS CoReader, SequenceTheorems, TLAPS

\* Where the index of a read_until may be.
ScanInv ==
  /\ pc \in {"scan", "match"} => delim # <<>>
  /\ delim # <<>> /\ pc \in {"load", "match"} => i < want
  /\ delim # <<>> /\ pc = "load" => i >= readSize /\ asked + i = want
  /\ \/ delim # <<>> /\ pc = "load"
     \/ pc = "match" /\ i >= readSize
     \/ pc = "scan" /\ i > readSize
     => readAt >= 0 /\ readSize + writeSize >= want

Inv ==
  /\ TypeOK
  /\ WindowsFit
  /\ HoldsTheStream
  /\ LoadsInsideBuffer
  /\ ScanInv
  /\ ViewIsNext

\* The inductive invariant keeps the index of read_until inside the buffer.
LEMMA InvPeeks == Inv => PeeksInsideBuffer
<1> SUFFICES ASSUME Inv, pc = "match"
             PROVE  readAt >= 0 /\ readAt + i < capacity
  BY DEF PeeksInsideBuffer
<1>1. /\ readAt \in Int /\ readSize \in Nat /\ writeAt \in Int /\ writeSize \in Nat
      /\ capacity \in Nat /\ i \in Nat /\ want \in Nat
  BY DEF Inv, TypeOK
<1>2. /\ i < want
      /\ i >= readSize => readAt >= 0 /\ readSize + writeSize >= want
  BY DEF Inv, ScanInv
<1>3. \/ readAt = -1 /\ readSize = 0
      \/ readAt >= 0 /\ readAt + readSize + writeSize = capacity
  BY <1>1 DEF Inv, WindowsFit, Nowhere
<1> QED  BY <1>1, <1>2, <1>3

-----------------------------------------------------------------------------
(* The three ways of making room. *)

\* What adjust_buffers leaves behind: room for n bytes, the loaded bytes
\* unharmed.
RoomFor(n) ==
  /\ capacity' \in Nat /\ capacity' <= MaximumSize
  /\ buffer' \in [0..(capacity' - 1) -> 0..MaxBytes]
  /\ readAt' \in Int /\ readSize' \in Nat /\ writeAt' \in Int /\ writeSize' \in Nat
  /\ readAt' >= 0 /\ writeAt' >= 0
  /\ readSize' = readSize
  /\ writeAt' = readAt' + readSize'
  /\ writeAt' + writeSize' = capacity'
  /\ n <= writeSize' /\ writeSize <= writeSize'
  /\ \A j \in 0..(readSize - 1) : buffer'[readAt' + j] = buffer[readAt + j]

LEMMA MoveUpMakesRoom ==
  ASSUME TypeOK, WindowsFit, NEW n \in Nat, n > writeSize, ~MustRealloc(n), MoveUp
  PROVE  RoomFor(n)
<1>1. /\ readAt \in Int /\ readSize \in Nat /\ writeAt \in Int /\ writeSize \in Nat
      /\ capacity \in Nat /\ MaximumSize \in Nat /\ MaxBytes \in Nat
      /\ buffer \in [0..(capacity - 1) -> 0..MaxBytes]
  BY SizesAssumption, MaxBytesAssumption DEF TypeOK
<1>2. /\ readAt >= 0 /\ writeAt = readAt + readSize
      /\ writeAt + writeSize = capacity /\ capacity <= MaximumSize
      /\ readAt + writeSize >= n
  BY <1>1 DEF WindowsFit, MustRealloc, AdditionalSpace, Nowhere
<1>3. /\ readAt' = 0 /\ readSize' = readSize
      /\ writeAt' = readSize /\ writeSize' = capacity - readSize
      /\ capacity' = capacity
      /\ buffer' = [a \in 0..(capacity - 1) |->
                      IF a < readSize THEN buffer[readAt + a] ELSE buffer[a]]
  BY DEF MoveUp, WindowsAtFront
<1>4. \A a \in 0..(capacity - 1) : a < readSize => readAt + a \in 0..(capacity - 1)
  <2> SUFFICES ASSUME NEW a \in 0..(capacity - 1), a < readSize
               PROVE  readAt + a \in 0..(capacity - 1)
    OBVIOUS
  <2>1. readAt + a <= capacity - 1
    BY <1>1, <1>2
  <2> QED  BY <1>1, <1>2, <2>1
<1>5. buffer' \in [0..(capacity - 1) -> 0..MaxBytes]
  BY <1>1, <1>3, <1>4
<1>6. \A j \in 0..(readSize - 1) : j \in 0..(capacity - 1) /\ j < readSize
  BY <1>1, <1>2
<1>7. ASSUME NEW j \in 0..(readSize - 1) PROVE buffer'[readAt' + j] = buffer[readAt + j]
  <2>1. j \in 0..(capacity - 1) /\ j < readSize /\ readAt' + j = j
    BY <1>1, <1>3, <1>6
  <2> QED  BY <1>3, <2>1
<1>8. buffer' \in [0..(capacity' - 1) -> 0..MaxBytes]
  BY <1>3, <1>5
<1>9. /\ capacity' = capacity /\ readAt' = 0 /\ readSize' = readSize
      /\ writeAt' = readSize /\ writeSize' = capacity - readSize
  BY <1>3
<1> QED  BY <1>1, <1>2, <1>9, <1>7, <1>8 DEF RoomFor

LEMMA ReallocMakesRoom ==
  ASSUME TypeOK, WindowsFit, NEW n \in Nat, n > writeSize, ~Exhausted(n), MustRealloc(n),
         ReallocBuffers(capacity + AdditionalSpace(n))
  PROVE  RoomFor(n)
<1> DEFINE total == capacity + AdditionalSpace(n)
<1>1. /\ readAt \in Int /\ readSize \in Nat /\ writeAt \in Int /\ writeSize \in Nat
      /\ capacity \in Nat /\ MaximumSize \in Nat /\ MaxBytes \in Nat
      /\ buffer \in [0..(capacity - 1) -> 0..MaxBytes]
  BY SizesAssumption, MaxBytesAssumption DEF TypeOK
<1>2. /\ total \in Nat /\ total = capacity + n - writeSize /\ total <= MaximumSize
  BY <1>1 DEF AdditionalSpace, Exhausted
<1>3. readSize + writeSize <= capacity
  BY <1>1 DEF WindowsFit, Nowhere
<1>4. readSize > 0 => readAt >= 0 /\ readAt + readSize <= capacity
  BY <1>1 DEF WindowsFit
<1> HIDE DEF total
<1>5. PICK size \in total..(2 * (capacity + total)) :
        /\ capacity' = Least(size, MaximumSize)
        /\ buffer' = [a \in 0..(Least(size, MaximumSize) - 1) |->
                        IF a < readSize THEN buffer[readAt + a] ELSE 0]
        /\ readAt' = 0 /\ readSize' = readSize
        /\ writeAt' = readSize /\ writeSize' = Least(size, MaximumSize) - readSize
  BY DEF ReallocBuffers, WindowsAtFront, total
<1> DEFINE newSize == Least(size, MaximumSize)
<1>6. newSize \in Nat /\ newSize <= MaximumSize /\ newSize >= total
  BY <1>1, <1>2 DEF Least
<1> HIDE DEF newSize
<1>7. newSize - readSize >= n /\ newSize >= readSize
  BY <1>1, <1>2, <1>3, <1>6
<1>8. \A a \in 0..(newSize - 1) : a < readSize => buffer[readAt + a] \in 0..MaxBytes
  <2> SUFFICES ASSUME NEW a \in 0..(newSize - 1), a < readSize
               PROVE  buffer[readAt + a] \in 0..MaxBytes
    OBVIOUS
  <2>1. readAt + a \in 0..(capacity - 1)
    BY <1>1, <1>4, <1>6
  <2> QED  BY <1>1, <2>1
<1>9. /\ capacity' = newSize
      /\ buffer' = [a \in 0..(newSize - 1) |->
                      IF a < readSize THEN buffer[readAt + a] ELSE 0]
      /\ readAt' = 0 /\ readSize' = readSize
      /\ writeAt' = readSize /\ writeSize' = newSize - readSize
  BY <1>5 DEF newSize
<1>10. buffer' \in [0..(newSize - 1) -> 0..MaxBytes]
  BY <1>1, <1>8, <1>9
<1>11. \A j \in 0..(readSize - 1) : j \in 0..(newSize - 1) /\ j < readSize
  BY <1>1, <1>6, <1>7
<1>12. ASSUME NEW j \in 0..(readSize - 1) PROVE buffer'[readAt' + j] = buffer[readAt + j]
  <2>1. j \in 0..(newSize - 1) /\ j < readSize /\ readAt' + j = j
    BY <1>1, <1>9, <1>11
  <2> QED  BY <1>9, <2>1
<1>13. buffer' \in [0..(capacity' - 1) -> 0..MaxBytes]
  BY <1>9, <1>10
<1>14. /\ capacity' = newSize /\ readAt' = 0 /\ readSize' = readSize
       /\ writeAt' = readSize /\ writeSize' = newSize - readSize
  BY <1>9
<1> QED  BY <1>1, <1>6, <1>7, <1>12, <1>13, <1>14 DEF RoomFor

\* _load_buffer always finds room for what it asks the source for.
LEMMA AdjustMakesRoom ==
  ASSUME TypeOK, WindowsFit, NEW n \in Nat \ {0}, ~Exhausted(n), AdjustBuffers(n)
  PROVE  RoomFor(n)
<1>1. CASE n <= writeSize /\ UNCHANGED windows
  <2>1. /\ readAt \in Int /\ readSize \in Nat /\ writeAt \in Int /\ writeSize \in Nat
        /\ writeSize > 0
    BY <1>1 DEF TypeOK
  <2>2. /\ readAt >= 0 /\ writeAt = readAt + readSize /\ writeAt + writeSize = capacity
        /\ capacity <= MaximumSize
    BY <2>1 DEF WindowsFit
  <2> QED  BY <1>1, <2>1, <2>2 DEF RoomFor, windows, TypeOK
<1>2. CASE n > writeSize /\ ~MustRealloc(n) /\ MoveUp
  BY <1>2, MoveUpMakesRoom
<1>3. CASE /\ n > writeSize
           /\ MustRealloc(n)
           /\ ReallocBuffers(capacity + AdditionalSpace(n))
  BY <1>3, ReallocMakesRoom
<1> QED  BY <1>1, <1>2, <1>3 DEF AdjustBuffers

-----------------------------------------------------------------------------
(* The parts of the invariant that every call's end has to restore. *)

LEMMA EndsKeepsInv == ASSUME Inv, NEW o \in {"empty", "threw"}, Ends(o) PROVE Inv'
<1> USE DEF Ends, Leaves, source, windows
<1>1. TypeOK'
  BY DEF Inv, TypeOK, Nowhere, Outcome
<1>2. WindowsFit' /\ HoldsTheStream'
  BY DEF Inv, WindowsFit, HoldsTheStream
<1>3. LoadsInsideBuffer' /\ ScanInv' /\ ViewIsNext'
  BY DEF LoadsInsideBuffer, ScanInv, ViewIsNext
<1> QED  BY <1>1, <1>2, <1>3 DEF Inv

LEMMA ReturnsKeepsInv == ASSUME Inv, NEW n \in Nat, n <= readSize, Returns(n) PROVE Inv'
<1> USE DEF Returns, Leaves, source, TrimRead
<1>0. /\ readAt \in Int /\ readSize \in Nat /\ consumed \in Nat /\ Len(stream) \in Nat
      /\ readAt' = readAt + n /\ readSize' = readSize - n
      /\ consumed' = consumed + n /\ buffer' = buffer /\ stream' = stream
      /\ last' = [outcome |-> "ok", at |-> readAt, from |-> consumed, size |-> n]
  BY DEF Inv, TypeOK
<1>1. TypeOK'
  BY <1>0 DEF Inv, TypeOK, Outcome
<1>2. WindowsFit'
  <2>1. CASE readAt = -1 /\ readSize = 0 /\ writeSize = 0
    BY <1>0, <2>1 DEF Inv, WindowsFit, Nowhere
  <2>2. CASE readAt >= 0
    <3>1. /\ capacity' = capacity /\ writeAt' = writeAt /\ writeSize' = writeSize
          /\ capacity <= MaximumSize /\ writeAt = readAt + readSize
          /\ writeAt + writeSize = capacity
      BY <2>2 DEF Inv, WindowsFit, Nowhere
    <3>2. readAt' >= 0 /\ readAt' + readSize' = readAt + readSize
      BY <1>0, <2>2
    <3> QED  BY <3>1, <3>2 DEF WindowsFit
  <2> QED  BY <2>1, <2>2 DEF Inv, WindowsFit, Nowhere
<1>3. HoldsTheStream'
  <2>1. consumed' + readSize' = Len(stream')
    BY <1>0 DEF Inv, HoldsTheStream
  <2>2. ASSUME NEW j \in 0..(readSize' - 1)
        PROVE  buffer'[readAt' + j] = consumed' + 1 + j
    <3>1. n + j \in 0..(readSize - 1) /\ readAt + (n + j) = readAt' + j
      BY <1>0
    <3>2. buffer[readAt + (n + j)] = consumed + 1 + (n + j)
      BY <3>1 DEF Inv, HoldsTheStream
    <3> QED  BY <1>0, <3>1, <3>2
  <2> QED  BY <2>1, <2>2 DEF HoldsTheStream
<1>4. ViewIsNext'
  <2>1. \A j \in 0..(n - 1) : j \in 0..(readSize - 1)
    BY <1>0
  <2>2. /\ last'.outcome = "ok" /\ last'.at = readAt /\ last'.from = consumed
        /\ last'.size = n
    BY <1>0
  <2>3. \A j \in 0..(n - 1) : buffer'[readAt + j] = consumed + 1 + j
    BY <1>0, <2>1 DEF Inv, HoldsTheStream
  <2> QED  BY <1>0, <2>2, <2>3 DEF ViewIsNext
<1>5. LoadsInsideBuffer' /\ ScanInv'
  BY DEF LoadsInsideBuffer, ScanInv
<1> QED  BY <1>1, <1>2, <1>3, <1>4, <1>5 DEF Inv

\* The windows after _load_buffer made room, whoever called it.
LEMMA LoadKeepsWindows ==
  ASSUME Inv, NEW n \in Nat \ {0}, LoadBuffer(n)
  PROVE  /\ RoomFor(n)
         /\ WindowsFit' /\ HoldsTheStream' /\ LoadsInsideBuffer' /\ ViewIsNext'
<1>1. RoomFor(n)
  BY AdjustMakesRoom DEF Inv, LoadBuffer
<1>2. WindowsFit'
  BY <1>1 DEF RoomFor, WindowsFit
<1>5. LoadsInsideBuffer'
  <2>1. asked' = n
    BY DEF LoadBuffer
  <2>2. writeAt' >= 0
    BY <1>1 DEF RoomFor
  <2> QED  BY <1>1, <2>1, <2>2 DEF RoomFor, LoadsInsideBuffer
<1>3. HoldsTheStream'
  BY <1>1 DEF Inv, HoldsTheStream, RoomFor, LoadBuffer, source
<1>4. ViewIsNext'
  BY DEF ViewIsNext, LoadBuffer
<1> QED  BY <1>1, <1>2, <1>3, <1>4, <1>5
-----------------------------------------------------------------------------
(* One lemma per operation. *)

\* The variables that adjust_buffers does not touch keep their types.
LEMMA LoadKeepsTypes ==
  ASSUME TypeOK, NEW n \in Nat \ {0}, LoadBuffer(n), RoomFor(n),
         want' \in Nat, delim' \in Delimiter \cup {<<>>},
         i' \in Nat, strPos' \in Nat, peeked' \in BOOLEAN
  PROVE  TypeOK'
<1>1. asked' = n /\ pc' = "load" /\ UNCHANGED <<source, consumed, last>>
  BY DEF LoadBuffer
<1>2. /\ stream' \in Seq(Byte) /\ Len(stream') <= MaxBytes /\ good' \in BOOLEAN
      /\ consumed' \in Nat /\ last' \in [outcome : Outcome, at : Int, from : Nat, size : Nat]
  BY <1>1 DEF TypeOK, source
<1> QED  BY <1>1, <1>2 DEF TypeOK, RoomFor

LEMMA ReadLoadsKeepsInv == ASSUME Inv, NEW n \in ReadSize, ReadLoads(n) PROVE Inv'
<1>1. n \in Nat /\ readSize \in Nat /\ n - readSize \in Nat \ {0}
  BY ReadSizeAssumption DEF Inv, TypeOK, ReadLoads
<1>2. /\ RoomFor(n - readSize)
      /\ WindowsFit' /\ HoldsTheStream' /\ LoadsInsideBuffer' /\ ViewIsNext'
  BY <1>1, LoadKeepsWindows DEF ReadLoads
<1>3. /\ want' = n /\ delim' = <<>> /\ i' = 0 /\ strPos' = 0 /\ peeked' = FALSE
      /\ pc' = "load"
  BY DEF ReadLoads, ReadBegins, LoadBuffer
<1>4. TypeOK'
  BY <1>1, <1>2, <1>3, LoadKeepsTypes DEF Inv, ReadLoads
<1>5. ScanInv'
  BY <1>3 DEF ScanInv
<1> QED  BY <1>2, <1>4, <1>5 DEF Inv

LEMMA ScanLoadsKeepsInv == ASSUME Inv, ScanLoads PROVE Inv'
<1>1. /\ want \in Nat /\ i \in Nat /\ i < want /\ want - i \in Nat \ {0}
      /\ readSize \in Nat /\ writeSize \in Nat /\ i >= readSize
  BY DEF Inv, TypeOK, ScanLoads
<1>2. /\ RoomFor(want - i)
      /\ WindowsFit' /\ HoldsTheStream' /\ LoadsInsideBuffer' /\ ViewIsNext'
  BY <1>1, LoadKeepsWindows DEF ScanLoads
<1>3. /\ want' = want /\ delim' = delim /\ i' = i /\ strPos' = strPos /\ peeked' = peeked
      /\ pc' = "load" /\ asked' = want - i
  BY DEF ScanLoads, LoadBuffer, call, scan
<1>4. TypeOK'
  BY <1>1, <1>2, <1>3, LoadKeepsTypes DEF Inv, TypeOK, ScanLoads
<1>5. ScanInv'
  <2>1. /\ readSize' = readSize /\ readAt' >= 0 /\ writeSize' \in Nat
        /\ want - i <= writeSize' /\ writeSize <= writeSize'
    BY <1>2 DEF RoomFor
  <2>2. i > readSize => readSize + writeSize >= want
    BY DEF Inv, ScanInv, ScanLoads
  <2> DEFINE w == writeSize'
  <2>3. w \in Nat /\ want - i <= w /\ writeSize <= w
    BY <2>1
  <2> HIDE DEF w
  <2>4. readSize + w >= want
    BY <1>1, <2>2, <2>3
  <2>5. asked' + i = want
    BY <1>1, <1>3
  <2>6. readSize' + writeSize' >= want'
    BY <1>3, <2>1, <2>4 DEF w
  <2>7. i' < want' /\ i' >= readSize' /\ asked' + i' = want' /\ readAt' >= 0
    BY <1>1, <1>3, <2>1, <2>5
  <2> QED  BY <1>3, <2>6, <2>7 DEF ScanInv, Inv, ScanLoads
<1> QED  BY <1>2, <1>4, <1>5 DEF Inv

\* What leaves the windows and the last view alone keeps their invariants.
LEMMA SameWindows ==
  ASSUME Inv, UNCHANGED <<source, windows, consumed, asked, last>>,
         want' \in Nat, delim' \in Delimiter \cup {<<>>},
         i' \in Nat, strPos' \in Nat, peeked' \in BOOLEAN,
         pc' \in {"take", "scan", "match", "undefined"}
  PROVE  /\ TypeOK' /\ WindowsFit' /\ HoldsTheStream' /\ LoadsInsideBuffer' /\ ViewIsNext'
<1> USE DEF source, windows
<1>1. TypeOK'
  BY DEF Inv, TypeOK
<1>2. WindowsFit' /\ HoldsTheStream'
  BY DEF Inv, WindowsFit, HoldsTheStream
<1>3. LoadsInsideBuffer' /\ ViewIsNext'
  BY DEF LoadsInsideBuffer, ViewIsNext
<1> QED  BY <1>1, <1>2, <1>3

LEMMA ReadHasEnoughKeepsInv == ASSUME Inv, NEW n \in ReadSize, ReadHasEnough(n) PROVE Inv'
<1>1. /\ want' = n /\ n \in Nat /\ delim' = <<>> /\ i' = 0 /\ strPos' = 0
      /\ peeked' = FALSE /\ pc' = "take"
      /\ UNCHANGED <<source, windows, consumed, asked, last>>
  BY ReadSizeAssumption DEF ReadHasEnough, ReadBegins
<1>2. TypeOK' /\ WindowsFit' /\ HoldsTheStream' /\ LoadsInsideBuffer' /\ ViewIsNext'
  BY <1>1, SameWindows
<1>3. ScanInv'
  BY <1>1 DEF ScanInv
<1> QED  BY <1>2, <1>3 DEF Inv

LEMMA UntilBeginsKeepsInv ==
  ASSUME Inv, NEW d \in Delimiter, NEW limit \in Limit, UntilBegins(d, limit)
  PROVE  Inv'
<1>1. /\ want' \in Nat /\ delim' = d /\ d # <<>> /\ i' = 0 /\ strPos' = 0
      /\ peeked' = FALSE /\ pc' = "scan"
      /\ UNCHANGED <<source, windows, consumed, asked, last>>
  BY LimitAssumption, SizesAssumption, DelimiterAssumption DEF UntilBegins
<1>2. TypeOK' /\ WindowsFit' /\ HoldsTheStream' /\ LoadsInsideBuffer' /\ ViewIsNext'
  BY <1>1, SameWindows
<1>3. readSize' = readSize /\ readSize \in Nat
  BY <1>1 DEF Inv, TypeOK, windows
<1>4. ~(i' > readSize')
  BY <1>1, <1>3
<1>5. ScanInv'
  BY <1>1, <1>4 DEF ScanInv
<1> QED  BY <1>2, <1>5 DEF Inv

LEMMA ScanStepKeepsInv == ASSUME Inv, ScanLoaded \/ ScanFallsOff PROVE Inv'
<1>1. /\ UNCHANGED <<source, windows, consumed, call, scan, asked, last>>
      /\ pc = "scan" /\ pc' \in {"match", "undefined"}
      /\ pc' = "match" => i < want /\ i < readSize
  BY DEF ScanLoaded, ScanFallsOff
<1>2. want' = want /\ delim' = delim /\ i' = i /\ strPos' = strPos /\ peeked' = peeked
  BY <1>1 DEF call, scan
<1>3. TypeOK' /\ WindowsFit' /\ HoldsTheStream' /\ LoadsInsideBuffer' /\ ViewIsNext'
  <2>1. want \in Nat /\ delim \in Delimiter \cup {<<>>} /\ i \in Nat /\ strPos \in Nat
        /\ peeked \in BOOLEAN
    BY DEF Inv, TypeOK
  <2> QED  BY <1>1, <1>2, <2>1, SameWindows
<1>4. i \in Nat /\ readSize \in Nat /\ readSize' = readSize
  BY <1>1 DEF Inv, TypeOK, windows
<1>5. pc' = "match" => i' < want' /\ ~(i' >= readSize') /\ delim' # <<>>
  BY <1>1, <1>2, <1>4 DEF Inv, ScanInv
<1>6. ScanInv'
  BY <1>1, <1>5 DEF ScanInv
<1> QED  BY <1>3, <1>6 DEF Inv

LEMMA GoesOnKeepsInv ==
  ASSUME Inv, pc = "match", NEW matched \in Nat, GoesOn(matched)
  PROVE  Inv'
<1>1. /\ UNCHANGED <<source, windows, consumed, asked, last>>
      /\ pc' = "scan" /\ want' = want /\ delim' = delim
      /\ i' = i + 1 /\ strPos' = matched /\ peeked' = (peeked \/ i >= readSize)
  BY DEF GoesOn, call
<1>2. /\ want \in Nat /\ delim \in Delimiter \cup {<<>>} /\ i \in Nat
      /\ readAt \in Int /\ readSize \in Nat /\ writeSize \in Nat
  BY DEF Inv, TypeOK
<1>3. TypeOK' /\ WindowsFit' /\ HoldsTheStream' /\ LoadsInsideBuffer' /\ ViewIsNext'
  <2>1. i' \in Nat /\ peeked' \in BOOLEAN
    BY <1>1, <1>2
  <2> QED  BY <1>1, <1>2, <2>1, SameWindows
<1>4. ScanInv'
  <2>1. delim # <<>> /\ (i >= readSize => readAt >= 0 /\ readSize + writeSize >= want)
    BY DEF Inv, ScanInv
  <2>2. i + 1 > readSize => i >= readSize
    BY <1>2
  <2>3. readAt' = readAt /\ readSize' = readSize /\ writeSize' = writeSize
    BY <1>1 DEF windows
  <2> QED  BY <1>1, <2>1, <2>2, <2>3 DEF ScanInv
<1> QED  BY <1>3, <1>4 DEF Inv
\* A delivery extends the stream and the read window by the same bytes.
LEMMA SourceDeliversKeepsInv ==
  ASSUME Inv, NEW k \in 0..MaxBytes, NEW bytes \in [1..k -> Byte], NEW g \in BOOLEAN,
         SourceDelivers(k, bytes, g)
  PROVE  Inv'
<1>1. /\ pc = "load" /\ k <= asked /\ Len(stream) + k <= MaxBytes
      /\ stream' = stream \o bytes /\ good' = g
      /\ readAt' = readAt /\ readSize' = readSize + k
      /\ writeAt' = writeAt + k /\ writeSize' = writeSize - k
      /\ capacity' = capacity /\ consumed' = consumed /\ want' = want /\ delim' = delim
      /\ i' = i /\ strPos' = strPos /\ peeked' = peeked /\ asked' = asked /\ last' = last
      /\ pc' = IF delim = <<>> THEN "take" ELSE "match"
  BY DEF SourceDelivers, TrimWrite, call, scan
<1>2. buffer' = [a \in 0..(capacity - 1) |->
                   IF a \in writeAt..(writeAt + k - 1)
                   THEN Len(stream) + 1 + (a - writeAt) ELSE buffer[a]]
  BY DEF SourceDelivers
<1>3. /\ readAt \in Int /\ readSize \in Nat /\ writeAt \in Int /\ writeSize \in Nat
      /\ capacity \in Nat /\ consumed \in Nat /\ asked \in Nat /\ MaxBytes \in Nat
      /\ stream \in Seq(Byte) /\ Len(stream) \in Nat /\ k \in Nat
      /\ buffer \in [0..(capacity - 1) -> 0..MaxBytes]
  BY MaxBytesAssumption DEF Inv, TypeOK
<1>4. writeAt >= 0 /\ asked <= writeSize
  BY <1>1 DEF Inv, LoadsInsideBuffer
<1>5. stream' \in Seq(Byte) /\ Len(stream') = Len(stream) + k
  <2>1. bytes \in Seq(Byte) /\ Len(bytes) = k
    BY <1>3
  <2>2. stream \o bytes \in Seq(Byte) /\ Len(stream \o bytes) = Len(stream) + Len(bytes)
    BY <1>3, <2>1, ConcatProperties
  <2> QED  BY <1>1, <2>1, <2>2
<1>6. TypeOK'
  <2>1. ASSUME NEW a \in writeAt..(writeAt + k - 1)
        PROVE  Len(stream) + 1 + (a - writeAt) \in 0..MaxBytes
    <3>1. a - writeAt \in Nat /\ 1 + (a - writeAt) <= k
      BY <1>3
    <3> QED  BY <1>1, <1>3, <3>1
  <2>2. buffer' \in [0..(capacity - 1) -> 0..MaxBytes]
    BY <1>2, <1>3, <2>1
  <2>3. readSize + k \in Nat /\ writeAt + k \in Int /\ writeSize - k \in Nat
    BY <1>1, <1>3, <1>4
  <2>4. Len(stream') <= MaxBytes
    BY <1>1, <1>5
  <2>5. /\ want \in Nat /\ delim \in Delimiter \cup {<<>>} /\ i \in Nat /\ strPos \in Nat
        /\ peeked \in BOOLEAN
        /\ last \in [outcome : Outcome, at : Int, from : Nat, size : Nat]
    BY DEF Inv, TypeOK
  <2>6. buffer' \in [0..(capacity' - 1) -> 0..MaxBytes]
    BY <1>1, <2>2
  <2> QED  BY <1>1, <1>3, <1>5, <2>3, <2>4, <2>5, <2>6 DEF TypeOK
<1>7. WindowsFit'
  <2>1. CASE readAt = -1 /\ readSize = 0 /\ writeSize = 0
    <3>1. k = 0
      BY <1>1, <1>3, <1>4, <2>1
    <3> QED  BY <1>1, <1>3, <2>1, <3>1 DEF Inv, WindowsFit, Nowhere
  <2>2. CASE readAt >= 0 /\ writeAt = readAt + readSize /\ writeAt + writeSize = capacity
    <3>1. /\ writeAt + k = readAt + (readSize + k)
          /\ (writeAt + k) + (writeSize - k) = capacity
      BY <1>3, <2>2
    <3> QED  BY <1>1, <2>2, <3>1 DEF Inv, WindowsFit
  <2> QED  BY <2>1, <2>2 DEF Inv, WindowsFit, Nowhere
<1>8. HoldsTheStream'
  <2> DEFINE len == Len(stream)
  <2>1. consumed + readSize = len /\ len \in Nat
    BY <1>3 DEF Inv, HoldsTheStream
  <2> HIDE DEF len
  <2>2. consumed' + readSize' = Len(stream')
    <3>1. consumed + (readSize + k) = len + k
      BY <1>3, <2>1
    <3> QED  BY <1>1, <1>5, <3>1 DEF len
  <2>3. ASSUME NEW j \in 0..(readSize + k - 1)
        PROVE  buffer'[readAt + j] = consumed + 1 + j
    <3>1. /\ readAt >= 0 /\ writeAt = readAt + readSize /\ writeAt + writeSize = capacity
      BY <1>1, <1>3, <1>4 DEF Inv, WindowsFit
    <3>2. readAt + j \in 0..(capacity - 1)
      BY <1>1, <1>3, <1>4, <3>1
    <3>3. CASE j < readSize
      <4>1. ~(readAt + j \in writeAt..(writeAt + k - 1)) /\ j \in 0..(readSize - 1)
        BY <1>3, <3>1, <3>3
      <4>2. buffer[readAt + j] = consumed + 1 + j
        BY <4>1 DEF Inv, HoldsTheStream
      <4> QED  BY <1>2, <3>2, <4>1, <4>2
    <3>4. CASE j >= readSize
      <4>0. j \in Nat /\ j < readSize + k
        BY <1>3
      <4>1. readAt + j \in writeAt..(writeAt + k - 1)
        BY <1>3, <3>1, <3>4, <4>0
      <4>2. (readAt + j) - writeAt = j - readSize
        BY <1>3, <3>1, <4>0
      <4>3. len + 1 + (j - readSize) = consumed + 1 + j
        BY <1>3, <2>1, <4>0
      <4> QED  BY <1>2, <3>2, <4>1, <4>2, <4>3 DEF len
    <3> QED  BY <1>3, <3>3, <3>4
  <2>4. ASSUME NEW j \in 0..(readSize' - 1)
        PROVE  buffer'[readAt' + j] = consumed' + 1 + j
    <3>1. j \in 0..(readSize + k - 1)
      BY <1>1, <1>3
    <3> QED  BY <1>1, <2>3, <3>1
  <2> QED  BY <2>2, <2>4 DEF HoldsTheStream
<1>9. ScanInv'
  <2>1. CASE delim = <<>>
    BY <1>1, <2>1 DEF ScanInv
  <2>2. CASE delim # <<>>
    <3>1. i < want /\ readAt >= 0 /\ readSize + writeSize >= want
      BY <1>1, <2>2 DEF Inv, ScanInv
    <3>2. (readSize + k) + (writeSize - k) = readSize + writeSize
      BY <1>3
    <3>3. readSize' + writeSize' >= want
      BY <1>1, <3>1, <3>2
    <3> QED  BY <1>1, <2>2, <3>1, <3>3 DEF ScanInv
  <2> QED  BY <2>1, <2>2
<1>10. LoadsInsideBuffer' /\ ViewIsNext'
  BY <1>1 DEF LoadsInsideBuffer, ViewIsNext
<1> QED  BY <1>6, <1>7, <1>8, <1>9, <1>10 DEF Inv

LEMMA InitInv == Init => Inv
<1> SUFFICES ASSUME Init PROVE Inv
  OBVIOUS
<1>1. TypeOK
  <2>1. capacity \in Nat /\ buffer \in [0..(capacity - 1) -> 0..MaxBytes]
    BY SizesAssumption, MaxBytesAssumption DEF Init
  <2>2. stream \in Seq(Byte) /\ Len(stream) <= MaxBytes
    BY MaxBytesAssumption DEF Init
  <2>3. last \in [outcome : Outcome, at : Int, from : Nat, size : Nat]
    BY DEF Init, Nowhere, Outcome
  <2> QED  BY <2>1, <2>2, <2>3 DEF Init, TypeOK, Nowhere
<1>2. WindowsFit /\ HoldsTheStream
  BY SizesAssumption DEF Init, WindowsFit, HoldsTheStream, Nowhere
<1>3. LoadsInsideBuffer /\ ScanInv /\ ViewIsNext
  BY DEF Init, LoadsInsideBuffer, ScanInv, ViewIsNext
<1> QED  BY <1>1, <1>2, <1>3 DEF Inv

LEMMA StutterKeepsInv == Inv /\ UNCHANGED vars => Inv'
<1> SUFFICES ASSUME Inv, UNCHANGED vars PROVE Inv'
  OBVIOUS
<1> USE DEF Inv, vars, source, windows, call, scan
<1>1. TypeOK'
  BY DEF TypeOK
<1>2. WindowsFit' /\ HoldsTheStream'
  BY DEF WindowsFit, HoldsTheStream
<1>3. LoadsInsideBuffer' /\ ScanInv'
  BY DEF LoadsInsideBuffer, ScanInv
<1>4. ViewIsNext'
  BY DEF ViewIsNext
<1> QED  BY <1>1, <1>2, <1>3, <1>4

LEMMA NextKeepsInv == Inv /\ [Next]_vars => Inv'
<1> SUFFICES ASSUME Inv, [Next]_vars PROVE Inv'
  OBVIOUS
<1>1. CASE Begins
  <2>1. ASSUME NEW n \in ReadSize, ReadLoads(n) PROVE Inv'
    BY <2>1, ReadLoadsKeepsInv
  <2>2. ASSUME NEW n \in ReadSize, ReadRefused(n) PROVE Inv'
    BY <2>2, EndsKeepsInv DEF ReadRefused, LoadRefused
  <2>3. ASSUME NEW n \in ReadSize, ReadHasEnough(n) PROVE Inv'
    BY <2>3, ReadHasEnoughKeepsInv
  <2>4. ASSUME NEW d \in Delimiter, NEW limit \in Limit, UntilBegins(d, limit) PROVE Inv'
    BY <2>4, UntilBeginsKeepsInv
  <2> QED  BY <1>1, <2>1, <2>2, <2>3, <2>4 DEF Begins
<1>2. CASE Source
  <2>1. ASSUME NEW k \in 0..MaxBytes, NEW bytes \in [1..k -> Byte], NEW g \in BOOLEAN,
               SourceDelivers(k, bytes, g)
        PROVE  Inv'
    BY <2>1, SourceDeliversKeepsInv
  <2>2. CASE SourceThrows
    BY <2>2, EndsKeepsInv DEF SourceThrows
  <2> QED  BY <1>2, <2>1, <2>2 DEF Source
<1>3. CASE GoesAhead
  <2>0. /\ readSize \in Nat /\ want \in Nat /\ i \in Nat /\ strPos \in Nat
    BY DEF Inv, TypeOK
  <2>1. CASE Take
    <3>1. Least(want, readSize) \in Nat /\ Least(want, readSize) <= readSize
      BY <2>0 DEF Least
    <3> QED  BY <2>1, <3>1, ReturnsKeepsInv DEF Take
  <2>2. CASE ScanLoaded \/ ScanFallsOff
    BY <2>2, ScanStepKeepsInv
  <2>3. CASE ScanLoads
    BY <2>3, ScanLoadsKeepsInv
  <2>4. CASE ScanRefused \/ ScanAtEnd
    BY <2>4, EndsKeepsInv DEF ScanRefused, ScanAtEnd, LoadRefused
  <2>5. ASSUME NEW b \in Byte, MatchMore(b) \/ Mismatch(b) PROVE Inv'
    <3>1. strPos + 1 \in Nat /\ 0 \in Nat
      BY <2>0
    <3> QED  BY <2>5, <3>1, GoesOnKeepsInv DEF MatchMore, Mismatch
  <2>6. ASSUME NEW b \in Byte, Found(b) PROVE Inv'
    <3>1. i + 1 \in Nat
      BY <2>0
    <3> QED  BY <2>6, <3>1, ReturnsKeepsInv DEF Found
  <2>7. ASSUME NEW b \in Byte, FoundBeyond(b) PROVE Inv'
    BY <2>7, EndsKeepsInv DEF FoundBeyond
  <2> QED  BY <1>3, <2>1, <2>2, <2>3, <2>4, <2>5, <2>6, <2>7 DEF GoesAhead
<1>4. CASE UNCHANGED vars
  BY <1>4, StutterKeepsInv
<1> QED  BY <1>1, <1>2, <1>3, <1>4 DEF Next

-----------------------------------------------------------------------------
(* What read_until has found out about the loaded bytes. *)

\* The n first bytes of d stand behind position s of the stream.
Begun(st, d, s, n) == \A k \in 1..n : st[s + k] = d[k]

\* A byte up to position upto shows that d does not stand behind position s.
Refuted(st, d, s, upto) ==
  \E k \in 1..Len(d) : s + k <= upto /\ st[s + k] # d[k]

\* A proper prefix of d stands before position s, and not before position from.
Preceded(st, d, s, from) ==
  \E j \in 1..(Len(d) - 1) : s - j >= from /\ Begun(st, d, s - j, j)

\* The places from..(to - 1) are settled: d does not stand there, or it comes right
\* after a beginning of itself.
Settled(st, d, from, to, upto) ==
  \A s \in from..(to - 1) : Refuted(st, d, s, upto) \/ Preceded(st, d, s, from)

\* A read_until that met no missing byte: the partial match is the end of what it
\* looked at, and every earlier place is settled.
SeekInv ==
  delim # <<>> /\ ~peeked /\ pc \in {"scan", "load", "match"} =>
    /\ i <= readSize /\ strPos <= i /\ strPos < Len(delim)
    /\ Begun(stream, delim, consumed + i - strPos, strPos)
    /\ Settled(stream, delim, consumed, consumed + i - strPos, consumed + i)

\* The same of the chunk it returned.
ChunkInv ==
  pc = "idle" /\ last.outcome = "ok" /\ delim # <<>> /\ ~peeked =>
    /\ last.size >= Len(delim)
    /\ Begun(stream, delim, consumed - Len(delim), Len(delim))
    /\ Settled(stream, delim, last.from, consumed - Len(delim), consumed)

FindInv ==
  /\ pc = "take" => delim = <<>>
  /\ SeekInv
  /\ ChunkInv

\* Bytes that are only added behind the places looked at change nothing.
LEMMA MoreBytes ==
  ASSUME NEW st, NEW st2, NEW d, Len(d) \in Nat, NEW c \in Nat, NEW s \in Nat,
         NEW p \in Nat, c <= s, \A k \in 1..(s + p) : st2[k] = st[k],
         Begun(st, d, s, p), Settled(st, d, c, s, s + p)
  PROVE  Begun(st2, d, s, p) /\ Settled(st2, d, c, s, s + p)
<1>1. Begun(st2, d, s, p)
  <2> SUFFICES ASSUME NEW k \in 1..p PROVE st2[s + k] = d[k]
    BY DEF Begun
  <2>1. s + k \in 1..(s + p)
    OBVIOUS
  <2> QED  BY <2>1 DEF Begun
<1>2. ASSUME NEW t \in c..(s - 1)
      PROVE  Refuted(st2, d, t, s + p) \/ Preceded(st2, d, t, c)
  <2>1. CASE Refuted(st, d, t, s + p)
    <3>1. PICK k \in 1..Len(d) : t + k <= s + p /\ st[t + k] # d[k]
      BY <2>1 DEF Refuted
    <3>2. t + k \in 1..(s + p)
      BY <3>1
    <3> QED  BY <3>1, <3>2 DEF Refuted
  <2>2. CASE Preceded(st, d, t, c)
    <3>1. PICK j \in 1..(Len(d) - 1) : t - j >= c /\ Begun(st, d, t - j, j)
      BY <2>2 DEF Preceded
    <3>2. ASSUME NEW k \in 1..j PROVE st2[(t - j) + k] = d[k]
      <4>1. (t - j) + k \in 1..(s + p)
        BY <3>1
      <4> QED  BY <3>1, <4>1 DEF Begun
    <3> QED  BY <3>1, <3>2 DEF Begun, Preceded
  <2> QED  BY <2>1, <2>2 DEF Settled
<1> QED  BY <1>1, <1>2 DEF Settled

\* One more byte of the delimiter was met.
LEMMA OneMoreMatches ==
  ASSUME NEW st, NEW d, Len(d) \in Nat, NEW c \in Nat, NEW s \in Nat, NEW p \in Nat,
         Begun(st, d, s, p), Settled(st, d, c, s, s + p), st[s + (p + 1)] = d[p + 1]
  PROVE  Begun(st, d, s, p + 1) /\ Settled(st, d, c, s, s + (p + 1))
<1>1. Begun(st, d, s, p + 1)
  <2> SUFFICES ASSUME NEW k \in 1..(p + 1) PROVE st[s + k] = d[k]
    BY DEF Begun
  <2>1. k = p + 1 \/ k \in 1..p
    OBVIOUS
  <2> QED  BY <2>1 DEF Begun
<1>2. ASSUME NEW t \in c..(s - 1), Refuted(st, d, t, s + p)
      PROVE  Refuted(st, d, t, s + (p + 1))
  <2>1. PICK k \in 1..Len(d) : t + k <= s + p /\ st[t + k] # d[k]
    BY <1>2 DEF Refuted
  <2>2. t + k <= s + (p + 1)
    BY <2>1
  <2> QED  BY <2>1, <2>2 DEF Refuted
<1> QED  BY <1>1, <1>2 DEF Settled

\* Another byte was met: the match's own place is refuted by it, and every place
\* behind that one comes after the beginning that had matched.
LEMMA MismatchSettles ==
  ASSUME NEW st, NEW d, Len(d) \in Nat, NEW c \in Nat, NEW s \in Nat, NEW p \in Nat,
         c <= s, p < Len(d),
         Begun(st, d, s, p), Settled(st, d, c, s, s + p), st[s + (p + 1)] # d[p + 1]
  PROVE  Settled(st, d, c, s + (p + 1), s + (p + 1))
<1> SUFFICES ASSUME NEW t \in c..(s + (p + 1) - 1)
             PROVE  Refuted(st, d, t, s + (p + 1)) \/ Preceded(st, d, t, c)
  BY DEF Settled
<1>1. CASE t < s
  <2>1. t \in c..(s - 1)
    BY <1>1
  <2>2. CASE Refuted(st, d, t, s + p)
    <3>1. PICK k \in 1..Len(d) : t + k <= s + p /\ st[t + k] # d[k]
      BY <2>2 DEF Refuted
    <3>2. t + k <= s + (p + 1)
      BY <3>1
    <3> QED  BY <3>1, <3>2 DEF Refuted
  <2> QED  BY <2>1, <2>2 DEF Settled
<1>2. CASE t = s
  <2>1. p + 1 \in 1..Len(d) /\ t + (p + 1) <= s + (p + 1) /\ st[t + (p + 1)] # d[p + 1]
    BY <1>2
  <2> QED  BY <2>1 DEF Refuted
<1>3. CASE t > s
  <2> DEFINE j == t - s
  <2>1. j \in 1..(Len(d) - 1) /\ j <= p /\ t - j = s /\ t - j >= c
    BY <1>3
  <2> HIDE DEF j
  <2>2. ASSUME NEW k \in 1..j PROVE st[s + k] = d[k]
    <3>1. k \in 1..p
      BY <2>1
    <3> QED  BY <3>1 DEF Begun
  <2>3. Begun(st, d, t - j, j)
    BY <2>1, <2>2 DEF Begun
  <2> QED  BY <2>1, <2>3 DEF Preceded
<1> QED  BY <1>1, <1>2, <1>3

\* The byte that read_until looks at is the next one of the stream, if it was loaded.
LEMMA PeeksTheNext ==
  ASSUME Inv, NEW b, Peek(b), i < readSize
  PROVE  b = stream[consumed + i + 1]
<1>1. i \in Nat /\ readSize \in Nat /\ consumed \in Nat
  BY DEF Inv, TypeOK
<1>2. i \in 0..(readSize - 1)
  BY <1>1
<1>3. buffer[readAt + i] = consumed + 1 + i
  BY <1>2 DEF Inv, HoldsTheStream
<1>4. consumed + 1 + i # 0 /\ consumed + 1 + i = consumed + i + 1
  BY <1>1
<1> QED  BY <1>3, <1>4 DEF Peek

\* A delimiter is a sequence, and not an empty one.
LEMMA DelimLength == Inv => Len(delim) \in Nat /\ (delim # <<>> => Len(delim) > 0)
<1> SUFFICES ASSUME Inv PROVE Len(delim) \in Nat /\ (delim # <<>> => Len(delim) > 0)
  OBVIOUS
<1>1. CASE delim = <<>>
  BY <1>1
<1>2. CASE delim # <<>>
  <2>1. delim \in Seq(Byte)
    BY <1>2, DelimiterAssumption DEF Inv, TypeOK
  <2> QED  BY <1>2, <2>1
<1> QED  BY <1>1, <1>2

\* What a byte of the scan has to establish about the call so far.
LEMMA SeekFacts ==
  ASSUME Inv, SeekInv, pc = "match", ~peeked, i < readSize, NEW b, Peek(b)
  PROVE  \E s \in Nat :
           /\ s = consumed + i - strPos /\ consumed <= s /\ strPos < Len(delim)
           /\ s + strPos = consumed + i /\ s + (strPos + 1) = consumed + (i + 1)
           /\ Begun(stream, delim, s, strPos)
           /\ Settled(stream, delim, consumed, s, s + strPos)
           /\ stream[s + (strPos + 1)] = b
<1>1. /\ i \in Nat /\ strPos \in Nat /\ consumed \in Nat /\ delim # <<>>
  BY DEF Inv, TypeOK, ScanInv
<1>2. /\ strPos <= i /\ strPos < Len(delim)
      /\ Begun(stream, delim, consumed + i - strPos, strPos)
      /\ Settled(stream, delim, consumed, consumed + i - strPos, consumed + i)
  BY <1>1 DEF SeekInv
<1> DEFINE s == consumed + i - strPos
<1>3. /\ s \in Nat /\ consumed <= s /\ s + strPos = consumed + i
      /\ s + (strPos + 1) = consumed + (i + 1) /\ s + (strPos + 1) = consumed + i + 1
  BY <1>1, <1>2
<1>4. Begun(stream, delim, s, strPos) /\ Settled(stream, delim, consumed, s, s + strPos)
  BY <1>2, <1>3
<1>5. stream[s + (strPos + 1)] = b
  BY <1>3, PeeksTheNext
<1> HIDE DEF s
<1>6. s = consumed + i - strPos
  BY DEF s
<1> QED  BY <1>2, <1>3, <1>4, <1>5, <1>6

\* A call that ends otherwise than with a view leaves no chunk.
LEMMA EndsKeepsFind == ASSUME NEW o \in {"empty", "threw"}, Ends(o) PROVE FindInv'
<1>1. pc' = "idle" /\ last'.outcome = o
  BY DEF Ends, Leaves
<1> QED  BY <1>1 DEF FindInv, SeekInv, ChunkInv

\* A call that begins has settled nothing yet.
LEMMA BeginsKeepsFind ==
  ASSUME Inv, Inv', pc' \in {"load", "take", "scan"}, i' = 0, strPos' = 0,
         pc' \in {"load", "take"} => delim' = <<>>
  PROVE  FindInv'
<1>1. CASE delim' = <<>>
  BY <1>1 DEF FindInv, SeekInv, ChunkInv
<1>2. CASE delim' # <<>>
  <2>1. delim' \in Seq(Byte) /\ consumed' \in Nat /\ readSize' \in Nat
    BY <1>2, DelimiterAssumption DEF Inv, TypeOK
  <2>2. /\ i' <= readSize' /\ strPos' <= i' /\ strPos' < Len(delim')
        /\ Begun(stream', delim', consumed' + i' - strPos', strPos')
    BY <1>2, <2>1 DEF Begun
  <2>3. \A c \in Nat : c + 0 - 0 = c /\ Settled(stream', delim', c, c, c + 0)
    BY DEF Settled
  <2>4. Settled(stream', delim', consumed', consumed' + i' - strPos', consumed' + i')
    BY <2>1, <2>3
  <2> QED  BY <1>2, <2>2, <2>3, <2>4 DEF FindInv, SeekInv, ChunkInv
<1> QED  BY <1>1, <1>2

\* Steps that leave the stream and the scan alone.
LEMMA SameSeek ==
  ASSUME FindInv, UNCHANGED <<stream, consumed, delim, scan>>, readSize' = readSize,
         pc = "scan", pc' \in {"load", "match", "undefined"}
  PROVE  FindInv'
BY DEF FindInv, SeekInv, ChunkInv, scan

\* What arrives comes behind everything looked at so far.
LEMMA SourceDeliversKeepsFind ==
  ASSUME Inv, FindInv, NEW k \in 0..MaxBytes, NEW bytes \in [1..k -> Byte],
         NEW g \in BOOLEAN, SourceDelivers(k, bytes, g)
  PROVE  FindInv'
<1>1. /\ pc = "load" /\ stream' = stream \o bytes /\ readSize' = readSize + k
      /\ consumed' = consumed /\ delim' = delim /\ i' = i /\ strPos' = strPos
      /\ peeked' = peeked /\ pc' = IF delim = <<>> THEN "take" ELSE "match"
  BY DEF SourceDelivers, call, scan
<1>2. /\ stream \in Seq(Byte) /\ Len(stream) \in Nat /\ k \in Nat /\ readSize \in Nat
      /\ consumed \in Nat /\ i \in Nat /\ strPos \in Nat /\ Len(delim) \in Nat
      /\ consumed + readSize = Len(stream)
  BY MaxBytesAssumption, DelimLength DEF Inv, TypeOK, HoldsTheStream
<1>3. CASE delim = <<>> \/ peeked
  BY <1>1, <1>3 DEF FindInv, SeekInv, ChunkInv
<1>4. CASE delim # <<>> /\ ~peeked
  <2>1. /\ i <= readSize /\ strPos <= i /\ strPos < Len(delim)
        /\ Begun(stream, delim, consumed + i - strPos, strPos)
        /\ Settled(stream, delim, consumed, consumed + i - strPos, consumed + i)
    BY <1>1, <1>4 DEF FindInv, SeekInv
  <2> DEFINE s == consumed + i - strPos
  <2>2. s \in Nat /\ consumed <= s /\ s + strPos = consumed + i
    BY <1>2, <2>1
  <2>3. ASSUME NEW n \in 1..(s + strPos) PROVE (stream \o bytes)[n] = stream[n]
    <3>1. n \in 1..Len(stream)
      BY <1>2, <2>1, <2>2
    <3>2. bytes \in Seq(Byte)
      BY <1>2
    <3> QED  BY <1>2, <3>1, <3>2
  <2>4. Begun(stream, delim, s, strPos) /\ Settled(stream, delim, consumed, s, s + strPos)
    BY <2>1, <2>2
  <2> HIDE DEF s
  <2>5. /\ Begun(stream \o bytes, delim, s, strPos)
        /\ Settled(stream \o bytes, delim, consumed, s, s + strPos)
    BY <1>2, <2>2, <2>3, <2>4, MoreBytes
  <2>6. /\ Begun(stream', delim', consumed' + i' - strPos', strPos')
        /\ Settled(stream', delim', consumed', consumed' + i' - strPos', consumed' + i')
    BY <1>1, <2>2, <2>5 DEF s
  <2>7. i' <= readSize' /\ strPos' <= i' /\ strPos' < Len(delim)'
    BY <1>1, <1>2, <2>1
  <2> QED  BY <1>1, <1>4, <2>6, <2>7 DEF FindInv, SeekInv, ChunkInv
<1> QED  BY <1>3, <1>4

\* The loop goes on after a match or a mismatch.
LEMMA GoesOnKeepsFind ==
  ASSUME Inv, FindInv, NEW b, MatchMore(b) \/ Mismatch(b)
  PROVE  FindInv'
<1>1. /\ pc = "match" /\ Peek(b) /\ pc' = "scan" /\ i' = i + 1
      /\ peeked' = (peeked \/ i >= readSize)
      /\ stream' = stream /\ consumed' = consumed /\ delim' = delim /\ readSize' = readSize
  BY DEF MatchMore, Mismatch, GoesOn, source, windows, call
<1>2. i \in Nat /\ readSize \in Nat /\ consumed \in Nat /\ strPos \in Nat /\ Len(delim) \in Nat
  BY DelimLength DEF Inv, TypeOK
<1>3. CASE peeked \/ i >= readSize
  BY <1>1, <1>3 DEF FindInv, SeekInv, ChunkInv
<1>4. CASE ~peeked /\ i < readSize
  <2>1. PICK s \in Nat :
           /\ s = consumed + i - strPos /\ consumed <= s /\ strPos < Len(delim)
           /\ s + strPos = consumed + i /\ s + (strPos + 1) = consumed + (i + 1)
           /\ Begun(stream, delim, s, strPos)
           /\ Settled(stream, delim, consumed, s, s + strPos)
           /\ stream[s + (strPos + 1)] = b
    BY <1>1, <1>4, SeekFacts DEF FindInv
  <2>2. CASE MatchMore(b)
    <3>1. strPos' = strPos + 1 /\ strPos + 1 < Len(delim) /\ b = delim[strPos + 1]
      BY <2>2 DEF MatchMore, GoesOn
    <3>2. /\ Begun(stream, delim, s, strPos + 1)
          /\ Settled(stream, delim, consumed, s, s + (strPos + 1))
      BY <1>2, <2>1, <3>1, OneMoreMatches
    <3>3. s = consumed + (i + 1) - (strPos + 1) /\ i + 1 <= readSize /\ strPos + 1 <= i + 1
      BY <1>2, <1>4, <2>1
    <3>4. /\ Begun(stream', delim', consumed' + i' - strPos', strPos')
          /\ Settled(stream', delim', consumed', consumed' + i' - strPos', consumed' + i')
      BY <1>1, <2>1, <3>1, <3>2, <3>3
    <3>5. i' <= readSize' /\ strPos' <= i' /\ strPos' < Len(delim)'
      BY <1>1, <3>1, <3>3
    <3> QED  BY <1>1, <3>4, <3>5 DEF FindInv, SeekInv, ChunkInv
  <2>3. CASE Mismatch(b)
    <3>1. strPos' = 0 /\ b # delim[strPos + 1]
      BY <2>3 DEF Mismatch, GoesOn
    <3>2. Settled(stream, delim, consumed, s + (strPos + 1), s + (strPos + 1))
      BY <1>2, <2>1, <3>1, MismatchSettles
    <3>3. consumed + (i + 1) - 0 = consumed + (i + 1) /\ i + 1 <= readSize /\ 0 <= i + 1
          /\ 0 < Len(delim)
      BY <1>2, <1>4, <2>1
    <3>4. Settled(stream', delim', consumed', consumed' + i' - strPos', consumed' + i')
      BY <1>1, <2>1, <3>1, <3>2, <3>3
    <3>5. Begun(stream', delim', consumed' + i' - strPos', strPos')
      BY <3>1 DEF Begun
    <3>6. i' <= readSize' /\ strPos' <= i' /\ strPos' < Len(delim)'
      BY <1>1, <3>1, <3>3
    <3> QED  BY <1>1, <3>4, <3>5, <3>6 DEF FindInv, SeekInv, ChunkInv
  <2> QED  BY <2>2, <2>3
<1> QED  BY <1>2, <1>3, <1>4

\* The last byte of the delimiter was loaded: the chunk ends with it.
LEMMA FoundKeepsFind == ASSUME Inv, FindInv, NEW b, Found(b) PROVE FindInv'
<1>1. /\ pc = "match" /\ Peek(b) /\ b = delim[strPos + 1] /\ strPos + 1 = Len(delim)
      /\ i + 1 <= readSize /\ pc' = "idle" /\ consumed' = consumed + (i + 1)
      /\ stream' = stream /\ delim' = delim /\ peeked' = peeked
      /\ last' = [outcome |-> "ok", at |-> readAt, from |-> consumed, size |-> i + 1]
  BY DEF Found, MatchesAll, Returns, Leaves, source
<1>2. i \in Nat /\ readSize \in Nat /\ consumed \in Nat /\ strPos \in Nat /\ Len(delim) \in Nat
  BY DelimLength DEF Inv, TypeOK
<1>3. CASE peeked
  BY <1>1, <1>3 DEF FindInv, SeekInv, ChunkInv
<1>4. CASE ~peeked
  <2>0. i < readSize
    BY <1>1, <1>2
  <2>1. PICK s \in Nat :
           /\ s = consumed + i - strPos /\ consumed <= s /\ strPos < Len(delim)
           /\ s + strPos = consumed + i /\ s + (strPos + 1) = consumed + (i + 1)
           /\ Begun(stream, delim, s, strPos)
           /\ Settled(stream, delim, consumed, s, s + strPos)
           /\ stream[s + (strPos + 1)] = b
    BY <1>1, <1>4, <2>0, SeekFacts DEF FindInv
  <2>2. /\ Begun(stream, delim, s, strPos + 1)
        /\ Settled(stream, delim, consumed, s, s + (strPos + 1))
    BY <1>1, <1>2, <2>1, OneMoreMatches
  <2>3. s = consumed + (i + 1) - Len(delim) /\ i + 1 >= Len(delim)
    BY <1>1, <1>2, <2>1
  <2>4. last'.from = consumed /\ last'.size = i + 1
    BY <1>1
  <2>5. /\ Begun(stream', delim', consumed' - Len(delim'), Len(delim'))
        /\ Settled(stream', delim', last'.from, consumed' - Len(delim'), consumed')
        /\ last'.size >= Len(delim')
    BY <1>1, <2>1, <2>2, <2>3, <2>4
  <2> QED  BY <1>1, <2>5 DEF FindInv, SeekInv, ChunkInv
<1> QED  BY <1>3, <1>4

\* Every step keeps what the scan has found out.
LEMMA NextKeepsFind == Inv /\ Inv' /\ FindInv /\ [Next]_vars => FindInv'
<1> SUFFICES ASSUME Inv, Inv', FindInv, [Next]_vars PROVE FindInv'
  OBVIOUS
<1>1. CASE Begins
  <2>1. ASSUME NEW n \in ReadSize, ReadLoads(n) \/ ReadHasEnough(n) PROVE FindInv'
    BY <2>1, BeginsKeepsFind DEF ReadLoads, ReadHasEnough, ReadBegins, LoadBuffer
  <2>2. ASSUME NEW n \in ReadSize, ReadRefused(n) PROVE FindInv'
    BY <2>2, EndsKeepsFind DEF ReadRefused, LoadRefused
  <2>3. ASSUME NEW d \in Delimiter, NEW limit \in Limit, UntilBegins(d, limit) PROVE FindInv'
    BY <2>3, BeginsKeepsFind DEF UntilBegins
  <2> QED  BY <1>1, <2>1, <2>2, <2>3 DEF Begins
<1>2. CASE Source
  <2>1. ASSUME NEW k \in 0..MaxBytes, NEW bytes \in [1..k -> Byte], NEW g \in BOOLEAN,
               SourceDelivers(k, bytes, g)
        PROVE  FindInv'
    BY <2>1, SourceDeliversKeepsFind
  <2>2. CASE SourceThrows
    BY <2>2, EndsKeepsFind DEF SourceThrows
  <2> QED  BY <1>2, <2>1, <2>2 DEF Source
<1>3. CASE GoesAhead
  <2>1. CASE Take
    <3>1. pc' = "idle" /\ delim' = <<>>
      BY <2>1 DEF Take, Returns, Leaves, FindInv
    <3> QED  BY <3>1 DEF FindInv, SeekInv, ChunkInv
  <2>2. CASE ScanLoaded \/ ScanFallsOff
    BY <2>2, SameSeek DEF ScanLoaded, ScanFallsOff, source, windows, call
  <2>3. CASE ScanLoads
    <3>1. want - i \in Nat \ {0} /\ LoadBuffer(want - i)
      BY <2>3 DEF Inv, TypeOK, ScanLoads
    <3>2. readSize' = readSize
      BY <3>1, LoadKeepsWindows DEF RoomFor
    <3> QED  BY <2>3, <3>2, SameSeek DEF ScanLoads, LoadBuffer, source, call
  <2>4. CASE ScanRefused \/ ScanAtEnd
    BY <2>4, EndsKeepsFind DEF ScanRefused, ScanAtEnd, LoadRefused
  <2>5. ASSUME NEW b \in Byte, MatchMore(b) \/ Mismatch(b) PROVE FindInv'
    BY <2>5, GoesOnKeepsFind
  <2>6. ASSUME NEW b \in Byte, Found(b) PROVE FindInv'
    BY <2>6, FoundKeepsFind
  <2>7. ASSUME NEW b \in Byte, FoundBeyond(b) PROVE FindInv'
    BY <2>7, EndsKeepsFind DEF FoundBeyond
  <2> QED  BY <1>3, <2>1, <2>2, <2>3, <2>4, <2>5, <2>6, <2>7 DEF GoesAhead
<1>4. CASE UNCHANGED vars
  BY <1>4 DEF FindInv, SeekInv, ChunkInv, vars, source, windows, call, scan
<1> QED  BY <1>1, <1>2, <1>3, <1>4 DEF Next

\* What is said of single bytes, said of subsequences.
LEMMA EndsAtIsBegun ==
  ASSUME stream \in Seq(Byte), NEW d \in Seq(Byte), NEW n \in Nat, n >= Len(d),
         n <= Len(stream)
  PROVE  EndsAt(d, n) <=> Begun(stream, d, n - Len(d), Len(d))
<1> DEFINE m == Len(d)
           t == SubSeq(stream, n - m + 1, n)
<1>1. m \in Nat /\ n - m \in Nat /\ Len(stream) \in Nat
  OBVIOUS
<1>2. t \in Seq(Byte) /\ Len(t) = m /\ \A k \in 1..m : t[k] = stream[(n - m) + k]
  <2>1. CASE m = 0
    BY <1>1, <2>1
  <2>2. CASE m > 0
    <3>1. n - m + 1 \in 1..Len(stream) /\ n \in 1..Len(stream)
      BY <1>1, <2>2
    <3>2. /\ t \in Seq(Byte)
          /\ Len(t) = n - (n - m + 1) + 1
          /\ \A k \in 1..(n - (n - m + 1) + 1) : t[k] = stream[(n - m + 1) + k - 1]
      BY <1>1, <2>2, <3>1
    <3>3. n - (n - m + 1) + 1 = m
      BY <1>1
    <3>4. \A k \in 1..m : (n - m + 1) + k - 1 = (n - m) + k
      BY <1>1
    <3> QED  BY <3>2, <3>3, <3>4
  <2> QED  BY <1>1, <2>1, <2>2
<1> HIDE DEF t
<1>3. t = d <=> \A k \in 1..m : t[k] = d[k]
  <2>1. ASSUME \A k \in 1..m : t[k] = d[k] PROVE t = d
    BY <1>1, <1>2, <2>1
  <2> QED  BY <2>1
<1>4. t = d <=> Begun(stream, d, n - m, m)
  BY <1>2, <1>3 DEF Begun
<1> QED  BY <1>4 DEF EndsAt, t

\* What was found out byte by byte is what UntilFindsFirst says of the chunk.
LEMMA FindImpliesUntil == Inv /\ FindInv => UntilFindsFirst
<1> SUFFICES ASSUME Inv, FindInv, pc = "idle", last.outcome = "ok", delim # <<>>, ~peeked
             PROVE  /\ EndsAt(delim, consumed) /\ last.size >= Len(delim)
                    /\ \A n \in (last.from + Len(delim))..(consumed - 1) :
                         EndsAt(delim, n) => AfterPrefix(delim, n - Len(delim))
  BY DEF UntilFindsFirst
<1>1. /\ stream \in Seq(Byte) /\ Len(stream) \in Nat /\ delim \in Seq(Byte)
      /\ Len(delim) \in Nat /\ consumed \in Nat /\ readSize \in Nat
      /\ last.from \in Nat /\ last.size \in Nat
  BY DelimiterAssumption DEF Inv, TypeOK
<1>2. consumed + readSize = Len(stream) /\ last.from + last.size = consumed
  BY DEF Inv, HoldsTheStream, ViewIsNext
<1>3. /\ last.size >= Len(delim)
      /\ Begun(stream, delim, consumed - Len(delim), Len(delim))
      /\ Settled(stream, delim, last.from, consumed - Len(delim), consumed)
  BY DEF FindInv, ChunkInv
<1>4. consumed >= Len(delim) /\ consumed <= Len(stream)
  BY <1>1, <1>2, <1>3
<1>5. EndsAt(delim, consumed)
  BY <1>1, <1>3, <1>4, EndsAtIsBegun
<1>6. ASSUME NEW n \in (last.from + Len(delim))..(consumed - 1), EndsAt(delim, n)
      PROVE  AfterPrefix(delim, n - Len(delim))
  <2> DEFINE s == n - Len(delim)
  <2>1. /\ n \in Nat /\ n >= Len(delim) /\ n <= Len(stream)
        /\ s \in last.from..(consumed - Len(delim) - 1) /\ s \in Nat
        /\ s + Len(delim) = n /\ s <= Len(stream)
    BY <1>1, <1>2, <1>4
  <2>2. Begun(stream, delim, s, Len(delim))
    BY <1>1, <1>6, <2>1, EndsAtIsBegun
  <2> HIDE DEF s
  <2>3. ~Refuted(stream, delim, s, consumed)
    BY <2>2 DEF Begun, Refuted
  <2>4. Preceded(stream, delim, s, last.from)
    BY <1>3, <2>1, <2>3 DEF Settled
  <2>5. PICK j \in 1..(Len(delim) - 1) :
               s - j >= last.from /\ Begun(stream, delim, s - j, j)
    BY <2>4 DEF Preceded
  <2> DEFINE d == SubSeq(delim, 1, j)
  <2>6. d \in Seq(Byte) /\ Len(d) = j /\ \A k \in 1..j : d[k] = delim[k]
    <3>1. 1 \in 1..Len(delim) /\ j \in 1..Len(delim)
      BY <1>1
    <3> QED  BY <1>1, <3>1
  <2> HIDE DEF d
  <2>7. Begun(stream, d, s - j, j)
    BY <2>5, <2>6 DEF Begun
  <2>8. s >= Len(d)
    BY <1>1, <2>1, <2>5, <2>6
  <2>9. EndsAt(d, s)
    BY <1>1, <2>1, <2>6, <2>7, <2>8, EndsAtIsBegun
  <2>10. AfterPrefix(delim, s)
    BY <2>5, <2>9 DEF AfterPrefix, d
  <2> QED  BY <2>10 DEF s
<1> QED  BY <1>3, <1>5, <1>6

-----------------------------------------------------------------------------
(* The theorems. *)

\* The inductive invariant holds in every state of every run of the reader.
THEOREM Invariance == Spec => []Inv
<1> QED  BY InitInv, NextKeepsInv, PTL DEF Spec

\* The reader's variables keep their types: no window size goes below zero.
THEOREM ReaderTypeCorrect == Spec => []TypeOK
<1>1. Inv => TypeOK
  BY DEF Inv
<1> QED  BY <1>1, Invariance, PTL

\* After any sequence of loads, moves and reallocations of adjust_buffers the
\* windows partition the rest of a buffer within its limit.
THEOREM ReaderWindowsFit == Spec => []WindowsFit
<1>1. Inv => WindowsFit
  BY DEF Inv
<1> QED  BY <1>1, Invariance, PTL

\* No byte the source delivered is lost, repeated or reordered by the reader.
THEOREM ReaderHoldsTheStream == Spec => []HoldsTheStream
<1>1. Inv => HoldsTheStream
  BY DEF Inv
<1> QED  BY <1>1, Invariance, PTL

\* read_until never indexes outside the buffer, though it may index past the
\* bytes that were loaded, and _load_buffer never hands the source a Buffer that
\* overruns the reader's own.
THEOREM ReaderStaysInside == Spec => []InsideBuffer
<1>1. Inv => InsideBuffer
  BY InvPeeks DEF Inv, InsideBuffer
<1> QED  BY <1>1, Invariance, PTL

\* A view stays what it was when it was returned until the next call begins.
THEOREM ReaderViewIsNext == Spec => []ViewIsNext
<1>1. Inv => ViewIsNext
  BY DEF Inv
<1> QED  BY <1>1, Invariance, PTL

\* A read_until over a source that always delivers returns the bytes up to and
\* including a delimiter, and passes over an earlier one only when it comes right
\* after the beginning of another, wherever the loads cut the stream.
THEOREM ReaderFindsDelimiter == Spec => []UntilFindsFirst
<1>1. Init => FindInv
  BY DEF Init, FindInv, SeekInv, ChunkInv
<1>2. Inv /\ FindInv => UntilFindsFirst
  BY FindImpliesUntil
<1> QED  BY <1>1, <1>2, NextKeepsFind, Invariance, PTL DEF Spec
=============================================================================
