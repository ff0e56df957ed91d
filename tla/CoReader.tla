------------------------------ MODULE CoReader ------------------------------
(***************************************************************************)
(* lw::io::CoReader (lw/io/co/co.h, co.cpp) over any CoReadable source: a  *)
(* buffer with a window of bytes loaded and not yet handed out, and a      *)
(* window of free bytes behind it.                                         *)
(*                                                                         *)
(* The source delivers as much or as little as it likes, nothing at all    *)
(* included: a socket does so when its peer closes, a TLS stream while it  *)
(* waits for the rest of a record.  A cell of the buffer holds the         *)
(* position in the stream of the byte written there, or 0 if none was.     *)
(* Reading a cell no byte was loaded into yields what an earlier load left *)
(* there, or any byte.                                                     *)
(***************************************************************************)
EXTENDS Integers, Sequences

CONSTANTS Byte,
          Delimiter,     \* what read_until is asked for
          ReadSize,      \* what read is asked for
          Limit,         \* limits of read_until (0: the default)
          InitialSize,   \* --initial-read-buffer-size
          MaximumSize,   \* --maximum-read-buffer-size
          ReadBlockSize, \* --read-block-size
          MaxBytes       \* bound: bytes the source ever delivers

ASSUME DelimiterAssumption == Delimiter \subseteq Seq(Byte) \ {<<>>}
ASSUME ReadSizeAssumption == ReadSize \subseteq Nat
ASSUME LimitAssumption == Limit \subseteq Nat
ASSUME SizesAssumption ==
  /\ InitialSize \in Nat \ {0}
  /\ MaximumSize \in Nat
  /\ InitialSize <= MaximumSize
  /\ ReadBlockSize \in Nat \ {0}
ASSUME MaxBytesAssumption == MaxBytes \in Nat

VARIABLES
  stream,    \* the bytes the source has delivered
  good,      \* _source.good()
  capacity,  \* _buffer.size()
  buffer,    \* the cells of _buffer
  readAt,    \* where _read_window begins in _buffer
  readSize,  \* its size
  writeAt,   \* the same of _write_window
  writeSize,
  consumed,  \* bytes handed out
  pc,        \* where the call under way is
  want,      \* read's bytes, or read_until's limit
  delim,     \* read_until's delimiter, <<>> in read
  i,         \* the loop's index
  strPos,    \* how much of the delimiter matched
  asked,     \* the size of the Buffer handed to _source.read
  peeked,    \* this call looked at a byte that was not loaded
  last       \* how the last call ended, and the view it returned

windows == <<capacity, buffer, readAt, readSize, writeAt, writeSize>>
source == <<stream, good>>
call == <<want, delim>>
scan == <<i, strPos, peeked>>
vars == <<source, windows, consumed, pc, call, scan, asked, last>>

\* A default Buffer points nowhere, which is before every address of _buffer.
Nowhere == -1
Outcome == {"none", "ok", "empty", "threw"}

\* Type invariant.
TypeOK ==
  /\ stream \in Seq(Byte) /\ Len(stream) <= MaxBytes
  /\ good \in BOOLEAN
  /\ capacity \in Nat
  /\ buffer \in [0..(capacity - 1) -> 0..MaxBytes]
  /\ readAt \in Int /\ readSize \in Nat /\ writeAt \in Int /\ writeSize \in Nat
  /\ consumed \in Nat
  /\ pc \in {"idle", "load", "take", "scan", "match", "undefined"}
  /\ want \in Nat
  /\ delim \in Delimiter \cup {<<>>}
  /\ i \in Nat /\ strPos \in Nat /\ asked \in Nat
  /\ peeked \in BOOLEAN
  /\ last \in [outcome : Outcome, at : Int, from : Nat, size : Nat]

Init ==
  /\ stream = <<>> /\ good \in BOOLEAN
  /\ capacity = InitialSize
  /\ buffer = [a \in 0..(InitialSize - 1) |-> 0]
  /\ readAt = Nowhere /\ readSize = 0 /\ writeAt = Nowhere /\ writeSize = 0
  /\ consumed = 0
  /\ pc = "idle"
  /\ want = 0 /\ delim = <<>> /\ i = 0 /\ strPos = 0 /\ asked = 0
  /\ peeked = FALSE
  /\ last = [outcome |-> "none", at |-> Nowhere, from |-> 0, size |-> 0]

-----------------------------------------------------------------------------
(* How a call ends. *)

\* The call's locals are gone (delim and peeked stay for the properties).
Leaves ==
  /\ pc' = "idle"
  /\ want' = 0 /\ i' = 0 /\ strPos' = 0 /\ asked' = 0
  /\ UNCHANGED <<source, delim, peeked>>

\* The call throws, or returns Buffer{}.
Ends(outcome) ==
  /\ Leaves
  /\ last' = [outcome |-> outcome, at |-> Nowhere, from |-> consumed, size |-> 0]
  /\ UNCHANGED <<windows, consumed>>

\* Buffer::trim_prefix of either window.
TrimRead(n) == readAt' = readAt + n /\ readSize' = readSize - n
TrimWrite(n) == writeAt' = writeAt + n /\ writeSize' = writeSize - n

\* The first n loaded bytes are returned as a view into the buffer.
Returns(n) ==
  /\ TrimRead(n)
  /\ consumed' = consumed + n
  /\ last' = [outcome |-> "ok", at |-> readAt, from |-> consumed, size |-> n]
  /\ Leaves
  /\ UNCHANGED <<capacity, buffer, writeAt, writeSize>>

-----------------------------------------------------------------------------
(* _load_buffer, adjust_buffers and realloc_buffers. *)

\* A slip: room for one byte less.
AdditionalSpaceShort(n) == n - writeSize - 1

AdditionalSpace(n) == n - writeSize

\* Where realloc_buffers' loop stops: the first doubling that is large enough.
FirstDoubling(size, total) ==
  \E k \in 1..total :
    /\ size = capacity * 2^k
    /\ k > 1 => capacity * 2^(k - 1) < total

\* The loaded bytes come first in a buffer of that size, and the free ones next.
WindowsAtFront(size) ==
  /\ readAt' = 0 /\ readSize' = readSize
  /\ writeAt' = readSize /\ writeSize' = size - readSize

Least(a, b) == IF a <= b THEN a ELSE b

\* A slip: the new buffer is used without copying the loaded bytes.
ReallocWithoutCopy(total) ==
  \E size \in total..(2 * (capacity + total)) :
    LET newSize == Least(size, MaximumSize)
    IN  /\ FirstDoubling(size, total)
        /\ capacity' = newSize
        /\ buffer' = [a \in 0..(newSize - 1) |-> 0]
        /\ WindowsAtFront(newSize)

ReallocBuffers(total) ==
  \E size \in total..(2 * (capacity + total)) :
    LET newSize == Least(size, MaximumSize)
    IN  /\ FirstDoubling(size, total)
        /\ capacity' = newSize
        /\ buffer' = [a \in 0..(newSize - 1) |->
                        IF a < readSize THEN buffer[readAt + a] ELSE 0]
        /\ WindowsAtFront(newSize)

\* There is room in front: the loaded bytes move to the buffer's beginning.
MoveUp ==
  /\ buffer' = [a \in 0..(capacity - 1) |->
                  IF a < readSize THEN buffer[readAt + a] ELSE buffer[a]]
  /\ WindowsAtFront(capacity)
  /\ UNCHANGED capacity

MustRealloc(n) == readAt < AdditionalSpace(n)

AdjustBuffers(n) ==
  \/ n <= writeSize /\ UNCHANGED windows
  \/ n > writeSize /\ ~MustRealloc(n) /\ MoveUp
  \/ n > writeSize /\ MustRealloc(n) /\ ReallocBuffers(capacity + AdditionalSpace(n))

Exhausted(n) ==
  /\ n > writeSize
  /\ MustRealloc(n)
  /\ capacity + AdditionalSpace(n) > MaximumSize

\* The coroutine asks the source for n bytes and is suspended.
LoadBuffer(n) ==
  /\ ~Exhausted(n)
  /\ AdjustBuffers(n)
  /\ asked' = n
  /\ pc' = "load"
  /\ UNCHANGED <<source, consumed, last>>

\* realloc_buffers throws ResourceExhausted.
LoadRefused(n) ==
  /\ Exhausted(n)
  /\ Ends("threw")

\* The source delivers k bytes into the write window.  One that is no longer
\* good delivers nothing more.
SourceDelivers(k, bytes, g) ==
  /\ pc = "load"
  /\ k <= asked
  /\ Len(stream) + k <= MaxBytes
  /\ ~good => k = 0 /\ ~g
  /\ stream' = stream \o bytes
  /\ good' = g
  /\ buffer' = [a \in 0..(capacity - 1) |->
                  IF a \in writeAt..(writeAt + k - 1)
                  THEN Len(stream) + 1 + (a - writeAt)
                  ELSE buffer[a]]
  /\ TrimWrite(k)
  /\ readAt' = readAt /\ readSize' = readSize + k
  /\ pc' = IF delim = <<>> THEN "take" ELSE "match"
  /\ UNCHANGED <<capacity, consumed, call, scan, asked, last>>

\* The source throws: a socket that is closed, or an error of recv.
SourceThrows ==
  /\ pc = "load"
  /\ Ends("threw")

-----------------------------------------------------------------------------
(* read *)

ReadBegins(n) ==
  /\ pc = "idle"
  /\ want' = n /\ delim' = <<>>
  /\ i' = 0 /\ strPos' = 0 /\ peeked' = FALSE

ReadLoads(n) ==
  /\ readSize < n
  /\ ReadBegins(n)
  /\ LoadBuffer(n - readSize)

ReadRefused(n) ==
  /\ pc = "idle"
  /\ readSize < n
  /\ LoadRefused(n - readSize)

ReadHasEnough(n) ==
  /\ readSize >= n
  /\ ReadBegins(n)
  /\ pc' = "take"
  /\ UNCHANGED <<source, windows, consumed, asked, last>>

\* A slip: the view is what was asked for, not what was loaded.
TakeUnbounded ==
  /\ pc = "take"
  /\ Returns(want)

Take ==
  /\ pc = "take"
  /\ Returns(Least(want, readSize))

-----------------------------------------------------------------------------
(* read_until *)

Good == readSize > 0 \/ good

UntilBegins(d, limit) ==
  /\ pc = "idle"
  /\ want' = IF limit = 0 THEN ReadBlockSize ELSE limit
  /\ delim' = d
  /\ i' = 0 /\ strPos' = 0 /\ peeked' = FALSE
  /\ pc' = "scan"
  /\ UNCHANGED <<source, windows, consumed, asked, last>>

ScanLoaded ==
  /\ pc = "scan"
  /\ i < want
  /\ i < readSize
  /\ pc' = "match"
  /\ UNCHANGED <<source, windows, consumed, call, scan, asked, last>>

ScanLoads ==
  /\ pc = "scan"
  /\ i < want
  /\ i >= readSize
  /\ Good
  /\ LoadBuffer(want - i)
  /\ UNCHANGED <<call, scan>>

ScanRefused ==
  /\ pc = "scan"
  /\ i < want
  /\ i >= readSize
  /\ Good
  /\ LoadRefused(want - i)

ScanAtEnd ==
  /\ pc = "scan"
  /\ i < want
  /\ i >= readSize
  /\ ~Good
  /\ Ends("empty")

\* The limit is reached without a match: control flows off the coroutine's end,
\* which C++ leaves undefined.
ScanFallsOff ==
  /\ pc = "scan"
  /\ i >= want
  /\ pc' = "undefined"
  /\ UNCHANGED <<source, windows, consumed, call, scan, asked, last>>

\* The byte at _read_window[i].
Peek(b) ==
  LET cell == buffer[readAt + i]
  IN  IF cell = 0 THEN b \in Byte ELSE b = stream[cell]

\* The loop goes on with the next byte.
GoesOn(matched) ==
  /\ i' = i + 1
  /\ strPos' = matched
  /\ peeked' = (peeked \/ i >= readSize)
  /\ pc' = "scan"
  /\ UNCHANGED <<source, windows, consumed, call, asked, last>>

MatchMore(b) ==
  /\ pc = "match"
  /\ Peek(b)
  /\ b = delim[strPos + 1]
  /\ strPos + 1 < Len(delim)
  /\ GoesOn(strPos + 1)

\* A slip: the byte is taken for the first of a new match without a look at it.
MismatchBeginsAgain(b) ==
  /\ pc = "match"
  /\ Peek(b)
  /\ b # delim[strPos + 1]
  /\ GoesOn(Least(1, Len(delim) - 1))

\* A slip: the same byte is tried again when it was not loaded.
MismatchRetries(b) ==
  /\ pc = "match"
  /\ Peek(b)
  /\ b # delim[strPos + 1]
  /\ strPos' = 0
  /\ i' = IF i < readSize THEN i + 1 ELSE i
  /\ peeked' = (peeked \/ i >= readSize)
  /\ pc' = "scan"
  /\ UNCHANGED <<source, windows, consumed, call, asked, last>>

Mismatch(b) ==
  /\ pc = "match"
  /\ Peek(b)
  /\ b # delim[strPos + 1]
  /\ GoesOn(0)

MatchesAll(b) ==
  /\ pc = "match"
  /\ Peek(b)
  /\ b = delim[strPos + 1]
  /\ strPos + 1 = Len(delim)

Found(b) ==
  /\ MatchesAll(b)
  /\ i + 1 <= readSize
  /\ Returns(i + 1)

\* The last byte was not loaded: trim_prefix throws InvalidArgument.
FoundBeyond(b) ==
  /\ MatchesAll(b)
  /\ i + 1 > readSize
  /\ Ends("threw")

-----------------------------------------------------------------------------
Begins ==
  \/ \E n \in ReadSize : ReadLoads(n) \/ ReadRefused(n) \/ ReadHasEnough(n)
  \/ \E d \in Delimiter, limit \in Limit : UntilBegins(d, limit)

Source ==
  \/ \E k \in 0..MaxBytes : \E bytes \in [1..k -> Byte], g \in BOOLEAN :
       SourceDelivers(k, bytes, g)
  \/ SourceThrows

GoesAhead ==
  \/ Take
  \/ ScanLoaded \/ ScanLoads \/ ScanRefused \/ ScanAtEnd \/ ScanFallsOff
  \/ \E b \in Byte : MatchMore(b) \/ Mismatch(b) \/ Found(b) \/ FoundBeyond(b)

Next == Begins \/ Source \/ GoesAhead

\* The source answers, if only with nothing, and the coroutine is resumed.
Spec == Init /\ [][Next]_vars /\ WF_vars(Source) /\ WF_vars(GoesAhead)

-----------------------------------------------------------------------------
(* Properties. *)

\* However the buffer was moved or replaced, the loaded bytes, the free bytes
\* behind them and nothing else make up the rest of _buffer, and it does not
\* outgrow --maximum-read-buffer-size.
WindowsFit ==
  /\ capacity <= MaximumSize
  /\ \/ readAt = Nowhere /\ readSize = 0 /\ writeSize = 0
     \/ /\ readAt >= 0
        /\ writeAt = readAt + readSize
        /\ writeAt + writeSize = capacity

\* The read window holds exactly the bytes that were delivered and not handed
\* out, in order: no load, move or reallocation loses or repeats one.
HoldsTheStream ==
  /\ consumed + readSize = Len(stream)
  /\ \A j \in 0..(readSize - 1) : buffer[readAt + j] = consumed + 1 + j

\* read_until may look at a byte that was never loaded (after a source
\* delivered nothing), but never outside the buffer.
PeeksInsideBuffer ==
  pc = "match" => readAt >= 0 /\ readAt + i < capacity

\* The source is given room for what it is asked for.
LoadsInsideBuffer ==
  pc = "load" => writeAt >= 0 /\ asked <= writeSize

\* No byte outside _buffer is read by the scan or written by the source, however
\* far the scan ran ahead of the loaded bytes.
InsideBuffer == PeeksInsideBuffer /\ LoadsInsideBuffer

\* A returned view shows the bytes that follow the ones handed out before, until
\* the next call.
ViewIsNext ==
  pc = "idle" /\ last.outcome = "ok" =>
    /\ last.from + last.size = consumed
    /\ \A j \in 0..(last.size - 1) : buffer[last.at + j] = last.from + 1 + j

EndsAt(d, n) ==
  /\ n >= Len(d)
  /\ SubSeq(stream, n - Len(d) + 1, n) = d

\* Part of the delimiter stands right before the place, in the chunk itself.
AfterPrefix(d, n) ==
  \E k \in 1..(Len(d) - 1) : n - k >= last.from /\ EndsAt(SubSeq(d, 1, k), n)

\* A read_until that met no missing byte returns a chunk that ends with the
\* delimiter.  The byte that ends a partial match is not looked at again, so an
\* earlier delimiter may have been passed over, but only one that comes right
\* after the beginning of another (CR CR LF when CR LF is asked for).
UntilFindsFirst ==
  pc = "idle" /\ last.outcome = "ok" /\ delim # <<>> /\ ~peeked =>
    /\ EndsAt(delim, consumed) /\ last.size >= Len(delim)
    /\ \A n \in (last.from + Len(delim))..(consumed - 1) :
         EndsAt(delim, n) => AfterPrefix(delim, n - Len(delim))

\* Every call ends, however often the source delivers nothing (or runs off
\* read_until's end).
CallEnds == pc # "idle" ~> pc \in {"idle", "undefined"}
=============================================================================
