-------------------------------- MODULE Buffer --------------------------------
(***************************************************************************)
(* The byte buffers of a connection (server-antiMaster/common/buffer.cpp): *)
(* memory with a position to read from and one to write to, which makes    *)
(* room by moving what is not read yet to the front, or by growing.        *)
(*                                                                         *)
(* Each operator takes a buffer and returns it as it is after the method.  *)
(* Every method is called by the thread that runs the connection's loop;   *)
(* what two threads in one buffer do to each other is not modelled.        *)
(***************************************************************************)
EXTENDS Integers, Sequences

CONSTANTS
  Base,          \* bound: how many different bytes there are (256 in the program)
  CopiesForward  \* memcpy of this machine copies overlapping areas first byte first

ASSUME BufferAssumption ==
  /\ Base \in Nat \ {0}
  /\ CopiesForward \in BOOLEAN

Byte == 0..(Base - 1)

Buffers ==
  { b \in [mem : Seq(Byte), readPos : Nat, writePos : Nat] : b.writePos <= Len(b.mem) }

Cleared(size) == [ i \in 1..size |-> 0 ]

NewBuffer(size) == [mem |-> Cleared(size), readPos |-> 0, writePos |-> 0]

WriteableSize(b) == Len(b.mem) - b.writePos
ReadableSize(b)  == b.writePos - b.readPos

\* The bytes that wait to be read.
Readable(b) == SubSeq(b.mem, b.readPos + 1, b.writePos)

\* memcpy of s to the position after the first n bytes of mem.
CopyTo(mem, n, s) == SubSeq(mem, 1, n) \o s \o SubSeq(mem, n + Len(s) + 1, Len(mem))

\* memcpy of the readable bytes to the front. The areas may overlap, where memcpy is
\* undefined: a copy that begins at the other end reads bytes it has written.
Moved(b) ==
  IF CopiesForward THEN Readable(b)
  ELSE LET n       == ReadableSize(b)
           hops(i) == ((n - i) \div b.readPos) + 1
       IN  [ i \in 1..n |-> b.mem[i + hops(i) * b.readPos] ]

\* Mistake: the copy starts at the beginning of the memory.
MoveFromStart(b) == [mem |-> b.mem, readPos |-> 0, writePos |-> ReadableSize(b)]

MoveToFront(b) ==
  [mem |-> CopyTo(b.mem, 0, Moved(b)), readPos |-> 0, writePos |-> ReadableSize(b)]

Grow(b, size) ==
  [mem |-> b.mem \o Cleared(size), readPos |-> b.readPos, writePos |-> b.writePos]

BufferExtenRoom(b, size) ==
  IF WriteableSize(b) >= size THEN b
  ELSE IF b.readPos + WriteableSize(b) >= size THEN MoveToFront(b)
  ELSE Grow(b, size)

\* Puts s at the write position, for which there is room.
Written(b, s) == [mem      |-> CopyTo(b.mem, b.writePos, s),
                  readPos  |-> b.readPos,
                  writePos |-> b.writePos + Len(s)]

AppendString(b, s) ==
  IF s = << >> THEN b ELSE Written(BufferExtenRoom(b, Len(s)), s)

\* Mistake: what does not fit is dropped.
SocketReadCut(b, s) ==
  LET room == WriteableSize(b)
  IN  Written(b, IF Len(s) <= room THEN s ELSE SubSeq(s, 1, room))

\* readv into what is writeable and, for the rest, a second area that is appended.
SocketRead(b, s) ==
  LET room == WriteableSize(b)
  IN  IF Len(s) <= room THEN Written(b, s)
      ELSE AppendString(Written(b, SubSeq(s, 1, room)), SubSeq(s, room + 1, Len(s)))

\* What send or a reader took from the front is done with.
Advance(b, n) == [mem |-> b.mem, readPos |-> b.readPos + n, writePos |-> b.writePos]

\* The next n bytes, whether they have been received or not.
Data(b, n) == SubSeq(b.mem, b.readPos + 1, b.readPos + n)

\* The length of a package in front of it, the most significant byte first
\* (four bytes in the program).
HeadSize == 2
EncodeHead(n) == << n \div Base, n % Base >>
DecodeHead(h) == h[1] * Base + h[2]

Packed(p) == EncodeHead(Len(p)) \o p

\* Mistake: the length counts the head.
AppendHeadCounted(b, n) == AppendString(b, EncodeHead(n + HeadSize))

AppendHead(b, n) == AppendString(b, EncodeHead(n))
AppendPackage(b, p) == AppendString(AppendHead(b, Len(p)), p)
=============================================================================
