------------------------------ MODULE WireProofs ------------------------------
(***************************************************************************)
(* The bytes of a connection, for any capacity, packages and pieces, on a  *)
(* machine whose memcpy copies forward: the buffers keep every byte        *)
(* between appendString and send, so that answers are a queue of bytes;    *)
(* requests that no read cuts are parsed in order; and the client returns  *)
(* the answers in order, as Link says.                                     *)
(***************************************************************************)
EXTENDS Wire, SequenceTheorems, WellFoundedInduction, TLAPS

-----------------------------------------------------------------------------
(* Buffers *)

\* A buffer whose positions are in order.
Sound(b) == b \in Buffers /\ b.readPos <= b.writePos

\* Bytes are numbers.
LEMMA ByteFacts == Byte \subseteq Int /\ 0 \in Byte
BY BufferAssumption DEF Byte

\* Facts of the library about sequences, for bytes.
LEMMA BytesAssociate ==
  ASSUME NEW s \in Seq(Byte), NEW t \in Seq(Byte), NEW u \in Seq(Byte)
  PROVE  (s \o t) \o u = s \o (t \o u)
BY ConcatAssociative

LEMMA BytesCancel ==
  ASSUME NEW s \in Seq(Byte), NEW t \in Seq(Byte), NEW u \in Seq(Byte), s \o t = s \o u
  PROVE  t = u
BY ConcatSimplifications

\* A buffer is its three parts, and is made of them.
LEMMA BufferFacts ==
  ASSUME NEW b \in Buffers
  PROVE  /\ b = [mem |-> b.mem, readPos |-> b.readPos, writePos |-> b.writePos]
         /\ b.mem \in Seq(Byte) /\ Len(b.mem) \in Nat
         /\ b.readPos \in Nat /\ b.writePos \in Nat
         /\ b.writePos <= Len(b.mem)
BY LenProperties DEF Buffers

LEMMA MakeBuffer ==
  ASSUME NEW mem \in Seq(Byte), NEW r \in Nat, NEW w \in Nat, w <= Len(mem)
  PROVE  [mem |-> mem, readPos |-> r, writePos |-> w] \in Buffers
BY DEF Buffers

\* memcpy into memory that is large enough.
LEMMA CopyFacts ==
  ASSUME NEW mem \in Seq(Byte), NEW n \in Nat, NEW s \in Seq(Byte), n + Len(s) <= Len(mem)
  PROVE  /\ CopyTo(mem, n, s) \in Seq(Byte)
         /\ Len(CopyTo(mem, n, s)) = Len(mem)
         /\ \A i \in 1..n : CopyTo(mem, n, s)[i] = mem[i]
         /\ \A i \in 1..Len(s) : CopyTo(mem, n, s)[n + i] = s[i]
<1> DEFINE a == SubSeq(mem, 1, n)
           z == SubSeq(mem, n + Len(s) + 1, Len(mem))
<1>1. Len(mem) \in Nat /\ Len(s) \in Nat /\ \A i \in 1..Len(mem) : mem[i] \in Byte
  BY LenProperties, ElementOfSeq
<1>2. a \in Seq(Byte) /\ Len(a) = n /\ \A i \in 1..n : a[i] = mem[i]
  BY <1>1, SubSeqProperties
<1>3. z \in Seq(Byte) /\ Len(z) = Len(mem) - n - Len(s)
  BY <1>1, SubSeqProperties
<1> HIDE DEF a, z
<1>4. /\ a \o s \in Seq(Byte) /\ Len(a \o s) = n + Len(s)
      /\ \A i \in 1..(n + Len(s)) : (a \o s)[i] = IF i <= n THEN a[i] ELSE s[i - n]
  BY <1>2, ConcatProperties
<1>5. /\ (a \o s) \o z \in Seq(Byte) /\ Len((a \o s) \o z) = Len(mem)
      /\ \A i \in 1..(n + Len(s)) : ((a \o s) \o z)[i] = (a \o s)[i]
  BY <1>1, <1>3, <1>4, ConcatProperties
<1>6. CopyTo(mem, n, s) = (a \o s) \o z
  BY DEF CopyTo, a, z
<1> QED
  BY <1>1, <1>2, <1>4, <1>5, <1>6

\* The readable bytes, one by one.
LEMMA ReadableFacts ==
  ASSUME NEW b, Sound(b)
  PROVE  /\ Readable(b) \in Seq(Byte)
         /\ Len(Readable(b)) = b.writePos - b.readPos
         /\ \A i \in 1..(b.writePos - b.readPos) : Readable(b)[i] = b.mem[b.readPos + i]
<1>1. /\ b.mem \in Seq(Byte) /\ b.readPos \in Nat /\ b.writePos \in Nat /\ Len(b.mem) \in Nat
      /\ b.readPos <= b.writePos /\ b.writePos <= Len(b.mem)
  BY BufferFacts DEF Sound
<1>2. \A i \in (b.readPos + 1)..b.writePos : b.mem[i] \in Byte
  BY <1>1, ElementOfSeq
<1> QED
  BY <1>1, <1>2, SubSeqProperties DEF Readable

\* Two buffers with the same bytes from their read positions on read the same.
LEMMA SameReadable ==
  ASSUME NEW b, NEW c, Sound(b), Sound(c),
         c.writePos - c.readPos = b.writePos - b.readPos,
         \A i \in 1..(b.writePos - b.readPos) : c.mem[c.readPos + i] = b.mem[b.readPos + i]
  PROVE  Readable(c) = Readable(b)
BY ReadableFacts, SeqEqual

\* What is written comes behind what is readable.
LEMMA WrittenFacts ==
  ASSUME NEW b \in Buffers, NEW s \in Seq(Byte), Len(s) <= WriteableSize(b)
  PROVE  /\ Written(b, s) \in Buffers
         /\ Written(b, s).readPos = b.readPos
         /\ Written(b, s).writePos = b.writePos + Len(s)
         /\ Len(Written(b, s).mem) = Len(b.mem)
         /\ Sound(b) => Sound(Written(b, s)) /\ Readable(Written(b, s)) = Readable(b) \o s
<1> DEFINE c == Written(b, s)
           m == CopyTo(b.mem, b.writePos, s)
<1>1. /\ b = [mem |-> b.mem, readPos |-> b.readPos, writePos |-> b.writePos]
      /\ b.mem \in Seq(Byte) /\ Len(b.mem) \in Nat /\ b.readPos \in Nat /\ b.writePos \in Nat
      /\ Len(s) \in Nat /\ b.writePos + Len(s) <= Len(b.mem)
  BY BufferFacts, LenProperties DEF WriteableSize
<1>2. /\ m \in Seq(Byte) /\ Len(m) = Len(b.mem)
      /\ \A i \in 1..b.writePos : m[i] = b.mem[i]
      /\ \A i \in 1..Len(s) : m[b.writePos + i] = s[i]
  BY <1>1, CopyFacts
<1> HIDE DEF m
<1>3. c = [mem |-> m, readPos |-> b.readPos, writePos |-> b.writePos + Len(s)]
  BY DEF Written, m
<1>4. c \in Buffers
  BY <1>1, <1>2, <1>3, MakeBuffer
<1>5. c.mem = m /\ c.readPos = b.readPos /\ c.writePos = b.writePos + Len(s)
  BY <1>3
<1> HIDE DEF c
<1>6. ASSUME Sound(b) PROVE Sound(c) /\ Readable(c) = Readable(b) \o s
  <2>1. Sound(c) /\ b.readPos <= b.writePos
    BY <1>1, <1>4, <1>5, <1>6 DEF Sound
  <2>2. /\ Readable(c) \in Seq(Byte) /\ Len(Readable(c)) = c.writePos - c.readPos
        /\ \A i \in 1..(c.writePos - c.readPos) : Readable(c)[i] = c.mem[c.readPos + i]
    BY <2>1, ReadableFacts
  <2>3. /\ Readable(b) \in Seq(Byte) /\ Len(Readable(b)) = b.writePos - b.readPos
        /\ \A i \in 1..(b.writePos - b.readPos) : Readable(b)[i] = b.mem[b.readPos + i]
    BY <1>6, ReadableFacts
  <2>4. /\ Readable(b) \o s \in Seq(Byte)
        /\ Len(Readable(b) \o s) = Len(Readable(b)) + Len(s)
        /\ \A i \in 1..(Len(Readable(b)) + Len(s)) : (Readable(b) \o s)[i] =
              IF i <= Len(Readable(b)) THEN Readable(b)[i] ELSE s[i - Len(Readable(b))]
    BY <2>3, ConcatProperties
  <2> DEFINE n == b.writePos - b.readPos
  <2>5. \A i \in 1..(n + Len(s)) : Readable(c)[i] = (Readable(b) \o s)[i]
    <3> TAKE i \in 1..(n + Len(s))
    <3>1. Readable(c)[i] = m[b.readPos + i]
      BY <1>1, <1>5, <2>2
    <3>2. CASE i <= n
      <4>1. i \in 1..n /\ b.readPos + i \in 1..b.writePos
        BY <1>1, <2>1, <3>2
      <4>2. m[b.readPos + i] = Readable(b)[i]
        BY <1>2, <2>3, <4>1
      <4>3. (Readable(b) \o s)[i] = Readable(b)[i]
        BY <2>3, <2>4, <3>2
      <4> QED
        BY <3>1, <4>2, <4>3, Zenon
    <3>3. CASE i > n
      <4>1. i - n \in 1..Len(s) /\ b.writePos + (i - n) = b.readPos + i
        BY <1>1, <2>1, <3>3
      <4>2. m[b.readPos + i] = s[i - n]
        BY <1>2, <4>1
      <4>3. /\ i \in 1..(Len(Readable(b)) + Len(s)) /\ ~(i <= Len(Readable(b)))
            /\ i - Len(Readable(b)) = i - n
        BY <1>1, <2>1, <2>3, <3>3
      <4>4. (Readable(b) \o s)[i] = s[i - n]
        BY <2>4, <4>3, Zenon
      <4> QED
        BY <3>1, <4>2, <4>4, Zenon
    <3>4. i <= n \/ i > n
      BY <1>1, <2>1
    <3> QED
      BY <3>2, <3>3, <3>4, Zenon
  <2>6. Len(Readable(c)) = n + Len(s) /\ Len(Readable(b) \o s) = n + Len(s)
    BY <1>1, <1>5, <2>1, <2>2, <2>3, <2>4
  <2> QED
    BY <2>1, <2>2, <2>4, <2>5, <2>6, SeqEqual
<1> QED
  BY <1>2, <1>4, <1>5, <1>6 DEF c

\* Moving to the front and growing leave the readable bytes as they are.
LEMMA MoveFacts ==
  ASSUME CopiesForward, NEW b, Sound(b)
  PROVE  /\ Sound(MoveToFront(b))
         /\ Readable(MoveToFront(b)) = Readable(b)
         /\ Len(MoveToFront(b).mem) = Len(b.mem)
         /\ MoveToFront(b).readPos = 0
         /\ MoveToFront(b).writePos = b.writePos - b.readPos
<1> DEFINE c == MoveToFront(b)
           m == CopyTo(b.mem, 0, Readable(b))
           n == b.writePos - b.readPos
<1>1. /\ b.mem \in Seq(Byte) /\ Len(b.mem) \in Nat /\ b.readPos \in Nat /\ b.writePos \in Nat
      /\ n \in Nat /\ n <= Len(b.mem)
  BY BufferFacts DEF Sound
<1>2. /\ Readable(b) \in Seq(Byte) /\ Len(Readable(b)) = n
      /\ \A i \in 1..n : Readable(b)[i] = b.mem[b.readPos + i]
  BY ReadableFacts
<1>3. /\ m \in Seq(Byte) /\ Len(m) = Len(b.mem)
      /\ \A i \in 1..n : m[0 + i] = Readable(b)[i]
  BY <1>1, <1>2, CopyFacts
<1> HIDE DEF m
<1>4. c = [mem |-> m, readPos |-> 0, writePos |-> n]
  BY DEF MoveToFront, Moved, ReadableSize, m
<1>5. c.mem = m /\ c.readPos = 0 /\ c.writePos = n
  BY <1>4
<1>6. Sound(c)
  <2>1. 0 \in Nat /\ n <= Len(m) /\ 0 <= n
    BY <1>1, <1>3
  <2> HIDE DEF n
  <2>2. [mem |-> m, readPos |-> 0, writePos |-> n] \in Buffers
    BY <1>1, <1>3, <2>1, MakeBuffer
  <2> QED
    BY <1>4, <1>5, <2>1, <2>2 DEF Sound
<1> HIDE DEF c
<1>7. \A i \in 1..n : c.mem[c.readPos + i] = b.mem[b.readPos + i]
  BY <1>1, <1>2, <1>3, <1>5
<1>8. Readable(c) = Readable(b)
  BY <1>1, <1>5, <1>6, <1>7, SameReadable
<1> QED
  BY <1>3, <1>5, <1>6, <1>8 DEF c

LEMMA GrowFacts ==
  ASSUME NEW b \in Buffers, NEW size \in Nat
  PROVE  /\ Grow(b, size) \in Buffers
         /\ Grow(b, size).readPos = b.readPos
         /\ Grow(b, size).writePos = b.writePos
         /\ Len(Grow(b, size).mem) = Len(b.mem) + size
         /\ Sound(b) => Sound(Grow(b, size)) /\ Readable(Grow(b, size)) = Readable(b)
<1> DEFINE c == Grow(b, size)
           z == Cleared(size)
           m == b.mem \o z
<1>1. /\ b = [mem |-> b.mem, readPos |-> b.readPos, writePos |-> b.writePos]
      /\ b.mem \in Seq(Byte) /\ Len(b.mem) \in Nat /\ b.readPos \in Nat /\ b.writePos \in Nat
      /\ b.writePos <= Len(b.mem)
  BY BufferFacts
<1>2. z \in Seq(Byte) /\ Len(z) = size
  BY ByteFacts DEF Cleared
<1> HIDE DEF z
<1>3. /\ m \in Seq(Byte) /\ Len(m) = Len(b.mem) + size
      /\ \A i \in 1..(Len(b.mem) + size) :
            m[i] = IF i <= Len(b.mem) THEN b.mem[i] ELSE z[i - Len(b.mem)]
  <2>1. /\ m \in Seq(Byte) /\ Len(m) = Len(b.mem) + Len(z)
        /\ \A i \in 1..(Len(b.mem) + Len(z)) :
              m[i] = IF i <= Len(b.mem) THEN b.mem[i] ELSE z[i - Len(b.mem)]
    BY <1>1, <1>2, ConcatProperties, Zenon
  <2> QED
    BY <1>2, <2>1
<1>4. c = [mem |-> m, readPos |-> b.readPos, writePos |-> b.writePos]
  BY DEF Grow, z
<1> HIDE DEF m
<1>5. c.mem = m /\ c.readPos = b.readPos /\ c.writePos = b.writePos
  BY <1>4
<1>6. c \in Buffers
  <2>1. b.writePos <= Len(m)
    BY <1>1, <1>3
  <2> QED
    BY <1>1, <1>3, <1>4, <2>1, MakeBuffer
<1> HIDE DEF c
<1>7. ASSUME Sound(b) PROVE Sound(c) /\ Readable(c) = Readable(b)
  <2>1. Sound(c) /\ b.readPos <= b.writePos
    BY <1>5, <1>6, <1>7 DEF Sound
  <2>2. \A i \in 1..(b.writePos - b.readPos) : c.mem[c.readPos + i] = b.mem[b.readPos + i]
    BY <1>1, <1>3, <1>5, <2>1
  <2> QED
    BY <1>5, <1>7, <2>1, <2>2, SameReadable
<1> QED
  BY <1>3, <1>5, <1>6, <1>7 DEF c

\* bufferExtenRoom makes room, and what is readable stays the same.
LEMMA RoomFacts ==
  ASSUME CopiesForward, NEW b, Sound(b), NEW size \in Nat
  PROVE  /\ Sound(BufferExtenRoom(b, size))
         /\ Readable(BufferExtenRoom(b, size)) = Readable(b)
         /\ size <= WriteableSize(BufferExtenRoom(b, size))
         /\ Len(b.mem) <= Len(BufferExtenRoom(b, size).mem)
<1>1. /\ b \in Buffers /\ Len(b.mem) \in Nat /\ b.readPos \in Nat /\ b.writePos \in Nat
      /\ b.readPos <= b.writePos /\ b.writePos <= Len(b.mem)
  BY BufferFacts DEF Sound
<1>2. CASE WriteableSize(b) >= size
  <2>1. BufferExtenRoom(b, size) = b
    BY <1>2 DEF BufferExtenRoom
  <2> QED
    BY <1>1, <1>2, <2>1 DEF WriteableSize
<1>3. CASE ~(WriteableSize(b) >= size) /\ b.readPos + WriteableSize(b) >= size
  <2>1. BufferExtenRoom(b, size) = MoveToFront(b)
    BY <1>3 DEF BufferExtenRoom
  <2>2. WriteableSize(MoveToFront(b)) = b.readPos + WriteableSize(b)
    BY <1>1, MoveFacts DEF WriteableSize
  <2> QED
    BY <1>1, <1>3, <2>1, <2>2, MoveFacts
<1>4. CASE ~(WriteableSize(b) >= size) /\ ~(b.readPos + WriteableSize(b) >= size)
  <2>1. BufferExtenRoom(b, size) = Grow(b, size)
    BY <1>4 DEF BufferExtenRoom
  <2>2. size <= WriteableSize(Grow(b, size))
    BY <1>1, GrowFacts DEF WriteableSize
  <2> QED
    BY <1>1, <2>1, <2>2, GrowFacts
<1> QED
  BY <1>2, <1>3, <1>4

\* appendString puts its bytes behind what is readable.
LEMMA AppendStringFacts ==
  ASSUME CopiesForward, NEW b, Sound(b), NEW s \in Seq(Byte)
  PROVE  /\ Sound(AppendString(b, s))
         /\ Readable(AppendString(b, s)) = Readable(b) \o s
         /\ Len(b.mem) <= Len(AppendString(b, s).mem)
<1>1. CASE s = << >>
  <2>1. Readable(b) \o << >> = Readable(b)
    BY ReadableFacts, ConcatEmptySeq
  <2>2. Len(b.mem) \in Nat
    BY BufferFacts DEF Sound
  <2> QED
    BY <1>1, <2>1, <2>2 DEF AppendString
<1>2. CASE s # << >>
  <2> DEFINE r == BufferExtenRoom(b, Len(s))
  <2>1. Len(s) \in Nat
    BY LenProperties
  <2>2. Sound(r) /\ Readable(r) = Readable(b) /\ Len(s) <= WriteableSize(r) /\ Len(b.mem) <= Len(r.mem)
    BY <2>1, RoomFacts
  <2>3. AppendString(b, s) = Written(r, s)
    BY <1>2 DEF AppendString
  <2> HIDE DEF r
  <2>4. r \in Buffers
    BY <2>2 DEF Sound
  <2>5. /\ Sound(Written(r, s)) /\ Readable(Written(r, s)) = Readable(r) \o s
        /\ Len(Written(r, s).mem) = Len(r.mem)
    BY <2>2, <2>4, WrittenFacts
  <2> QED
    BY <2>2, <2>3, <2>5
<1> QED
  BY <1>1, <1>2

\* Data that no read position passes is moved with the position.
LEMMA AdvanceFacts ==
  ASSUME NEW b, Sound(b), NEW n \in 0..ReadableSize(b)
  PROVE  /\ Sound(Advance(b, n))
         /\ Readable(Advance(b, n)) = SubSeq(Readable(b), n + 1, Len(Readable(b)))
         /\ Readable(b) = SubSeq(Readable(b), 1, n) \o Readable(Advance(b, n))
<1> DEFINE c == Advance(b, n)
           r == Readable(b)
<1>1. /\ b = [mem |-> b.mem, readPos |-> b.readPos, writePos |-> b.writePos]
      /\ b.mem \in Seq(Byte) /\ Len(b.mem) \in Nat /\ b.readPos \in Nat /\ b.writePos \in Nat
      /\ b.writePos <= Len(b.mem) /\ b.readPos <= b.writePos
      /\ n \in Nat /\ b.readPos + n <= b.writePos
  BY BufferFacts DEF Sound, ReadableSize
<1>2. c = [mem |-> b.mem, readPos |-> b.readPos + n, writePos |-> b.writePos]
  BY DEF Advance
<1>3. c.mem = b.mem /\ c.readPos = b.readPos + n /\ c.writePos = b.writePos
  BY <1>2
<1>4. Sound(c)
  <2>1. b.readPos + n \in Nat
    BY <1>1
  <2>2. [mem |-> b.mem, readPos |-> b.readPos + n, writePos |-> b.writePos] \in Buffers
    BY <1>1, <2>1, MakeBuffer
  <2> QED
    BY <1>1, <1>2, <1>3, <2>2 DEF Sound
<1> HIDE DEF c
<1>5. /\ Readable(c) \in Seq(Byte) /\ Len(Readable(c)) = c.writePos - c.readPos
      /\ \A i \in 1..(c.writePos - c.readPos) : Readable(c)[i] = c.mem[c.readPos + i]
  BY <1>4, ReadableFacts
<1>6. /\ r \in Seq(Byte) /\ Len(r) = b.writePos - b.readPos
      /\ \A i \in 1..(b.writePos - b.readPos) : r[i] = b.mem[b.readPos + i]
  BY ReadableFacts
<1> HIDE DEF r
<1> DEFINE z == SubSeq(r, n + 1, Len(r))
<1>7. \A i \in (n + 1)..Len(r) : r[i] \in Byte
  BY <1>1, <1>6, ElementOfSeq
<1>8. /\ z \in Seq(Byte) /\ Len(z) = Len(r) - n
      /\ \A i \in 1..(Len(r) - n) : z[i] = r[n + i]
  <2>1. n + 1 \in Int /\ Len(r) \in Int /\ n <= Len(r)
    BY <1>1, <1>6
  <2>2. /\ z \in Seq(Byte)
        /\ Len(z) = IF n + 1 <= Len(r) THEN Len(r) - (n + 1) + 1 ELSE 0
        /\ \A i \in 1..(Len(r) - (n + 1) + 1) : z[i] = r[n + 1 + i - 1]
    BY <1>7, <2>1, SubSeqProperties
  <2> HIDE DEF z
  <2>3. \A i \in 1..(Len(r) - n) : i \in 1..(Len(r) - (n + 1) + 1) /\ n + 1 + i - 1 = n + i
    BY <1>1, <2>1
  <2> QED
    BY <1>1, <2>1, <2>2, <2>3
<1>9. r = SubSeq(r, 1, n) \o z
  <2>1. 1 \in 1..(Len(r) + 1) /\ n \in (1 - 1)..Len(r) /\ Len(r) \in n..Len(r)
    BY <1>1, <1>6
  <2> QED
    BY <1>6, <2>1, ConcatAdjacentSubSeq, SubSeqFull
<1> HIDE DEF z
<1>10. Readable(c) = z
  <2>1. Len(z) = c.writePos - c.readPos /\ Len(r) - n = c.writePos - c.readPos
    BY <1>1, <1>3, <1>6, <1>8
  <2>2. \A i \in 1..(c.writePos - c.readPos) : Readable(c)[i] = z[i]
    <3> TAKE i \in 1..(c.writePos - c.readPos)
    <3>1. Readable(c)[i] = b.mem[b.readPos + n + i] /\ z[i] = r[n + i]
      BY <1>3, <1>5, <1>8, <2>1
    <3>2. n + i \in 1..(b.writePos - b.readPos) /\ b.readPos + (n + i) = b.readPos + n + i
      BY <1>1, <1>3
    <3> QED
      BY <1>6, <3>1, <3>2
  <2> QED
    BY <1>5, <1>8, <2>1, <2>2, SeqEqual
<1> QED
  BY <1>4, <1>9, <1>10 DEF c, r, z

\* readv leaves a buffer whose memory has not shrunk; more than the positions is not
\* needed of the requests.
LEMMA SocketReadFacts ==
  ASSUME CopiesForward, NEW b \in Buffers, b.readPos <= Len(b.mem), NEW s \in Seq(Byte)
  PROVE  /\ SocketRead(b, s) \in Buffers
         /\ SocketRead(b, s).readPos <= Len(SocketRead(b, s).mem)
<1> DEFINE room == WriteableSize(b)
<1>1. /\ Len(b.mem) \in Nat /\ b.readPos \in Nat /\ b.writePos \in Nat /\ Len(s) \in Nat
      /\ room \in Nat /\ b.writePos + room = Len(b.mem)
  BY BufferFacts, LenProperties DEF WriteableSize
<1>2. CASE Len(s) <= room
  BY <1>1, <1>2, WrittenFacts DEF SocketRead
<1>3. CASE ~(Len(s) <= room)
  <2> DEFINE s1 == SubSeq(s, 1, room)
             s2 == SubSeq(s, room + 1, Len(s))
             w  == Written(b, s1)
  <2>1. \A i \in 1..Len(s) : s[i] \in Byte
    BY ElementOfSeq
  <2>2. s1 \in Seq(Byte) /\ Len(s1) = room /\ s2 \in Seq(Byte)
    BY <1>1, <1>3, <2>1, SubSeqProperties
  <2>3. SocketRead(b, s) = AppendString(w, s2)
    BY <1>3 DEF SocketRead
  <2> HIDE DEF s1, s2
  <2>4. /\ w \in Buffers /\ w.readPos = b.readPos /\ w.writePos = b.writePos + room
        /\ Len(w.mem) = Len(b.mem)
    BY <1>1, <2>2, WrittenFacts
  <2> HIDE DEF w
  <2>5. Sound(w)
    BY <1>1, <2>4 DEF Sound
  <2>6. Sound(AppendString(w, s2))
    BY <2>2, <2>5, AppendStringFacts
  <2> QED
    BY <2>3, <2>6, BufferFacts DEF Sound
<1> QED
  BY <1>2, <1>3

-----------------------------------------------------------------------------
(* Packages *)

\* A length that two bytes can hold is encoded in bytes.
LEMMA HeadFacts ==
  ASSUME NEW n \in Nat, n < Base * Base
  PROVE  EncodeHead(n) \in Seq(Byte)
<1>1. n \div Base \in Byte
  <2>1. n \div Base \in Int /\ 0 <= n \div Base /\ n \div Base < Base
    BY BufferAssumption
  <2> QED
    BY <2>1, BufferAssumption DEF Byte
<1>2. n % Base \in Byte
  BY BufferAssumption DEF Byte
<1> QED
  BY <1>1, <1>2 DEF EncodeHead

\* What appendPackage adds is the package with its head.
LEMMA AppendPackageFacts ==
  ASSUME CopiesForward, NEW b, Sound(b), NEW p \in Answers
  PROVE  /\ Sound(AppendPackage(b, p))
         /\ Packed(p) \in Seq(Byte)
         /\ Readable(AppendPackage(b, p)) = Readable(b) \o Packed(p)
<1> DEFINE h == EncodeHead(Len(p))
           c == AppendString(b, h)
<1>1. p \in Seq(Byte) /\ Len(p) \in Nat /\ Len(p) < Base * Base
  BY WireAssumption, LenProperties
<1>2. h \in Seq(Byte)
  BY <1>1, HeadFacts
<1> HIDE DEF h
<1>3. Sound(c) /\ Readable(c) = Readable(b) \o h
  BY <1>2, AppendStringFacts
<1>4. AppendPackage(b, p) = AppendString(c, p)
  BY DEF AppendPackage, AppendHead, h
<1> HIDE DEF c
<1>5. Sound(AppendString(c, p)) /\ Readable(AppendString(c, p)) = Readable(c) \o p
  BY <1>1, <1>3, AppendStringFacts
<1>6. (Readable(b) \o h) \o p = Readable(b) \o (h \o p)
  BY <1>1, <1>2, ReadableFacts, BytesAssociate
<1>7. h \o p \in Seq(Byte) /\ Packed(p) = h \o p
  BY <1>1, <1>2, ConcatProperties DEF Packed, h
<1> QED
  BY <1>3, <1>4, <1>5, <1>6, <1>7

\* What the length in front of a request says.
LEMMA LengthFacts ==
  ASSUME NEW b \in Buffers, b.readPos + HeadSize <= Len(b.mem)
  PROVE  RequestLength(b) \in Nat
<1> DEFINE h == Data(b, HeadSize)
<1>1. /\ Len(b.mem) \in Nat /\ b.readPos \in Nat /\ b.readPos + 2 <= Len(b.mem)
      /\ \A i \in 1..Len(b.mem) : b.mem[i] \in Byte
  BY BufferFacts, ElementOfSeq DEF HeadSize
<1>2. \A i \in 1..2 : h[i] = b.mem[b.readPos + i]
  <2>1. h = SubSeq(b.mem, b.readPos + 1, b.readPos + 2)
    BY DEF Data, HeadSize
  <2>2. \A i \in (b.readPos + 1)..(b.readPos + 2) : b.mem[i] \in Byte
    BY <1>1
  <2>3. \A i \in 1..((b.readPos + 2) - (b.readPos + 1) + 1) :
           SubSeq(b.mem, b.readPos + 1, b.readPos + 2)[i] = b.mem[b.readPos + 1 + i - 1]
    BY <1>1, <2>2, SubSeqProperties
  <2>4. \A i \in 1..2 : i \in 1..((b.readPos + 2) - (b.readPos + 1) + 1)
                         /\ b.readPos + 1 + i - 1 = b.readPos + i
    BY <1>1
  <2> QED
    BY <2>1, <2>3, <2>4
<1>3. h[1] \in Nat /\ h[2] \in Nat /\ Base \in Nat
  BY <1>1, <1>2, BufferAssumption DEF Byte
<1> HIDE DEF h
<1>4. h[1] * Base \in Nat
  BY <1>3
<1> QED
  BY <1>3, <1>4 DEF RequestLength, DecodeHead, h

-----------------------------------------------------------------------------
(* Types *)

\* A new buffer is empty.
LEMMA NewBufferFacts == Sound(NewBuffer(Capacity))
<1>1. Cleared(Capacity) \in Seq(Byte) /\ Len(Cleared(Capacity)) = Capacity /\ Capacity \in Nat
  BY WireAssumption, ByteFacts DEF Cleared
<1>2. [mem |-> Cleared(Capacity), readPos |-> 0, writePos |-> 0] \in Buffers
  BY <1>1, MakeBuffer
<1> QED
  BY <1>2 DEF Sound, NewBuffer

\* The types hold at first, and every step keeps them.
LEMMA InitTypes == CopiesForward /\ Init => TypeOK
<1> SUFFICES ASSUME CopiesForward, Init PROVE TypeOK
  OBVIOUS
<1>1. readBuf \in Buffers /\ readBuf.readPos <= Len(readBuf.mem)
  BY NewBufferFacts, BufferFacts DEF Init, Sound
<1>2. Sound(writeBuf)
  BY NewBufferFacts, AppendPackageFacts, WireAssumption DEF Init
<1> QED
  BY <1>1, <1>2, EmptySeq DEF Init, TypeOK, Sound

\* The pieces of a sequence of bytes.
LEMMA PieceFacts ==
  ASSUME NEW s \in Seq(Byte), NEW n \in 1..Len(s)
  PROVE  SubSeq(s, 1, n) \in Seq(Byte) /\ SubSeq(s, n + 1, Len(s)) \in Seq(Byte)
<1>1. Len(s) \in Nat /\ \A i \in 1..Len(s) : s[i] \in Byte
  BY LenProperties, ElementOfSeq
<1> QED
  BY <1>1, SubSeqProperties

\* parseRequest keeps the types, whatever it takes for a length.
LEMMA RequestTypes ==
  ASSUME TypeOK, NEW b \in Buffers, b.readPos <= Len(b.mem), ParseRequest(b)
  PROVE  /\ readBuf' \in Buffers /\ readBuf'.readPos <= Len(readBuf'.mem)
         /\ parsed' \in Seq(Seq(Byte))
<1> DEFINE n == RequestLength(b)
<1>1. /\ Len(b.mem) \in Nat /\ b.readPos \in Nat /\ b.mem \in Seq(Byte)
      /\ b.writePos \in Nat /\ b.writePos <= Len(b.mem)
      /\ b.readPos + 2 <= Len(b.mem) /\ b.readPos + 2 + n <= Len(b.mem)
  BY BufferFacts DEF ParseRequest, InMemory, HeadSize
<1>2. n \in Nat
  BY <1>1, LengthFacts DEF HeadSize
<1> HIDE DEF n
<1>3. readBuf' = [mem |-> b.mem, readPos |-> b.readPos + (2 + n), writePos |-> b.writePos]
  BY DEF ParseRequest, Advance, HeadSize, n
<1>4. [mem |-> b.mem, readPos |-> b.readPos + (2 + n), writePos |-> b.writePos] \in Buffers
  <2>1. b.readPos + (2 + n) \in Nat
    BY <1>1, <1>2
  <2> QED
    BY <1>1, <2>1, MakeBuffer
<1>5. readBuf'.readPos <= Len(readBuf'.mem)
  BY <1>1, <1>2, <1>3
<1>6. Request(b) \in Seq(Byte)
  <2>1. Request(b) = SubSeq(b.mem, b.readPos + 2 + 1, b.readPos + 2 + n)
    BY DEF Request, Data, Advance, HeadSize, n
  <2>2. \A i \in (b.readPos + 2 + 1)..(b.readPos + 2 + n) : b.mem[i] \in Byte
    BY <1>1, <1>2, ElementOfSeq
  <2> QED
    BY <1>1, <1>2, <2>1, <2>2, SubSeqProperties
<1>7. parsed' \in Seq(Seq(Byte))
  BY <1>6 DEF ParseRequest, TypeOK
<1> QED
  BY <1>3, <1>4, <1>5, <1>7

LEMMA NextTypes == CopiesForward /\ TypeOK /\ [Next]_vars => TypeOK'
<1> SUFFICES ASSUME CopiesForward, TypeOK, [Next]_vars PROVE TypeOK'
  OBVIOUS
<1>0. Sound(writeBuf) /\ held \in Seq(Byte) /\ down \in Seq(Byte) /\ up \in Seq(Byte)
  BY DEF TypeOK, Sound
<1>1. CASE UNCHANGED vars
  BY <1>1 DEF vars, TypeOK
<1>2. CASE SendMsg
  <2>1. PICK p \in Requests : asked' = Append(asked, p) /\ up' = up \o Packed(p)
    BY <1>2 DEF SendMsg
  <2>2. p \in Seq(Byte) /\ EncodeHead(Len(p)) \in Seq(Byte)
    BY HeadFacts, WireAssumption, LenProperties
  <2>3. up' \in Seq(Byte)
    BY <1>0, <2>1, <2>2, ConcatProperties DEF Packed
  <2>4. asked' \in Seq(Requests)
    BY <2>1 DEF TypeOK
  <2> QED
    BY <1>2, <2>3, <2>4 DEF SendMsg, TypeOK
<1>3. CASE ProcessRead
  <2>1. PICK n \in 1..Len(up) :
           /\ up' = SubSeq(up, n + 1, Len(up))
           /\ LET b == SocketRead(readBuf, SubSeq(up, 1, n))
              IN  /\ split' = (split \/ ~Arrived(b))
                  /\ ParseRequest(b) \/ ParseBeyond(b)
    BY <1>3 DEF ProcessRead
  <2> DEFINE b == SocketRead(readBuf, SubSeq(up, 1, n))
  <2>2. SubSeq(up, 1, n) \in Seq(Byte) /\ up' \in Seq(Byte)
    BY <1>0, <2>1, PieceFacts
  <2>3. b \in Buffers /\ b.readPos <= Len(b.mem)
    BY <2>2, SocketReadFacts DEF TypeOK
  <2>4. ParseRequest(b) \/ ParseBeyond(b)
    BY <2>1
  <2>5. split' \in BOOLEAN
    BY <2>1
  <2> HIDE DEF b
  <2>6. CASE ParseRequest(b)
    <3>1. readBuf' \in Buffers /\ readBuf'.readPos <= Len(readBuf'.mem) /\ parsed' \in Seq(Seq(Byte))
      BY <2>3, <2>6, RequestTypes
    <3>2. Sound(writeBuf')
      BY <1>0, <2>6, AppendPackageFacts DEF ParseRequest
    <3> QED
      BY <1>3, <2>2, <2>5, <2>6, <3>1, <3>2 DEF ProcessRead, ParseRequest, TypeOK, Sound
  <2>7. CASE ParseBeyond(b)
    BY <1>3, <2>2, <2>3, <2>5, <2>7 DEF ProcessRead, ParseBeyond, TypeOK
  <2> QED
    BY <2>4, <2>6, <2>7
<1>4. CASE SendData
  <2>1. PICK n \in 1..ReadableSize(writeBuf) :
           down' = down \o SubSeq(Readable(writeBuf), 1, n) /\ writeBuf' = Advance(writeBuf, n)
    BY <1>4 DEF SendData
  <2>2. Readable(writeBuf) \in Seq(Byte) /\ Len(Readable(writeBuf)) = ReadableSize(writeBuf)
    BY <1>0, ReadableFacts DEF ReadableSize
  <2>3. down' \in Seq(Byte)
    BY <1>0, <2>1, <2>2, PieceFacts, ConcatProperties
  <2>4. Sound(writeBuf')
    <3>1. n \in 0..ReadableSize(writeBuf)
      BY <2>1
    <3> QED
      BY <1>0, <2>1, <3>1, AdvanceFacts
  <2> QED
    BY <1>4, <2>3, <2>4 DEF SendData, upVars, TypeOK, Sound
<1>5. CASE Readn
  <2>1. PICK n \in 1..Len(down) :
           held' = held \o SubSeq(down, 1, n) /\ down' = SubSeq(down, n + 1, Len(down))
    BY <1>5 DEF Readn
  <2>2. held' \in Seq(Byte) /\ down' \in Seq(Byte)
    BY <1>0, <2>1, PieceFacts, ConcatProperties
  <2> QED
    BY <1>5, <2>2 DEF Readn, upVars, TypeOK
<1>6. CASE RecvMsg
  <2>1. SubSeq(held, HeadSize + 1, Len(held)) \in Seq(Byte)
    <3>1. Len(held) \in Nat /\ \A i \in (2 + 1)..Len(held) : held[i] \in Byte
      BY <1>0, LenProperties, ElementOfSeq
    <3> QED
      BY <3>1, SubSeqProperties DEF HeadSize
  <2>2. answered' \in Seq(Seq(Byte)) /\ held' \in Seq(Byte)
    BY <1>6, <2>1, EmptySeq DEF RecvMsg, TypeOK
  <2> QED
    BY <1>6, <2>2 DEF RecvMsg, upVars, TypeOK
<1> QED
  BY <1>1, <1>2, <1>3, <1>4, <1>5, <1>6 DEF Next

\* Every state of a connection's buffers and streams is well typed, whatever requests
\* are parsed from pieces: no position leaves its buffer (buffer.cpp).
THEOREM WireTypes == ASSUME CopiesForward PROVE Spec => []TypeOK
<1>1. Init => TypeOK
  BY InitTypes
<1>2. TypeOK /\ [Next]_vars => TypeOK'
  BY NextTypes
<1> QED
  BY <1>1, <1>2, PTL DEF Spec

-----------------------------------------------------------------------------
(* The refinement *)

\* What is left of a stream after some bytes of its first part are taken.
LEMMA RestOfConcat ==
  ASSUME NEW s \in Seq(Byte), NEW t \in Seq(Byte), NEW n \in 1..Len(s)
  PROVE  SubSeq(s \o t, n + 1, Len(s \o t)) = SubSeq(s, n + 1, Len(s)) \o t
<1> DEFINE u == s \o t
           first == SubSeq(s, 1, n)
           rest  == SubSeq(s, n + 1, Len(s))
<1>1. /\ u \in Seq(Byte) /\ Len(u) = Len(s) + Len(t) /\ Len(s) \in Nat /\ Len(t) \in Nat
  BY ConcatProperties, LenProperties
<1>2. first \in Seq(Byte) /\ rest \in Seq(Byte)
  BY PieceFacts
<1>3. SubSeq(u, 1, n) = first
  BY <1>1, SubSeqOfConcat1
<1>4. s = first \o rest
  <2>1. 1 \in 1..(Len(s) + 1) /\ n \in (1 - 1)..Len(s) /\ Len(s) \in n..Len(s)
    BY <1>1
  <2> QED
    BY <2>1, ConcatAdjacentSubSeq, SubSeqFull
<1>5. u = first \o SubSeq(u, n + 1, Len(u)) /\ SubSeq(u, n + 1, Len(u)) \in Seq(Byte)
  <2>1. /\ 1 \in 1..(Len(u) + 1) /\ n \in (1 - 1)..Len(u) /\ Len(u) \in n..Len(u)
        /\ n \in 1..Len(u)
    BY <1>1
  <2> HIDE DEF u
  <2>2. SubSeq(u, 1, n) \o SubSeq(u, n + 1, Len(u)) = u
    BY <1>1, <2>1, ConcatAdjacentSubSeq, SubSeqFull
  <2> QED
    BY <1>1, <1>3, <2>1, <2>2, PieceFacts
<1> HIDE DEF first, rest
<1>6. (first \o rest) \o t = first \o (rest \o t) /\ rest \o t \in Seq(Byte)
  <2>1. (first \o rest) \o t = first \o (rest \o t)
    BY <1>2, BytesAssociate
  <2> QED
    BY <1>2, <2>1, ConcatProperties
<1>7. first \o SubSeq(u, n + 1, Len(u)) = first \o (rest \o t)
  BY <1>4, <1>5, <1>6
<1> HIDE DEF u
<1>8. SubSeq(u, n + 1, Len(u)) = rest \o t
  BY <1>2, <1>5, <1>6, <1>7, BytesCancel
<1> QED
  BY <1>8 DEF u, rest

\* The queue begins with the key.
LEMMA InitBytes == CopiesForward /\ Init => Q!Init
<1> SUFFICES ASSUME CopiesForward, Init PROVE Q!Init
  OBVIOUS
<1>1. Sound(writeBuf) /\ down \in Seq(Byte)
  BY InitTypes DEF TypeOK, Sound
<1>2. down \o Readable(writeBuf) \in Seq(Byte)
  BY <1>1, ReadableFacts, ConcatProperties
<1> QED
  BY <1>2 DEF Init, Q!Init

\* Every step puts bytes at the end, takes some from the front, uses them, or is hidden.
LEMMA NextBytes ==
  CopiesForward /\ TypeOK /\ [Next]_vars => [Q!Next]_<<down \o Readable(writeBuf), held>>
<1> SUFFICES ASSUME CopiesForward, TypeOK, [Next]_vars
             PROVE  Q!Next \/ UNCHANGED <<down \o Readable(writeBuf), held>>
  OBVIOUS
<1> DEFINE r == Readable(writeBuf)
           q == down \o r
<1>0. Sound(writeBuf) /\ held \in Seq(Byte) /\ down \in Seq(Byte)
  BY DEF TypeOK, Sound
<1>1. /\ r \in Seq(Byte) /\ Len(r) = ReadableSize(writeBuf) /\ q \in Seq(Byte)
      /\ Len(q) = Len(down) + Len(r) /\ Len(down) \in Nat /\ Len(r) \in Nat
      /\ \A i \in 1..(Len(down) + Len(r)) : q[i] = IF i <= Len(down) THEN down[i] ELSE r[i - Len(down)]
  BY <1>0, ReadableFacts, ConcatProperties, LenProperties DEF ReadableSize
<1>2. CASE UNCHANGED vars \/ SendMsg
  BY <1>2 DEF vars, SendMsg
<1>3. ASSUME NEW b, ParseRequest(b), UNCHANGED <<down, held>>
      PROVE  Q!Next \/ UNCHANGED <<q, held>>
  <2>1. CASE UNCHANGED writeBuf
    BY <1>3, <2>1
  <2>2. CASE \E p \in Answers : writeBuf' = AppendPackage(writeBuf, p)
    <3>1. PICK s \in Seq(Byte) : Readable(writeBuf)' = Readable(writeBuf) \o s
      BY <1>0, <2>2, AppendPackageFacts
    <3>2. q' = (down \o r) \o s
      <4>1. q' = down \o (r \o s)
        BY <1>3, <3>1
      <4>2. (down \o r) \o s = down \o (r \o s)
        BY <1>0, <1>1, BytesAssociate
      <4> QED
        BY <4>1, <4>2
    <3>3. q' \in Seq(Byte) /\ Len(q') = Len(q) + Len(s) /\ Len(s) \in Nat /\ Len(q) \in Nat
          /\ \A i \in 1..(Len(q) + Len(s)) : q'[i] = IF i <= Len(q) THEN q[i] ELSE s[i - Len(q)]
      BY <1>1, <3>2, ConcatProperties, LenProperties
    <3> HIDE DEF q
    <3>4. SubSeq(q', 1, Len(q)) = q
      <4>1. \A i \in 1..Len(q) : q'[i] \in Byte
        BY <3>3, ElementOfSeq
      <4>2. /\ SubSeq(q', 1, Len(q)) \in Seq(Byte)
            /\ Len(SubSeq(q', 1, Len(q))) = Len(q)
            /\ \A i \in 1..Len(q) : SubSeq(q', 1, Len(q))[i] = q'[i]
        BY <3>3, <4>1, SubSeqProperties
      <4> QED
        BY <1>1, <3>3, <4>2, SeqEqual
    <3>5. Len(q) <= Len(q')
      BY <3>3
    <3> QED
      BY <1>3, <3>3, <3>4, <3>5 DEF Q!Next, Q!Put, q
  <2> QED
    BY <1>3, <2>1, <2>2 DEF ParseRequest
<1>4. CASE ProcessRead
  <2>1. PICK b : ParseRequest(b) \/ ParseBeyond(b)
    BY <1>4 DEF ProcessRead
  <2>2. UNCHANGED <<down, held>>
    BY <1>4 DEF ProcessRead
  <2> QED
    BY <1>3, <2>1, <2>2 DEF ParseBeyond
<1>5. CASE SendData
  <2>1. PICK n \in 1..ReadableSize(writeBuf) :
           down' = down \o SubSeq(r, 1, n) /\ writeBuf' = Advance(writeBuf, n)
    BY <1>5 DEF SendData
  <2>2. n \in 0..ReadableSize(writeBuf) /\ n \in 1..Len(r)
    BY <1>1, <2>1
  <2>3. r = SubSeq(r, 1, n) \o Readable(writeBuf)' /\ Sound(Advance(writeBuf, n))
    BY <1>0, <2>1, <2>2, AdvanceFacts
  <2>4. SubSeq(r, 1, n) \in Seq(Byte) /\ Readable(writeBuf)' \in Seq(Byte)
    BY <1>1, <2>1, <2>2, <2>3, PieceFacts, ReadableFacts
  <2>5. (down \o SubSeq(r, 1, n)) \o Readable(writeBuf)' = down \o r
    <3>1. (down \o SubSeq(r, 1, n)) \o Readable(writeBuf)'
             = down \o (SubSeq(r, 1, n) \o Readable(writeBuf)')
      BY <1>0, <2>4, BytesAssociate
    <3> QED
      BY <2>3, <3>1
  <2> QED
    BY <1>5, <2>1, <2>5 DEF SendData
<1>6. CASE Readn
  <2>1. PICK n \in 1..Len(down) :
           held' = held \o SubSeq(down, 1, n) /\ down' = SubSeq(down, n + 1, Len(down))
    BY <1>6 DEF Readn
  <2>2. r' = r
    BY <1>6 DEF Readn
  <2>3. n \in 1..Len(q) /\ SubSeq(q, 1, n) = SubSeq(down, 1, n)
    BY <1>0, <1>1, <2>1, SubSeqOfConcat1
  <2>4. SubSeq(q, n + 1, Len(q)) = q'
    BY <1>0, <1>1, <2>1, <2>2, RestOfConcat
  <2> QED
    BY <2>1, <2>3, <2>4 DEF Q!Next, Q!Take
<1>7. CASE RecvMsg
  BY <1>7 DEF RecvMsg, Q!Next, Q!Use
<1> QED
  BY <1>2, <1>4, <1>5, <1>6, <1>7 DEF Next

\* No byte of an answer is lost, changed or overtaken between appendString and the
\* client's recv, whatever the capacity and however send and recv cut the stream.
THEOREM BytesAreAQueue == ASSUME CopiesForward PROVE Spec => BytesInOrder
<1>1. Init => Q!Init
  BY InitBytes
<1>2. TypeOK /\ [Next]_vars => [Q!Next]_<<down \o Readable(writeBuf), held>>
  BY NextBytes
<1>3. Spec => []TypeOK
  BY WireTypes
<1> QED
  BY <1>1, <1>2, <1>3, PTL DEF Spec, BytesInOrder, Q!Spec

-----------------------------------------------------------------------------
(* Unpacking *)

\* A set of numbers has a least one.
LEMMA LeastNumber ==
  ASSUME NEW S \in SUBSET Nat, S # {}
  PROVE  \E p \in S : \A q \in S : p <= q
<1> DEFINE R == OpToRel(<, Nat)
<1>1. \A x, y \in Nat : << x, y >> \in R <=> x < y
  BY DEF OpToRel
<1>2. IsWellFoundedOn(R, Nat)
  BY NatLessThanWellFounded
<1> HIDE DEF R
<1>3. PICK p \in S : \A q \in S : << q, p >> \notin R
  BY <1>2, WFMin
<1>4. \A q \in S : p <= q
  <2> TAKE q \in S
  <2>1. p \in Nat /\ q \in Nat /\ ~(q < p)
    BY <1>1, <1>3
  <2> QED
    BY <2>1
<1> QED
  BY <1>4

\* The size of the package that bytes begin with, whether it is whole, and what follows it.
SizeOf(s)  == HeadSize + DecodeHead(s)
Begins(s)  == HeadSize <= Len(s) /\ SizeOf(s) <= Len(s)
After(s)   == SubSeq(s, SizeOf(s) + 1, Len(s))
Content(s) == SubSeq(s, HeadSize + 1, SizeOf(s))

\* A head in front gives a size, of at least its own two bytes.
LEMMA SizeFacts ==
  ASSUME NEW s \in Seq(Byte), 2 <= Len(s)
  PROVE  SizeOf(s) \in Nat /\ 2 <= SizeOf(s) /\ DecodeHead(s) \in Nat
<1>1. s[1] \in Nat /\ s[2] \in Nat
  BY ElementOfSeq, BufferAssumption DEF Byte
<1>2. s[1] * Base \in Nat
  BY <1>1, BufferAssumption
<1> QED
  BY <1>1, <1>2 DEF SizeOf, DecodeHead, HeadSize

\* A whole package is taken apart into its content and what follows.
LEMMA AfterFacts ==
  ASSUME NEW s \in Seq(Byte), Begins(s)
  PROVE  /\ After(s) \in Seq(Byte) /\ Len(After(s)) = Len(s) - SizeOf(s)
         /\ Len(After(s)) < Len(s)
         /\ Content(s) \in Seq(Byte)
         /\ \A i \in 1..Len(After(s)) : After(s)[i] = s[SizeOf(s) + i]
         /\ Len(Content(s)) = DecodeHead(s)
         /\ \A i \in 1..DecodeHead(s) : Content(s)[i] = s[HeadSize + i]
<1>1. /\ SizeOf(s) \in Nat /\ 2 <= SizeOf(s) /\ SizeOf(s) <= Len(s) /\ Len(s) \in Nat
      /\ DecodeHead(s) \in Nat /\ SizeOf(s) = 2 + DecodeHead(s)
      /\ \A i \in 1..Len(s) : s[i] \in Byte
  BY SizeFacts, LenProperties, ElementOfSeq DEF Begins, HeadSize, SizeOf
<1>2. /\ After(s) \in Seq(Byte) /\ Len(After(s)) = Len(s) - SizeOf(s)
      /\ \A i \in 1..(Len(s) - SizeOf(s)) : After(s)[i] = s[SizeOf(s) + i]
  <2>1. \A i \in (SizeOf(s) + 1)..Len(s) : s[i] \in Byte
    BY <1>1
  <2>2. SizeOf(s) + 1 \in Int /\ SizeOf(s) + 1 <= Len(s) + 1
    BY <1>1
  <2> QED
    BY <1>1, <2>1, <2>2, SubSeqProperties DEF After
<1>3. /\ Content(s) \in Seq(Byte) /\ Len(Content(s)) = DecodeHead(s)
      /\ \A i \in 1..DecodeHead(s) : Content(s)[i] = s[HeadSize + i]
  <2>1. \A i \in (HeadSize + 1)..SizeOf(s) : s[i] \in Byte
    BY <1>1 DEF HeadSize
  <2> QED
    BY <1>1, <2>1, SubSeqProperties DEF Content, HeadSize
<1> QED
  BY <1>1, <1>2, <1>3

\* One package and the packages of the rest, for which f is asked.
Unpack(f, s) == IF Begins(s) THEN << Content(s) >> \o f[After(s)] ELSE << >>

Shorter(n) == { s \in Seq(Byte) : Len(s) < n }

\* f unpacks everything shorter than n.
Unpacks(f, n) == f = [s \in Shorter(n) |-> Unpack(f, s)]

\* Two functions that agree on the rest unpack the same.
LEMMA UnpackRest ==
  ASSUME NEW s \in Seq(Byte), NEW f, NEW g, Begins(s) => f[After(s)] = g[After(s)]
  PROVE  Unpack(f, s) = Unpack(g, s)
BY DEF Unpack

\* What unpacks everything short is determined, and there is such a function for every
\* length: by the least length for which it fails.
LEMMA UnpackUnique ==
  ASSUME NEW f, NEW g, NEW n \in Nat, NEW m \in Nat, Unpacks(f, n), Unpacks(g, m),
         NEW s \in Seq(Byte), Len(s) < n, Len(s) < m
  PROVE  f[s] = g[s]
<1> DEFINE Differ == { k \in Nat : \E u \in Seq(Byte) :
                         Len(u) = k /\ k < n /\ k < m /\ f[u] # g[u] }
<1>1. SUFFICES ASSUME f[s] # g[s] PROVE FALSE
  OBVIOUS
<1>2. Differ # {}
  <2>1. Len(s) \in Differ
    BY <1>1, LenProperties
  <2> QED
    BY <2>1
<1>3. PICK k \in Differ : \A j \in Differ : k <= j
  BY <1>2, LeastNumber
<1>4. PICK u \in Seq(Byte) : Len(u) = k /\ k < n /\ k < m /\ f[u] # g[u]
  BY <1>3
<1>5. u \in Shorter(n) /\ u \in Shorter(m)
  BY <1>4 DEF Shorter
<1>6. f[u] = Unpack(f, u) /\ g[u] = Unpack(g, u)
  BY <1>5 DEF Unpacks
<1>7. Begins(u) => f[After(u)] = g[After(u)]
  <2> SUFFICES ASSUME Begins(u), f[After(u)] # g[After(u)] PROVE FALSE
    OBVIOUS
  <2>1. After(u) \in Seq(Byte) /\ Len(After(u)) < k /\ Len(After(u)) \in Nat
    BY <1>4, AfterFacts, LenProperties
  <2>2. Len(After(u)) \in Differ
    BY <1>4, <2>1
  <2> QED
    BY <1>3, <2>1, <2>2
<1> QED
  BY <1>4, <1>6, <1>7, UnpackRest

LEMMA UnpackExists == \A n \in Nat : \E f : Unpacks(f, n)
<1> DEFINE Lacks == { n \in Nat : ~\E f : Unpacks(f, n) }
<1>1. SUFFICES ASSUME Lacks # {} PROVE FALSE
  OBVIOUS
<1>2. PICK n \in Lacks : \A j \in Lacks : n <= j
  BY <1>1, LeastNumber
<1>3. CASE n = 0
  <2>1. Shorter(0) = {}
    BY LenProperties DEF Shorter
  <2>2. \A f : [s \in Shorter(0) |-> Unpack(f, s)] = [s \in {} |-> 0]
    BY <2>1
  <2>3. Unpacks([s \in {} |-> 0], 0)
    BY <2>2 DEF Unpacks
  <2> QED
    BY <1>2, <1>3, <2>3
<1>4. CASE n # 0
  <2>1. n - 1 \in Nat /\ n - 1 \notin Lacks
    BY <1>2, <1>4
  <2>2. PICK f : Unpacks(f, n - 1)
    BY <2>1
  <2> DEFINE g == [s \in Shorter(n) |-> IF Len(s) < n - 1 THEN f[s] ELSE Unpack(f, s)]
  <2>3. ASSUME NEW s \in Shorter(n) PROVE g[s] = Unpack(g, s)
    <3>1. s \in Seq(Byte) /\ Len(s) < n /\ Len(s) \in Nat
      BY LenProperties DEF Shorter
    <3>2. g[s] = Unpack(f, s)
      <4>1. CASE Len(s) < n - 1
        <5>1. s \in Shorter(n - 1)
          BY <3>1, <4>1 DEF Shorter
        <5> QED
          BY <2>2, <4>1, <5>1 DEF Unpacks
      <4> QED
        BY <4>1
    <3>3. Begins(s) => f[After(s)] = g[After(s)]
      <4> SUFFICES ASSUME Begins(s) PROVE f[After(s)] = g[After(s)]
        OBVIOUS
      <4>1. After(s) \in Seq(Byte) /\ Len(After(s)) < Len(s) /\ Len(After(s)) \in Nat
        BY <3>1, AfterFacts, LenProperties
      <4>2. Len(After(s)) < n - 1 /\ After(s) \in Shorter(n)
        BY <3>1, <4>1 DEF Shorter
      <4> QED
        BY <4>2
    <3> HIDE DEF g
    <3> QED
      BY <3>1, <3>2, <3>3, UnpackRest
  <2>4. g = [s \in Shorter(n) |-> g[s]]
    OBVIOUS
  <2>5. Unpacks(g, n)
    <3> HIDE DEF g
    <3> QED
      BY <2>3, <2>4 DEF Unpacks
  <2> QED
    BY <1>2, <2>5
<1> QED
  BY <1>3, <1>4

\* The recursion of Whole ends, as what follows a package is shorter.
LEMMA WholeIs == \A s \in Seq(Byte) : Whole[s] = Unpack(Whole, s)
<1> DEFINE U(n) == CHOOSE f : Unpacks(f, n)
           w == [s \in Seq(Byte) |-> U(Len(s) + 1)[s]]
<1>1. \A n \in Nat : Unpacks(U(n), n)
  BY UnpackExists
<1>2. ASSUME NEW s \in Seq(Byte) PROVE w[s] = Unpack(w, s)
  <2>1. Len(s) \in Nat /\ s \in Shorter(Len(s) + 1)
    BY LenProperties DEF Shorter
  <2> DEFINE f == U(Len(s) + 1)
  <2>2. Unpacks(f, Len(s) + 1)
    BY <1>1, <2>1
  <2>3. f[s] = Unpack(f, s)
    <3> HIDE DEF f
    <3> QED
      BY <2>1, <2>2 DEF Unpacks
  <2>4. Begins(s) => f[After(s)] = w[After(s)]
    <3> SUFFICES ASSUME Begins(s) PROVE f[After(s)] = w[After(s)]
      OBVIOUS
    <3>1. After(s) \in Seq(Byte) /\ Len(After(s)) < Len(s) /\ Len(After(s)) \in Nat
      BY AfterFacts, LenProperties
    <3> DEFINE h == U(Len(After(s)) + 1)
    <3>2. Unpacks(h, Len(After(s)) + 1)
      BY <1>1, <3>1
    <3>3. w[After(s)] = h[After(s)]
      BY <3>1
    <3> HIDE DEF f, h, w
    <3>4. Len(s) + 1 \in Nat /\ Len(After(s)) + 1 \in Nat
          /\ Len(After(s)) < Len(s) + 1 /\ Len(After(s)) < Len(After(s)) + 1
      BY <2>1, <3>1
    <3>5. f[After(s)] = h[After(s)]
      BY <2>2, <3>1, <3>2, <3>4, UnpackUnique
    <3> QED
      BY <3>3, <3>5
  <2>5. w[s] = f[s]
    OBVIOUS
  <2> HIDE DEF f, w
  <2>6. Unpack(f, s) = Unpack(w, s)
    BY <2>4, UnpackRest
  <2> QED
    BY <2>3, <2>5, <2>6
<1>3. w = [s \in Seq(Byte) |-> Unpack(w, s)]
  <2>1. w = [s \in Seq(Byte) |-> w[s]]
    OBVIOUS
  <2> HIDE DEF w
  <2> QED
    BY <1>2, <2>1
<1> DEFINE Step(f, s) ==
             LET n == HeadSize + DecodeHead(s)
             IN  IF Len(s) < HeadSize \/ Len(s) < n THEN << >>
                 ELSE << SubSeq(s, HeadSize + 1, n) >> \o f[SubSeq(s, n + 1, Len(s))]
<1>4. \A f : \A s \in Seq(Byte) : Step(f, s) = Unpack(f, s)
  <2> TAKE f
  <2> TAKE s \in Seq(Byte)
  <2>1. CASE Len(s) < 2
    BY <2>1 DEF Unpack, Begins, HeadSize
  <2>2. CASE ~(Len(s) < 2)
    <3>1. Len(s) \in Nat /\ 2 <= Len(s)
      BY <2>2, LenProperties
    <3>2. SizeOf(s) \in Nat
      BY <3>1, SizeFacts
    <3>3. Begins(s) <=> ~(Len(s) < HeadSize \/ Len(s) < SizeOf(s))
      BY <3>1, <3>2 DEF Begins, HeadSize
    <3> QED
      BY <3>3 DEF Unpack, SizeOf, Content, After
  <2> QED
    BY <2>1, <2>2
<1>5. \E f : f = [s \in Seq(Byte) |-> Step(f, s)]
  <2>1. [s \in Seq(Byte) |-> Step(w, s)] = [s \in Seq(Byte) |-> Unpack(w, s)]
    <3> HIDE DEF Step, w
    <3> QED
      BY <1>4
  <2> HIDE DEF Step, w
  <2> QED
    BY <1>3, <2>1
<1>6. Whole = CHOOSE f : f = [s \in Seq(Byte) |-> Step(f, s)]
  BY DEF Whole
<1>7. Whole = [s \in Seq(Byte) |-> Step(Whole, s)]
  <2> HIDE DEF Step
  <2> QED
    BY <1>5, <1>6
<1> HIDE DEF Step
<1> QED
  BY <1>4, <1>7

\* Two sequences, one behind the other.
LEMMA ConcatIndex ==
  ASSUME NEW a \in Seq(Byte), NEW b \in Seq(Byte)
  PROVE  /\ a \o b \in Seq(Byte) /\ Len(a) \in Nat /\ Len(b) \in Nat
         /\ Len(a \o b) = Len(a) + Len(b)
         /\ \A i \in 1..Len(a) : (a \o b)[i] = a[i]
         /\ \A i \in 1..Len(b) : (a \o b)[Len(a) + i] = b[i]
<1>1. /\ a \o b \in Seq(Byte) /\ Len(a) \in Nat /\ Len(b) \in Nat
      /\ Len(a \o b) = Len(a) + Len(b)
      /\ \A i \in 1..(Len(a) + Len(b)) :
           (a \o b)[i] = IF i <= Len(a) THEN a[i] ELSE b[i - Len(a)]
  BY ConcatProperties, LenProperties
<1>2. \A i \in 1..Len(a) : (a \o b)[i] = a[i]
  <2> TAKE i \in 1..Len(a)
  <2>1. i \in 1..(Len(a) + Len(b)) /\ i <= Len(a)
    BY <1>1
  <2> QED
    BY <1>1, <2>1
<1>3. \A i \in 1..Len(b) : (a \o b)[Len(a) + i] = b[i]
  <2> TAKE i \in 1..Len(b)
  <2>1. /\ Len(a) + i \in 1..(Len(a) + Len(b)) /\ ~(Len(a) + i <= Len(a))
        /\ (Len(a) + i) - Len(a) = i
    BY <1>1
  <2> QED
    BY <1>1, <2>1
<1> QED
  BY <1>1, <1>2, <1>3

\* A package with its head, and what the client makes of one.
IsPackage(p) == p \in Seq(Byte) /\ Len(p) < Base * Base

\* The head of a package says its length.
LEMMA PackedFacts ==
  ASSUME NEW p, IsPackage(p)
  PROVE  /\ Packed(p) \in Seq(Byte) /\ Len(Packed(p)) = 2 + Len(p) /\ Len(p) \in Nat
         /\ DecodeHead(Packed(p)) = Len(p)
         /\ \A i \in 1..Len(p) : Packed(p)[2 + i] = p[i]
<1>1. p \in Seq(Byte) /\ Len(p) \in Nat /\ Len(p) < Base * Base
  BY LenProperties DEF IsPackage
<1> DEFINE h == EncodeHead(Len(p))
<1>2. h \in Seq(Byte) /\ Len(h) = 2 /\ h[1] = Len(p) \div Base /\ h[2] = Len(p) % Base
  BY <1>1, HeadFacts DEF EncodeHead
<1>7. Packed(p) = h \o p
  BY DEF Packed
<1> HIDE DEF h
<1>3. /\ Packed(p) \in Seq(Byte) /\ Len(Packed(p)) = 2 + Len(p)
      /\ \A i \in 1..2 : Packed(p)[i] = h[i]
      /\ \A i \in 1..Len(p) : Packed(p)[2 + i] = p[i]
  <2>1. /\ h \o p \in Seq(Byte) /\ Len(h \o p) = Len(h) + Len(p)
        /\ \A i \in 1..Len(h) : (h \o p)[i] = h[i]
        /\ \A i \in 1..Len(p) : (h \o p)[Len(h) + i] = p[i]
    BY <1>1, <1>2, ConcatIndex
  <2> QED
    BY <1>2, <1>7, <2>1
<1>4. Packed(p)[1] = h[1] /\ Packed(p)[2] = h[2]
  BY <1>1, <1>3
<1>5. (Len(p) \div Base) * Base + (Len(p) % Base) = Len(p)
  BY <1>1, BufferAssumption
<1>6. DecodeHead(Packed(p)) = Len(p)
  BY <1>2, <1>4, <1>5 DEF DecodeHead
<1> QED
  BY <1>1, <1>3, <1>6

\* The bytes of a package in front tell its size, and come out as its content.
LEMMA FrontFacts ==
  ASSUME NEW p, IsPackage(p), NEW t \in Seq(Byte)
  PROVE  /\ Packed(p) \o t \in Seq(Byte) /\ Begins(Packed(p) \o t)
         /\ SizeOf(Packed(p) \o t) = 2 + Len(p)
         /\ Content(Packed(p) \o t) = p
         /\ After(Packed(p) \o t) = t
<1> DEFINE q == Packed(p)
           s == q \o t
<1>1. /\ q \in Seq(Byte) /\ Len(q) = 2 + Len(p) /\ Len(p) \in Nat /\ DecodeHead(q) = Len(p)
      /\ \A i \in 1..Len(p) : q[2 + i] = p[i]
  BY PackedFacts
<1> HIDE DEF q
<1>2. /\ s \in Seq(Byte) /\ Len(s) = Len(q) + Len(t) /\ Len(t) \in Nat
      /\ \A i \in 1..Len(q) : s[i] = q[i]
      /\ \A i \in 1..Len(t) : s[Len(q) + i] = t[i]
  BY <1>1, ConcatIndex
<1> HIDE DEF s
<1>3. s[1] = q[1] /\ s[2] = q[2]
  BY <1>1, <1>2
<1>4. DecodeHead(s) = Len(p)
  BY <1>1, <1>3 DEF DecodeHead
<1>5. SizeOf(s) = 2 + Len(p) /\ Begins(s)
  BY <1>1, <1>2, <1>4 DEF SizeOf, Begins, HeadSize
<1>6. Content(s) = p
  <2>1. /\ Content(s) \in Seq(Byte) /\ Len(Content(s)) = Len(p)
        /\ \A i \in 1..Len(p) : Content(s)[i] = s[2 + i]
    BY <1>2, <1>4, <1>5, AfterFacts DEF HeadSize
  <2>2. \A i \in 1..Len(p) : 2 + i \in 1..Len(q)
    BY <1>1
  <2>4. \A i \in 1..Len(p) : s[2 + i] = p[i]
    BY <1>1, <1>2, <2>2
  <2>3. p \in Seq(Byte)
    BY DEF IsPackage
  <2> QED
    BY <2>1, <2>3, <2>4, SeqEqual
<1>7. After(s) = t
  <2>1. /\ After(s) \in Seq(Byte) /\ Len(After(s)) = Len(t)
        /\ \A i \in 1..Len(t) : After(s)[i] = s[2 + Len(p) + i]
    BY <1>1, <1>2, <1>5, AfterFacts
  <2>2. \A i \in 1..Len(t) : s[2 + Len(p) + i] = t[i]
    BY <1>1, <1>2
  <2> QED
    BY <2>1, <2>2, SeqEqual
<1> QED
  BY <1>2, <1>5, <1>6, <1>7 DEF s, q

\* Bytes are the packages ps, one behind the other: the i-th begins behind position c[i].
Cuts(s, ps, c) ==
  /\ c \in [1..(Len(ps) + 1) -> 0..Len(s)]
  /\ c[1] = 0 /\ c[Len(ps) + 1] = Len(s)
  /\ \A i, j \in 1..(Len(ps) + 1) : i <= j => c[i] <= c[j]
  /\ \A i \in 1..Len(ps) :
       /\ c[i + 1] = c[i] + Len(Packed(ps[i]))
       /\ \A k \in 1..Len(Packed(ps[i])) : s[c[i] + k] = Packed(ps[i])[k]

Made(s, ps) ==
  /\ s \in Seq(Byte)
  /\ ps \in Seq(Seq(Byte))
  /\ \A i \in 1..Len(ps) : IsPackage(ps[i])
  /\ \E c : Cuts(s, ps, c)

\* No bytes are no packages.
LEMMA MadeOfNone == Made(<< >>, << >>)
<1>1. << >> \in Seq(Byte) /\ << >> \in Seq(Seq(Byte)) /\ Len(<< >>) = 0
  OBVIOUS
<1>2. Cuts(<< >>, << >>, [i \in 1..1 |-> 0])
  BY <1>1 DEF Cuts
<1> QED
  BY <1>1, <1>2 DEF Made

\* One package more at the end.
LEMMA MadeOfMore ==
  ASSUME NEW s, NEW ps, Made(s, ps), NEW p, IsPackage(p)
  PROVE  Made(s \o Packed(p), Append(ps, p))
<1> DEFINE q == Packed(p)
           t == s \o q
           n == Len(ps)
           pp == Append(ps, p)
<1>1. PICK c : Cuts(s, ps, c)
  BY DEF Made
<1>2. /\ s \in Seq(Byte) /\ ps \in Seq(Seq(Byte)) /\ p \in Seq(Byte)
      /\ n \in Nat /\ Len(s) \in Nat
      /\ \A i \in 1..n : IsPackage(ps[i])
  BY LenProperties DEF Made, IsPackage
<1>3. q \in Seq(Byte) /\ Len(q) \in Nat
  BY PackedFacts, LenProperties
<1>4. /\ pp \in Seq(Seq(Byte)) /\ Len(pp) = n + 1
      /\ \A i \in 1..n : pp[i] = ps[i]
      /\ pp[n + 1] = p
  BY <1>2
<1> HIDE DEF q, pp, n
<1>5. /\ t \in Seq(Byte) /\ Len(t) = Len(s) + Len(q)
      /\ \A i \in 1..Len(s) : t[i] = s[i]
      /\ \A i \in 1..Len(q) : t[Len(s) + i] = q[i]
  BY <1>2, <1>3, ConcatIndex
<1> HIDE DEF t
<1> DEFINE d == [i \in 1..(n + 2) |-> IF i <= n + 1 THEN c[i] ELSE Len(t)]
<1>6. /\ c \in [1..(n + 1) -> 0..Len(s)] /\ c[1] = 0 /\ c[n + 1] = Len(s)
      /\ \A i, j \in 1..(n + 1) : i <= j => c[i] <= c[j]
      /\ \A i \in 1..n :
           /\ c[i + 1] = c[i] + Len(Packed(ps[i]))
           /\ \A k \in 1..Len(Packed(ps[i])) : s[c[i] + k] = Packed(ps[i])[k]
  BY <1>1 DEF Cuts, n
<1>7. /\ \A i \in 1..(n + 1) : c[i] \in Nat /\ c[i] <= Len(s) /\ d[i] = c[i]
      /\ d[n + 2] = Len(t)
  BY <1>2, <1>6
<1>8. d \in [1..(n + 2) -> 0..Len(t)] /\ d[1] = 0
  BY <1>2, <1>3, <1>5, <1>6, <1>7
<1> HIDE DEF d
<1>9. \A i, j \in 1..(n + 2) : i <= j => d[i] <= d[j]
  <2> TAKE i, j \in 1..(n + 2)
  <2> HAVE i <= j
  <2>1. CASE j \in 1..(n + 1)
    <3>1. i \in 1..(n + 1)
      BY <1>2, <2>1
    <3> QED
      BY <1>6, <1>7, <2>1, <3>1
  <2>2. CASE j = n + 2
    <3>1. d[i] \in 0..Len(t) /\ d[j] = Len(t)
      BY <1>7, <1>8, <2>2
    <3> QED
      BY <3>1
  <2> QED
    BY <1>2, <2>1, <2>2
<1>10. ASSUME NEW i \in 1..(n + 1)
       PROVE  /\ d[i + 1] = d[i] + Len(Packed(pp[i]))
              /\ \A k \in 1..Len(Packed(pp[i])) : t[d[i] + k] = Packed(pp[i])[k]
  <2>1. CASE i \in 1..n
    <3>1. i + 1 \in 1..(n + 1) /\ pp[i] = ps[i] /\ d[i] = c[i] /\ d[i + 1] = c[i + 1]
      BY <1>2, <1>4, <1>7, <2>1
    <3>2. Len(Packed(ps[i])) \in Nat
      BY <1>2, <2>1, PackedFacts
    <3>3. \A k \in 1..Len(Packed(ps[i])) : c[i] + k \in 1..Len(s)
      <4>1. /\ c[i + 1] = c[i] + Len(Packed(ps[i])) /\ c[i] \in Nat
            /\ c[i + 1] \in Nat /\ c[i + 1] <= Len(s)
        BY <1>2, <1>6, <1>7, <2>1, <3>1
      <4> QED
        BY <1>2, <3>2, <4>1
    <3>4. \A k \in 1..Len(Packed(ps[i])) : t[c[i] + k] = s[c[i] + k]
      BY <1>2, <1>3, <1>5, <3>3
    <3> QED
      BY <1>6, <2>1, <3>1, <3>4
  <2>2. CASE i = n + 1
    <3>1. pp[i] = p /\ d[i] = Len(s) /\ d[i + 1] = Len(s) + Len(q)
      BY <1>2, <1>4, <1>5, <1>6, <1>7, <2>2
    <3>2. \A k \in 1..Len(q) : t[Len(s) + k] = q[k]
      BY <1>2, <1>3, <1>5
    <3> QED
      BY <3>1, <3>2 DEF q
  <2> QED
    BY <1>2, <2>1, <2>2
<1>11. Cuts(t, pp, d)
  <2>1. Len(pp) + 1 = n + 2
    BY <1>2, <1>4
  <2> QED
    BY <1>4, <1>7, <1>8, <1>9, <1>10, <2>1 DEF Cuts
<1>12. \A i \in 1..Len(pp) : IsPackage(pp[i])
  BY <1>2, <1>4
<1> QED
  BY <1>4, <1>5, <1>11, <1>12 DEF Made, t, q, pp

\* The first package in front of the others.
LEMMA MadeOfFirst ==
  ASSUME NEW s, NEW ps, Made(s, ps), ps # << >>
  PROVE  /\ IsPackage(ps[1])
         /\ s = Packed(ps[1]) \o After(s)
         /\ After(s) \in Seq(Byte)
         /\ Begins(s) /\ Content(s) = ps[1] /\ SizeOf(s) = Len(Packed(ps[1]))
         /\ Made(After(s), Tail(ps))
<1> DEFINE q == Packed(ps[1])
           n == Len(ps)
           r == SubSeq(s, Len(q) + 1, Len(s))
           tp == Tail(ps)
<1>1. PICK c : Cuts(s, ps, c)
  BY DEF Made
<1>2. /\ s \in Seq(Byte) /\ ps \in Seq(Seq(Byte)) /\ n \in Nat /\ n >= 1 /\ Len(s) \in Nat
      /\ \A i \in 1..n : IsPackage(ps[i])
  BY LenProperties, EmptySeq DEF Made
<1>3. IsPackage(ps[1]) /\ q \in Seq(Byte) /\ Len(q) \in Nat
  BY <1>2, PackedFacts, LenProperties
<1>4. /\ tp \in Seq(Seq(Byte)) /\ Len(tp) = n - 1
      /\ \A i \in 1..(n - 1) : tp[i] = ps[i + 1]
  BY <1>2, HeadTailProperties
<1>5. /\ c \in [1..(n + 1) -> 0..Len(s)] /\ c[1] = 0 /\ c[n + 1] = Len(s)
      /\ \A i, j \in 1..(n + 1) : i <= j => c[i] <= c[j]
      /\ \A i \in 1..n :
           /\ c[i + 1] = c[i] + Len(Packed(ps[i]))
           /\ \A k \in 1..Len(Packed(ps[i])) : s[c[i] + k] = Packed(ps[i])[k]
  BY <1>1 DEF Cuts
<1> HIDE DEF n, q, tp
<1>6. c[2] = Len(q) /\ Len(q) <= Len(s) /\ \A k \in 1..Len(q) : s[k] = q[k]
  <2>1. 1 \in 1..n /\ 2 \in 1..(n + 1)
    BY <1>2
  <2>2. c[1 + 1] = c[1] + Len(Packed(ps[1]))
        /\ \A k \in 1..Len(Packed(ps[1])) : s[c[1] + k] = Packed(ps[1])[k]
    BY <1>5, <2>1
  <2>3. c[2] = Len(q) /\ \A k \in 1..Len(q) : s[k] = q[k]
    BY <1>3, <1>5, <2>2 DEF q
  <2> QED
    BY <1>5, <2>1, <2>3
<1>7. /\ r \in Seq(Byte) /\ Len(r) = Len(s) - Len(q)
      /\ \A i \in 1..(Len(s) - Len(q)) : r[i] = s[Len(q) + i]
  <2>1. \A i \in (Len(q) + 1)..Len(s) : s[i] \in Byte
    BY <1>2, <1>3, ElementOfSeq
  <2> QED
    BY <1>2, <1>3, <1>6, <2>1, SubSeqProperties
<1> HIDE DEF r
<1>8. s = q \o r
  <2>1. /\ q \o r \in Seq(Byte) /\ Len(q \o r) = Len(s)
        /\ \A i \in 1..Len(q) : (q \o r)[i] = q[i]
        /\ \A i \in 1..Len(r) : (q \o r)[Len(q) + i] = r[i]
    BY <1>2, <1>3, <1>6, <1>7, ConcatIndex
  <2>2. ASSUME NEW i \in 1..Len(s) PROVE (q \o r)[i] = s[i]
    <3>1. CASE i <= Len(q)
      <4>1. i \in 1..Len(q)
        BY <1>2, <1>3, <3>1
      <4> QED
        BY <1>6, <2>1, <4>1
    <3>2. CASE ~(i <= Len(q))
      <4>1. i - Len(q) \in 1..Len(r) /\ Len(q) + (i - Len(q)) = i
        BY <1>2, <1>3, <1>7, <3>2
      <4> QED
        BY <1>7, <2>1, <4>1
    <3> QED
      BY <3>1, <3>2
  <2> QED
    BY <1>2, <2>1, <2>2, SeqEqual
<1>9. /\ Begins(s) /\ Content(s) = ps[1] /\ After(s) = r /\ SizeOf(s) = Len(q)
  <2>1. Len(q) = 2 + Len(ps[1])
    BY <1>3, PackedFacts DEF q
  <2> QED
    BY <1>3, <1>7, <1>8, <2>1, FrontFacts DEF q
<1> DEFINE d == [i \in 1..n |-> c[i + 1] - Len(q)]
<1>10. \A i \in 1..n : c[i + 1] \in Nat /\ Len(q) <= c[i + 1] /\ c[i + 1] <= Len(s)
  <2> TAKE i \in 1..n
  <2>1. i + 1 \in 1..(n + 1) /\ 2 \in 1..(n + 1) /\ 2 <= i + 1
    BY <1>2
  <2>2. c[2] <= c[i + 1] /\ c[i + 1] \in 0..Len(s)
    BY <1>5, <2>1
  <2> QED
    BY <1>2, <1>6, <2>2
<1>11. d \in [1..n -> 0..Len(r)] /\ d[1] = 0 /\ d[n] = Len(r)
  BY <1>2, <1>3, <1>5, <1>6, <1>7, <1>10
<1>12. \A i \in 1..n : d[i] = c[i + 1] - Len(q)
  OBVIOUS
<1> HIDE DEF d
<1>13. \A i, j \in 1..n : i <= j => d[i] <= d[j]
  <2> TAKE i, j \in 1..n
  <2> HAVE i <= j
  <2>1. i + 1 \in 1..(n + 1) /\ j + 1 \in 1..(n + 1) /\ i + 1 <= j + 1
    BY <1>2
  <2>2. c[i + 1] <= c[j + 1]
    BY <1>5, <2>1
  <2> QED
    BY <1>3, <1>10, <1>12, <2>2
<1>14. ASSUME NEW i \in 1..(n - 1)
       PROVE  /\ d[i + 1] = d[i] + Len(Packed(tp[i]))
              /\ \A k \in 1..Len(Packed(tp[i])) : r[d[i] + k] = Packed(tp[i])[k]
  <2>1. i \in 1..n /\ i + 1 \in 1..n /\ tp[i] = ps[i + 1]
    BY <1>2, <1>4
  <2>2. Len(Packed(ps[i + 1])) \in Nat
    BY <1>2, <2>1, PackedFacts
  <2>3. /\ c[(i + 1) + 1] = c[i + 1] + Len(Packed(ps[i + 1]))
        /\ \A k \in 1..Len(Packed(ps[i + 1])) : s[c[i + 1] + k] = Packed(ps[i + 1])[k]
    BY <1>5, <2>1
  <2>4. d[i + 1] = c[(i + 1) + 1] - Len(q) /\ d[i] = c[i + 1] - Len(q)
    BY <1>12, <2>1
  <2>5. \A k \in 1..Len(Packed(ps[i + 1])) :
          d[i] + k \in 1..(Len(s) - Len(q)) /\ Len(q) + (d[i] + k) = c[i + 1] + k
    <3>1. /\ c[i + 1] \in Nat /\ Len(q) <= c[i + 1]
          /\ c[(i + 1) + 1] \in Nat /\ c[(i + 1) + 1] <= Len(s)
      BY <1>10, <2>1
    <3> DEFINE a == c[i + 1]
               z == c[(i + 1) + 1]
               m == Len(Packed(ps[i + 1]))
    <3>2. /\ a \in Nat /\ Len(q) <= a /\ z \in Nat /\ z <= Len(s) /\ m \in Nat
          /\ z = a + m /\ d[i] = a - Len(q) /\ Len(s) \in Nat /\ Len(q) \in Nat
      BY <1>2, <1>3, <2>2, <2>3, <2>4, <3>1
    <3> HIDE DEF a, z, m
    <3>3. \A k \in 1..m : d[i] + k \in 1..(Len(s) - Len(q)) /\ Len(q) + (d[i] + k) = a + k
      BY <3>2
    <3> QED
      BY <3>3 DEF a, m
  <2>6. \A k \in 1..Len(Packed(ps[i + 1])) : r[d[i] + k] = s[c[i + 1] + k]
    BY <1>7, <2>5
  <2>7. d[i + 1] = d[i] + Len(Packed(ps[i + 1]))
    BY <1>3, <1>10, <2>1, <2>2, <2>3, <2>4
  <2> QED
    BY <2>1, <2>3, <2>6, <2>7
<1>15. Cuts(r, tp, d)
  <2>1. Len(tp) = n - 1 /\ Len(tp) + 1 = n
    BY <1>2, <1>4
  <2> QED
    BY <1>11, <1>13, <1>14, <2>1 DEF Cuts
<1>16. \A i \in 1..Len(tp) : IsPackage(tp[i])
  BY <1>2, <1>4
<1>17. Made(r, tp)
  BY <1>4, <1>7, <1>15, <1>16 DEF Made
<1> QED
  BY <1>3, <1>7, <1>8, <1>9, <1>17 DEF q, tp

-----------------------------------------------------------------------------
(* What bytes unpack to *)

\* Bytes behind a whole package change neither it nor where it ends.
LEMMA BeginsMore ==
  ASSUME NEW s \in Seq(Byte), NEW t \in Seq(Byte), Begins(s)
  PROVE  /\ s \o t \in Seq(Byte) /\ Begins(s \o t) /\ SizeOf(s \o t) = SizeOf(s)
         /\ Content(s \o t) = Content(s) /\ After(s \o t) = After(s) \o t
<1> DEFINE u == s \o t
<1>1. /\ u \in Seq(Byte) /\ Len(u) = Len(s) + Len(t) /\ Len(s) \in Nat /\ Len(t) \in Nat
      /\ \A i \in 1..Len(s) : u[i] = s[i]
  BY ConcatIndex
<1>2. /\ 2 <= Len(s) /\ SizeOf(s) <= Len(s) /\ SizeOf(s) \in Nat /\ 2 <= SizeOf(s)
      /\ DecodeHead(s) \in Nat /\ SizeOf(s) = 2 + DecodeHead(s)
  BY SizeFacts DEF Begins, HeadSize, SizeOf
<1>3. After(u) = After(s) \o t \/ SizeOf(u) # SizeOf(s)
  <2>1. SizeOf(s) \in 1..Len(s)
    BY <1>1, <1>2
  <2>2. SubSeq(u, SizeOf(s) + 1, Len(u)) = SubSeq(s, SizeOf(s) + 1, Len(s)) \o t
    BY <2>1, RestOfConcat
  <2> QED
    BY <2>2 DEF After
<1> HIDE DEF u
<1>4. u[1] = s[1] /\ u[2] = s[2]
  BY <1>1, <1>2
<1>5. DecodeHead(u) = DecodeHead(s) /\ SizeOf(u) = SizeOf(s)
  BY <1>4 DEF DecodeHead, SizeOf
<1>6. Begins(u)
  BY <1>1, <1>2, <1>5 DEF Begins, HeadSize
<1>7. Content(u) = Content(s)
  <2>1. /\ Content(u) \in Seq(Byte) /\ Len(Content(u)) = DecodeHead(s)
        /\ \A i \in 1..DecodeHead(s) : Content(u)[i] = u[2 + i]
    BY <1>1, <1>5, <1>6, AfterFacts DEF HeadSize
  <2>2. /\ Content(s) \in Seq(Byte) /\ Len(Content(s)) = DecodeHead(s)
        /\ \A i \in 1..DecodeHead(s) : Content(s)[i] = s[2 + i]
    BY AfterFacts DEF HeadSize
  <2>3. \A i \in 1..DecodeHead(s) : u[2 + i] = s[2 + i]
    BY <1>1, <1>2
  <2>4. \A i \in 1..DecodeHead(s) : Content(u)[i] = Content(s)[i]
    BY <2>1, <2>2, <2>3
  <2> QED
    BY <2>1, <2>2, <2>4, SeqEqual
<1> QED
  BY <1>1, <1>3, <1>5, <1>6, <1>7 DEF u

\* What is unpacked are sequences of bytes.
LEMMA WholeType == \A s \in Seq(Byte) : Whole[s] \in Seq(Seq(Byte))
<1> DEFINE Bad == { k \in Nat : \E s \in Seq(Byte) : Len(s) = k /\ Whole[s] \notin Seq(Seq(Byte)) }
<1>1. SUFFICES ASSUME NEW s \in Seq(Byte), Whole[s] \notin Seq(Seq(Byte)) PROVE FALSE
  OBVIOUS
<1>2. Bad # {}
  <2>1. Len(s) \in Bad
    BY <1>1, LenProperties
  <2> QED
    BY <2>1
<1>3. PICK k \in Bad : \A j \in Bad : k <= j
  BY <1>2, LeastNumber
<1>4. PICK u \in Seq(Byte) : Len(u) = k /\ Whole[u] \notin Seq(Seq(Byte))
  BY <1>3
<1>5. Begins(u)
  <2> SUFFICES ASSUME ~Begins(u) PROVE FALSE
    OBVIOUS
  <2>1. Whole[u] = << >>
    BY WholeIs DEF Unpack
  <2>2. << >> \in Seq(Seq(Byte))
    BY EmptySeq
  <2> QED
    BY <1>4, <2>1, <2>2
<1>6. /\ After(u) \in Seq(Byte) /\ Len(After(u)) < k /\ Len(After(u)) \in Nat
      /\ Content(u) \in Seq(Byte)
  BY <1>4, <1>5, AfterFacts, LenProperties
<1>7. Whole[After(u)] \in Seq(Seq(Byte))
  <2> SUFFICES ASSUME Whole[After(u)] \notin Seq(Seq(Byte)) PROVE FALSE
    OBVIOUS
  <2>1. Len(After(u)) \in Bad
    BY <1>6
  <2>2. k <= Len(After(u))
    BY <1>3, <2>1
  <2> QED
    BY <1>3, <1>6, <2>2
<1>8. Whole[u] = << Content(u) >> \o Whole[After(u)]
  BY <1>5, WholeIs DEF Unpack
<1>9. << Content(u) >> \in Seq(Seq(Byte))
  BY <1>6
<1>10. Whole[u] \in Seq(Seq(Byte))
  BY <1>7, <1>8, <1>9, ConcatProperties
<1> QED
  BY <1>4, <1>10

\* A package in front of others.
LEMMA OneInFront ==
  ASSUME NEW p \in Seq(Byte), NEW ps \in Seq(Seq(Byte)), NEW qs, qs = << p >> \o ps
  PROVE  /\ qs \in Seq(Seq(Byte)) /\ qs # << >> /\ Len(qs) = 1 + Len(ps) /\ Len(ps) \in Nat
         /\ qs[1] = p /\ Head(qs) = p /\ Tail(qs) = ps
         /\ \A i \in 1..Len(ps) : qs[1 + i] = ps[i]
<1>1. << p >> \in Seq(Seq(Byte)) /\ Len(<< p >>) = 1 /\ << p >>[1] = p
  OBVIOUS
<1>2. /\ qs \in Seq(Seq(Byte)) /\ Len(qs) = 1 + Len(ps) /\ Len(ps) \in Nat
      /\ \A i \in 1..(1 + Len(ps)) : qs[i] = IF i <= 1 THEN << p >>[i] ELSE ps[i - 1]
  <2>1. /\ qs \in Seq(Seq(Byte)) /\ Len(qs) = Len(<< p >>) + Len(ps) /\ Len(ps) \in Nat
        /\ \A i \in 1..(Len(<< p >>) + Len(ps)) :
             qs[i] = IF i <= Len(<< p >>) THEN << p >>[i] ELSE ps[i - Len(<< p >>)]
    BY <1>1, ConcatProperties, LenProperties
  <2> QED
    BY <1>1, <2>1
<1>3. qs[1] = p
  <2>1. 1 \in 1..(1 + Len(ps)) /\ 1 <= 1
    BY <1>2
  <2> QED
    BY <1>1, <1>2, <2>1
<1>4. \A i \in 1..Len(ps) : qs[1 + i] = ps[i]
  <2> TAKE i \in 1..Len(ps)
  <2>1. 1 + i \in 1..(1 + Len(ps)) /\ ~(1 + i <= 1) /\ (1 + i) - 1 = i
    BY <1>2
  <2> QED
    BY <1>2, <2>1
<1>5. qs # << >>
  BY <1>2, EmptySeq
<1>6. /\ Head(qs) = qs[1]
      /\ Tail(qs) \in Seq(Seq(Byte)) /\ Len(Tail(qs)) = Len(qs) - 1
      /\ \A i \in 1..Len(Tail(qs)) : Tail(qs)[i] = qs[i + 1]
  BY <1>2, <1>5, HeadTailProperties
<1>7. Tail(qs) = ps
  <2>1. Len(Tail(qs)) = Len(ps)
    BY <1>2, <1>6
  <2>2. \A i \in 1..Len(ps) : Tail(qs)[i] = ps[i]
    <3> TAKE i \in 1..Len(ps)
    <3>1. i + 1 = 1 + i
      BY <1>2
    <3> QED
      BY <1>4, <1>6, <2>1, <3>1
  <2> QED
    BY <1>6, <2>1, <2>2, SeqEqual
<1> QED
  BY <1>2, <1>3, <1>4, <1>5, <1>6, <1>7

\* What is unpacked: the first package, and what the rest unpacks to.
LEMMA WholeNext ==
  ASSUME NEW s \in Seq(Byte), Begins(s)
  PROVE  /\ Whole[s] = << Content(s) >> \o Whole[After(s)]
         /\ Whole[s] \in Seq(Seq(Byte)) /\ Whole[s] # << >>
         /\ Whole[After(s)] \in Seq(Seq(Byte))
         /\ Len(Whole[s]) = 1 + Len(Whole[After(s)]) /\ Len(Whole[After(s)]) \in Nat
         /\ Whole[s][1] = Content(s)
         /\ Head(Whole[s]) = Content(s) /\ Tail(Whole[s]) = Whole[After(s)]
         /\ \A i \in 1..Len(Whole[After(s)]) : Whole[s][1 + i] = Whole[After(s)][i]
<1>1. After(s) \in Seq(Byte) /\ Content(s) \in Seq(Byte)
  BY AfterFacts
<1>2. Whole[s] = << Content(s) >> \o Whole[After(s)] /\ Whole[After(s)] \in Seq(Seq(Byte))
  BY <1>1, WholeIs, WholeType DEF Unpack
<1> QED
  BY <1>1, <1>2, OneInFront

\* From packages one behind the other all of them are unpacked.
LEMMA WholeOfMade == \A s, ps : Made(s, ps) => Whole[s] = ps
<1> DEFINE Bad == { k \in Nat : \E s, ps : Made(s, ps) /\ Len(ps) = k /\ Whole[s] # ps }
<1>1. SUFFICES ASSUME NEW s, NEW ps, Made(s, ps), Whole[s] # ps PROVE FALSE
  OBVIOUS
<1>2. Bad # {}
  <2>1. Len(ps) \in Nat
    BY <1>1, LenProperties DEF Made
  <2>2. Len(ps) \in Bad
    BY <1>1, <2>1
  <2> QED
    BY <2>2
<1>3. PICK k \in Bad : \A j \in Bad : k <= j
  BY <1>2, LeastNumber
<1>4. PICK u, qs : Made(u, qs) /\ Len(qs) = k /\ Whole[u] # qs
  BY <1>3
<1>5. u \in Seq(Byte) /\ qs \in Seq(Seq(Byte))
  BY <1>4 DEF Made
<1>6. CASE qs = << >>
  <2>1. Len(u) = 0
    <3>1. PICK c : Cuts(u, qs, c)
      BY <1>4 DEF Made
    <3>2. Len(qs) + 1 = 1
      BY <1>6
    <3> QED
      BY <3>1, <3>2 DEF Cuts
  <2>2. ~Begins(u)
    BY <2>1 DEF Begins, HeadSize
  <2>3. Whole[u] = << >>
    BY <1>5, <2>2, WholeIs DEF Unpack
  <2> QED
    BY <1>4, <1>6, <2>3
<1>7. CASE qs # << >>
  <2>1. /\ After(u) \in Seq(Byte) /\ Begins(u) /\ Content(u) = qs[1]
        /\ Made(After(u), Tail(qs))
    BY <1>4, <1>7, MadeOfFirst
  <2>2. Len(Tail(qs)) \in Nat /\ Len(Tail(qs)) < k /\ qs = << Head(qs) >> \o Tail(qs) /\ Head(qs) = qs[1]
    BY <1>4, <1>5, <1>7, HeadTailProperties, ConcatProperties, LenProperties
  <2>3. Whole[After(u)] = Tail(qs)
    <3> SUFFICES ASSUME Whole[After(u)] # Tail(qs) PROVE FALSE
      OBVIOUS
    <3>1. Len(Tail(qs)) \in Bad
      BY <2>1, <2>2
    <3>2. k <= Len(Tail(qs))
      BY <1>3, <3>1
    <3> QED
      BY <1>3, <2>2, <3>2
  <2>4. Whole[u] = << Content(u) >> \o Whole[After(u)]
    BY <1>5, <2>1, WholeNext
  <2>5. Whole[u] = << Head(qs) >> \o Tail(qs)
    BY <2>1, <2>2, <2>3, <2>4
  <2> QED
    BY <1>4, <2>2, <2>5
<1> QED
  BY <1>6, <1>7

\* From the first part of some bytes the first packages are unpacked.
LEMMA WholePrefix ==
  ASSUME NEW s \in Seq(Byte), NEW t \in Seq(Byte)
  PROVE  \E n \in 0..Len(Whole[s \o t]) : Whole[s] = SubSeq(Whole[s \o t], 1, n)
<1> DEFINE Pre(u) == \E n \in 0..Len(Whole[u \o t]) : Whole[u] = SubSeq(Whole[u \o t], 1, n)
           Bad == { k \in Nat : \E u \in Seq(Byte) : Len(u) = k /\ ~Pre(u) }
<1>1. SUFFICES ASSUME ~Pre(s) PROVE FALSE
  OBVIOUS
<1>2. Bad # {}
  <2>1. Len(s) \in Nat
    BY LenProperties
  <2>2. Len(s) \in Bad
    BY <1>1, <2>1
  <2> QED
    BY <2>2
<1>3. PICK k \in Bad : \A j \in Bad : k <= j
  BY <1>2, LeastNumber
<1>4. PICK u \in Seq(Byte) : Len(u) = k /\ ~Pre(u)
  BY <1>3
<1>5. u \o t \in Seq(Byte) /\ Whole[u \o t] \in Seq(Seq(Byte)) /\ Len(Whole[u \o t]) \in Nat
  BY ConcatIndex, WholeType, LenProperties
<1>6. CASE ~Begins(u)
  <2>1. Whole[u] = << >>
    BY <1>6, WholeIs DEF Unpack
  <2>2. SubSeq(Whole[u \o t], 1, 0) = << >>
    BY <1>5, SubSeqEmpty
  <2>3. 0 \in 0..Len(Whole[u \o t])
    BY <1>5
  <2> QED
    BY <1>4, <2>1, <2>2, <2>3
<1>7. CASE Begins(u)
  <2>1. After(u) \in Seq(Byte) /\ Len(After(u)) < k /\ Len(After(u)) \in Nat
    BY <1>4, <1>7, AfterFacts, LenProperties
  <2>2. Begins(u \o t) /\ After(u \o t) = After(u) \o t /\ Content(u \o t) = Content(u)
    BY <1>7, BeginsMore
  <2>3. Pre(After(u))
    <3> SUFFICES ASSUME ~Pre(After(u)) PROVE FALSE
      OBVIOUS
    <3>1. Len(After(u)) \in Bad
      BY <2>1
    <3>2. k <= Len(After(u))
      BY <1>3, <3>1
    <3> QED
      BY <1>3, <2>1, <3>2
  <2> DEFINE w == Whole[u]
             v == Whole[u \o t]
             wa == Whole[After(u)]
             va == Whole[After(u) \o t]
  <2>4. PICK n \in 0..Len(va) : wa = SubSeq(va, 1, n)
    BY <2>3
  <2>5. /\ w \in Seq(Seq(Byte)) /\ wa \in Seq(Seq(Byte)) /\ Len(w) = 1 + Len(wa)
        /\ Len(wa) \in Nat /\ w[1] = Content(u) /\ \A i \in 1..Len(wa) : w[1 + i] = wa[i]
    BY <1>7, WholeNext
  <2>6. /\ v \in Seq(Seq(Byte)) /\ va \in Seq(Seq(Byte)) /\ Len(v) = 1 + Len(va)
        /\ Len(va) \in Nat /\ v[1] = Content(u) /\ \A i \in 1..Len(va) : v[1 + i] = va[i]
    <3> DEFINE x == u \o t
    <3>1. x \in Seq(Byte) /\ Begins(x) /\ After(x) = After(u) \o t /\ Content(x) = Content(u)
      BY <1>5, <2>2
    <3> HIDE DEF x
    <3>2. /\ Whole[x] \in Seq(Seq(Byte)) /\ Whole[After(x)] \in Seq(Seq(Byte))
          /\ Len(Whole[x]) = 1 + Len(Whole[After(x)]) /\ Len(Whole[After(x)]) \in Nat
          /\ Whole[x][1] = Content(x)
          /\ \A i \in 1..Len(Whole[After(x)]) : Whole[x][1 + i] = Whole[After(x)][i]
      BY <3>1, WholeNext
    <3>3. v = Whole[x] /\ va = Whole[After(x)]
      BY <3>1 DEF x
    <3> HIDE DEF v, va
    <3> QED
      BY <3>1, <3>2, <3>3
  <2> HIDE DEF w, v, wa, va
  <2>7. \A i \in 1..Len(v) : v[i] \in Seq(Byte)
    BY <2>6, ElementOfSeq
  <2>8. /\ Len(wa) = n /\ \A i \in 1..n : wa[i] = va[i]
    <3>1. \A i \in 1..n : va[i] \in Seq(Byte)
      BY <2>6, ElementOfSeq
    <3> QED
      BY <2>4, <2>6, <3>1, SubSeqProperties
  <2>9. /\ SubSeq(v, 1, n + 1) \in Seq(Seq(Byte)) /\ Len(SubSeq(v, 1, n + 1)) = n + 1
        /\ \A i \in 1..(n + 1) : SubSeq(v, 1, n + 1)[i] = v[i]
    <3>1. \A i \in 1..(n + 1) : v[i] \in Seq(Byte)
      BY <2>6, <2>7
    <3> QED
      BY <2>4, <2>6, <3>1, SubSeqProperties
  <2>10. \A i \in 1..(n + 1) : w[i] = v[i]
    <3> TAKE i \in 1..(n + 1)
    <3>1. CASE i = 1
      BY <2>5, <2>6, <3>1
    <3>2. CASE i # 1
      <4>1. i - 1 \in 1..n /\ i - 1 \in 1..Len(va) /\ 1 + (i - 1) = i
        BY <2>4, <2>6, <3>2
      <4> QED
        BY <2>5, <2>6, <2>8, <4>1
    <3> QED
      BY <3>1, <3>2
  <2>11. w = SubSeq(v, 1, n + 1)
    <3>1. Len(w) = n + 1
      BY <2>4, <2>5, <2>8
    <3>2. \A i \in 1..Len(w) : w[i] = SubSeq(v, 1, n + 1)[i]
      BY <2>9, <2>10, <3>1
    <3> QED
      BY <2>5, <2>9, <3>1, <3>2, SeqEqual
  <2>12. n + 1 \in 0..Len(v)
    BY <2>4, <2>6
  <2>13. \E m \in 0..Len(v) : w = SubSeq(v, 1, m)
    BY <2>11, <2>12
  <2>14. Pre(u)
    BY <2>13 DEF w, v
  <2> HIDE DEF Pre
  <2> QED
    BY <1>4, <2>14
<1> QED
  BY <1>6, <1>7

-----------------------------------------------------------------------------
(* Requests *)

\* readv puts what it has read behind what was there.
LEMMA SocketReadReadable ==
  ASSUME CopiesForward, NEW b, Sound(b), NEW s \in Seq(Byte)
  PROVE  /\ Sound(SocketRead(b, s))
         /\ Readable(SocketRead(b, s)) = Readable(b) \o s
<1> DEFINE room == WriteableSize(b)
<1>1. /\ b \in Buffers /\ Len(b.mem) \in Nat /\ b.writePos \in Nat /\ Len(s) \in Nat
      /\ room \in Nat
  BY BufferFacts, LenProperties DEF WriteableSize, Sound
<1>2. CASE Len(s) <= room
  BY <1>1, <1>2, WrittenFacts DEF SocketRead
<1>3. CASE ~(Len(s) <= room)
  <2> DEFINE s1 == SubSeq(s, 1, room)
             s2 == SubSeq(s, room + 1, Len(s))
             w  == Written(b, s1)
  <2>1. \A i \in 1..Len(s) : s[i] \in Byte
    BY ElementOfSeq
  <2>2. s1 \in Seq(Byte) /\ Len(s1) = room /\ s2 \in Seq(Byte)
    BY <1>1, <1>3, <2>1, SubSeqProperties
  <2>3. s1 \o s2 = s
    <3>1. 1 \in 1..(Len(s) + 1) /\ room \in (1 - 1)..Len(s) /\ Len(s) \in room..Len(s)
      BY <1>1, <1>3
    <3> QED
      BY <1>1, <3>1, ConcatAdjacentSubSeq, SubSeqFull
  <2>4. SocketRead(b, s) = AppendString(w, s2)
    BY <1>3 DEF SocketRead
  <2> HIDE DEF s1, s2
  <2>5. Sound(w) /\ Readable(w) = Readable(b) \o s1
    BY <1>1, <2>2, WrittenFacts
  <2> HIDE DEF w
  <2>6. /\ Sound(AppendString(w, s2))
        /\ Readable(AppendString(w, s2)) = (Readable(b) \o s1) \o s2
    BY <2>2, <2>5, AppendStringFacts
  <2>7. (Readable(b) \o s1) \o s2 = Readable(b) \o s
    <3>1. Readable(b) \in Seq(Byte)
      BY ReadableFacts
    <3> QED
      BY <2>2, <2>3, <3>1, BytesAssociate
  <2> QED
    BY <2>4, <2>6, <2>7
<1> QED
  BY <1>2, <1>3

\* A request that has arrived is the package that the readable bytes begin with, and is
\* taken from them.
LEMMA ArrivedFacts ==
  ASSUME NEW b, Sound(b), Arrived(b)
  PROVE  /\ InMemory(b)
         /\ Begins(Readable(b))
         /\ Request(b) = Content(Readable(b))
         /\ Sound(Advance(b, HeadSize + RequestLength(b)))
         /\ Readable(Advance(b, HeadSize + RequestLength(b))) = After(Readable(b))
<1> DEFINE r == Readable(b)
           k == b.readPos
           n == RequestLength(b)
<1>1. /\ b \in Buffers /\ b.mem \in Seq(Byte) /\ Len(b.mem) \in Nat /\ k \in Nat
      /\ b.writePos \in Nat /\ k <= b.writePos /\ b.writePos <= Len(b.mem)
      /\ k + 2 <= b.writePos
      /\ \A i \in 1..Len(b.mem) : b.mem[i] \in Byte
  BY BufferFacts, ElementOfSeq DEF Sound, Arrived, HeadSize, ReadableSize
<1>2. /\ r \in Seq(Byte) /\ Len(r) = b.writePos - k
      /\ \A i \in 1..(b.writePos - k) : r[i] = b.mem[k + i]
  BY ReadableFacts
<1>3. n \in Nat
  BY <1>1, LengthFacts DEF HeadSize
<1>4. n = DecodeHead(r)
  <2>1. Data(b, HeadSize) = SubSeq(b.mem, k + 1, k + 2)
    BY DEF Data, HeadSize
  <2>2. \A i \in (k + 1)..(k + 2) : b.mem[i] \in Byte
    BY <1>1
  <2>3. \A i \in 1..((k + 2) - (k + 1) + 1) : SubSeq(b.mem, k + 1, k + 2)[i] = b.mem[k + 1 + i - 1]
    BY <1>1, <2>2, SubSeqProperties
  <2>4. \A i \in 1..2 : i \in 1..((k + 2) - (k + 1) + 1) /\ k + 1 + i - 1 = k + i
    BY <1>1
  <2>5. \A i \in 1..2 : Data(b, HeadSize)[i] = b.mem[k + i]
    BY <2>1, <2>3, <2>4
  <2>6. \A i \in 1..2 : i \in 1..(b.writePos - k)
    BY <1>1
  <2>7. Data(b, HeadSize)[1] = r[1] /\ Data(b, HeadSize)[2] = r[2]
    BY <1>2, <2>5, <2>6
  <2> QED
    BY <2>7 DEF DecodeHead, RequestLength
<1> HIDE DEF r
<1>5. k + 2 + n <= b.writePos
  BY <1>1, <1>3 DEF Arrived, HeadSize, ReadableSize
<1>6. SizeOf(r) = 2 + n
  BY <1>4 DEF SizeOf, HeadSize
<1>7. InMemory(b)
  BY <1>1, <1>3, <1>5 DEF InMemory, HeadSize
<1>8. Begins(r)
  BY <1>1, <1>2, <1>3, <1>5, <1>6 DEF Begins, HeadSize
<1>9. /\ Content(r) \in Seq(Byte) /\ Len(Content(r)) = n
      /\ \A i \in 1..n : Content(r)[i] = r[2 + i]
  BY <1>2, <1>4, <1>8, AfterFacts DEF HeadSize
<1>10. Request(b) = Content(r)
  <2> DEFINE q == SubSeq(b.mem, k + 2 + 1, k + 2 + n)
  <2>1. Request(b) = q
    BY DEF Request, Data, Advance, HeadSize
  <2>2. \A i \in (k + 2 + 1)..(k + 2 + n) : b.mem[i] \in Byte
    BY <1>1, <1>3, <1>5
  <2>3. /\ q \in Seq(Byte) /\ Len(q) = n
        /\ \A i \in 1..((k + 2 + n) - (k + 2 + 1) + 1) : q[i] = b.mem[k + 2 + 1 + i - 1]
    <3> HIDE DEF k, n
    <3>1. /\ k + 2 + 1 \in Int /\ k + 2 + n \in Int
          /\ (k + 2 + n) - (k + 2 + 1) + 1 = n
          /\ k + 2 + 1 <= k + 2 + n \/ n = 0
      BY <1>1, <1>3
    <3>2. /\ q \in Seq(Byte)
          /\ Len(q) = IF k + 2 + 1 <= k + 2 + n THEN (k + 2 + n) - (k + 2 + 1) + 1 ELSE 0
          /\ \A i \in 1..((k + 2 + n) - (k + 2 + 1) + 1) : q[i] = b.mem[k + 2 + 1 + i - 1]
      BY <2>2, <3>1, SubSeqProperties
    <3> HIDE DEF q
    <3> QED
      BY <3>1, <3>2
  <2> DEFINE e == b.writePos
  <2>4. /\ k \in Nat /\ n \in Nat /\ e \in Nat /\ k + 2 + n <= e
        /\ \A i \in 1..(e - k) : r[i] = b.mem[k + i]
    BY <1>1, <1>2, <1>3, <1>5
  <2> HIDE DEF q, k, n, e
  <2>5. \A i \in 1..n : q[i] = r[2 + i]
    <3>1. \A i \in 1..n : i \in 1..((k + 2 + n) - (k + 2 + 1) + 1)
      BY <2>4
    <3>2. \A i \in 1..n : k + 2 + 1 + i - 1 = k + (2 + i) /\ 2 + i \in 1..(e - k)
      BY <2>4
    <3> QED
      BY <2>3, <2>4, <3>1, <3>2
  <2>6. \A i \in 1..n : q[i] = Content(r)[i]
    BY <1>9, <2>5
  <2> QED
    BY <1>9, <2>1, <2>3, <2>6, SeqEqual
<1>11. /\ Sound(Advance(b, HeadSize + n))
       /\ Readable(Advance(b, HeadSize + n)) = After(r)
  <2>1. HeadSize + n \in 0..ReadableSize(b) /\ HeadSize + n = SizeOf(r)
    BY <1>1, <1>3, <1>5, <1>6 DEF HeadSize, ReadableSize
  <2> QED
    BY <2>1, AdvanceFacts DEF After, r
<1> QED
  BY <1>7, <1>8, <1>10, <1>11 DEF r

\* As long as no read has cut a request, what the server has and what is on the way are
\* whole requests, the ones that were asked and not parsed.
RequestInv ==
  ~split => /\ Sound(readBuf)
            /\ \E ps \in Seq(Requests) :
                 Made(Readable(readBuf) \o up, ps) /\ asked = parsed \o ps

\* Requests have a length that a head can say.
LEMMA RequestsArePackages == \A p \in Requests : IsPackage(p)
BY WireAssumption DEF IsPackage

\* At first nothing is asked; every step keeps what was asked in parsed or on its way.
LEMMA InitRequests == CopiesForward /\ Init => RequestInv
<1> SUFFICES ASSUME CopiesForward, Init PROVE RequestInv
  OBVIOUS
<1>1. Sound(readBuf) /\ up = << >> /\ asked = << >> /\ parsed = << >>
  BY NewBufferFacts DEF Init
<1>2. Readable(readBuf) \o up = << >>
  <2>1. readBuf.writePos = 0 /\ readBuf.readPos = 0
    BY DEF Init, NewBuffer
  <2>2. Readable(readBuf) \in Seq(Byte) /\ Len(Readable(readBuf)) = 0
    BY <1>1, <2>1, ReadableFacts
  <2>3. Readable(readBuf) = << >>
    BY <2>2, EmptySeq
  <2> QED
    BY <1>1, <2>2, <2>3, ConcatEmptySeq
<1>3. << >> \in Seq(Requests) /\ << >> = << >> \o << >>
  BY EmptySeq, ConcatEmptySeq
<1> QED
  BY <1>1, <1>2, <1>3, MadeOfNone DEF RequestInv

LEMMA NextRequests == CopiesForward /\ TypeOK /\ RequestInv /\ [Next]_vars => RequestInv'
<1> SUFFICES ASSUME CopiesForward, TypeOK, RequestInv, [Next]_vars, ~split' PROVE RequestInv'
  BY DEF RequestInv
<1>1. CASE UNCHANGED vars \/ SendData \/ Readn \/ RecvMsg
  <2>1. UNCHANGED upVars
    BY <1>1 DEF vars, upVars, SendData, Readn, RecvMsg
  <2> QED
    BY <2>1 DEF upVars, RequestInv
<1>2. CASE SendMsg
  <2>1. PICK p \in Requests : asked' = Append(asked, p) /\ up' = up \o Packed(p)
    BY <1>2 DEF SendMsg
  <2>2. UNCHANGED << readBuf, parsed, split >>
    BY <1>2 DEF SendMsg
  <2>3. PICK ps \in Seq(Requests) : Made(Readable(readBuf) \o up, ps) /\ asked = parsed \o ps
    BY <2>2 DEF RequestInv
  <2>4. Sound(readBuf)
    BY <2>2 DEF RequestInv
  <2>5. up \in Seq(Byte) /\ Readable(readBuf) \in Seq(Byte) /\ Packed(p) \in Seq(Byte)
    BY <2>4, ReadableFacts, PackedFacts, RequestsArePackages DEF TypeOK
  <2>6. (Readable(readBuf) \o up) \o Packed(p) = Readable(readBuf) \o up'
    BY <2>1, <2>5, BytesAssociate
  <2>7. Made(Readable(readBuf) \o up', Append(ps, p))
    BY <2>3, <2>6, MadeOfMore, RequestsArePackages
  <2>8. Append(ps, p) \in Seq(Requests) /\ asked' = parsed \o Append(ps, p)
    <3>1. parsed \in Seq(Seq(Byte)) /\ ps \in Seq(Seq(Byte)) /\ p \in Seq(Byte)
      BY <2>3, WireAssumption DEF TypeOK, Made
    <3>2. Append(parsed \o ps, p) = parsed \o Append(ps, p)
      <4>1. << p >> \in Seq(Seq(Byte)) /\ parsed \o ps \in Seq(Seq(Byte))
        BY <3>1, ConcatProperties
      <4>2. (parsed \o ps) \o << p >> = parsed \o (ps \o << p >>)
        BY <3>1, <4>1, ConcatAssociative
      <4> QED
        BY <3>1, <4>1, <4>2, AppendIsConcat
    <3> QED
      BY <2>1, <2>3, <3>2
  <2> QED
    BY <2>2, <2>4, <2>7, <2>8 DEF RequestInv
<1>3. CASE ProcessRead
  <2>1. PICK n \in 1..Len(up) :
           /\ up' = SubSeq(up, n + 1, Len(up))
           /\ LET b == SocketRead(readBuf, SubSeq(up, 1, n))
              IN  /\ split' = (split \/ ~Arrived(b))
                  /\ ParseRequest(b) \/ ParseBeyond(b)
    BY <1>3 DEF ProcessRead
  <2> DEFINE b == SocketRead(readBuf, SubSeq(up, 1, n))
             s == Readable(readBuf) \o up
  <2>2. ~split /\ Arrived(b) /\ (ParseRequest(b) \/ ParseBeyond(b))
    BY <2>1 DEF TypeOK
  <2>3. Sound(readBuf)
    BY <2>2 DEF RequestInv
  <2>4. PICK ps \in Seq(Requests) : Made(s, ps) /\ asked = parsed \o ps
    BY <2>2 DEF RequestInv
  <2>5. /\ up \in Seq(Byte) /\ SubSeq(up, 1, n) \in Seq(Byte) /\ up' \in Seq(Byte)
        /\ up = SubSeq(up, 1, n) \o up'
    <3>1. up \in Seq(Byte) /\ Len(up) \in Nat
      BY LenProperties DEF TypeOK
    <3>2. 1 \in 1..(Len(up) + 1) /\ n \in (1 - 1)..Len(up) /\ Len(up) \in n..Len(up)
      BY <3>1
    <3>3. SubSeq(up, 1, n) \o SubSeq(up, n + 1, Len(up)) = up
      BY <3>1, <3>2, ConcatAdjacentSubSeq, SubSeqFull
    <3> QED
      BY <2>1, <3>1, <3>3, PieceFacts
  <2>6. Sound(b) /\ Readable(b) = Readable(readBuf) \o SubSeq(up, 1, n)
    BY <2>3, <2>5, SocketReadReadable
  <2>7. Readable(b) \o up' = s
    <3>1. (Readable(readBuf) \o SubSeq(up, 1, n)) \o up' = Readable(readBuf) \o (SubSeq(up, 1, n) \o up')
      BY <2>3, <2>5, ReadableFacts, BytesAssociate
    <3> QED
      BY <2>5, <2>6, <3>1
  <2> HIDE DEF b, s
  <2>8. /\ InMemory(b) /\ Begins(Readable(b)) /\ Request(b) = Content(Readable(b))
        /\ Sound(Advance(b, HeadSize + RequestLength(b)))
        /\ Readable(Advance(b, HeadSize + RequestLength(b))) = After(Readable(b))
    BY <2>2, <2>6, ArrivedFacts
  <2>9. /\ readBuf' = Advance(b, HeadSize + RequestLength(b))
        /\ parsed' = Append(parsed, Request(b))
    BY <2>2, <2>8 DEF ParseRequest, ParseBeyond
  <2>10. /\ Begins(s) /\ Content(s) = Request(b) /\ After(s) = Readable(readBuf') \o up'
    <3>1. Readable(b) \in Seq(Byte)
      BY <2>6, ReadableFacts
    <3>2. /\ Begins(s) /\ Content(s) = Content(Readable(b))
          /\ After(s) = After(Readable(b)) \o up'
      BY <2>5, <2>7, <2>8, <3>1, BeginsMore
    <3> QED
      BY <2>8, <2>9, <3>2
  <2>11. ps # << >>
    <3> SUFFICES ASSUME ps = << >> PROVE FALSE
      OBVIOUS
    <3>1. PICK c : Cuts(s, ps, c)
      BY <2>4 DEF Made
    <3>2. Len(s) = 0
      BY <3>1 DEF Cuts
    <3> QED
      BY <2>10, <3>2 DEF Begins, HeadSize
  <2>12. Made(After(s), Tail(ps)) /\ ps[1] = Request(b)
    BY <2>4, <2>10, <2>11, MadeOfFirst
  <2>13. Tail(ps) \in Seq(Requests) /\ asked' = parsed' \o Tail(ps)
    <3>1. parsed \in Seq(Seq(Byte)) /\ ps \in Seq(Seq(Byte)) /\ asked' = asked
      BY <1>3, <2>4 DEF TypeOK, Made, ProcessRead
    <3>2. parsed \o ps = Append(parsed, ps[1]) \o Tail(ps)
      <4>1. ps[1] \in Seq(Byte) /\ Tail(ps) \in Seq(Seq(Byte)) /\ ps = << ps[1] >> \o Tail(ps)
        BY <2>11, <3>1, HeadTailProperties
      <4>2. << ps[1] >> \in Seq(Seq(Byte))
        BY <4>1
      <4>3. parsed \o (<< ps[1] >> \o Tail(ps)) = (parsed \o << ps[1] >>) \o Tail(ps)
        BY <3>1, <4>1, <4>2, ConcatAssociative
      <4>4. Append(parsed, ps[1]) = parsed \o << ps[1] >>
        BY <3>1, <4>1, AppendIsConcat
      <4> QED
        BY <4>1, <4>3, <4>4
    <3> QED
      BY <2>4, <2>9, <2>11, <2>12, <3>1, <3>2, HeadTailProperties
  <2> QED
    BY <2>8, <2>9, <2>10, <2>12, <2>13 DEF RequestInv
<1> QED
  BY <1>1, <1>2, <1>3 DEF Next

\* As long as every read brings whole requests, parseRequest takes each of them once and
\* in order, for any requests, capacity and pieces (processRead, parseRequest).
THEOREM RequestsInOrder == ASSUME CopiesForward PROVE Spec => []ParsedInOrder
<1>1. TypeOK /\ RequestInv => ParsedInOrder
  <2> SUFFICES ASSUME RequestInv, ~split PROVE parsed \o Whole[Readable(readBuf) \o up] = asked
    BY DEF ParsedInOrder
  <2> QED
    BY WholeOfMade DEF RequestInv
<1>2. Init => RequestInv
  BY InitRequests
<1>3. TypeOK /\ RequestInv /\ [Next]_vars => RequestInv'
  BY NextRequests
<1>4. Spec => []TypeOK
  BY WireTypes
<1> QED
  BY <1>1, <1>2, <1>3, <1>4, PTL DEF Spec

-----------------------------------------------------------------------------
(* Answers *)

\* As long as the server has read only its own memory, what is on the way to the client
\* are whole answers.
AnswerInv == alive => \E ps \in Seq(Answers) : Made(Coming, ps)

\* Answers have a length that a head can say.
LEMMA AnswersArePackages == \A p \in Answers : IsPackage(p)
BY WireAssumption DEF IsPackage

\* At first the key is on its way, and the abstract connection begins so.
LEMMA InitAnswers == CopiesForward /\ Init => AnswerInv
<1> SUFFICES ASSUME CopiesForward, Init PROVE AnswerInv
  OBVIOUS
<1> DEFINE b == NewBuffer(Capacity)
<1>1. /\ held = << >> /\ down = << >> /\ alive = TRUE /\ writeBuf = AppendPackage(b, Key)
      /\ Key \in Answers
  BY WireAssumption DEF Init
<1>2. Sound(b) /\ b.writePos = 0 /\ b.readPos = 0
  BY NewBufferFacts DEF NewBuffer
<1> HIDE DEF b
<1>3. Readable(b) = << >>
  BY <1>2, ReadableFacts, EmptySeq
<1>4. Readable(writeBuf) = << >> \o Packed(Key) /\ Packed(Key) \in Seq(Byte)
  BY <1>1, <1>2, <1>3, AppendPackageFacts
<1>5. Coming = << >> \o Packed(Key)
  <2>1. << >> \o << >> = << >> /\ << >> \o Packed(Key) = Packed(Key)
    BY <1>4, ConcatEmptySeq
  <2> QED
    BY <1>1, <1>4, <2>1 DEF Coming
<1>6. Made(Coming, Append(<< >>, Key))
  BY <1>1, <1>5, MadeOfNone, MadeOfMore, AnswersArePackages
<1>7. Append(<< >>, Key) \in Seq(Answers)
  BY <1>1
<1> QED
  BY <1>6, <1>7 DEF AnswerInv

LEMMA InitLink == CopiesForward /\ Init => L!Init
<1> SUFFICES ASSUME CopiesForward, Init PROVE L!Init
  OBVIOUS
<1>1. alive = TRUE /\ answered = << >>
  BY DEF Init
<1>2. Whole[Coming] \in Seq(Answers)
  BY <1>1, InitAnswers, WholeOfMade DEF AnswerInv
<1> QED
  BY <1>1, <1>2 DEF L!Init

\* What the client still gets, from the socket and from the server.
Rest == IF alive THEN Readable(writeBuf) ELSE << >>

\* The bytes on the way to the client, in three parts.
LEMMA ComingFacts ==
  ASSUME TypeOK
  PROVE  /\ Rest \in Seq(Byte) /\ Coming = (held \o down) \o Rest
         /\ held \in Seq(Byte) /\ down \in Seq(Byte) /\ held \o down \in Seq(Byte)
         /\ Coming \in Seq(Byte) /\ Coming = held \o (down \o Rest) /\ down \o Rest \in Seq(Byte)
<1>1. held \in Seq(Byte) /\ down \in Seq(Byte) /\ Sound(writeBuf)
  BY DEF TypeOK, Sound
<1>2. Rest \in Seq(Byte)
  BY <1>1, ReadableFacts, EmptySeq DEF Rest
<1>3. Coming = (held \o down) \o Rest
  BY DEF Coming, Rest
<1> QED
  BY <1>1, <1>2, <1>3, ConcatIndex, BytesAssociate

\* What only moves bytes is not seen.
LEMMA MovedOnly ==
  ASSUME AnswerInv, UNCHANGED << Coming, answered, alive >>
  PROVE  AnswerInv' /\ UNCHANGED L!vars
BY DEF AnswerInv, L!vars

\* Neither a partial send nor a partial recv is seen in them.
LEMMA SendDataMoves == TypeOK /\ SendData => UNCHANGED << Coming, answered, alive >>
<1> SUFFICES ASSUME TypeOK, SendData PROVE UNCHANGED << Coming, answered, alive >>
  OBVIOUS
<1> DEFINE r == Readable(writeBuf)
<1>0. /\ Sound(writeBuf) /\ held \in Seq(Byte) /\ down \in Seq(Byte) /\ alive
      /\ UNCHANGED << answered, alive, held >>
  BY DEF TypeOK, Sound, SendData, upVars
<1>1. PICK n \in 1..ReadableSize(writeBuf) :
         down' = down \o SubSeq(r, 1, n) /\ writeBuf' = Advance(writeBuf, n)
  BY DEF SendData
<1>2. r \in Seq(Byte) /\ Len(r) = ReadableSize(writeBuf) /\ n \in 0..ReadableSize(writeBuf)
  BY <1>0, <1>1, ReadableFacts DEF ReadableSize
<1>3. /\ r = SubSeq(r, 1, n) \o Readable(writeBuf') /\ Sound(writeBuf')
  BY <1>0, <1>1, <1>2, AdvanceFacts
<1>4. SubSeq(r, 1, n) \in Seq(Byte) /\ Readable(writeBuf') \in Seq(Byte)
  BY <1>1, <1>2, <1>3, PieceFacts, ReadableFacts
<1>5. (down \o SubSeq(r, 1, n)) \o Readable(writeBuf') = down \o r
  <2>1. (down \o SubSeq(r, 1, n)) \o Readable(writeBuf')
           = down \o (SubSeq(r, 1, n) \o Readable(writeBuf'))
    BY <1>0, <1>4, BytesAssociate
  <2> QED
    BY <1>3, <2>1
<1>6. Coming = held \o (down \o r)
  <2>1. Coming = (held \o down) \o r
    BY <1>0 DEF Coming
  <2> QED
    BY <1>0, <1>2, <2>1, BytesAssociate
<1>7. Coming' = held \o (down' \o Readable(writeBuf'))
  <2>1. Coming' = (held \o down') \o Readable(writeBuf')
    BY <1>0 DEF Coming
  <2>2. down' \in Seq(Byte)
    BY <1>0, <1>1, <1>4, ConcatIndex
  <2> QED
    BY <1>0, <1>4, <2>1, <2>2, BytesAssociate
<1> QED
  BY <1>0, <1>1, <1>5, <1>6, <1>7

LEMMA ReadnMoves == TypeOK /\ Readn => UNCHANGED << Coming, answered, alive >>
<1> SUFFICES ASSUME TypeOK, Readn PROVE UNCHANGED << Coming, answered, alive >>
  OBVIOUS
<1>0. /\ Rest \in Seq(Byte) /\ Coming = (held \o down) \o Rest
      /\ held \in Seq(Byte) /\ down \in Seq(Byte)
  BY ComingFacts
<1>1. PICK n \in 1..Len(down) :
         held' = held \o SubSeq(down, 1, n) /\ down' = SubSeq(down, n + 1, Len(down))
  BY DEF Readn
<1>2. UNCHANGED << alive, writeBuf, answered >>
  BY DEF Readn, upVars
<1>3. SubSeq(down, 1, n) \in Seq(Byte) /\ down' \in Seq(Byte)
  BY <1>0, <1>1, PieceFacts
<1>4. SubSeq(down, 1, n) \o down' = down
  <2>1. Len(down) \in Nat
    BY <1>0, LenProperties
  <2>2. 1 \in 1..(Len(down) + 1) /\ n \in (1 - 1)..Len(down) /\ Len(down) \in n..Len(down)
    BY <2>1
  <2> QED
    BY <1>0, <1>1, <2>2, ConcatAdjacentSubSeq, SubSeqFull
<1>5. held' \o down' = held \o down
  <2>1. (held \o SubSeq(down, 1, n)) \o down' = held \o (SubSeq(down, 1, n) \o down')
    BY <1>0, <1>3, BytesAssociate
  <2> QED
    BY <1>1, <1>4, <2>1
<1>6. Coming' = (held' \o down') \o Rest
  BY <1>2 DEF Coming, Rest
<1> QED
  BY <1>0, <1>2, <1>5, <1>6

\* appendPackage sends one answer.
LEMMA AppendSends ==
  ASSUME CopiesForward, TypeOK, AnswerInv, alive, NEW p \in Answers,
         writeBuf' = AppendPackage(writeBuf, p), UNCHANGED << alive, down, held, answered >>
  PROVE  AnswerInv' /\ L!Send
<1>1. PICK ps \in Seq(Answers) : Made(Coming, ps)
  BY DEF AnswerInv
<1>2. Readable(writeBuf') = Readable(writeBuf) \o Packed(p) /\ Packed(p) \in Seq(Byte)
  BY AppendPackageFacts DEF TypeOK, Sound
<1>3. Coming' = Coming \o Packed(p)
  <2>1. held \o down \in Seq(Byte) /\ Rest \in Seq(Byte) /\ Coming = (held \o down) \o Rest
    BY ComingFacts
  <2>2. Coming' = (held \o down) \o (Rest \o Packed(p))
    BY <1>2 DEF Coming, Rest
  <2> QED
    BY <1>2, <2>1, <2>2, BytesAssociate
<1>4. Made(Coming', Append(ps, p)) /\ Append(ps, p) \in Seq(Answers)
  BY <1>1, <1>3, MadeOfMore, AnswersArePackages
<1>5. Whole[Coming] = ps /\ Whole[Coming'] = Append(ps, p)
  BY <1>1, <1>4, WholeOfMade
<1>6. Whole[Coming]' = Append(Whole[Coming], p)
  BY <1>5
<1> QED
  BY <1>4, <1>6 DEF AnswerInv, L!Send

\* A server that reads beyond its memory cuts the connection.
LEMMA BeyondCuts ==
  ASSUME TypeOK, alive, ~alive', UNCHANGED << down, held, answered >>
  PROVE  AnswerInv' /\ L!Cut
<1>1. /\ held \o down \in Seq(Byte) /\ Rest \in Seq(Byte) /\ Coming = (held \o down) \o Rest
  BY ComingFacts
<1>2. Coming' = held \o down
  <2>1. Coming' = (held \o down) \o << >>
    BY DEF Coming
  <2> QED
    BY <1>1, <2>1, ConcatEmptySeq
<1>3. PICK n \in 0..Len(Whole[Coming]) : Whole[held \o down] = SubSeq(Whole[Coming], 1, n)
  BY <1>1, WholePrefix
<1>4. Whole[Coming]' = SubSeq(Whole[Coming], 1, n)
  BY <1>2, <1>3
<1> QED
  BY <1>3, <1>4 DEF AnswerInv, L!Cut, TypeOK

\* recvMsg returns the package that comes first, also when the connection is cut.
LEMMA RecvMsgReceives == TypeOK /\ AnswerInv /\ RecvMsg => AnswerInv' /\ L!Receive
<1> SUFFICES ASSUME TypeOK, AnswerInv, RecvMsg PROVE AnswerInv' /\ L!Receive
  OBVIOUS
<1> DEFINE t == down \o Rest
<1>1. /\ held \in Seq(Byte) /\ t \in Seq(Byte) /\ Coming = held \o t
      /\ Coming \in Seq(Byte) /\ down \in Seq(Byte) /\ Rest \in Seq(Byte)
  BY ComingFacts
<1>2. /\ held' = << >> /\ UNCHANGED << alive, writeBuf, down >>
      /\ answered' = Append(answered, SubSeq(held, HeadSize + 1, Len(held)))
  BY DEF RecvMsg, upVars
<1>3. Coming' = t
  <2>1. Coming' = (<< >> \o down) \o Rest
    BY <1>2 DEF Coming, Rest
  <2> QED
    BY <1>1, <2>1, ConcatEmptySeq
<1> HIDE DEF t
<1>4. 2 <= Len(held) /\ SizeOf(held) = Len(held) /\ Begins(held)
  <2>1. Len(held) \in Nat /\ Lacking = 0
    BY <1>1, LenProperties DEF RecvMsg
  <2>2. ~(Len(held) < 2)
    BY <2>1 DEF Lacking, HeadSize
  <2>3. 2 <= Len(held)
    BY <2>1, <2>2
  <2>4. DecodeHead(held) \in Nat
    BY <1>1, <2>3, SizeFacts
  <2>5. 2 + DecodeHead(held) - Len(held) = 0
    BY <2>1, <2>2 DEF Lacking, HeadSize
  <2> QED
    BY <2>1, <2>3, <2>4, <2>5 DEF SizeOf, Begins, HeadSize
<1>5. Content(held) = SubSeq(held, HeadSize + 1, Len(held))
  BY <1>4 DEF Content
<1>6. After(held) \o t = t
  <2>1. After(held) \in Seq(Byte) /\ Len(After(held)) = 0
    <3>1. Len(held) \in Nat
      BY <1>1, LenProperties
    <3> QED
      BY <1>1, <1>4, <3>1, AfterFacts
  <2>2. After(held) = << >>
    BY <2>1, EmptySeq
  <2> QED
    BY <1>1, <2>2, ConcatEmptySeq
<1>7. Begins(Coming) /\ Content(Coming) = Content(held) /\ After(Coming) = t
  BY <1>1, <1>4, <1>6, BeginsMore
<1>8. /\ Whole[Coming] # << >> /\ Head(Whole[Coming]) = Content(held)
      /\ Tail(Whole[Coming]) = Whole[Coming']
  BY <1>1, <1>3, <1>7, WholeNext
<1>9. L!Receive
  <2>1. /\ Whole[Coming]' = Tail(Whole[Coming])
        /\ answered' = Append(answered, Head(Whole[Coming]))
    BY <1>2, <1>5, <1>8
  <2> QED
    BY <1>2, <1>8, <2>1 DEF L!Receive
<1>10. AnswerInv'
  <2> SUFFICES ASSUME alive' PROVE \E ps \in Seq(Answers) : Made(Coming', ps)
    BY DEF AnswerInv
  <2>1. PICK ps \in Seq(Answers) : Made(Coming, ps)
    BY <1>2 DEF AnswerInv
  <2>2. ps # << >>
    BY <1>8, <2>1, WholeOfMade
  <2>3. Made(After(Coming), Tail(ps)) /\ Tail(ps) \in Seq(Answers)
    BY <2>1, <2>2, MadeOfFirst, HeadTailProperties
  <2> QED
    BY <1>3, <1>7, <2>3
<1> QED
  BY <1>9, <1>10

\* Every step is one of Link's, or is not seen, and keeps whole answers on the way.
LEMMA NextAnswers ==
  CopiesForward /\ TypeOK /\ AnswerInv /\ [Next]_vars => AnswerInv' /\ [L!Next]_(L!vars)
<1> SUFFICES ASSUME CopiesForward, TypeOK, AnswerInv, [Next]_vars
             PROVE  AnswerInv' /\ (L!Next \/ UNCHANGED L!vars)
  OBVIOUS
<1>1. CASE UNCHANGED vars \/ SendMsg
  <2>1. UNCHANGED << held, down, alive, writeBuf, answered >>
    BY <1>1 DEF vars, SendMsg
  <2>2. UNCHANGED << Coming, answered, alive >>
    BY <2>1 DEF Coming
  <2> QED
    BY <2>2, MovedOnly
<1>2. CASE SendData
  BY <1>2, SendDataMoves, MovedOnly
<1>3. CASE Readn
  BY <1>3, ReadnMoves, MovedOnly
<1>4. CASE RecvMsg
  BY <1>4, RecvMsgReceives DEF L!Next
<1>5. CASE ProcessRead
  <2>1. PICK b : ParseRequest(b) \/ ParseBeyond(b)
    BY <1>5 DEF ProcessRead
  <2>2. alive /\ UNCHANGED << down, held, answered >>
    BY <1>5 DEF ProcessRead
  <2>3. CASE ParseBeyond(b)
    BY <2>2, <2>3, BeyondCuts DEF ParseBeyond, L!Next
  <2>4. CASE ParseRequest(b) /\ UNCHANGED writeBuf
    <3>1. UNCHANGED << Coming, answered, alive >>
      BY <2>2, <2>4 DEF ParseRequest, Coming
    <3> QED
      BY <3>1, MovedOnly
  <2>5. CASE ParseRequest(b) /\ \E p \in Answers : writeBuf' = AppendPackage(writeBuf, p)
    <3>1. PICK p \in Answers : writeBuf' = AppendPackage(writeBuf, p)
      BY <2>5
    <3>2. UNCHANGED alive
      BY <2>5 DEF ParseRequest
    <3> QED
      BY <2>2, <3>1, <3>2, AppendSends DEF L!Next
  <2> QED
    BY <2>1, <2>3, <2>4, <2>5 DEF ParseRequest
<1> QED
  BY <1>1, <1>2, <1>3, <1>4, <1>5 DEF Next

\* The client returns the packages that were appended, whole and in order, however the
\* socket and the buffer cut and move them, and also after the server has died: the
\* connection implements Link, its liveness apart (appendPackage, recvMsg).
THEOREM AnswersInOrder == ASSUME CopiesForward PROVE Spec => L!Safety
<1>1. Init => AnswerInv /\ L!Init
  BY InitAnswers, InitLink
<1>2. TypeOK /\ AnswerInv /\ [Next]_vars => AnswerInv' /\ [L!Next]_(L!vars)
  BY NextAnswers
<1>3. Spec => []TypeOK
  BY WireTypes
<1> QED
  BY <1>1, <1>2, <1>3, PTL DEF Spec, L!Safety
=============================================================================
