--------------------------------- MODULE Wire ---------------------------------
(***************************************************************************)
(* The bytes between a client and its connection of the server: requests   *)
(* that TCP delivers in pieces, the buffers of the connection              *)
(* (server-antiMaster/tcp/tcpConnection.cpp, common/buffer.cpp), one       *)
(* request parsed from what one read has brought                           *)
(* (game/Communication.cpp parseRequest), its answer sent as the socket    *)
(* takes it, and the client that reads a length and then as many bytes     *)
(* (client-antiMaster/tcp/tcpsocket.cpp).                                  *)
(*                                                                         *)
(* The connection belongs to one thread here: when the loop reads and      *)
(* writes is the matter of Reactor.                                        *)
(***************************************************************************)
EXTENDS Buffer

CONSTANTS
  Requests,     \* what a client asks and
  Answers,      \* what the server answers: sequences of bytes
  Key,          \* the first of the answers, which is not asked for
  Capacity,     \* of a new buffer (10240 in the program)
  Extra,        \* the second area that a read fills (40960 in the program)
  MaxRequests   \* bound: requests sent

ASSUME WireAssumption ==
  /\ \A p \in Requests \cup Answers : p \in Seq(Byte) /\ Len(p) < Base * Base
  /\ Key \in Answers
  /\ Capacity \in Nat
  /\ Extra \in Nat
  /\ MaxRequests \in Nat

VARIABLES
  asked,    \* the requests sent by the client,
  up,       \* their bytes in the network,
  readBuf,  \* m_readBuf of the connection,
  parsed,   \* and what parseRequest took for requests
  split,    \* a read ended within a request
  alive,    \* the server has not read beyond its memory
  writeBuf, \* m_writeBuf of the connection,
  down,     \* bytes of the answers in the network,
  held,     \* the bytes that recvMsg of the client holds,
  answered  \* and the packages it has returned

vars == << asked, up, readBuf, parsed, split, alive, writeBuf, down, held, answered >>
upVars == << asked, up, readBuf, parsed, split, alive >>

TypeOK ==
  /\ asked \in Seq(Requests)
  /\ up \in Seq(Byte)
  /\ readBuf \in Buffers /\ readBuf.readPos <= Len(readBuf.mem)
  /\ parsed \in Seq(Seq(Byte))
  /\ split \in BOOLEAN
  /\ alive \in BOOLEAN
  /\ writeBuf \in Buffers /\ writeBuf.readPos <= writeBuf.writePos
  /\ down \in Seq(Byte)
  /\ held \in Seq(Byte)
  /\ answered \in Seq(Seq(Byte))

\* The connection is made, and its constructor has put the key into the buffer
\* (prepareSecretKey).
Init ==
  /\ asked = << >> /\ up = << >> /\ parsed = << >>
  /\ readBuf = NewBuffer(Capacity)
  /\ split = FALSE /\ alive = TRUE
  /\ writeBuf = AppendPackage(NewBuffer(Capacity), Key)
  /\ down = << >>
  /\ held = << >> /\ answered = << >>

\* sendMsg of the client returns when all is written.
SendMsg ==
  /\ Len(asked) < MaxRequests
  /\ \E p \in Requests : asked' = Append(asked, p) /\ up' = up \o Packed(p)
  /\ UNCHANGED << readBuf, parsed, split, alive, writeBuf, down, held, answered >>

-----------------------------------------------------------------------------
\* parseRequest takes the bytes it expects, and asks of neither the length nor the
\* request whether they are there. Beyond the memory anything may happen.
RequestLength(b) == DecodeHead(Data(b, HeadSize))
InMemory(b) ==
  /\ b.readPos + HeadSize <= Len(b.mem)
  /\ b.readPos + HeadSize + RequestLength(b) <= Len(b.mem)
Arrived(b) ==
  /\ HeadSize <= ReadableSize(b)
  /\ HeadSize + RequestLength(b) <= ReadableSize(b)
Request(b) == Data(Advance(b, HeadSize), RequestLength(b))

\* One read and, if there is memory, one request and its answer, if it has one.
ParseRequest(b) ==
  /\ InMemory(b)
  /\ readBuf' = Advance(b, HeadSize + RequestLength(b))
  /\ parsed' = Append(parsed, Request(b))
  /\ \/ UNCHANGED writeBuf
     \/ \E p \in Answers : writeBuf' = AppendPackage(writeBuf, p)
  /\ UNCHANGED alive

ParseBeyond(b) ==
  /\ ~InMemory(b)
  /\ alive' = FALSE
  /\ readBuf' = b
  /\ UNCHANGED << parsed, writeBuf >>

ProcessRead ==
  /\ alive
  /\ \E n \in 1..Len(up) :
       /\ n <= WriteableSize(readBuf) + Extra
       /\ up' = SubSeq(up, n + 1, Len(up))
       /\ LET b == SocketRead(readBuf, SubSeq(up, 1, n))
          IN  /\ split' = (split \/ ~Arrived(b))
              /\ ParseRequest(b) \/ ParseBeyond(b)
  /\ UNCHANGED << asked, down, held, answered >>

\* Mistake: one more byte is counted as sent, as for a string with its end.
SendDataTerminated ==
  /\ alive
  /\ \E n \in 1..ReadableSize(writeBuf) :
       /\ down' = down \o SubSeq(Readable(writeBuf), 1, n)
       /\ writeBuf' = Advance(writeBuf, n + 1)
  /\ UNCHANGED << upVars, held, answered >>

\* send takes some of what is readable.
SendData ==
  /\ alive
  /\ \E n \in 1..ReadableSize(writeBuf) :
       /\ down' = down \o SubSeq(Readable(writeBuf), 1, n)
       /\ writeBuf' = Advance(writeBuf, n)
  /\ UNCHANGED << upVars, held, answered >>

-----------------------------------------------------------------------------
\* readn goes on until it has all bytes of the length, and then all of the data.
Lacking == IF Len(held) < HeadSize THEN HeadSize - Len(held)
           ELSE HeadSize + DecodeHead(held) - Len(held)

Readn ==
  /\ Lacking > 0
  /\ \E n \in 1..Len(down) :
       /\ n <= Lacking
       /\ held' = held \o SubSeq(down, 1, n)
       /\ down' = SubSeq(down, n + 1, Len(down))
  /\ UNCHANGED << upVars, writeBuf, answered >>

\* recvMsg returns a package.
RecvMsg ==
  /\ Lacking = 0
  /\ held' = << >>
  /\ answered' = Append(answered, SubSeq(held, HeadSize + 1, Len(held)))
  /\ UNCHANGED << upVars, writeBuf, down >>

Next == SendMsg \/ ProcessRead \/ SendData \/ Readn \/ RecvMsg

Spec == Init /\ [][Next]_vars

\* The loop sends while there is data, and the client's thread goes on reading.
FairSpec == Spec /\ WF_vars(SendData) /\ WF_vars(Readn \/ RecvMsg)
-----------------------------------------------------------------------------
\* The packages that bytes begin with, as long as they are whole.
Whole[s \in Seq(Byte)] ==
  LET n == HeadSize + DecodeHead(s)
  IN  IF Len(s) < HeadSize \/ Len(s) < n THEN << >>
      ELSE << SubSeq(s, HeadSize + 1, n) >> \o Whole[SubSeq(s, n + 1, Len(s))]

\* What the client holds, what the network holds and what the server will still send.
Coming == held \o down \o (IF alive THEN Readable(writeBuf) ELSE << >>)

L == INSTANCE Link WITH Packages <- Answers, sent <- Whole[Coming],
                        received <- answered, open <- alive

\* Whatever pieces the socket takes and the client gets, and however the buffer is moved
\* and grown on the way, the client returns the packages that were appended, whole, in
\* order, and in the end all of them (buffer.h:35 appendPackage, tcpsocket.h:35 readn).
AnswersArrive == L!Spec

Q == INSTANCE ByteQueue WITH queue <- down \o Readable(writeBuf)

\* The bytes from appendString to the client's recv are a queue: no byte is lost or
\* changed while the buffer makes room and send takes a part (buffer.cpp:18
\* bufferExtenRoom, buffer.cpp:115 sendData).
BytesInOrder == Q!Spec

\* As long as every read brings whole requests, parseRequest loses none, takes none
\* twice and keeps them in order, though it may take them late (tcpConnection.cpp:39
\* processRead).
ParsedInOrder == ~split => parsed \o Whole[Readable(readBuf) \o up] = asked
=============================================================================
