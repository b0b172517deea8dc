------------------------------ MODULE Framing ------------------------------
(***************************************************************************)
(* The TCP frame protocol in one direction of a connection: WriteFrame     *)
(* (tcp/connection.go) over the byte helpers of wire/endian/helper.go, the *)
(* goroutines that call it, and ReadFrame at the other end.                *)
(*                                                                         *)
(* A frame is written with three calls of net.Conn's Write: the opcode,    *)
(* the length (little endian), the payload.  Client.Send (tcp/client.go)   *)
(* keeps a mutex across the three; the heartbeat's ping and Close do not,  *)
(* and neither do the two writers of a server's channel, writeloop and the *)
(* pong of Readloop (channel.go).                                          *)
(*                                                                         *)
(* Bytes are numbers below Base (256 in the code) and a length has four of *)
(* them; TCP keeps order and loses nothing while the connection is up.     *)
(***************************************************************************)
EXTENDS Naturals, Sequences, SequencesExt

CONSTANTS
  Frame,        \* [op, payload] records that are sent
  Sends,        \* the frames that a writer sends: pings, submissions
  Writer,       \* goroutines that write frames
  Locked,       \* the writers that hold the mutex: callers of Send only
  Quits,        \* the writers that return when a Write fails
  Base,         \* number of values of a byte
  WriteErrors,  \* may a Write fail (write deadline, broken connection)?
  MaxFrames     \* bound: no frame is started after so many have begun

None == "none"
Byte == 0 .. Base - 1
Width == 4      \* bytes of a length, a uint32

ASSUME FramingAssumption ==
  /\ Locked \subseteq Writer /\ Quits \subseteq Writer /\ None \notin Writer
  /\ Sends \in [Writer -> SUBSET Frame]
  /\ Base \in Nat \ {0, 1} /\ WriteErrors \in BOOLEAN /\ MaxFrames \in Nat
  /\ \A f \in Frame :
       f \in [op : Byte, payload : Seq(Byte)] /\ Len(f.payload) < Base * Base * Base * Base

VARIABLES
  stream,        \* bytes written and not yet read
  mutex,         \* holder of the client's mutex
  wpc, frame,    \* each writer: the Write it is at, and its frame
  rpc, rop, rlen,\* the reader: the read it waits in, opcode and length read
  started, got,  \* the frames begun and the frames read, in order
  torn           \* the first frame that a failed Write cut short, or that a
                 \* writer without the mutex wrote into; 0: none

writers == <<mutex, wpc, frame, started, torn>>
reader  == <<rpc, rop, rlen, got>>
vars    == <<stream, writers, reader>>

Nothing == [op |-> 0, payload |-> <<>>]

Init ==
  /\ stream = <<>> /\ mutex = None
  /\ wpc = [w \in Writer |-> "idle"] /\ frame = [w \in Writer |-> Nothing]
  /\ rpc = "op" /\ rop = 0 /\ rlen = 0
  /\ started = <<>> /\ got = <<>> /\ torn = 0

-----------------------------------------------------------------------------
(* wire/endian: fixed-width little-endian lengths *)

\* PutUint32: the digits of the length, the lowest first.
PutUint(n) ==
  LET n1 == n \div Base
      n2 == n1 \div Base
      n3 == n2 \div Base
  IN  <<n % Base, n1 % Base, n2 % Base, n3 % Base>>

\* Mutant of Uint: the bytes are read in big-endian order.
UintBigEndian(b) == b[4] + Base * (b[3] + Base * (b[2] + Base * b[1]))

\* Uint32, of the four bytes that ReadFull returned.
Uint(b) == b[1] + Base * (b[2] + Base * (b[3] + Base * b[4]))

-----------------------------------------------------------------------------
(* WriteFrame and its callers *)

\* Mutant of StartFrame: Send does not take the mutex.
StartWithoutLock(w, f) ==
  /\ wpc[w] = "idle" /\ Len(started) < MaxFrames
  /\ wpc' = [wpc EXCEPT ![w] = "op"] /\ frame' = [frame EXCEPT ![w] = f]
  /\ UNCHANGED <<mutex, started, torn, stream, reader>>

StartFrame(w, f) ==
  /\ wpc[w] = "idle" /\ Len(started) < MaxFrames
  /\ IF w \in Locked THEN mutex = None /\ mutex' = w ELSE UNCHANGED mutex
  /\ wpc' = [wpc EXCEPT ![w] = "op"] /\ frame' = [frame EXCEPT ![w] = f]
  /\ UNCHANGED <<started, torn, stream, reader>>

\* The bytes of the Write that w is at.
Chunk(w) ==
  CASE wpc[w] = "op" -> <<frame[w].op>>
    [] wpc[w] = "len" -> PutUint(Len(frame[w].payload))
    [] wpc[w] = "payload" -> frame[w].payload

\* The writers that are between the first and the last Write of a frame.
Amid == {w \in Writer : wpc[w] \in {"len", "payload"}}

\* A frame that begins inside another one spoils it, unless both writers are
\* callers of Send: those are kept apart by the mutex alone.
WriteOp(w) ==
  /\ wpc[w] = "op" /\ wpc' = [wpc EXCEPT ![w] = "len"]
  /\ stream' = stream \o Chunk(w)
  /\ started' = Append(started, frame[w])
  /\ torn' = IF torn = 0 /\ \E v \in Amid : {v, w} \ Locked # {} THEN Len(started) ELSE torn
  /\ UNCHANGED <<mutex, frame, reader>>

WriteLen(w) ==
  /\ wpc[w] = "len" /\ wpc' = [wpc EXCEPT ![w] = "payload"]
  /\ stream' = stream \o Chunk(w)
  /\ UNCHANGED <<mutex, frame, started, torn, reader>>

Leave(w, to) ==
  /\ wpc' = [wpc EXCEPT ![w] = to] /\ frame' = [frame EXCEPT ![w] = Nothing]
  /\ mutex' = IF mutex = w THEN None ELSE mutex

WritePayload(w) ==
  /\ wpc[w] = "payload" /\ Leave(w, "idle")
  /\ stream' = stream \o Chunk(w)
  /\ UNCHANGED <<started, torn, reader>>

\* A Write returns an error when part of its bytes are sent.  WriteFrame
\* returns the error and Send gives the mutex back; writeloop and heartbealoop
\* return, but Run and Readloop ignore the error and use the connection again.
WriteFails(w) ==
  /\ WriteErrors /\ wpc[w] \in {"op", "len", "payload"}
  /\ Leave(w, IF w \in Quits THEN "returned" ELSE "idle")
  /\ \E n \in {0} \cup 1 .. Len(Chunk(w)) - 1 : stream' = stream \o SubSeq(Chunk(w), 1, n)
  /\ torn' = IF torn = 0 /\ wpc[w] # "op" THEN Len(started) ELSE torn
  /\ UNCHANGED <<started, reader>>

-----------------------------------------------------------------------------
(* ReadFrame: each io.ReadFull waits for all of its bytes *)

Drop(n) == SubSeq(stream, n + 1, Len(stream))

ReadOp ==
  /\ rpc = "op" /\ stream # <<>> /\ rpc' = "len"
  /\ rop' = Head(stream) /\ stream' = Drop(1)
  /\ UNCHANGED <<rlen, got, writers>>

ReadLen ==
  /\ rpc = "len" /\ Len(stream) >= Width /\ rpc' = "payload"
  /\ rlen' = Uint(SubSeq(stream, 1, Width)) /\ stream' = Drop(Width)
  /\ UNCHANGED <<rop, got, writers>>

ReadPayload ==
  /\ rpc = "payload" /\ Len(stream) >= rlen /\ rpc' = "op"
  /\ got' = Append(got, [op |-> rop, payload |-> SubSeq(stream, 1, rlen)])
  /\ stream' = Drop(rlen)
  /\ UNCHANGED <<rop, rlen, writers>>

\* A read ends in an error (EOF, deadline): Readloop and Run return.
ReadFails ==
  /\ rpc # "ended" /\ rpc' = "ended"
  /\ UNCHANGED <<stream, rop, rlen, got, writers>>

-----------------------------------------------------------------------------

WriteStep(w) == WriteOp(w) \/ WriteLen(w) \/ WritePayload(w)
ReadStep == ReadOp \/ ReadLen \/ ReadPayload

Next ==
  \/ \E w \in Writer : (\E f \in Sends[w] : StartFrame(w, f)) \/ WriteStep(w) \/ WriteFails(w)
  \/ ReadStep \/ ReadFails

\* A goroutine inside WriteFrame goes on, and the reader reads what arrived;
\* nobody need start a frame, and no read need fail.
Fairness == WF_vars(ReadStep) /\ \A w \in Writer : WF_vars(WriteStep(w))

Spec == Init /\ [][Next]_vars /\ Fairness

-----------------------------------------------------------------------------
(* Properties *)

\* Callers of Send never disturb each other: the frames read are the frames
\* written, in order, up to the first one that a failed Write cut short or that
\* a ping, a pong, writeloop or Close wrote into, none of which has the mutex.
\* That frame and later ones may be spoilt, none before it.
IntactUntilTorn ==
  \A i \in DOMAIN got : torn = 0 \/ i < torn =>
    i \in DOMAIN started /\ got[i] = started[i]

\* Every frame whose opcode was written is read to its end, unless it comes after
\* a spoilt one, or is it, or the reader has given up: nobody waits for ever for
\* the mutex, and no reader for bytes of a frame in front of the damage.
EventuallyRead ==
  \A n \in 1 .. MaxFrames :
    Len(started) >= n ~> \/ Len(got) >= n
                         \/ torn # 0 /\ torn <= n
                         \/ rpc = "ended"

\* The frames read are the frames written, whoever writes and whatever fails.
FramesIntact == IsPrefix(got, started)
=============================================================================
