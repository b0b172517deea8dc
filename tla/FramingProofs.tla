--------------------------- MODULE FramingProofs ---------------------------
(***************************************************************************)
(* Proofs about Framing, for any frames, any number of writers, with the   *)
(* mutex or without, and any size of a byte: the frames read are the       *)
(* frames written, up to the first one that is spoilt.                     *)
(***************************************************************************)
EXTENDS Framing, Integers, SequenceTheorems, TLAPS

\* A frame on the wire, and its number of bytes.
Wire(f) == <<f.op>> \o PutUint(Len(f.payload)) \o f.payload
Size(f) == 1 + Width + Len(f.payload)

AnyFrame == [op : Byte, payload : Seq(Byte)]

Types ==
  /\ stream \in Seq(Byte) /\ started \in Seq(Frame) /\ got \in Seq(AnyFrame)
  /\ wpc \in [Writer -> {"idle", "op", "len", "payload", "returned"}]
  /\ frame \in [Writer -> Frame \cup {Nothing}]
  /\ rpc \in {"op", "len", "payload", "ended"} /\ rop \in Byte /\ rlen \in Nat
  /\ torn \in 0 .. Len(started)

Inside == {"op", "len", "payload"}

\* A caller of Send that is inside WriteFrame has the mutex, and until a frame is
\* spoilt one writer at most is between the Writes of a frame, the last one begun.
Apart ==
  /\ mutex \in Locked \cup {None}
  /\ \A w \in Locked : wpc[w] \in Inside <=> mutex = w
  /\ \A w \in Writer : wpc[w] \in Inside => frame[w] \in Frame
  /\ torn = 0 => \A w \in Amid :
       /\ Amid = {w}
       /\ Len(started) > 0 /\ started[Len(started)] = frame[w]

\* The frames that are not spoilt: those before the first torn one.
Whole == IF torn = 0 THEN Len(started) ELSE torn - 1

\* The bytes of its frame that a writer has still to write.
Rest(w) == IF wpc[w] = "len" THEN Width + Len(frame[w].payload) ELSE Len(frame[w].payload)
Left == IF Amid = {} THEN 0 ELSE Rest(CHOOSE w \in Amid : TRUE)

\* at[i] is the place in the stream after which frame i begins, not positive if
\* the reader has taken its first byte: frames follow each other ...
Adjacent(at) ==
  /\ \A i \in 1 .. Whole : at[i + 1] = at[i] + Size(started[i])
  /\ \A i, k \in 1 .. Whole + 1 : i <= k => at[i] <= at[k]

\* ... each with its own bytes, as far as they are written and not yet read ...
Filled(at) ==
  \A i \in Len(got) + 1 .. Whole : \A j \in 1 .. Size(started[i]) :
    at[i] + j \in 1 .. Len(stream) => stream[at[i] + j] = Wire(started[i])[j]

\* ... up to the end of the stream, or to the torn frame and what follows it ...
Ending(at) ==
  IF torn = 0 THEN Len(stream) = at[Whole + 1] - Left ELSE at[Whole + 1] <= Len(stream)

\* ... and the reader is inside the first frame that it has not returned.
Position(at) ==
  LET n == Len(got) + 1
  IN  /\ rpc = "op" => at[n] = 0
      /\ rpc # "op" => n <= Whole /\ rop = started[n].op
      /\ rpc = "len" => at[n] + 1 = 0
      /\ rpc = "payload" => at[n] + (1 + Width) = 0 /\ rlen = Len(started[n].payload)

\* The reader is still in front of the torn frame.
Following == rpc # "ended" /\ (torn = 0 \/ Len(got) < Whole)

InStep(at) == Adjacent(at) /\ Filled(at) /\ Ending(at) /\ Position(at)

InSync ==
  Following => Len(got) <= Whole /\ \E at \in [Nat -> Int] : InStep(at)

FrameInv == Types /\ Apart /\ InSync /\ IntactUntilTorn

-----------------------------------------------------------------------------
(* Lengths *)

\* Division with remainder, for a divisor that is not a numeral.
LEMMA DivMod ==
  ASSUME NEW b \in Nat \ {0}, NEW n \in Nat
  PROVE  /\ n \div b \in Nat /\ n % b \in 0 .. b - 1
         /\ n = (n % b) + b * (n \div b)
  OBVIOUS

\* The quotient of a number below b * m is below m.
LEMMA QuotientBelow ==
  ASSUME NEW b \in Nat \ {0}, NEW n \in Nat, NEW m \in Nat, n < b * m
  PROVE  n \div b < m
<1> DEFINE q == n \div b
<1>1. q \in Nat /\ b * q <= n
  BY DivMod
<1> HIDE DEF q
<1>2. b * q < b * m /\ b * q \in Nat /\ b * m \in Nat
  BY <1>1
<1>3. ~ (m <= q)
  <2> SUFFICES ASSUME m <= q PROVE FALSE
    OBVIOUS
  <2>1. PICK d \in Nat : q = m + d
    BY <1>1
  <2>2. b * q = b * m + b * d /\ b * d \in Nat
    BY <2>1
  <2> QED
    BY <1>2, <2>2
<1> QED
  BY <1>1, <1>3 DEF q

\* ReadUint32 returns what WriteUint32 was given, for every length of a frame.
LEMMA LengthRoundTrip ==
  ASSUME NEW n \in Nat, n < Base * Base * Base * Base
  PROVE  PutUint(n) \in Seq(Byte) /\ Len(PutUint(n)) = Width /\ Uint(PutUint(n)) = n
<1> DEFINE n1 == n \div Base
           n2 == n1 \div Base
           n3 == n2 \div Base
<1>0. Base \in Nat \ {0} /\ Base * Base \in Nat /\ Base * (Base * Base) \in Nat
      /\ Base * Base * Base * Base = Base * (Base * (Base * Base))
  BY FramingAssumption
<1>1. n1 \in Nat /\ n % Base \in Byte /\ n = (n % Base) + Base * n1
  BY <1>0, DivMod DEF Byte
<1>2. n2 \in Nat /\ n1 % Base \in Byte /\ n1 = (n1 % Base) + Base * n2
  BY <1>0, <1>1, DivMod DEF Byte
<1>3. n3 \in Nat /\ n2 % Base \in Byte /\ n2 = (n2 % Base) + Base * n3
  BY <1>0, <1>2, DivMod DEF Byte
<1>4. n1 < Base * (Base * Base)
  BY <1>0, QuotientBelow
<1>5. n2 < Base * Base
  BY <1>0, <1>1, <1>4, QuotientBelow
<1>6. n3 < Base
  BY <1>0, <1>2, <1>5, QuotientBelow
<1>7. n3 % Base = n3 /\ n3 \in Byte
  BY <1>0, <1>3, <1>6 DEF Byte
<1>8. PutUint(n) = <<n % Base, n1 % Base, n2 % Base, n3>>
  BY <1>7 DEF PutUint
<1> HIDE DEF n1, n2, n3
<1>9. Uint(PutUint(n)) = n
  BY <1>1, <1>2, <1>3, <1>8 DEF Uint
<1> QED
  BY <1>1, <1>2, <1>3, <1>7, <1>8, <1>9 DEF Width

\* What is read as a length is a number, whatever the bytes.
LEMMA UintNat ==
  ASSUME NEW b \in Seq(Byte), Len(b) = Width
  PROVE  Uint(b) \in Nat
<1>0. Base \in Nat
  BY FramingAssumption
<1>1. \A i \in 1 .. 4 : b[i] \in Byte
  BY ElementOfSeq DEF Width
<1>2. b[1] \in Nat /\ b[2] \in Nat /\ b[3] \in Nat /\ b[4] \in Nat
  BY <1>0, <1>1 DEF Byte
<1>3. \A x, y \in Nat : x + Base * y \in Nat
  BY <1>0
<1>4. b[3] + Base * b[4] \in Nat
  BY <1>2, <1>3
<1>5. b[2] + Base * (b[3] + Base * b[4]) \in Nat
  BY <1>2, <1>3, <1>4
<1> QED
  BY <1>2, <1>3, <1>5 DEF Uint

\* The bytes of a frame: the opcode, the four of the length, the payload.
LEMMA WireBytes ==
  ASSUME NEW f \in Frame
  PROVE  /\ f.op \in Byte /\ f.payload \in Seq(Byte) /\ Len(f.payload) \in Nat
         /\ PutUint(Len(f.payload)) \in Seq(Byte) /\ Len(PutUint(Len(f.payload))) = Width
         /\ Uint(PutUint(Len(f.payload))) = Len(f.payload)
         /\ Wire(f) \in Seq(Byte) /\ Len(Wire(f)) = Size(f) /\ Size(f) \in Nat
         /\ Wire(f)[1] = f.op
         /\ \A j \in 1 .. Width : Wire(f)[1 + j] = PutUint(Len(f.payload))[j]
         /\ \A j \in 1 .. Len(f.payload) : Wire(f)[1 + Width + j] = f.payload[j]
<1> DEFINE p == f.payload
           l == PutUint(Len(p))
           o == <<f.op>>
<1>1. f.op \in Byte /\ p \in Seq(Byte) /\ Len(p) \in Nat
      /\ Len(p) < Base * Base * Base * Base
  BY FramingAssumption
<1>2. l \in Seq(Byte) /\ Len(l) = Width /\ Uint(l) = Len(p)
  BY <1>1, LengthRoundTrip
<1>3. o \in Seq(Byte) /\ Len(o) = 1 /\ o[1] = f.op
  BY <1>1
<1>4. Wire(f) = (o \o l) \o p /\ Size(f) = 1 + Width + Len(p)
  BY DEF Wire, Size
<1> HIDE DEF p, l, o
<1>5. /\ o \o l \in Seq(Byte) /\ Len(o \o l) = Len(o) + Len(l)
      /\ \A i \in 1 .. Len(o) : (o \o l)[i] = o[i]
      /\ \A i \in 1 .. Len(l) : (o \o l)[Len(o) + i] = l[i]
  <2>1. o \in Seq(Byte) /\ l \in Seq(Byte)
    BY <1>2, <1>3
  <2> QED
    BY <2>1
<1> DEFINE h == o \o l
<1> HIDE DEF h
<1>6. h \in Seq(Byte) /\ Len(h) = 1 + Width /\ h[1] = f.op /\ \A j \in 1 .. Width : h[1 + j] = l[j]
  BY <1>2, <1>3, <1>5 DEF h, Width
<1>7. /\ h \o p \in Seq(Byte) /\ Len(h \o p) = Len(h) + Len(p)
      /\ \A i \in 1 .. Len(h) : (h \o p)[i] = h[i]
      /\ \A i \in 1 .. Len(p) : (h \o p)[Len(h) + i] = p[i]
  <2>1. h \in Seq(Byte) /\ p \in Seq(Byte)
    BY <1>1, <1>6
  <2> QED
    BY <2>1
<1>8. \A j \in 1 .. Width : 1 + j \in 1 .. 1 + Width
  BY DEF Width
<1>9. Wire(f) = h \o p
  BY <1>4 DEF h
<1>10. /\ Wire(f) \in Seq(Byte) /\ Len(Wire(f)) = Size(f) /\ Size(f) \in Nat
       /\ Wire(f)[1] = f.op
       /\ \A j \in 1 .. Width : Wire(f)[1 + j] = l[j]
       /\ \A j \in 1 .. Len(p) : Wire(f)[1 + Width + j] = p[j]
  BY <1>1, <1>4, <1>6, <1>7, <1>8, <1>9 DEF Width
<1> QED
  BY <1>1, <1>2, <1>10 DEF l, p

\* A frame is five bytes longer than its payload.
LEMMA FrameSize ==
  ASSUME NEW f \in Frame
  PROVE  Len(f.payload) \in Nat /\ Size(f) = 5 + Len(f.payload) /\ Size(f) \in Nat
<1>1. Len(f.payload) \in Nat
  BY WireBytes
<1> QED
  BY <1>1 DEF Size, Width

-----------------------------------------------------------------------------
(* The reader *)

\* What io.ReadFull takes from the stream, and what it leaves.
LEMMA TakeAndDrop ==
  ASSUME NEW s \in Seq(Byte), NEW n \in 0 .. Len(s)
  PROVE  /\ SubSeq(s, 1, n) \in Seq(Byte) /\ Len(SubSeq(s, 1, n)) = n
         /\ \A i \in 1 .. n : SubSeq(s, 1, n)[i] = s[i]
         /\ SubSeq(s, n + 1, Len(s)) \in Seq(Byte)
         /\ Len(SubSeq(s, n + 1, Len(s))) = Len(s) - n
         /\ \A i \in 1 .. Len(s) - n : SubSeq(s, n + 1, Len(s))[i] = s[n + i]
<1>1. \A i \in 1 .. Len(s) : s[i] \in Byte
  BY ElementOfSeq
<1>2. \A i \in 1 .. n : i \in 1 .. Len(s)
  OBVIOUS
<1>3. \A i \in 1 .. Len(s) - n : n + i \in 1 .. Len(s)
  OBVIOUS
<1> QED
  BY <1>1, <1>2, <1>3

\* The frames before the torn one are frames of the program.
LEMMA WholeFrames ==
  ASSUME Types
  PROVE  /\ Whole \in 0 .. Len(started) /\ Len(started) \in Nat /\ Len(got) \in Nat
         /\ \A i \in 1 .. Whole : started[i] \in Frame /\ Size(started[i]) \in Nat
<1>1. Len(started) \in Nat /\ Len(got) \in Nat /\ torn \in 0 .. Len(started)
  BY DEF Types
<1>2. Whole \in 0 .. Len(started)
  BY <1>1 DEF Whole
<1>3. \A i \in 1 .. Len(started) : started[i] \in Frame
  BY ElementOfSeq DEF Types
<1> QED
  BY <1>1, <1>2, <1>3, WireBytes

\* What is left to write is a number of bytes.
LEMMA LeftNat ==
  ASSUME Types, Apart
  PROVE  Left \in Nat
<1>1. CASE Amid = {}
  BY <1>1 DEF Left
<1>2. CASE Amid # {}
  <2>1. PICK w : w = (CHOOSE v \in Amid : TRUE) /\ w \in Amid
    BY <1>2
  <2>2. frame[w] \in Frame
    BY <2>1 DEF Amid, Apart, Inside
  <2>3. Len(frame[w].payload) \in Nat
    BY <2>2, WireBytes
  <2>4. Rest(w) \in Nat
    BY <2>3 DEF Rest, Width
  <2> QED
    BY <1>2, <2>1, <2>4 DEF Left
<1> QED
  BY <1>1, <1>2

\* The place of a byte before and after n others were taken.
LEMMA PlaceMoved ==
  ASSUME NEW x \in Int, NEW n \in Nat, NEW l \in Nat, x \in 1 .. l - n
  PROVE  n + x \in 1 .. l
  OBVIOUS

\* The end of the stream before and after n bytes were taken.
LEMMA EndMoved ==
  ASSUME NEW a \in Int, NEW b \in Int, NEW l \in Nat, NEW x \in Nat, NEW n \in Nat, b = a - n
  PROVE  (x = a - l => x - n = b - l) /\ (a <= x => b <= x - n)
  OBVIOUS

\* A read of n bytes: every frame moves n places to the front.
Takes(n) ==
  /\ n <= Len(stream) /\ stream' = Drop(n)
  /\ Len(got)' \in Nat /\ Len(got)' >= Len(got) /\ UNCHANGED writers

Moved(at, n) == [i \in Nat |-> at[i] - n]

\* The frames stay next to each other, with their bytes, up to the same end.
LEMMA TakenFromFront ==
  ASSUME Types, Apart, NEW at \in [Nat -> Int], NEW n \in Nat, Takes(n),
         Adjacent(at), Filled(at), Ending(at)
  PROVE  Adjacent(Moved(at, n))' /\ Filled(Moved(at, n))' /\ Ending(Moved(at, n))'
<1> DEFINE to == Moved(at, n)
<1>0. Whole \in Nat /\ Len(got) \in Nat /\ \A i \in 1 .. Whole : Size(started[i]) \in Nat
  BY WholeFrames
<1>1. Whole' = Whole /\ Left' = Left /\ started' = started /\ torn' = torn
  BY DEF Takes, writers, Whole, Left, Amid, Rest
<1>2. /\ stream' \in Seq(Byte) /\ Len(stream) \in Nat /\ Len(stream') = Len(stream) - n
      /\ \A i \in 1 .. Len(stream) - n : stream'[i] = stream[n + i]
  <2>1. stream \in Seq(Byte) /\ n \in 0 .. Len(stream)
    BY DEF Takes, Types
  <2>2. stream' = SubSeq(stream, n + 1, Len(stream))
    BY DEF Takes, Drop
  <2> QED
    BY <2>1, <2>2, TakeAndDrop
<1>3. \A i \in Nat : at[i] \in Int /\ to[i] \in Int /\ to[i] = at[i] - n
  BY DEF Moved
<1> HIDE DEF to
<1>4. Adjacent(to)'
  <2>1. /\ \A i \in 1 .. Whole : at[i + 1] = at[i] + Size(started[i])
        /\ \A i, k \in 1 .. Whole + 1 : i <= k => at[i] <= at[k]
    BY DEF Adjacent
  <2>2. \A i \in 1 .. Whole : to[i + 1] = to[i] + Size(started[i])
    BY <1>0, <1>3, <2>1
  <2>3. \A i, k \in 1 .. Whole + 1 : i <= k => to[i] <= to[k]
    BY <1>0, <1>3, <2>1
  <2>4. \A f : Size(f)' = Size(f)
    BY DEF Size
  <2> QED
    BY <1>1, <2>2, <2>3 DEF Adjacent, Size
<1>5. Filled(to)'
  <2>1. ASSUME NEW i \in Len(got) + 1 .. Whole, NEW j \in 1 .. Size(started[i]),
               to[i] + j \in 1 .. Len(stream) - n
        PROVE  stream'[to[i] + j] = Wire(started[i])[j]
    <3>1. i \in Nat /\ j \in Nat
      BY <1>0
    <3>2. at[i] \in Int /\ to[i] \in Int /\ to[i] = at[i] - n
      BY <1>3, <3>1
    <3>3. Len(stream) \in Nat /\ to[i] + j \in Int /\ n + (to[i] + j) = at[i] + j
      <4>1. PICK a \in Int, b \in Int : a = at[i] /\ b = to[i]
        BY <3>2
      <4>2. b = a - n
        BY <3>2, <4>1
      <4>3. b + j \in Int /\ n + (b + j) = a + j
        BY <3>1, <4>2
      <4> QED
        BY <1>2, <4>1, <4>3
    <3>4. at[i] + j \in 1 .. Len(stream)
      BY <2>1, <3>3, PlaceMoved
    <3>5. stream[at[i] + j] = Wire(started[i])[j]
      BY <3>4 DEF Filled
    <3> QED
      BY <1>2, <2>1, <3>3, <3>5
  <2>2. \A i \in Len(got)' + 1 .. Whole : i \in Len(got) + 1 .. Whole
    BY <1>0 DEF Takes
  <2>3. \A i \in Len(got)' + 1 .. Whole : \A j \in 1 .. Size(started[i]) :
          to[i] + j \in 1 .. Len(stream') => stream'[to[i] + j] = Wire(started[i])[j]
    BY <1>2, <2>1, <2>2
  <2> QED
    BY <1>1, <2>3 DEF Filled, Size, Wire, PutUint
<1>6. Ending(to)'
  <2>1. Left \in Nat /\ Whole + 1 \in Nat
    BY <1>0, LeftNat
  <2>2. at[Whole + 1] \in Int /\ to[Whole + 1] = at[Whole + 1] - n
    BY <1>3, <2>1
  <2>3. IF torn = 0 THEN Len(stream) = at[Whole + 1] - Left ELSE at[Whole + 1] <= Len(stream)
    BY DEF Ending
  <2>4. PICK a \in Int, b \in Int, l \in Nat, x \in Nat :
          a = at[Whole + 1] /\ b = to[Whole + 1] /\ l = Left /\ x = Len(stream)
    BY <1>2, <1>3, <2>1, <2>2
  <2>5. b = a - n
    BY <2>2, <2>4
  <2>6. CASE torn = 0
    <3>1. x = a - l
      BY <2>3, <2>4, <2>6
    <3>2. x - n = b - l
      BY <2>5, <3>1, EndMoved
    <3> QED
      BY <1>1, <1>2, <2>4, <2>6, <3>2 DEF Ending
  <2>7. CASE torn # 0
    <3>1. a <= x
      BY <2>3, <2>4, <2>7
    <3>2. b <= x - n
      BY <2>5, <3>1, EndMoved
    <3> QED
      BY <1>1, <1>2, <2>4, <2>7, <3>2 DEF Ending
  <2> QED
    BY <2>6, <2>7
<1> QED
  BY <1>4, <1>5, <1>6 DEF to

\* The steps of ReadFrame in front of the torn frame: what is taken are bytes of
\* the next frame.
LEMMA NextFrame ==
  ASSUME Types, Apart, Following, stream # <<>> \/ rpc # "op", Len(got) <= Whole,
         NEW at \in [Nat -> Int], InStep(at)
  PROVE  Len(got) + 1 \in 1 .. Whole
<1>1. Whole \in Nat /\ Len(got) \in Nat /\ Left \in Nat
  BY WholeFrames, LeftNat
<1>2. CASE rpc # "op"
  BY <1>1, <1>2 DEF InStep, Position
<1>3. CASE rpc = "op" /\ torn # 0
  BY <1>1, <1>3 DEF Following
<1>4. CASE rpc = "op" /\ torn = 0
  <2> SUFFICES ASSUME Len(got) = Whole PROVE FALSE
    BY <1>1
  <2>1. at[Whole + 1] = 0 /\ Len(stream) = at[Whole + 1] - Left
    BY <1>4 DEF InStep, Position, Ending
  <2>2. Len(stream) = 0
    <3>1. Len(stream) \in Nat
      BY DEF Types
    <3> QED
      BY <1>1, <2>1, <3>1
  <2> QED
    BY <1>4, <2>2, EmptySeq DEF Types
<1> QED
  BY <1>2, <1>3, <1>4

\* When k bytes of the next frame are taken, the front of the stream are those
\* that follow them.
LEMMA FrontBytes ==
  ASSUME Types, NEW at \in [Nat -> Int], InStep(at), NEW n \in 1 .. Whole, n = Len(got) + 1,
         NEW k \in Nat, at[n] + k = 0, NEW i \in Nat, i \in 1 .. Len(stream),
         k + i \in 1 .. Size(started[n])
  PROVE  stream[i] = Wire(started[n])[k + i]
<1>1. n \in Len(got) + 1 .. Whole
  BY WholeFrames
<1>2. \A j \in 1 .. Size(started[n]) :
        at[n] + j \in 1 .. Len(stream) => stream[at[n] + j] = Wire(started[n])[j]
  BY <1>1 DEF InStep, Filled
<1>3. at[n] + (k + i) = i
  <2>1. PICK a \in Int : a = at[n]
    BY WholeFrames
  <2>2. a + k = 0
    BY <2>1
  <2>3. a + (k + i) = i
    BY <2>2
  <2> QED
    BY <2>1, <2>3
<1> QED
  BY <1>2, <1>3

\* ReadUint8 returns the opcode of the next frame.
LEMMA ReadOpInSync ==
  ASSUME FrameInv, ReadOp
  PROVE  InSync' /\ IntactUntilTorn'
<1>1. IntactUntilTorn'
  BY DEF FrameInv, ReadOp, writers, IntactUntilTorn
<1>2. /\ UNCHANGED <<got, writers>> /\ rpc = "op" /\ rpc' = "len" /\ stream # <<>>
      /\ rop' = Head(stream) /\ stream' = Drop(1)
  BY DEF ReadOp
<1>3. Whole' = Whole /\ Len(got)' = Len(got) /\ started' = started /\ torn' = torn
  BY <1>2 DEF writers, Whole
<1> SUFFICES ASSUME Following' PROVE (Len(got) <= Whole)' /\ \E to \in [Nat -> Int] : InStep(to)'
  BY <1>1 DEF InSync
<1>4. Following
  BY <1>2, <1>3 DEF Following
<1>5. PICK at \in [Nat -> Int] : InStep(at)
  BY <1>4 DEF FrameInv, InSync
<1>6. Types /\ Apart /\ Len(got) <= Whole
  BY <1>4 DEF FrameInv, InSync
<1> DEFINE n == Len(got) + 1
           to == Moved(at, 1)
<1>7. n \in 1 .. Whole /\ n \in Nat /\ Len(got) \in Nat /\ started[n] \in Frame
  <2>1. n \in 1 .. Whole
    BY <1>2, <1>4, <1>5, <1>6, NextFrame
  <2> QED
    BY <1>6, <2>1, WholeFrames
<1>8. Takes(1)
  <2>1. Len(stream) >= 1
    BY <1>2, <1>6, EmptySeq DEF Types
  <2> QED
    BY <1>2, <1>3, <1>7, <2>1 DEF Takes
<1>9. Adjacent(to)' /\ Filled(to)' /\ Ending(to)'
  BY <1>5, <1>6, <1>8, TakenFromFront DEF InStep
<1>10. at[n] = 0 /\ to[n] + 1 = 0 /\ to \in [Nat -> Int]
  BY <1>2, <1>5, <1>7 DEF InStep, Position, Moved
<1>11. Head(stream) = started[n].op
  <2>1. 1 \in 1 .. Len(stream) /\ Head(stream) = stream[1]
    BY <1>2, <1>6 DEF Types
  <2>2. 1 \in 1 .. Size(started[n]) /\ Wire(started[n])[1] = started[n].op
    <3>1. Wire(started[n])[1] = started[n].op
      BY <1>7, WireBytes
    <3>2. Size(started[n]) \in Nat /\ Size(started[n]) >= 1
      BY <1>7, FrameSize
    <3> QED
      BY <3>1, <3>2
  <2>3. at[n] + 1 = 1
    BY <1>10
  <2>4. stream[at[n] + 1] = Wire(started[n])[1]
    <3>1. at[n] + 1 \in 1 .. Len(stream)
      BY <2>1, <2>3
    <3> QED
      BY <1>5, <1>7, <2>1, <2>2, <3>1 DEF InStep, Filled
  <2>5. stream[1] = Wire(started[n])[1]
    BY <2>3, <2>4
  <2> QED
    BY <2>1, <2>2, <2>5
<1>12. Position(to)'
  BY <1>2, <1>3, <1>7, <1>10, <1>11 DEF Position
<1> QED
  BY <1>3, <1>6, <1>9, <1>10, <1>12 DEF InStep

\* ReadUint32 returns the length of the next frame.
LEMMA ReadLenInSync ==
  ASSUME FrameInv, ReadLen
  PROVE  InSync' /\ IntactUntilTorn'
<1>1. IntactUntilTorn'
  BY DEF FrameInv, ReadLen, writers, IntactUntilTorn
<1>2. /\ UNCHANGED <<rop, got, writers>> /\ rpc = "len" /\ rpc' = "payload"
      /\ Len(stream) >= Width /\ rlen' = Uint(SubSeq(stream, 1, Width)) /\ stream' = Drop(Width)
  BY DEF ReadLen
<1>3. Whole' = Whole /\ Len(got)' = Len(got) /\ started' = started /\ torn' = torn
  BY <1>2 DEF writers, Whole
<1> SUFFICES ASSUME Following' PROVE (Len(got) <= Whole)' /\ \E to \in [Nat -> Int] : InStep(to)'
  BY <1>1 DEF InSync
<1>4. Following
  BY <1>2, <1>3 DEF Following
<1>5. PICK at \in [Nat -> Int] : InStep(at)
  BY <1>4 DEF FrameInv, InSync
<1>6. Types /\ Apart /\ Len(got) <= Whole
  BY <1>4 DEF FrameInv, InSync
<1> DEFINE n == Len(got) + 1
           to == Moved(at, Width)
<1>7. n \in 1 .. Whole /\ n \in Nat /\ Len(got) \in Nat /\ started[n] \in Frame
  <2>1. n \in 1 .. Whole
    BY <1>2, <1>4, <1>5, <1>6, NextFrame
  <2> QED
    BY <1>6, <2>1, WholeFrames
<1>8. Takes(Width) /\ Width \in Nat
  BY <1>2, <1>3, <1>7 DEF Takes, Width
<1>9. Adjacent(to)' /\ Filled(to)' /\ Ending(to)'
  BY <1>5, <1>6, <1>8, TakenFromFront DEF InStep
<1>10. at[n] + 1 = 0 /\ to[n] + (1 + Width) = 0 /\ to \in [Nat -> Int] /\ rop = started[n].op
  <2>1. at[n] + 1 = 0 /\ rop = started[n].op
    BY <1>2, <1>5 DEF InStep, Position
  <2>2. to \in [Nat -> Int] /\ to[n] = at[n] - 4 /\ 1 + Width = 5
    BY <1>5, <1>7 DEF Moved, Width
  <2>3. PICK a \in Int : a = at[n]
    BY <1>5, <1>7
  <2>4. (a - 4) + 5 = a + 1
    OBVIOUS
  <2> QED
    BY <2>1, <2>2, <2>3, <2>4
<1> DEFINE l == Len(started[n].payload)
<1>11. SubSeq(stream, 1, Width) = PutUint(l)
  <2>1. PutUint(l) \in Seq(Byte) /\ Len(PutUint(l)) = Width
    BY <1>7, WireBytes
  <2>2. /\ SubSeq(stream, 1, Width) \in Seq(Byte) /\ Len(SubSeq(stream, 1, Width)) = Width
        /\ \A i \in 1 .. Width : SubSeq(stream, 1, Width)[i] = stream[i]
    <3>1. stream \in Seq(Byte) /\ Width \in 0 .. Len(stream)
      BY <1>2, <1>6, <1>8 DEF Types
    <3> QED
      BY <3>1, TakeAndDrop
  <2>3. ASSUME NEW i \in 1 .. Width PROVE stream[i] = PutUint(l)[i]
    <3>1. i \in 1 .. Len(stream) /\ i \in Nat
      <4>1. Len(stream) \in Nat
        BY <1>6 DEF Types
      <4> QED
        BY <1>2, <1>8, <4>1
    <3>2. 1 + i \in 1 .. Size(started[n])
      <4>1. Size(started[n]) \in Nat /\ Size(started[n]) >= 1 + Width
        <5>1. PICK z \in Nat : Size(started[n]) = 5 + z
          BY <1>7, FrameSize
        <5>2. 5 + z \in Nat /\ 5 + z >= 5 /\ 1 + Width = 5
          BY DEF Width
        <5> QED
          BY <5>1, <5>2
      <4> QED
        BY <1>8, <4>1
    <3>3. stream[i] = Wire(started[n])[1 + i]
      <4>1. PICK k \in Nat : k = 1
        OBVIOUS
      <4>2. at[n] + k = 0 /\ k + i \in 1 .. Size(started[n]) /\ n = Len(got) + 1
        BY <1>10, <3>2, <4>1
      <4> HIDE DEF n, to
      <4>3. stream[i] = Wire(started[n])[k + i]
        BY <1>5, <1>6, <1>7, <3>1, <4>2, FrontBytes
      <4> QED
        BY <4>1, <4>3
    <3> QED
      BY <1>7, <3>3, WireBytes
  <2> QED
    BY <2>1, <2>2, <2>3, SeqEqual
<1>12. rlen' = l
  BY <1>2, <1>7, <1>11, WireBytes
<1>13. Position(to)'
  <2>1. n' = n /\ n <= Whole' /\ rop' = started'[n].op /\ rlen' = Len(started'[n].payload)
    <3>1. n' = n /\ n <= Whole'
      BY <1>3, <1>7
    <3>2. rop' = started'[n].op
      BY <1>2, <1>3, <1>10
    <3>3. rlen' = Len(started'[n].payload)
      BY <1>3, <1>12
    <3> QED
      BY <3>1, <3>2, <3>3
  <2>2. to[n] + (1 + Width) = 0 /\ rpc' = "payload"
    BY <1>2, <1>10
  <2> HIDE DEF to
  <2> QED
    BY <2>1, <2>2 DEF Position
<1> QED
  BY <1>3, <1>6, <1>9, <1>10, <1>13 DEF InStep

\* ReadFrame returns the next frame, or something after a torn one.
LEMMA ReadPayloadInSync ==
  ASSUME FrameInv, ReadPayload
  PROVE  InSync' /\ IntactUntilTorn'
<1> DEFINE n == Len(got) + 1
           new == [op |-> rop, payload |-> SubSeq(stream, 1, rlen)]
<1>1. Types /\ Apart /\ IntactUntilTorn
  BY DEF FrameInv
<1>2. /\ UNCHANGED <<rop, rlen, writers>> /\ rpc = "payload" /\ rpc' = "op"
      /\ Len(stream) >= rlen /\ got' = Append(got, new) /\ stream' = Drop(rlen)
  BY DEF ReadPayload
<1>3. Whole' = Whole /\ started' = started /\ torn' = torn
  BY <1>2 DEF writers, Whole
<1>4. /\ stream \in Seq(Byte) /\ rlen \in 0 .. Len(stream) /\ rlen \in Nat
      /\ SubSeq(stream, 1, rlen) \in Seq(Byte) /\ Len(SubSeq(stream, 1, rlen)) = rlen
      /\ \A i \in 1 .. rlen : SubSeq(stream, 1, rlen)[i] = stream[i]
  <2>1. stream \in Seq(Byte) /\ rlen \in 0 .. Len(stream) /\ rlen \in Nat
    BY <1>1, <1>2 DEF Types
  <2> QED
    BY <2>1, TakeAndDrop
<1>5. /\ Len(got) \in Nat /\ Len(got') = n /\ n \in Nat /\ DOMAIN got' = 1 .. n
      /\ DOMAIN got = 1 .. Len(got) /\ DOMAIN started = 1 .. Len(started)
      /\ got'[n] = new /\ \A i \in 1 .. Len(got) : got'[i] = got[i]
  <2>1. new \in AnyFrame /\ got \in Seq(AnyFrame) /\ started \in Seq(Frame)
    BY <1>1, <1>4 DEF Types, AnyFrame
  <2> HIDE DEF new
  <2> QED
    BY <1>2, <2>1
<1> HIDE DEF new
<1>6. CASE ~ Following
  <2>1. torn # 0 /\ n >= torn /\ torn \in Nat
    BY <1>1, <1>2, <1>5, <1>6, WholeFrames DEF Following, Whole, Types
  <2>2. ~ Following'
    BY <1>2, <1>3, <1>5, <2>1 DEF Following, Whole
  <2>3. ASSUME NEW i \in DOMAIN got', i < torn
        PROVE  i \in DOMAIN started /\ got'[i] = started[i]
    BY <1>1, <1>5, <2>1, <2>3 DEF IntactUntilTorn
  <2> QED
    BY <1>3, <2>1, <2>2, <2>3 DEF InSync, IntactUntilTorn
<1>7. CASE Following
  <2>1. PICK at \in [Nat -> Int] : InStep(at)
    BY <1>7 DEF FrameInv, InSync
  <2>2. /\ n \in 1 .. Whole /\ started[n] \in Frame
        /\ Whole \in 0 .. Len(started) /\ Len(started) \in Nat
    <3>1. Len(got) <= Whole
      BY <1>7 DEF FrameInv, InSync
    <3>2. n \in 1 .. Whole
      BY <1>1, <1>2, <1>7, <2>1, <3>1, NextFrame
    <3> QED
      BY <1>1, <3>2, WholeFrames
  <2>3. at[n] + (1 + Width) = 0 /\ rlen = Len(started[n].payload) /\ rop = started[n].op
    BY <1>2, <2>1 DEF InStep, Position
  <2>4. SubSeq(stream, 1, rlen) = started[n].payload
    <3>1. ASSUME NEW i \in 1 .. rlen PROVE stream[i] = started[n].payload[i]
      <4>1. i \in 1 .. Len(stream) /\ i \in Nat /\ 1 + Width \in Nat
        BY <1>4 DEF Width
      <4>2. 1 + Width + i \in 1 .. Size(started[n])
        <5>1. Size(started[n]) = 5 + rlen
          BY <2>2, <2>3, FrameSize
        <5> QED
          BY <1>4, <5>1 DEF Width
      <4>3. stream[i] = Wire(started[n])[1 + Width + i]
        BY <1>1, <2>1, <2>2, <2>3, <4>1, <4>2, FrontBytes
      <4> QED
        BY <2>2, <2>3, <4>3, WireBytes
    <3>2. started[n].payload \in Seq(Byte)
      BY <2>2, WireBytes
    <3> QED
      BY <1>4, <2>3, <3>1, <3>2, SeqEqual
  <2>5. new = started[n]
    BY <2>2, <2>3, <2>4, FramingAssumption DEF new
  <2>6. IntactUntilTorn'
    <3> SUFFICES ASSUME NEW i \in DOMAIN got', torn = 0 \/ i < torn
                 PROVE  i \in DOMAIN started /\ got'[i] = started[i]
      BY <1>3 DEF IntactUntilTorn
    <3>1. CASE i = n
      BY <1>5, <2>2, <2>5, <3>1
    <3>2. CASE i # n
      BY <1>1, <1>5, <3>2 DEF IntactUntilTorn
    <3> QED
      BY <3>1, <3>2
  <2>7. PICK k \in Nat : k = rlen
    BY <1>4
  <2> DEFINE to == Moved(at, k)
  <2>8. Takes(k)
    BY <1>2, <1>4, <1>5, <2>7 DEF Takes
  <2>9. Adjacent(to)' /\ Filled(to)' /\ Ending(to)'
    BY <1>1, <2>1, <2>8, TakenFromFront DEF InStep
  <2>10. to[n + 1] = 0 /\ to \in [Nat -> Int]
    <3>1. at[n + 1] = at[n] + Size(started[n]) /\ Size(started[n]) = 5 + k
      BY <2>1, <2>2, <2>3, <2>7, FrameSize DEF InStep, Adjacent
    <3>2. n + 1 \in Nat /\ at[n + 1] \in Int /\ at[n] \in Int
      BY <1>5
    <3>3. at[n + 1] = k
      BY <2>3, <2>7, <3>1, <3>2 DEF Width
    <3> QED
      BY <3>2, <3>3 DEF Moved
  <2>11. Position(to)'
    <3> HIDE DEF to
    <3> QED
      BY <1>2, <1>5, <2>10 DEF Position
  <2>12. Len(got)' <= Whole'
    BY <1>3, <1>5, <2>2
  <2> QED
    BY <2>6, <2>9, <2>10, <2>11, <2>12 DEF InSync, InStep
<1> QED
  BY <1>6, <1>7

-----------------------------------------------------------------------------
(* The writers *)

\* What a Write adds to the stream.
LEMMA AddBytes ==
  ASSUME NEW s \in Seq(Byte), NEW c \in Seq(Byte)
  PROVE  /\ s \o c \in Seq(Byte) /\ Len(s \o c) = Len(s) + Len(c)
         /\ \A i \in 1 .. Len(s) : (s \o c)[i] = s[i]
         /\ \A i \in 1 .. Len(c) : (s \o c)[Len(s) + i] = c[i]
  OBVIOUS

\* Places in a frame of s bytes that begins after a.
LEMMA PlacesInFrame ==
  ASSUME NEW a \in Int, NEW s \in Nat, NEW j \in Nat, j <= s
  PROVE  a + j \in Int /\ a + j <= a + s /\ a <= (a + s) - j
  OBVIOUS

\* The same, of the k bytes written and the i that follow them.
LEMMA PlacesWritten ==
  ASSUME NEW a \in Int, NEW s \in Nat, NEW k \in Nat, NEW i \in Nat
  PROVE  (a + s) - (s - k) = a + k /\ a <= a + k /\ a + (k + i) = (a + k) + i
  OBVIOUS

\* A Write of the bytes c.
Adds(c) == stream' = stream \o c /\ UNCHANGED reader

\* The frames in front of the end of the stream keep their bytes.
LEMMA OldBytes ==
  ASSUME Types, NEW at \in [Nat -> Int], Adjacent(at), Filled(at),
         NEW c \in Seq(Byte), Adds(c), NEW m \in 0 .. Whole, at[m + 1] <= Len(stream),
         NEW i \in Len(got) + 1 .. m, NEW j \in 1 .. Size(started[i])
  PROVE  at[i] + j \in 1 .. Len(stream') => stream'[at[i] + j] = Wire(started[i])[j]
<1>1. /\ Len(got) \in Nat /\ Whole \in Nat /\ i \in Len(got) + 1 .. Whole /\ i \in 1 .. Whole
      /\ i + 1 \in 1 .. Whole + 1 /\ m + 1 \in 1 .. Whole + 1 /\ i + 1 <= m + 1
  <2>1. Len(got) \in Nat /\ Whole \in Nat
    BY WholeFrames
  <2>2. m \in Nat /\ m <= Whole
    BY <2>1
  <2>3. i \in Nat /\ Len(got) + 1 <= i /\ i <= m
    BY <2>1, <2>2
  <2> QED
    BY <2>1, <2>2, <2>3
<1>2. Size(started[i]) \in Nat /\ j \in Nat /\ j <= Size(started[i])
  BY <1>1, WholeFrames
<1>3. at[i + 1] = at[i] + Size(started[i]) /\ at[i + 1] <= at[m + 1]
  BY <1>1 DEF Adjacent
<1>4. at[i] \in Int /\ at[i + 1] \in Int /\ at[m + 1] \in Int
  BY <1>1
<1>5. /\ Len(stream) \in Nat /\ Len(stream') \in Nat
      /\ \A x \in 1 .. Len(stream) : stream'[x] = stream[x]
  <2>1. stream \in Seq(Byte) /\ stream' = stream \o c
    BY DEF Types, Adds
  <2>2. /\ stream \o c \in Seq(Byte)
        /\ \A x \in 1 .. Len(stream) : (stream \o c)[x] = stream[x]
    BY <2>1, AddBytes
  <2>3. Len(stream) \in Nat /\ Len(stream \o c) \in Nat
    BY <2>1, <2>2
  <2> QED
    BY <2>1, <2>2, <2>3
<1>6. at[i] + j <= Len(stream) /\ at[i] + j \in Int
  <2>1. Len(stream) \in Nat /\ at[m + 1] <= Len(stream)
    BY <1>5
  <2>2. at[i + 1] <= Len(stream)
    <3>1. PICK a \in Int, b \in Int, x \in Nat : a = at[i + 1] /\ b = at[m + 1] /\ x = Len(stream)
      BY <1>4, <2>1
    <3>2. a <= b /\ b <= x
      BY <1>3, <2>1, <3>1
    <3>3. a <= x
      BY <3>2
    <3> QED
      BY <3>1, <3>3
  <2>3. at[i] + j <= at[i + 1] /\ at[i] + j \in Int
    BY <1>2, <1>3, <1>4, PlacesInFrame
  <2>4. PICK a \in Int, b \in Int, x \in Nat : a = at[i] + j /\ b = at[i + 1] /\ x = Len(stream)
    BY <1>4, <2>1, <2>3
  <2>5. a <= b /\ b <= x
    BY <2>2, <2>3, <2>4
  <2>6. a <= x
    BY <2>5
  <2> QED
    BY <2>3, <2>4, <2>6
<1>7. ASSUME at[i] + j \in 1 .. Len(stream')
      PROVE  at[i] + j \in 1 .. Len(stream)
  <2>1. PICK a \in Int, x \in Nat : a = at[i] + j /\ x = Len(stream)
    BY <1>5, <1>6
  <2>2. 1 <= a /\ a <= x
    BY <1>5, <1>6, <1>7, <2>1
  <2>3. a \in 1 .. x
    BY <2>2
  <2> QED
    BY <2>1, <2>3
<1>8. at[i] + j \in 1 .. Len(stream) => stream[at[i] + j] = Wire(started[i])[j]
  BY <1>1 DEF Filled
<1> QED
  BY <1>5, <1>7, <1>8

\* After the step frame k is torn: the one that was torn before, or the one that
\* was being written.
Tears(k) ==
  /\ torn' = k /\ (torn # 0 => k = torn)
  /\ torn = 0 => k = Len(started) /\ Left <= Size(started[k])
  /\ \A i \in 1 .. Len(started) : started'[i] = started[i]

\* What such a step writes comes after all frames before the torn one.
LEMMA TornInSync ==
  ASSUME Types, Apart, InSync, NEW c \in Seq(Byte), Adds(c),
         NEW k \in Nat \ {0}, k <= Len(started), Tears(k)
  PROVE  InSync'
<1> SUFFICES ASSUME Following' PROVE (Len(got) <= Whole)' /\ \E at \in [Nat -> Int] : InStep(at)'
  BY DEF InSync
<1> DEFINE m == k - 1
<1>1. m \in Nat /\ m + 1 = k /\ Whole' = m /\ torn' # 0
  BY DEF Whole, Tears
<1>2. Whole \in Nat /\ Len(started) \in Nat /\ Len(got) \in Nat
  BY WholeFrames
<1>3. m <= Whole /\ Whole <= Len(started)
  BY <1>2, WholeFrames DEF Tears, Whole
<1>4. UNCHANGED <<rpc, rop, rlen, got>> /\ rpc # "ended" /\ Len(got)' = Len(got) /\ Len(got) < m
  BY <1>1 DEF Following, Adds, reader
<1>5. Following
  BY <1>2, <1>3, <1>4 DEF Following
<1>6. PICK at \in [Nat -> Int] : InStep(at)
  BY <1>5 DEF InSync
<1>7. Adjacent(at) /\ Filled(at) /\ Ending(at) /\ Position(at)
  BY <1>6 DEF InStep
<1> HIDE DEF m
<1>8. at[m + 1] <= Len(stream) /\ at[m + 1] \in Int
  <2>0. at[m + 1] \in Int
    BY <1>1
  <2>1. CASE torn = 0
    <3>1. k = Len(started) /\ Left <= Size(started[k]) /\ Whole = k
      BY <2>1 DEF Tears, Whole
    <3>2. at[k + 1] = at[k] + Size(started[k])
      BY <1>7, <3>1 DEF Adjacent
    <3>3. Len(stream) = at[k + 1] - Left
      BY <1>7, <2>1, <3>1 DEF Ending
    <3>4. Left \in Nat /\ Size(started[k]) \in Nat /\ at[k] \in Int /\ at[k + 1] \in Int
      BY <3>1, LeftNat, WholeFrames
    <3>5. at[k] <= Len(stream)
      BY <3>1, <3>2, <3>3, <3>4, PlacesInFrame
    <3> QED
      BY <1>1, <2>0, <3>5
  <2>2. CASE torn # 0
    <3>1. Whole = m
      BY <2>2 DEF Tears, Whole, m
    <3> QED
      BY <1>7, <2>0, <2>2, <3>1 DEF Ending
  <2> QED
    BY <2>1, <2>2
<1>9. \A i \in 1 .. m : i \in 1 .. Whole /\ started'[i] = started[i]
  <2>1. \A i \in 1 .. m : i \in 1 .. Whole /\ i \in 1 .. Len(started)
    BY <1>1, <1>2, <1>3
  <2> QED
    BY <2>1 DEF Tears
<1>10. Adjacent(at)'
  <2>1. \A i \in 1 .. m : at[i + 1] = at[i] + Size(started'[i])
    BY <1>7, <1>9 DEF Adjacent
  <2>2. \A i \in 1 .. m + 1 : i \in 1 .. Whole + 1
    BY <1>1, <1>2, <1>3
  <2>3. \A i, x \in 1 .. m + 1 : i <= x => at[i] <= at[x]
    BY <1>7, <2>2 DEF Adjacent
  <2> QED
    BY <1>1, <2>1, <2>3 DEF Adjacent, Size
<1>11. Filled(at)'
  <2>1. m \in 0 .. Whole
    BY <1>1, <1>2, <1>3
  <2>2. ASSUME NEW i \in Len(got) + 1 .. m, NEW j \in 1 .. Size(started[i])
        PROVE  at[i] + j \in 1 .. Len(stream') => stream'[at[i] + j] = Wire(started[i])[j]
    BY <1>7, <1>8, <2>1, OldBytes
  <2>3. \A i \in Len(got) + 1 .. m : started'[i] = started[i]
    <3>1. \A i \in Len(got) + 1 .. m : i \in 1 .. m
      BY <1>1, <1>2
    <3> QED
      BY <1>9, <3>1
  <2>4. \A i \in Len(got) + 1 .. m : \A j \in 1 .. Size(started'[i]) :
          at[i] + j \in 1 .. Len(stream') => stream'[at[i] + j] = Wire(started'[i])[j]
    BY <2>2, <2>3
  <2> QED
    BY <1>1, <1>4, <2>4 DEF Filled, Size, Wire, PutUint
<1>12. Ending(at)'
  <2>1. stream \in Seq(Byte) /\ stream' = stream \o c
    BY DEF Types, Adds
  <2>2. Len(stream) \in Nat /\ Len(c) \in Nat /\ Len(stream') = Len(stream) + Len(c)
    BY <2>1, AddBytes
  <2>3. at[m + 1] <= Len(stream')
    BY <1>8, <2>2
  <2> QED
    BY <1>1, <2>3 DEF Ending
<1>13. Position(at)'
  <2>1. Len(got) + 1 \in 1 .. m /\ Len(got) + 1 <= m
    BY <1>1, <1>2, <1>4
  <2>2. started'[Len(got) + 1] = started[Len(got) + 1]
    BY <1>9, <2>1
  <2> QED
    BY <1>1, <1>4, <1>7, <2>1, <2>2 DEF Position
<1>14. (Len(got) <= Whole)'
  BY <1>1, <1>2, <1>4
<1> QED
  BY <1>10, <1>11, <1>12, <1>13, <1>14 DEF InStep

\* A step that neither reads nor writes.
LEMMA SameInSync ==
  ASSUME InSync, UNCHANGED <<stream, started, torn, reader>>, Left' = Left
  PROVE  InSync'
<1>1. Whole' = Whole
  BY DEF Whole
<1>2. ASSUME NEW at \in [Nat -> Int] PROVE InStep(at)' = InStep(at)
  BY <1>1 DEF InStep, Adjacent, Filled, Ending, Position, reader, Size, Wire, PutUint
<1> QED
  BY <1>1, <1>2 DEF InSync, Following, reader

\* The next bytes c of frame f, the last one begun, of which k were written.
Continues(f, k, c) ==
  /\ torn = 0 /\ UNCHANGED <<torn, started>>
  /\ Len(started) > 0 /\ started[Len(started)] = f
  /\ Left = Size(f) - k /\ Left' = Size(f) - (k + Len(c)) /\ k + Len(c) <= Size(f)
  /\ \A j \in 1 .. Len(c) : c[j] = Wire(f)[k + j]

\* They come right behind the bytes of f that are already in the stream.
LEMMA ContinuesInSync ==
  ASSUME Types, Apart, InSync, NEW f \in Frame, NEW k \in Nat,
         NEW c \in Seq(Byte), Adds(c), Continues(f, k, c)
  PROVE  InSync'
<1> SUFFICES ASSUME Following' PROVE (Len(got) <= Whole)' /\ \E at \in [Nat -> Int] : InStep(at)'
  BY DEF InSync
<1>1. /\ torn = 0 /\ torn' = 0 /\ started' = started /\ Whole = Len(started) /\ Whole' = Whole
      /\ UNCHANGED <<rpc, rop, rlen, got>> /\ Len(got)' = Len(got)
  BY DEF Continues, Adds, reader, Whole
<1>2. PICK m \in Nat : Whole = m + 1 /\ started[m + 1] = f
  <2>1. Len(started) \in Nat /\ Len(started) > 0 /\ started[Len(started)] = f
    BY WholeFrames DEF Continues
  <2>2. Len(started) - 1 \in Nat /\ Len(started) = (Len(started) - 1) + 1
    BY <2>1
  <2> QED
    BY <1>1, <2>1, <2>2
<1>3. Following
  BY <1>1 DEF Following
<1>4. PICK at \in [Nat -> Int] : InStep(at)
  BY <1>3 DEF InSync
<1>5. Adjacent(at) /\ Filled(at) /\ Ending(at) /\ Position(at)
  BY <1>4 DEF InStep
<1>6. Len(got) \in Nat /\ Len(stream) \in Nat /\ Len(c) \in Nat /\ Size(f) \in Nat
  <2>1. Len(got) \in Nat /\ Size(f) \in Nat
    BY WholeFrames, FrameSize
  <2>2. Len(stream) \in Nat /\ Len(c) \in Nat
    BY DEF Types
  <2> QED
    BY <2>1, <2>2
<1>7. at[m + 1] \in Int /\ at[m + 2] \in Int /\ at[m + 2] = at[m + 1] + Size(f)
  <2>1. m + 1 \in 1 .. Whole /\ m + 1 \in Nat /\ m + 2 \in Nat /\ (m + 1) + 1 = m + 2
    BY <1>2
  <2> QED
    BY <1>2, <1>5, <2>1 DEF Adjacent
<1>8. Len(stream) = at[m + 1] + k /\ at[m + 1] <= Len(stream)
  <2>1. Len(stream) = at[m + 2] - (Size(f) - k)
    <3>1. Whole + 1 = m + 2
      BY <1>2
    <3> QED
      BY <1>1, <1>5, <3>1 DEF Ending, Continues
  <2>2. Len(stream) = (at[m + 1] + Size(f)) - (Size(f) - k)
    BY <1>7, <2>1
  <2>3. /\ (at[m + 1] + Size(f)) - (Size(f) - k) = at[m + 1] + k
        /\ at[m + 1] <= at[m + 1] + k
    <3>1. PICK a \in Int, s \in Nat : a = at[m + 1] /\ s = Size(f)
      BY <1>6, <1>7
    <3>2. (a + s) - (s - k) = a + k /\ a <= a + k
      BY PlacesWritten
    <3> QED
      BY <3>1, <3>2
  <2> QED
    BY <2>2, <2>3
<1>9. /\ Len(stream') = Len(stream) + Len(c)
      /\ \A i \in 1 .. Len(stream) : stream'[i] = stream[i]
      /\ \A i \in 1 .. Len(c) : stream'[Len(stream) + i] = c[i]
  <2>1. stream \in Seq(Byte) /\ stream' = stream \o c
    BY DEF Types, Adds
  <2> QED
    BY <2>1, AddBytes
<1>10. Adjacent(at)'
  BY <1>1, <1>5 DEF Adjacent, Size
<1>11. Ending(at)'
  <2>1. Len(stream') = at[m + 2] - (Size(f) - (k + Len(c)))
    <3>1. PICK a \in Int, s \in Nat, l \in Nat : a = at[m + 1] /\ s = Size(f) /\ l = Len(c)
      BY <1>6, <1>7
    <3>2. (a + k) + l = (a + s) - (s - (k + l))
      OBVIOUS
    <3>3. Len(stream') = (a + k) + l /\ at[m + 2] = a + s
      BY <1>7, <1>8, <1>9, <3>1
    <3> QED
      BY <3>1, <3>2, <3>3
  <2>2. Whole + 1 = m + 2 /\ Left' = Size(f) - (k + Len(c))
    BY <1>2 DEF Continues
  <2> QED
    BY <1>1, <2>1, <2>2 DEF Ending
<1>12. Position(at)'
  BY <1>1, <1>5 DEF Position
<1>13. ASSUME NEW j \in 1 .. Size(f), at[m + 1] + j \in 1 .. Len(stream'), Len(got) < m + 1
       PROVE  stream'[at[m + 1] + j] = Wire(f)[j]
  <2>0. j \in Nat /\ at[m + 1] + j \in Int
    BY <1>6, <1>7
  <2>1. CASE j <= k
    <3>1. at[m + 1] + j <= Len(stream)
      <4>1. PICK a \in Int, x \in Nat : a = at[m + 1] /\ x = j
        BY <1>7, <2>0
      <4>2. x <= k
        BY <2>1, <4>1
      <4>3. a + x <= a + k
        BY <4>2
      <4> QED
        BY <1>8, <4>1, <4>3
    <3>2. at[m + 1] + j \in 1 .. Len(stream)
      BY <1>6, <1>9, <1>13, <2>0, <3>1
    <3>3. m + 1 \in Len(got) + 1 .. Whole
      BY <1>2, <1>6, <1>13
    <3>4. stream[at[m + 1] + j] = Wire(f)[j]
      BY <1>2, <1>5, <3>2, <3>3 DEF Filled
    <3> QED
      BY <1>9, <3>2, <3>4
  <2>2. CASE k < j
    <3>1. PICK i \in Nat \ {0} : j = k + i
      <4>1. j - k \in Nat \ {0} /\ j = k + (j - k)
        BY <2>0, <2>2
      <4> QED
        BY <4>1
    <3>2. at[m + 1] + j = Len(stream) + i
      <4>1. at[m + 1] + (k + i) = (at[m + 1] + k) + i
        BY <1>7, PlacesWritten
      <4> QED
        BY <1>8, <3>1, <4>1
    <3>3. i \in 1 .. Len(c)
      BY <1>6, <1>9, <1>13, <3>1, <3>2
    <3> QED
      BY <1>9, <3>1, <3>2, <3>3 DEF Continues
  <2> QED
    BY <2>0, <2>1, <2>2
<1>14. Filled(at)'
  <2>1. m \in 0 .. Whole
    BY <1>2
  <2>2. ASSUME NEW i \in Len(got) + 1 .. m, NEW j \in 1 .. Size(started[i])
        PROVE  at[i] + j \in 1 .. Len(stream') => stream'[at[i] + j] = Wire(started[i])[j]
    BY <1>5, <1>8, <2>1, OldBytes
  <2>3. ASSUME NEW i \in Len(got) + 1 .. Whole, NEW j \in 1 .. Size(started[i]),
               at[i] + j \in 1 .. Len(stream')
        PROVE  stream'[at[i] + j] = Wire(started[i])[j]
    <3>1. CASE i = m + 1
      <4>1. Len(got) < m + 1
        BY <1>6, <3>1
      <4> QED
        BY <1>2, <1>13, <2>3, <3>1, <4>1
    <3>2. CASE i # m + 1
      <4>1. i \in Len(got) + 1 .. m
        BY <1>2, <1>6, <3>2
      <4> QED
        BY <2>2, <2>3, <4>1
    <3> QED
      BY <3>1, <3>2
  <2> QED
    BY <1>1, <2>3 DEF Filled, Size, Wire, PutUint
<1>15. (Len(got) <= Whole)'
  BY <1>1, <1>3 DEF InSync
<1> QED
  BY <1>10, <1>11, <1>12, <1>14, <1>15 DEF InStep

\* The opcode of a new frame.
Begins(f) ==
  /\ torn = 0 /\ UNCHANGED torn /\ started' = Append(started, f)
  /\ Left = 0 /\ Left' = Size(f) - 1

\* It comes right behind the last byte of the frame before.
LEMMA BeginsInSync ==
  ASSUME Types, Apart, InSync, NEW f \in Frame, Adds(<<f.op>>), Begins(f)
  PROVE  InSync'
<1> SUFFICES ASSUME Following' PROVE (Len(got) <= Whole)' /\ \E to \in [Nat -> Int] : InStep(to)'
  BY DEF InSync
<1>1. PICK m \in Nat : Whole = m /\ Len(started) = m
  BY WholeFrames DEF Begins, Whole
<1>2. /\ Len(started') = m + 1 /\ started'[m + 1] = f
      /\ \A i \in 1 .. m : started'[i] = started[i]
  BY <1>1 DEF Begins, Types
<1>3. /\ torn = 0 /\ torn' = 0 /\ Whole' = m + 1
      /\ UNCHANGED <<rpc, rop, rlen, got>> /\ Len(got)' = Len(got)
  BY <1>2 DEF Begins, Adds, reader, Whole
<1>4. Following /\ Len(got) <= m
  BY <1>1, <1>3 DEF Following, InSync
<1>5. PICK at \in [Nat -> Int] : InStep(at)
  BY <1>4 DEF InSync
<1>6. Adjacent(at) /\ Filled(at) /\ Ending(at) /\ Position(at)
  BY <1>5 DEF InStep
<1>7. Len(got) \in Nat /\ Len(stream) \in Nat /\ Size(f) \in Nat /\ f.op \in Byte
  BY WholeFrames, FrameSize, WireBytes DEF Types
<1>8. at[m + 1] \in Int /\ Len(stream) = at[m + 1]
  BY <1>1, <1>3, <1>6, <1>7 DEF Ending, Begins
<1> DEFINE to == [at EXCEPT ![m + 2] = at[m + 1] + Size(f)]
<1>9. /\ to \in [Nat -> Int] /\ to[m + 2] = at[m + 1] + Size(f)
      /\ \A i \in 1 .. m + 1 : to[i] = at[i] /\ at[i] \in Int
  BY <1>7, <1>8
<1> HIDE DEF to
<1>10. /\ Len(stream') = Len(stream) + 1 /\ stream'[Len(stream) + 1] = f.op
       /\ \A i \in 1 .. Len(stream) : stream'[i] = stream[i]
  <2>1. stream \in Seq(Byte) /\ stream' = stream \o <<f.op>>
    BY DEF Types, Adds
  <2> QED
    BY <1>7, <2>1
<1>11. Adjacent(to)'
  <2>1. ASSUME NEW i \in 1 .. m + 1 PROVE to[i + 1] = to[i] + Size(started'[i])
    <3>1. CASE i = m + 1
      BY <1>2, <1>8, <1>9, <3>1
    <3>2. CASE i # m + 1
      <4>1. i \in 1 .. m /\ i + 1 \in 1 .. m + 1
        BY <3>2
      <4> QED
        BY <1>1, <1>2, <1>6, <1>9, <4>1 DEF Adjacent
    <3> QED
      BY <3>1, <3>2
  <2>2. ASSUME NEW i \in 1 .. m + 2, NEW x \in 1 .. m + 2, i <= x PROVE to[i] <= to[x]
    <3>0. \A a, b \in 1 .. m + 1 : a <= b => at[a] <= at[b]
      BY <1>1, <1>6 DEF Adjacent
    <3>1. CASE x # m + 2
      <4>1. i \in 1 .. m + 1 /\ x \in 1 .. m + 1
        BY <2>2, <3>1
      <4> QED
        BY <1>9, <2>2, <3>0, <4>1
    <3>2. CASE x = m + 2 /\ i # m + 2
      <4>1. i \in 1 .. m + 1 /\ m + 1 \in 1 .. m + 1 /\ i <= m + 1
        BY <3>2
      <4>2. at[i] <= at[m + 1] /\ at[i] \in Int
        BY <1>9, <3>0, <4>1
      <4>3. at[i] <= at[m + 1] + Size(f)
        BY <1>7, <1>8, <4>2
      <4> QED
        BY <1>9, <3>2, <4>1, <4>3
    <3>3. CASE x = m + 2 /\ i = m + 2
      BY <1>7, <1>8, <1>9, <3>3
    <3> QED
      BY <3>1, <3>2, <3>3
  <2>3. Whole' + 1 = m + 2
    BY <1>3
  <2> QED
    BY <1>3, <2>1, <2>2, <2>3 DEF Adjacent, Size
<1>12. Filled(to)'
  <2>1. ASSUME NEW i \in Len(got) + 1 .. m + 1, NEW j \in 1 .. Size(started'[i]),
               to[i] + j \in 1 .. Len(stream')
        PROVE  stream'[to[i] + j] = Wire(started'[i])[j]
    <3>1. CASE i = m + 1
      <4>1. to[i] = Len(stream) /\ started'[i] = f /\ j \in Nat /\ j >= 1
        <5>1. m + 1 \in 1 .. m + 1
          OBVIOUS
        <5>2. to[m + 1] = at[m + 1]
          BY <1>9, <5>1
        <5> QED
          BY <1>2, <1>7, <1>8, <3>1, <5>2
      <4>2. j = 1
        <5>1. PICK l \in Nat, x \in Nat : l = Len(stream) /\ x = j
          BY <1>7, <4>1
        <5>2. l + x <= l + 1 /\ x >= 1
          BY <1>10, <2>1, <4>1, <5>1
        <5>3. x = 1
          BY <5>2
        <5> QED
          BY <5>1, <5>3
      <4> QED
        BY <1>10, <4>1, <4>2, WireBytes
    <3>2. CASE i # m + 1
      <4>1. i \in Len(got) + 1 .. m /\ i \in 1 .. m /\ i \in 1 .. m + 1
        BY <1>7, <3>2
      <4>2. to[i] = at[i] /\ started'[i] = started[i]
        BY <1>2, <1>9, <4>1
      <4>3. m \in 0 .. Whole /\ at[m + 1] <= Len(stream) /\ <<f.op>> \in Seq(Byte)
        BY <1>1, <1>7, <1>8
      <4>4. at[i] + j \in 1 .. Len(stream') => stream'[at[i] + j] = Wire(started[i])[j]
        BY <1>6, <4>1, <4>2, <4>3, OldBytes
      <4> QED
        BY <2>1, <4>2, <4>4
    <3> QED
      BY <3>1, <3>2
  <2> QED
    BY <1>3, <2>1 DEF Filled, Size, Wire, PutUint
<1>13. Ending(to)'
  <2>1. Len(stream') = to[m + 2] - (Size(f) - 1)
    BY <1>7, <1>8, <1>9, <1>10
  <2>2. Whole' + 1 = m + 2 /\ Left' = Size(f) - 1
    BY <1>3 DEF Begins
  <2> QED
    BY <1>3, <2>1, <2>2 DEF Ending
<1>14. Position(to)'
  <2> DEFINE n == Len(got) + 1
  <2>1. n \in 1 .. m + 1 /\ n' = n
    BY <1>3, <1>4, <1>7
  <2>2. to[n] = at[n]
    BY <1>9, <2>1
  <2>3. CASE rpc = "op"
    BY <1>3, <1>6, <2>1, <2>2, <2>3 DEF Position
  <2>4. CASE rpc # "op"
    <3>1. n <= m
      BY <1>1, <1>6, <2>4 DEF Position
    <3>2. n \in 1 .. m /\ started'[n] = started[n] /\ n <= m + 1
      BY <1>2, <2>1, <3>1
    <3> QED
      BY <1>3, <1>6, <2>1, <2>2, <2>4, <3>2 DEF Position
  <2> QED
    BY <2>3, <2>4
<1>15. (Len(got) <= Whole)'
  BY <1>3, <1>4, <1>7
<1> QED
  BY <1>9, <1>11, <1>12, <1>13, <1>14, <1>15 DEF InStep

-----------------------------------------------------------------------------
(* The writers *)

\* The bytes of a Write are bytes of the writer's frame.
LEMMA ChunkBytes ==
  ASSUME Types, Apart, NEW w \in Writer, wpc[w] \in Inside
  PROVE  /\ frame[w] \in Frame /\ Chunk(w) \in Seq(Byte)
         /\ wpc[w] = "op" => Chunk(w) = <<frame[w].op>>
         /\ wpc[w] = "len" => Chunk(w) = PutUint(Len(frame[w].payload))
         /\ wpc[w] = "payload" => Chunk(w) = frame[w].payload
<1>1. frame[w] \in Frame
  BY DEF Apart
<1>2. /\ wpc[w] = "op" => Chunk(w) = <<frame[w].op>>
      /\ wpc[w] = "len" => Chunk(w) = PutUint(Len(frame[w].payload))
      /\ wpc[w] = "payload" => Chunk(w) = frame[w].payload
  BY DEF Chunk
<1>3. <<frame[w].op>> \in Seq(Byte) /\ frame[w].payload \in Seq(Byte)
  BY <1>1, FramingAssumption
<1>4. PutUint(Len(frame[w].payload)) \in Seq(Byte)
  <2>1. /\ Len(frame[w].payload) \in Nat
        /\ Len(frame[w].payload) < Base * Base * Base * Base
    BY <1>1, <1>3, FramingAssumption
  <2> QED
    BY <2>1, LengthRoundTrip
<1> QED
  BY <1>1, <1>2, <1>3, <1>4 DEF Inside

\* What is left when one writer is amid its frame.
LEMMA LeftOfOne ==
  ASSUME NEW w \in Writer, Amid = {w}, frame[w] \in Frame
  PROVE  /\ wpc[w] = "len" => Left = Size(frame[w]) - 1
         /\ wpc[w] = "payload" => Left = Size(frame[w]) - 5
         /\ Left <= Size(frame[w])
<1>1. Left = Rest(w)
  BY DEF Left
<1>2. Len(frame[w].payload) \in Nat /\ Size(frame[w]) = 5 + Len(frame[w].payload)
  BY FrameSize
<1>3. /\ wpc[w] = "len" => Left = 4 + Len(frame[w].payload)
      /\ wpc[w] = "payload" => Left = Len(frame[w].payload)
  BY <1>1 DEF Rest, Width
<1>4. wpc[w] \in {"len", "payload"}
  BY DEF Amid
<1> QED
  BY <1>2, <1>3, <1>4

\* Nothing is left when nobody is amid a frame.
LEMMA LeftOfNobody ==
  ASSUME Amid = {}
  PROVE  Left = 0
  BY DEF Left

\* The same is left after a step of a writer that is not amid a frame.
LEMMA SameLeft ==
  ASSUME Amid' = Amid, \A v \in Amid : wpc'[v] = wpc[v] /\ frame'[v] = frame[v]
  PROVE  Left' = Left
<1>1. CASE Amid = {}
  BY <1>1 DEF Left
<1>2. CASE Amid # {}
  <2>1. PICK w : w = (CHOOSE v \in Amid : TRUE) /\ w \in Amid
    BY <1>2
  <2>2. Rest(w)' = Rest(w)
    BY <2>1 DEF Rest
  <2>3. Left = Rest(w) /\ Left' = Rest(w)'
    BY <1>2, <2>1 DEF Left
  <2> QED
    BY <2>2, <2>3
<1> QED
  BY <1>1, <1>2

\* A writer amid a frame that is not spoilt is alone, and it is the last frame.
LEMMA AloneAmid ==
  ASSUME Types, Apart, torn = 0, NEW w \in Writer, wpc[w] \in {"len", "payload"}
  PROVE  /\ Amid = {w} /\ frame[w] \in Frame
         /\ Len(started) > 0 /\ started[Len(started)] = frame[w]
<1>1. w \in Amid
  BY DEF Amid
<1> QED
  BY <1>1 DEF Apart, Inside

\* When a frame begins and none is spoilt by it, nobody else is amid one: two
\* callers of Send do not both have the mutex.
LEMMA BeginsAlone ==
  ASSUME Types, Apart, NEW w \in Writer, WriteOp(w), torn' = 0
  PROVE  torn = 0 /\ Amid = {} /\ Amid' = {w}
<1>0. torn \in Nat /\ Len(started) \in Nat
  BY DEF Types
<1>1. torn = 0
  <2>1. torn' = torn \/ torn = 0
    BY DEF WriteOp
  <2> QED
    BY <2>1
<1>2. Amid = {}
  <2> SUFFICES ASSUME NEW v \in Amid PROVE FALSE
    OBVIOUS
  <2>1. v \in Writer /\ wpc[v] \in {"len", "payload"} /\ wpc[w] = "op" /\ v # w
    BY DEF Amid, WriteOp
  <2>2. Len(started) > 0
    BY <1>1, <2>1, AloneAmid
  <2>3. {v, w} \ Locked = {}
    BY <1>0, <1>1, <2>2 DEF WriteOp
  <2>4. v \in Locked /\ w \in Locked
    BY <2>3
  <2>5. mutex = v /\ mutex = w
    BY <2>1, <2>4 DEF Apart, Inside
  <2> QED
    BY <2>1, <2>5
<1>3. Amid' = {w}
  BY <1>2 DEF Amid, WriteOp, Types
<1> QED
  BY <1>1, <1>2, <1>3

\* The empty stream before the first frame.
LEMMA FrameInit ==
  Init => FrameInv
<1> SUFFICES ASSUME Init PROVE FrameInv
  OBVIOUS
<1>1. Types
  BY FramingAssumption DEF Init, Types, Byte
<1>2. Apart
  BY FramingAssumption DEF Init, Apart, Amid, Inside
<1>3. IntactUntilTorn
  BY DEF Init, IntactUntilTorn
<1>4. InSync
  <2> DEFINE at == [i \in Nat |-> 0]
  <2>1. at \in [Nat -> Int] /\ at[0 + 1] = 0
    OBVIOUS
  <2>2. Whole = 0 /\ Len(got) = 0 /\ Left = 0 /\ Len(stream) = 0
    BY DEF Init, Whole, Left, Amid
  <2> HIDE DEF at
  <2>3. Adjacent(at)
    BY <2>1, <2>2 DEF Adjacent
  <2>4. Filled(at)
    BY <2>2 DEF Filled
  <2>5. Ending(at)
    BY <2>1, <2>2 DEF Ending, Init
  <2>6. Position(at)
    BY <2>1, <2>2 DEF Position, Init
  <2> QED
    BY <2>1, <2>2, <2>3, <2>4, <2>5, <2>6 DEF InSync, InStep
<1> QED
  BY <1>1, <1>2, <1>3, <1>4 DEF FrameInv

\* What the writers do to the frames: they only begin new ones.
LEMMA StillIntact ==
  ASSUME IntactUntilTorn, Types, got' = got, torn = 0 \/ torn' = torn,
         \A i \in 1 .. Len(started) : started'[i] = started[i],
         started' \in Seq(Frame), Len(started) <= Len(started')
  PROVE  IntactUntilTorn'
<1>1. \A i \in DOMAIN started : i \in DOMAIN started' /\ started'[i] = started[i]
  BY DEF Types
<1>2. \A i \in DOMAIN got : (torn = 0 \/ i < torn)' => torn = 0 \/ i < torn
  OBVIOUS
<1> QED
  BY <1>1, <1>2 DEF IntactUntilTorn

\* Before its first Write a writer has written nothing.
LEMMA StartInSync ==
  ASSUME FrameInv, NEW w \in Writer, NEW f \in Frame, StartFrame(w, f)
  PROVE  InSync' /\ IntactUntilTorn'
<1>1. UNCHANGED <<stream, started, torn, reader>> /\ UNCHANGED got
  BY DEF StartFrame, reader
<1>2. Left' = Left
  <2>1. \A v \in Writer \ {w} : wpc'[v] = wpc[v] /\ frame'[v] = frame[v]
    BY DEF StartFrame, FrameInv, Types
  <2>2. wpc[w] = "idle" /\ wpc'[w] = "op"
    BY DEF StartFrame, FrameInv, Types
  <2>3. Amid' = Amid /\ Amid \subseteq Writer \ {w}
    BY <2>1, <2>2 DEF Amid
  <2> QED
    BY <2>1, <2>3, SameLeft
<1>3. InSync'
  BY <1>1, <1>2, SameInSync DEF FrameInv
<1> QED
  BY <1>1, <1>3 DEF FrameInv, IntactUntilTorn

\* A Write after one that failed comes behind the torn frame.
LEMMA WriteAfterTorn ==
  ASSUME FrameInv, torn # 0, NEW c \in Seq(Byte), Adds(c), torn' = torn,
         \A i \in 1 .. Len(started) : started'[i] = started[i]
  PROVE  InSync'
<1>1. PICK k \in Nat \ {0} : k = torn /\ k <= Len(started)
  BY DEF FrameInv, Types
<1>2. Tears(k)
  BY <1>1 DEF Tears
<1> QED
  BY <1>1, <1>2, TornInSync DEF FrameInv

\* The first Write begins a frame: behind the last one, or inside one that it
\* spoils.
LEMMA WriteOpInSync ==
  ASSUME FrameInv, NEW w \in Writer, WriteOp(w)
  PROVE  InSync' /\ IntactUntilTorn'
<1>1. Types /\ Apart /\ InSync /\ IntactUntilTorn
  BY DEF FrameInv
<1>2. wpc[w] = "op" /\ wpc'[w] = "len" /\ UNCHANGED <<frame, reader>>
  BY <1>1 DEF WriteOp, Types
<1>3. /\ frame[w] \in Frame
      /\ Chunk(w) \in Seq(Byte) /\ Chunk(w) = <<frame[w].op>>
  BY <1>1, <1>2, ChunkBytes DEF Inside
<1>4. Adds(<<frame[w].op>>) /\ started' = Append(started, frame[w])
  BY <1>2, <1>3 DEF WriteOp, Adds
<1>5. /\ started' \in Seq(Frame) /\ Len(started) <= Len(started')
      /\ \A i \in 1 .. Len(started) : started'[i] = started[i]
  BY <1>1, <1>3, <1>4 DEF Types
<1>6. torn' = torn \/ (torn = 0 /\ Amid # {} /\ torn' = Len(started))
  BY DEF WriteOp
<1>7. IntactUntilTorn'
  <2>1. torn = 0 \/ torn' = torn
    BY <1>6
  <2> QED
    BY <1>1, <1>2, <1>5, <2>1, StillIntact DEF reader
<1>8. CASE torn' = 0
  <2>1. torn = 0 /\ Amid = {} /\ Amid' = {w}
    BY <1>1, <1>8, BeginsAlone
  <2>2. Left = 0
    BY <2>1, LeftOfNobody
  <2>3. Left' = Size(frame[w]) - 1
    <3>1. Left' = Rest(w)'
      BY <2>1 DEF Left
    <3>2. Rest(w)' = 4 + Len(frame[w].payload)
      BY <1>2 DEF Rest, Width
    <3>3. Len(frame[w].payload) \in Nat /\ Size(frame[w]) = 5 + Len(frame[w].payload)
      BY <1>3, FrameSize
    <3> QED
      BY <3>1, <3>2, <3>3
  <2>4. Begins(frame[w])
    BY <1>4, <1>8, <2>1, <2>2, <2>3 DEF Begins
  <2> QED
    BY <1>1, <1>3, <1>4, <1>7, <2>4, BeginsInSync
<1>9. CASE torn # 0
  <2>1. torn' = torn
    BY <1>6, <1>9
  <2> QED
    BY <1>3, <1>4, <1>5, <1>7, <1>9, <2>1, WriteAfterTorn
<1>10. CASE torn = 0 /\ torn' # 0
  <2>1. PICK v \in Amid : TRUE
    BY <1>6, <1>10
  <2>2. v \in Writer /\ wpc[v] \in {"len", "payload"}
    BY <2>1 DEF Amid
  <2>3. /\ Amid = {v} /\ frame[v] \in Frame
        /\ Len(started) > 0 /\ started[Len(started)] = frame[v]
    BY <1>1, <1>10, <2>2, AloneAmid
  <2>4. Len(started) \in Nat
    BY <1>1, WholeFrames
  <2>5. PICK k \in Nat \ {0} : k = Len(started) /\ k <= Len(started)
    BY <2>3, <2>4
  <2>6. Left <= Size(started[k])
    BY <2>2, <2>3, <2>5, LeftOfOne
  <2>7. Tears(k)
    BY <1>5, <1>6, <1>10, <2>5, <2>6 DEF Tears
  <2>8. <<frame[w].op>> \in Seq(Byte)
    BY <1>3
  <2> QED
    BY <1>1, <1>4, <1>7, <2>5, <2>7, <2>8, TornInSync
<1> QED
  BY <1>8, <1>9, <1>10

\* The second Write is the length of the frame that the first one began.
LEMMA WriteLenInSync ==
  ASSUME FrameInv, NEW w \in Writer, WriteLen(w)
  PROVE  InSync' /\ IntactUntilTorn'
<1>1. Types /\ Apart /\ InSync /\ IntactUntilTorn
  BY DEF FrameInv
<1> DEFINE f == frame[w]
           c == PutUint(Len(f.payload))
<1>2. /\ wpc[w] = "len" /\ wpc'[w] = "payload"
      /\ UNCHANGED <<mutex, frame, started, torn, reader>>
  BY <1>1 DEF WriteLen, Types
<1>3. f \in Frame /\ Chunk(w) \in Seq(Byte) /\ Chunk(w) = c
  BY <1>1, <1>2, ChunkBytes DEF Inside
<1>4. Adds(c)
  BY <1>2, <1>3 DEF WriteLen, Adds
<1>5. IntactUntilTorn'
  BY <1>1, <1>2 DEF IntactUntilTorn, reader
<1>6. CASE torn = 0
  <2>0. Amid = {w} /\ Amid' = Amid
    BY <1>1, <1>2, <1>6, AloneAmid DEF Amid, WriteLen, Types
  <2>1. Len(started) > 0 /\ started[Len(started)] = f /\ Left = Size(f) - 1
    BY <1>1, <1>2, <1>6, AloneAmid, LeftOfOne
  <2>2. Left' = Len(f.payload)
    <3>1. Left' = Rest(w)'
      BY <2>0 DEF Left
    <3>2. Rest(w)' = Len(f.payload)
      BY <1>2 DEF Rest
    <3> QED
      BY <3>1, <3>2
  <2>3. Len(f.payload) \in Nat /\ Size(f) = 5 + Len(f.payload)
    BY <1>3, FrameSize
  <2>4. Len(c) = 4 /\ \A j \in 1 .. Len(c) : c[j] = Wire(f)[1 + j]
    BY <1>3, WireBytes DEF Width
  <2> HIDE DEF f, c
  <2>5. Left' = Size(f) - (1 + Len(c)) /\ 1 + Len(c) <= Size(f)
    BY <2>2, <2>3, <2>4
  <2>6. Continues(f, 1, c)
    BY <1>2, <1>3, <1>6, <2>1, <2>4, <2>5 DEF Continues
  <2> QED
    BY <1>1, <1>3, <1>4, <1>5, <2>6, ContinuesInSync
<1>7. CASE torn # 0
  BY <1>2, <1>3, <1>4, <1>5, <1>7, WriteAfterTorn
<1> QED
  BY <1>6, <1>7

\* The third Write is its payload.
LEMMA WritePayloadInSync ==
  ASSUME FrameInv, NEW w \in Writer, WritePayload(w)
  PROVE  InSync' /\ IntactUntilTorn'
<1>1. Types /\ Apart /\ InSync /\ IntactUntilTorn
  BY DEF FrameInv
<1> DEFINE f == frame[w]
           c == f.payload
<1>2. wpc[w] = "payload" /\ UNCHANGED <<started, torn, reader>>
  BY DEF WritePayload
<1>3. f \in Frame /\ Chunk(w) \in Seq(Byte) /\ Chunk(w) = c
  BY <1>1, <1>2, ChunkBytes DEF Inside
<1>4. Adds(c)
  BY <1>2, <1>3 DEF WritePayload, Adds
<1>5. IntactUntilTorn'
  BY <1>1, <1>2 DEF IntactUntilTorn, reader
<1>6. CASE torn = 0
  <2>1. Len(started) > 0 /\ started[Len(started)] = f /\ Left = Size(f) - 5 /\ Amid = {w}
    BY <1>1, <1>2, <1>6, AloneAmid, LeftOfOne
  <2>2. Left' = 0
    <3>1. Amid' = {}
      BY <1>1, <2>1 DEF Amid, WritePayload, Leave, Types
    <3> QED
      BY <3>1 DEF Left
  <2>3. Len(c) \in Nat /\ Size(f) = 5 + Len(c)
    BY <1>3, FrameSize
  <2>4. \A j \in 1 .. Len(c) : c[j] = Wire(f)[5 + j]
    <3>1. 1 + Width = 5
      BY DEF Width
    <3> QED
      BY <1>3, <3>1, WireBytes
  <2> HIDE DEF f, c
  <2>5. Left' = Size(f) - (5 + Len(c)) /\ 5 + Len(c) <= Size(f)
    BY <2>2, <2>3
  <2>6. Continues(f, 5, c)
    BY <1>2, <1>3, <1>6, <2>1, <2>4, <2>5 DEF Continues
  <2> QED
    BY <1>1, <1>3, <1>4, <1>5, <2>6, ContinuesInSync
<1>7. CASE torn # 0
  BY <1>2, <1>3, <1>4, <1>5, <1>7, WriteAfterTorn
<1> QED
  BY <1>6, <1>7

\* A Write that fails sends a part of its bytes at most: none of an opcode.
LEMMA PartOfChunk ==
  ASSUME NEW c \in Seq(Byte), NEW n \in {0} \cup 1 .. Len(c) - 1
  PROVE  SubSeq(c, 1, n) \in Seq(Byte) /\ (Len(c) = 1 => SubSeq(c, 1, n) = <<>>)
<1>1. n \in 0 .. Len(c) /\ (Len(c) = 1 => n = 0)
  OBVIOUS
<1>2. SubSeq(c, 1, n) \in Seq(Byte) /\ Len(SubSeq(c, 1, n)) = n
  BY <1>1, TakeAndDrop
<1> QED
  BY <1>1, <1>2

\* A Write that fails tears its own frame, if it has begun and none was torn
\* before; the frames in front of it stay whole.
LEMMA WriteFailsInSync ==
  ASSUME FrameInv, NEW w \in Writer, WriteFails(w)
  PROVE  InSync' /\ IntactUntilTorn'
<1>1. Types /\ Apart /\ InSync /\ IntactUntilTorn
  BY DEF FrameInv
<1>2. /\ wpc[w] \in {"op", "len", "payload"} /\ UNCHANGED <<started, reader>>
      /\ torn' = IF torn = 0 /\ wpc[w] # "op" THEN Len(started) ELSE torn
  BY DEF WriteFails
<1>3. frame[w] \in Frame /\ Chunk(w) \in Seq(Byte)
  BY <1>1, <1>2, ChunkBytes DEF Inside
<1>4. PICK n \in {0} \cup 1 .. Len(Chunk(w)) - 1 : stream' = stream \o SubSeq(Chunk(w), 1, n)
  BY DEF WriteFails
<1> DEFINE c == SubSeq(Chunk(w), 1, n)
<1>5. c \in Seq(Byte) /\ (Len(Chunk(w)) = 1 => c = <<>>)
  BY <1>3, PartOfChunk
<1>6. Adds(c)
  BY <1>2, <1>4 DEF Adds
<1>7. IntactUntilTorn'
  <2>1. torn = 0 \/ torn' = torn
    BY <1>2
  <2>2. started' \in Seq(Frame) /\ Len(started) <= Len(started')
    BY <1>1, <1>2 DEF Types
  <2> QED
    BY <1>1, <1>2, <2>1, <2>2, StillIntact DEF reader
<1> HIDE DEF c
<1>9. CASE torn # 0
  BY <1>2, <1>5, <1>6, <1>7, <1>9, WriteAfterTorn
<1>10. CASE torn = 0 /\ wpc[w] = "op"
  <2>1. c = <<>>
    BY <1>1, <1>5, <1>10, ChunkBytes DEF Inside
  <2>2. stream' = stream
    BY <1>1, <1>6, <2>1 DEF Adds, Types
  <2>3. Left' = Left
    <3>1. \A v \in Writer \ {w} : wpc'[v] = wpc[v] /\ frame'[v] = frame[v]
      BY <1>1 DEF WriteFails, Leave, Types
    <3>2. wpc'[w] \notin {"len", "payload"}
      BY <1>1 DEF WriteFails, Leave, Types
    <3>3. Amid' = Amid /\ Amid \subseteq Writer \ {w}
      BY <1>10, <3>1, <3>2 DEF Amid
    <3> QED
      BY <3>1, <3>3, SameLeft
  <2>4. UNCHANGED <<stream, started, torn, reader>>
    BY <1>2, <1>10, <2>2
  <2> QED
    BY <1>1, <1>7, <2>3, <2>4, SameInSync
<1>11. CASE torn = 0 /\ wpc[w] \in {"len", "payload"}
  <2>1. /\ Len(started) > 0 /\ started[Len(started)] = frame[w] /\ Len(started) \in Nat
        /\ Amid = {w}
    BY <1>1, <1>11, WholeFrames, AloneAmid
  <2>2. PICK k \in Nat \ {0} : k = Len(started) /\ k <= Len(started)
    BY <2>1
  <2>3. Left <= Size(started[k])
    BY <1>3, <2>1, <2>2, LeftOfOne
  <2>4. Tears(k)
    BY <1>2, <1>11, <2>2, <2>3 DEF Tears
  <2> QED
    BY <1>1, <1>5, <1>6, <1>7, <2>2, <2>4, TornInSync
<1> QED
  BY <1>2, <1>9, <1>10, <1>11

\* A reader that has given up returns no frame any more.
LEMMA ReadFailsInSync ==
  ASSUME FrameInv, ReadFails
  PROVE  InSync' /\ IntactUntilTorn'
<1>1. InSync'
  BY DEF ReadFails, InSync, Following
<1> QED
  BY <1>1 DEF FrameInv, ReadFails, writers, IntactUntilTorn

-----------------------------------------------------------------------------
(* Types, and who writes *)

\* The writers keep the types: a failed Write tears a frame that was begun.
LEMMA WriterTypes ==
  ASSUME FrameInv, NEW w \in Writer,
         (\E f \in Frame : StartFrame(w, f)) \/ WriteStep(w) \/ WriteFails(w)
  PROVE  Types'
<1>1. Types /\ Apart
  BY DEF FrameInv
<1>2. CASE \E f \in Frame : StartFrame(w, f)
  BY <1>1, <1>2 DEF StartFrame, Types, reader
<1>3. CASE WriteOp(w)
  <2>1. frame[w] \in Frame /\ Chunk(w) \in Seq(Byte)
    BY <1>1, <1>3, ChunkBytes DEF WriteOp, Inside
  <2>2. stream' \in Seq(Byte)
    BY <1>1, <1>3, <2>1 DEF WriteOp, Types
  <2>3. started' \in Seq(Frame) /\ Len(started') = Len(started) + 1
    BY <1>1, <1>3, <2>1 DEF WriteOp, Types
  <2>4. torn' \in 0 .. Len(started')
    <3>1. /\ torn \in 0 .. Len(started) /\ Len(started) \in Nat
          /\ torn' \in {torn, Len(started)}
      BY <1>1, <1>3 DEF WriteOp, Types
    <3>2. torn' \in 0 .. Len(started) + 1
      BY <3>1
    <3> QED
      BY <2>3, <3>2
  <2> QED
    BY <1>1, <1>3, <2>2, <2>3, <2>4 DEF WriteOp, Types, reader
<1>4. CASE WriteLen(w)
  <2>1. Chunk(w) \in Seq(Byte)
    BY <1>1, <1>4, ChunkBytes DEF WriteLen, Inside
  <2>2. stream' \in Seq(Byte)
    BY <1>1, <1>4, <2>1 DEF WriteLen, Types
  <2> QED
    BY <1>1, <1>4, <2>2 DEF WriteLen, Types, reader
<1>5. CASE WritePayload(w)
  <2>1. Chunk(w) \in Seq(Byte)
    BY <1>1, <1>5, ChunkBytes DEF WritePayload, Inside
  <2>2. stream' \in Seq(Byte)
    BY <1>1, <1>5, <2>1 DEF WritePayload, Types
  <2> QED
    BY <1>1, <1>5, <2>2 DEF WritePayload, Leave, Types, reader
<1>6. CASE WriteFails(w)
  <2>1. Chunk(w) \in Seq(Byte)
    BY <1>1, <1>6, ChunkBytes DEF WriteFails, Inside
  <2>2. PICK n \in {0} \cup 1 .. Len(Chunk(w)) - 1 : stream' = stream \o SubSeq(Chunk(w), 1, n)
    BY <1>6 DEF WriteFails
  <2>3. SubSeq(Chunk(w), 1, n) \in Seq(Byte)
    BY <2>1, PartOfChunk
  <2>4. stream' \in Seq(Byte)
    BY <1>1, <2>2, <2>3 DEF Types
  <2>5. torn' \in 0 .. Len(started')
    <3>1. Len(started) \in 0 .. Len(started) /\ torn \in 0 .. Len(started)
      BY <1>1 DEF Types
    <3>2. started' = started /\ torn' \in {torn, Len(started)}
      BY <1>6 DEF WriteFails
    <3> QED
      BY <3>1, <3>2
  <2> QED
    BY <1>1, <1>6, <2>4, <2>5 DEF WriteFails, Leave, Types, reader
<1> QED
  BY <1>2, <1>3, <1>4, <1>5, <1>6 DEF WriteStep

\* The reader keeps the types, whatever the bytes are that it takes for a length.
LEMMA ReaderTypes ==
  ASSUME FrameInv, ReadStep \/ ReadFails
  PROVE  Types'
<1>1. Types
  BY DEF FrameInv
<1>2. stream \in Seq(Byte) /\ Len(stream) \in Nat /\ rlen \in Nat
  BY <1>1 DEF Types
<1>3. CASE ReadOp
  <2>1. stream' \in Seq(Byte) /\ rop' \in Byte
    BY <1>2, <1>3 DEF ReadOp, Drop
  <2> QED
    BY <1>1, <1>3, <2>1 DEF ReadOp, Types, writers
<1>4. CASE ReadLen
  <2>1. Width \in 0 .. Len(stream)
    BY <1>2, <1>4 DEF ReadLen, Width
  <2>2. /\ SubSeq(stream, 1, Width) \in Seq(Byte) /\ Len(SubSeq(stream, 1, Width)) = Width
        /\ Drop(Width) \in Seq(Byte)
    BY <1>2, <2>1, TakeAndDrop DEF Drop
  <2>3. stream' \in Seq(Byte) /\ rlen' \in Nat
    BY <1>4, <2>2, UintNat DEF ReadLen
  <2> QED
    BY <1>1, <1>4, <2>3 DEF ReadLen, Types, writers
<1>5. CASE ReadPayload
  <2>1. rlen \in 0 .. Len(stream)
    BY <1>2, <1>5 DEF ReadPayload
  <2>2. SubSeq(stream, 1, rlen) \in Seq(Byte) /\ Drop(rlen) \in Seq(Byte)
    BY <1>2, <2>1, TakeAndDrop DEF Drop
  <2>3. [op |-> rop, payload |-> SubSeq(stream, 1, rlen)] \in AnyFrame
    BY <1>1, <2>2 DEF Types, AnyFrame
  <2>4. stream' \in Seq(Byte) /\ got' \in Seq(AnyFrame)
    BY <1>1, <1>5, <2>2, <2>3 DEF ReadPayload, Types
  <2> QED
    BY <1>1, <1>5, <2>4 DEF ReadPayload, Types, writers
<1>6. CASE ReadFails
  BY <1>1, <1>6 DEF ReadFails, Types, writers
<1> QED
  BY <1>3, <1>4, <1>5, <1>6 DEF ReadStep

\* The mutex keeps callers of Send apart, and what it does not keep apart spoils
\* a frame.
LEMMA StillApart ==
  ASSUME FrameInv, [Next]_vars
  PROVE  Apart'
<1>1. Types /\ Apart /\ None \notin Writer /\ Locked \subseteq Writer
  BY FramingAssumption DEF FrameInv
<1>2. ASSUME NEW w \in Writer, NEW f \in Frame, StartFrame(w, f)
      PROVE  Apart'
  <2>1. /\ wpc[w] = "idle" /\ started' = started /\ torn' = torn
        /\ wpc' = [wpc EXCEPT ![w] = "op"] /\ frame' = [frame EXCEPT ![w] = f]
        /\ IF w \in Locked THEN mutex = None /\ mutex' = w ELSE mutex' = mutex
    BY <1>2 DEF StartFrame
  <2>2. /\ wpc'[w] = "op" /\ frame'[w] = f
        /\ \A v \in Writer \ {w} : wpc'[v] = wpc[v] /\ frame'[v] = frame[v]
    BY <1>1, <2>1 DEF Types
  <2>3. Amid' = Amid /\ Amid \subseteq Writer \ {w}
    BY <2>1, <2>2 DEF Amid
  <2>4. mutex' \in Locked \cup {None} /\ \A v \in Locked : wpc'[v] \in Inside <=> mutex' = v
    <3>1. \A v \in Locked \ {w} : wpc'[v] = wpc[v]
      BY <1>1, <2>2
    <3>2. mutex \in Locked \cup {None} /\ \A v \in Locked : wpc[v] \in Inside <=> mutex = v
      BY <1>1 DEF Apart
    <3>3. wpc'[w] \in Inside /\ wpc[w] \notin Inside
      BY <2>1, <2>2 DEF Inside
    <3>4. CASE w \in Locked
      BY <1>1, <2>1, <3>1, <3>2, <3>3, <3>4
    <3>5. CASE w \notin Locked
      BY <2>1, <3>1, <3>2, <3>5
    <3> QED
      BY <3>4, <3>5
  <2>5. \A v \in Writer : wpc'[v] \in Inside => frame'[v] \in Frame
    BY <1>1, <2>2 DEF Apart
  <2>6. torn' = 0 => \A v \in Amid' :
          Amid' = {v} /\ Len(started') > 0 /\ started'[Len(started')] = frame'[v]
    BY <1>1, <2>1, <2>2, <2>3 DEF Apart
  <2> QED
    BY <2>4, <2>5, <2>6 DEF Apart, Inside
<1>3. ASSUME NEW w \in Writer, WriteOp(w) \/ WriteLen(w)
      PROVE  Apart'
  <2>1. /\ wpc[w] \in Inside /\ wpc'[w] \in {"len", "payload"}
        /\ \A v \in Writer \ {w} : wpc'[v] = wpc[v]
        /\ mutex' = mutex /\ frame' = frame
    BY <1>1, <1>3 DEF WriteOp, WriteLen, Types, Inside
  <2>2. \A v \in Writer : wpc'[v] \in Inside <=> wpc[v] \in Inside
    BY <2>1 DEF Inside
  <2>3. torn' = 0 => \A v \in Amid' :
          Amid' = {v} /\ Len(started') > 0 /\ started'[Len(started')] = frame'[v]
    <3>1. CASE WriteOp(w)
      <4> SUFFICES ASSUME torn' = 0
                   PROVE  /\ Amid' = {w}
                          /\ Len(started') > 0 /\ started'[Len(started')] = frame'[w]
        OBVIOUS
      <4>1. Amid' = {w}
        BY <1>1, <3>1, BeginsAlone
      <4>2. frame[w] \in Frame
        BY <1>1, <2>1 DEF Apart
      <4> QED
        BY <1>1, <2>1, <3>1, <4>1, <4>2 DEF WriteOp, Types
    <3>2. CASE WriteLen(w)
      <4>1. started' = started /\ torn' = torn /\ wpc[w] = "len"
        BY <3>2 DEF WriteLen
      <4>2. Amid' = Amid
        BY <2>1, <4>1 DEF Amid
      <4> QED
        BY <1>1, <2>1, <4>1, <4>2 DEF Apart
    <3> QED
      BY <1>3, <3>1, <3>2
  <2>4. /\ mutex' \in Locked \cup {None}
        /\ \A v \in Locked : wpc'[v] \in Inside <=> mutex' = v
        /\ \A v \in Writer : wpc'[v] \in Inside => frame'[v] \in Frame
    BY <1>1, <2>1, <2>2 DEF Apart
  <2> QED
    BY <2>3, <2>4 DEF Apart, Inside
<1>4. ASSUME NEW w \in Writer, WritePayload(w) \/ WriteFails(w)
      PROVE  Apart'
  <2>1. PICK to \in {"idle", "returned"} : Leave(w, to)
    BY <1>4 DEF WritePayload, WriteFails
  <2>2. wpc[w] \in Inside /\ started' = started /\ (torn' = 0 => torn = 0)
    <3>1. wpc[w] \in Inside /\ started' = started
      BY <1>4 DEF WritePayload, WriteFails, Inside
    <3>2. CASE WritePayload(w)
      BY <3>1, <3>2 DEF WritePayload
    <3>3. CASE WriteFails(w)
      BY <3>1, <3>3 DEF WriteFails
    <3> QED
      BY <1>4, <3>2, <3>3
  <2>3. /\ wpc'[w] = to /\ to \notin Inside /\ mutex' = IF mutex = w THEN None ELSE mutex
        /\ \A v \in Writer \ {w} : wpc'[v] = wpc[v] /\ frame'[v] = frame[v]
    BY <1>1, <2>1 DEF Leave, Types, Inside
  <2>4. Amid' = Amid \ {w} /\ Amid \subseteq Writer
    BY <2>3 DEF Amid, Inside
  <2>5. mutex' \in Locked \cup {None} /\ \A v \in Locked : wpc'[v] \in Inside <=> mutex' = v
    <3>1. mutex \in Locked \cup {None} /\ \A v \in Locked : wpc[v] \in Inside <=> mutex = v
      BY <1>1 DEF Apart
    <3>2. \A v \in Locked \ {w} : wpc'[v] = wpc[v]
      BY <1>1, <2>3
    <3>3. CASE w \in Locked
      BY <1>1, <2>2, <2>3, <3>1, <3>2, <3>3
    <3>4. CASE w \notin Locked
      BY <1>1, <2>3, <3>1, <3>2, <3>4
    <3> QED
      BY <3>3, <3>4
  <2>6. \A v \in Writer : wpc'[v] \in Inside => frame'[v] \in Frame
    BY <1>1, <2>3 DEF Apart
  <2>7. torn' = 0 => \A v \in Amid' :
          Amid' = {v} /\ Len(started') > 0 /\ started'[Len(started')] = frame'[v]
    BY <1>1, <2>2, <2>3, <2>4 DEF Apart
  <2> QED
    BY <2>5, <2>6, <2>7 DEF Apart, Inside
<1>5. ASSUME UNCHANGED <<mutex, wpc, frame, started, torn>>
      PROVE  Apart'
  BY <1>1, <1>5 DEF Apart, Amid, Inside
<1>6. CASE ReadStep \/ ReadFails
  BY <1>5, <1>6 DEF ReadStep, ReadOp, ReadLen, ReadPayload, ReadFails, writers
<1>7. CASE UNCHANGED vars
  BY <1>5, <1>7 DEF vars, writers
<1>8. CASE \E w \in Writer : (\E f \in Sends[w] : StartFrame(w, f)) \/ WriteStep(w) \/ WriteFails(w)
  BY <1>2, <1>3, <1>4, <1>8, FramingAssumption DEF WriteStep
<1> QED
  BY <1>6, <1>7, <1>8 DEF Next

-----------------------------------------------------------------------------
(* The inductive invariant, and what it gives *)

\* Every step of the frame protocol keeps the reader in step with the writers.
LEMMA FrameStep ==
  ASSUME FrameInv, [Next]_vars
  PROVE  FrameInv'
<1>1. Apart'
  BY StillApart
<1>2. ASSUME NEW w \in Writer,
             (\E f \in Frame : StartFrame(w, f)) \/ WriteStep(w) \/ WriteFails(w)
      PROVE  FrameInv'
  <2>1. Types'
    BY <1>2, WriterTypes
  <2>2. InSync' /\ IntactUntilTorn'
    BY <1>2, StartInSync, WriteOpInSync, WriteLenInSync, WritePayloadInSync,
       WriteFailsInSync DEF WriteStep
  <2> QED
    BY <1>1, <2>1, <2>2 DEF FrameInv
<1>3. CASE ReadStep \/ ReadFails
  <2>1. Types'
    BY <1>3, ReaderTypes
  <2>2. InSync' /\ IntactUntilTorn'
    BY <1>3, ReadOpInSync, ReadLenInSync, ReadPayloadInSync, ReadFailsInSync DEF ReadStep
  <2> QED
    BY <1>1, <2>1, <2>2 DEF FrameInv
<1>4. CASE UNCHANGED vars
  <2>1. UNCHANGED <<stream, started, torn, reader>> /\ Left' = Left
    BY <1>4 DEF vars, writers, Left, Amid, Rest
  <2>2. InSync' /\ IntactUntilTorn'
    BY <2>1, SameInSync DEF FrameInv, IntactUntilTorn, reader
  <2>3. Types'
    BY <1>4 DEF FrameInv, Types, vars, writers, reader
  <2> QED
    BY <1>1, <2>2, <2>3 DEF FrameInv
<1>5. \A w \in Writer : \A f \in Sends[w] : f \in Frame
  BY FramingAssumption
<1> QED
  BY <1>2, <1>3, <1>4, <1>5 DEF Next

\* ReadFrame returns the frames that were written, in order, up to the first one
\* whose Write failed or that a writer without the mutex wrote into: for any
\* frames, any writers, whether all, some or none of them are callers of Send,
\* and any interleaving of their Writes with the reads.
THEOREM FramesIntactUntilTorn ==
  Spec => []IntactUntilTorn
<1>1. Init => FrameInv
  BY FrameInit
<1>2. FrameInv /\ [Next]_vars => FrameInv'
  BY FrameStep
<1>3. FrameInv => IntactUntilTorn
  BY DEF FrameInv
<1> QED
  BY <1>1, <1>2, <1>3, PTL DEF Spec
=============================================================================
