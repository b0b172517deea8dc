---------------------------- MODULE ClientProofs ----------------------------
(***************************************************************************)
(* Proofs about Client, for every length of the tickers' periods and any   *)
(* number of jobs and frames: what the tickers submit is a second after    *)
(* the submission before.                                                  *)
(***************************************************************************)
EXTENDS Client, TLAPS

\* The values of Run's clocks and positions.
AgesOK ==
  /\ age \in 0 .. Minute /\ gap \in 0 .. Minute /\ stamped \in BOOLEAN
  /\ rpc \in {"connect", "select", "send", "stamp", "returned"}
  /\ kind \in {"none", "job", "timer"}

\* lastSubmit is never older than the last frame that went out, except between
\* cli.Send and the assignment that follows it.
StampAfterSend == rpc # "stamp" => age <= gap

\* The zero time of lastSubmit counts as long ago.
UnstampedIsOld == ~ stamped => age = Minute

\* A ticker's case was taken with lastSubmit a second back or more.
TimerTested == rpc = "send" /\ kind = "timer" => age >= Second

SpacingInv == AgesOK /\ StampAfterSend /\ UnstampedIsOld /\ TimerTested

-----------------------------------------------------------------------------

\* No process has submitted or set lastSubmit when it starts.
LEMMA SpacingInit == Init => SpacingInv
<1> SUFFICES ASSUME Init PROVE SpacingInv
  OBVIOUS
<1>1. age = Minute /\ gap = Minute /\ rpc = "connect" /\ kind = "none" /\ stamped = FALSE
  BY DEF Init
<1>2. age \in 0 .. Minute /\ gap \in 0 .. Minute /\ age <= gap
  BY <1>1, ClientAssumption
<1> QED
  BY <1>1, <1>2
  DEF SpacingInv, AgesOK, StampAfterSend, UnstampedIsOld, TimerTested

\* Ages stay in range and keep their order as time passes.
LEMMA OlderInRange ==
  ASSUME NEW a \in 0 .. Minute
  PROVE  Older(a) \in 0 .. Minute /\ Older(a) >= a /\ (a = Minute => Older(a) = Minute)
  BY ClientAssumption DEF Older

\* The same, for two ages.
LEMMA OlderMonotone ==
  ASSUME NEW a \in 0 .. Minute, NEW b \in 0 .. Minute, a <= b
  PROVE  Older(a) <= Older(b)
  BY ClientAssumption DEF Older

\* Every step of the process keeps lastSubmit behind the frames sent.
LEMMA SpacingKept == SpacingInv /\ [Next]_vars => SpacingInv'
<1> SUFFICES ASSUME SpacingInv, [Next]_vars PROVE SpacingInv'
  OBVIOUS
<1> USE ClientAssumption
    DEF SpacingInv, AgesOK, StampAfterSend, UnstampedIsOld, TimerTested, run
<1>1. CASE Connect
  BY <1>1 DEF Connect
<1>2. CASE ServerSends \/ LinkFails \/ ReadFrame \/ ReadError \/ Signal \/ Close \/ Exit
  BY <1>2 DEF ServerSends, LinkFails, ReadFrame, ReadError, Signal, Close, Exit
<1>3. CASE CtxDone \/ ErrReceived \/ FrameReceived
  BY <1>3 DEF CtxDone, ErrReceived, FrameReceived
<1>4. CASE SecondFires
  <2>1. /\ UNCHANGED <<stamped, age, gap>> /\ rpc = "select"
        /\ \/ UNCHANGED <<rpc, kind>>
           \/ ~ (stamped /\ age < Second) /\ rpc' = "send" /\ kind' = "timer"
    BY <1>4 DEF SecondFires
  <2>2. (stamped /\ age < Second) \/ age >= Second
    OBVIOUS
  <2> QED
    BY <2>1, <2>2
<1>5. CASE MinuteFires
  BY <1>5 DEF MinuteFires
<1>6. CASE Send
  BY <1>6 DEF Send
<1>7. CASE Stamp
  BY <1>7 DEF Stamp
<1>8. CASE Clock
  <2>1. /\ age' = (IF stamped THEN Older(age) ELSE age) /\ gap' = Older(gap)
        /\ UNCHANGED <<rpc, kind, stamped>>
    BY <1>8 DEF Clock
  <2>2. gap' \in 0 .. Minute /\ age' \in 0 .. Minute /\ age' >= age
    BY <2>1, OlderInRange
  <2>3. UnstampedIsOld' /\ TimerTested'
    BY <2>1, <2>2
  <2>4. StampAfterSend'
    <3>1. CASE stamped
      BY <2>1, <3>1, OlderMonotone
    <3>2. CASE ~ stamped
      <4>1. rpc # "stamp" => gap = Minute /\ gap' = Minute
        BY <2>1, <3>2, OlderInRange
      <4> QED
        BY <2>1, <2>2, <4>1
    <3> QED
      BY <3>1, <3>2
  <2> QED
    BY <2>1, <2>2, <2>3, <2>4
<1>9. CASE UNCHANGED vars
  BY <1>9 DEF vars
<1> QED
  BY <1>1, <1>2, <1>3, <1>4, <1>5, <1>6, <1>7, <1>8, <1>9 DEF Next, RunStep

\* What Run submits when a ticker fires (client.go:104 and :124) goes out at least
\* a second after the submission before, even one made at a job's arrival with a
\* tick already pending.
THEOREM ClientTimerSpacing == Spec => TimerSpacing
<1>1. SpacingInv /\ [Next]_vars
        => [Send /\ kind = "timer" /\ link = "up" => gap >= Second]_vars
  BY ClientAssumption
  DEF SpacingInv, AgesOK, StampAfterSend, TimerTested, Send
<1> QED
  BY <1>1, SpacingInit, SpacingKept, PTL DEF Spec, TimerSpacing
=============================================================================
