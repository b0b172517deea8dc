-------------------------- MODULE TransportProofs --------------------------
(***************************************************************************)
(* Proofs about Channel and Transport, for any number of pushers, payloads *)
(* and any capacity.  A channel writes in order and the inner loop of      *)
(* writeloop never waits; the server uses a Channel as Channel allows, and *)
(* a broadcast panics only if Shutdown closed the channel under it.        *)
(***************************************************************************)
EXTENDS Transport, SequenceTheorems, TLAPS

-----------------------------------------------------------------------------
(* The channel, whoever pushes *)

\* Appending to the last of three sequences appends to the concatenation.
LEMMA AppendLast ==
  ASSUME NEW S, NEW s \in Seq(S), NEW t \in Seq(S), NEW e \in S
  PROVE  s \o Append(t, e) = Append(s \o t, e)
  OBVIOUS

\* Taking the head of the last sequence into an empty middle one.
LEMMA MoveHead ==
  ASSUME NEW S, NEW s \in Seq(S), NEW t \in Seq(S), t # <<>>
  PROVE  s \o <<Head(t)>> \o Tail(t) = s \o <<>> \o t
<1>1. Head(t) \in S /\ Tail(t) \in Seq(S) /\ <<Head(t)>> \o Tail(t) = t
  OBVIOUS
<1>2. <<Head(t)>> \in Seq(S) /\ <<>> \in Seq(S)
  BY <1>1
<1>3. s \o <<Head(t)>> \o Tail(t) = s \o (<<Head(t)>> \o Tail(t))
  BY <1>1, <1>2, ConcatAssociative
<1>4. s \o <<>> = s
  BY ConcatEmptySeq
<1> QED
  BY <1>1, <1>3, <1>4

\* TypeOK with the order of payloads and the bound of the inner loop: the
\* strengthening that makes each of them inductive.
IInv == TypeOK /\ InOrder /\ DrainNeverBlocks

\* A new channel satisfies the three of them.
LEMMA InitIInv == Init => IInv
  BY ChannelAssumption DEF Init, IInv, TypeOK, InOrder, DrainNeverBlocks, PusherState, Quiet,
     WriterPc, NoMsg

\* Every step of Push, Close and writeloop preserves the three of them.
LEMMA NextIInv == IInv /\ [Next]_vars => IInv'
<1> SUFFICES ASSUME IInv, [Next]_vars PROVE IInv'
  OBVIOUS
<1> USE ChannelAssumption DEF IInv
<1>1. ASSUME NEW p \in Pusher, NEW m \in Msg, CheckOpen(p, m) PROVE IInv'
  <2>1. TypeOK'
    BY <1>1 DEF CheckOpen, TypeOK, PusherState, chan, writer
  <2> QED
    BY <1>1, <2>1 DEF CheckOpen, InOrder, DrainNeverBlocks, chan, writer
<1>2. ASSUME NEW p \in Pusher, Send(p) PROVE IInv'
  <2>1. push[p].msg \in Msg
    BY <1>2 DEF Send, TypeOK
  <2>2. TypeOK'
    BY <1>2, <2>1 DEF Send, TypeOK, PusherState, Quiet, writer
  <2>3. InOrder'
    <3>1. wrote \o hold \in Seq(Msg)
      BY DEF TypeOK
    <3>2. (wrote \o hold) \o Append(buf, push[p].msg)
            = Append((wrote \o hold) \o buf, push[p].msg)
      BY <2>1, <3>1, AppendLast DEF TypeOK
    <3> QED
      BY <1>2, <3>2 DEF Send, InOrder, writer
  <2>4. DrainNeverBlocks'
    BY <1>2, <2>1 DEF Send, TypeOK, DrainNeverBlocks, writer
  <2> QED
    BY <2>2, <2>3, <2>4
<1>3. ASSUME NEW p \in Pusher, SendPanics(p) PROVE IInv'
  <2>1. TypeOK'
    BY <1>3 DEF SendPanics, TypeOK, PusherState, chan, writer
  <2> QED
    BY <1>3, <2>1 DEF SendPanics, InOrder, DrainNeverBlocks, chan, writer
<1>4. CASE CloseStep
  BY <1>4 DEF CloseStep, CloseChan, Fire, FireDone, TypeOK, InOrder,
     DrainNeverBlocks, chan, writer
<1>5. CASE SelectPayload
  <2>1. Head(buf) \in Msg /\ Tail(buf) \in Seq(Msg) /\ Len(Tail(buf)) <= Len(buf)
    BY <1>5 DEF SelectPayload, TypeOK
  <2>2. TypeOK'
    BY <1>5, <2>1 DEF SelectPayload, Take, TypeOK, WriterPc
  <2>3. InOrder'
    BY <1>5, MoveHead DEF SelectPayload, Take, TypeOK, InOrder
  <2> QED
    BY <1>5, <2>2, <2>3 DEF SelectPayload, DrainNeverBlocks
<1>6. CASE SelectNil \/ SelectDone
  BY <1>6 DEF SelectNil, SelectDone, TypeOK, WriterPc, InOrder, DrainNeverBlocks, chan
<1>7. CASE WriteFrame
  <2>1. TypeOK'
    BY <1>7 DEF WriteFrame, TypeOK, WriterPc, chan
  <2>2. wrote \o hold \in Seq(Msg) /\ (wrote \o hold) \o <<>> = wrote \o hold
    BY ConcatEmptySeq DEF TypeOK
  <2> QED
    BY <1>7, <2>1, <2>2 DEF WriteFrame, InOrder, DrainNeverBlocks, chan
<1>8. CASE ReadLen
  BY <1>8 DEF ReadLen, TypeOK, WriterPc, InOrder, DrainNeverBlocks, chan
<1>9. CASE DrainNext
  <2>1. Head(buf) \in Msg /\ Tail(buf) \in Seq(Msg) /\ Len(Tail(buf)) = Len(buf) - 1
    BY <1>9 DEF DrainNext, TypeOK
  <2>2. TypeOK'
    BY <1>9, <2>1 DEF DrainNext, Take, TypeOK, WriterPc
  <2>3. InOrder'
    BY <1>9, MoveHead DEF DrainNext, Take, TypeOK, InOrder
  <2>4. DrainNeverBlocks'
    BY <1>9, <2>1 DEF DrainNext, Take, TypeOK, DrainNeverBlocks
  <2> QED
    BY <2>2, <2>3, <2>4
<1>10. CASE Flush \/ WriteFails
  BY <1>10 DEF Flush, WriteFails, TypeOK, WriterPc, InOrder, DrainNeverBlocks, chan
<1>11. CASE UNCHANGED vars
  BY <1>11 DEF vars, chan, writer, TypeOK, InOrder, DrainNeverBlocks
<1> QED
  BY <1>1, <1>2, <1>3, <1>4, <1>5, <1>6, <1>7, <1>8, <1>9, <1>10, <1>11
     DEF Next, PushStep, WriterStep, Unused

\* So they hold in every reachable state.
LEMMA SpecIInv == Spec => []IInv
  BY InitIInv, NextIInv, PTL DEF Spec

\* The types of a Channel's state hold in every execution of pushers, Close
\* and writeloop.
THEOREM ChannelTypes == Spec => []TypeOK
  BY SpecIInv, PTL DEF IInv

\* The connection gets the payloads that were pushed, in order, none twice and
\* none skipped, whatever Close and write errors do (channel.go Push, writeloop).
THEOREM ChannelInOrder == Spec => []InOrder
  BY SpecIInv, PTL DEF IInv

\* The receives of writeloop's inner loop never wait.
THEOREM ChannelDrain == Spec => []DrainNeverBlocks
  BY SpecIInv, PTL DEF IInv

-----------------------------------------------------------------------------
(* The broadcast loop, the connection and c.mu *)

LoopPc == {"wait", "lock", "get", "push", "sending", "unlock"}
ConnPc == {"registered", "reading", "removed", "unregister", "closing", "ended"}

LinkOK ==
  /\ lpc \in LoopPc /\ cpc \in ConnPc /\ mu \in {"none", "loop", "conn"}
  /\ closer \in {"none", "conn", "shutdown"} /\ spc \in {"running", "closing", "over"}

\* Mutual exclusion: c.mu is the loop's from Lock to Unlock of broadcastJob, and
\* the connection's in Disconnect.
Mutex ==
  /\ mu = "loop" <=> lpc \in {"get", "push", "sending", "unlock"}
  /\ mu = "conn" <=> cpc = "unregister"

\* broadcastJob found the channel in the ChannelMap and holds c.mu, so the
\* connection cannot get past Disconnect to Close.
HeldOpen == lpc \in {"push", "sending"} => cpc \in {"reading", "removed"}

\* The broadcast sends only from there; the channel is closed only by somebody,
\* and by the connection only at its end.
Sends == push[Loop].pc # "idle" => lpc = "sending"
Closers ==
  /\ closing # "no" => closer # "none"
  /\ closer = "conn" => cpc \in {"closing", "ended"}

MutexInv == LinkOK /\ Mutex /\ HeldOpen /\ Sends /\ Closers /\ PanicsOnlyInShutdown

\* The payload of the running broadcast is not used by anybody else.
JobReserved == lpc \in {"lock", "get", "push"} => job \in Unused

-----------------------------------------------------------------------------
(* The server implements Channel *)

\* What a step of Push does to the payloads nobody has used yet.
LEMMA PushKeepsUnused ==
  ASSUME TypeOK, NEW p \in Pusher
  PROVE  /\ \A m \in Msg : CheckOpen(p, m) => Unused \ {m} \subseteq Unused'
         /\ Send(p) \/ SendPanics(p) => Unused \subseteq Unused'
<1> USE ChannelAssumption DEF Unused, Used, TypeOK, PusherState
<1>1. ASSUME NEW m \in Msg, CheckOpen(p, m) PROVE Unused \ {m} \subseteq Unused'
  BY <1>1 DEF CheckOpen, chan
<1>2. CASE Send(p)
  <2>1. push[p].msg \in Msg /\ sent' = Append(sent, push[p].msg)
        /\ push' = [push EXCEPT ![p] = Quiet]
    BY <1>2 DEF Send
  <2>2. \A i \in DOMAIN sent' : sent'[i] = push[p].msg \/ (i \in DOMAIN sent /\ sent'[i] = sent[i])
    BY <2>1
  <2>3. \A q \in Pusher : push'[q].msg \in {NoMsg, push[q].msg}
    BY <2>1 DEF Quiet
  <2> QED
    BY <2>2, <2>3
<1>3. CASE SendPanics(p)
  <2>1. sent' = sent /\ \A q \in Pusher : push'[q].msg = push[q].msg
    BY <1>3 DEF SendPanics, chan
  <2> QED
    BY <2>1
<1> QED
  BY <1>1, <1>2, <1>3

\* Nobody takes the payload of the running broadcast, and so every step of the
\* server is one of the channel or leaves the channel alone.
LEMMA ServerStep ==
  ASSUME TypeOK, JobReserved, [ServerNext]_svars
  PROVE  [Next]_vars /\ JobReserved'
<1> USE ChannelAssumption, TransportAssumption
<1>1. ASSUME UNCHANGED wire PROVE [Next]_vars /\ Unused' = Unused
  BY <1>1 DEF wire, vars, chan, Unused, Used
<1>2. ASSUME UNCHANGED <<push, sent>> PROVE Unused' = Unused
  BY <1>2 DEF Unused, Used
<1>3. Unused \subseteq Msg
  BY DEF Unused
<1>4. CASE UNCHANGED svars
  BY <1>1, <1>4 DEF svars, link, JobReserved
<1>5. ASSUME Alive, NEW m \in Unused, Snapshot(m) PROVE [Next]_vars /\ JobReserved'
  BY <1>1, <1>5 DEF Snapshot, JobReserved
<1>6. CASE LockLoop \/ GetChannel \/ PushRefused \/ UnlockLoop
  BY <1>1, <1>6 DEF LockLoop, GetChannel, PushRefused, UnlockLoop, JobReserved
<1>7. CASE Alive /\ StartPush
  BY <1>7 DEF StartPush, JobReserved, Alive, Next, PushStep
<1>8. CASE Alive /\ LoopSends
  BY <1>8 DEF LoopSends, JobReserved, Alive, Next, PushStep
<1>9. CASE \/ AddChannel \/ EndReadloop \/ LockConn \/ Unregister \/ CloseReturns
           \/ ShutdownSnapshot
  BY <1>1, <1>9 DEF AddChannel, EndReadloop, LockConn, Unregister, CloseReturns,
     ShutdownSnapshot, JobReserved
<1>10. CASE Alive /\ (CloseChannel \/ ShutdownCloses)
  <2>1. CloseStep /\ UNCHANGED <<lpc, job>>
    BY <1>10 DEF CloseChannel, ShutdownCloses
  <2>2. UNCHANGED <<push, sent>>
    BY <2>1 DEF CloseStep, CloseChan, Fire, FireDone, chan
  <2> QED
    BY <1>2, <1>10, <2>1, <2>2 DEF JobReserved, Alive, Next
<1>11. CASE Alive /\ WriteloopStep
  <2>1. (WriterStep \/ WriteFails) /\ UNCHANGED <<lpc, job>>
    BY <1>11 DEF WriteloopStep, link
  <2>2. UNCHANGED <<push, sent>>
    BY <2>1 DEF WriterStep, SelectPayload, SelectNil, SelectDone, WriteFrame, ReadLen,
       DrainNext, Flush, WriteFails, Take, chan
  <2> QED
    BY <1>2, <1>11, <2>1, <2>2 DEF JobReserved, Alive, Next
<1>12. ASSUME Alive, NEW p \in Pusher, RespondStep(p) PROVE [Next]_vars /\ JobReserved'
  <2>1. UNCHANGED <<lpc, job>>
    BY <1>12 DEF RespondStep, link
  <2>2. ASSUME NEW m \in Unused \ {job}, CheckOpen(p, m) PROVE [Next]_vars /\ JobReserved'
    BY <1>3, <1>12, <2>1, <2>2, PushKeepsUnused DEF JobReserved, Alive, Next, PushStep
  <2>3. CASE Send(p) \/ SendPanics(p)
    BY <1>12, <2>1, <2>3, PushKeepsUnused DEF JobReserved, Alive, Next, PushStep
  <2> QED
    BY <1>12, <2>2, <2>3 DEF RespondStep
<1> QED
  BY <1>4, <1>5, <1>6, <1>7, <1>8, <1>9, <1>10, <1>11, <1>12
     DEF ServerNext, LoopStep, ConnStep, ConnEnds

\* The payload stays reserved, and the channel's invariants hold.
LEMMA ServerReserves == ServerSpec => [](IInv /\ JobReserved)
<1>1. ServerInit => IInv /\ JobReserved
  BY InitIInv DEF ServerInit, JobReserved
<1>2. IInv /\ JobReserved /\ [ServerNext]_svars => IInv' /\ JobReserved'
  BY ServerStep, NextIInv DEF IInv
<1> QED
  BY <1>1, <1>2, PTL DEF ServerSpec

\* The loop, the connection's goroutine, Shutdown and the Receive goroutines use
\* the channel only in the ways Channel describes: every property of Channel's
\* executions holds in the server.
THEOREM ServerImplementsChannel == ServerSpec => Spec
<1>1. ServerInit => Init
  BY DEF ServerInit
<1>2. IInv /\ JobReserved /\ [ServerNext]_svars => [Next]_vars
  BY ServerStep DEF IInv
<1> QED
  BY <1>1, <1>2, ServerReserves, PTL DEF ServerSpec, Spec

\* In particular frames reach each connection of the server in the order in
\* which they were pushed, whoever pushed them.
THEOREM ServerInOrder == ServerSpec => []InOrder
  BY ServerImplementsChannel, ChannelInOrder, PTL

-----------------------------------------------------------------------------
(* c.mu protects a broadcast from Close *)

\* Every step of the server preserves MutexInv.
LEMMA ServerMutex == TypeOK /\ MutexInv /\ [ServerNext]_svars => MutexInv'
<1> SUFFICES ASSUME TypeOK, MutexInv, [ServerNext]_svars PROVE MutexInv'
  OBVIOUS
<1> USE TransportAssumption
        DEF MutexInv, LinkOK, LoopPc, ConnPc, Mutex, HeldOpen, Sends, Closers,
            PanicsOnlyInShutdown
<1>1. CASE UNCHANGED svars
  BY <1>1 DEF svars, wire, vars, link
<1>2. ASSUME NEW m, Snapshot(m) PROVE MutexInv'
  BY <1>2 DEF Snapshot, wire, vars
<1>3. CASE LockLoop \/ GetChannel \/ PushRefused \/ UnlockLoop
  BY <1>3 DEF LockLoop, GetChannel, PushRefused, UnlockLoop, InMap, wire, vars
<1>4. CASE StartPush
  BY <1>4 DEF StartPush, CheckOpen, TypeOK
<1>5. CASE LoopSends
  <2>1. CASE Send(Loop) /\ lpc' = "unlock"
    BY <1>5, <2>1 DEF LoopSends, Send, TypeOK, Quiet
  <2>2. CASE SendPanics(Loop) /\ lpc' = lpc
    <3>1. push'[Loop].pc = "panic" /\ closing # "no" /\ lpc = "sending"
      BY <1>5, <2>2 DEF LoopSends, SendPanics, TypeOK
    <3>2. closer = "shutdown"
      BY <3>1
    <3> QED
      BY <1>5, <2>2, <3>1, <3>2 DEF LoopSends, SendPanics
  <2> QED
    BY <1>5, <2>1, <2>2 DEF LoopSends
<1>6. CASE \/ AddChannel \/ EndReadloop \/ LockConn \/ Unregister \/ CloseReturns
           \/ ShutdownSnapshot
  BY <1>6 DEF AddChannel, EndReadloop, LockConn, Unregister, CloseReturns,
     ShutdownSnapshot, wire, vars
<1>7. CASE CloseChannel \/ ShutdownCloses
  BY <1>7 DEF CloseChannel, ShutdownCloses, CloseStep, CloseChan, Fire, FireDone
<1>8. CASE WriteloopStep
  <2>1. UNCHANGED <<push, closing, link>>
    BY <1>8 DEF WriteloopStep, WriterStep, SelectPayload, SelectNil, SelectDone, WriteFrame,
       ReadLen, DrainNext, Flush, WriteFails
  <2> QED
    BY <2>1 DEF link
<1>9. ASSUME NEW p \in Pusher, RespondStep(p) PROVE MutexInv'
  <2>1. push'[Loop] = push[Loop] /\ UNCHANGED <<closing, link>>
    BY <1>9 DEF RespondStep, CheckOpen, Send, SendPanics, TypeOK
  <2> QED
    BY <2>1 DEF link
<1> QED
  BY <1>1, <1>2, <1>3, <1>4, <1>5, <1>6, <1>7, <1>8, <1>9
     DEF ServerNext, LoopStep, ConnStep, ConnEnds

\* broadcastJob sends on a closed writechan only if Server.Shutdown closed it:
\* the connection's own Close comes after Disconnect, which waits for c.mu.
THEOREM BroadcastPanicsOnlyInShutdown == ServerSpec => []PanicsOnlyInShutdown
<1>1. ServerInit => MutexInv
  BY TransportAssumption DEF ServerInit, Init, Quiet, MutexInv, LinkOK, LoopPc, ConnPc,
     Mutex, HeldOpen, Sends, Closers, PanicsOnlyInShutdown
<1>2. IInv => TypeOK
  BY DEF IInv
<1>3. MutexInv => PanicsOnlyInShutdown
  BY DEF MutexInv
<1> QED
  BY <1>1, <1>2, <1>3, ServerMutex, ServerReserves, PTL DEF ServerSpec

\* Without Shutdown, no broadcast panics.
THEOREM BroadcastNeverPanics ==
  ASSUME MayShutdown = FALSE
  PROVE  ServerSpec => [](push[Loop].pc # "panic")
<1> DEFINE NoShutdown == closer # "shutdown" /\ spc = "running"
<1>1. ServerInit => NoShutdown
  BY DEF ServerInit
<1>2. NoShutdown /\ [ServerNext]_svars => NoShutdown'
  BY DEF ServerNext, svars, link, LoopStep, Snapshot, LockLoop, GetChannel, StartPush,
     PushRefused, LoopSends, UnlockLoop, ConnStep, AddChannel, EndReadloop, ConnEnds,
     LockConn, Unregister, CloseChannel, CloseReturns, WriteloopStep, ShutdownSnapshot,
     ShutdownCloses, RespondStep
<1>3. NoShutdown /\ PanicsOnlyInShutdown => push[Loop].pc # "panic"
  BY DEF PanicsOnlyInShutdown
<1> QED
  BY <1>1, <1>2, <1>3, BroadcastPanicsOnlyInShutdown, PTL DEF ServerSpec
=============================================================================
