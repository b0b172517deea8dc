----------------------------- MODULE Transport -----------------------------
(***************************************************************************)
(* The lock cycle between the broadcast loop, one connection's goroutine   *)
(* and that connection's Channel.  broadcastJob holds the Coordinator's    *)
(* mutex c.mu while it calls Push (app/server/coordinator.go:95-101, tcp/  *)
(* server.go:146-152); the goroutine of the connection takes c.mu in       *)
(* Disconnect, after it has removed the channel from the ChannelMap and    *)
(* before it closes the channel (tcp/server.go:100-106).                   *)
(*                                                                         *)
(* Loop is the pusher that stands for broadcastJob; the other pushers are  *)
(* the Receive goroutines that push responses.  The jobs and submissions   *)
(* themselves are the subject of Coordinator.                              *)
(***************************************************************************)
EXTENDS Channel

CONSTANTS Loop,       \* the pusher in broadcastJob
          MayShutdown \* may Server.Shutdown run?

ASSUME TransportAssumption == Loop \in Pusher /\ MayShutdown \in BOOLEAN

VARIABLES
  lpc,     \* position of the loop goroutine
  job,     \* the encoded job message broadcastJob is about to push
  listed,  \* broadcastJob's copy of c.sessions holds the session
  mu,      \* holder of c.mu: "none", "loop" or "conn"
  cpc,     \* position of the connection's goroutine
  closer,  \* who runs the once.Do of Close: "none", "conn" or "shutdown"
  spc      \* Server.Shutdown: "running" (not called), "closing" (the channel
           \* is in its copy of the ChannelMap) or "over"

wire == vars
link == <<lpc, job, listed, mu, cpc, closer, spc>>
svars == <<wire, link>>

\* c.sessions has the session until Disconnect; the ChannelMap has the channel
\* from Add to Remove.
InSessions == cpc \in {"registered", "reading", "removed", "unregister"}
InMap == cpc = "reading"

ServerInit ==
  /\ Init
  /\ lpc = "wait" /\ job = NoMsg /\ listed = FALSE /\ mu = "none" /\ cpc = "registered"
  /\ closer = "none" /\ spc = "running"

-----------------------------------------------------------------------------
(* The loop: a tick, then broadcastJob *)

\* The tick starts rotateJob, the copy of the sessions under RLock, and the
\* encoding of the job.
Snapshot(m) ==
  /\ lpc = "wait" /\ mu = "none"
  /\ lpc' = "lock" /\ listed' = InSessions /\ job' = m
  /\ UNCHANGED <<wire, mu, cpc, closer, spc>>

LockLoop ==
  /\ lpc = "lock" /\ mu = "none"
  /\ mu' = "loop" /\ lpc' = IF listed THEN "get" ELSE "unlock"
  /\ UNCHANGED <<wire, job, listed, cpc, closer, spc>>

\* Server.Push: Get, then the channel's Push; "channel no found" is ignored,
\* and so is the error of a closed channel.
GetChannel ==
  /\ lpc = "get" /\ lpc' = IF InMap THEN "push" ELSE "unlock"
  /\ UNCHANGED <<wire, job, listed, mu, cpc, closer, spc>>

StartPush ==
  /\ lpc = "push" /\ lpc' = "sending"
  /\ CheckOpen(Loop, job)
  /\ UNCHANGED <<job, listed, mu, cpc, closer, spc>>

PushRefused ==
  /\ lpc = "push" /\ closing \in {"fired", "done"} /\ lpc' = "unlock"
  /\ UNCHANGED <<wire, job, listed, mu, cpc, closer, spc>>

LoopSends ==
  /\ lpc = "sending"
  /\ \/ Send(Loop) /\ lpc' = "unlock"
     \/ SendPanics(Loop) /\ lpc' = lpc
  /\ UNCHANGED <<job, listed, mu, cpc, closer, spc>>

\* Mutant of UnlockLoop: c.mu is not released.
UnlockForgotten ==
  /\ lpc = "unlock" /\ lpc' = "wait"
  /\ UNCHANGED <<wire, job, listed, mu, cpc, closer, spc>>

UnlockLoop ==
  /\ lpc = "unlock" /\ lpc' = "wait" /\ mu' = "none"
  /\ UNCHANGED <<wire, job, listed, cpc, closer, spc>>

-----------------------------------------------------------------------------
(* The connection's goroutine in tcp Server.Start *)

AddChannel ==
  /\ cpc = "registered" /\ cpc' = "reading"
  /\ UNCHANGED <<wire, lpc, job, listed, mu, closer, spc>>

\* Mutant of EndReadloop: the channel is closed before Disconnect.
CloseFirst ==
  /\ cpc = "reading" /\ cpc' = "closing"
  /\ UNCHANGED <<wire, lpc, job, listed, mu, closer, spc>>

\* Readloop returned (OpClose, a read error or the read deadline): Remove.
EndReadloop ==
  /\ cpc = "reading" /\ cpc' = "removed"
  /\ UNCHANGED <<wire, lpc, job, listed, mu, closer, spc>>

\* Mutant of LockConn: c.mu is locked twice.
LockTwice ==
  /\ cpc = "removed" /\ mu = "none" /\ mu' = "conn"
  /\ UNCHANGED <<wire, lpc, job, listed, cpc, closer, spc>>

\* Disconnect: UnregisterSession, one critical section in two steps.
LockConn ==
  /\ cpc = "removed" /\ mu = "none"
  /\ mu' = "conn" /\ cpc' = "unregister"
  /\ UNCHANGED <<wire, lpc, job, listed, closer, spc>>

Unregister ==
  /\ cpc = "unregister" /\ mu' = "none" /\ cpc' = "closing"
  /\ UNCHANGED <<wire, lpc, job, listed, closer, spc>>

CloseChannel ==
  /\ cpc = "closing" /\ closer \in {"none", "conn"} /\ closing # "done"
  /\ CloseStep /\ closer' = "conn"
  /\ UNCHANGED <<lpc, job, listed, mu, cpc, spc>>

\* once.Do returns when whoever entered it first is through.
CloseReturns ==
  /\ cpc = "closing" /\ closing = "done" /\ cpc' = "ended"
  /\ UNCHANGED <<wire, lpc, job, listed, mu, closer, spc>>

\* Server.Shutdown copies the ChannelMap and closes what it found there, without
\* c.mu; the connection may end in between.
ShutdownSnapshot ==
  /\ MayShutdown /\ spc = "running" /\ spc' = IF InMap THEN "closing" ELSE "over"
  /\ UNCHANGED <<wire, lpc, job, listed, mu, cpc, closer>>

ShutdownCloses ==
  /\ spc = "closing" /\ closer \in {"none", "shutdown"} /\ closing # "done"
  /\ CloseStep /\ closer' = "shutdown"
  /\ UNCHANGED <<lpc, job, listed, mu, cpc, spc>>

-----------------------------------------------------------------------------
(* Receive goroutines exist once the connection is read, and may outlive it *)

RespondStep(p) ==
  /\ p # Loop /\ cpc # "registered"
  /\ \/ \E m \in Unused \ {job} : CheckOpen(p, m)
     \/ Send(p) \/ SendPanics(p)
  /\ UNCHANGED link

WriteloopStep == (WriterStep \/ WriteFails) /\ UNCHANGED link

LoopStep ==
  \/ (\E m \in Unused : Snapshot(m)) \/ LockLoop \/ GetChannel \/ StartPush
  \/ PushRefused \/ LoopSends \/ UnlockLoop

ConnEnds == LockConn \/ Unregister \/ CloseChannel \/ CloseReturns
ConnStep == AddChannel \/ EndReadloop \/ ConnEnds

Alive == ~ Panicked

ServerNext ==
  /\ Alive
  /\ \/ LoopStep \/ ConnStep \/ WriteloopStep
     \/ ShutdownSnapshot \/ ShutdownCloses
     \/ \E p \in Pusher : RespondStep(p)

\* Goroutines that can run do run, and sync.RWMutex does not starve a waiting
\* Lock, hence strong fairness for LockLoop and LockConn.  A Readloop need not
\* end: a client may stay for ever.
ServerFairness ==
  /\ WF_svars(Alive /\ LoopStep)
  /\ WF_svars(Alive /\ (AddChannel \/ ConnEnds))
  /\ SF_svars(Alive /\ LockLoop) /\ SF_svars(Alive /\ LockConn)
  /\ WF_svars(Alive /\ WriterStep /\ UNCHANGED link)
  /\ WF_svars(Alive /\ ShutdownCloses)
  /\ \A p \in Pusher \ {Loop} :
       WF_svars(Alive /\ (Send(p) \/ SendPanics(p)) /\ UNCHANGED link)

ServerSpec == ServerInit /\ [][ServerNext]_svars /\ ServerFairness

\* Clients that fail or fall silent: their Readloop ends by its read deadline.
ClientsLeaveSpec == ServerSpec /\ WF_svars(Alive /\ EndReadloop)

-----------------------------------------------------------------------------
(* Properties *)

\* The mutex that blocks Disconnect during a broadcast also protects it: the
\* channel leaves the ChannelMap before it is closed, and is closed only after
\* Disconnect had c.mu.  So broadcastJob sends on a closed writechan only if
\* Shutdown, which does not take c.mu, closed it.
PanicsOnlyInShutdown == push[Loop].pc = "panic" => closer = "shutdown"

\* A broadcast that has c.mu gives it back, unless the writeloop of a session
\* has failed: nothing else a connection or its responses do can hold it.
BlocksOnlyOnFailedWriter ==
  mu = "loop" ~> mu # "loop" \/ ~ Alive \/ wpc = "failed"

\* A connection whose Readloop has returned is unregistered and closed, under
\* the same condition.
ConnectionCloses ==
  cpc = "removed" ~> cpc = "ended" \/ ~ Alive \/ wpc = "failed"

\* A broadcast that has c.mu always gives it back.
BroadcastCompletes == mu = "loop" ~> mu # "loop" \/ ~ Alive
=============================================================================
