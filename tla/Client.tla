------------------------------- MODULE Client -------------------------------
(***************************************************************************)
(* The pool's client process: Run (app/client/client.go) with its reading  *)
(* goroutine and its two tickers, the connection it uses (tcp/client.go),  *)
(* and main with its signal goroutine (cmd/kupool-client/main.go).         *)
(*                                                                         *)
(* Time is kept as ages: phase drives the tickers, age is the time since   *)
(* lastSubmit, gap the time since a submission really went out.  Ages stop *)
(* at a minute, which no comparison in Run tells from later.  A job stands *)
(* for its id and its server nonce, which Run sets together.               *)
(***************************************************************************)
EXTENDS Naturals, Sequences

CONSTANTS
  Second, Minute,  \* the periods of ticker and minuteTicker, in clock steps
  MaxJobs,         \* bound: jobs the server sends
  MaxInbox         \* bound: frames on their way to the client

NoJob == 0
Reply == MaxJobs + 1   \* a response to a submission, a pong, or anything else

ASSUME ClientAssumption ==
  /\ Second \in Nat \ {0} /\ Minute \in Nat /\ Minute > Second /\ Minute % Second = 0
  /\ MaxJobs \in Nat /\ MaxInbox \in Nat \ {0}

VARIABLES
  inbox, jobs,        \* frames not yet read; jobs sent so far
  link,               \* the connection: "none", "up", "failed" or "closed"
  reader, held,       \* the reading goroutine, and the frame it hands over
  errCh,              \* errCh holds an error
  rpc, kind,          \* Run's position; what caused the submission
  job, stamped, age,  \* c.jobID with c.serverNonce; lastSubmit is set; its age
  gap,                \* time since the last submission was sent
  phase, secTick, minTick,  \* the tickers: position, and pending ticks
  sig,                \* the signal goroutine: "none", "cancelled" or "closed"
  opClose,            \* OpClose was sent
  exited              \* main has returned

net    == <<inbox, jobs, link>>
readG  == <<reader, held, errCh>>
run    == <<rpc, kind, job, stamped, age, gap>>
ticker == <<phase, secTick, minTick>>
proc   == <<sig, opClose, exited>>
vars   == <<net, readG, run, ticker, proc>>

Init ==
  /\ inbox = <<>> /\ jobs = 0 /\ link = "none"
  /\ reader = "read" /\ held = NoJob /\ errCh = FALSE
  /\ rpc = "connect" /\ kind = "none" /\ job = NoJob
  /\ stamped = FALSE /\ age = Minute /\ gap = Minute
  /\ phase = 0 /\ secTick = FALSE /\ minTick = FALSE
  /\ sig = "none" /\ opClose = FALSE /\ exited = FALSE

-----------------------------------------------------------------------------
(* Connect, and what the connection does *)

\* DialAndHandshake: the connection is made and the authorize request sent; no
\* answer is awaited, a refusal arrives later as OpClose.
DialAndHandshake == link' = "up"

\* main gives up when Connect returns an error.
Connect ==
  /\ rpc = "connect"
  /\ \/ DialAndHandshake /\ rpc' = "select" /\ UNCHANGED proc
     \/ exited' = TRUE /\ rpc' = "returned" /\ UNCHANGED <<link, sig, opClose>>
  /\ UNCHANGED <<inbox, jobs, readG, kind, job, stamped, age, gap, ticker>>

ServerSends ==
  /\ link = "up" /\ Len(inbox) < MaxInbox
  /\ \/ jobs < MaxJobs /\ jobs' = jobs + 1 /\ inbox' = Append(inbox, jobs + 1)
     \/ inbox' = Append(inbox, Reply) /\ UNCHANGED jobs
  /\ UNCHANGED <<link, readG, run, ticker, proc>>

LinkFails ==
  /\ link = "up" /\ link' = "failed"
  /\ UNCHANGED <<inbox, jobs, readG, run, ticker, proc>>

-----------------------------------------------------------------------------
(* The reading goroutine *)

ReadFrame ==
  /\ link # "none" /\ reader = "read" /\ inbox # <<>>
  /\ reader' = "give" /\ held' = Head(inbox) /\ inbox' = Tail(inbox)
  /\ UNCHANGED <<jobs, link, errCh, run, ticker, proc>>

\* Mutant of ReadError: the goroutine returns without telling Run.
ReadErrorSilent ==
  /\ reader = "read" /\ link # "none" /\ (link = "up" => inbox = <<>>)
  /\ reader' = "returned"
  /\ UNCHANGED <<held, errCh, net, run, ticker, proc>>

\* The connection is gone or closed, the server sent OpClose, or nothing was
\* read for ReadWait (heartbeat and deadline are the subject of Link).
ReadError ==
  /\ reader = "read" /\ link # "none" /\ (link = "up" => inbox = <<>>)
  /\ reader' = "returned" /\ errCh' = TRUE
  /\ UNCHANGED <<held, net, run, ticker, proc>>

-----------------------------------------------------------------------------
(* Run: one disjunct per case of its select *)

CtxDone ==
  /\ rpc = "select" /\ sig # "none" /\ rpc' = "returned"
  /\ UNCHANGED <<net, readG, kind, job, stamped, age, gap, ticker, proc>>

ErrReceived ==
  /\ rpc = "select" /\ errCh /\ rpc' = "returned" /\ errCh' = FALSE
  /\ UNCHANGED <<net, reader, held, kind, job, stamped, age, gap, ticker, proc>>

\* A job is submitted for at once; any other frame is only logged.
FrameReceived ==
  /\ rpc = "select" /\ reader = "give" /\ reader' = "read" /\ held' = NoJob
  /\ IF held = Reply
       THEN UNCHANGED <<job, rpc, kind>>
       ELSE job' = held /\ rpc' = "send" /\ kind' = "job"
  /\ UNCHANGED <<net, errCh, stamped, age, gap, ticker, proc>>

\* Mutant of SecondFires: submits before the first job as well.
SecondFiresEarly ==
  /\ rpc = "select" /\ secTick /\ secTick' = FALSE
  /\ IF stamped /\ age < Second
       THEN UNCHANGED <<rpc, kind>>
       ELSE rpc' = "send" /\ kind' = "timer"
  /\ UNCHANGED <<net, readG, job, stamped, age, gap, phase, minTick, proc>>

SecondFires ==
  /\ rpc = "select" /\ secTick /\ secTick' = FALSE
  /\ IF job = NoJob \/ (stamped /\ age < Second)
       THEN UNCHANGED <<rpc, kind>>
       ELSE rpc' = "send" /\ kind' = "timer"
  /\ UNCHANGED <<net, readG, job, stamped, age, gap, phase, minTick, proc>>

MinuteFires ==
  /\ rpc = "select" /\ minTick /\ minTick' = FALSE
  /\ IF job # NoJob /\ age >= Minute
       THEN rpc' = "send" /\ kind' = "timer"
       ELSE UNCHANGED <<rpc, kind>>
  /\ UNCHANGED <<net, readG, job, stamped, age, gap, phase, secTick, proc>>

\* cli.Send; its error is ignored.
Send ==
  /\ rpc = "send" /\ rpc' = "stamp"
  /\ gap' = IF link = "up" THEN 0 ELSE gap
  /\ UNCHANGED <<net, readG, kind, job, stamped, age, ticker, proc>>

\* Mutant of Stamp: lastSubmit is kept for a submission at a job's arrival.
StampTimerOnly ==
  /\ rpc = "stamp" /\ rpc' = "select" /\ kind' = "none"
  /\ IF kind = "timer" THEN stamped' = TRUE /\ age' = 0 ELSE UNCHANGED <<stamped, age>>
  /\ UNCHANGED <<net, readG, job, gap, ticker, proc>>

\* lastSubmit = time.Now(), some time after Send.
Stamp ==
  /\ rpc = "stamp" /\ rpc' = "select" /\ kind' = "none"
  /\ stamped' = TRUE /\ age' = 0
  /\ UNCHANGED <<net, readG, job, gap, ticker, proc>>

-----------------------------------------------------------------------------
(* main: the signal goroutine cancels ctx, then closes; main returns when  *)
(* Run has returned, whatever the goroutine is doing then.                 *)

Signal ==
  /\ sig = "none" /\ rpc # "connect" /\ sig' = "cancelled"
  /\ UNCHANGED <<net, readG, run, ticker, opClose, exited>>

Close ==
  /\ sig = "cancelled" /\ sig' = "closed"
  /\ opClose' = (link = "up")
  /\ link' = IF link = "up" THEN "closed" ELSE link
  /\ UNCHANGED <<inbox, jobs, readG, run, ticker, exited>>

Exit ==
  /\ rpc = "returned" /\ exited' = TRUE
  /\ UNCHANGED <<net, readG, run, ticker, sig, opClose>>

\* A clock step.  A ticker keeps one tick that nobody has taken.
Older(a) == IF a < Minute THEN a + 1 ELSE a

\* Mutant of Clock: timers that nobody resets, not tickers.
ClockOfTimers ==
  /\ rpc # "connect"
  /\ phase' = Older(phase)
  /\ secTick' = (secTick \/ (phase < Minute /\ phase' % Second = 0))
  /\ minTick' = (minTick \/ (phase < Minute /\ phase' = Minute))
  /\ age' = (IF stamped THEN Older(age) ELSE age) /\ gap' = Older(gap)
  /\ UNCHANGED <<net, readG, rpc, kind, job, stamped, proc>>

Clock ==
  /\ rpc # "connect"
  /\ phase' = (phase + 1) % Minute
  /\ secTick' = (secTick \/ phase' % Second = 0)
  /\ minTick' = (minTick \/ phase' = 0)
  /\ age' = (IF stamped THEN Older(age) ELSE age) /\ gap' = Older(gap)
  /\ UNCHANGED <<net, readG, rpc, kind, job, stamped, proc>>

-----------------------------------------------------------------------------

RunStep ==
  \/ CtxDone \/ ErrReceived \/ FrameReceived \/ SecondFires \/ MinuteFires
  \/ Send \/ Stamp

Next ==
  /\ ~ exited
  /\ \/ Connect \/ ServerSends \/ LinkFails \/ ReadFrame \/ ReadError
     \/ RunStep \/ Signal \/ Close \/ Exit \/ Clock

\* Goroutines that can run do run and time passes.  Among its ready cases,
\* select chooses at random, so none of them is passed over for ever: strong
\* fairness for each.  No frame, OpClose, failure or signal need ever come.
Fairness ==
  /\ WF_vars(~ exited /\ (ReadFrame \/ (link # "up" /\ ReadError)))
  /\ WF_vars(~ exited /\ Clock)
  /\ WF_vars(~ exited /\ (Send \/ Stamp)) /\ WF_vars(~ exited /\ Exit)
  /\ WF_vars(~ exited /\ Close)
  /\ SF_vars(~ exited /\ CtxDone) /\ SF_vars(~ exited /\ ErrReceived)
  /\ SF_vars(~ exited /\ FrameReceived)
  /\ SF_vars(~ exited /\ SecondFires) /\ SF_vars(~ exited /\ MinuteFires)

Spec == Init /\ [][Next]_vars /\ Fairness

-----------------------------------------------------------------------------
(* Properties *)

\* What the tickers submit is at least a second after the submission before,
\* whatever caused that one (lastSubmit is set after every Send).
TimerSpacing ==
  [][Send /\ kind = "timer" /\ link = "up" => gap >= Second]_vars

\* A connected client that knows a job goes on submitting, however many frames
\* arrive.
KeepsSubmitting ==
  (rpc = "select" /\ job # NoJob) ~> (rpc = "send" \/ exited)

\* A lost connection, or a signal, ends the process.
RunEnds == (link = "failed" \/ sig # "none") ~> exited

\* The client never submits more than once a second.
AtMostOncePerSecond == [][Send /\ link = "up" => gap >= Second]_vars

\* A client ended by a signal has sent OpClose, if its connection was up.
OpCloseSent == exited /\ sig # "none" /\ link = "up" => opClose
=============================================================================
