-------------------------------- MODULE Pool --------------------------------
(***************************************************************************)
(* The server and one of the pool's own clients, over one connection: the  *)
(* session logic of Coordinator composed with the client process of        *)
(* Client.  Coordinator alone lets clients send anything at any time; here *)
(* a submission is what Run computes from the last job it has read, and it *)
(* may be on its way, or with a Receive goroutine, while the next job is   *)
(* broadcast.                                                              *)
(*                                                                         *)
(* The connection stays up: frames keep their order in both directions and *)
(* none is lost.  Responses are only logged by Run and are left out.  The  *)
(* loss of the connection and the end of the client are the subject of     *)
(* Client, crashes of the server that of Coordinator.                      *)
(***************************************************************************)
EXTENDS Coordinator

CONSTANT Minute   \* the period of the client's minuteTicker

ASSUME PoolAssumption ==
  /\ Minute \in Nat /\ Minute > Second /\ Minute % Second = 0
  /\ MaxTime <= Minute /\ MaxCrash = 0
  /\ \E u \in User, c \in Chan : User = {u} /\ Chan = {c}

VARIABLES
  inbox, link, reader, held, errCh, rpc, kind, job, stamped, age, gap,
  phase, secTick, minTick, sig, opClose, exited,  \* as in Client
  up,       \* submissions on their way to the server
  drawn,    \* client nonces drawn: their number bounds the submissions sent
  crossed   \* since the session's last job, a submission for another job has met
            \* the session

Cl == INSTANCE Client WITH jobs <- draws, MaxJobs <- MaxDraw, MaxInbox <- MaxDraw

server == vars
clientRest == <<link, reader, held, errCh, rpc, kind, job, stamped, age, gap,
                phase, secTick, minTick, sig, opClose, exited>>
client == <<inbox, clientRest>>
wires == <<up, drawn, crossed>>
pvars == <<server, client, wires>>

TheUser == CHOOSE u \in User : TRUE
TheChan == CHOOSE c \in Chan : TRUE

PoolInit == Init /\ Cl!Init /\ up = <<>> /\ drawn = {} /\ crossed = FALSE

-----------------------------------------------------------------------------
(* Steps of both, and the frames between them *)

\* PushNonce with what Push, writeloop and TCP do to the job: it is on its way
\* to the client if the channel is in the map.
Announce ==
  /\ PushNonce(TheChan)
  /\ inbox' = IF conn[TheChan] = "open"
                THEN Append(inbox, jobID) ELSE inbox
  /\ crossed' = \E h \in Handler :
                  hs[h].pc \in {"adopt", "rate", "limit", "map", "make", "dup", "verify"}
  /\ UNCHANGED <<clientRest, up, drawn>>

\* cli.Send of what Run computed: the last job it has read, the result for that
\* job's nonce, and a new client nonce.
ToldNonce(j) ==
  IF j = Cl!NoJob THEN 0 ELSE (CHOOSE m \in known[TheUser] : m.job = j).nonce

\* rand.Read: client nonces do not repeat, and which one is drawn is irrelevant.
FreshNonce == CHOOSE n \in ClientNonce \ drawn : TRUE

Submit ==
  /\ Cl!Send /\ drawn # ClientNonce
  /\ drawn' = drawn \cup {FreshNonce}
  /\ up' = Append(up, [job |-> job, nonce |-> ToldNonce(job), cn |-> FreshNonce])
  /\ UNCHANGED <<server, crossed>>

\* Readloop reads the next frame and starts a Receive goroutine for it.
TakeFrame(h) ==
  /\ up # <<>> /\ Receive(h, TheChan, Head(up)) /\ up' = Tail(up)
  /\ UNCHANGED <<client, drawn, crossed>>

JobCheck(h) ==
  /\ CheckJob(h)
  /\ crossed' = (crossed \/ hs[h].sub.job # sess[hs[h].ch].job)
  /\ UNCHANGED <<client, up, drawn>>

\* Time passes for both; the client's tickers start when it has connected.
TimePasses ==
  /\ Tick
  /\ \/ ~ exited /\ Cl!Clock
     \/ (rpc = "connect" \/ exited) /\ UNCHANGED client
  /\ UNCHANGED wires

-----------------------------------------------------------------------------
(* Steps of one of them *)

ServerStep ==
  /\ \/ RestoreLatest \/ RestoreHistory \/ SaveJob
     \/ BroadcastSnapshot \/ BroadcastLock \/ PushJobID(TheChan)
     \/ BroadcastUnlock \/ TickerFires
     \/ link = "up" /\ RegisterSession(TheChan, TheUser)
     \/ RestoreUserState(TheChan) \/ AddChannel(TheChan)
     \/ \E h \in Handler :
          \/ Lookup(h) \/ AdoptHistory(h) \/ ReadClock(h) \/ RateCheck(h)
          \/ FindMap(h) \/ MakeMap(h) \/ DupCheck(h) \/ Verify(h) \/ RecordNonce(h)
          \/ StampSubmit(h) \/ SaveUsedNonce(h) \/ SaveUserState(h)
          \/ PublishEvent(h)
  /\ UNCHANGED <<client, wires>>

\* rotateJob draws a nonce; the client has no part in it.
Rotate == RotateJob /\ UNCHANGED <<client, wires>>

\* MinuteFires, which submits like SecondFires, is out of the clock's bound.
ClientStep ==
  /\ \/ Cl!Connect \/ Cl!ReadFrame \/ Cl!FrameReceived
     \/ Cl!SecondFires \/ Cl!Stamp
  /\ UNCHANGED <<server, wires>>

PoolNext ==
  \/ Announce \/ Rotate \/ ServerStep
  \/ \E h \in Handler : TakeFrame(h) \/ JobCheck(h)
  \/ ~ exited /\ (Submit \/ ClientStep)
  \/ TimePasses

PoolSpec == PoolInit /\ [][PoolNext]_pvars

-----------------------------------------------------------------------------
(* Properties *)

\* The jobs the client has or will read on this connection, oldest first.
Pending == <<job>> \o (IF held = Cl!NoJob THEN <<>> ELSE <<held>>) \o inbox

\* When a broadcast is over, a client that was told a job before has
\* the server's current job, or it is on its way behind the older ones; the
\* jobs it reads have increasing ids.
ClientUpToDate ==
  /\ \A i \in 1 .. Len(Pending) - 1 : Pending[i] < Pending[i + 1]
  /\ pc = "wait" /\ known[TheUser] # {} =>
       Pending[Len(Pending)] = jobID

\* What the client sends is never refused as a task that does not exist, however
\* late it reaches its Receive goroutine.
NeverUnknownTask ==
  [][\A h \in Handler : Lookup(h) \/ CheckJob(h) => hs'[h].pc # "idle"]_pvars

\* A result of the client is refused as invalid only if, since the session was
\* given its job, a submission for another job was judged on it (listener.go:58
\* then replaces the session's nonce); a client whose submissions do not cross
\* a broadcast is always judged with the nonce it was told, and the next
\* broadcast repairs what a crossing has spoilt.
InvalidOnlyIfCrossed ==
  [][\A h \in Handler : Verify(h) /\ hs'[h].pc = "idle" => crossed]_pvars

\* A result that the client computed for the session's current job, which no
\* broadcast overtook, is accepted as valid.
ResultNeverInvalid ==
  [][\A h \in Handler :
       Verify(h) /\ pc = "wait" /\ hs[h].sub.job = jobID => hs'[h].pc = "record"]_pvars
=============================================================================
