----------------------------- MODULE PoolProofs -----------------------------
(***************************************************************************)
(* Proofs about Pool: its server is the one of Coordinator, so what is     *)
(* proved there holds here; and what the pool's own client may rely on,    *)
(* whatever store calls fail and however its submissions cross broadcasts. *)
(***************************************************************************)
EXTENDS Pool, CoordinatorProofs

-----------------------------------------------------------------------------
(* The invariants *)

\* What the client was told; its connection is the only one.
told == known[TheUser]
toldJobs == {m.job : m \in told}

\* The client has a job it was told of, or none yet; so have the frames that it
\* will read.  It sends only when it has one.
ClientKnows ==
  /\ job \in JobId /\ (job # 0 => job \in toldJobs) /\ (rpc = "send" => job # 0)
  /\ IF reader = "give" THEN held \in JobId \ {0} /\ held \in toldJobs ELSE held = 0
  /\ inbox \in Seq(JobId \ {0}) /\ \A i \in DOMAIN inbox : inbox[i] \in toldJobs

\* A submission on its way or with a handler is for a job the client was told
\* of, with the result for the nonce it was told.
Result(s) == [job |-> s.job, nonce |-> s.nonce]

UpHonest ==
  /\ drawn \subseteq ClientNonce
  /\ up \in Seq([job : JobId, nonce : Nonce, cn : ClientNonce])
  /\ \A i \in DOMAIN up : Result(up[i]) \in told

HandlersHonest == \A h \in Handler : hs[h].pc \in Busy => Result(hs[h].sub) \in told

\* A connection in the map has its session; before that nobody is told or asks.
Connected ==
  /\ conn[TheChan] \in {"none", "registered", "restored", "open"}
  /\ conn[TheChan] # "none" => TheChan \in sessions
  /\ conn[TheChan] # "open" =>
       told = {} /\ \A h \in Handler : hs[h].pc \notin Busy

\* The jobs told have ids of their own, are in the history, and are older than
\* the job that is about to be told.
Ahead ==
  pc \in {"save", "snapshot", "lock"} \/ (pc = "push" /\ TheChan \in todo)

ToldOnce ==
  /\ \A m, n \in told : m.job = n.job => m.nonce = n.nonce
  /\ \A m \in told : 0 < m.job /\ m.job <= jobID /\ m.job \in DOMAIN history
  /\ Ahead => \A m \in told : m.job < jobID
  /\ pc \in {"latest", "history"} => told = {}
  /\ pc \in {"save", "snapshot", "lock", "push"} => jobID \in DOMAIN history

\* A broadcast reaches the session of a client that was told a job before.
Reached == pc = "lock" /\ told # {} => TheChan \in todo

ServerInv == Connected /\ ToldOnce /\ Reached
ClientsInv == ClientKnows /\ UpHonest /\ HandlersHonest

\* Pending, by its parts: what comes next, and what comes last.
Mine == IF held = 0 THEN job ELSE held
Newest == IF inbox = <<>> THEN Mine ELSE inbox[Len(inbox)]

InOrder ==
  /\ held # 0 => job < held
  /\ inbox # <<>> => Mine < inbox[1]
  /\ \A i \in 1 .. Len(inbox) - 1 : inbox[i] < inbox[i + 1]

Current ==
  pc = "wait" \/ (pc = "push" /\ TheChan \notin todo) => told = {} \/ Newest = jobID

OrderInv == InOrder /\ Current

\* Until a submission for another job meets the session, the session has the
\* nonce the client was told for its job, and so has every submission that
\* passed the job check.
Checked == {"adopt", "rate", "limit", "map", "make", "dup", "verify"}

SessionJob == cur = TheChan => sess[TheChan].job = jobID

SessionNonce ==
  cur = None /\ ~ crossed =>
    \A m \in told : m.job = sess[TheChan].job => m.nonce = sess[TheChan].nonce

CheckedNonce ==
  ~ crossed => \A h \in Handler : hs[h].pc \in Checked =>
                 hs[h].pc # "adopt" /\ hs[h].sub.nonce = sess[TheChan].nonce

CrossInv == SessionJob /\ SessionNonce /\ CheckedNonce

\* With SaveJob not failing, the jobs told are in job_history.
IssuedInv ==
  /\ \A m \in told : m.job \in DOMAIN jobHist
  /\ pc \in {"snapshot", "lock", "push"} => jobID \in DOMAIN jobHist
  /\ AcceptedJobIssued

-----------------------------------------------------------------------------
(* One user, one connection; what the steps do *)

\* Pool has one user and one connection.
LEMMA One ==
  User = {TheUser} /\ Chan = {TheChan} /\ TheChan # None
  BY PoolAssumption, ConstantsAssumption DEF TheUser, TheChan

\* The first element of a sequence and the rest.
LEMMA TakeFirst ==
  ASSUME NEW S, NEW s \in Seq(S), s # <<>>
  PROVE  /\ Len(s) \in Nat \ {0} /\ 1 \in DOMAIN s /\ Head(s) = s[1] /\ Head(s) \in S
         /\ Tail(s) \in Seq(S) /\ Len(Tail(s)) = Len(s) - 1
         /\ \A i \in DOMAIN Tail(s) : i + 1 \in DOMAIN s /\ Tail(s)[i] = s[i + 1]
  OBVIOUS

\* A sequence with one element more.
LEMMA AddLast ==
  ASSUME NEW S, NEW s \in Seq(S), NEW e \in S
  PROVE  /\ Append(s, e) \in Seq(S) /\ Len(Append(s, e)) = Len(s) + 1 /\ Len(s) \in Nat
         /\ \A i \in DOMAIN s : Append(s, e)[i] = s[i]
         /\ Append(s, e)[Len(s) + 1] = e
         /\ DOMAIN Append(s, e) = 1 .. Len(s) + 1 /\ DOMAIN s = 1 .. Len(s)
  OBVIOUS

\* Two sequences of numbers, one after the other.
LEMMA Concat ==
  ASSUME NEW s \in Seq(Nat), NEW t \in Seq(Nat)
  PROVE  /\ Len(s \o t) = Len(s) + Len(t) /\ Len(s) \in Nat /\ Len(t) \in Nat
         /\ \A i \in 1 .. Len(s) : (s \o t)[i] = s[i]
         /\ \A i \in 1 .. Len(t) : (s \o t)[Len(s) + i] = t[i]
<1>1. Len(s \o t) = Len(s) + Len(t) /\ Len(s) \in Nat /\ Len(t) \in Nat
  OBVIOUS
<1>2. \A i \in 1 .. Len(s) : (s \o t)[i] = s[i]
  OBVIOUS
<1>3. ASSUME NEW i \in 1 .. Len(t) PROVE (s \o t)[Len(s) + i] = t[i]
  <2>1. Len(s) + i \in 1 .. Len(s) + Len(t) /\ Len(s) + i > Len(s) /\ Len(s) + i - Len(s) = i
    BY <1>1
  <2> QED
    BY <2>1
<1> QED
  BY <1>1, <1>2, <1>3

\* A sequence of elements of S is one of elements of a larger set.
LEMMA Wider ==
  ASSUME NEW S, NEW T, S \subseteq T, NEW s \in Seq(S)
  PROVE  s \in Seq(T) /\ (s # <<>> => Len(s) \in DOMAIN s)
<1>1. Len(s) \in Nat /\ DOMAIN s = 1 .. Len(s) /\ \A i \in 1 .. Len(s) : s[i] \in T
  OBVIOUS
<1>2. s = [i \in 1 .. Len(s) |-> s[i]]
  OBVIOUS
<1>3. s \in Seq(T)
  BY <1>1, <1>2
<1>4. s # <<>> => Len(s) # 0
  OBVIOUS
<1> QED
  BY <1>1, <1>3, <1>4

\* A goroutine's steps other than the job check, as in ServerStep.
Work(h) ==
  \/ Lookup(h) \/ AdoptHistory(h) \/ ReadClock(h) \/ RateCheck(h)
  \/ FindMap(h) \/ MakeMap(h) \/ DupCheck(h) \/ Verify(h) \/ RecordNonce(h)
  \/ StampSubmit(h) \/ SaveUsedNonce(h) \/ SaveUserState(h)
  \/ PublishEvent(h)

\* What a step of handler h may do to the handlers: h returns, or it goes on
\* with its submission, not into the checks and not to "adopt".
GoesOn(h) ==
  /\ hs[h].pc \in Busy
  /\ \A g \in Handler \ {h} : hs'[g] = hs[g]
  /\ \/ hs'[h].pc = "idle"
     \/ /\ hs'[h].pc \in Busy \ {"adopt"} /\ hs'[h].sub = hs[h].sub
        /\ hs'[h].pc \in Checked => hs[h].pc \in Checked

\* Every step but the job check is of this kind.
LEMMA WorkGoesOn ==
  ASSUME TypeOK, NEW h \in Handler, Work(h)
  PROVE  GoesOn(h)
<1> USE DEF Busy, Checked
<1>1. CASE Return(h) /\ hs[h].pc \in Busy
  BY <1>1, ReturnFields DEF GoesOn
<1>2. ASSUME NEW step \in Busy \ {"adopt"}, Goto(h, step), hs[h].pc \in Busy,
             step \in Checked => hs[h].pc \in Checked
      PROVE  GoesOn(h)
  BY <1>2, GotoFields DEF GoesOn
<1>3. CASE Lookup(h) \/ AdoptHistory(h) \/ DupCheck(h) \/ Verify(h)
  BY <1>1, <1>2, <1>3 DEF Lookup, AdoptHistory, DupCheck, Verify
<1>4. CASE RecordNonce(h) \/ StampSubmit(h) \/ SaveUserState(h) \/ PublishEvent(h)
  BY <1>1, <1>2, <1>4 DEF RecordNonce, StampSubmit, SaveUserState, PublishEvent
<1>r. CASE ReadClock(h)
  <2>1. hs[h].pc = "rate"
    BY <1>r DEF ReadClock
  <2> QED
    BY <1>r, <2>1, ClockFields DEF GoesOn
<1>5. CASE RateCheck(h)
  BY <1>1, <1>2, <1>5 DEF RateCheck
<1>6. CASE FindMap(h)
  <2>1. hs[h].pc = "map"
    BY <1>6 DEF FindMap
  <2> QED
    BY <1>6, <2>1, FindFields DEF GoesOn
<1>7. CASE MakeMap(h)
  <2>1. hs[h].pc = "make"
    BY <1>7 DEF MakeMap
  <2> QED
    BY <1>7, <2>1, MakeFields DEF GoesOn
<1>8. CASE SaveUsedNonce(h)
  BY <1>8, Shapes DEF SaveUsedNonce, GoesOn, HandlerState
<1> QED
  BY <1>3, <1>4, <1>r, <1>5, <1>6, <1>7, <1>8 DEF Work

\* The session keeps its job; its nonce changes only at "adopt".
LEMMA WorkKeeps ==
  ASSUME TypeOK, NEW h \in Handler, Work(h)
  PROVE  /\ sess'[TheChan].job = sess[TheChan].job
         /\ hs[h].pc # "adopt" => sess'[TheChan].nonce = sess[TheChan].nonce
         /\ UNCHANGED <<loop, table, known, jobHist>>
         /\ UNCHANGED accepted \/ PublishEvent(h)
<1>1. /\ UNCHANGED <<loop, table, known, jobHist>>
      /\ UNCHANGED accepted \/ PublishEvent(h)
  BY DEF Work, store, Lookup, AdoptHistory, ReadClock, RateCheck, FindMap, MakeMap, DupCheck,
     Verify, RecordNonce, StampSubmit, SaveUsedNonce, SaveUserState, PublishEvent
<1>2. sess \in [Chan -> Session] /\ (hs[h].pc \in Busy => hs[h].ch = TheChan) /\ TheChan \in Chan
  BY Shapes, BusyHandler, One
<1>3. /\ sess'[TheChan].job = sess[TheChan].job
      /\ hs[h].pc # "adopt" => sess'[TheChan].nonce = sess[TheChan].nonce
  <2>1. CASE UNCHANGED sess
    BY <2>1
  <2>2. CASE AdoptHistory(h)
    BY <1>2, <2>2 DEF AdoptHistory, Session
  <2>3. CASE MakeMap(h)
    <3> DEFINE m == sess[hs[h].ch].maps[hs[h].sub.job] + 1
    <3>1. sess' = [sess EXCEPT ![hs[h].ch].maps[hs[h].sub.job] = m]
      BY <2>3 DEF MakeMap
    <3> HIDE DEF m
    <3> QED
      BY <1>2, <3>1 DEF Session
  <2>4. CASE RecordNonce(h) \/ StampSubmit(h)
    BY <1>2, <2>4 DEF RecordNonce, StampSubmit, Session
  <2> QED
    BY <2>1, <2>2, <2>3, <2>4 DEF Work, store, Lookup, ReadClock, RateCheck, FindMap, DupCheck,
       Verify, SaveUsedNonce, SaveUserState, PublishEvent
<1> QED
  BY <1>1, <1>3

\* The job check: the submission goes on, or returns; the rest of the server is
\* left alone.
LEMMA CheckDoes ==
  ASSUME TypeOK, NEW h \in Handler, CheckJob(h)
  PROVE  /\ hs[h].pc \in Busy /\ hs[h].ch = TheChan
         /\ \A g \in Handler \ {h} : hs'[g] = hs[g]
         /\ \/ hs'[h].pc = "idle"
            \/ hs'[h].pc \in {"rate", "adopt"} /\ hs'[h].sub = hs[h].sub
         /\ hs'[h].pc = "rate" => hs[h].sub.job = sess[TheChan].job
         /\ hs'[h].pc = "adopt" => hs[h].sub.job # sess[TheChan].job
         /\ hs'[h].pc = "idle" =>
              hs[h].sub.job # sess[TheChan].job /\ hs[h].sub.job \notin DOMAIN history
         /\ UNCHANGED <<env, store, loop, table, sess, known, accepted>>
<1>1. hs[h].pc \in Busy /\ UNCHANGED <<env, store, loop, table, sess, known, accepted>>
  BY DEF CheckJob, Busy
<1>2. hs[h].ch = TheChan
  BY <1>1, BusyHandler, One
<1>3. CASE hs[h].sub.job = sess[TheChan].job /\ Goto(h, "rate")
  BY <1>1, <1>2, <1>3, GotoFields
<1>4. CASE /\ hs[h].sub.job # sess[TheChan].job
           /\ hs' = [hs EXCEPT ![h].pc = "adopt", ![h].rec = history[hs[h].sub.job]]
  <2>1. /\ hs'[h].pc = "adopt" /\ hs'[h].sub = hs[h].sub
        /\ \A g \in Handler \ {h} : hs'[g] = hs[g]
    BY <1>4, Shapes DEF HandlerState
  <2> QED
    BY <1>1, <1>2, <1>4, <2>1
<1>5. CASE /\ hs[h].sub.job # sess[TheChan].job /\ hs[h].sub.job \notin DOMAIN history
           /\ Return(h)
  BY <1>1, <1>2, <1>5, ReturnFields
<1> QED
  BY <1>2, <1>3, <1>4, <1>5 DEF CheckJob

\* A broadcast tells the client the job if its channel is in the map.
LEMMA AnnounceDoes ==
  ASSUME TypeOK, Announce
  PROVE  /\ pc = "push" /\ cur = TheChan /\ TheChan \in todo
         /\ cur' = None /\ todo' = todo \ {TheChan}
         /\ sess'[TheChan].job = sess[TheChan].job /\ sess'[TheChan].nonce = serverNonce
         /\ IF conn[TheChan] = "open"
              THEN /\ told' = told \cup {[job |-> jobID, nonce |-> serverNonce]}
                   /\ inbox' = Append(inbox, jobID)
              ELSE told' = told /\ inbox' = inbox
         /\ UNCHANGED <<pc, jobID, serverNonce, history, store, table, hs, accepted>>
         /\ UNCHANGED <<clientRest, up, drawn>>
<1>1. /\ pc = "push" /\ cur = TheChan /\ cur' = None /\ todo' = todo \ {TheChan}
      /\ sess' = [sess EXCEPT ![TheChan].nonce = serverNonce]
      /\ UNCHANGED <<pc, jobID, serverNonce, history, store, table, hs, accepted>>
      /\ UNCHANGED <<clientRest, up, drawn>>
  BY DEF Announce, PushNonce
<1>2. TheChan \in todo
  BY <1>1, One DEF TypeOK, LoopOK
<1>3. sess'[TheChan].job = sess[TheChan].job /\ sess'[TheChan].nonce = serverNonce
  BY <1>1, One, Shapes DEF Session
<1>4. known \in [User -> SUBSET Job]
  BY DEF TypeOK, LogOK
<1>5. CASE conn[TheChan] = "open"
  <2>1. sess[TheChan].user = TheUser
    BY <1>5, One DEF TypeOK, UsersOK
  <2>2. known' = [known EXCEPT ![TheUser] = @ \cup {[job |-> jobID, nonce |-> serverNonce]}]
    BY <1>5, <2>1 DEF Announce, PushNonce
  <2>3. told' = told \cup {[job |-> jobID, nonce |-> serverNonce]}
    BY <1>4, <2>2, One DEF told
  <2> QED
    BY <1>1, <1>2, <1>3, <1>5, <2>3 DEF Announce
<1>6. CASE conn[TheChan] # "open"
  BY <1>1, <1>2, <1>3, <1>6 DEF Announce, PushNonce, told
<1> QED
  BY <1>5, <1>6

-----------------------------------------------------------------------------
(* The server of Pool is that of Coordinator *)

\* The steps of one side, by name.
LoopWork ==
  \/ RestoreLatest \/ RestoreHistory \/ SaveJob \/ BroadcastSnapshot
  \/ BroadcastLock \/ PushJobID(TheChan) \/ BroadcastUnlock \/ TickerFires

ConnWork ==
  RegisterSession(TheChan, TheUser) \/ RestoreUserState(TheChan) \/ AddChannel(TheChan)

ClientWork == Submit \/ ClientStep

\* A step of Pool is one of these, a step of both, or time.
LEMMA PoolSteps ==
  ASSUME PoolNext
  PROVE  \/ Announce
         \/ (LoopWork \/ RotateJob \/ ConnWork) /\ UNCHANGED <<client, wires>>
         \/ \E h \in Handler : Work(h) /\ UNCHANGED <<client, wires>>
         \/ \E h \in Handler : TakeFrame(h) \/ JobCheck(h)
         \/ ClientWork /\ UNCHANGED <<server, crossed>>
         \/ TimePasses
  BY DEF PoolNext, Rotate, ServerStep, LoopWork, ConnWork, Work, ClientWork, Submit,
     ClientStep, wires

\* What the client sends is among what Coordinator lets clients send.
LEMMA ServerStepsAllowed ==
  ASSUME TypeOK, UpHonest, PoolNext
  PROVE  [Next]_vars
<1> USE One
<1>1. CASE Announce
  BY <1>1 DEF Announce, Next, LoopStep
<1>2. CASE LoopWork \/ RotateJob
  BY <1>2 DEF LoopWork, Next, LoopStep
<1>3. CASE ConnWork
  BY <1>3 DEF ConnWork, Next, ConnStep
<1>4. ASSUME NEW h \in Handler, Work(h) PROVE Next
  BY <1>4 DEF Work, Next, HandlerStep
<1>5. ASSUME NEW h \in Handler, JobCheck(h) PROVE Next
  BY <1>5 DEF JobCheck, Next, HandlerStep
<1>6. ASSUME NEW h \in Handler, TakeFrame(h) PROVE Next
  <2>1. conn[TheChan] = "open" /\ Receive(h, TheChan, Head(up)) /\ up # <<>>
    BY <1>6 DEF TakeFrame, Receive
  <2>2. sess[TheChan].user = TheUser
    BY <2>1 DEF TypeOK, UsersOK
  <2>3. Head(up) \in [job : JobId, nonce : Nonce, cn : ClientNonce] /\ Result(Head(up)) \in told
    BY <2>1, TakeFirst DEF UpHonest
  <2>4. Head(up).nonce \in {m.nonce : m \in known[TheUser]}
    <3>1. [job |-> Head(up).job, nonce |-> Head(up).nonce] \in known[TheUser]
      BY <2>3 DEF Result, told
    <3> QED
      BY <3>1
  <2>5. Head(up) \in Submissions(sess[TheChan].user)
    BY <2>2, <2>3, <2>4 DEF Submissions
  <2> QED
    BY <2>1, <2>5 DEF Next, HandlerStep
<1>7. CASE TimePasses
  BY <1>7 DEF TimePasses, Next
<1> QED
  BY <1>1, <1>2, <1>3, <1>4, <1>5, <1>6, <1>7, PoolSteps DEF server

-----------------------------------------------------------------------------
(* What the client knows and sends *)

\* Only a broadcast tells the client anything, and nothing is taken back.
LEMMA ToldGrows ==
  ASSUME TypeOK, PoolNext
  PROVE  told \subseteq told' /\ (Announce \/ UNCHANGED known)
<1>1. CASE Announce
  BY <1>1, AnnounceDoes
<1>2. CASE ~ Announce
  <2>1. UNCHANGED known
    <3>1. CASE LoopWork \/ RotateJob \/ ConnWork
      BY <3>1 DEF LoopWork, ConnWork, RestoreLatest, RestoreHistory, SaveJob,
         BroadcastSnapshot, BroadcastLock, PushJobID, BroadcastUnlock, TickerFires,
         RotateJob, RegisterSession, RestoreUserState, AddChannel
    <3>2. ASSUME NEW h \in Handler, Work(h) \/ TakeFrame(h) \/ JobCheck(h)
          PROVE  UNCHANGED known
      BY <3>2, WorkKeeps DEF TakeFrame, Receive, JobCheck, CheckJob
    <3>3. CASE UNCHANGED server \/ TimePasses
      BY <3>3 DEF server, vars, TimePasses, Tick
    <3> QED
      BY <1>2, <3>1, <3>2, <3>3, PoolSteps
  <2> QED
    BY <2>1 DEF told
<1> QED
  BY <1>1, <1>2

\* The variables of the client that ClientKnows is about.
LEMMA ClientFrame ==
  ASSUME ClientKnows, told \subseteq told', UNCHANGED <<job, rpc, reader, held, inbox>>
  PROVE  ClientKnows'
  BY DEF ClientKnows, toldJobs

\* What a step of the client does to them.
LEMMA ClientDoes ==
  ASSUME ClientStep, ClientKnows
  PROVE  \/ UNCHANGED <<job, reader, held, inbox>> /\ (rpc' = "send" => job # 0)
         \/ /\ reader = "read" /\ inbox # <<>>
            /\ reader' = "give" /\ held' = Head(inbox) /\ inbox' = Tail(inbox)
            /\ UNCHANGED <<job, rpc>>
         \/ /\ reader = "give" /\ reader' = "read" /\ held' = 0 /\ job' = held
            /\ UNCHANGED inbox
<1> USE DEF Cl!net, Cl!readG, Cl!run, Cl!ticker, Cl!proc, Cl!NoJob
<1>1. CASE Cl!Connect \/ Cl!Stamp \/ Cl!SecondFires
  BY <1>1 DEF Cl!Connect, Cl!Stamp, Cl!SecondFires, ClientKnows
<1>2. CASE Cl!ReadFrame
  BY <1>2 DEF Cl!ReadFrame
<1>3. CASE Cl!FrameReceived
  <2>1. held # Cl!Reply
    BY <1>3, ConstantsAssumption DEF Cl!FrameReceived, ClientKnows, JobId, Cl!Reply
  <2> QED
    BY <1>3, <2>1 DEF Cl!FrameReceived
<1> QED
  BY <1>1, <1>2, <1>3 DEF ClientStep

\* A submission is for the job the client has, with the nonce it was told.
LEMMA SubmitDoes ==
  ASSUME TypeOK, ClientKnows, UpHonest, Submit
  PROVE  \E s \in [job : JobId, nonce : Nonce, cn : ClientNonce] :
           /\ Result(s) \in told /\ up' = Append(up, s) /\ drawn' \subseteq ClientNonce
           /\ UNCHANGED <<job, reader, held, inbox>> /\ rpc' = "stamp"
<1>1. /\ job # 0 /\ job \in JobId /\ job \in toldJobs /\ rpc' = "stamp"
      /\ UNCHANGED <<job, reader, held, inbox>>
  BY DEF Submit, Cl!Send, Cl!net, Cl!readG, ClientKnows
<1>2. FreshNonce \in ClientNonce
  BY DEF Submit, FreshNonce, UpHonest
<1>3. PICK m \in told : m.job = job /\ ToldNonce(job) = m.nonce
  BY <1>1 DEF ToldNonce, toldJobs, told, Cl!NoJob
<1>4. m \in Job
  BY One DEF told, TypeOK, LogOK
<1> DEFINE s == [job |-> job, nonce |-> ToldNonce(job), cn |-> FreshNonce]
<1>5. s \in [job : JobId, nonce : Nonce, cn : ClientNonce] /\ up' = Append(up, s)
  BY <1>1, <1>2, <1>3, <1>4 DEF Submit, Job
<1>6. Result(s) \in told
  <2>1. m = [job |-> m.job, nonce |-> m.nonce]
    BY <1>4 DEF Job
  <2> QED
    BY <1>3, <2>1 DEF Result
<1>7. drawn' \subseteq ClientNonce
  BY <1>2 DEF Submit, UpHonest
<1> QED
  BY <1>1, <1>5, <1>6, <1>7

\* The client knows only what it was told.
LEMMA ClientKnowsKept ==
  ASSUME TypeOK, ClientKnows, UpHonest, PoolNext
  PROVE  ClientKnows'
<1>0. told \subseteq told' /\ toldJobs \subseteq toldJobs'
  BY ToldGrows DEF toldJobs
<1>1. CASE Announce
  <2>1. CASE conn[TheChan] = "open"
    <3>1. /\ told' = told \cup {[job |-> jobID, nonce |-> serverNonce]}
          /\ inbox' = Append(inbox, jobID) /\ UNCHANGED <<job, rpc, reader, held>>
      BY <1>1, <2>1, AnnounceDoes DEF clientRest
    <3>2. jobID \in JobId \ {0}
      BY <1>1, AnnounceDoes, ConstantsAssumption DEF TypeOK, EnvOK, LoopOK, JobId
    <3>3. jobID \in toldJobs'
      BY <1>1, <3>1, AnnounceDoes DEF toldJobs
    <3>4. inbox' \in Seq(JobId \ {0}) /\ \A i \in DOMAIN inbox' : inbox'[i] \in toldJobs'
      <4>1. inbox \in Seq(JobId \ {0}) /\ \A i \in DOMAIN inbox : inbox[i] \in toldJobs'
        BY <1>0 DEF ClientKnows
      <4>2. /\ inbox' \in Seq(JobId \ {0})
            /\ \A i \in DOMAIN inbox' :
                 (i \in DOMAIN inbox /\ inbox'[i] = inbox[i]) \/ inbox'[i] = jobID
        BY <3>1, <3>2, <4>1, AddLast
      <4>3. UNCHANGED jobID
        BY <1>1, AnnounceDoes
      <4> QED
        BY <3>3, <4>1, <4>2, <4>3
    <3> QED
      BY <1>0, <3>1, <3>4 DEF ClientKnows
  <2>2. CASE conn[TheChan] # "open"
    BY <1>0, <1>1, <2>2, AnnounceDoes, ClientFrame DEF clientRest
  <2> QED
    BY <2>1, <2>2
<1>2. CASE ClientWork
  <2>1. CASE Submit
    BY <1>0, <2>1, SubmitDoes DEF ClientKnows
  <2>2. CASE ClientStep
    <3>1. CASE UNCHANGED <<job, reader, held, inbox>> /\ (rpc' = "send" => job # 0)
      BY <1>0, <3>1 DEF ClientKnows
    <3>2. CASE /\ reader = "read" /\ inbox # <<>>
               /\ reader' = "give" /\ held' = Head(inbox) /\ inbox' = Tail(inbox)
               /\ UNCHANGED <<job, rpc>>
      <4>1. inbox \in Seq(JobId \ {0}) /\ \A i \in DOMAIN inbox : inbox[i] \in toldJobs'
        BY <1>0 DEF ClientKnows
      <4>2. /\ held' \in JobId \ {0} /\ held' = inbox[1] /\ 1 \in DOMAIN inbox
            /\ inbox' \in Seq(JobId \ {0})
            /\ \A i \in DOMAIN inbox' : i + 1 \in DOMAIN inbox /\ inbox'[i] = inbox[i + 1]
        BY <3>2, <4>1, TakeFirst
      <4>3. held' \in toldJobs' /\ \A i \in DOMAIN inbox' : inbox'[i] \in toldJobs'
        BY <4>1, <4>2
      <4> QED
        BY <1>0, <3>2, <4>2, <4>3 DEF ClientKnows
    <3>3. CASE /\ reader = "give" /\ reader' = "read" /\ held' = 0 /\ job' = held
               /\ UNCHANGED inbox
      BY <1>0, <3>3 DEF ClientKnows
    <3> QED
      BY <2>2, <3>1, <3>2, <3>3, ClientDoes
  <2> QED
    BY <1>2, <2>1, <2>2 DEF ClientWork
<1>3. CASE UNCHANGED client \/ TimePasses
  <2>1. UNCHANGED <<job, rpc, reader, held, inbox>>
    BY <1>3 DEF client, clientRest, TimePasses, Cl!Clock, Cl!net, Cl!readG
  <2> QED
    BY <1>0, <2>1, ClientFrame
<1>4. ASSUME NEW h \in Handler, TakeFrame(h) \/ JobCheck(h) PROVE UNCHANGED client
  BY <1>4 DEF TakeFrame, JobCheck
<1> QED
  BY <1>1, <1>2, <1>3, <1>4, PoolSteps

\* What is on its way to the server is honest.
LEMMA UpHonestKept ==
  ASSUME TypeOK, ClientKnows, UpHonest, PoolNext
  PROVE  UpHonest'
<1> DEFINE S == [job : JobId, nonce : Nonce, cn : ClientNonce]
<1>0. told \subseteq told' /\ up \in Seq(S) /\ \A i \in DOMAIN up : Result(up[i]) \in told'
  BY ToldGrows DEF UpHonest
<1> HIDE DEF S
<1>1. CASE UNCHANGED <<up, drawn>>
  BY <1>0, <1>1 DEF UpHonest
<1>2. CASE Submit
  <2>1. PICK s \in S : Result(s) \in told /\ up' = Append(up, s) /\ drawn' \subseteq ClientNonce
    BY <1>2, SubmitDoes DEF S
  <2>2. /\ up' \in Seq(S)
        /\ \A i \in DOMAIN up' : (i \in DOMAIN up /\ up'[i] = up[i]) \/ up'[i] = s
    BY <1>0, <2>1, AddLast
  <2> QED
    BY <1>0, <2>1, <2>2 DEF UpHonest, S
<1>3. ASSUME NEW h \in Handler, TakeFrame(h) PROVE UpHonest'
  <2>1. up # <<>> /\ up' = Tail(up) /\ UNCHANGED drawn
    BY <1>3 DEF TakeFrame
  <2>2. /\ up' \in Seq(S)
        /\ \A i \in DOMAIN up' : i + 1 \in DOMAIN up /\ up'[i] = up[i + 1]
    BY <1>0, <2>1, TakeFirst
  <2> QED
    BY <1>0, <2>1, <2>2 DEF UpHonest, S
<1> QED
  BY <1>1, <1>2, <1>3, PoolSteps DEF Announce, wires, JobCheck, ClientWork, ClientStep, TimePasses

\* What the handlers have is honest.
LEMMA HandlersHonestKept ==
  ASSUME TypeOK, UpHonest, HandlersHonest, PoolNext
  PROVE  HandlersHonest'
<1>0. told \subseteq told' /\ \A h \in Handler : hs[h].pc \in Busy => Result(hs[h].sub) \in told'
  BY ToldGrows DEF HandlersHonest
<1>1. CASE UNCHANGED hs
  BY <1>0, <1>1 DEF HandlersHonest
<1>2. ASSUME NEW h \in Handler, Work(h) PROVE HandlersHonest'
  BY <1>0, <1>2, WorkGoesOn DEF GoesOn, HandlersHonest, Busy
<1>3. ASSUME NEW h \in Handler, JobCheck(h) PROVE HandlersHonest'
  BY <1>0, <1>3, CheckDoes DEF JobCheck, HandlersHonest, Busy
<1>4. ASSUME NEW h \in Handler, TakeFrame(h) PROVE HandlersHonest'
  <2>1. up # <<>> /\ Receive(h, TheChan, Head(up)) /\ TheChan \in Chan
    BY <1>4, One DEF TakeFrame
  <2>2. Result(Head(up)) \in told'
    BY <1>0, <2>1, TakeFirst DEF UpHonest
  <2>3. /\ hs'[h].sub = Head(up) /\ \A g \in Handler \ {h} : hs'[g] = hs[g]
    BY <2>1, ReceiveFields
  <2> QED
    BY <1>0, <2>2, <2>3 DEF HandlersHonest
<1>5. LoopWork \/ RotateJob \/ ConnWork \/ Announce \/ TimePasses => UNCHANGED hs
  BY DEF LoopWork, ConnWork, RestoreLatest, RestoreHistory, SaveJob, BroadcastSnapshot,
     BroadcastLock, PushJobID, BroadcastUnlock, TickerFires, RotateJob, RegisterSession,
     RestoreUserState, AddChannel, Announce, PushNonce, TimePasses, Tick
<1> QED
  BY <1>1, <1>2, <1>3, <1>4, <1>5, PoolSteps DEF server, vars

-----------------------------------------------------------------------------
(* What the server does with the one connection *)

\* The jobs told and the current one are numbers.
LEMMA Numbers ==
  ASSUME TypeOK
  PROVE  /\ jobID \in Nat /\ \A m \in told : m \in Job /\ m.job \in Nat
         /\ \A c : c \in Chan <=> c = TheChan
  BY One, ConstantsAssumption DEF TypeOK, LoopOK, EnvOK, LogOK, told, Job, JobId

\* Every step keeps the session of the connection in its place.
LEMMA ConnectedKept ==
  ASSUME TypeOK, Connected, PoolNext
  PROVE  Connected'
<1> USE One
<1>0. TheChan \in Chan /\ conn \in [Chan -> ConnPhase] /\ hs \in [Handler -> HandlerState]
  BY Shapes
<1>1. CASE UNCHANGED <<conn, sessions, known, hs>>
  BY <1>1 DEF Connected, told
<1>2. CASE RegisterSession(TheChan, TheUser)
  BY <1>0, <1>2 DEF RegisterSession, Connected, told
<1>3. CASE RestoreUserState(TheChan)
  BY <1>0, <1>3 DEF RestoreUserState, Connected, told
<1>4. CASE AddChannel(TheChan)
  BY <1>0, <1>4 DEF AddChannel, Connected, told
<1>5. ASSUME NEW h \in Handler, Work(h) PROVE Connected'
  BY <1>5, WorkGoesOn, WorkKeeps DEF GoesOn, table, Connected, told
<1>6. ASSUME NEW h \in Handler, JobCheck(h) PROVE Connected'
  BY <1>6, CheckDoes DEF JobCheck, table, Connected, told
<1>7. ASSUME NEW h \in Handler, TakeFrame(h) PROVE Connected'
  BY <1>7 DEF TakeFrame, Receive, table, Connected, told
<1>8. CASE Announce
  <2>1. conn[TheChan] # "open" => UNCHANGED told
    BY <1>8, AnnounceDoes
  <2>2. UNCHANGED <<conn, sessions, hs>>
    BY <1>8, AnnounceDoes DEF table
  <2> QED
    BY <2>1, <2>2 DEF Connected
<1>9. LoopWork \/ RotateJob \/ TimePasses => UNCHANGED <<conn, sessions, known, hs>>
  BY DEF LoopWork, RestoreLatest, RestoreHistory, SaveJob, BroadcastSnapshot,
     BroadcastLock, PushJobID, BroadcastUnlock, TickerFires, RotateJob, TimePasses, Tick,
     table
<1> QED
  BY <1>1, <1>2, <1>3, <1>4, <1>5, <1>6, <1>7, <1>8, <1>9, PoolSteps
     DEF server, vars, table, ConnWork

\* Steps of connections, handlers, the client and time leave the loop alone.
LEMMA OthersKeepLoop ==
  ASSUME TypeOK, PoolNext, ~ Announce, ~ LoopWork, ~ RotateJob
  PROVE  UNCHANGED <<loop, known, jobHist>>
<1>1. ConnWork \/ TimePasses \/ UNCHANGED server => UNCHANGED <<loop, known, jobHist>>
  BY DEF ConnWork, RegisterSession, RestoreUserState, AddChannel, TimePasses, Tick, server,
     vars, store
<1>2. ASSUME NEW h \in Handler, Work(h) \/ TakeFrame(h) \/ JobCheck(h)
      PROVE  UNCHANGED <<loop, known, jobHist>>
  BY <1>2, WorkKeeps, CheckDoes DEF TakeFrame, Receive, JobCheck, store
<1> QED
  BY <1>1, <1>2, PoolSteps

\* The loop tells jobs in the order of their ids, each once.
LEMMA ToldOnceKept ==
  ASSUME TypeOK, Connected, ToldOnce, PoolNext
  PROVE  ToldOnce'
<1>0. jobID \in Nat /\ \A m \in told : m \in Job /\ m.job \in Nat
  BY Numbers
<1>1. CASE UNCHANGED <<pc, jobID, history, todo, known>>
  BY <1>1 DEF ToldOnce, Ahead, told
<1>2. CASE RestoreLatest
  BY <1>2 DEF RestoreLatest, ToldOnce, Ahead, told
<1>3. CASE RestoreHistory
  BY <1>3 DEF RestoreHistory, ToldOnce, Ahead, told
<1>4. CASE RotateJob
  <2>1. /\ jobID' = jobID + 1 /\ pc = "rotate" /\ pc' = "save"
        /\ DOMAIN history' = DOMAIN history \cup {jobID + 1} /\ told' = told
    BY <1>4 DEF RotateJob, Put, told
  <2> QED
    BY <1>0, <2>1 DEF ToldOnce, Ahead
<1>5. CASE SaveJob \/ BroadcastSnapshot \/ BroadcastLock \/ BroadcastUnlock \/ TickerFires
  BY <1>0, <1>5 DEF SaveJob, BroadcastSnapshot, BroadcastLock, BroadcastUnlock, TickerFires,
     ToldOnce, Ahead, told
<1>6. CASE Announce
  <2>1. /\ pc = "push" /\ TheChan \in todo /\ UNCHANGED <<pc, jobID, history>>
        /\ todo' = todo \ {TheChan} /\ jobID > 0
        /\ told' = told \/ told' = told \cup {[job |-> jobID, nonce |-> serverNonce]}
    BY <1>6, AnnounceDoes DEF TypeOK, LoopOK
  <2>2. ~ Ahead' /\ pc' = "push" /\ \A m \in told : m.job < jobID
    BY <2>1 DEF Ahead, ToldOnce
  <2>3. CASE told' = told
    BY <2>1, <2>2, <2>3 DEF ToldOnce
  <2>4. CASE told' = told \cup {[job |-> jobID, nonce |-> serverNonce]}
    <3>1. \A m \in told' : m \in told \/ (m.job = jobID /\ m.nonce = serverNonce)
      BY <2>4
    <3>2. \A m, n \in told' : m.job = n.job => m.nonce = n.nonce
      BY <1>0, <2>2, <3>1 DEF ToldOnce
    <3>3. \A m \in told' : 0 < m.job /\ m.job <= jobID /\ m.job \in DOMAIN history
      BY <1>0, <2>1, <3>1 DEF ToldOnce
    <3> QED
      BY <2>1, <2>2, <3>2, <3>3 DEF ToldOnce
  <2> QED
    BY <2>1, <2>3, <2>4
<1>7. PushJobID(TheChan) => UNCHANGED <<pc, jobID, history, todo, known>>
  BY DEF PushJobID
<1> QED
  BY <1>1, <1>2, <1>3, <1>4, <1>5, <1>6, <1>7, OthersKeepLoop DEF loop, LoopWork

\* The snapshot of a broadcast has the session of a client that was told a job.
LEMMA ReachedKept ==
  ASSUME TypeOK, Connected, Reached, PoolNext
  PROVE  Reached'
<1>1. CASE UNCHANGED <<pc, todo, known>>
  BY <1>1 DEF Reached, told
<1>2. CASE LoopWork \/ RotateJob
  BY <1>2 DEF LoopWork, RotateJob, RestoreLatest, RestoreHistory, SaveJob, BroadcastSnapshot,
     BroadcastLock, PushJobID, BroadcastUnlock, TickerFires, Reached, Connected, told
<1>3. CASE Announce
  BY <1>3, AnnounceDoes DEF Reached
<1> QED
  BY <1>1, <1>2, <1>3, OthersKeepLoop DEF loop

PoolInv == TypeOK /\ ServerInv /\ ClientsInv

\* Pool keeps the types of Coordinator and what its two sides know.
LEMMA PoolInvariant == PoolSpec => []PoolInv
<1>1. PoolInit => PoolInv
  <2> SUFFICES ASSUME PoolInit PROVE PoolInv
    OBVIOUS
  <2>1. TypeOK
    BY InitTypes DEF PoolInit
  <2>2. known[TheUser] = {} /\ conn[TheChan] = "none" /\ pc = "latest"
    BY One DEF PoolInit, Init
  <2>3. ServerInv
    <3>1. \A h \in Handler : hs[h].pc = "idle"
      BY DEF PoolInit, Init, Idle
    <3> QED
      BY <2>2, <3>1 DEF ServerInv, Connected, ToldOnce, Ahead, Reached, told, Busy
  <2>4. ClientsInv
    <3>1. \A h \in Handler : hs[h].pc = "idle"
      BY DEF PoolInit, Init, Idle
    <3>2. /\ job = 0 /\ rpc = "connect" /\ reader = "read" /\ held = 0 /\ inbox = <<>>
          /\ up = <<>> /\ drawn = {} /\ 0 \in JobId
      BY ConstantsAssumption DEF PoolInit, Cl!Init, Cl!NoJob, JobId
    <3>3. <<>> \in Seq(JobId \ {0}) /\ <<>> \in Seq([job : JobId, nonce : Nonce, cn : ClientNonce])
          /\ DOMAIN <<>> = {}
      OBVIOUS
    <3> QED
      BY <3>1, <3>2, <3>3 DEF ClientsInv, ClientKnows, UpHonest, HandlersHonest, Busy
  <2> QED
    BY <2>1, <2>3, <2>4 DEF PoolInv
<1>2. PoolInv /\ [PoolNext]_pvars => PoolInv'
  <2>1. ASSUME PoolInv, PoolNext PROVE PoolInv'
    BY <2>1, ServerStepsAllowed, NextTypes, ConnectedKept, ToldOnceKept, ReachedKept,
       ClientKnowsKept, UpHonestKept, HandlersHonestKept DEF PoolInv, ServerInv, ClientsInv
  <2>2. ASSUME PoolInv, UNCHANGED pvars PROVE PoolInv'
    <3>1. UNCHANGED vars /\ TypeOK
      BY <2>2 DEF pvars, server, PoolInv
    <3>2. TypeOK'
      BY <3>1, NextTypes
    <3>3. ServerInv'
      BY <2>2, <3>1 DEF vars, loop, table, PoolInv, ServerInv, Connected, ToldOnce, Ahead,
         Reached, told
    <3>4. ClientsInv'
      BY <2>2 DEF pvars, server, vars, client, clientRest, wires, PoolInv, ClientsInv,
         ClientKnows, UpHonest, HandlersHonest, toldJobs, told
    <3> QED
      BY <3>2, <3>3, <3>4 DEF PoolInv
  <2> QED
    BY <2>1, <2>2
<1> QED
  BY <1>1, <1>2, PTL DEF PoolSpec

\* The server of Pool is the one of Coordinator: what the pool's client sends is
\* among what Coordinator lets any client send, so all that is proved about
\* Coordinator holds with this client.
THEOREM PoolImplementsCoordinator == PoolSpec => Spec
<1>1. PoolInit => Init
  BY DEF PoolInit
<1>2. PoolInv /\ [PoolNext]_pvars => [Next]_vars
  <2>1. ASSUME PoolInv, PoolNext PROVE [Next]_vars
    BY <2>1, ServerStepsAllowed DEF PoolInv, ClientsInv
  <2>2. ASSUME UNCHANGED pvars PROVE UNCHANGED vars
    BY <2>2 DEF pvars, server
  <2> QED
    BY <2>1, <2>2
<1> QED
  BY <1>1, <1>2, PoolInvariant, PTL DEF PoolSpec, Spec

-----------------------------------------------------------------------------
(* The client is up to date *)

\* The parts of Pending are numbers; a broadcast's job is newer than all of them.
LEMMA PendingParts ==
  ASSUME PoolInv
  PROVE  /\ job \in Nat /\ held \in Nat /\ Mine \in Nat /\ Newest \in Nat
         /\ inbox \in Seq(Nat) /\ (held = 0 <=> reader # "give")
         /\ Ahead => Newest < jobID
<1>1. /\ TypeOK /\ job \in JobId /\ held \in JobId /\ (held = 0 <=> reader # "give")
      /\ inbox \in Seq(JobId \ {0})
      /\ (job # 0 => job \in toldJobs) /\ (held # 0 => held \in toldJobs)
      /\ \A i \in DOMAIN inbox : inbox[i] \in toldJobs
  BY ConstantsAssumption DEF PoolInv, ClientsInv, ClientKnows, JobId
<1>2. JobId \subseteq Nat
  BY ConstantsAssumption DEF JobId
<1>3. inbox \in Seq(Nat) /\ (inbox # <<>> => Len(inbox) \in DOMAIN inbox)
  BY <1>1, <1>2, Wider
<1>4. Newest \in {job, held} \cup toldJobs /\ Newest \in Nat /\ Mine \in Nat
  BY <1>1, <1>2, <1>3 DEF Newest, Mine
<1>5. ASSUME Ahead PROVE Newest < jobID
  <2>1. jobID \in Nat /\ jobID > 0
    BY <1>1, <1>5, Numbers DEF Ahead, TypeOK, LoopOK
  <2>2. \A j \in toldJobs : j < jobID
    BY <1>5 DEF toldJobs, PoolInv, ServerInv, ToldOnce
  <2> QED
    BY <1>1, <1>4, <2>1, <2>2
<1> QED
  BY <1>1, <1>2, <1>3, <1>4, <1>5

\* OrderInv is ClientUpToDate, by parts.
LEMMA OrderIsUpToDate ==
  ASSUME PoolInv, OrderInv
  PROVE  ClientUpToDate
<1> DEFINE P == IF held = 0 THEN <<job>> ELSE <<job, held>>
           k == IF held = 0 THEN 1 ELSE 2
<1>1. /\ job \in Nat /\ held \in Nat /\ inbox \in Seq(Nat) /\ Len(inbox) \in Nat
      /\ (inbox = <<>> <=> Len(inbox) = 0) /\ DOMAIN inbox = 1 .. Len(inbox)
  BY PendingParts
<1>2. P \in Seq(Nat) /\ Len(P) = k /\ P[1] = job /\ P[k] = Mine
  BY <1>1 DEF Mine
<1>3. Pending = P \o inbox
  BY <1>1 DEF Pending, Cl!NoJob
<1>4. /\ Len(Pending) = k + Len(inbox)
      /\ \A i \in 1 .. k : Pending[i] = P[i]
      /\ \A i \in 1 .. Len(inbox) : Pending[k + i] = inbox[i]
  <2> HIDE DEF P
  <2>1. P \in Seq(Nat) /\ inbox \in Seq(Nat) /\ Len(P) = k
    BY <1>1, <1>2
  <2> DEFINE Q == P \o inbox
  <2>2. /\ Len(Q) = Len(P) + Len(inbox)
        /\ \A i \in 1 .. Len(P) : Q[i] = P[i]
        /\ \A i \in 1 .. Len(inbox) : Q[Len(P) + i] = inbox[i]
    BY <2>1, Concat, Zenon
  <2> HIDE DEF Q, k
  <2>3. Pending = Q
    BY <1>3 DEF Q
  <2> QED
    BY <2>1, <2>2, <2>3
<1>5. ASSUME NEW i \in 1 .. Len(Pending) - 1 PROVE Pending[i] < Pending[i + 1]
  <2>1. CASE i < k
    BY <1>1, <1>2, <1>4, <2>1 DEF OrderInv, InOrder, Mine
  <2>2. CASE i = k
    <3>1. Pending[i] = Mine /\ Pending[i + 1] = inbox[1] /\ inbox # <<>>
      BY <1>1, <1>2, <1>4, <2>2
    <3> QED
      BY <3>1 DEF OrderInv, InOrder
  <2>3. CASE i > k
    <3>1. /\ i - k \in 1 .. Len(inbox) - 1 /\ i - k \in 1 .. Len(inbox)
          /\ i - k + 1 \in 1 .. Len(inbox)
      BY <1>1, <1>4, <2>3
    <3>2. Pending[k + (i - k)] = inbox[i - k] /\ Pending[k + (i - k + 1)] = inbox[i - k + 1]
      BY <1>4, <3>1
    <3>3. k + (i - k) = i /\ k + (i - k + 1) = i + 1
      BY <1>1, <1>4
    <3>4. inbox[i - k] < inbox[i - k + 1]
      BY <3>1 DEF OrderInv, InOrder
    <3> QED
      BY <3>2, <3>3, <3>4
  <2> QED
    BY <1>1, <1>4, <2>1, <2>2, <2>3
<1>6. Pending[Len(Pending)] = Newest
  <2>1. CASE inbox = <<>>
    BY <1>1, <1>2, <1>4, <2>1 DEF Newest
  <2>2. CASE inbox # <<>>
    BY <1>1, <1>4, <2>2 DEF Newest
  <2> QED
    BY <2>1, <2>2
<1> QED
  BY <1>5, <1>6 DEF ClientUpToDate, OrderInv, Current, told

\* Reading keeps the order; a broadcast adds the newest job.
LEMMA OrderKept ==
  ASSUME PoolInv, OrderInv, PoolNext
  PROVE  OrderInv'
<1>0. /\ TypeOK /\ ClientKnows /\ Connected /\ Reached
      /\ job \in Nat /\ held \in Nat /\ Mine \in Nat /\ Newest \in Nat /\ inbox \in Seq(Nat)
      /\ (held = 0 <=> reader # "give") /\ jobID \in Nat
  BY PendingParts, Numbers DEF PoolInv, ClientsInv, ServerInv
<1>1. CASE UNCHANGED <<job, held, inbox>>
  <2>1. InOrder' /\ Newest' = Newest
    BY <1>1 DEF OrderInv, InOrder, Mine, Newest
  <2>2. Current'
    <3>1. CASE UNCHANGED <<pc, jobID, todo, known>>
      BY <2>1, <3>1 DEF OrderInv, Current, told
    <3>2. CASE LoopWork \/ RotateJob
      BY <1>0, <2>1, <3>2 DEF LoopWork, RotateJob, RestoreLatest, RestoreHistory, SaveJob,
         BroadcastSnapshot, BroadcastLock, PushJobID, BroadcastUnlock, TickerFires, Reached,
         OrderInv, Current, told
    <3>3. CASE Announce
      <4>1. CASE conn[TheChan] = "open"
        <5>1. inbox' = Append(inbox, jobID)
          BY <1>0, <3>3, <4>1, AnnounceDoes
        <5> QED
          BY <1>0, <1>1, <5>1, AddLast
      <4>2. CASE conn[TheChan] # "open"
        BY <1>0, <3>3, <4>2, AnnounceDoes DEF Connected, Current
      <4> QED
        BY <4>1, <4>2
    <3> QED
      BY <1>0, <3>1, <3>2, <3>3, OthersKeepLoop DEF loop
  <2> QED
    BY <2>1, <2>2 DEF OrderInv
<1>2. ASSUME Announce, conn[TheChan] = "open" PROVE OrderInv'
  <2>1. inbox' = Append(inbox, jobID) /\ UNCHANGED <<job, held, jobID, pc>>
    BY <1>0, <1>2, AnnounceDoes DEF clientRest
  <2>2. Newest < jobID
    <3>1. Ahead
      BY <1>0, <1>2, AnnounceDoes DEF Ahead
    <3> QED
      BY <3>1, PendingParts
  <2>3. /\ inbox' \in Seq(Nat) /\ Len(inbox') = Len(inbox) + 1 /\ Len(inbox) \in Nat
        /\ \A i \in 1 .. Len(inbox) : inbox'[i] = inbox[i]
        /\ inbox'[Len(inbox) + 1] = jobID
    BY <1>0, <2>1, AddLast
  <2>4. inbox = <<>> <=> Len(inbox) = 0
    BY <1>0
  <2>5. inbox' # <<>>
    BY <2>3
  <2>6. Newest' = jobID'
    BY <2>1, <2>3, <2>5 DEF Newest
  <2>7. InOrder'
    <3>1. Mine' < inbox'[1]
      BY <1>0, <2>1, <2>2, <2>3, <2>4 DEF OrderInv, InOrder, Mine, Newest
    <3>2. \A i \in 1 .. Len(inbox') - 1 : inbox'[i] < inbox'[i + 1]
      BY <1>0, <2>1, <2>2, <2>3, <2>4 DEF OrderInv, InOrder, Newest
    <3> QED
      BY <2>1, <3>1, <3>2 DEF OrderInv, InOrder
  <2> QED
    BY <2>6, <2>7 DEF OrderInv, Current
<1>3. ASSUME ClientStep PROVE OrderInv'
  <2>0. UNCHANGED <<pc, jobID, todo, known>>
    BY <1>3 DEF ClientStep, server, vars, loop
  <2>1. CASE UNCHANGED <<job, held, inbox>>
    BY <1>1, <2>1
  <2>2. CASE /\ held = 0 /\ inbox # <<>> /\ held' = Head(inbox) /\ inbox' = Tail(inbox)
             /\ Head(inbox) # 0 /\ UNCHANGED job
    <3>1. /\ Len(inbox) \in Nat \ {0} /\ held' = inbox[1] /\ Len(inbox') = Len(inbox) - 1
          /\ inbox' \in Seq(Nat) /\ \A i \in 1 .. Len(inbox') : inbox'[i] = inbox[i + 1]
      BY <1>0, <2>2, TakeFirst
    <3>2. inbox' = <<>> <=> Len(inbox') = 0
      BY <3>1
    <3>3. InOrder'
      BY <1>0, <2>2, <3>1, <3>2 DEF OrderInv, InOrder, Mine
    <3>4. Newest' = Newest
      BY <1>0, <2>2, <3>1, <3>2 DEF Newest, Mine
    <3> QED
      BY <2>0, <3>3, <3>4 DEF OrderInv, Current, told
  <2>3. CASE held # 0 /\ held' = 0 /\ job' = held /\ UNCHANGED inbox
    <3>1. InOrder' /\ Newest' = Newest
      BY <2>3 DEF OrderInv, InOrder, Mine, Newest
    <3> QED
      BY <2>0, <3>1 DEF OrderInv, Current, told
  <2>4. inbox # <<>> => Head(inbox) # 0
    <3>1. inbox \in Seq(JobId \ {0})
      BY <1>0 DEF ClientKnows
    <3> QED
      BY <3>1, TakeFirst
  <2> QED
    BY <1>0, <1>3, <2>1, <2>2, <2>3, <2>4, ClientDoes
<1>4. Announce /\ conn[TheChan] # "open" => UNCHANGED <<job, held, inbox>>
  BY <1>0, AnnounceDoes DEF clientRest
<1>5. \/ UNCHANGED client \/ TimePasses \/ Submit
      \/ \E h \in Handler : TakeFrame(h) \/ JobCheck(h)
      => UNCHANGED <<job, held, inbox>>
  BY DEF client, clientRest, TimePasses, Cl!Clock, Submit, Cl!Send, Cl!net, Cl!readG,
     TakeFrame, JobCheck
<1> QED
  BY <1>1, <1>2, <1>3, <1>4, <1>5, PoolSteps DEF ClientWork

\* When a broadcast is over, the client that was told a job before has the
\* server's current one or will read it behind older ones, in the order of ids,
\* whatever store calls fail.
THEOREM ClientIsUpToDate == PoolSpec => []ClientUpToDate
<1>1. PoolInit => OrderInv
  <2> SUFFICES ASSUME PoolInit PROVE OrderInv
    OBVIOUS
  <2>1. held = 0 /\ inbox = <<>> /\ pc = "latest"
    BY DEF PoolInit, Init, Cl!Init, Cl!NoJob
  <2>2. Len(<<>>) = 0
    OBVIOUS
  <2> QED
    BY <2>1, <2>2 DEF OrderInv, InOrder, Current
<1>2. PoolInv /\ OrderInv /\ [PoolNext]_pvars => OrderInv'
  <2>1. ASSUME OrderInv, UNCHANGED pvars PROVE OrderInv'
    BY <2>1 DEF pvars, server, vars, loop, client, clientRest, OrderInv, InOrder, Current,
       Mine, Newest, told
  <2> QED
    BY <2>1, OrderKept
<1>3. PoolInv /\ OrderInv => ClientUpToDate
  BY OrderIsUpToDate
<1> QED
  BY <1>1, <1>2, <1>3, PoolInvariant, PTL DEF PoolSpec

-----------------------------------------------------------------------------
(* What the client is answered *)

\* The submission of a busy handler, on the only connection there is.
LEMMA HandlerHas ==
  ASSUME PoolInv, NEW h \in Handler, hs[h].pc \in Busy
  PROVE  /\ TypeOK /\ hs[h].ch = TheChan /\ TheChan \in sessions
         /\ \E m \in told : m.job = hs[h].sub.job /\ m.nonce = hs[h].sub.nonce
         /\ hs[h].sub.job \in DOMAIN history
<1>1. TypeOK /\ hs[h].ch = TheChan
  BY BusyHandler, One DEF PoolInv
<1>2. conn[TheChan] = "open" /\ TheChan \in sessions
  BY DEF PoolInv, ServerInv, Connected
<1>3. Result(hs[h].sub) \in told
  BY DEF PoolInv, ClientsInv, HandlersHonest
<1>4. Result(hs[h].sub).job = hs[h].sub.job /\ Result(hs[h].sub).nonce = hs[h].sub.nonce
  BY DEF Result
<1> QED
  BY <1>1, <1>2, <1>3, <1>4 DEF PoolInv, ServerInv, ToldOnce

\* The pool's client is never told that a task does not exist: neither lookup of
\* handleSubmit fails for what it sends, however late a submission is judged and
\* whatever store calls fail.
THEOREM ClientTasksKnown == PoolSpec => NeverUnknownTask
<1>1. ASSUME PoolInv, NEW h \in Handler, Lookup(h) \/ CheckJob(h) PROVE hs'[h].pc # "idle"
  <2>1. hs[h].pc \in Busy
    BY <1>1 DEF Lookup, CheckJob, Busy
  <2>2. /\ TypeOK /\ hs[h].ch = TheChan /\ TheChan \in sessions
        /\ hs[h].sub.job \in DOMAIN history
    BY <1>1, <2>1, HandlerHas
  <2>3. CASE Lookup(h)
    BY <2>2, <2>3, GotoFields DEF Lookup
  <2>4. CASE CheckJob(h)
    BY <2>2, <2>4, CheckDoes
  <2> QED
    BY <1>1, <2>3, <2>4
<1>2. PoolInv => \A h \in Handler : Lookup(h) \/ CheckJob(h) => hs'[h].pc # "idle"
  BY <1>1
<1> QED
  BY <1>2, PoolInvariant, PTL DEF NeverUnknownTask

\* The loop between the two writes of a session is in its push, with the session
\* still to do.
LEMMA HalfPushed ==
  ASSUME TypeOK, cur = TheChan
  PROVE  pc = "push" /\ TheChan \in todo /\ Ahead /\ ~ MuFree
  BY One DEF TypeOK, LoopOK, Ahead, MuFree

\* Until a submission crosses a broadcast, session and submissions agree.
LEMMA CrossKept ==
  ASSUME PoolInv, CrossInv, PoolNext
  PROVE  CrossInv'
<1>0. TypeOK /\ Connected /\ ToldOnce /\ TheChan \in Chan /\ sess \in [Chan -> Session]
  BY One, Shapes DEF PoolInv, ServerInv
<1>1. CASE UNCHANGED <<cur, jobID, sess, known, hs, crossed>>
  BY <1>1 DEF CrossInv, SessionJob, SessionNonce, CheckedNonce, told
<1>2. CASE Announce
  <2>1. /\ cur' = None /\ UNCHANGED <<hs, jobID>> /\ cur = TheChan
        /\ sess'[TheChan].job = sess[TheChan].job /\ sess'[TheChan].nonce = serverNonce
    BY <1>0, <1>2, AnnounceDoes
  <2>2. SessionJob' /\ sess[TheChan].job = jobID
    BY <2>1, One DEF CrossInv, SessionJob
  <2>3. \A m \in told' : m.job = sess[TheChan].job => m.nonce = serverNonce
    <3>1. CASE conn[TheChan] = "open"
      <4>1. told' = told \cup {[job |-> jobID, nonce |-> serverNonce]}
        BY <1>0, <1>2, <3>1, AnnounceDoes
      <4>2. \A m \in told : m.job < jobID /\ m.job \in Nat /\ jobID \in Nat
        BY <1>0, <2>1, HalfPushed, Numbers DEF ToldOnce
      <4> QED
        BY <2>2, <4>1, <4>2
    <3>2. CASE conn[TheChan] # "open"
      BY <1>0, <1>2, <3>2, AnnounceDoes DEF Connected
    <3> QED
      BY <3>1, <3>2
  <2>4. SessionNonce'
    BY <2>1, <2>3 DEF SessionNonce
  <2>5. crossed' = \E h \in Handler : hs[h].pc \in Checked
    BY <1>2 DEF Announce, Checked
  <2>6. CheckedNonce'
    BY <2>1, <2>5 DEF CheckedNonce
  <2> QED
    BY <2>2, <2>4, <2>6 DEF CrossInv
<1>3. ASSUME PushJobID(TheChan), UNCHANGED crossed PROVE CrossInv'
  <2>1. /\ cur' = TheChan /\ UNCHANGED <<jobID, hs>>
        /\ sess'[TheChan].job = jobID /\ sess'[TheChan].nonce = sess[TheChan].nonce
    BY <1>0, <1>3 DEF PushJobID, Session
  <2> QED
    BY <1>3, <2>1, One DEF CrossInv, SessionJob, SessionNonce, CheckedNonce
<1>4. ASSUME LoopWork \/ RotateJob, ~ PushJobID(TheChan), UNCHANGED crossed PROVE CrossInv'
  <2>1. /\ UNCHANGED <<cur, sess, known, hs>>
        /\ UNCHANGED jobID \/ pc \in {"latest", "rotate"}
    BY <1>4 DEF LoopWork, RestoreLatest, RestoreHistory, SaveJob, BroadcastSnapshot,
       BroadcastLock, BroadcastUnlock, TickerFires, RotateJob
  <2>2. cur = TheChan => UNCHANGED jobID
    BY <1>0, <2>1, HalfPushed
  <2> QED
    BY <1>4, <2>1, <2>2 DEF CrossInv, SessionJob, SessionNonce, CheckedNonce, told
<1>5. ASSUME ConnWork, UNCHANGED crossed PROVE CrossInv'
  <2>1. /\ conn[TheChan] # "open" /\ UNCHANGED <<cur, jobID, known, hs>>
        /\ UNCHANGED sess \/ MuFree
    BY <1>5 DEF ConnWork, RegisterSession, RestoreUserState, AddChannel, loop
  <2>2. told' = {} /\ \A h \in Handler : hs[h].pc \notin Busy
    BY <1>0, <2>1 DEF Connected, told
  <2>3. cur = TheChan => UNCHANGED sess
    BY <1>0, <2>1, HalfPushed
  <2> QED
    BY <2>1, <2>2, <2>3 DEF CrossInv, SessionJob, SessionNonce, CheckedNonce, Checked, Busy
<1>6. ASSUME NEW h \in Handler, Work(h), UNCHANGED crossed PROVE CrossInv'
  <2>1. /\ sess'[TheChan].job = sess[TheChan].job
        /\ hs[h].pc # "adopt" => sess'[TheChan].nonce = sess[TheChan].nonce
        /\ UNCHANGED <<cur, jobID, known>>
    BY <1>0, <1>6, WorkKeeps DEF loop
  <2>2. GoesOn(h)
    BY <1>0, <1>6, WorkGoesOn
  <2>3. ~ crossed => hs[h].pc # "adopt"
    BY DEF CrossInv, CheckedNonce, Checked
  <2>4. SessionJob' /\ SessionNonce'
    BY <1>6, <2>1, <2>3 DEF CrossInv, SessionJob, SessionNonce, told
  <2>5. CheckedNonce'
    <3> SUFFICES ASSUME ~ crossed', NEW g \in Handler, hs'[g].pc \in Checked
                 PROVE  hs'[g].pc # "adopt" /\ hs'[g].sub.nonce = sess'[TheChan].nonce
      BY DEF CheckedNonce
    <3>1. ~ crossed /\ sess'[TheChan].nonce = sess[TheChan].nonce
      BY <1>6, <2>1, <2>3
    <3>2. CASE g = h
      <4>1. hs'[h].pc # "idle"
        BY <3>2 DEF Checked
      <4> QED
        BY <2>2, <3>1, <3>2, <4>1 DEF GoesOn, CrossInv, CheckedNonce
    <3>3. CASE g # h
      BY <2>2, <3>1, <3>3 DEF GoesOn, CrossInv, CheckedNonce
    <3> QED
      BY <3>2, <3>3
  <2> QED
    BY <2>4, <2>5 DEF CrossInv
<1>7. ASSUME NEW h \in Handler, TakeFrame(h) PROVE CrossInv'
  <2>1. Receive(h, TheChan, Head(up)) /\ UNCHANGED <<cur, jobID, sess, known, crossed>>
    BY <1>7 DEF TakeFrame, Receive, loop
  <2>2. hs'[h].pc = "lookup" /\ \A g \in Handler \ {h} : hs'[g] = hs[g]
    BY <1>0, <2>1, ReceiveFields
  <2> QED
    BY <2>1, <2>2 DEF CrossInv, SessionJob, SessionNonce, CheckedNonce, Checked, told
<1>8. ASSUME NEW h \in Handler, JobCheck(h) PROVE CrossInv'
  <2>1. CheckJob(h) /\ crossed' = (crossed \/ hs[h].sub.job # sess[hs[h].ch].job)
    BY <1>8 DEF JobCheck
  <2>2. /\ hs[h].ch = TheChan /\ UNCHANGED <<cur, jobID, sess, known>> /\ hs[h].pc \in Busy
        /\ \A g \in Handler \ {h} : hs'[g] = hs[g]
    BY <1>0, <2>1, CheckDoes DEF loop
  <2>3. SessionJob' /\ SessionNonce'
    BY <2>1, <2>2 DEF CrossInv, SessionJob, SessionNonce, told
  <2>4. ASSUME ~ crossed', hs'[h].pc \in Checked
        PROVE  hs'[h].pc # "adopt" /\ hs'[h].sub.nonce = sess'[TheChan].nonce
    <3>1. ~ crossed /\ hs[h].sub.job = sess[TheChan].job
      BY <2>1, <2>2, <2>4
    <3>2. hs'[h].pc = "rate" /\ hs'[h].sub = hs[h].sub
      BY <1>0, <2>1, <2>4, <3>1, CheckDoes DEF Checked
    <3>3. PICK m \in told : m.job = hs[h].sub.job /\ m.nonce = hs[h].sub.nonce
      BY <2>2, HandlerHas
    <3>4. cur = None
      <4>1. cur = TheChan => m.job < jobID /\ m.job = jobID
        BY <1>0, <3>1, <3>3, HalfPushed DEF ToldOnce, CrossInv, SessionJob
      <4>2. cur \in {None, TheChan}
        BY <1>0, One DEF TypeOK, LoopOK
      <4> QED
        BY <1>0, <4>1, <4>2, Numbers
    <3> QED
      BY <2>2, <3>1, <3>2, <3>3, <3>4 DEF CrossInv, SessionNonce
  <2>5. CheckedNonce'
    BY <2>1, <2>2, <2>4 DEF CrossInv, CheckedNonce
  <2> QED
    BY <2>3, <2>5 DEF CrossInv
<1>9. TimePasses => UNCHANGED <<cur, jobID, sess, known, hs, crossed>>
  BY DEF TimePasses, Tick, loop, wires
<1> QED
  BY <1>1, <1>2, <1>3, <1>4, <1>5, <1>6, <1>7, <1>8, <1>9, PoolSteps
     DEF wires, server, vars, loop

\* A result of the pool's client is refused as invalid only after a submission
\* of its own has crossed a broadcast.
THEOREM ClientResultsValid == PoolSpec => InvalidOnlyIfCrossed
<1>1. PoolInit => CrossInv
  <2> SUFFICES ASSUME PoolInit PROVE CrossInv
    OBVIOUS
  <2>1. /\ cur = None /\ known[TheUser] = {} /\ \A h \in Handler : hs[h].pc = "idle"
    BY One DEF PoolInit, Init, Idle
  <2> QED
    BY <2>1, One DEF CrossInv, SessionJob, SessionNonce, CheckedNonce, Checked, told
<1>2. PoolInv /\ CrossInv /\ [PoolNext]_pvars => CrossInv'
  <2>1. ASSUME CrossInv, UNCHANGED pvars PROVE CrossInv'
    BY <2>1 DEF pvars, server, vars, loop, wires, CrossInv, SessionJob, SessionNonce,
       CheckedNonce, told
  <2> QED
    BY <2>1, CrossKept
<1>3. PoolInv /\ CrossInv => \A h \in Handler : Verify(h) /\ hs'[h].pc = "idle" => crossed
  <2> SUFFICES ASSUME PoolInv, CrossInv, NEW h \in Handler, Verify(h), hs'[h].pc = "idle"
               PROVE  crossed
    OBVIOUS
  <2>1. hs[h].pc \in Busy /\ hs[h].pc \in Checked
    BY DEF Verify, Busy, Checked
  <2>2. TypeOK /\ hs[h].ch = TheChan
    BY <2>1, HandlerHas
  <2>3. sess[TheChan].nonce # hs[h].sub.nonce
    BY <2>2, GotoFields DEF Verify
  <2> QED
    BY <2>1, <2>3 DEF CrossInv, CheckedNonce
<1> QED
  BY <1>1, <1>2, <1>3, PoolInvariant, PTL DEF PoolSpec, InvalidOnlyIfCrossed

-----------------------------------------------------------------------------
(* What is accepted *)

\* The jobs told are in job_history, and so are those accepted.
LEMMA IssuedKept ==
  ASSUME "SaveJob" \notin Faults, PoolInv, IssuedInv, PoolNext
  PROVE  IssuedInv'
<1>0. TypeOK
  BY DEF PoolInv
<1>1. DOMAIN jobHist \subseteq DOMAIN jobHist'
  <2>1. CASE SaveJob
    BY <2>1 DEF SaveJob, Put
  <2>2. CASE ~ SaveJob
    <3>1. LoopWork \/ RotateJob \/ Announce => UNCHANGED jobHist
      BY <2>2 DEF LoopWork, RestoreLatest, RestoreHistory, BroadcastSnapshot,
         BroadcastLock, PushJobID, BroadcastUnlock, TickerFires, RotateJob, Announce,
         PushNonce, store
    <3> QED
      BY <1>0, <3>1, OthersKeepLoop
  <2> QED
    BY <2>1, <2>2
<1>2. CASE UNCHANGED <<pc, jobID, known, accepted>>
  BY <1>1, <1>2 DEF IssuedInv, AcceptedJobIssued, told
<1>3. CASE LoopWork \/ RotateJob
  <2>1. UNCHANGED <<known, accepted>>
    BY <1>3 DEF LoopWork, RestoreLatest, RestoreHistory, SaveJob, BroadcastSnapshot,
       BroadcastLock, PushJobID, BroadcastUnlock, TickerFires, RotateJob
  <2>2. pc' \in {"snapshot", "lock", "push"} => jobID' \in DOMAIN jobHist'
    BY <1>1, <1>3 DEF LoopWork, RestoreLatest, RestoreHistory, SaveJob, BroadcastSnapshot,
       BroadcastLock, PushJobID, BroadcastUnlock, TickerFires, RotateJob, Put, IssuedInv
  <2> QED
    BY <1>1, <2>1, <2>2 DEF IssuedInv, AcceptedJobIssued, told
<1>4. CASE Announce
  <2>1. /\ pc = "push" /\ UNCHANGED <<pc, jobID, accepted>>
        /\ told' = told \/ told' = told \cup {[job |-> jobID, nonce |-> serverNonce]}
    BY <1>0, <1>4, AnnounceDoes
  <2> QED
    BY <1>1, <2>1 DEF IssuedInv, AcceptedJobIssued
<1>5. ASSUME NEW h \in Handler, Work(h) PROVE IssuedInv'
  <2>1. UNCHANGED <<pc, jobID, known>> /\ (UNCHANGED accepted \/ PublishEvent(h))
    BY <1>0, <1>5, WorkKeeps DEF loop
  <2>2. CASE PublishEvent(h)
    <3>1. hs[h].pc \in Busy /\ accepted' = Append(accepted, EventOf(h))
      BY <2>2 DEF PublishEvent, Busy, EventOf
    <3>2. EventOf(h).job \in DOMAIN jobHist
      BY <3>1, HandlerHas DEF EventOf, IssuedInv
    <3>3. \A i \in DOMAIN accepted' :
            (i \in DOMAIN accepted /\ accepted'[i] = accepted[i]) \/ accepted'[i] = EventOf(h)
      BY <1>0, <3>1, Shapes, AppendEntry
    <3> QED
      BY <1>1, <2>1, <3>2, <3>3 DEF IssuedInv, AcceptedJobIssued, told
  <2> QED
    BY <1>2, <2>1, <2>2
<1>6. ConnWork \/ TimePasses \/ UNCHANGED server => UNCHANGED <<pc, jobID, known, accepted>>
  BY DEF ConnWork, RegisterSession, RestoreUserState, AddChannel, TimePasses, Tick, server,
     vars, loop
<1>7. ASSUME NEW h \in Handler, TakeFrame(h) \/ JobCheck(h)
      PROVE  UNCHANGED <<pc, jobID, known, accepted>>
  BY <1>0, <1>7, CheckDoes DEF TakeFrame, Receive, JobCheck, loop
<1> QED
  BY <1>2, <1>3, <1>4, <1>5, <1>6, <1>7, PoolSteps

\* With SaveJob not failing, what is accepted from the pool's client is for a job
\* that was issued and is in job_history; a client that sends what it likes may
\* have job 0 accepted.
THEOREM ClientJobsIssued ==
  ASSUME "SaveJob" \notin Faults
  PROVE  PoolSpec => []AcceptedJobIssued
<1>1. PoolInit => IssuedInv
  <2> SUFFICES ASSUME PoolInit PROVE IssuedInv
    OBVIOUS
  <2>1. known[TheUser] = {} /\ pc = "latest" /\ accepted = <<>>
    BY One DEF PoolInit, Init
  <2> QED
    BY <2>1 DEF IssuedInv, AcceptedJobIssued, told
<1>2. PoolInv /\ IssuedInv /\ [PoolNext]_pvars => IssuedInv'
  <2>1. ASSUME IssuedInv, UNCHANGED pvars PROVE IssuedInv'
    BY <2>1 DEF pvars, server, vars, loop, store, IssuedInv, AcceptedJobIssued, told
  <2> QED
    BY <2>1, IssuedKept
<1>3. IssuedInv => AcceptedJobIssued
  BY DEF IssuedInv
<1> QED
  BY <1>1, <1>2, <1>3, PoolInvariant, PTL DEF PoolSpec
=============================================================================
