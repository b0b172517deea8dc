---------------------------- MODULE Coordinator ----------------------------
(***************************************************************************)
(* The pool server's session and job logic: the Coordinator's broadcast    *)
(* loop (app/server/coordinator.go), the Acceptor that opens sessions      *)
(* (acceptor.go), the Listener whose handleSubmit judges submissions       *)
(* (listener.go), and the StateStore they persist to (stats/pg.go).        *)
(*                                                                         *)
(* Goroutines: one broadcast loop, one acceptor per connection, and one    *)
(* handler per received frame (channel.go:145 starts `go lst.Receive').    *)
(* handleSubmit takes the mutex only to look the session up; every later   *)
(* access to the session and to the history is unlocked, so each of them   *)
(* is a step of its own here.  What Go may do on such a race is one of:    *)
(* the old value, the new value (the interleavings below) or a fatal       *)
(* runtime error, which for a torn string or a map race ends the process   *)
(* (the action Crash).                                                     *)
(*                                                                         *)
(* Abstractions.  A server nonce is the number of the random draw that     *)
(* produced it (16 random bytes do not repeat), 0 is the empty string.  A  *)
(* result is the server nonce that was hashed with the client nonce (SHA-  *)
(* 256 is taken as injective), BadNonce is any other digest.  Time is a    *)
(* counter; 0 is Go's zero time.                                           *)
(***************************************************************************)
EXTENDS Integers, FiniteSets, Sequences

CONSTANTS
  User, Chan,       \* user names; connection (channel) identifiers
  Handler,          \* goroutines available to run Receive
  ClientNonce,      \* client nonces
  Second,           \* one second, in clock ticks: the submission rate limit
  ExpireAfter,      \* Coordinator.expireAfter, 0 = disabled
  HistoryWindow,    \* Coordinator.historyWindow
  Faults,           \* the StateStore calls that may return an error
  Serial,           \* one connection and one request in flight per user
  MaxDraw,          \* bound: random server nonces drawn
  MaxTime,          \* bound: the clock
  MaxCrash          \* bound: crashes of the server process

None == "none"
StoreCall == {"LoadLatestJob", "LoadJobHistory", "SaveJob", "LoadUserState",
              "SaveUsedNonce", "SaveUserState"}
BadNonce == -1

ASSUME ConstantsAssumption ==
  /\ Second \in Nat \ {0} /\ ExpireAfter \in Nat /\ HistoryWindow \in Nat
  /\ Faults \subseteq StoreCall /\ Serial \in BOOLEAN
  /\ MaxDraw \in Nat /\ MaxTime \in Nat \ {0} /\ MaxCrash \in Nat
  /\ None \notin Chan /\ None \notin ClientNonce

VARIABLES
  now, draws, crashes,
  \* StateStore: tables job_history, user_state and used_nonce
  jobHist, userStates, usedNonces,
  \* Coordinator: position of the loop goroutine, fields, and the locals of
  \* broadcastJob (sessions still to update, session half updated)
  pc, jobID, serverNonce, history, todo, cur,
  \* sessions map, the Session objects, and each connection's progress
  sessions, sess, conn,
  \* the Receive goroutines
  hs,
  \* what each user's clients were told; the SubmitEvents published
  known, accepted

store == <<jobHist, userStates, usedNonces>>
loop  == <<pc, jobID, serverNonce, history, todo, cur>>
table == <<sessions, conn>>
env   == <<now, draws, crashes>>
vars  == <<env, store, loop, table, sess, hs, known, accepted>>

-----------------------------------------------------------------------------
(* Data types *)

JobId     == 0 .. MaxDraw      \* 0 is the zero value of the jobID fields
Nonce     == 0 .. MaxDraw
Time      == 0 .. MaxTime
JobRecord == [nonce : Nonce, at : Time]
\* UsedNonces is a map of maps.  maps[j] counts the inner maps made for job j
\* (0: none; two racing handlers may each make one, the later one stays), and
\* used holds <<job, which of its maps, client nonce>>.
Session   == [user : User \cup {None}, job : JobId, nonce : Nonce, last : Time,
              maps : [JobId -> Nat], used : SUBSET (JobId \X Nat \X ClientNonce)]
UserState == [job : JobId, nonce : Nonce, last : Time]
Job       == [job : JobId, nonce : Nonce]
Submission == [job : JobId, nonce : Nonce \cup {BadNonce},
               cn : ClientNonce \cup {None}]

LoopPc == {"latest", "history", "rotate", "save", "snapshot", "lock", "push",
           "wait", "stopped"}
ConnPhase == {"none", "registered", "restored", "open", "removed", "gone"}
\* Where a Receive goroutine is; "idle": it has returned, or is not started.
Busy == {"lookup", "check", "adopt", "rate", "limit", "map", "make", "dup",
         "verify", "record", "stamp", "saveNonce", "saveState", "publish"}
HandlerState == [pc : Busy \cup {"idle"}, ch : Chan \cup {None},
                 sub : Submission, rec : JobRecord, at : Time, m : Nat, job : JobId]
Event == [user : User \cup {None}, ch : Chan, job : JobId, cn : ClientNonce,
          nonce : Nonce \cup {BadNonce}, at : Time]

ZeroSession == [user |-> None, job |-> 0, nonce |-> 0, last |-> 0,
                maps |-> [j \in JobId |-> 0], used |-> {}]
ZeroState   == [job |-> 0, nonce |-> 0, last |-> 0]
ZeroRecord  == [nonce |-> 0, at |-> 0]
Idle == [pc |-> "idle", ch |-> None,
         sub |-> [job |-> 0, nonce |-> 0, cn |-> None],
         rec |-> ZeroRecord, at |-> 0, m |-> 0, job |-> 0]

Put(f, k, v) == [x \in DOMAIN f \cup {k} |-> IF x = k THEN v ELSE f[x]]

\* c.mu: broadcastJob keeps it across all its session updates; every other
\* critical section is one step.
MuFree == pc # "push"

Init ==
  /\ now = 1 /\ draws = 0 /\ crashes = 0
  /\ jobHist = [j \in {} |-> ZeroRecord]
  /\ userStates = [u \in User |-> ZeroState] /\ usedNonces = {}
  /\ pc = "latest" /\ jobID = 0 /\ serverNonce = 0
  /\ history = [j \in {} |-> ZeroRecord] /\ todo = {} /\ cur = None
  /\ sessions = {} /\ sess = [c \in Chan |-> ZeroSession]
  /\ conn = [c \in Chan |-> "none"]
  /\ hs = [h \in Handler |-> Idle]
  /\ known = [u \in User |-> {}] /\ accepted = <<>>

-----------------------------------------------------------------------------
(* The broadcast loop: loop, run, restore, rotateJob, broadcastJob *)

\* Mutant of RestoreLatest: the rows are ordered the wrong way round.
RestoreOldest ==
  /\ pc = "latest" /\ pc' = "history"
  /\ \/ \E j \in DOMAIN jobHist :
          /\ \A k \in DOMAIN jobHist : j <= k
          /\ jobID' = j /\ serverNonce' = jobHist[j].nonce
          /\ history' = Put(history, j, jobHist[j])
     \/ DOMAIN jobHist = {} /\ UNCHANGED <<jobID, serverNonce, history>>
  /\ UNCHANGED <<todo, cur, env, store, table, sess, hs, known, accepted>>

\* LoadLatestJob: the row of job_history with the highest job id, if any.
LatestRow == {j \in DOMAIN jobHist : \A k \in DOMAIN jobHist : k <= j}

\* restore, first half.
RestoreLatest ==
  /\ pc = "latest" /\ pc' = "history"
  /\ \/ \E j \in LatestRow :
          /\ jobID' = j /\ serverNonce' = jobHist[j].nonce
          /\ history' = Put(history, j, jobHist[j])
     \/ /\ DOMAIN jobHist = {} \/ "LoadLatestJob" \in Faults
        /\ UNCHANGED <<jobID, serverNonce, history>>
  /\ UNCHANGED <<todo, cur, env, store, table, sess, hs, known, accepted>>

\* LoadJobHistory(since): since > 0 filters, since = 0 loads every row.
LoadJobHistory ==
  {j \in DOMAIN jobHist : HistoryWindow > 0 => jobHist[j].at >= now - HistoryWindow}

\* Mutant of RestoreHistory: the rows loaded replace the history.
RestoreReplaces ==
  /\ pc = "history" /\ pc' = "rotate"
  /\ history' = [j \in LoadJobHistory |-> jobHist[j]]
  /\ UNCHANGED <<jobID, serverNonce, todo, cur, env, store, table, sess, hs,
                 known, accepted>>

RestoreHistory ==
  /\ pc = "history" /\ pc' = "rotate"
  /\ \/ history' = [j \in DOMAIN history \cup LoadJobHistory |->
                      IF j \in LoadJobHistory THEN jobHist[j] ELSE history[j]]
     \/ "LoadJobHistory" \in Faults /\ UNCHANGED history
  /\ UNCHANGED <<jobID, serverNonce, todo, cur, env, store, table, sess, hs,
                 known, accepted>>

\* Mutants of RotateJob: the job is broadcast without being saved; the job id
\* is not incremented; the history keeps only the new job.
RotateForgets ==
  /\ pc = "rotate" /\ pc' = "save"
  /\ draws < MaxDraw /\ draws' = draws + 1
  /\ jobID' = jobID + 1 /\ serverNonce' = draws + 1
  /\ history' = [j \in {jobID + 1} |-> [nonce |-> draws + 1, at |-> now]]
  /\ UNCHANGED <<now, crashes, todo, cur, store, table, sess, hs, known, accepted>>

RotateWithoutSave ==
  /\ pc = "rotate" /\ pc' = "snapshot"
  /\ draws < MaxDraw /\ draws' = draws + 1
  /\ jobID' = jobID + 1 /\ serverNonce' = draws + 1
  /\ history' = Put(history, jobID + 1, [nonce |-> draws + 1, at |-> now])
  /\ UNCHANGED <<now, crashes, todo, cur, store, table, sess, hs, known, accepted>>

RotateSameId ==
  /\ pc = "rotate" /\ pc' = "save"
  /\ draws < MaxDraw /\ draws' = draws + 1
  /\ serverNonce' = draws + 1
  /\ history' = Put(history, jobID, [nonce |-> draws + 1, at |-> now])
  /\ UNCHANGED <<now, crashes, jobID, todo, cur, store, table, sess, hs, known,
                 accepted>>

RotateJob ==
  /\ pc = "rotate" /\ pc' = "save"
  /\ draws < MaxDraw /\ draws' = draws + 1
  /\ jobID' = jobID + 1 /\ serverNonce' = draws + 1
  /\ history' = Put(history, jobID + 1, [nonce |-> draws + 1, at |-> now])
  /\ UNCHANGED <<now, crashes, todo, cur, store, table, sess, hs, known, accepted>>

\* SaveJob inserts and keeps an existing row (OnConflict DoNothing); rotateJob
\* ignores its error.
SaveJob ==
  /\ pc = "save" /\ pc' = "snapshot"
  /\ \/ IF jobID \in DOMAIN jobHist
          THEN UNCHANGED jobHist
          ELSE jobHist' = Put(jobHist, jobID, [nonce |-> serverNonce, at |-> now])
     \/ "SaveJob" \in Faults /\ UNCHANGED jobHist
  /\ UNCHANGED <<jobID, serverNonce, history, todo, cur, env, userStates,
                 usedNonces, table, sess, hs, known, accepted>>

\* Mutant of BroadcastSnapshot: sessions with a request in progress are left out.
SnapshotIdle ==
  /\ pc = "snapshot" /\ pc' = "lock"
  /\ todo' = {c \in sessions : \A h \in Handler : hs[h].ch # c}
  /\ UNCHANGED <<jobID, serverNonce, history, cur, env, store, table, sess, hs,
                 known, accepted>>

\* broadcastJob under RLock.  Only this goroutine writes jobID and serverNonce,
\* so the copies it takes of them stay equal to the fields.
BroadcastSnapshot ==
  /\ pc = "snapshot" /\ pc' = "lock"
  /\ todo' = sessions
  /\ UNCHANGED <<jobID, serverNonce, history, cur, env, store, table, sess, hs,
                 known, accepted>>

BroadcastLock ==
  /\ pc = "lock" /\ pc' = "push"
  /\ UNCHANGED <<jobID, serverNonce, history, todo, cur, env, store, table,
                 sess, hs, known, accepted>>

PushJobID(c) ==
  /\ pc = "push" /\ cur = None /\ c \in todo
  /\ sess' = [sess EXCEPT ![c].job = jobID]
  /\ cur' = c
  /\ UNCHANGED <<pc, jobID, serverNonce, history, todo, env, store, table, hs,
                 known, accepted>>

\* Mutant of PushNonce: the session keeps its old nonce.
PushOldNonce(c) ==
  /\ pc = "push" /\ cur = c
  /\ known' = IF conn[c] = "open"
                THEN [known EXCEPT ![sess[c].user] =
                        @ \cup {[job |-> jobID, nonce |-> serverNonce]}]
                ELSE known
  /\ todo' = todo \ {c} /\ cur' = None
  /\ UNCHANGED <<pc, jobID, serverNonce, history, env, store, table, sess, hs, accepted>>

\* The nonce is stored, then srv.Push delivers the job if the channel is in
\* the ChannelMap ("channel no found" is ignored).
PushNonce(c) ==
  /\ pc = "push" /\ cur = c
  /\ sess' = [sess EXCEPT ![c].nonce = serverNonce]
  /\ known' = IF conn[c] = "open"
                THEN [known EXCEPT ![sess[c].user] =
                        @ \cup {[job |-> jobID, nonce |-> serverNonce]}]
                ELSE known
  /\ todo' = todo \ {c} /\ cur' = None
  /\ UNCHANGED <<pc, jobID, serverNonce, history, env, store, table, hs, accepted>>

BroadcastUnlock ==
  /\ pc = "push" /\ todo = {} /\ pc' = "wait"
  /\ UNCHANGED <<jobID, serverNonce, history, todo, cur, env, store, table,
                 sess, hs, known, accepted>>

\* The select of loop: a tick starts the next run, stopCh ends the goroutine.
TickerFires ==
  /\ pc = "wait" /\ pc' = "rotate"
  /\ UNCHANGED <<jobID, serverNonce, history, todo, cur, env, store, table,
                 sess, hs, known, accepted>>

StopLoop ==
  /\ pc = "wait" /\ pc' = "stopped"
  /\ UNCHANGED <<jobID, serverNonce, history, todo, cur, env, store, table,
                 sess, hs, known, accepted>>

-----------------------------------------------------------------------------
(* Connections: Acceptor.Accept, tcp Server.Start, State.Disconnect *)

\* Under Serial a user reconnects only when the server has let go of the
\* user's earlier connection and of the request sent on it.
MayConnect(u) ==
  Serial => \A d \in Chan : sess[d].user = u =>
              conn[d] = "gone" /\ \A h \in Handler : hs[h].ch # d

\* A first frame that is late, not OpBinary, not an authorize request with id
\* and parameters, or without user name: the connection is closed.
RefuseConnection(c) ==
  /\ conn[c] = "none" /\ conn' = [conn EXCEPT ![c] = "gone"]
  /\ UNCHANGED <<sessions, env, store, loop, sess, hs, known, accepted>>

\* Mutant of RegisterSession: the username is not kept.
RegisterNameless(c, u) ==
  /\ conn[c] = "none" /\ MayConnect(u) /\ MuFree
  /\ conn' = [conn EXCEPT ![c] = "registered"]
  /\ sessions' = sessions \cup {c}
  /\ sess' = [sess EXCEPT ![c] = ZeroSession]
  /\ UNCHANGED <<env, store, loop, hs, known, accepted>>

RegisterSession(c, u) ==
  /\ conn[c] = "none" /\ MayConnect(u) /\ MuFree
  /\ conn' = [conn EXCEPT ![c] = "registered"]
  /\ sessions' = sessions \cup {c}
  /\ sess' = [sess EXCEPT ![c] = [ZeroSession EXCEPT !.user = u]]
  /\ UNCHANGED <<env, store, loop, hs, known, accepted>>

\* Mutant of RestoreUserState: LastSubmitAt is not restored.
RestoreWithoutLast(c) ==
  /\ conn[c] = "registered" /\ MuFree
  /\ conn' = [conn EXCEPT ![c] = "restored"]
  /\ LET st == userStates[sess[c].user] IN
       sess' = [sess EXCEPT ![c].job = st.job, ![c].nonce = st.nonce]
  /\ UNCHANGED <<sessions, env, store, loop, hs, known, accepted>>

\* LoadUserState and the three assignments, in one critical section.  A user
\* without a row gets zero values and no error.
RestoreUserState(c) ==
  /\ conn[c] = "registered" /\ MuFree
  /\ conn' = [conn EXCEPT ![c] = "restored"]
  /\ \/ LET st == userStates[sess[c].user] IN
          sess' = [sess EXCEPT ![c].job = st.job, ![c].nonce = st.nonce,
                               ![c].last = st.last]
     \/ "LoadUserState" \in Faults /\ UNCHANGED sess
  /\ UNCHANGED <<sessions, env, store, loop, hs, known, accepted>>

\* Accept has answered; Start puts the channel in the ChannelMap and reads.
AddChannel(c) ==
  /\ conn[c] = "restored" /\ conn' = [conn EXCEPT ![c] = "open"]
  /\ UNCHANGED <<sessions, env, store, loop, sess, hs, known, accepted>>

\* Readloop has returned: Remove, then Disconnect, then Close.
RemoveChannel(c) ==
  /\ conn[c] = "open" /\ conn' = [conn EXCEPT ![c] = "removed"]
  /\ UNCHANGED <<sessions, env, store, loop, sess, hs, known, accepted>>

UnregisterSession(c) ==
  /\ conn[c] = "removed" /\ MuFree
  /\ conn' = [conn EXCEPT ![c] = "gone"]
  /\ sessions' = sessions \ {c}
  /\ UNCHANGED <<env, store, loop, sess, hs, known, accepted>>

-----------------------------------------------------------------------------
(* Listener.Receive and handleSubmit, one goroutine h per frame *)

\* What clients send: any job id, with the result for a server nonce they were
\* told or for the empty one (a client's serverNonce before the first job), or
\* a digest of something else.
Submissions(u) ==
  [job : JobId, nonce : {m.nonce : m \in known[u]} \cup {0, BadNonce},
   cn : ClientNonce]

\* Frames that do not decode, or are not a submit with id, change no state.
Receive(h, c, s) ==
  /\ conn[c] = "open" /\ hs[h].pc = "idle"
  /\ Serial => \A g \in Handler : hs[g].ch # c
  /\ hs' = [hs EXCEPT ![h] = [Idle EXCEPT !.pc = "lookup", !.ch = c, !.sub = s]]
  /\ UNCHANGED <<env, store, loop, table, sess, known, accepted>>

\* A goroutine ends in Return: the response is pushed and nothing is kept.
Goto(h, step) == hs' = [hs EXCEPT ![h].pc = step]
Return(h)     == hs' = [hs EXCEPT ![h] = Idle]

Lookup(h) ==
  /\ hs[h].pc = "lookup" /\ MuFree
  /\ \/ hs[h].ch \in sessions /\ Goto(h, "check")
     \/ hs[h].ch \notin sessions /\ Return(h)   \* Task does not exist
  /\ UNCHANGED <<env, store, loop, table, sess, known, accepted>>

CheckJob(h) ==
  LET j == hs[h].sub.job IN
  /\ hs[h].pc = "check"
  /\ \/ j = sess[hs[h].ch].job /\ Goto(h, "rate")
     \/ /\ j # sess[hs[h].ch].job /\ j \in DOMAIN history
        /\ hs' = [hs EXCEPT ![h].pc = "adopt", ![h].rec = history[j]]
     \/ /\ j # sess[hs[h].ch].job /\ j \notin DOMAIN history
        /\ Return(h)   \* Task does not exist
  /\ UNCHANGED <<env, store, loop, table, sess, known, accepted>>

\* s.LatestServerNonce = rec.Nonce comes before the expiry check.
AdoptHistory(h) ==
  /\ hs[h].pc = "adopt"
  /\ sess' = [sess EXCEPT ![hs[h].ch].nonce = hs[h].rec.nonce]
  /\ IF ExpireAfter > 0 /\ now - hs[h].rec.at > ExpireAfter
       THEN Return(h)   \* Task expired
       ELSE Goto(h, "rate")
  /\ UNCHANGED <<env, store, loop, table, known, accepted>>

\* now := time.Now(); LastSubmitAt is read after it, and may be later.
ReadClock(h) ==
  /\ hs[h].pc = "rate"
  /\ hs' = [hs EXCEPT ![h].pc = "limit", ![h].at = now]
  /\ UNCHANGED <<env, store, loop, table, sess, known, accepted>>

RateCheck(h) ==
  LET last == sess[hs[h].ch].last IN
  /\ hs[h].pc = "limit"
  /\ IF last # 0 /\ hs[h].at - last < Second
       THEN Return(h)   \* Submission too frequent
       ELSE Goto(h, "map")
  /\ UNCHANGED <<env, store, loop, table, sess, known, accepted>>

\* m := s.UsedNonces[p.JobID]; a missing inner map is made and stored.
FindMap(h) ==
  LET m == sess[hs[h].ch].maps[hs[h].sub.job] IN
  /\ hs[h].pc = "map"
  /\ hs' = [hs EXCEPT ![h].pc = IF m = 0 THEN "make" ELSE "dup", ![h].m = m]
  /\ UNCHANGED <<env, store, loop, table, sess, known, accepted>>

MakeMap(h) ==
  LET m == sess[hs[h].ch].maps[hs[h].sub.job] + 1 IN
  /\ hs[h].pc = "make"
  /\ sess' = [sess EXCEPT ![hs[h].ch].maps[hs[h].sub.job] = m]
  /\ hs' = [hs EXCEPT ![h].pc = "dup", ![h].m = m]
  /\ UNCHANGED <<env, store, loop, table, known, accepted>>

\* Mutant of DupCheck: the duplicate is not refused.
DupIgnored(h) ==
  /\ hs[h].pc = "dup" /\ Goto(h, "verify")
  /\ UNCHANGED <<env, store, loop, table, sess, known, accepted>>

DupCheck(h) ==
  /\ hs[h].pc = "dup"
  /\ IF <<hs[h].sub.job, hs[h].m, hs[h].sub.cn>> \in sess[hs[h].ch].used
       THEN Return(h)   \* Duplicate submission
       ELSE Goto(h, "verify")
  /\ UNCHANGED <<env, store, loop, table, sess, known, accepted>>

Verify(h) ==
  /\ hs[h].pc = "verify"
  /\ IF sess[hs[h].ch].nonce = hs[h].sub.nonce
       THEN Goto(h, "record")
       ELSE Return(h)   \* Invalid result
  /\ UNCHANGED <<env, store, loop, table, sess, known, accepted>>

RecordNonce(h) ==
  /\ hs[h].pc = "record" /\ Goto(h, "stamp")
  /\ sess' = [sess EXCEPT ![hs[h].ch].used =
                @ \cup {<<hs[h].sub.job, hs[h].m, hs[h].sub.cn>>}]
  /\ UNCHANGED <<env, store, loop, table, known, accepted>>

\* Mutant of StampSubmit: the event is published without the two saves before
\* it.
StampThenPublish(h) ==
  /\ hs[h].pc = "stamp" /\ Goto(h, "publish")
  /\ sess' = [sess EXCEPT ![hs[h].ch].last = hs[h].at]
  /\ UNCHANGED <<env, store, loop, table, known, accepted>>

StampSubmit(h) ==
  /\ hs[h].pc = "stamp" /\ Goto(h, "saveNonce")
  /\ sess' = [sess EXCEPT ![hs[h].ch].last = hs[h].at]
  /\ UNCHANGED <<env, store, loop, table, known, accepted>>

\* SaveUserState's arguments are read without the mutex: the job id here, the
\* nonce in the next step, and a broadcast may come between.
SaveUsedNonce(h) ==
  /\ hs[h].pc = "saveNonce"
  /\ hs' = [hs EXCEPT ![h].pc = "saveState", ![h].job = sess[hs[h].ch].job]
  /\ \/ usedNonces' = usedNonces \cup
          {<<sess[hs[h].ch].user, hs[h].sub.job, hs[h].sub.cn>>}
     \/ "SaveUsedNonce" \in Faults /\ UNCHANGED usedNonces
  /\ UNCHANGED <<env, jobHist, userStates, loop, table, sess, known, accepted>>

SaveUserState(h) ==
  LET s == sess[hs[h].ch] IN
  /\ hs[h].pc = "saveState" /\ Goto(h, "publish")
  /\ \/ userStates' = [userStates EXCEPT ![s.user] =
          [job |-> hs[h].job, nonce |-> s.nonce, last |-> s.last]]
     \/ "SaveUserState" \in Faults /\ UNCHANGED userStates
  /\ UNCHANGED <<env, jobHist, usedNonces, loop, table, sess, known, accepted>>

\* mq.Publish, then the positive response.
PublishEvent(h) ==
  /\ hs[h].pc = "publish" /\ Return(h)
  /\ accepted' = Append(accepted,
       [user |-> sess[hs[h].ch].user, ch |-> hs[h].ch, job |-> hs[h].sub.job,
        cn |-> hs[h].sub.cn, nonce |-> hs[h].sub.nonce, at |-> hs[h].at])
  /\ UNCHANGED <<env, store, loop, table, sess, known>>

-----------------------------------------------------------------------------
(* Environment *)

Tick ==
  /\ now < MaxTime /\ now' = now + 1
  /\ UNCHANGED <<draws, crashes, store, loop, table, sess, hs, known, accepted>>

\* The process dies and starts again: only the store survives, and what the
\* clients were told.  Used connections are not used again.
Crash ==
  /\ crashes < MaxCrash /\ crashes' = crashes + 1
  /\ pc' = "latest" /\ jobID' = 0 /\ serverNonce' = 0
  /\ history' = [j \in {} |-> ZeroRecord] /\ todo' = {} /\ cur' = None
  /\ sessions' = {} /\ sess' = [c \in Chan |-> ZeroSession]
  /\ conn' = [c \in Chan |-> IF conn[c] = "none" THEN "none" ELSE "gone"]
  /\ hs' = [h \in Handler |-> Idle]
  /\ UNCHANGED <<now, draws, store, known, accepted>>

LoopStep ==
  \/ RestoreLatest \/ RestoreHistory \/ RotateJob \/ SaveJob
  \/ BroadcastSnapshot \/ BroadcastLock \/ BroadcastUnlock
  \/ TickerFires \/ StopLoop
  \/ \E c \in Chan : PushJobID(c) \/ PushNonce(c)

ConnStep(c) ==
  \/ RefuseConnection(c) \/ (\E u \in User : RegisterSession(c, u))
  \/ RestoreUserState(c) \/ AddChannel(c)
  \/ RemoveChannel(c) \/ UnregisterSession(c)

HandlerStep(h) ==
  \/ \E c \in Chan : conn[c] = "open"
       /\ \E s \in Submissions(sess[c].user) : Receive(h, c, s)
  \/ Lookup(h) \/ CheckJob(h) \/ AdoptHistory(h) \/ ReadClock(h) \/ RateCheck(h)
  \/ FindMap(h) \/ MakeMap(h) \/ DupCheck(h) \/ Verify(h) \/ RecordNonce(h)
  \/ StampSubmit(h)
  \/ SaveUsedNonce(h) \/ SaveUserState(h) \/ PublishEvent(h)

Next ==
  \/ LoopStep
  \/ \E c \in Chan : ConnStep(c)
  \/ \E h \in Handler : HandlerStep(h)
  \/ Tick \/ Crash

Spec == Init /\ [][Next]_vars

-----------------------------------------------------------------------------
(* Properties *)

IsTable(f) ==
  /\ DOMAIN f \subseteq 1 .. draws
  /\ f = [j \in DOMAIN f |-> f[j]]
  /\ \A j \in DOMAIN f : f[j] \in JobRecord

EnvOK == now \in Time /\ draws \in 0 .. MaxDraw /\ crashes \in Nat

StoreOK ==
  /\ IsTable(jobHist) /\ userStates \in [User -> UserState]
  /\ usedNonces \subseteq User \X JobId \X ClientNonce

LoopOK ==
  /\ pc \in LoopPc /\ jobID \in 0 .. draws /\ serverNonce \in Nonce
  /\ IsTable(history)
  /\ todo \subseteq Chan /\ cur \in todo \cup {None}
  /\ pc # "push" => cur = None
  /\ pc \in {"save", "snapshot", "lock", "push", "wait", "stopped"} => jobID > 0

ConnOK ==
  /\ sessions \subseteq Chan /\ sess \in [Chan -> Session]
  /\ conn \in [Chan -> ConnPhase]

HandlerOK ==
  /\ hs \in [Handler -> HandlerState]
  /\ \A h \in Handler :
       hs[h].pc \in Busy => hs[h].ch \in Chan /\ hs[h].sub.cn \in ClientNonce

\* Every session somebody still works with belongs to a user.
UsersOK ==
  /\ \A c \in Chan : conn[c] \notin {"none", "gone"} => sess[c].user \in User
  /\ \A h \in Handler : hs[h].pc \in Busy => sess[hs[h].ch].user \in User

LogOK == known \in [User -> SUBSET Job] /\ accepted \in Seq(Event)

\* Types, with what makes them inductive: a job id never exceeds the number of
\* nonces drawn, and a session in use has a user.
TypeOK ==
  /\ EnvOK /\ StoreOK /\ LoopOK /\ ConnOK /\ HandlerOK /\ UsersOK /\ LogOK

\* Whatever crashes and reconnections happen, no two clients are ever told
\* different nonces for one job id (rotateJob, restore, broadcastJob).
Agreement ==
  \A u, v \in User : \A m \in known[u], n \in known[v] :
    m.job = n.job => m.nonce = n.nonce

\* A row that restore need not bring back: older than historyWindow, and not the
\* latest job.
Outdated(j) ==
  j \in DOMAIN jobHist \ LatestRow /\ jobHist[j].at < now - HistoryWindow

\* Every job a client was ever told of, before or after a restart, can be judged
\* by handleSubmit once restore has run, unless it is older than historyWindow:
\* the history has it, with the nonce the client was told, and it has the latest
\* job however old that is.
KnownJobsServable ==
  pc \notin {"latest", "history"} =>
    \A u \in User : \A m \in known[u] :
      \/ m.job \in DOMAIN history /\ history[m.job].nonce = m.nonce
      \/ Outdated(m.job)

\* No session, and no saved user_state row, is ahead of job_history: the job it
\* names was persisted before (rotateJob saves before broadcastJob runs).
SessionsNotAhead ==
  /\ \A c \in Chan : sess[c].job \in {0} \cup DOMAIN jobHist
  /\ \A u \in User : userStates[u].job \in {0} \cup DOMAIN jobHist

\* A submission is published only after it was written to used_nonce, so no
\* crash loses the record of an accepted one (handleSubmit's order of calls).
AcceptedPersisted ==
  \A i \in DOMAIN accepted :
    <<accepted[i].user, accepted[i].job, accepted[i].cn>> \in usedNonces

\* No client nonce is accepted twice for one job on one connection.
NoDuplicatePerSession ==
  \A i, k \in DOMAIN accepted : i < k =>
    <<accepted[i].ch, accepted[i].job, accepted[i].cn>> #
      <<accepted[k].ch, accepted[k].job, accepted[k].cn>>

\* No client nonce is accepted twice for one job of one user, whatever
\* reconnections and restarts lie between.
NoDuplicatePerUser ==
  \A i, k \in DOMAIN accepted : i < k =>
    <<accepted[i].user, accepted[i].job, accepted[i].cn>> #
      <<accepted[k].user, accepted[k].job, accepted[k].cn>>

\* Two accepted submissions of a user are a second apart, reconnections and
\* restarts between them included (LastSubmitAt is saved before the event is
\* published and restored at authorization).
RateLimitPerUser ==
  \A i, k \in DOMAIN accepted : i < k /\ accepted[i].user = accepted[k].user =>
    accepted[k].at - accepted[i].at >= Second

\* Sessions, stores, crashes and goroutines together behave as the Ledger.
LedgerOf == INSTANCE Ledger WITH
              jobs <- UNION {known[u] : u \in User}, ledger <- accepted

ImplementsLedger == LedgerOf!Spec

\* An accepted submission names a job that was issued.
AcceptedJobIssued ==
  \A i \in DOMAIN accepted : accepted[i].job \in DOMAIN jobHist

\* An accepted result was computed from the nonce of the job it was submitted
\* for.
AcceptedMatchesJob ==
  \A i \in DOMAIN accepted : accepted[i].job \in DOMAIN jobHist =>
    accepted[i].nonce = jobHist[accepted[i].job].nonce

\* While no broadcast runs, a result for the session's latest job that was
\* computed from the nonce the user was told for it is never refused as an
\* invalid result.
HonestNeverInvalid ==
  [][\A h \in Handler :
       LET s == sess[hs[h].ch] IN
       Verify(h) /\ pc = "wait" /\ hs[h].sub.job = s.job
         /\ [job |-> s.job, nonce |-> hs[h].sub.nonce] \in known[s.user]
         => hs'[h].pc = "record"]_vars

\* While the loop waits, a job other than the current one that is older than
\* expireAfter never passes the job check of a connected session.
ExpiredRefused ==
  [][\A h \in Handler :
       LET j == hs[h].sub.job IN
       CheckJob(h) /\ hs[h].ch \in sessions /\ pc = "wait" /\ j # jobID /\ j \in DOMAIN history
         /\ ExpireAfter > 0 /\ now - history[j].at > ExpireAfter
         => hs'[h].pc # "rate"]_vars

\* With a history window of 0, restore leaves only the latest job in the
\* history.
ZeroWindowRestoresLatestOnly ==
  [][RestoreHistory /\ HistoryWindow = 0 => DOMAIN history' \subseteq {jobID}]_vars

=============================================================================
