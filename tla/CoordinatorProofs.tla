------------------------- MODULE CoordinatorProofs -------------------------
(***************************************************************************)
(* Proofs about Coordinator, for any users, connections, handlers, bounds  *)
(* and clock: the types; what clients may rely on about jobs when the      *)
(* calls that persist and restore jobs do not fail; that accepted          *)
(* submissions are persisted before they are published; and, when a user   *)
(* has one connection and one request in flight, that they are new and a   *)
(* second apart, and that Coordinator implements Ledger.                   *)
(***************************************************************************)
EXTENDS Coordinator, TLAPS

-----------------------------------------------------------------------------
(* Tables *)

\* Storing a record under a job id that was drawn keeps a job table a table.
LEMMA PutTable ==
  ASSUME NEW f, DOMAIN f \subseteq 1 .. draws, \A j \in DOMAIN f : f[j] \in JobRecord,
         NEW k \in 1 .. draws, NEW r \in JobRecord
  PROVE  IsTable(Put(f, k, r))
  BY DEF IsTable, Put

\* A job table stays one when more nonces are drawn.
LEMMA TableGrows ==
  ASSUME NEW f, EnvOK, draws' = draws + 1, IsTable(f), f' = f
  PROVE  IsTable(f)'
  BY ConstantsAssumption DEF IsTable, EnvOK

-----------------------------------------------------------------------------
(* Type correctness, one lemma per group of actions *)

\* The records sessions and handlers start from are well typed.
LEMMA ZeroSessionType == ZeroSession \in Session
  BY ConstantsAssumption DEF ZeroSession, Session, JobId, Nonce, Time

\* So is the state of a goroutine that is not running.
LEMMA IdleType == Idle \in HandlerState
  BY ConstantsAssumption DEF Idle, HandlerState, Submission, JobRecord, ZeroRecord,
     JobId, Nonce, Time

\* Steps of connections and handlers leave the loop, and mostly the store,
\* alone.
LEMMA LoopFrame ==
  ASSUME TypeOK, UNCHANGED <<env, loop>>
  PROVE  EnvOK' /\ LoopOK' /\ (UNCHANGED store => StoreOK')
  BY DEF env, loop, store, TypeOK, EnvOK, StoreOK, LoopOK, IsTable

\* The initial state is well typed.
LEMMA InitTypes == Init => TypeOK
<1> SUFFICES ASSUME Init PROVE TypeOK
  OBVIOUS
<1> USE ConstantsAssumption DEF Init
<1>1. EnvOK /\ StoreOK /\ LoopOK
  BY DEF EnvOK, Time, StoreOK, IsTable, ZeroState, UserState, LoopOK, LoopPc,
     Nonce, JobId
<1>4. ConnOK /\ HandlerOK
  BY ZeroSessionType, IdleType DEF ConnOK, ConnPhase, HandlerOK, Idle, Busy
<1>5. UsersOK /\ LogOK
  BY DEF UsersOK, LogOK, Idle, Busy
<1> QED
  BY <1>1, <1>4, <1>5 DEF TypeOK

\* The steps of the broadcast loop preserve the types.
LEMMA LoopTypes == TypeOK /\ LoopStep => TypeOK'
<1> SUFFICES ASSUME TypeOK, LoopStep PROVE TypeOK'
  OBVIOUS
<1> USE ConstantsAssumption DEF env, store, loop, table
<1>1. CASE RestoreLatest
  <2>1. LoopOK'
    <3>1. CASE UNCHANGED <<jobID, serverNonce, history>>
      BY <1>1, <3>1 DEF RestoreLatest, LatestRow, TypeOK, LoopOK, LoopPc, IsTable
    <3>2. ASSUME NEW j \in DOMAIN jobHist, jobID' = j,
                 serverNonce' = jobHist[j].nonce,
                 history' = Put(history, j, jobHist[j])
          PROVE  LoopOK'
      <4>1. j \in 1 .. draws /\ jobHist[j] \in JobRecord /\ draws \in Nat
        BY <3>2 DEF TypeOK, StoreOK, IsTable, EnvOK
      <4>2. IsTable(Put(history, j, jobHist[j]))
        BY <4>1, PutTable DEF TypeOK, LoopOK, IsTable
      <4>3. IsTable(history)'
        BY <1>1, <3>2, <4>2 DEF RestoreLatest, LatestRow, IsTable
      <4> QED
        BY <1>1, <3>2, <4>1, <4>3 DEF RestoreLatest, LatestRow, TypeOK, LoopOK, LoopPc, JobRecord
    <3> QED
      BY <1>1, <3>1, <3>2 DEF RestoreLatest, LatestRow
  <2> QED
    BY <1>1, <2>1 DEF RestoreLatest, LatestRow, TypeOK, EnvOK, StoreOK, IsTable, ConnOK,
       HandlerOK, UsersOK, LogOK
<1>2. CASE RestoreHistory
  <2>1. IsTable(history)'
    BY <1>2 DEF RestoreHistory, LoadJobHistory, TypeOK, StoreOK, LoopOK, IsTable
  <2> QED
    BY <1>2, <2>1 DEF RestoreHistory, TypeOK, EnvOK, StoreOK, LoopOK, LoopPc,
       IsTable, ConnOK, HandlerOK, UsersOK, LogOK
<1>3. CASE RotateJob
  <2>1. EnvOK' /\ jobID' \in 1 .. draws' /\ serverNonce' \in Nonce
          /\ [nonce |-> draws + 1, at |-> now] \in JobRecord
    BY <1>3 DEF RotateJob, TypeOK, EnvOK, LoopOK, Nonce, JobRecord, Time
  <2>2. IsTable(history)'
    BY <1>3, <2>1 DEF RotateJob, TypeOK, EnvOK, LoopOK, IsTable, Put
  <2>3. IsTable(jobHist)'
    BY <1>3, TableGrows DEF RotateJob, TypeOK, StoreOK
  <2> QED
    BY <1>3, <2>1, <2>2, <2>3 DEF RotateJob, TypeOK, StoreOK, LoopOK, LoopPc,
       ConnOK, HandlerOK, UsersOK, LogOK
<1>4. CASE SaveJob
  <2>1. IsTable(jobHist)'
    <3>1. CASE UNCHANGED jobHist
      BY <1>4, <3>1 DEF SaveJob, TypeOK, StoreOK, IsTable
    <3>2. CASE jobID \notin DOMAIN jobHist
                 /\ jobHist' = Put(jobHist, jobID, [nonce |-> serverNonce, at |-> now])
      <4>1. jobID \in 1 .. draws
        BY <1>4 DEF SaveJob, TypeOK, LoopOK
      <4>2. [nonce |-> serverNonce, at |-> now] \in JobRecord
        BY DEF TypeOK, EnvOK, LoopOK, JobRecord
      <4>3. IsTable(Put(jobHist, jobID, [nonce |-> serverNonce, at |-> now]))
        BY <4>1, <4>2, PutTable DEF TypeOK, StoreOK, IsTable
      <4> QED
        BY <1>4, <3>2, <4>3 DEF SaveJob, IsTable
    <3> QED
      BY <1>4, <3>1, <3>2 DEF SaveJob
  <2> QED
    BY <1>4, <2>1 DEF SaveJob, TypeOK, EnvOK, StoreOK, LoopOK, LoopPc,
       IsTable, ConnOK, HandlerOK, UsersOK, LogOK
<1>5. CASE BroadcastSnapshot \/ BroadcastLock \/ BroadcastUnlock \/ TickerFires \/ StopLoop
  BY <1>5 DEF BroadcastSnapshot, BroadcastLock, BroadcastUnlock, TickerFires, StopLoop,
     TypeOK, EnvOK, StoreOK, LoopOK, LoopPc, IsTable, ConnOK, HandlerOK, UsersOK, LogOK
<1>6. ASSUME NEW c \in Chan, PushJobID(c) PROVE TypeOK'
  <2>0. jobID \in JobId
    BY DEF TypeOK, EnvOK, LoopOK, JobId
  <2>1. ConnOK' /\ sess'[c].user = sess[c].user
    BY <1>6, <2>0, ZenonT(30) DEF PushJobID, TypeOK, ConnOK, Session
  <2> QED
    BY <1>6, <2>1 DEF PushJobID, TypeOK, EnvOK, StoreOK, LoopOK, LoopPc, IsTable,
       ConnOK, HandlerOK, UsersOK, LogOK
<1>7. ASSUME NEW c \in Chan, PushNonce(c) PROVE TypeOK'
  <2>1. ConnOK' /\ sess'[c].user = sess[c].user
    BY <1>7, ZenonT(30) DEF PushNonce, TypeOK, LoopOK, ConnOK, Session
  <2>2. [job |-> jobID, nonce |-> serverNonce] \in Job
    BY DEF TypeOK, EnvOK, LoopOK, Job, JobId
  <2>3. LogOK'
    BY <1>7, <2>2 DEF PushNonce, TypeOK, ConnOK, UsersOK, LogOK
  <2> QED
    BY <1>7, <2>1, <2>3 DEF PushNonce, TypeOK, EnvOK, StoreOK, LoopOK, LoopPc,
       IsTable, ConnOK, HandlerOK, UsersOK
<1> QED
  BY <1>1, <1>2, <1>3, <1>4, <1>5, <1>6, <1>7 DEF LoopStep

\* Connecting, restoring the user's state and disconnecting preserve the types.
LEMMA ConnTypes ==
  ASSUME TypeOK, NEW c \in Chan, ConnStep(c)
  PROVE  TypeOK'
<1> USE ConstantsAssumption DEF env, store, loop, table
<1>1. CASE RefuseConnection(c) \/ AddChannel(c) \/ RemoveChannel(c) \/ UnregisterSession(c)
  <2>1. EnvOK' /\ LoopOK' /\ StoreOK'
    BY <1>1, LoopFrame DEF RefuseConnection, AddChannel, RemoveChannel, UnregisterSession
  <2>2. ConnOK' /\ UsersOK'
    BY <1>1 DEF RefuseConnection, AddChannel, RemoveChannel, UnregisterSession,
       TypeOK, ConnOK, ConnPhase, UsersOK
  <2> QED
    BY <1>1, <2>1, <2>2 DEF RefuseConnection, AddChannel, RemoveChannel,
       UnregisterSession, TypeOK, HandlerOK, LogOK
<1>2. ASSUME NEW u \in User, RegisterSession(c, u) PROVE TypeOK'
  <2>1. EnvOK' /\ LoopOK' /\ StoreOK'
    BY <1>2, LoopFrame DEF RegisterSession
  <2>2. [ZeroSession EXCEPT !.user = u] \in Session
        /\ [ZeroSession EXCEPT !.user = u].user = u
    BY ZeroSessionType DEF Session
  <2>3. ConnOK' /\ sess'[c].user = u
    BY <1>2, <2>2 DEF RegisterSession, TypeOK, ConnOK, ConnPhase
  <2>4. UsersOK'
    BY <1>2, <2>3 DEF RegisterSession, TypeOK, ConnOK, HandlerOK, UsersOK
  <2> QED
    BY <1>2, <2>1, <2>3, <2>4 DEF RegisterSession, TypeOK, HandlerOK, LogOK
<1>3. CASE RestoreUserState(c)
  <2>1. EnvOK' /\ LoopOK' /\ StoreOK'
    BY <1>3, LoopFrame DEF RestoreUserState
  <2>2. userStates[sess[c].user] \in UserState
    BY <1>3 DEF RestoreUserState, TypeOK, StoreOK, UsersOK
  <2>3. sess' \in [Chan -> Session] /\ \A d \in Chan : sess'[d].user = sess[d].user
    <3>1. CASE UNCHANGED sess
      BY <3>1 DEF TypeOK, ConnOK
    <3>2. CASE sess' = [sess EXCEPT ![c].job = userStates[sess[c].user].job,
                                    ![c].nonce = userStates[sess[c].user].nonce,
                                    ![c].last = userStates[sess[c].user].last]
      <4> DEFINE st == userStates[sess[c].user]
      <4>1. st.job \in JobId /\ st.nonce \in Nonce /\ st.last \in Time
        BY <2>2 DEF UserState
      <4>2. sess' = [sess EXCEPT ![c] = [sess[c] EXCEPT !.job = st.job,
                                           !.nonce = st.nonce, !.last = st.last]]
        BY <3>2 DEF TypeOK, ConnOK, Session
      <4>3. sess[c] \in Session
        BY DEF TypeOK, ConnOK
      <4> HIDE DEF st
      <4>4. [sess[c] EXCEPT !.job = st.job, !.nonce = st.nonce, !.last = st.last] \in Session
            /\ [sess[c] EXCEPT !.job = st.job, !.nonce = st.nonce, !.last = st.last].user
                 = sess[c].user
        BY <4>1, <4>3 DEF Session
      <4> QED
        BY <4>2, <4>4 DEF TypeOK, ConnOK
    <3> QED
      BY <1>3, <3>1, <3>2 DEF RestoreUserState
  <2>4. ConnOK' /\ UsersOK'
    BY <1>3, <2>3 DEF RestoreUserState, TypeOK, ConnOK, ConnPhase, HandlerOK, UsersOK
  <2> QED
    BY <1>3, <2>1, <2>4 DEF RestoreUserState, TypeOK, HandlerOK, LogOK
<1> QED
  BY <1>1, <1>2, <1>3 DEF ConnStep

\* A handler's step preserves the types if the handler's new state is well
\* typed and on a connection with a user, and sessions keep their users.
LEMMA HandlerChange ==
  ASSUME TypeOK, NEW h \in Handler, NEW r \in HandlerState,
         hs' = [hs EXCEPT ![h] = r],
         r.pc \in Busy => /\ r.ch \in Chan /\ r.sub.cn \in ClientNonce
                          /\ sess[r.ch].user \in User,
         UNCHANGED <<env, loop, table>>,
         sess' \in [Chan -> Session], \A d \in Chan : sess'[d].user = sess[d].user,
         StoreOK', LogOK'
  PROVE  TypeOK'
<1>1. EnvOK' /\ LoopOK'
  BY LoopFrame
<1>2. ConnOK' /\ HandlerOK'
  BY DEF table, TypeOK, ConnOK, HandlerOK
<1>3. UsersOK'
  <2>1. conn' = conn /\ \A g \in Handler : hs'[g] = IF g = h THEN r ELSE hs[g]
    BY DEF table, TypeOK, HandlerOK
  <2> QED
    BY <2>1 DEF TypeOK, HandlerOK, UsersOK
<1> QED
  BY <1>1, <1>2, <1>3 DEF TypeOK

\* The facts about a busy handler that every step of it starts from.
LEMMA BusyHandler ==
  ASSUME TypeOK, NEW h \in Handler, hs[h].pc \in Busy
  PROVE  /\ hs[h] \in HandlerState /\ hs[h].ch \in Chan
         /\ hs[h].sub \in Submission /\ hs[h].sub.cn \in ClientNonce
         /\ hs[h].sub.job \in JobId
         /\ sess[hs[h].ch] \in Session /\ sess[hs[h].ch].user \in User
<1>1. hs[h] \in HandlerState /\ hs[h].ch \in Chan /\ hs[h].sub.cn \in ClientNonce
  BY DEF TypeOK, HandlerOK
<1>2. hs[h].sub \in Submission /\ hs[h].sub.job \in JobId
  BY <1>1 DEF HandlerState, Submission
<1> QED
  BY <1>1, <1>2 DEF TypeOK, ConnOK, UsersOK

\* Going on to another step of handleSubmit gives a well-typed handler on the
\* same connection.
LEMMA GotoType ==
  ASSUME TypeOK, NEW h \in Handler, NEW step \in Busy, Goto(h, step)
  PROVE  \E x \in HandlerState : /\ hs' = [hs EXCEPT ![h] = x]
                                 /\ x.ch = hs[h].ch /\ x.sub = hs[h].sub
<1>1. hs \in [Handler -> HandlerState]
  BY DEF TypeOK, HandlerOK
<1> DEFINE x == [hs[h] EXCEPT !.pc = step]
<1>2. hs' = [hs EXCEPT ![h] = x]
  BY <1>1 DEF Goto
<1>3. x \in HandlerState /\ x.ch = hs[h].ch /\ x.sub = hs[h].sub
  BY <1>1 DEF HandlerState
<1> HIDE DEF x
<1> QED
  BY <1>2, <1>3

\* The steps of Receive and handleSubmit preserve the types.
LEMMA HandlerTypes ==
  ASSUME TypeOK, NEW h \in Handler, HandlerStep(h)
  PROVE  TypeOK'
<1> USE ConstantsAssumption
<1>0. /\ hs \in [Handler -> HandlerState] /\ sess \in [Chan -> Session]
      /\ LogOK /\ StoreOK
  BY DEF TypeOK, HandlerOK, ConnOK
<1>a. UNCHANGED <<env, store, loop, table, sess, known, accepted>> =>
        /\ UNCHANGED <<env, loop, table>> /\ sess' \in [Chan -> Session]
        /\ \A d \in Chan : sess'[d].user = sess[d].user
        /\ StoreOK' /\ LogOK'
  BY <1>0, LoopFrame DEF LogOK
<1>b. ASSUME Return(h), UNCHANGED <<env, store, loop, table, sess, known, accepted>>
      PROVE  TypeOK'
  BY <1>a, <1>b, IdleType, HandlerChange DEF Return, Idle, Busy
<1>c. ASSUME NEW x \in HandlerState, hs[h].pc \in Busy, x.ch = hs[h].ch, x.sub = hs[h].sub,
             hs' = [hs EXCEPT ![h] = x],
             UNCHANGED <<env, store, loop, table, sess, known, accepted>>
      PROVE  TypeOK'
  BY <1>a, <1>c, BusyHandler, HandlerChange
<1>1. ASSUME NEW c \in Chan, conn[c] = "open",
             NEW sb \in Submissions(sess[c].user), Receive(h, c, sb)
      PROVE  TypeOK'
  <2>1. sess[c].user \in User /\ known[sess[c].user] \in SUBSET Job
    BY <1>1, <1>0 DEF TypeOK, UsersOK, LogOK
  <2>2. sb \in Submission /\ sb.cn \in ClientNonce
    BY <2>1 DEF Submissions, Submission, Job, Nonce
  <2> DEFINE r == [Idle EXCEPT !.pc = "lookup", !.ch = c, !.sub = sb]
  <2>3. r \in HandlerState /\ r.ch = c /\ r.sub = sb
    BY <2>2, IdleType DEF HandlerState, Busy
  <2>4. hs' = [hs EXCEPT ![h] = r]
    BY <1>1 DEF Receive
  <2>5. UNCHANGED <<env, store, loop, table, sess, known, accepted>>
    BY <1>1 DEF Receive
  <2> HIDE DEF r
  <2> QED
    BY <1>a, <2>1, <2>2, <2>3, <2>4, <2>5, HandlerChange
<1>d. ASSUME NEW step \in Busy, hs[h].pc \in Busy, Goto(h, step),
             UNCHANGED <<env, store, loop, table, sess, known, accepted>>
      PROVE  TypeOK'
  BY <1>c, <1>d, GotoType
<1>2. CASE Lookup(h)
  BY <1>2, <1>b, <1>d DEF Lookup, Busy
<1>3. CASE CheckJob(h)
  <2>1. hs[h].pc \in Busy /\ UNCHANGED <<env, store, loop, table, sess, known, accepted>>
    BY <1>3 DEF CheckJob, Busy
  <2>2. CASE hs[h].sub.job \in DOMAIN history
             /\ hs' = [hs EXCEPT ![h].pc = "adopt", ![h].rec = history[hs[h].sub.job]]
    <3> DEFINE x == [hs[h] EXCEPT !.pc = "adopt", !.rec = history[hs[h].sub.job]]
    <3>1. hs' = [hs EXCEPT ![h] = x]
      BY <1>0, <2>2
    <3>2. history[hs[h].sub.job] \in JobRecord
      BY <2>2 DEF TypeOK, LoopOK, IsTable
    <3>3. x \in HandlerState /\ x.ch = hs[h].ch /\ x.sub = hs[h].sub
      BY <1>0, <3>2, ZenonT(30) DEF HandlerState, Busy
    <3> HIDE DEF x
    <3> QED
      BY <1>c, <2>1, <3>1, <3>3
  <2> QED
    BY <1>3, <1>b, <1>d, <2>1, <2>2 DEF CheckJob, Busy
<1>4. CASE ReadClock(h)
  <2>1. hs[h].pc \in Busy /\ UNCHANGED <<env, store, loop, table, sess, known, accepted>>
    BY <1>4 DEF ReadClock, Busy
  <2> DEFINE x == [hs[h] EXCEPT !.pc = "limit", !.at = now]
  <2>2. hs' = [hs EXCEPT ![h] = x]
    BY <1>0, <1>4 DEF ReadClock
  <2>3. now \in Time
    BY DEF TypeOK, EnvOK
  <2>4. x \in HandlerState /\ x.ch = hs[h].ch /\ x.sub = hs[h].sub
    BY <1>0, <2>3, ZenonT(30) DEF HandlerState, Busy
  <2> HIDE DEF x
  <2> QED
    BY <1>c, <2>1, <2>2, <2>4
<1>l. CASE RateCheck(h)
  BY <1>l, <1>b, <1>d DEF RateCheck, Busy
<1>5. CASE DupCheck(h)
  BY <1>5, <1>b, <1>d DEF DupCheck, Busy
<1>6. CASE Verify(h)
  BY <1>6, <1>b, <1>d DEF Verify, Busy
<1>7. CASE FindMap(h)
  <2> DEFINE m == sess[hs[h].ch].maps[hs[h].sub.job]
             x == [hs[h] EXCEPT !.pc = IF m = 0 THEN "make" ELSE "dup", !.m = m]
  <2>1. hs[h].pc \in Busy /\ UNCHANGED <<env, store, loop, table, sess, known, accepted>>
    BY <1>7 DEF FindMap, Busy
  <2>2. hs' = [hs EXCEPT ![h] = x]
    BY <1>0, <1>7 DEF FindMap
  <2>3. m \in Nat
    BY <2>1, BusyHandler DEF Session
  <2> HIDE DEF m
  <2>4. x \in HandlerState /\ x.ch = hs[h].ch /\ x.sub = hs[h].sub
    BY <1>0, <2>3, ZenonT(30) DEF HandlerState, Busy
  <2> HIDE DEF x
  <2> QED
    BY <1>c, <2>1, <2>2, <2>4
\* The steps that write the session.
<1>e. ASSUME NEW x \in HandlerState, NEW y \in Session, hs[h].pc \in Busy,
             x.ch = hs[h].ch, x.sub = hs[h].sub, y.user = sess[hs[h].ch].user,
             hs' = [hs EXCEPT ![h] = x], sess' = [sess EXCEPT ![hs[h].ch] = y],
             UNCHANGED <<env, store, loop, table, known, accepted>>
      PROVE  TypeOK'
  <2>1. sess' \in [Chan -> Session] /\ \A d \in Chan : sess'[d].user = sess[d].user
    BY <1>0, <1>e, BusyHandler
  <2>2. StoreOK' /\ LogOK' /\ UNCHANGED <<env, loop, table>>
    BY <1>0, <1>e, LoopFrame DEF LogOK
  <2> QED
    BY <1>e, <2>1, <2>2, BusyHandler, HandlerChange
<1>8. CASE AdoptHistory(h)
  <2>1. hs[h].pc \in Busy /\ UNCHANGED <<env, store, loop, table, known, accepted>>
    BY <1>8 DEF AdoptHistory, Busy
  <2> DEFINE y == [sess[hs[h].ch] EXCEPT !.nonce = hs[h].rec.nonce]
  <2>2. hs[h].rec.nonce \in Nonce
    BY <1>0 DEF HandlerState, JobRecord
  <2>3. y \in Session /\ y.user = sess[hs[h].ch].user
    BY <2>1, <2>2, BusyHandler DEF Session
  <2>4. sess' = [sess EXCEPT ![hs[h].ch] = y]
    BY <1>0, <1>8 DEF AdoptHistory
  <2> HIDE DEF y
  <2>5. CASE Goto(h, "rate")
    BY <1>e, <2>1, <2>3, <2>4, <2>5, GotoType DEF Busy
  <2>6. CASE Return(h)
    <3>1. sess' \in [Chan -> Session] /\ \A d \in Chan : sess'[d].user = sess[d].user
      BY <1>0, <2>1, <2>3, <2>4, BusyHandler
    <3>2. StoreOK' /\ LogOK' /\ UNCHANGED <<env, loop, table>>
      BY <1>0, <2>1, LoopFrame DEF LogOK
    <3>3. hs' = [hs EXCEPT ![h] = Idle] /\ Idle.pc \notin Busy
      BY <2>6 DEF Return, Idle, Busy
    <3> QED
      BY <3>1, <3>2, <3>3, IdleType, HandlerChange
  <2> QED
    BY <1>8, <2>5, <2>6 DEF AdoptHistory
<1>9. CASE MakeMap(h)
  <2>1. hs[h].pc \in Busy /\ UNCHANGED <<env, store, loop, table, known, accepted>>
    BY <1>9 DEF MakeMap, Busy
  <2> DEFINE m == sess[hs[h].ch].maps[hs[h].sub.job] + 1
             y == [sess[hs[h].ch] EXCEPT !.maps[hs[h].sub.job] = m]
             x == [hs[h] EXCEPT !.pc = "dup", !.m = m]
  <2>2. m \in Nat
    BY <2>1, BusyHandler DEF Session
  <2>3. sess' = [sess EXCEPT ![hs[h].ch] = y] /\ hs' = [hs EXCEPT ![h] = x]
    BY <1>0, <1>9 DEF MakeMap
  <2> HIDE DEF m
  <2>4. y \in Session /\ y.user = sess[hs[h].ch].user
    BY <2>1, <2>2, BusyHandler DEF Session
  <2>5. x \in HandlerState /\ x.ch = hs[h].ch /\ x.sub = hs[h].sub
    BY <1>0, <2>2, ZenonT(30) DEF HandlerState, Busy
  <2> HIDE DEF x, y
  <2> QED
    BY <1>e, <2>1, <2>3, <2>4, <2>5
<1>10. CASE RecordNonce(h)
  <2>1. hs[h].pc \in Busy /\ UNCHANGED <<env, store, loop, table, known, accepted>>
        /\ Goto(h, "stamp")
    BY <1>10 DEF RecordNonce, Busy
  <2> DEFINE t == <<hs[h].sub.job, hs[h].m, hs[h].sub.cn>>
             y == [sess[hs[h].ch] EXCEPT !.used = sess[hs[h].ch].used \cup {t}]
  <2>2. t \in JobId \X Nat \X ClientNonce
    BY <1>0, <2>1, BusyHandler DEF HandlerState
  <2>3. sess' = [sess EXCEPT ![hs[h].ch] = y]
    BY <1>0, <1>10, <2>1, BusyHandler DEF RecordNonce
  <2> HIDE DEF t
  <2>4. y \in Session /\ y.user = sess[hs[h].ch].user
    BY <2>1, <2>2, BusyHandler DEF Session
  <2> HIDE DEF y
  <2> QED
    BY <1>e, <2>1, <2>3, <2>4, GotoType DEF Busy
<1>11. CASE StampSubmit(h)
  <2>1. hs[h].pc \in Busy /\ UNCHANGED <<env, store, loop, table, known, accepted>>
        /\ Goto(h, "saveNonce")
    BY <1>11 DEF StampSubmit, Busy
  <2> DEFINE y == [sess[hs[h].ch] EXCEPT !.last = hs[h].at]
  <2>2. hs[h].at \in Time
    BY <1>0 DEF HandlerState
  <2>3. sess' = [sess EXCEPT ![hs[h].ch] = y]
    BY <1>0, <1>11 DEF StampSubmit
  <2>4. y \in Session /\ y.user = sess[hs[h].ch].user
    BY <2>1, <2>2, BusyHandler DEF Session
  <2> HIDE DEF y
  <2> QED
    BY <1>e, <2>1, <2>3, <2>4, GotoType DEF Busy
\* The steps that write the store or publish.
<1>f. ASSUME NEW x \in HandlerState, x.pc \in Busy => x.ch = hs[h].ch /\ x.sub = hs[h].sub,
             hs[h].pc \in Busy, hs' = [hs EXCEPT ![h] = x],
             UNCHANGED <<env, loop, table, sess>>, StoreOK', LogOK'
      PROVE  TypeOK'
  BY <1>0, <1>f, BusyHandler, HandlerChange
<1>12. CASE SaveUsedNonce(h)
  <2>1. hs[h].pc \in Busy
    BY <1>12 DEF SaveUsedNonce, Busy
  <2> DEFINE x == [hs[h] EXCEPT !.pc = "saveState", !.job = sess[hs[h].ch].job]
  <2>2. hs' = [hs EXCEPT ![h] = x]
    BY <1>0, <1>12 DEF SaveUsedNonce
  <2>3. x \in HandlerState /\ x.ch = hs[h].ch /\ x.sub = hs[h].sub
    BY <1>0, <2>1, BusyHandler, ZenonT(30) DEF HandlerState, Session, Busy
  <2>4. <<sess[hs[h].ch].user, hs[h].sub.job, hs[h].sub.cn>> \in User \X JobId \X ClientNonce
    BY <2>1, BusyHandler
  <2>5. StoreOK'
    BY <1>0, <1>12, <2>4 DEF SaveUsedNonce, StoreOK, IsTable, env
  <2>6. LogOK'
    BY <1>0, <1>12 DEF SaveUsedNonce, LogOK
  <2> HIDE DEF x
  <2> QED
    BY <1>12, <1>f, <2>1, <2>2, <2>3, <2>5, <2>6 DEF SaveUsedNonce
<1>13. CASE SaveUserState(h)
  <2>1. hs[h].pc \in Busy /\ Goto(h, "publish")
    BY <1>13 DEF SaveUserState, Busy
  <2>2. [job |-> hs[h].job, nonce |-> sess[hs[h].ch].nonce, last |-> sess[hs[h].ch].last]
          \in UserState
    BY <1>0, <2>1, BusyHandler DEF HandlerState, Session, UserState
  <2>3. StoreOK'
    BY <1>0, <1>13, <2>2 DEF SaveUserState, StoreOK, IsTable, env
  <2>4. LogOK'
    BY <1>0, <1>13 DEF SaveUserState, LogOK
  <2> QED
    BY <1>13, <1>f, <2>1, <2>3, <2>4, GotoType DEF SaveUserState, Busy
<1>14. CASE PublishEvent(h)
  <2>1. hs[h].pc \in Busy
    BY <1>14 DEF PublishEvent, Busy
  <2> DEFINE e == [user |-> sess[hs[h].ch].user, ch |-> hs[h].ch, job |-> hs[h].sub.job,
                   cn |-> hs[h].sub.cn, nonce |-> hs[h].sub.nonce, at |-> hs[h].at]
  <2>2. e \in Event
    BY <1>0, <2>1, BusyHandler DEF Event, HandlerState, Submission
  <2>3. accepted' = Append(accepted, e)
    BY <1>14 DEF PublishEvent
  <2> HIDE DEF e
  <2>4. LogOK'
    BY <1>0, <1>14, <2>2, <2>3 DEF PublishEvent, LogOK
  <2>5. StoreOK'
    BY <1>0, <1>14, LoopFrame DEF PublishEvent
  <2>6. hs' = [hs EXCEPT ![h] = Idle] /\ Idle.pc \notin Busy
    BY <1>14 DEF PublishEvent, Return, Idle, Busy
  <2> QED
    BY <1>14, <1>f, <2>1, <2>4, <2>5, <2>6, IdleType DEF PublishEvent
<1> QED
  BY <1>1, <1>2, <1>3, <1>4, <1>l, <1>5, <1>6, <1>7, <1>8, <1>9, <1>10, <1>11,
     <1>12, <1>13, <1>14 DEF HandlerStep

\* The passing of time and a restart of the process preserve the types.
LEMMA EnvTypes == TypeOK /\ (Tick \/ Crash) => TypeOK'
<1> SUFFICES ASSUME TypeOK, Tick \/ Crash PROVE TypeOK'
  OBVIOUS
<1> USE ConstantsAssumption DEF env, store, loop, table
<1>1. CASE Tick
  <2>1. EnvOK'
    BY <1>1 DEF Tick, TypeOK, EnvOK, Time
  <2> QED
    BY <1>1, <2>1 DEF Tick, TypeOK, StoreOK, LoopOK, IsTable, ConnOK, HandlerOK,
       UsersOK, LogOK
<1>2. CASE Crash
  <2>1. EnvOK' /\ StoreOK' /\ LogOK'
    BY <1>2 DEF Crash, TypeOK, EnvOK, StoreOK, IsTable, LogOK
  <2>2. LoopOK'
    BY <1>2, <2>1 DEF Crash, TypeOK, EnvOK, LoopOK, LoopPc, IsTable, Nonce
  <2>3. ConnOK' /\ HandlerOK'
    BY <1>2, ZeroSessionType, IdleType DEF Crash, ConnOK, ConnPhase, HandlerOK, Idle, Busy
  <2>4. UsersOK'
    BY <1>2 DEF Crash, UsersOK, Idle, Busy
  <2> QED
    BY <2>1, <2>2, <2>3, <2>4 DEF TypeOK
<1> QED
  BY <1>1, <1>2

\* Every step, and every stuttering step, preserves the types.
LEMMA NextTypes == TypeOK /\ [Next]_vars => TypeOK'
<1> SUFFICES ASSUME TypeOK, [Next]_vars PROVE TypeOK'
  OBVIOUS
<1>1. CASE UNCHANGED vars
  BY <1>1 DEF vars, env, store, loop, table, TypeOK, EnvOK, StoreOK, LoopOK, IsTable,
     ConnOK, HandlerOK, UsersOK, LogOK
<1>2. CASE Next
  BY <1>2, LoopTypes, ConnTypes, HandlerTypes, EnvTypes DEF Next
<1> QED
  BY <1>1, <1>2

\* The coordinator, its sessions, its handlers and its store keep their types,
\* whatever calls of the store fail and however often the process restarts.
THEOREM CoordinatorTypes == Spec => []TypeOK
  BY InitTypes, NextTypes, PTL DEF Spec

-----------------------------------------------------------------------------
(* Jobs.  A client was told only of jobs that job_history holds, under the *)
(* nonce it holds for them, and after restore no row is ahead of jobID:    *)
(* that is why rotateJob's next id is free in job_history and SaveJob,     *)
(* which would keep an existing row, really stores the new nonce.          *)

KnownPersisted ==
  \A u \in User : \A m \in known[u] :
    m.job \in DOMAIN jobHist /\ jobHist[m.job].nonce = m.nonce

CurrentPersisted ==
  pc \in {"snapshot", "lock", "push"} =>
    jobID \in DOMAIN jobHist /\ jobHist[jobID].nonce = serverNonce

NoneAhead ==
  /\ pc # "latest" => \A j \in DOMAIN jobHist : j <= jobID
  /\ pc = "save" => jobID \notin DOMAIN jobHist

JobInv == KnownPersisted /\ CurrentPersisted /\ NoneAhead

\* job_history and the current job fix what JobInv says.
LEMMA JobFrame ==
  ASSUME JobInv, UNCHANGED <<jobHist, pc, jobID, serverNonce, known>>
  PROVE  JobInv'
  BY DEF JobInv, KnownPersisted, CurrentPersisted, NoneAhead

\* Every step of the loop preserves JobInv, provided that restore finds the
\* latest job and SaveJob does not fail.
LEMMA LoopJobs ==
  ASSUME "LoadLatestJob" \notin Faults, "SaveJob" \notin Faults,
         TypeOK, JobInv, LoopStep
  PROVE  JobInv'
<1> USE DEF JobInv, store, env
<1>1. CASE RestoreLatest
  BY <1>1 DEF RestoreLatest, LatestRow, KnownPersisted, CurrentPersisted, NoneAhead
<1>2. CASE RestoreHistory
  BY <1>2 DEF RestoreHistory, KnownPersisted, CurrentPersisted, NoneAhead
<1>3. CASE RotateJob
  <2>1. \A j \in DOMAIN jobHist : j \in Int /\ j <= jobID
    BY <1>3 DEF RotateJob, NoneAhead, TypeOK, StoreOK, IsTable
  <2>2. jobID \in Int
    BY DEF TypeOK, LoopOK
  <2> QED
    BY <1>3, <2>1, <2>2 DEF RotateJob, KnownPersisted, CurrentPersisted, NoneAhead
<1>4. CASE SaveJob
  <2>1. jobHist' = Put(jobHist, jobID, [nonce |-> serverNonce, at |-> now])
        /\ jobID \notin DOMAIN jobHist
    BY <1>4 DEF SaveJob, NoneAhead
  <2>2. /\ DOMAIN jobHist' = DOMAIN jobHist \cup {jobID}
        /\ jobHist'[jobID].nonce = serverNonce
        /\ \A j \in DOMAIN jobHist : jobHist'[j] = jobHist[j]
    BY <2>1 DEF Put
  <2>3. jobID \in Int
    BY DEF TypeOK, LoopOK
  <2> QED
    BY <1>4, <2>2, <2>3 DEF SaveJob, KnownPersisted, CurrentPersisted, NoneAhead
<1>5. CASE BroadcastSnapshot \/ BroadcastLock \/ BroadcastUnlock \/ TickerFires \/ StopLoop
  BY <1>5 DEF BroadcastSnapshot, BroadcastLock, BroadcastUnlock, TickerFires, StopLoop,
     KnownPersisted, CurrentPersisted, NoneAhead
<1>6. ASSUME NEW c \in Chan, PushJobID(c) PROVE JobInv'
  BY <1>6, JobFrame DEF PushJobID
<1>7. ASSUME NEW c \in Chan, PushNonce(c) PROVE JobInv'
  <2> DEFINE now_told == [job |-> jobID, nonce |-> serverNonce]
  <2>1. \A u \in User : known'[u] \subseteq known[u] \cup {now_told}
    BY <1>7 DEF PushNonce, TypeOK, LogOK
  <2>2. now_told.job \in DOMAIN jobHist /\ jobHist[now_told.job].nonce = now_told.nonce
    BY <1>7 DEF PushNonce, CurrentPersisted
  <2> HIDE DEF now_told
  <2>3. KnownPersisted'
    BY <1>7, <2>1, <2>2 DEF PushNonce, KnownPersisted
  <2> QED
    BY <1>7, <2>3 DEF PushNonce, CurrentPersisted, NoneAhead
<1> QED
  BY <1>1, <1>2, <1>3, <1>4, <1>5, <1>6, <1>7 DEF LoopStep

\* A restart keeps job_history and sends the loop back to restore.
LEMMA EnvJobs == JobInv /\ (Tick \/ Crash) => JobInv'
  BY DEF Tick, Crash, store, loop, JobInv, KnownPersisted, CurrentPersisted, NoneAhead

\* Connections and handlers touch neither job_history nor the current job.
LEMMA OtherJobs ==
  ASSUME JobInv,
         \/ UNCHANGED vars
         \/ \E c \in Chan : ConnStep(c)
         \/ \E h \in Handler : HandlerStep(h)
  PROVE  JobInv'
<1>1. UNCHANGED <<jobHist, pc, jobID, serverNonce, known>>
  BY ZenonT(30) DEF vars, store, loop, ConnStep, HandlerStep, RefuseConnection, RegisterSession,
     RestoreUserState, AddChannel, RemoveChannel, UnregisterSession, Receive, Lookup,
     CheckJob, AdoptHistory, ReadClock, RateCheck, FindMap, MakeMap, DupCheck, Verify,
     RecordNonce, StampSubmit, SaveUsedNonce, SaveUserState, PublishEvent
<1> QED
  BY <1>1, JobFrame

\* JobInv holds in every reachable state.
LEMMA JobInvariant ==
  ASSUME "LoadLatestJob" \notin Faults, "SaveJob" \notin Faults
  PROVE  Spec => []JobInv
<1>1. Init => JobInv
  BY DEF Init, JobInv, KnownPersisted, CurrentPersisted, NoneAhead
<1>2. TypeOK /\ JobInv /\ [Next]_vars => JobInv'
  BY LoopJobs, EnvJobs, OtherJobs DEF Next
<1> QED
  BY <1>1, <1>2, CoordinatorTypes, PTL DEF Spec

\* No two clients are ever told different nonces for one job id, over any
\* number of restarts, if the calls that load the latest job and save a job do
\* not fail; every other call of the store may.
THEOREM JobsAgree ==
  ASSUME "LoadLatestJob" \notin Faults, "SaveJob" \notin Faults
  PROVE  Spec => []Agreement
<1>1. JobInv => Agreement
  BY DEF JobInv, KnownPersisted, Agreement
<1> QED
  BY <1>1, JobInvariant, PTL

-----------------------------------------------------------------------------
(* The history.  Once restore has run, the history holds every row of      *)
(* job_history that is not outdated under its nonce, and the job that is   *)
(* about to be saved; the latest row is there before the others are.       *)

InHistory(j) == j \in DOMAIN history /\ history[j].nonce = jobHist[j].nonce

RowsInHistory ==
  /\ pc \notin {"latest", "history"} =>
       \A j \in DOMAIN jobHist : InHistory(j) \/ Outdated(j)
  /\ pc = "history" => \A j \in LatestRow : InHistory(j)

CurrentInHistory ==
  pc = "save" => jobID \in DOMAIN history /\ history[jobID].nonce = serverNonce

HistoryInv == RowsInHistory /\ CurrentInHistory

\* What is outdated stays so: the clock goes on, and a job that is not the latest
\* one does not become it again.
LEMMA StaysOutdated ==
  ASSUME TypeOK, now' \in Nat, now <= now', DOMAIN jobHist \subseteq DOMAIN jobHist',
         \A j \in DOMAIN jobHist : jobHist'[j] = jobHist[j],
         NEW k \in DOMAIN jobHist, Outdated(k)
  PROVE  Outdated(k)'
<1>1. PICK i \in DOMAIN jobHist : ~ (i <= k)
  BY DEF Outdated, LatestRow
<1>2. k \notin LatestRow'
  BY <1>1 DEF LatestRow
<1>3. jobHist[k].at < now - HistoryWindow /\ jobHist[k].at \in Nat /\ now \in Nat
  BY DEF Outdated, TypeOK, StoreOK, EnvOK, IsTable, JobRecord, Time
<1>4. jobHist[k].at < now' - HistoryWindow
  BY <1>3, ConstantsAssumption
<1> QED
  BY <1>2, <1>4 DEF Outdated

\* The steps of the loop preserve HistoryInv, whatever the window is.
LEMMA LoopHistory ==
  ASSUME "LoadLatestJob" \notin Faults, "LoadJobHistory" \notin Faults,
         TypeOK, JobInv, HistoryInv, LoopStep
  PROVE  HistoryInv'
<1> USE DEF HistoryInv, store, env
<1>0. now \in Nat
  BY DEF TypeOK, EnvOK, Time
<1>1. CASE RestoreLatest
  <2>1. \A j \in LatestRow : j \in DOMAIN history' /\ history'[j] = jobHist[j]
    <3>1. CASE LatestRow = {}
      BY <3>1
    <3>2. CASE LatestRow # {}
      <4>1. \A i, j \in LatestRow : i = j
        BY DEF LatestRow, TypeOK, StoreOK, IsTable
      <4>2. PICK j \in LatestRow : history' = Put(history, j, jobHist[j])
        BY <1>1, <3>2 DEF RestoreLatest, LatestRow
      <4> QED
        BY <4>1, <4>2 DEF Put
    <3> QED
      BY <3>1, <3>2
  <2>2. pc' = "history" /\ UNCHANGED jobHist
    BY <1>1 DEF RestoreLatest
  <2>3. LatestRow' = LatestRow
    BY <2>2 DEF LatestRow
  <2> QED
    BY <2>1, <2>2, <2>3 DEF RowsInHistory, CurrentInHistory, InHistory
<1>2. CASE RestoreHistory
  <2>1. history' = [j \in DOMAIN history \cup LoadJobHistory |->
                      IF j \in LoadJobHistory THEN jobHist[j] ELSE history[j]]
    BY <1>2 DEF RestoreHistory
  <2>2. pc = "history" /\ pc' = "rotate" /\ UNCHANGED <<jobHist, now>>
    BY <1>2 DEF RestoreHistory
  <2>3. ASSUME NEW j \in DOMAIN jobHist
        PROVE  InHistory(j)' \/ Outdated(j)'
    <3>1. CASE j \in LoadJobHistory
      BY <2>1, <2>2, <3>1 DEF InHistory
    <3>2. CASE j \in LatestRow
      <4>1. InHistory(j)
        BY <2>2, <3>2 DEF RowsInHistory
      <4> QED
        BY <2>1, <2>2, <4>1 DEF InHistory
    <3>3. CASE j \notin LoadJobHistory /\ j \notin LatestRow
      <4>1. jobHist[j].at < now - HistoryWindow
        <5>1. jobHist[j].at \in Nat /\ now \in Nat /\ HistoryWindow \in Nat
          BY ConstantsAssumption DEF TypeOK, StoreOK, EnvOK, IsTable, JobRecord, Time
        <5> QED
          BY <3>3, <5>1 DEF LoadJobHistory
      <4> QED
        BY <2>2, <3>3, <4>1 DEF Outdated, LatestRow
    <3> QED
      BY <3>1, <3>2, <3>3
  <2> QED
    BY <2>2, <2>3 DEF RowsInHistory, CurrentInHistory
<1>3. CASE RotateJob
  <2>1. \A j \in DOMAIN jobHist : j # jobID + 1
    BY <1>3 DEF RotateJob, JobInv, NoneAhead, TypeOK, StoreOK, IsTable, LoopOK
  <2>2. /\ jobID + 1 \in DOMAIN history' /\ history'[jobID + 1].nonce = draws + 1
        /\ \A j \in DOMAIN history : j \in DOMAIN history'
        /\ \A j \in DOMAIN history : j # jobID + 1 => history'[j] = history[j]
    BY <1>3 DEF RotateJob, Put
  <2>3. pc = "rotate" /\ pc' = "save" /\ UNCHANGED <<jobHist, now>>
    BY <1>3 DEF RotateJob
  <2>4. \A j \in DOMAIN jobHist : (InHistory(j) => InHistory(j)') /\ Outdated(j)' = Outdated(j)
    BY <2>1, <2>2, <2>3 DEF InHistory, Outdated, LatestRow
  <2>5. RowsInHistory'
    BY <2>3, <2>4 DEF RowsInHistory
  <2> QED
    BY <1>3, <2>2, <2>5 DEF RotateJob, CurrentInHistory
<1>4. CASE SaveJob
  <2>0. pc = "save" /\ pc' = "snapshot" /\ UNCHANGED <<history, now>>
    BY <1>4 DEF SaveJob
  <2>1. /\ \A j \in DOMAIN jobHist : j \in DOMAIN jobHist' /\ jobHist'[j] = jobHist[j]
        /\ \A j \in DOMAIN jobHist' :
             j \in DOMAIN jobHist \/ (j = jobID /\ jobHist'[j].nonce = serverNonce)
    BY <1>4 DEF SaveJob, Put
  <2>2. ASSUME NEW j \in DOMAIN jobHist'
        PROVE  InHistory(j)' \/ Outdated(j)'
    <3>1. CASE j \in DOMAIN jobHist /\ InHistory(j)
      BY <2>0, <2>1, <3>1 DEF InHistory
    <3>2. CASE j \in DOMAIN jobHist /\ Outdated(j)
      BY <1>0, <2>0, <2>1, <3>2, StaysOutdated
    <3>3. CASE j \notin DOMAIN jobHist
      BY <2>0, <2>1, <3>3 DEF InHistory, CurrentInHistory
    <3> QED
      BY <2>0, <3>1, <3>2, <3>3 DEF RowsInHistory
  <2> QED
    BY <2>0, <2>2 DEF RowsInHistory, CurrentInHistory
<1>5. ASSUME UNCHANGED <<jobHist, now, history, jobID, serverNonce>>,
             pc \notin {"latest", "history"}, pc' \notin {"latest", "history", "save"}
      PROVE  HistoryInv'
  BY <1>5 DEF RowsInHistory, CurrentInHistory, InHistory, Outdated, LatestRow
<1>6. CASE BroadcastSnapshot \/ BroadcastLock \/ BroadcastUnlock \/ TickerFires \/ StopLoop
  BY <1>5, <1>6 DEF BroadcastSnapshot, BroadcastLock, BroadcastUnlock, TickerFires, StopLoop
<1>7. ASSUME NEW c \in Chan, PushJobID(c) \/ PushNonce(c) PROVE HistoryInv'
  BY <1>5, <1>7 DEF PushJobID, PushNonce
<1> QED
  BY <1>1, <1>2, <1>3, <1>4, <1>6, <1>7 DEF LoopStep

\* All other steps leave job_history and the history alone, or restart.
LEMMA OtherHistory ==
  ASSUME TypeOK, HistoryInv,
         \/ UNCHANGED vars
         \/ \E c \in Chan : ConnStep(c)
         \/ \E h \in Handler : HandlerStep(h)
         \/ Tick \/ Crash
  PROVE  HistoryInv'
<1>0. now \in Nat
  BY DEF TypeOK, EnvOK, Time
<1>1. ASSUME UNCHANGED <<jobHist, pc, jobID, serverNonce, history>>, now' \in Nat, now <= now'
      PROVE  HistoryInv'
  <2>1. \A j \in DOMAIN jobHist : InHistory(j)' = InHistory(j)
    BY <1>1 DEF InHistory
  <2>2. \A j \in DOMAIN jobHist : Outdated(j) => Outdated(j)'
    BY <1>1, StaysOutdated
  <2>3. LatestRow' = LatestRow /\ LatestRow \subseteq DOMAIN jobHist
    BY <1>1 DEF LatestRow
  <2>4. RowsInHistory'
    BY <1>1, <2>1, <2>2, <2>3 DEF HistoryInv, RowsInHistory
  <2> QED
    BY <1>1, <2>4 DEF HistoryInv, CurrentInHistory
<1>2. CASE Crash
  BY <1>2 DEF Crash, HistoryInv, RowsInHistory, CurrentInHistory
<1>3. CASE UNCHANGED vars
  BY <1>0, <1>1, <1>3 DEF vars, env, store, loop
<1>4. CASE Tick
  <2>1. now' = now + 1 /\ UNCHANGED <<jobHist, pc, jobID, serverNonce, history>>
    BY <1>4 DEF Tick, store, loop
  <2> QED
    BY <1>0, <1>1, <2>1
<1>5. CASE (\E c \in Chan : ConnStep(c)) \/ (\E h \in Handler : HandlerStep(h))
  <2>1. UNCHANGED <<jobHist, pc, jobID, serverNonce, history, now>>
    BY <1>5, ZenonT(30) DEF env, store, loop, ConnStep, HandlerStep, RefuseConnection,
       RegisterSession, RestoreUserState, AddChannel, RemoveChannel, UnregisterSession,
       Receive, Lookup, CheckJob, AdoptHistory, ReadClock, RateCheck, FindMap, MakeMap, DupCheck,
       Verify, RecordNonce, StampSubmit, SaveUsedNonce, SaveUserState, PublishEvent
  <2> QED
    BY <1>0, <1>1, <2>1
<1> QED
  BY <1>2, <1>3, <1>4, <1>5

\* Every job a client was ever told of that is not older than historyWindow can
\* be judged once restore has run, and the latest one always, however often the
\* process restarted and whatever the window is, when the three calls about jobs
\* do not fail.
THEOREM JobsServable ==
  ASSUME "LoadLatestJob" \notin Faults, "SaveJob" \notin Faults,
         "LoadJobHistory" \notin Faults
  PROVE  Spec => []KnownJobsServable
<1>1. Init => HistoryInv
  BY DEF Init, HistoryInv, RowsInHistory, CurrentInHistory
<1>2. TypeOK /\ JobInv /\ HistoryInv /\ [Next]_vars => HistoryInv'
  BY LoopHistory, OtherHistory DEF Next
<1>3. JobInv /\ HistoryInv => KnownJobsServable
  BY DEF JobInv, KnownPersisted, HistoryInv, RowsInHistory, InHistory, KnownJobsServable
<1> QED
  BY <1>1, <1>2, <1>3, CoordinatorTypes, JobInvariant, PTL DEF Spec

-----------------------------------------------------------------------------
(* Sessions and rows of user_state.  A handler that has read the session's *)
(* job for SaveUserState carries a job that job_history holds as well.     *)

Persisted(j) == j \in {0} \cup DOMAIN jobHist

AheadInv ==
  /\ pc \in {"snapshot", "lock", "push"} => jobID \in DOMAIN jobHist
  /\ \A h \in Handler : Persisted(hs[h].job)
  /\ SessionsNotAhead

\* The steps of the loop preserve AheadInv: job_history only grows, and a
\* session gets a job id only after SaveJob.
LEMMA LoopAhead ==
  ASSUME "SaveJob" \notin Faults, TypeOK, AheadInv, LoopStep
  PROVE  AheadInv'
<1> USE DEF store, env, table, Persisted, SessionsNotAhead
<1>1. CASE RestoreLatest \/ RestoreHistory \/ RotateJob
  BY <1>1 DEF RestoreLatest, LatestRow, RestoreHistory, RotateJob, AheadInv
<1>2. CASE SaveJob
  <2>1. DOMAIN jobHist' = DOMAIN jobHist \cup {jobID}
    BY <1>2 DEF SaveJob, Put
  <2> QED
    BY <1>2, <2>1 DEF SaveJob, AheadInv
<1>3. CASE BroadcastSnapshot \/ BroadcastLock \/ BroadcastUnlock \/ TickerFires \/ StopLoop
  BY <1>3 DEF BroadcastSnapshot, BroadcastLock, BroadcastUnlock, TickerFires, StopLoop,
     AheadInv
<1>4. ASSUME NEW c \in Chan, PushJobID(c) \/ PushNonce(c) PROVE AheadInv'
  <2>1. \A d \in Chan : sess'[d].job \in {sess[d].job, jobID}
    <3>1. sess \in [Chan -> Session]
      BY DEF TypeOK, ConnOK
    <3>2. CASE PushJobID(c)
      BY <3>1, <3>2 DEF PushJobID, Session
    <3>3. CASE PushNonce(c)
      BY <3>1, <3>3 DEF PushNonce, Session
    <3> QED
      BY <1>4, <3>2, <3>3
  <2>2. jobID \in DOMAIN jobHist
    BY <1>4 DEF PushJobID, PushNonce, AheadInv
  <2> QED
    BY <1>4, <2>1, <2>2 DEF PushJobID, PushNonce, AheadInv
<1> QED
  BY <1>1, <1>2, <1>3, <1>4 DEF LoopStep

\* Steps of connections: a session's job is restored from user_state.
LEMMA ConnAhead ==
  ASSUME TypeOK, AheadInv, NEW c \in Chan, ConnStep(c)
  PROVE  AheadInv'
<1> USE DEF store, loop, Persisted, SessionsNotAhead
<1>1. CASE RefuseConnection(c) \/ AddChannel(c) \/ RemoveChannel(c) \/ UnregisterSession(c)
  BY <1>1 DEF RefuseConnection, AddChannel, RemoveChannel, UnregisterSession, AheadInv
<1>2. ASSUME NEW u \in User, RegisterSession(c, u) PROVE AheadInv'
  <2>1. [ZeroSession EXCEPT !.user = u].job = 0
    BY DEF ZeroSession
  <2>2. \A d \in Chan : sess'[d].job \in {sess[d].job, 0}
    BY <1>2, <2>1 DEF RegisterSession, TypeOK, ConnOK
  <2> QED
    BY <1>2, <2>2 DEF RegisterSession, AheadInv
<1>3. CASE RestoreUserState(c)
  <2>1. sess[c].user \in User
    BY <1>3 DEF RestoreUserState, TypeOK, UsersOK
  <2>2. \A d \in Chan : sess'[d].job \in {sess[d].job, userStates[sess[c].user].job}
    BY <1>3 DEF RestoreUserState, TypeOK, ConnOK, Session
  <2> QED
    BY <1>3, <2>1, <2>2 DEF RestoreUserState, AheadInv
<1> QED
  BY <1>1, <1>2, <1>3 DEF ConnStep

\* Steps of handlers: they write no session's job, read it, and save it.
LEMMA HandlerAhead ==
  ASSUME TypeOK, AheadInv, NEW h \in Handler, HandlerStep(h)
  PROVE  AheadInv'
<1>1. UNCHANGED <<jobHist, pc, jobID>>
  BY DEF HandlerStep, store, loop, Receive, Lookup, CheckJob, AdoptHistory, ReadClock, RateCheck,
     FindMap, MakeMap, DupCheck, Verify, RecordNonce, StampSubmit, SaveUsedNonce,
     SaveUserState, PublishEvent
<1>2. \A d \in Chan : sess'[d].job = sess[d].job
  <2>1. sess \in [Chan -> Session]
    BY DEF TypeOK, ConnOK
  <2>2. CASE AdoptHistory(h)
    BY <2>1, <2>2 DEF AdoptHistory, Session
  <2>3. CASE StampSubmit(h)
    BY <2>1, <2>3 DEF StampSubmit, Session
  <2>4. CASE MakeMap(h)
    BY <2>1, <2>4 DEF MakeMap, Session
  <2>5. CASE RecordNonce(h)
    <3> DEFINE U(d) == sess[d].used \cup {<<hs[h].sub.job, hs[h].m, hs[h].sub.cn>>}
    <3>1. sess' = [sess EXCEPT ![hs[h].ch].used = U(hs[h].ch)]
      BY <2>1, <2>5, BusyHandler DEF RecordNonce, Busy
    <3> HIDE DEF U
    <3> QED
      BY <2>1, <3>1 DEF Session
  <2>6. CASE UNCHANGED sess
    BY <2>6
  <2> QED
    BY <2>2, <2>3, <2>4, <2>5, <2>6 DEF HandlerStep, Receive, Lookup, CheckJob, ReadClock,
       RateCheck, FindMap, DupCheck, Verify, SaveUsedNonce, SaveUserState, PublishEvent
<1>3. /\ hs \in [Handler -> HandlerState]
      /\ hs[h].pc \in Busy => sess[hs[h].ch].job \in {sess[d].job : d \in Chan}
                              /\ sess[hs[h].ch].user \in User
  BY DEF TypeOK, HandlerOK, UsersOK
<1>4. \A g \in Handler : hs'[g].job \in {0, hs[g].job} \cup {sess[d].job : d \in Chan}
  <2>1. CASE SaveUsedNonce(h)
    BY <2>1, <1>3 DEF SaveUsedNonce, HandlerState, Busy
  <2>2. ASSUME NEW step, Goto(h, step)
        PROVE  \A g \in Handler : hs'[g].job = hs[g].job
    BY <2>2, <1>3 DEF Goto, HandlerState
  <2>3. CASE Return(h)
    BY <2>3, <1>3 DEF Return, Idle
  <2>4. ASSUME NEW c \in Chan, NEW sb, Receive(h, c, sb)
        PROVE  \A g \in Handler : hs'[g].job \in {0, hs[g].job}
    <3>1. [Idle EXCEPT !.pc = "lookup", !.ch = c, !.sub = sb].job = 0
      BY DEF Idle
    <3> QED
      BY <2>4, <3>1, <1>3 DEF Receive
  <2>5. CASE CheckJob(h)
    BY <2>2, <2>3, <2>5, <1>3 DEF CheckJob, HandlerState
  <2>6. CASE ReadClock(h)
    BY <2>6, <1>3 DEF ReadClock, HandlerState
  <2>7. CASE FindMap(h) \/ MakeMap(h)
    <3>1. ASSUME NEW step, NEW n, hs' = [hs EXCEPT ![h].pc = step, ![h].m = n]
          PROVE  \A g \in Handler : hs'[g].job = hs[g].job
      BY <3>1, <1>3 DEF HandlerState
    <3>2. CASE FindMap(h)
      BY <3>1, <3>2 DEF FindMap
    <3>3. CASE MakeMap(h)
      BY <3>1, <3>3 DEF MakeMap
    <3> QED
      BY <2>7, <3>2, <3>3
  <2> QED
    BY <2>1, <2>2, <2>3, <2>4, <2>5, <2>6, <2>7 DEF HandlerStep, Lookup, AdoptHistory,
       RateCheck, DupCheck, Verify, RecordNonce, StampSubmit, SaveUserState, PublishEvent
<1>5. \A u \in User : userStates'[u].job \in {userStates[u].job, hs[h].job}
  <2>1. CASE SaveUserState(h)
    BY <2>1 DEF SaveUserState, TypeOK, StoreOK
  <2>2. CASE ~SaveUserState(h)
    BY <2>2 DEF HandlerStep, store, Receive, Lookup, CheckJob, AdoptHistory, ReadClock, RateCheck,
       FindMap, MakeMap, DupCheck, Verify, RecordNonce, StampSubmit, SaveUsedNonce,
       PublishEvent
  <2> QED
    BY <2>1, <2>2
<1> QED
  BY <1>1, <1>2, <1>4, <1>5 DEF AheadInv, Persisted, SessionsNotAhead

\* No session and no row of user_state is ahead of job_history, over any number
\* of restarts, if SaveJob does not fail; every other call of the store may.
THEOREM SessionsPersisted ==
  ASSUME "SaveJob" \notin Faults
  PROVE  Spec => []SessionsNotAhead
<1>1. Init => AheadInv
  BY DEF Init, AheadInv, Persisted, SessionsNotAhead, Idle, ZeroSession, ZeroState
<1>2. TypeOK /\ AheadInv /\ [Next]_vars => AheadInv'
  <2> SUFFICES ASSUME TypeOK, AheadInv, [Next]_vars PROVE AheadInv'
    OBVIOUS
  <2>1. CASE UNCHANGED vars
    BY <2>1 DEF vars, store, loop, AheadInv, Persisted, SessionsNotAhead
  <2>2. CASE Tick \/ Crash
    BY <2>2 DEF Tick, Crash, store, loop, AheadInv, Persisted, SessionsNotAhead, Idle,
       ZeroSession
  <2> QED
    BY <2>1, <2>2, LoopAhead, ConnAhead, HandlerAhead DEF Next
<1>3. AheadInv => SessionsNotAhead
  BY DEF AheadInv
<1> QED
  BY <1>1, <1>2, <1>3, CoordinatorTypes, PTL DEF Spec

-----------------------------------------------------------------------------
(* Stages of handleSubmit *)

\* Past the rate limit; past the duplicate check; the client nonce is in
\* UsedNonces; LastSubmitAt is set; SaveUsedNonce has been called.
Unseen   == {"verify", "record", "stamp", "saveNonce", "saveState", "publish"}
Judged   == {"map", "make", "dup"} \cup Unseen
Recorded == {"stamp", "saveNonce", "saveState", "publish"}
Stamped  == {"saveNonce", "saveState", "publish"}
Saved    == {"saveState", "publish"}

\* What the invariants below say of a session does not depend on its job and
\* nonce, the two fields that the loop and AdoptHistory write.
SessionsKeep ==
  \A d \in Chan : /\ sess'[d].user = sess[d].user /\ sess'[d].last = sess[d].last
                  /\ sess'[d].maps = sess[d].maps /\ sess'[d].used = sess[d].used

\* A goroutine that has returned holds no connection; one that runs was
\* started by a connection that was open.
HandlersAt ==
  \A h \in Handler :
    /\ hs[h].pc = "idle" => hs[h].ch = None
    /\ hs[h].pc \in Busy => conn[hs[h].ch] \in {"open", "removed", "gone"}

\* A submission past SaveUsedNonce is in used_nonce under the session's user.
HandlersPersisted ==
  \A h \in Handler : hs[h].pc \in Saved =>
    <<sess[hs[h].ch].user, hs[h].sub.job, hs[h].sub.cn>> \in usedNonces

PersistInv == HandlersAt /\ HandlersPersisted /\ AcceptedPersisted

\* The server still works with the session of connection c.
Attended(c) == conn[c] \notin {"none", "gone"} \/ \E h \in Handler : hs[h].ch = c

\* With one request in flight per connection, no two goroutines share one; with
\* one connection per user, no two attended sessions have one user.
OneRequest ==
  \A g, h \in Handler : hs[h].pc \in Busy /\ hs[g].ch = hs[h].ch => g = h

OneSession ==
  \A c, d \in Chan : Attended(c) /\ Attended(d) /\ sess[c].user = sess[d].user => c = d

SerialInv == HandlersAt /\ OneRequest /\ OneSession

\* At most one inner map is made per job, so UsedNonces of an attended session
\* holds all that was accepted on its connection, and a submission that passed
\* the duplicate check was not accepted before.
OneMap ==
  /\ \A c \in Chan : \A j \in JobId : sess[c].maps[j] \in {0, 1}
  /\ \A h \in Handler :
       /\ hs[h].pc = "make" => sess[hs[h].ch].maps[hs[h].sub.job] = 0
       /\ hs[h].pc \in {"dup"} \cup Unseen => hs[h].m = 1

UsedRemembers ==
  /\ \A c \in Chan : \A i \in DOMAIN accepted : accepted[i].ch = c =>
       /\ conn[c] # "none"
       /\ Attended(c) => <<accepted[i].job, 1, accepted[i].cn>> \in sess[c].used
  /\ \A h \in Handler : hs[h].pc \in Recorded =>
       <<hs[h].sub.job, 1, hs[h].sub.cn>> \in sess[hs[h].ch].used

NotAccepted ==
  \A h \in Handler : hs[h].pc \in Unseen =>
    \A i \in DOMAIN accepted :
      <<accepted[i].ch, accepted[i].job, accepted[i].cn>> #
        <<hs[h].ch, hs[h].sub.job, hs[h].sub.cn>>

FreshInv == OneMap /\ UsedRemembers /\ NotAccepted

\* user_state, and the session once it is restored, hold a time that is not
\* before any accepted submission of the user; a submission past the rate
\* limit is a second after all of them.
Restored(c) == conn[c] \in {"restored", "open", "removed"} \/ \E h \in Handler : hs[h].ch = c

LastCovers ==
  \A i \in DOMAIN accepted :
    /\ accepted[i].at > 0
    /\ \A u \in User : accepted[i].user = u => accepted[i].at <= userStates[u].last
    /\ \A c \in Chan : Restored(c) /\ sess[c].user = accepted[i].user =>
         accepted[i].at <= sess[c].last

HandlersSpaced ==
  \A h \in Handler :
    /\ hs[h].pc \in Judged =>
         /\ hs[h].at > 0
         /\ \A i \in DOMAIN accepted : accepted[i].user = sess[hs[h].ch].user =>
              hs[h].at - accepted[i].at >= Second
    /\ hs[h].pc = "limit" => hs[h].at > 0
    /\ hs[h].pc \in Stamped => sess[hs[h].ch].last = hs[h].at
    /\ hs[h].pc = "publish" => userStates[sess[hs[h].ch].user].last = hs[h].at

SpaceInv == now > 0 /\ LastCovers /\ HandlersSpaced /\ RateLimitPerUser

-----------------------------------------------------------------------------
(* What a step of a handler does, field by field *)

\* The types that the lemmas below start from.
LEMMA Shapes ==
  ASSUME TypeOK
  PROVE  /\ hs \in [Handler -> HandlerState] /\ sess \in [Chan -> Session]
         /\ conn \in [Chan -> ConnPhase] /\ accepted \in Seq(Event)
         /\ userStates \in [User -> UserState] /\ None \notin Chan
  BY ConstantsAssumption DEF TypeOK, HandlerOK, ConnOK, LogOK, StoreOK

\* A goroutine that returns is idle and holds no connection.
LEMMA ReturnFields ==
  ASSUME TypeOK, NEW h \in Handler, Return(h)
  PROVE  /\ hs'[h].pc = "idle" /\ hs'[h].ch = None
         /\ \A g \in Handler \ {h} : hs'[g] = hs[g]
  BY Shapes DEF Return, Idle

\* A goroutine that goes on to another step changes nothing else of its own.
LEMMA GotoFields ==
  ASSUME TypeOK, NEW h \in Handler, NEW step, Goto(h, step)
  PROVE  /\ hs'[h].pc = step /\ hs'[h].ch = hs[h].ch /\ hs'[h].sub = hs[h].sub
         /\ hs'[h].at = hs[h].at /\ hs'[h].m = hs[h].m
         /\ \A g \in Handler \ {h} : hs'[g] = hs[g]
  BY Shapes DEF Goto, HandlerState

\* A started goroutine is at the lookup, on the connection it was started for.
LEMMA ReceiveFields ==
  ASSUME TypeOK, NEW h \in Handler, NEW c \in Chan, NEW s, Receive(h, c, s)
  PROVE  /\ hs[h].pc = "idle" /\ conn[c] = "open"
         /\ Serial => \A g \in Handler : hs[g].ch # c
         /\ hs'[h].pc = "lookup" /\ hs'[h].ch = c /\ hs'[h].sub = s
         /\ \A g \in Handler \ {h} : hs'[g] = hs[g]
         /\ UNCHANGED <<conn, sess, userStates, usedNonces, accepted>>
<1> DEFINE r == [Idle EXCEPT !.pc = "lookup", !.ch = c, !.sub = s]
<1>1. r.pc = "lookup" /\ r.ch = c /\ r.sub = s
  BY DEF Idle
<1>2. hs' = [hs EXCEPT ![h] = r]
  BY DEF Receive
<1> HIDE DEF r
<1> QED
  BY <1>1, <1>2, Shapes DEF Receive, store, table

\* A submission is judged at the time the clock was read.
LEMMA ClockFields ==
  ASSUME TypeOK, NEW h \in Handler, ReadClock(h)
  PROVE  /\ hs'[h].pc = "limit" /\ hs'[h].ch = hs[h].ch /\ hs'[h].sub = hs[h].sub
         /\ hs'[h].at = now /\ hs'[h].m = hs[h].m
         /\ \A g \in Handler \ {h} : hs'[g] = hs[g]
  BY Shapes DEF ReadClock, HandlerState

\* A submission that passes the rate limit was read a second after the last.
LEMMA RateFields ==
  ASSUME TypeOK, NEW h \in Handler, RateCheck(h), ~ Return(h)
  PROVE  /\ sess[hs[h].ch].last = 0 \/ hs[h].at - sess[hs[h].ch].last >= Second
         /\ hs'[h].pc = "map" /\ hs'[h].ch = hs[h].ch /\ hs'[h].sub = hs[h].sub
         /\ hs'[h].at = hs[h].at /\ hs'[h].m = hs[h].m
         /\ \A g \in Handler \ {h} : hs'[g] = hs[g]
<1>1. /\ Goto(h, "map")
      /\ ~ (sess[hs[h].ch].last # 0 /\ hs[h].at - sess[hs[h].ch].last < Second)
  BY DEF RateCheck
<1>2. sess[hs[h].ch].last \in Int /\ hs[h].at \in Int /\ Second \in Int
  BY BusyHandler, Shapes, ConstantsAssumption
     DEF RateCheck, Busy, Session, Time, HandlerState
<1> QED
  BY <1>1, <1>2, GotoFields

\* A submission whose job is not the session's takes the record of the history.
LEMMA CheckFields ==
  ASSUME TypeOK, NEW h \in Handler, CheckJob(h), ~ Return(h)
  PROVE  /\ hs'[h].pc \in {"rate", "adopt"}
         /\ hs'[h].ch = hs[h].ch /\ hs'[h].sub = hs[h].sub
         /\ hs'[h].at = hs[h].at /\ hs'[h].m = hs[h].m
         /\ \A g \in Handler \ {h} : hs'[g] = hs[g]
<1>1. CASE Goto(h, "rate")
  BY <1>1, GotoFields
<1>2. CASE hs' = [hs EXCEPT ![h].pc = "adopt", ![h].rec = history[hs[h].sub.job]]
  BY <1>2, Shapes DEF HandlerState
<1> QED
  BY <1>1, <1>2 DEF CheckJob

\* FindMap reads the number of inner maps the session has for the job.
LEMMA FindFields ==
  ASSUME TypeOK, NEW h \in Handler, FindMap(h)
  PROVE  /\ hs'[h].m = sess[hs[h].ch].maps[hs[h].sub.job]
         /\ hs'[h].pc = IF hs'[h].m = 0 THEN "make" ELSE "dup"
         /\ hs'[h].ch = hs[h].ch /\ hs'[h].sub = hs[h].sub /\ hs'[h].at = hs[h].at
         /\ \A g \in Handler \ {h} : hs'[g] = hs[g]
<1> DEFINE m == sess[hs[h].ch].maps[hs[h].sub.job]
<1>1. hs' = [hs EXCEPT ![h].pc = IF m = 0 THEN "make" ELSE "dup", ![h].m = m]
  BY DEF FindMap
<1> HIDE DEF m
<1>2. /\ hs'[h].pc = (IF m = 0 THEN "make" ELSE "dup") /\ hs'[h].m = m
      /\ hs'[h].ch = hs[h].ch /\ hs'[h].sub = hs[h].sub /\ hs'[h].at = hs[h].at
      /\ \A g \in Handler \ {h} : hs'[g] = hs[g]
  BY <1>1, Shapes DEF HandlerState
<1> QED
  BY <1>2 DEF m

\* MakeMap adds one, in the session and for the submission.
LEMMA MakeFields ==
  ASSUME TypeOK, NEW h \in Handler, MakeMap(h)
  PROVE  LET c == hs[h].ch  j == hs[h].sub.job IN
         /\ hs'[h].m = sess[c].maps[j] + 1 /\ hs'[h].pc = "dup"
         /\ hs'[h].ch = c /\ hs'[h].sub = hs[h].sub /\ hs'[h].at = hs[h].at
         /\ \A g \in Handler \ {h} : hs'[g] = hs[g]
         /\ \A d \in Chan \ {c} : sess'[d] = sess[d]
         /\ sess'[c].user = sess[c].user /\ sess'[c].last = sess[c].last
         /\ sess'[c].used = sess[c].used
         /\ sess'[c].maps = [sess[c].maps EXCEPT ![j] = sess[c].maps[j] + 1]
<1> DEFINE m == sess[hs[h].ch].maps[hs[h].sub.job] + 1
<1>1. /\ hs' = [hs EXCEPT ![h].pc = "dup", ![h].m = m]
      /\ sess' = [sess EXCEPT ![hs[h].ch].maps[hs[h].sub.job] = m]
  BY DEF MakeMap
<1>2. hs[h].ch \in Chan
  BY BusyHandler DEF MakeMap, Busy
<1> HIDE DEF m
<1>3. /\ hs'[h].m = m /\ hs'[h].pc = "dup"
      /\ hs'[h].ch = hs[h].ch /\ hs'[h].sub = hs[h].sub /\ hs'[h].at = hs[h].at
      /\ \A g \in Handler \ {h} : hs'[g] = hs[g]
  BY <1>1, Shapes DEF HandlerState
<1>4. /\ \A d \in Chan \ {hs[h].ch} : sess'[d] = sess[d]
      /\ sess'[hs[h].ch].user = sess[hs[h].ch].user
      /\ sess'[hs[h].ch].last = sess[hs[h].ch].last
      /\ sess'[hs[h].ch].used = sess[hs[h].ch].used
      /\ sess'[hs[h].ch].maps = [sess[hs[h].ch].maps EXCEPT ![hs[h].sub.job] = m]
  BY <1>1, <1>2, Shapes DEF Session
<1> QED
  BY <1>3, <1>4 DEF m

\* RecordNonce adds the client nonce to the inner map the submission holds.
LEMMA RecordFields ==
  ASSUME TypeOK, NEW h \in Handler, RecordNonce(h)
  PROVE  LET c == hs[h].ch IN
         /\ \A d \in Chan \ {c} : sess'[d] = sess[d]
         /\ sess'[c].user = sess[c].user /\ sess'[c].last = sess[c].last
         /\ sess'[c].maps = sess[c].maps
         /\ sess'[c].used = sess[c].used \cup {<<hs[h].sub.job, hs[h].m, hs[h].sub.cn>>}
<1> DEFINE U == sess[hs[h].ch].used \cup {<<hs[h].sub.job, hs[h].m, hs[h].sub.cn>>}
<1>1. hs[h].ch \in Chan
  BY BusyHandler DEF RecordNonce, Busy
<1>2. sess' = [sess EXCEPT ![hs[h].ch].used = U]
  BY <1>1, Shapes DEF RecordNonce
<1> HIDE DEF U
<1>3. /\ \A d \in Chan \ {hs[h].ch} : sess'[d] = sess[d]
      /\ sess'[hs[h].ch].user = sess[hs[h].ch].user
      /\ sess'[hs[h].ch].last = sess[hs[h].ch].last
      /\ sess'[hs[h].ch].maps = sess[hs[h].ch].maps
      /\ sess'[hs[h].ch].used = U
  BY <1>1, <1>2, Shapes DEF Session
<1> QED
  BY <1>3 DEF U

\* StampSubmit sets LastSubmitAt to the time of the rate check.
LEMMA StampFields ==
  ASSUME TypeOK, NEW h \in Handler, StampSubmit(h)
  PROVE  LET c == hs[h].ch IN
         /\ \A d \in Chan \ {c} : sess'[d] = sess[d]
         /\ sess'[c].user = sess[c].user /\ sess'[c].last = hs[h].at
         /\ sess'[c].maps = sess[c].maps /\ sess'[c].used = sess[c].used
<1>1. hs[h].ch \in Chan
  BY BusyHandler DEF StampSubmit, Busy
<1> QED
  BY <1>1, Shapes DEF StampSubmit, Session

\* AdoptHistory writes the session's nonce, which no invariant here is about.
LEMMA AdoptFields ==
  ASSUME TypeOK, NEW h \in Handler, AdoptHistory(h)
  PROVE  SessionsKeep
<1>1. hs[h].ch \in Chan
  BY BusyHandler DEF AdoptHistory, Busy
<1> QED
  BY <1>1, Shapes DEF AdoptHistory, Session, SessionsKeep

\* SaveUsedNonce keeps the submission and reads the session's job.
LEMMA SaveNonceFields ==
  ASSUME TypeOK, NEW h \in Handler, SaveUsedNonce(h)
  PROVE  /\ hs'[h].pc = "saveState" /\ hs'[h].ch = hs[h].ch /\ hs'[h].sub = hs[h].sub
         /\ hs'[h].at = hs[h].at /\ hs'[h].m = hs[h].m
         /\ \A g \in Handler \ {h} : hs'[g] = hs[g]
  BY Shapes DEF SaveUsedNonce, HandlerState

-----------------------------------------------------------------------------
(* The steps as the invariants see them *)

Quietly == SessionsKeep /\ UNCHANGED <<userStates, usedNonces, accepted>>

Moves(h, p, q) ==
  /\ hs[h].pc = p /\ hs'[h].pc = q
  /\ hs'[h].ch = hs[h].ch /\ hs'[h].sub = hs[h].sub

Keeps(h) == hs'[h].at = hs[h].at /\ hs'[h].m = hs[h].m

Begins(h) ==
  /\ hs[h].pc = "idle" /\ hs'[h].pc = "lookup" /\ Quietly
  /\ hs'[h].ch \in Chan /\ conn[hs'[h].ch] = "open"
  /\ Serial => \A g \in Handler : hs[g].ch # hs'[h].ch

Ends(h) == hs[h].pc \in Busy /\ hs'[h].pc = "idle" /\ hs'[h].ch = None /\ Quietly

Checks(h) ==
  /\ \E p \in Busy : \E q \in {"check", "adopt", "rate"} : Moves(h, p, q)
  /\ Quietly

ReadsClock(h) == Moves(h, "rate", "limit") /\ hs'[h].at = now /\ Quietly

PassesRate(h) ==
  /\ Moves(h, "limit", "map") /\ Keeps(h) /\ Quietly
  /\ sess[hs[h].ch].last = 0 \/ hs[h].at - sess[hs[h].ch].last >= Second

FindsMap(h) ==
  /\ \E q \in {"make", "dup"} : Moves(h, "map", q) /\ (q = "make" <=> hs'[h].m = 0)
  /\ hs'[h].at = hs[h].at /\ hs'[h].m = sess[hs[h].ch].maps[hs[h].sub.job] /\ Quietly

MakesMap(h) ==
  LET c == hs[h].ch  j == hs[h].sub.job IN
  /\ Moves(h, "make", "dup") /\ hs'[h].at = hs[h].at /\ hs'[h].m = sess[c].maps[j] + 1
  /\ \A d \in Chan \ {c} : sess'[d] = sess[d]
  /\ sess'[c].user = sess[c].user /\ sess'[c].last = sess[c].last
  /\ sess'[c].used = sess[c].used
  /\ sess'[c].maps = [sess[c].maps EXCEPT ![j] = sess[c].maps[j] + 1]
  /\ UNCHANGED <<userStates, usedNonces, accepted>>

PassesDup(h) ==
  /\ Moves(h, "dup", "verify") /\ Keeps(h) /\ Quietly
  /\ <<hs[h].sub.job, hs[h].m, hs[h].sub.cn>> \notin sess[hs[h].ch].used

Verifies(h) == Moves(h, "verify", "record") /\ Keeps(h) /\ Quietly

Records(h) ==
  LET c == hs[h].ch IN
  /\ Moves(h, "record", "stamp") /\ Keeps(h)
  /\ \A d \in Chan \ {c} : sess'[d] = sess[d]
  /\ sess'[c].user = sess[c].user /\ sess'[c].last = sess[c].last
  /\ sess'[c].maps = sess[c].maps
  /\ sess'[c].used = sess[c].used \cup {<<hs[h].sub.job, hs[h].m, hs[h].sub.cn>>}
  /\ UNCHANGED <<userStates, usedNonces, accepted>>

Stamps(h) ==
  LET c == hs[h].ch IN
  /\ Moves(h, "stamp", "saveNonce") /\ Keeps(h)
  /\ \A d \in Chan \ {c} : sess'[d] = sess[d]
  /\ sess'[c].user = sess[c].user /\ sess'[c].last = hs[h].at
  /\ sess'[c].maps = sess[c].maps /\ sess'[c].used = sess[c].used
  /\ UNCHANGED <<userStates, usedNonces, accepted>>

SavesNonce(h) ==
  /\ Moves(h, "saveNonce", "saveState") /\ Keeps(h) /\ SessionsKeep
  /\ UNCHANGED <<userStates, accepted>> /\ usedNonces \subseteq usedNonces'
  /\ "SaveUsedNonce" \notin Faults =>
       <<sess[hs[h].ch].user, hs[h].sub.job, hs[h].sub.cn>> \in usedNonces'

SavesState(h) ==
  LET u == sess[hs[h].ch].user IN
  /\ Moves(h, "saveState", "publish") /\ Keeps(h) /\ SessionsKeep
  /\ UNCHANGED <<usedNonces, accepted>>
  /\ \A v \in User \ {u} : userStates'[v] = userStates[v]
  /\ "SaveUserState" \notin Faults => userStates'[u].last = sess[hs[h].ch].last

Publishes(h) ==
  /\ hs[h].pc = "publish" /\ hs'[h].pc = "idle" /\ hs'[h].ch = None
  /\ SessionsKeep /\ UNCHANGED <<userStates, usedNonces>>
  /\ accepted' = Append(accepted,
       [user |-> sess[hs[h].ch].user, ch |-> hs[h].ch, job |-> hs[h].sub.job,
        cn |-> hs[h].sub.cn, nonce |-> hs[h].sub.nonce, at |-> hs[h].at])

\* Each step of a goroutine is one of these, on its own connection's session.
LEMMA HandlerCases ==
  ASSUME TypeOK, NEW h \in Handler, HandlerStep(h)
  PROVE  /\ UNCHANGED <<conn, now, known>> /\ \A g \in Handler \ {h} : hs'[g] = hs[g]
         /\ \/ Begins(h) \/ Ends(h) \/ Checks(h) \/ ReadsClock(h) \/ PassesRate(h)
            \/ FindsMap(h) \/ MakesMap(h) \/ PassesDup(h) \/ Verifies(h) \/ Records(h) \/ Stamps(h)
            \/ SavesNonce(h) \/ SavesState(h) \/ Publishes(h)
<1> DEFINE Frame == UNCHANGED <<conn, now, known>> /\ \A g \in Handler \ {h} : hs'[g] = hs[g]
<1>a. UNCHANGED sess => SessionsKeep
  BY DEF SessionsKeep
<1>b. UNCHANGED <<env, store, loop, table, sess, known, accepted>> =>
        Quietly /\ UNCHANGED <<conn, now, known>>
  BY <1>a DEF Quietly, env, store, table
<1>c. ASSUME Return(h), hs[h].pc \in Busy,
             UNCHANGED <<env, store, loop, table, sess, known, accepted>>
      PROVE  Frame /\ Ends(h)
  BY <1>b, <1>c, ReturnFields DEF Ends
<1>d. ASSUME NEW p \in Busy, NEW q, hs[h].pc = p, Goto(h, q)
      PROVE  Moves(h, p, q) /\ Keeps(h) /\ \A g \in Handler \ {h} : hs'[g] = hs[g]
  BY <1>d, GotoFields DEF Moves, Keeps
<1>1. ASSUME NEW c \in Chan, NEW s, Receive(h, c, s) PROVE Frame /\ Begins(h)
  <2>1. UNCHANGED <<env, store, loop, table, sess, known, accepted>>
    BY <1>1 DEF Receive
  <2> QED
    BY <1>1, <1>b, <2>1, ReceiveFields DEF Begins
<1>2. CASE Lookup(h)
  <2>1. hs[h].pc = "lookup" /\ "lookup" \in Busy
        /\ UNCHANGED <<env, store, loop, table, sess, known, accepted>>
    BY <1>2 DEF Lookup, Busy
  <2>2. CASE Goto(h, "check")
    BY <1>b, <1>d, <2>1, <2>2 DEF Checks
  <2> QED
    BY <1>2, <1>c, <2>1, <2>2 DEF Lookup
<1>3. CASE CheckJob(h)
  <2>1. hs[h].pc = "check" /\ "check" \in Busy
        /\ UNCHANGED <<env, store, loop, table, sess, known, accepted>>
    BY <1>3 DEF CheckJob, Busy
  <2>2. CASE ~ Return(h)
    BY <1>3, <1>b, <2>1, <2>2, CheckFields DEF Checks, Moves
  <2> QED
    BY <1>c, <2>1, <2>2
<1>4. CASE AdoptHistory(h)
  <2>1. /\ hs[h].pc = "adopt" /\ "adopt" \in Busy
        /\ UNCHANGED <<env, store, loop, table, known, accepted>>
    BY <1>4 DEF AdoptHistory, Busy
  <2>2. Quietly /\ UNCHANGED <<conn, now, known>>
    BY <1>4, <2>1, AdoptFields DEF Quietly, env, store, table
  <2>3. CASE Goto(h, "rate")
    BY <1>d, <2>1, <2>2, <2>3 DEF Checks
  <2>4. CASE Return(h)
    BY <2>1, <2>2, <2>4, ReturnFields DEF Ends
  <2> QED
    BY <1>4, <2>3, <2>4 DEF AdoptHistory
<1>r. CASE ReadClock(h)
  <2>1. hs[h].pc = "rate"
        /\ UNCHANGED <<env, store, loop, table, sess, known, accepted>>
    BY <1>r DEF ReadClock
  <2> QED
    BY <1>r, <1>b, <2>1, ClockFields DEF ReadsClock, Moves
<1>5. CASE RateCheck(h)
  <2>1. hs[h].pc = "limit" /\ "limit" \in Busy
        /\ UNCHANGED <<env, store, loop, table, sess, known, accepted>>
    BY <1>5 DEF RateCheck, Busy
  <2>2. CASE ~ Return(h)
    BY <1>5, <1>b, <2>1, <2>2, RateFields DEF PassesRate, Moves, Keeps
  <2> QED
    BY <1>c, <2>1, <2>2
<1>6. CASE FindMap(h)
  <2>1. hs[h].pc = "map"
        /\ UNCHANGED <<env, store, loop, table, sess, known, accepted>>
    BY <1>6 DEF FindMap
  <2> QED
    BY <1>6, <1>b, <2>1, FindFields DEF FindsMap, Moves
<1>7. CASE MakeMap(h)
  <2>1. hs[h].pc = "make" /\ UNCHANGED <<env, store, loop, table, known, accepted>>
    BY <1>7 DEF MakeMap
  <2> QED
    BY <1>7, <2>1, MakeFields DEF MakesMap, Moves, env, store, table
<1>8. CASE DupCheck(h)
  <2>1. hs[h].pc = "dup" /\ "dup" \in Busy
        /\ UNCHANGED <<env, store, loop, table, sess, known, accepted>>
    BY <1>8 DEF DupCheck, Busy
  <2> QED
    BY <1>8, <1>b, <1>c, <1>d, <2>1 DEF DupCheck, PassesDup
<1>9. CASE Verify(h)
  <2>1. hs[h].pc = "verify" /\ "verify" \in Busy
        /\ UNCHANGED <<env, store, loop, table, sess, known, accepted>>
    BY <1>9 DEF Verify, Busy
  <2> QED
    BY <1>9, <1>b, <1>c, <1>d, <2>1 DEF Verify, Verifies
<1>10. CASE RecordNonce(h)
  <2>1. /\ hs[h].pc = "record" /\ "record" \in Busy /\ Goto(h, "stamp")
        /\ UNCHANGED <<env, store, loop, table, known, accepted>>
    BY <1>10 DEF RecordNonce, Busy
  <2> QED
    BY <1>10, <1>d, <2>1, RecordFields DEF Records, env, store, table
<1>11. CASE StampSubmit(h)
  <2>1. /\ hs[h].pc = "stamp" /\ "stamp" \in Busy /\ Goto(h, "saveNonce")
        /\ UNCHANGED <<env, store, loop, table, known, accepted>>
    BY <1>11 DEF StampSubmit, Busy
  <2> QED
    BY <1>11, <1>d, <2>1, StampFields DEF Stamps, env, store, table
<1>12. CASE SaveUsedNonce(h)
  BY <1>12, <1>a, SaveNonceFields DEF SaveUsedNonce, SavesNonce, Moves, Keeps, env, table
<1>13. CASE SaveUserState(h)
  <2>1. hs[h].pc = "saveState" /\ "saveState" \in Busy /\ Goto(h, "publish")
    BY <1>13 DEF SaveUserState, Busy
  <2>2. sess[hs[h].ch].user \in User
    BY <2>1, BusyHandler
  <2>3. /\ \A v \in User \ {sess[hs[h].ch].user} : userStates'[v] = userStates[v]
        /\ "SaveUserState" \notin Faults =>
             userStates'[sess[hs[h].ch].user].last = sess[hs[h].ch].last
    BY <1>13, <2>2, Shapes DEF SaveUserState
  <2> QED
    BY <1>13, <1>a, <1>d, <2>1, <2>3 DEF SaveUserState, SavesState, env, table
<1>14. CASE PublishEvent(h)
  BY <1>14, <1>a, ReturnFields DEF PublishEvent, Publishes, env, store, table
<1> QED
  BY <1>1, <1>2, <1>3, <1>4, <1>r, <1>5, <1>6, <1>7, <1>8, <1>9, <1>10, <1>11, <1>12,
     <1>13, <1>14 DEF HandlerStep

\* The loop, the clock and stuttering leave all of it alone: a broadcast writes
\* the job and the nonce of sessions.
LEMMA LoopCases ==
  ASSUME TypeOK, LoopStep \/ Tick \/ UNCHANGED vars
  PROVE  Quietly /\ UNCHANGED <<conn, hs>> /\ now' \in {now, now + 1}
<1>1. UNCHANGED sess => SessionsKeep
  BY DEF SessionsKeep
<1>2. ASSUME NEW c \in Chan, PushJobID(c) \/ PushNonce(c) PROVE SessionsKeep
  <2>1. CASE PushJobID(c)
    BY <2>1, Shapes DEF PushJobID, Session, SessionsKeep
  <2>2. CASE PushNonce(c)
    BY <2>2, Shapes DEF PushNonce, Session, SessionsKeep
  <2> QED
    BY <1>2, <2>1, <2>2
<1>3. CASE Tick \/ UNCHANGED vars
  BY <1>1, <1>3 DEF Tick, vars, env, store, table, Quietly
<1>4. ASSUME NEW c \in Chan, PushJobID(c) \/ PushNonce(c)
      PROVE  Quietly /\ UNCHANGED <<conn, hs, now>>
  BY <1>2, <1>4 DEF PushJobID, PushNonce, env, store, table, Quietly
<1>5. CASE LoopStep /\ ~ \E c \in Chan : PushJobID(c) \/ PushNonce(c)
  BY <1>1, <1>5 DEF LoopStep, RestoreLatest, RestoreHistory, RotateJob, SaveJob,
     BroadcastSnapshot, BroadcastLock, BroadcastUnlock, TickerFires, StopLoop,
     env, store, table, Quietly
<1> QED
  BY <1>3, <1>4, <1>5

\* What a connection's goroutine does to its phase and its session.
Advances(c) ==
  /\ SessionsKeep
  /\ \/ conn[c] \in {"none", "removed"} /\ conn'[c] = "gone"
     \/ conn[c] = "restored" /\ conn'[c] = "open"
     \/ conn[c] = "open" /\ conn'[c] = "removed"

Registers(c, u) ==
  /\ conn[c] = "none" /\ conn'[c] = "registered" /\ MayConnect(u)
  /\ \A d \in Chan \ {c} : sess'[d] = sess[d]
  /\ sess'[c].user = u /\ sess'[c].last = 0 /\ sess'[c].used = {}
  /\ \A j \in JobId : sess'[c].maps[j] = 0

Restores(c) ==
  /\ conn[c] = "registered" /\ conn'[c] = "restored"
  /\ \A d \in Chan \ {c} : sess'[d] = sess[d]
  /\ sess'[c].user = sess[c].user /\ sess'[c].maps = sess[c].maps
  /\ sess'[c].used = sess[c].used
  /\ "LoadUserState" \notin Faults => sess'[c].last = userStates[sess[c].user].last

\* Each step of a connection's goroutine is one of these.
LEMMA ConnCases ==
  ASSUME TypeOK, NEW c \in Chan, ConnStep(c)
  PROVE  /\ UNCHANGED <<now, hs, known, userStates, usedNonces, accepted>>
         /\ \A d \in Chan \ {c} : conn'[d] = conn[d]
         /\ Advances(c) \/ (\E u \in User : Registers(c, u)) \/ Restores(c)
<1>1. /\ UNCHANGED <<now, hs, known, userStates, usedNonces, accepted>>
      /\ \A d \in Chan \ {c} : conn'[d] = conn[d]
  BY Shapes DEF ConnStep, RefuseConnection, RegisterSession, RestoreUserState, AddChannel,
     RemoveChannel, UnregisterSession, env, store
<1>2. CASE RefuseConnection(c) \/ AddChannel(c) \/ RemoveChannel(c) \/ UnregisterSession(c)
  <2>1. SessionsKeep
    BY <1>2 DEF RefuseConnection, AddChannel, RemoveChannel, UnregisterSession, SessionsKeep
  <2> QED
    BY <1>1, <1>2, <2>1, Shapes DEF RefuseConnection, AddChannel, RemoveChannel,
       UnregisterSession, Advances
<1>3. ASSUME NEW u \in User, RegisterSession(c, u) PROVE Registers(c, u)
  <2> DEFINE z == [ZeroSession EXCEPT !.user = u]
  <2>1. z.user = u /\ z.last = 0 /\ z.used = {} /\ \A j \in JobId : z.maps[j] = 0
    BY DEF ZeroSession
  <2>2. sess' = [sess EXCEPT ![c] = z]
    BY <1>3 DEF RegisterSession
  <2> HIDE DEF z
  <2> QED
    BY <1>3, <2>1, <2>2, Shapes DEF RegisterSession, Registers
<1>4. CASE RestoreUserState(c)
  <2>1. conn[c] = "registered" /\ conn'[c] = "restored"
    BY <1>4, Shapes DEF RestoreUserState
  <2>2. CASE UNCHANGED sess /\ "LoadUserState" \in Faults
    BY <1>1, <2>1, <2>2 DEF Restores
  <2>3. CASE sess' = [sess EXCEPT ![c].job = userStates[sess[c].user].job,
                                  ![c].nonce = userStates[sess[c].user].nonce,
                                  ![c].last = userStates[sess[c].user].last]
    BY <1>1, <2>1, <2>3, Shapes DEF Session, Restores
  <2> QED
    BY <1>4, <2>2, <2>3 DEF RestoreUserState
<1> QED
  BY <1>1, <1>2, <1>3, <1>4 DEF ConnStep

\* After a restart nothing is in progress and no earlier connection is used.
LEMMA CrashCases ==
  ASSUME TypeOK, Crash
  PROVE  /\ UNCHANGED <<now, known, userStates, usedNonces, accepted>>
         /\ \A h \in Handler : hs'[h].pc = "idle" /\ hs'[h].ch = None
         /\ \A c \in Chan : /\ conn'[c] = IF conn[c] = "none" THEN "none" ELSE "gone"
                            /\ \A j \in JobId : sess'[c].maps[j] = 0
  BY DEF Crash, Idle, ZeroSession, store

\* A goroutine starts, returns, or goes on with its submission; only publishing
\* touches the log.
Continues(h) ==
  hs[h].pc \in Busy /\ hs'[h].pc \in Busy /\ hs'[h].ch = hs[h].ch /\ hs'[h].sub = hs[h].sub

Returns(h) == hs[h].pc \in Busy /\ hs'[h].pc = "idle" /\ hs'[h].ch = None

\* A step of handleSubmit begins, continues or returns, and forgets nothing.
LEMMA HandlerMotion ==
  ASSUME TypeOK, NEW h \in Handler, HandlerStep(h)
  PROVE  /\ Begins(h) \/ Returns(h) \/ Continues(h)
         /\ usedNonces \subseteq usedNonces'
         /\ \A d \in Chan : sess'[d].user = sess[d].user /\ sess[d].used \subseteq sess'[d].used
         /\ \A d \in Chan \ {hs[h].ch} :
              /\ sess'[d].last = sess[d].last /\ sess'[d].maps = sess[d].maps
              /\ sess'[d].used = sess[d].used
         /\ UNCHANGED accepted \/ Publishes(h)
<1>1. CASE Begins(h)
  BY <1>1 DEF Begins, Quietly, SessionsKeep
<1>2. CASE Ends(h) \/ Publishes(h)
  BY <1>2 DEF Ends, Publishes, Returns, Quietly, SessionsKeep, Busy
<1>3. CASE \/ Checks(h) \/ ReadsClock(h) \/ PassesRate(h) \/ FindsMap(h)
           \/ PassesDup(h) \/ Verifies(h)
  BY <1>3 DEF Checks, ReadsClock, PassesRate, FindsMap, PassesDup, Verifies, Moves, Continues,
     Quietly, SessionsKeep, Busy
<1>4. CASE MakesMap(h) \/ Records(h) \/ Stamps(h)
  BY <1>4 DEF MakesMap, Records, Stamps, Moves, Continues, Busy
<1>5. CASE SavesNonce(h) \/ SavesState(h)
  BY <1>5 DEF SavesNonce, SavesState, Moves, Continues, SessionsKeep, Busy
<1> QED
  BY <1>1, <1>2, <1>3, <1>4, <1>5, HandlerCases

\* The log after one more entry.
LEMMA AppendEntry ==
  ASSUME NEW S, NEW s \in Seq(S), NEW e
  PROVE  \A i \in DOMAIN Append(s, e) :
           \/ i \in DOMAIN s /\ Append(s, e)[i] = s[i] /\ i < Len(s) + 1
           \/ i = Len(s) + 1 /\ Append(s, e)[i] = e
  OBVIOUS

\* The event that a goroutine at its last step publishes.
EventOf(h) ==
  [user |-> sess[hs[h].ch].user, ch |-> hs[h].ch, job |-> hs[h].sub.job,
   cn |-> hs[h].sub.cn, nonce |-> hs[h].sub.nonce, at |-> hs[h].at]

\* Publishing adds this event, last.
LEMMA PublishedEntries ==
  ASSUME TypeOK, NEW h \in Handler, Publishes(h)
  PROVE  \A i \in DOMAIN accepted' :
           \/ i \in DOMAIN accepted /\ accepted'[i] = accepted[i] /\ i < Len(accepted) + 1
           \/ i = Len(accepted) + 1 /\ accepted'[i] = EventOf(h)
<1>1. accepted' = Append(accepted, EventOf(h))
  BY DEF Publishes, EventOf
<1> QED
  BY <1>1, Shapes, AppendEntry

-----------------------------------------------------------------------------
(* Accepted submissions are persisted *)

\* A goroutine runs on a connection that was open when it started.
LEMMA HandlerStaysAt ==
  ASSUME TypeOK, HandlersAt, NEW h \in Handler, HandlerStep(h)
  PROVE  HandlersAt'
<1>1. conn' = conn /\ \A g \in Handler \ {h} : hs'[g] = hs[g]
  BY HandlerCases
<1>2. CASE Begins(h)
  BY <1>1, <1>2 DEF Begins, HandlersAt
<1>3. CASE Returns(h)
  BY <1>1, <1>3 DEF Returns, HandlersAt, Busy
<1>4. CASE Continues(h)
  BY <1>1, <1>4 DEF Continues, HandlersAt, Busy
<1> QED
  BY <1>2, <1>3, <1>4, HandlerMotion

\* It saves before it publishes.
LEMMA HandlerPersists ==
  ASSUME "SaveUsedNonce" \notin Faults, TypeOK, PersistInv, NEW h \in Handler,
         HandlerStep(h)
  PROVE  PersistInv'
<1>1. /\ conn' = conn /\ \A g \in Handler \ {h} : hs'[g] = hs[g]
      /\ usedNonces \subseteq usedNonces'
      /\ \A d \in Chan : sess'[d].user = sess[d].user
  BY HandlerCases, HandlerMotion
<1>2. HandlersAt'
  BY HandlerStaysAt DEF PersistInv
<1>3. HandlersPersisted'
  <2>1. ASSUME NEW g \in Handler, hs'[g].pc \in Saved
        PROVE  <<sess'[hs'[g].ch].user, hs'[g].sub.job, hs'[g].sub.cn>> \in usedNonces'
    <3>1. CASE g # h
      <4>1. hs[g].ch \in Chan /\ hs'[g] = hs[g]
        BY <1>1, <2>1, <3>1, BusyHandler DEF Saved, Busy
      <4> QED
        BY <1>1, <2>1, <3>1, <4>1 DEF PersistInv, HandlersPersisted
    <3>2. CASE g = h
      <4>1. SavesNonce(h) \/ SavesState(h)
        BY <2>1, <3>2, HandlerCases DEF Begins, Ends, Checks, ReadsClock, PassesRate, FindsMap,
           MakesMap, PassesDup, Verifies, Records, Stamps, Publishes, Moves, Saved
      <4>2. hs[h].pc \in Busy /\ hs'[h].ch = hs[h].ch /\ hs'[h].sub = hs[h].sub
        BY <4>1 DEF SavesNonce, SavesState, Moves, Busy
      <4>3. hs[h].ch \in Chan
        BY <4>2, BusyHandler
      <4>4. <<sess[hs[h].ch].user, hs[h].sub.job, hs[h].sub.cn>> \in usedNonces'
        BY <4>1 DEF SavesNonce, SavesState, Moves, PersistInv, HandlersPersisted, Saved
      <4> QED
        BY <1>1, <3>2, <4>2, <4>3, <4>4
    <3> QED
      BY <3>1, <3>2
  <2> QED
    BY <2>1 DEF HandlersPersisted
<1>4. AcceptedPersisted'
  <2>1. CASE UNCHANGED accepted
    BY <1>1, <2>1 DEF PersistInv, AcceptedPersisted
  <2>2. CASE Publishes(h)
    <3>1. <<EventOf(h).user, EventOf(h).job, EventOf(h).cn>> \in usedNonces
      BY <2>2 DEF Publishes, PersistInv, HandlersPersisted, Saved, EventOf
    <3> QED
      BY <1>1, <2>2, <3>1, PublishedEntries DEF PersistInv, AcceptedPersisted
  <2> QED
    BY <2>1, <2>2, HandlerMotion
<1> QED
  BY <1>2, <1>3, <1>4 DEF PersistInv

\* A connection that is not yet open has no goroutine, so opening it takes no
\* session away from one.
LEMMA ConnStaysAt ==
  ASSUME TypeOK, HandlersAt, NEW c \in Chan, ConnStep(c)
  PROVE  /\ HandlersAt'
         /\ conn[c] \in {"none", "registered", "restored"} =>
              \A h \in Handler : hs[h].ch # c
         /\ \A h \in Handler : hs[h].pc \in Busy =>
              /\ sess'[hs[h].ch].user = sess[hs[h].ch].user
              /\ sess'[hs[h].ch].last = sess[hs[h].ch].last
              /\ sess'[hs[h].ch].maps = sess[hs[h].ch].maps
              /\ sess'[hs[h].ch].used = sess[hs[h].ch].used
<1>1. hs' = hs /\ \A d \in Chan \ {c} : conn'[d] = conn[d]
  BY ConnCases
<1>2. \A h \in Handler : hs[h].pc \in Busy \cup {"idle"}
                         /\ (hs[h].pc \in Busy => hs[h].ch \in Chan)
  BY Shapes, BusyHandler DEF HandlerState
<1>3. conn[c] \in {"none", "registered", "restored"} => \A h \in Handler : hs[h].ch # c
  BY <1>2, Shapes DEF HandlersAt
<1>4. CASE Advances(c)
  BY <1>1, <1>2, <1>3, <1>4 DEF Advances, SessionsKeep, HandlersAt
<1>5. ASSUME NEW u \in User, Registers(c, u)
      PROVE  HandlersAt' /\ \A d \in Chan \ {c} : sess'[d] = sess[d]
  BY <1>1, <1>2, <1>3, <1>5 DEF Registers, HandlersAt
<1>6. CASE Restores(c)
  BY <1>1, <1>2, <1>3, <1>6 DEF Restores, HandlersAt
<1>7. ASSUME NEW u \in User, Registers(c, u) PROVE conn[c] = "none"
  BY <1>7 DEF Registers
<1> QED
  BY <1>2, <1>3, <1>4, <1>5, <1>6, <1>7, ConnCases

\* PersistInv holds in every reachable state.
LEMMA PersistInvariant ==
  ASSUME "SaveUsedNonce" \notin Faults
  PROVE  Spec => []PersistInv
<1>1. Init => PersistInv
  BY DEF Init, Idle, PersistInv, HandlersAt, HandlersPersisted, AcceptedPersisted, Busy, Saved
<1>2. TypeOK /\ PersistInv /\ [Next]_vars => PersistInv'
  <2> SUFFICES ASSUME TypeOK, PersistInv, [Next]_vars PROVE PersistInv'
    OBVIOUS
  <2>1. CASE LoopStep \/ Tick \/ UNCHANGED vars
    <3>1. Quietly /\ UNCHANGED <<conn, hs>>
      BY <2>1, LoopCases
    <3>2. \A h \in Handler : hs[h].pc \in Saved => hs[h].ch \in Chan
      BY BusyHandler DEF Saved, Busy
    <3> QED
      BY <3>1, <3>2 DEF Quietly, SessionsKeep, PersistInv, HandlersAt, HandlersPersisted,
         AcceptedPersisted
  <2>2. ASSUME NEW c \in Chan, ConnStep(c) PROVE PersistInv'
    <3>1. UNCHANGED <<hs, usedNonces, accepted>>
      BY <2>2, ConnCases
    <3>2. HandlersAt' /\ \A h \in Handler : hs[h].pc \in Saved =>
            sess'[hs[h].ch].user = sess[hs[h].ch].user
      BY <2>2, ConnStaysAt DEF PersistInv, Saved, Busy
    <3> QED
      BY <3>1, <3>2 DEF PersistInv, HandlersPersisted, AcceptedPersisted
  <2>3. CASE Crash
    BY <2>3, CrashCases DEF PersistInv, HandlersAt, HandlersPersisted, AcceptedPersisted,
       Busy, Saved
  <2> QED
    BY <2>1, <2>2, <2>3, HandlerPersists DEF Next
<1> QED
  BY <1>1, <1>2, CoordinatorTypes, PTL DEF Spec

\* Every published submission is in used_nonce, over any number of restarts and
\* with any goroutines racing, if SaveUsedNonce does not fail (handleSubmit
\* calls it before Publish).
THEOREM SubmissionsPersisted ==
  ASSUME "SaveUsedNonce" \notin Faults
  PROVE  Spec => []AcceptedPersisted
<1>1. PersistInv => AcceptedPersisted
  BY DEF PersistInv
<1> QED
  BY <1>1, PersistInvariant, PTL

-----------------------------------------------------------------------------
(* One connection and one request in flight per user *)

\* A goroutine is started only where none is, and on an attended session.
LEMMA HandlerSerial ==
  ASSUME Serial, TypeOK, SerialInv, NEW h \in Handler, HandlerStep(h)
  PROVE  SerialInv'
<1>1. /\ conn' = conn /\ \A g \in Handler \ {h} : hs'[g] = hs[g]
      /\ \A d \in Chan : sess'[d].user = sess[d].user
  BY HandlerCases, HandlerMotion
<1>2. HandlersAt'
  BY HandlerStaysAt DEF SerialInv
<1>3. /\ \A g \in Handler : hs[g].pc \in Busy => hs[g].ch \in Chan
      /\ None \notin Chan
  BY BusyHandler, Shapes
<1>4. OneRequest'
  <2>1. CASE Begins(h)
    BY <1>1, <1>3, <2>1 DEF Begins, SerialInv, OneRequest
  <2>2. CASE Returns(h)
    BY <1>1, <1>3, <2>2 DEF Returns, SerialInv, OneRequest, Busy
  <2>3. CASE Continues(h)
    BY <1>1, <1>3, <2>3 DEF Continues, SerialInv, OneRequest
  <2> QED
    BY <2>1, <2>2, <2>3, HandlerMotion
<1>5. \A c \in Chan : Attended(c)' => Attended(c)
  <2>1. CASE Begins(h)
    BY <1>1, <2>1 DEF Begins, Attended
  <2>2. CASE Returns(h) \/ Continues(h)
    BY <1>1, <1>3, <2>2 DEF Returns, Continues, Attended
  <2> QED
    BY <2>1, <2>2, HandlerMotion
<1>6. OneSession'
  BY <1>1, <1>5 DEF SerialInv, OneSession
<1> QED
  BY <1>2, <1>4, <1>6 DEF SerialInv

\* A user connects only when no session of the user is attended.
LEMMA ConnSerial ==
  ASSUME Serial, TypeOK, SerialInv, NEW c \in Chan, ConnStep(c)
  PROVE  SerialInv'
<1>1. hs' = hs /\ \A d \in Chan \ {c} : conn'[d] = conn[d]
  BY ConnCases
<1>2. HandlersAt'
  BY ConnStaysAt DEF SerialInv
<1>3. OneRequest'
  BY <1>1 DEF SerialInv, OneRequest
<1>4. OneSession'
  <2>1. CASE Advances(c)
    <3>1. \A d \in Chan : Attended(d)' => Attended(d)
      BY <1>1, <2>1 DEF Advances, Attended
    <3> QED
      BY <2>1, <3>1 DEF Advances, SessionsKeep, SerialInv, OneSession
  <2>2. ASSUME NEW u \in User, Registers(c, u) PROVE OneSession'
    <3>1. \A d \in Chan : sess[d].user = u => ~ Attended(d)
      BY <2>2 DEF Registers, MayConnect, Attended
    <3>2. \A d \in Chan \ {c} : (Attended(d)' <=> Attended(d)) /\ sess'[d] = sess[d]
      BY <1>1, <2>2 DEF Registers, Attended
    <3> QED
      BY <2>2, <3>1, <3>2 DEF Registers, SerialInv, OneSession
  <2>3. CASE Restores(c)
    <3>1. \A d \in Chan : (Attended(d)' => Attended(d)) /\ sess'[d].user = sess[d].user
      BY <1>1, <2>3 DEF Restores, Attended
    <3> QED
      BY <3>1 DEF SerialInv, OneSession
  <2> QED
    BY <2>1, <2>2, <2>3, ConnCases
<1> QED
  BY <1>2, <1>3, <1>4 DEF SerialInv

\* SerialInv holds in every reachable state.
LEMMA SerialInvariant ==
  ASSUME Serial
  PROVE  Spec => []SerialInv
<1>1. Init => SerialInv
  BY ConstantsAssumption DEF Init, Idle, SerialInv, HandlersAt, OneRequest, OneSession,
     Attended, Busy
<1>2. TypeOK /\ SerialInv /\ [Next]_vars => SerialInv'
  <2> SUFFICES ASSUME TypeOK, SerialInv, [Next]_vars PROVE SerialInv'
    OBVIOUS
  <2>1. CASE LoopStep \/ Tick \/ UNCHANGED vars
    <3>1. Quietly /\ UNCHANGED <<conn, hs>>
      BY <2>1, LoopCases
    <3> QED
      BY <3>1 DEF Quietly, SessionsKeep, SerialInv, HandlersAt, OneRequest, OneSession,
         Attended
  <2>2. CASE Crash
    <3>1. None \notin Chan
      BY ConstantsAssumption
    <3>2. \A c \in Chan : ~ Attended(c)'
      BY <2>2, <3>1, CrashCases DEF Attended
    <3>3. HandlersAt' /\ OneRequest'
      BY <2>2, CrashCases DEF HandlersAt, OneRequest, Busy
    <3> QED
      BY <3>2, <3>3 DEF SerialInv, OneSession
  <2> QED
    BY <2>1, <2>2, HandlerSerial, ConnSerial DEF Next
<1> QED
  BY <1>1, <1>2, CoordinatorTypes, PTL DEF Spec

-----------------------------------------------------------------------------
(* Accepted submissions are new on their connection *)

\* A goroutine's step keeps one inner map per job: it makes one only where it
\* found none, and nobody else works on that session.
LEMMA HandlerMaps ==
  ASSUME TypeOK, SerialInv, OneMap, NEW h \in Handler, HandlerStep(h)
  PROVE  OneMap'
<1>1. \A g \in Handler \ {h} : hs'[g] = hs[g]
  BY HandlerCases
<1>2. \A d \in Chan \ {hs[h].ch} : sess'[d].maps = sess[d].maps
  BY HandlerMotion
<1>3. \A g \in Handler \ {h} : hs[g].pc \in Busy =>
        hs[g].ch \in Chan /\ hs[g].ch # hs[h].ch
  BY BusyHandler DEF SerialInv, OneRequest
<1>4. \A g \in Handler \ {h} :
        /\ hs'[g].pc = "make" => sess'[hs'[g].ch].maps[hs'[g].sub.job] = 0
        /\ hs'[g].pc \in {"dup"} \cup Unseen => hs'[g].m = 1
  BY <1>1, <1>2, <1>3 DEF OneMap, Busy
<1>5. CASE MakesMap(h)
  <2>1. hs[h].ch \in Chan /\ hs[h].sub.job \in JobId /\ sess[hs[h].ch] \in Session
    BY <1>5, BusyHandler DEF MakesMap, Moves, Busy
  <2>2. sess[hs[h].ch].maps[hs[h].sub.job] = 0 /\ hs'[h].pc = "dup"
    BY <1>5 DEF MakesMap, Moves, OneMap
  <2>3. sess'[hs[h].ch].maps = [sess[hs[h].ch].maps EXCEPT ![hs[h].sub.job] = 1]
        /\ hs'[h].m = 1
    BY <1>5, <2>2 DEF MakesMap
  <2>4. sess[hs[h].ch].maps \in [JobId -> Nat]
    BY <2>1 DEF Session
  <2>5. \A j \in JobId : sess'[hs[h].ch].maps[j] \in {0, 1}
    BY <2>1, <2>3, <2>4 DEF OneMap
  <2> QED
    BY <1>2, <1>4, <2>2, <2>3, <2>5 DEF OneMap
<1>6. CASE ~ MakesMap(h)
  <2>1. \A d \in Chan : sess'[d].maps = sess[d].maps
    BY <1>6, HandlerCases DEF Begins, Ends, Checks, ReadsClock, PassesRate, FindsMap, PassesDup,
       Verifies, Records, Stamps, SavesNonce, SavesState, Publishes, Quietly, SessionsKeep
  <2>2. CASE FindsMap(h)
    <3>1. hs[h].ch \in Chan /\ hs[h].sub.job \in JobId
      BY <2>2, BusyHandler DEF FindsMap, Moves, Busy
    <3>2. sess[hs[h].ch].maps[hs[h].sub.job] \in {0, 1}
      BY <3>1 DEF OneMap
    <3>3. /\ hs'[h].m = sess[hs[h].ch].maps[hs[h].sub.job]
          /\ hs'[h].ch = hs[h].ch /\ hs'[h].sub = hs[h].sub
          /\ hs'[h].pc \in {"make", "dup"} /\ (hs'[h].pc = "make" <=> hs'[h].m = 0)
      BY <2>2 DEF FindsMap, Moves
    <3> QED
      BY <1>4, <2>1, <3>1, <3>2, <3>3 DEF OneMap, Unseen
  <2>3. CASE ~ FindsMap(h)
    <3>1. hs'[h].pc # "make"
          /\ (hs'[h].pc \in {"dup"} \cup Unseen =>
                hs[h].pc \in {"dup"} \cup Unseen /\ hs'[h].m = hs[h].m)
      BY <1>6, <2>3, HandlerCases DEF Begins, Ends, Checks, ReadsClock, PassesRate, PassesDup,
         Verifies, Records, Stamps, SavesNonce, SavesState, Publishes, Moves, Keeps, Unseen
    <3> QED
      BY <1>4, <2>1, <3>1 DEF OneMap
  <2> QED
    BY <2>2, <2>3
<1> QED
  BY <1>5, <1>6

\* What is accepted was recorded in UsedNonces, which only grows while the
\* session is attended.
LEMMA HandlerRemembers ==
  ASSUME TypeOK, SerialInv, OneMap, UsedRemembers, NEW h \in Handler, HandlerStep(h)
  PROVE  UsedRemembers'
<1>1. /\ conn' = conn /\ \A g \in Handler \ {h} : hs'[g] = hs[g]
      /\ \A d \in Chan : sess[d].used \subseteq sess'[d].used
  BY HandlerCases, HandlerMotion
<1>2. \A c \in Chan : Attended(c)' => Attended(c)
  <2>1. \A g \in Handler : hs[g].pc \in Busy => hs[g].ch \in Chan
    BY BusyHandler
  <2>2. CASE Begins(h)
    BY <1>1, <2>2 DEF Begins, Attended
  <2>3. CASE Returns(h) \/ Continues(h)
    BY <1>1, <2>1, <2>3, Shapes DEF Returns, Continues, Attended
  <2> QED
    BY <2>2, <2>3, HandlerMotion
<1>4. ASSUME NEW g \in Handler, hs'[g].pc \in Recorded
      PROVE  <<hs'[g].sub.job, 1, hs'[g].sub.cn>> \in sess'[hs'[g].ch].used
  <2>1. CASE g # h
    <3>1. hs[g].ch \in Chan /\ hs'[g] = hs[g]
      BY <1>1, <1>4, <2>1, BusyHandler DEF Recorded, Busy
    <3> QED
      BY <1>1, <1>4, <3>1 DEF UsedRemembers
  <2>2. CASE g = h /\ Records(h)
    <3>1. hs[h].m = 1
      BY <2>2 DEF OneMap, Records, Moves, Unseen
    <3> QED
      BY <2>2, <3>1 DEF Records, Moves
  <2>3. CASE g = h /\ ~ Records(h)
    <3>1. /\ hs[h].pc \in Recorded /\ hs'[h].ch = hs[h].ch /\ hs'[h].sub = hs[h].sub
      BY <1>4, <2>3, HandlerCases DEF Begins, Ends, Checks, ReadsClock, PassesRate, FindsMap,
         MakesMap, PassesDup, Verifies, Stamps, SavesNonce, SavesState, Publishes, Moves, Recorded
    <3>2. hs[h].ch \in Chan
      BY <3>1, BusyHandler DEF Recorded, Busy
    <3> QED
      BY <1>1, <2>3, <3>1, <3>2 DEF UsedRemembers
  <2> QED
    BY <2>1, <2>2, <2>3
<1>5. ASSUME NEW c \in Chan, NEW i \in DOMAIN accepted', accepted'[i].ch = c
      PROVE  /\ conn'[c] # "none"
             /\ Attended(c)' => <<accepted'[i].job, 1, accepted'[i].cn>> \in sess'[c].used
  <2>1. CASE i \in DOMAIN accepted /\ accepted'[i] = accepted[i]
    BY <1>1, <1>2, <1>5, <2>1 DEF UsedRemembers
  <2>2. CASE Publishes(h) /\ accepted'[i] = EventOf(h)
    <3>1. hs[h].pc \in Busy /\ hs[h].pc \in Recorded
      BY <2>2 DEF Publishes, Busy, Recorded
    <3>2. /\ hs[h].ch = c /\ accepted'[i].job = hs[h].sub.job
          /\ accepted'[i].cn = hs[h].sub.cn
      BY <1>5, <2>2 DEF EventOf
    <3>3. conn[c] # "none"
      BY <3>1, <3>2 DEF SerialInv, HandlersAt
    <3>4. <<hs[h].sub.job, 1, hs[h].sub.cn>> \in sess[c].used
      BY <3>1, <3>2 DEF UsedRemembers
    <3> QED
      BY <1>1, <3>2, <3>3, <3>4
  <2> QED
    BY <1>5, <2>1, <2>2, HandlerMotion, PublishedEntries
<1> QED
  BY <1>4, <1>5 DEF UsedRemembers

\* The duplicate check finds what was accepted, and nobody else publishes on the
\* connection until the goroutine returns.
LEMMA HandlerNotAccepted ==
  ASSUME TypeOK, SerialInv, FreshInv, NEW h \in Handler, HandlerStep(h)
  PROVE  NotAccepted'
<1>1. \A g \in Handler \ {h} : hs'[g] = hs[g]
  BY HandlerCases
<1>2. ASSUME NEW g \in Handler, hs'[g].pc \in Unseen, NEW i \in DOMAIN accepted
      PROVE  <<accepted[i].ch, accepted[i].job, accepted[i].cn>> #
               <<hs'[g].ch, hs'[g].sub.job, hs'[g].sub.cn>>
  <2>1. CASE g # h
    BY <1>1, <1>2, <2>1 DEF FreshInv, NotAccepted
  <2>2. CASE g = h /\ PassesDup(h)
    <3>1. hs[h].m = 1 /\ hs[h].pc \in Busy /\ hs'[h].ch = hs[h].ch /\ hs'[h].sub = hs[h].sub
          /\ <<hs[h].sub.job, hs[h].m, hs[h].sub.cn>> \notin sess[hs[h].ch].used
      BY <2>2 DEF FreshInv, OneMap, PassesDup, Moves, Busy
    <3>2. hs[h].ch \in Chan /\ Attended(hs[h].ch)
      BY <3>1, BusyHandler DEF Attended
    <3>3. accepted[i].ch = hs[h].ch =>
            <<accepted[i].job, 1, accepted[i].cn>> \in sess[hs[h].ch].used
      BY <3>2 DEF FreshInv, UsedRemembers
    <3> QED
      BY <2>2, <3>1, <3>3
  <2>3. CASE g = h /\ ~ PassesDup(h)
    <3>1. hs[h].pc \in Unseen /\ hs'[h].ch = hs[h].ch /\ hs'[h].sub = hs[h].sub
      BY <1>2, <2>3, HandlerCases DEF Begins, Ends, Checks, ReadsClock, PassesRate, FindsMap,
         MakesMap, Verifies, Records, Stamps, SavesNonce, SavesState, Publishes, Moves, Unseen
    <3> QED
      BY <2>3, <3>1 DEF FreshInv, NotAccepted
  <2> QED
    BY <2>1, <2>2, <2>3
<1>3. CASE UNCHANGED accepted
  BY <1>2, <1>3 DEF NotAccepted
<1>4. CASE Publishes(h)
  <2>1. ASSUME NEW g \in Handler, hs'[g].pc \in Unseen
        PROVE  EventOf(h).ch # hs'[g].ch
    <3>1. g # h
      BY <1>4, <2>1 DEF Publishes, Unseen
    <3>2. hs[g].pc \in Busy
      BY <1>1, <2>1, <3>1 DEF Unseen, Busy
    <3> QED
      BY <1>1, <3>1, <3>2 DEF SerialInv, OneRequest, EventOf
  <2> QED
    BY <1>2, <1>4, <2>1, PublishedEntries DEF NotAccepted
<1> QED
  BY <1>3, <1>4, HandlerMotion

\* A new session has no inner maps and no submission was accepted on its
\* connection; other sessions in use are left alone.
LEMMA ConnFresh ==
  ASSUME TypeOK, SerialInv, FreshInv, NEW c \in Chan, ConnStep(c)
  PROVE  FreshInv'
<1>1. /\ UNCHANGED <<hs, accepted>> /\ \A d \in Chan \ {c} : conn'[d] = conn[d]
  BY ConnCases
<1>2. \A h \in Handler : hs[h].pc \in Busy =>
        /\ sess'[hs[h].ch].maps = sess[hs[h].ch].maps
        /\ sess'[hs[h].ch].used = sess[hs[h].ch].used
  BY ConnStaysAt DEF SerialInv
<1>3. \A d \in Chan : \A j \in JobId : sess'[d].maps[j] \in {0, 1}
  <2>1. CASE Advances(c)
    BY <2>1 DEF Advances, SessionsKeep, FreshInv, OneMap
  <2>2. ASSUME NEW u \in User, Registers(c, u)
        PROVE  \A d \in Chan : \A j \in JobId : sess'[d].maps[j] \in {0, 1}
    BY <2>2 DEF Registers, FreshInv, OneMap
  <2>3. CASE Restores(c)
    BY <2>3 DEF Restores, FreshInv, OneMap
  <2> QED
    BY <2>1, <2>2, <2>3, ConnCases
<1>4. OneMap'
  BY <1>1, <1>2, <1>3 DEF FreshInv, OneMap, Busy
<1>5. ASSUME NEW d \in Chan, NEW i \in DOMAIN accepted, accepted[i].ch = d
      PROVE  /\ conn'[d] # "none"
             /\ Attended(d)' => <<accepted[i].job, 1, accepted[i].cn>> \in sess'[d].used
  <2>1. conn[d] # "none"
        /\ (Attended(d) => <<accepted[i].job, 1, accepted[i].cn>> \in sess[d].used)
    BY <1>5 DEF FreshInv, UsedRemembers
  <2>2. CASE Advances(c)
    BY <1>1, <2>1, <2>2 DEF Advances, SessionsKeep, Attended
  <2>3. ASSUME NEW u \in User, Registers(c, u)
        PROVE  d # c /\ conn'[d] = conn[d] /\ sess'[d] = sess[d]
    BY <1>1, <2>1, <2>3 DEF Registers
  <2>4. CASE d # c /\ conn'[d] = conn[d] /\ sess'[d] = sess[d]
    BY <1>1, <2>1, <2>4 DEF Attended
  <2>5. CASE Restores(c)
    BY <1>1, <2>1, <2>5 DEF Restores, Attended
  <2> QED
    BY <2>2, <2>3, <2>4, <2>5, ConnCases
<1>6. UsedRemembers'
  <2>1. \A h \in Handler : hs[h].pc \in Recorded => hs[h].pc \in Busy
    BY DEF Recorded, Busy
  <2>2. \A h \in Handler : hs'[h].pc \in Recorded =>
          <<hs'[h].sub.job, 1, hs'[h].sub.cn>> \in sess'[hs'[h].ch].used
    BY <1>1, <1>2, <2>1 DEF FreshInv, UsedRemembers
  <2> QED
    BY <1>1, <1>5, <2>2 DEF UsedRemembers
<1>7. NotAccepted'
  BY <1>1 DEF FreshInv, NotAccepted
<1> QED
  BY <1>4, <1>6, <1>7 DEF FreshInv

\* FreshInv holds in every reachable state.
LEMMA FreshInvariant ==
  ASSUME Serial
  PROVE  Spec => []FreshInv
<1>1. Init => FreshInv
  BY DEF Init, Idle, ZeroSession, FreshInv, OneMap, UsedRemembers, NotAccepted, Unseen,
     Recorded
<1>2. TypeOK /\ SerialInv /\ FreshInv /\ [Next]_vars => FreshInv'
  <2> SUFFICES ASSUME TypeOK, SerialInv, FreshInv, [Next]_vars PROVE FreshInv'
    OBVIOUS
  <2>1. CASE LoopStep \/ Tick \/ UNCHANGED vars
    <3>1. Quietly /\ UNCHANGED <<conn, hs>>
      BY <2>1, LoopCases
    <3>2. \A h \in Handler : hs[h].pc \in Busy => hs[h].ch \in Chan
      BY BusyHandler
    <3>3. OneMap'
      BY <3>1, <3>2 DEF Quietly, SessionsKeep, FreshInv, OneMap, Busy
    <3>4. UsedRemembers' /\ NotAccepted'
      BY <3>1, <3>2 DEF Quietly, SessionsKeep, FreshInv, UsedRemembers, NotAccepted,
         Attended, Busy, Recorded
    <3> QED
      BY <3>3, <3>4 DEF FreshInv
  <2>2. CASE Crash
    <3>1. \A c \in Chan : ~ Attended(c)'
      BY <2>2, CrashCases, Shapes DEF Attended
    <3>2. OneMap' /\ NotAccepted'
      BY <2>2, CrashCases DEF OneMap, NotAccepted, Unseen
    <3>3. UsedRemembers'
      BY <2>2, <3>1, CrashCases DEF FreshInv, UsedRemembers, Recorded
    <3> QED
      BY <3>2, <3>3 DEF FreshInv
  <2>3. ASSUME NEW h \in Handler, HandlerStep(h) PROVE FreshInv'
    BY <2>3, HandlerMaps, HandlerRemembers, HandlerNotAccepted DEF FreshInv
  <2> QED
    BY <2>1, <2>2, <2>3, ConnFresh DEF Next
<1> QED
  BY <1>1, <1>2, CoordinatorTypes, SerialInvariant, PTL DEF Spec

-----------------------------------------------------------------------------
(* Accepted submissions of a user are a second apart *)

\* The times that are compared are numbers.
LEMMA Times ==
  ASSUME TypeOK
  PROVE  /\ now \in Int /\ Second \in Int /\ Second > 0
         /\ \A h \in Handler : hs[h].at \in Int
         /\ \A c \in Chan : sess[c].last \in Int
         /\ \A u \in User : userStates[u].last \in Int
         /\ \A i \in DOMAIN accepted : accepted[i].at \in Int
<1>1. now \in Int /\ Second \in Int /\ Second > 0
  BY ConstantsAssumption DEF TypeOK, EnvOK, Time
<1>2. \A h \in Handler : hs[h].at \in Int
  BY Shapes DEF HandlerState, Time
<1>3. \A c \in Chan : sess[c].last \in Int
  BY Shapes DEF Session, Time
<1>4. \A u \in User : userStates[u].last \in Int
  BY Shapes DEF UserState, Time
<1>5. \A i \in DOMAIN accepted : accepted[i].at \in Int
  <2>1. \A i \in DOMAIN accepted : accepted[i] \in Event
    BY Shapes
  <2> QED
    BY <2>1 DEF Event, Time
<1> QED
  BY <1>1, <1>2, <1>3, <1>4, <1>5

\* The session of another goroutine has another user.
LEMMA OtherUser ==
  ASSUME TypeOK, SerialInv, NEW h \in Handler, hs[h].pc \in Busy,
         NEW c \in Chan, Restored(c), c # hs[h].ch
  PROVE  sess[c].user # sess[hs[h].ch].user
<1>1. hs[h].ch \in Chan /\ Attended(hs[h].ch)
  BY BusyHandler DEF Attended
<1>2. Attended(c)
  BY DEF Restored, Attended
<1> QED
  BY <1>1, <1>2 DEF SerialInv, OneSession

\* What is saved and stamped is a second after everything accepted before, and
\* a submission is published only when both are done.
LEMMA HandlerCovers ==
  ASSUME "SaveUserState" \notin Faults, TypeOK, SerialInv, SpaceInv, NEW h \in Handler,
         HandlerStep(h)
  PROVE  LastCovers'
<1>1. /\ conn' = conn /\ \A g \in Handler \ {h} : hs'[g] = hs[g]
      /\ \A d \in Chan : sess'[d].user = sess[d].user
      /\ \A d \in Chan \ {hs[h].ch} : sess'[d].last = sess[d].last
  BY HandlerCases, HandlerMotion
<1>2. \A c \in Chan : Restored(c)' => Restored(c)
  <2>1. CASE Begins(h)
    BY <1>1, <2>1 DEF Begins, Restored
  <2>2. CASE Returns(h) \/ Continues(h)
    BY <1>1, <2>2, Shapes DEF Returns, Continues, Restored
  <2> QED
    BY <2>1, <2>2, HandlerMotion
<1>3. ASSUME NEW i \in DOMAIN accepted, hs[h].pc \in Busy, hs[h].pc \in Judged,
             accepted[i].user = sess[hs[h].ch].user
      PROVE  accepted[i].at <= hs[h].at
  BY <1>3, Times DEF SpaceInv, HandlersSpaced
<1>4. ASSUME NEW i \in DOMAIN accepted, NEW u \in User, accepted[i].user = u
      PROVE  accepted[i].at <= userStates'[u].last
  <2>1. accepted[i].at <= userStates[u].last
    BY <1>4 DEF SpaceInv, LastCovers
  <2>2. CASE SavesState(h) /\ u = sess[hs[h].ch].user
    <3>1. hs[h].pc \in Busy /\ hs[h].pc \in Judged /\ hs[h].pc \in Stamped
      BY <2>2 DEF SavesState, Moves, Busy, Judged, Unseen, Stamped
    <3>2. userStates'[u].last = hs[h].at
      BY <2>2, <3>1 DEF SavesState, SpaceInv, HandlersSpaced
    <3> QED
      BY <1>3, <1>4, <2>2, <3>1, <3>2
  <2>3. CASE userStates'[u] = userStates[u]
    BY <2>1, <2>3
  <2> QED
    BY <2>2, <2>3, HandlerCases DEF Begins, Ends, Checks, ReadsClock, PassesRate, FindsMap,
       MakesMap, PassesDup, Verifies, Records, Stamps, SavesNonce, SavesState, Publishes, Quietly
<1>5. ASSUME NEW i \in DOMAIN accepted, NEW c \in Chan, Restored(c),
             sess[c].user = accepted[i].user
      PROVE  accepted[i].at <= sess'[c].last
  <2>1. accepted[i].at <= sess[c].last
    BY <1>5 DEF SpaceInv, LastCovers
  <2>2. CASE Stamps(h) /\ c = hs[h].ch
    <3>1. hs[h].pc \in Busy /\ hs[h].pc \in Judged
      BY <2>2 DEF Stamps, Moves, Busy, Judged, Unseen
    <3> QED
      BY <1>3, <1>5, <2>2, <3>1 DEF Stamps
  <2>3. CASE sess'[c].last = sess[c].last
    BY <2>1, <2>3
  <2> QED
    BY <1>1, <2>2, <2>3, HandlerCases DEF Begins, Ends, Checks, ReadsClock, PassesRate, FindsMap,
       MakesMap, PassesDup, Verifies, Records, Stamps, SavesNonce, SavesState, Publishes, Quietly,
       SessionsKeep
<1>6. CASE UNCHANGED accepted
  BY <1>1, <1>2, <1>4, <1>5, <1>6 DEF SpaceInv, LastCovers
<1>7. CASE Publishes(h)
  <2>1. /\ hs[h].pc = "publish" /\ hs[h].pc \in Busy /\ hs[h].pc \in Judged
        /\ hs[h].pc \in Stamped /\ UNCHANGED userStates
        /\ \A d \in Chan : sess'[d].last = sess[d].last
    BY <1>7 DEF Publishes, Busy, Judged, Unseen, Stamped, SessionsKeep
  <2>2. /\ hs[h].at > 0 /\ sess[hs[h].ch].last = hs[h].at
        /\ userStates[sess[hs[h].ch].user].last = hs[h].at
    BY <2>1 DEF SpaceInv, HandlersSpaced
  <2>3. EventOf(h).at = hs[h].at /\ EventOf(h).user = sess[hs[h].ch].user
    BY DEF EventOf
  <2>4. \A c \in Chan : Restored(c) /\ sess[c].user = sess[hs[h].ch].user => c = hs[h].ch
    BY <2>1, OtherUser
  <2>5. hs[h].at <= hs[h].at
    BY Times
  <2>6. ASSUME NEW i \in DOMAIN accepted'
        PROVE  /\ accepted'[i].at > 0
               /\ \A u \in User : accepted'[i].user = u => accepted'[i].at <= userStates'[u].last
               /\ \A c \in Chan : Restored(c)' /\ sess'[c].user = accepted'[i].user =>
                    accepted'[i].at <= sess'[c].last
    <3>1. CASE accepted'[i] = EventOf(h)
      BY <1>1, <1>2, <2>1, <2>2, <2>3, <2>4, <2>5, <3>1
    <3>2. CASE i \in DOMAIN accepted /\ accepted'[i] = accepted[i]
      BY <1>1, <1>2, <1>4, <1>5, <3>2 DEF SpaceInv, LastCovers
    <3> QED
      BY <1>7, <3>1, <3>2, PublishedEntries
  <2> QED
    BY <2>6 DEF LastCovers
<1> QED
  BY <1>6, <1>7, HandlerMotion

\* The rate check compares with a time that covers everything accepted, and
\* nobody else publishes for the user until the goroutine returns.
LEMMA HandlerSpaces ==
  ASSUME "SaveUserState" \notin Faults, TypeOK, SerialInv, SpaceInv, NEW h \in Handler,
         HandlerStep(h)
  PROVE  HandlersSpaced'
<1>1. /\ conn' = conn /\ \A g \in Handler \ {h} : hs'[g] = hs[g]
      /\ \A d \in Chan : sess'[d].user = sess[d].user
      /\ \A d \in Chan \ {hs[h].ch} : sess'[d].last = sess[d].last
  BY HandlerCases, HandlerMotion
\* The other goroutines.
<1>2. ASSUME NEW g \in Handler, g # h, hs'[g].pc \in Judged
      PROVE  /\ hs'[g].at > 0
             /\ \A i \in DOMAIN accepted' : accepted'[i].user = sess'[hs'[g].ch].user =>
                  hs'[g].at - accepted'[i].at >= Second
             /\ hs'[g].pc \in Stamped => sess'[hs'[g].ch].last = hs'[g].at
             /\ hs'[g].pc = "publish" => userStates'[sess'[hs'[g].ch].user].last = hs'[g].at
  <2>1. hs'[g] = hs[g] /\ hs[g].pc \in Busy /\ hs[g].pc \in Judged
    BY <1>1, <1>2 DEF Judged, Unseen, Busy
  <2>2. hs[g].ch \in Chan /\ hs[g].ch # hs[h].ch
    BY <1>2, <2>1, BusyHandler DEF SerialInv, OneRequest
  <2>3. hs[h].pc \in Busy => sess[hs[g].ch].user # sess[hs[h].ch].user
    BY <2>2, OtherUser DEF Restored
  <2>4. sess'[hs[g].ch].user = sess[hs[g].ch].user /\ sess'[hs[g].ch].last = sess[hs[g].ch].last
    BY <1>1, <2>2
  <2>5. \A i \in DOMAIN accepted' : accepted'[i].user = sess[hs[g].ch].user =>
          i \in DOMAIN accepted /\ accepted'[i] = accepted[i]
    <3>1. CASE UNCHANGED accepted
      BY <3>1
    <3>2. CASE Publishes(h)
      <4>1. hs[h].pc \in Busy /\ EventOf(h).user = sess[hs[h].ch].user
        BY <3>2 DEF Publishes, Busy, EventOf
      <4> QED
        BY <2>3, <3>2, <4>1, PublishedEntries
    <3> QED
      BY <3>1, <3>2, HandlerMotion
  <2>6. userStates'[sess[hs[g].ch].user] = userStates[sess[hs[g].ch].user]
    <3>1. sess[hs[g].ch].user \in User
      BY <2>1, BusyHandler
    <3>2. CASE SavesState(h)
      BY <2>3, <3>1, <3>2 DEF SavesState, Moves, Busy
    <3>3. CASE UNCHANGED userStates
      BY <3>3
    <3> QED
      BY <3>2, <3>3, HandlerCases DEF Begins, Ends, Checks, ReadsClock, PassesRate, FindsMap,
         MakesMap, PassesDup, Verifies, Records, Stamps, SavesNonce, Publishes, Quietly
  <2> QED
    BY <2>1, <2>4, <2>5, <2>6 DEF SpaceInv, HandlersSpaced
\* The goroutine itself.
<1>3. ASSUME hs'[h].pc \in Judged
      PROVE  /\ hs'[h].at > 0
             /\ \A i \in DOMAIN accepted' : accepted'[i].user = sess'[hs'[h].ch].user =>
                  hs'[h].at - accepted'[i].at >= Second
             /\ hs'[h].pc \in Stamped => sess'[hs'[h].ch].last = hs'[h].at
             /\ hs'[h].pc = "publish" => userStates'[sess'[hs'[h].ch].user].last = hs'[h].at
  <2>1. /\ \/ PassesRate(h) \/ FindsMap(h) \/ MakesMap(h) \/ PassesDup(h) \/ Verifies(h)
           \/ Records(h) \/ Stamps(h) \/ SavesNonce(h) \/ SavesState(h)
    BY <1>3, HandlerCases DEF Begins, Ends, Checks, ReadsClock, Publishes, Moves, Judged,
       Unseen
  <2>2. hs[h].pc \in Busy /\ hs'[h].ch = hs[h].ch /\ UNCHANGED accepted
    BY <2>1 DEF PassesRate, FindsMap, MakesMap, PassesDup, Verifies, Records, Stamps,
       SavesNonce, SavesState, Moves, Quietly, Busy
  <2>3. hs[h].ch \in Chan /\ Restored(hs[h].ch) /\ sess'[hs[h].ch].user = sess[hs[h].ch].user
    BY <1>1, <2>2, BusyHandler DEF Restored
  <2>4. CASE PassesRate(h)
    <3>1. /\ hs[h].pc = "limit" /\ hs'[h].at = hs[h].at /\ hs'[h].pc = "map"
          /\ sess[hs[h].ch].last = 0 \/ hs[h].at - sess[hs[h].ch].last >= Second
      BY <2>4 DEF PassesRate, Moves, Keeps
    <3>2. ASSUME NEW i \in DOMAIN accepted, accepted[i].user = sess[hs[h].ch].user
          PROVE  hs[h].at - accepted[i].at >= Second
      <4>1. accepted[i].at > 0 /\ accepted[i].at <= sess[hs[h].ch].last
        BY <2>3, <3>2 DEF SpaceInv, LastCovers
      <4>2. accepted[i].at \in Int /\ sess[hs[h].ch].last \in Int /\ hs[h].at \in Int
            /\ Second \in Int
        BY <2>3, Times
      <4> QED
        BY <3>1, <4>1, <4>2
    <3>3. hs[h].at > 0
      BY <3>1 DEF SpaceInv, HandlersSpaced
    <3> QED
      BY <2>2, <2>3, <3>1, <3>2, <3>3 DEF Stamped
  <2>5. CASE ~ PassesRate(h)
    <3>1. hs[h].pc \in Judged /\ hs'[h].at = hs[h].at
      BY <2>1, <2>5 DEF FindsMap, MakesMap, PassesDup, Verifies, Records, Stamps,
         SavesNonce, SavesState, Moves, Keeps, Judged, Unseen
    <3>2. hs'[h].pc \in Stamped => sess'[hs[h].ch].last = hs[h].at
      <4>1. CASE Stamps(h)
        BY <4>1 DEF Stamps
      <4>2. CASE SavesNonce(h) \/ SavesState(h)
        BY <2>3, <4>2 DEF SavesNonce, SavesState, Moves, SessionsKeep, SpaceInv,
           HandlersSpaced, Stamped
      <4>3. CASE hs'[h].pc \notin Stamped
        BY <4>3
      <4> QED
        BY <2>1, <2>5, <4>1, <4>2, <4>3 DEF FindsMap, MakesMap, PassesDup, Verifies, Records,
           Moves, Stamped
    <3>3. hs'[h].pc = "publish" => userStates'[sess[hs[h].ch].user].last = hs[h].at
      <4>1. ASSUME hs'[h].pc = "publish" PROVE SavesState(h)
        BY <2>1, <2>5, <4>1 DEF FindsMap, MakesMap, PassesDup, Verifies, Records, Stamps,
           SavesNonce, Moves
      <4> QED
        BY <4>1 DEF SavesState, Moves, SpaceInv, HandlersSpaced, Stamped
    <3> QED
      BY <2>2, <2>3, <3>1, <3>2, <3>3 DEF SpaceInv, HandlersSpaced
  <2> QED
    BY <2>4, <2>5
<1>4. "publish" \in Judged /\ Stamped \subseteq Judged
  BY DEF Judged, Unseen, Stamped
<1>5. ASSUME NEW g \in Handler, hs'[g].pc = "limit" PROVE hs'[g].at > 0
  <2>1. CASE g # h
    BY <1>1, <1>5, <2>1 DEF SpaceInv, HandlersSpaced
  <2>2. CASE g = h
    <3>1. ReadsClock(h)
      BY <1>5, <2>2, HandlerCases DEF Begins, Ends, Checks, PassesRate, FindsMap, MakesMap,
         PassesDup, Verifies, Records, Stamps, SavesNonce, SavesState, Publishes, Moves
    <3> QED
      BY <2>2, <3>1 DEF ReadsClock, SpaceInv
  <2> QED
    BY <2>1, <2>2
<1> QED
  BY <1>2, <1>3, <1>4, <1>5 DEF HandlersSpaced

\* A session is restored from user_state before it counts.
LEMMA ConnSpaces ==
  ASSUME "LoadUserState" \notin Faults, TypeOK, SerialInv, SpaceInv, NEW c \in Chan,
         ConnStep(c)
  PROVE  SpaceInv'
<1>1. /\ UNCHANGED <<now, hs, accepted, userStates>>
      /\ \A d \in Chan \ {c} : conn'[d] = conn[d]
  BY ConnCases
<1>2. /\ conn[c] \in {"none", "registered", "restored"} => \A h \in Handler : hs[h].ch # c
      /\ \A h \in Handler : hs[h].pc \in Busy =>
           /\ sess'[hs[h].ch].user = sess[hs[h].ch].user
           /\ sess'[hs[h].ch].last = sess[hs[h].ch].last
  BY ConnStaysAt DEF SerialInv
<1>3. HandlersSpaced'
  BY <1>1, <1>2 DEF SpaceInv, HandlersSpaced, Judged, Unseen, Stamped, Busy
<1>4. ASSUME NEW i \in DOMAIN accepted, NEW d \in Chan, Restored(d)',
             sess'[d].user = accepted[i].user
      PROVE  accepted[i].at <= sess'[d].last
  <2>1. CASE Restored(d) /\ sess'[d].user = sess[d].user /\ sess'[d].last = sess[d].last
    BY <1>4, <2>1 DEF SpaceInv, LastCovers
  <2>2. CASE Advances(c)
    <3>1. Restored(d)
      BY <1>1, <1>4, <2>2 DEF Advances, Restored
    <3> QED
      BY <2>1, <2>2, <3>1 DEF Advances, SessionsKeep
  <2>3. ASSUME NEW u \in User, Registers(c, u)
        PROVE  d # c /\ Restored(d) /\ sess'[d] = sess[d]
    BY <1>1, <1>2, <1>4, <2>3 DEF Registers, Restored
  <2>4. CASE Restores(c) /\ d = c
    <3>1. sess[c].user \in User
      BY <2>4 DEF Restores, TypeOK, UsersOK
    <3>2. sess'[c].last = userStates[sess[c].user].last /\ sess'[c].user = sess[c].user
      BY <2>4 DEF Restores
    <3> QED
      BY <1>4, <2>4, <3>1, <3>2 DEF SpaceInv, LastCovers
  <2>5. CASE Restores(c) /\ d # c
    <3>1. Restored(d)
      BY <1>1, <1>4, <2>5 DEF Restored
    <3> QED
      BY <2>1, <2>5, <3>1 DEF Restores
  <2> QED
    BY <2>1, <2>2, <2>3, <2>4, <2>5, ConnCases
<1>5. LastCovers'
  BY <1>1, <1>4 DEF SpaceInv, LastCovers
<1> QED
  BY <1>1, <1>3, <1>5 DEF SpaceInv, RateLimitPerUser

\* A goroutine that publishes is past the rate limit.
LEMMA HandlerRate ==
  ASSUME TypeOK, SpaceInv, NEW h \in Handler, HandlerStep(h)
  PROVE  RateLimitPerUser'
<1>1. CASE UNCHANGED accepted
  BY <1>1 DEF SpaceInv, RateLimitPerUser
<1>2. CASE Publishes(h)
  <2>1. \A i \in DOMAIN accepted : accepted[i].user = EventOf(h).user =>
          EventOf(h).at - accepted[i].at >= Second
    BY <1>2 DEF Publishes, SpaceInv, HandlersSpaced, Judged, Unseen, EventOf
  <2>2. \A i \in DOMAIN accepted : ~ (Len(accepted) + 1 < i)
    BY Shapes
  <2>3. ~ (Len(accepted) + 1 < Len(accepted) + 1)
    BY Shapes
  <2> HIDE DEF EventOf
  <2> QED
    BY <1>2, <2>1, <2>2, <2>3, PublishedEntries DEF SpaceInv, RateLimitPerUser
<1> QED
  BY <1>1, <1>2, HandlerMotion

\* SpaceInv holds in every reachable state.
LEMMA SpaceInvariant ==
  ASSUME Serial, "LoadUserState" \notin Faults, "SaveUserState" \notin Faults
  PROVE  Spec => []SpaceInv
<1>1. Init => SpaceInv
  BY DEF Init, Idle, SpaceInv, LastCovers, HandlersSpaced, RateLimitPerUser, Judged,
     Unseen, Stamped
<1>2. TypeOK /\ SerialInv /\ SpaceInv /\ [Next]_vars => SpaceInv'
  <2> SUFFICES ASSUME TypeOK, SerialInv, SpaceInv, [Next]_vars PROVE SpaceInv'
    OBVIOUS
  <2>1. CASE LoopStep \/ Tick \/ UNCHANGED vars
    <3>1. Quietly /\ UNCHANGED <<conn, hs>> /\ now' \in {now, now + 1}
      BY <2>1, LoopCases
    <3>2. \A h \in Handler : hs[h].pc \in Busy => hs[h].ch \in Chan
      BY BusyHandler
    <3>3. now' > 0
      BY <3>1, Times DEF SpaceInv
    <3>4. LastCovers' /\ RateLimitPerUser'
      BY <3>1 DEF Quietly, SessionsKeep, SpaceInv, LastCovers, Restored, RateLimitPerUser
    <3>5. HandlersSpaced'
      BY <3>1, <3>2 DEF Quietly, SessionsKeep, SpaceInv, HandlersSpaced, Judged, Unseen,
         Stamped, Busy
    <3> QED
      BY <3>3, <3>4, <3>5 DEF SpaceInv
  <2>2. CASE Crash
    <3>1. \A c \in Chan : ~ Restored(c)'
      BY <2>2, CrashCases, Shapes DEF Restored
    <3>2. UNCHANGED <<now, userStates, accepted>>
          /\ \A h \in Handler : hs'[h].pc \notin Judged \cup {"limit"}
      BY <2>2, CrashCases DEF Judged, Unseen
    <3> QED
      BY <3>1, <3>2 DEF SpaceInv, LastCovers, HandlersSpaced, RateLimitPerUser, Judged,
         Unseen, Stamped
  <2>3. ASSUME NEW h \in Handler, HandlerStep(h) PROVE SpaceInv'
    <3>1. now' = now
      BY <2>3, HandlerCases
    <3> QED
      BY <2>3, <3>1, HandlerCovers, HandlerSpaces, HandlerRate DEF SpaceInv
  <2> QED
    BY <2>1, <2>2, <2>3, ConnSpaces DEF Next
<1> QED
  BY <1>1, <1>2, CoordinatorTypes, SerialInvariant, PTL DEF Spec

\* Two accepted submissions of a user are a second apart, reconnections and
\* restarts between them included, when the user has one connection and one
\* request in flight and user_state is loaded and saved without errors.
THEOREM SubmissionsSpaced ==
  ASSUME Serial, "LoadUserState" \notin Faults, "SaveUserState" \notin Faults
  PROVE  Spec => []RateLimitPerUser
<1>1. SpaceInv => RateLimitPerUser
  BY DEF SpaceInv
<1> QED
  BY <1>1, SpaceInvariant, PTL

-----------------------------------------------------------------------------
(* Coordinator implements Ledger *)

Announced == UNION {known[u] : u \in User}

\* The only steps that change what the Ledger shows are a delivered job and a
\* published submission.
LEMMA LedgerFrame ==
  ASSUME TypeOK, [Next]_vars,
         ~ \E c \in Chan : PushNonce(c),
         ~ \E h \in Handler : HandlerStep(h) /\ Publishes(h)
  PROVE  UNCHANGED <<known, accepted>>
<1>1. CASE LoopStep \/ Tick \/ Crash \/ UNCHANGED vars
  BY <1>1 DEF LoopStep, Tick, Crash, vars, RestoreLatest, RestoreHistory, RotateJob,
     SaveJob, BroadcastSnapshot, BroadcastLock, BroadcastUnlock, TickerFires, StopLoop,
     PushJobID
<1>2. ASSUME NEW c \in Chan, ConnStep(c) PROVE UNCHANGED <<known, accepted>>
  BY <1>2, ConnCases
<1>3. ASSUME NEW h \in Handler, HandlerStep(h) PROVE UNCHANGED <<known, accepted>>
  BY <1>3, HandlerCases, HandlerMotion
<1> QED
  BY <1>1, <1>2, <1>3 DEF Next

\* Delivering a job announces it, under a higher id than all before, or repeats
\* the announcement.
LEMMA PushAnnounces ==
  ASSUME TypeOK, JobInv, NEW c \in Chan, PushNonce(c)
  PROVE  Announced' = Announced \/ \E m \in Job : LedgerOf!Announce(m)
<1> DEFINE m == [job |-> jobID, nonce |-> serverNonce]
<1>1. m \in Job
  BY ConstantsAssumption DEF TypeOK, EnvOK, LoopOK, Job, JobId
<1>2. accepted' = accepted
  BY DEF PushNonce
<1>3. CASE conn[c] = "open" /\ m \notin Announced
  <2>1. sess[c].user \in User
    BY <1>3 DEF TypeOK, UsersOK
  <2>2. known \in [User -> SUBSET Job]
        /\ known' = [known EXCEPT ![sess[c].user] = known[sess[c].user] \cup {m}]
    BY <1>3, <2>1 DEF PushNonce, TypeOK, LogOK
  <2>3. Announced' = Announced \cup {m}
    BY <2>1, <2>2 DEF Announced
  <2>4. ASSUME NEW k \in Announced PROVE k.job < m.job
    <3>1. k \in Job /\ k.job \in DOMAIN jobHist /\ jobHist[k.job].nonce = k.nonce
      BY <2>2 DEF Announced, JobInv, KnownPersisted
    <3>2. pc = "push"
      BY DEF PushNonce
    <3>3. k.job <= jobID /\ (k.job = jobID => k.nonce = serverNonce)
      BY <3>1, <3>2 DEF JobInv, NoneAhead, CurrentPersisted
    <3>4. k.job # jobID
      BY <1>3, <3>1, <3>3 DEF Job
    <3>5. k.job \in Int /\ jobID \in Int
      BY <1>1, <3>1 DEF Job, JobId
    <3> QED
      BY <3>3, <3>4, <3>5
  <2> QED
    BY <1>1, <1>2, <2>3, <2>4 DEF LedgerOf!Announce, Announced
<1>4. CASE conn[c] # "open"
  BY <1>4 DEF PushNonce, Announced
<1>5. CASE conn[c] = "open" /\ m \in Announced
  <2>1. sess[c].user \in User
    BY <1>5 DEF TypeOK, UsersOK
  <2>2. known \in [User -> SUBSET Job]
        /\ known' = [known EXCEPT ![sess[c].user] = known[sess[c].user] \cup {m}]
    BY <1>5, <2>1 DEF PushNonce, TypeOK, LogOK
  <2> HIDE DEF m
  <2> QED
    BY <1>5, <2>1, <2>2 DEF Announced
<1> QED
  BY <1>3, <1>4, <1>5

\* A published submission is new on its connection and a second after the
\* user's earlier ones.
LEMMA PublishAccepts ==
  ASSUME TypeOK, FreshInv, SpaceInv, NEW h \in Handler, HandlerStep(h), Publishes(h)
  PROVE  \E e \in Event : LedgerOf!Accept(e)
<1>1. hs[h].pc = "publish" /\ hs[h].pc \in Busy
  BY DEF Publishes, Busy
<1>2. EventOf(h) \in Event
  BY <1>1, BusyHandler, Shapes DEF EventOf, Event, HandlerState, Submission
<1>3. accepted' = Append(accepted, EventOf(h))
  BY DEF Publishes, EventOf
<1>4. UNCHANGED Announced
  BY HandlerCases DEF Announced
<1>5. LedgerOf!Fresh(EventOf(h))
  BY <1>1 DEF LedgerOf!Fresh, FreshInv, NotAccepted, Unseen, EventOf
<1>6. LedgerOf!Spaced(EventOf(h))
  BY <1>1 DEF LedgerOf!Spaced, SpaceInv, HandlersSpaced, Judged, Unseen, EventOf
<1> HIDE DEF EventOf
<1> QED
  BY <1>2, <1>3, <1>4, <1>5, <1>6 DEF LedgerOf!Accept, Announced

\* With one connection and one request in flight per user, and no errors from
\* the calls that load and save jobs and user_state, the server with its
\* goroutines, store and restarts behaves as the Ledger: job ids increase with
\* one nonce each, no client nonce is accepted twice on a connection, and a
\* user's accepted submissions are a second apart.
THEOREM CoordinatorImplementsLedger ==
  ASSUME Serial, "LoadLatestJob" \notin Faults, "SaveJob" \notin Faults,
         "LoadUserState" \notin Faults, "SaveUserState" \notin Faults
  PROVE  Spec => ImplementsLedger
<1>1. Init => LedgerOf!Init
  BY DEF Init, LedgerOf!Init
<1>2. TypeOK /\ JobInv /\ FreshInv /\ SpaceInv /\ [Next]_vars
        => [LedgerOf!Next]_<<Announced, accepted>>
  <2> SUFFICES ASSUME TypeOK, JobInv, FreshInv, SpaceInv, [Next]_vars
               PROVE  [LedgerOf!Next]_<<Announced, accepted>>
    OBVIOUS
  <2>1. ASSUME NEW c \in Chan, PushNonce(c)
        PROVE  [LedgerOf!Next]_<<Announced, accepted>>
    <3>1. accepted' = accepted
      BY <2>1 DEF PushNonce
    <3> QED
      BY <2>1, <3>1, PushAnnounces DEF LedgerOf!Next, Announced
  <2>2. ASSUME NEW h \in Handler, HandlerStep(h), Publishes(h)
        PROVE  [LedgerOf!Next]_<<Announced, accepted>>
    <3>1. accepted' # accepted
      BY <2>2, Shapes DEF Publishes
    <3> QED
      BY <2>2, <3>1, PublishAccepts DEF LedgerOf!Next
  <2>3. CASE UNCHANGED <<known, accepted>>
    BY <2>3 DEF Announced
  <2> QED
    BY <2>1, <2>2, <2>3, LedgerFrame
<1> QED
  BY <1>1, <1>2, CoordinatorTypes, JobInvariant, FreshInvariant, SpaceInvariant, PTL
     DEF Spec, ImplementsLedger, LedgerOf!Spec, Announced
=============================================================================
