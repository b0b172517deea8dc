----------------------------- MODULE LinkProofs -----------------------------
(***************************************************************************)
(* Proofs about Link: a Client object holds at most one open connection,   *)
(* Send panics only before one has been assigned, and the heartbeat keeps  *)
(* both read deadlines from expiring, for any number of connections and    *)
(* any period below the deadline.                                          *)
(***************************************************************************)
EXTENDS Link, FiniteSetTheorems, TLAPS

-----------------------------------------------------------------------------
(* One connection *)

\* A connection the client is dialling or has not closed.
Live(c) == dial[c] \in {"dial", "assign"} \/ csock[c] = "open"

ClientTypes ==
  /\ state \in {0, 1} /\ conn \in Conn \cup {NoConn} /\ once \in BOOLEAN
  /\ dial \in [Conn -> {"no", "dial", "assign", "returned"}]
  /\ csock \in [Conn -> {"none", "open", "closed"}]
  /\ spc \in {"idle", "send", "panic"}
  /\ clpc \in {"idle", "write", "close", "reset", "returned"}

\* The CAS: state is 1 as long as a connection is live, and one is at most.
OneLive ==
  /\ \A c \in Conn : Live(c) => state = 1
  /\ \A c, d \in Conn : Live(c) /\ Live(d) => c = d

\* Where Connect stands tells what its socket is.
Dialled ==
  \A c \in Conn :
    /\ dial[c] \in {"no", "dial"} => csock[c] = "none"
    /\ dial[c] = "assign" => csock[c] = "open"
    /\ dial[c] = "returned" /\ csock[c] = "open" => conn = c
    /\ conn = NoConn => csock[c] = "none" \/ dial[c] = "assign"

\* c.conn is a connection whose Connect has returned; it is open until Close
\* closes it, and no other is dialled before Close has set state back.
Assigned ==
  /\ conn # NoConn => dial[conn] = "returned" /\ csock[conn] # "none"
  /\ conn # NoConn /\ clpc \in {"idle", "write", "close"} => csock[conn] = "open"
  /\ clpc \in {"write", "close", "reset"} => conn # NoConn
  /\ clpc = "reset" => state = 1 /\ \A c \in Conn : ~ Live(c)
  /\ once <=> clpc # "idle"
  /\ spc = "panic" => conn = NoConn

ClientInv == ClientTypes /\ OneLive /\ Dialled /\ Assigned

\* The other goroutines, the network and the clock leave all of this alone.
LEMMA ClientKept ==
  ASSUME ClientInv, UNCHANGED <<client, callers>>
  PROVE  ClientInv'
BY DEF ClientInv, ClientTypes, OneLive, Dialled, Assigned, Live, client, callers

\* Connect, Send and Close, one step each, keep the client's invariant.
LEMMA ClientSteps ==
  ASSUME ClientInv, [Next]_vars
  PROVE  ClientInv'
<1> USE DEF ClientInv, ClientTypes, OneLive, Dialled, Assigned, Live, client, callers
<1>0. \A c \in Conn : c # NoConn
  BY LinkAssumption DEF Conn, NoConn
<1>1. ASSUME NEW c \in Conn, ConnectCAS(c) PROVE ClientInv'
  <2>1. /\ dial[c] = "no" /\ state = 0 /\ state' = 1
        /\ dial' = [dial EXCEPT ![c] = "dial"]
        /\ UNCHANGED <<conn, once, csock, spc, clpc>>
    BY <1>1 DEF ConnectCAS
  <2>2. ClientTypes' /\ OneLive'
    BY <2>1
  <2>3. Dialled' /\ Assigned'
    BY <2>1
  <2> QED
    BY <2>2, <2>3
<1>2. ASSUME NEW c \in Conn, Dial(c) PROVE ClientInv'
  BY <1>2 DEF Dial
<1>3. ASSUME NEW c \in Conn, DialFails(c) PROVE ClientInv'
  BY <1>3 DEF DialFails
<1>4. ASSUME NEW c \in Conn, spc # "panic", Assign(c) PROVE ClientInv'
  <2>1. ClientTypes' /\ OneLive'
    BY <1>4 DEF Assign
  <2>2. Dialled' /\ Assigned'
    BY <1>4, <1>0 DEF Assign
  <2> QED
    BY <2>1, <2>2
<1>5. CASE SendTest
  BY <1>5 DEF SendTest
<1>6. CASE spc # "panic" /\ Send
  BY <1>6 DEF Send
<1>7. CASE CloseTest
  BY <1>7 DEF CloseTest
<1>8. CASE CloseWrite
  BY <1>8 DEF CloseWrite
<1>9. CASE CloseSocket
  BY <1>9 DEF CloseSocket
<1>10. CASE CloseReset
  BY <1>10 DEF CloseReset
<1>11. CASE UNCHANGED <<client, callers>>
  BY <1>11, ClientKept
<1>12. Next =>
         \/ \E c \in Conn : \/ ConnectCAS(c) \/ Dial(c) \/ DialFails(c)
                           \/ (spc # "panic" /\ Assign(c))
         \/ SendTest \/ (spc # "panic" /\ Send) \/ CloseTest
         \/ CloseWrite \/ CloseSocket \/ CloseReset \/ UNCHANGED <<client, callers>>
  BY DEF Next, ConnectStep, BeatStep, ServeStep, CloseStep, ReadStep, Ping, PingFails,
         GetFree, Refuse, Add, ReadloopFrame, ReadloopTimeout, Remove, ReadloopFails,
         Silence, Finalize, ReadCall, ReadReturns, ReadTimeout, ReadFails, Tick
<1>13. UNCHANGED vars => UNCHANGED <<client, callers>>
  BY DEF vars
<1> QED
  BY <1>1, <1>2, <1>3, <1>4, <1>5, <1>6, <1>7, <1>8, <1>9, <1>10, <1>11, <1>12, <1>13

\* The callers of Connect, Send and Close keep ClientInv.
LEMMA ClientInvariant == Spec => []ClientInv
<1>1. Init => ClientInv
  <2>0. Init => /\ state = 0 /\ conn = NoConn /\ once = FALSE
                /\ dial = [c \in Conn |-> "no"] /\ csock = [c \in Conn |-> "none"]
                /\ spc = "idle" /\ clpc = "idle"
    BY DEF Init
  <2>1. Init => ClientTypes
    BY <2>0 DEF ClientTypes
  <2>3. Init => OneLive
    BY DEF Init, OneLive, Live
  <2>2. Init => Dialled /\ Assigned
    BY DEF Init, Dialled, Assigned, Live
  <2> QED
    BY <2>1, <2>2, <2>3 DEF ClientInv
<1> QED
  BY <1>1, ClientSteps, PTL DEF Spec

\* A set whose members are all equal has at most one.
LEMMA AtMostOne ==
  ASSUME NEW S, \A x, y \in S : x = y
  PROVE  Cardinality(S) <= 1
<1>1. CASE S = {}
  BY <1>1, FS_EmptySet
<1>2. CASE S # {}
  <2>1. PICK x : x \in S
    BY <1>2
  <2>2. S = {x}
    BY <2>1
  <2> QED
    BY <2>2, FS_Singleton
<1> QED
  BY <1>1, <1>2

\* Over any interleaving of Connect, Close and a connection made again, a Client
\* object has at most one open connection.
THEOREM ClientOneConnection == Spec => []OneConnection
<1>1. ClientInv => OneConnection
  <2> SUFFICES ASSUME ClientInv PROVE OneConnection
    OBVIOUS
  <2> DEFINE S == {c \in Conn : csock[c] = "open"}
  <2>1. \A x, y \in S : x = y
    BY DEF ClientInv, OneLive, Live
  <2> HIDE DEF S
  <2>2. Cardinality(S) <= 1
    BY <2>1, AtMostOne
  <2> QED
    BY <2>2 DEF OneConnection, S
<1> QED
  BY <1>1, ClientInvariant, PTL

\* Send dereferences a nil c.conn only before the first Connect has assigned it.
THEOREM SendPanicsOnlyUnassigned == Spec => []PanicsOnlyBeforeConnected
<1>1. ClientInv => PanicsOnlyBeforeConnected
  BY DEF ClientInv, Assigned, Dialled, PanicsOnlyBeforeConnected
<1> QED
  BY <1>1, ClientInvariant, PTL

-----------------------------------------------------------------------------
(* The heartbeat *)

PeerTypes ==
  /\ kind \in {"tcp", "ws"} /\ beats \in BOOLEAN
  /\ rpc \in {"idle", "read", "ended"} /\ rconn \in Conn \cup {NoConn} /\ rdl \in Nat
  /\ hb \in [Conn -> {"off", "wait", "ended"}] /\ due \in [Conn -> 0 .. Heartbeat]
  /\ up \in [Conn -> BOOLEAN]
  /\ c2s \in [Conn -> Seq({"binary", "ping", "close"})]
  /\ s2c \in [Conn -> Seq({"pong", "close"})]
  /\ srv \in [Conn -> {"none", "add", "read", "remove", "ended", "refused"}]
  /\ sdl \in [Conn -> Nat] /\ ssock \in [Conn -> {"none", "open", "closed"}]

\* A frame of this kind is among those under way.
Has(s, op) == \E i \in DOMAIN s : s[i] = op

\* The two ends can talk to each other.
Healthy(c) == up[c] /\ csock[c] = "open"

\* The server keeps its socket open while it serves the connection, and stops
\* serving a healthy one only when the client has begun to close it.
Served ==
  \A c \in Conn :
    /\ csock[c] = "none" => srv[c] = "none" /\ ssock[c] = "none" /\ c2s[c] = <<>>
    /\ csock[c] # "none" /\ srv[c] \in {"none", "add", "read"} => ssock[c] = "open"
    /\ srv[c] = "refused" => ssock[c] = "closed"
    /\ Has(c2s[c], "close") => csock[c] = "closed" \/ clpc = "close"
    /\ beats /\ Healthy(c) /\ srv[c] \in {"remove", "ended"} => clpc = "close"

\* The heartbeat of a healthy connection runs as long as it is served.
Beating ==
  \A c \in Conn :
    /\ hb[c] # "off" => dial[c] = "returned" /\ conn # NoConn
    /\ beats /\ Healthy(c) /\ dial[c] = "returned" /\ srv[c] \in {"none", "add", "read"}
         => hb[c] = "wait"

\* The next ping comes before the server's deadline.
ServerAlive ==
  \A c \in Conn :
    beats /\ Healthy(c) /\ srv[c] = "read" =>
      /\ dial[c] = "assign" => sdl[c] = ReadWait
      /\ dial[c] = "returned" => c2s[c] # <<>> \/ sdl[c] > due[c]

\* The next ping comes before the client's deadline, or a ping, a pong or the end
\* of the stream is under way.
ClientAlive ==
  rpc = "read" /\ beats =>
    /\ rconn # NoConn /\ dial[rconn] = "returned" /\ csock[rconn] # "none"
    /\ Healthy(rconn) /\ s2c[rconn] = <<>> =>
         /\ rdl > 0
         /\ \/ rdl > due[rconn] \/ ssock[rconn] = "closed" \/ clpc = "close"
            \/ Has(c2s[rconn], "ping")

BeatInv == PeerTypes /\ Served /\ Beating /\ ServerAlive /\ ClientAlive

\* What is under way when a frame is added, and when the first one is taken.
LEMMA HasAppend ==
  ASSUME NEW S, NEW s \in Seq(S), NEW o \in S
  PROVE  /\ Append(s, o) \in Seq(S) /\ Append(s, o) # <<>>
         /\ \A x : Has(Append(s, o), x) <=> Has(s, x) \/ x = o
<1>1. Append(s, o) \in Seq(S) /\ Len(Append(s, o)) = Len(s) + 1
  OBVIOUS
<1>4. Append(s, o) # <<>>
  <2>1. Len(<<>>) = 0 /\ Len(s) \in Nat
    OBVIOUS
  <2> QED
    BY <1>1, <2>1
<1>2. /\ DOMAIN s = 1 .. Len(s) /\ DOMAIN Append(s, o) = 1 .. Len(s) + 1
      /\ \A i \in 1 .. Len(s) : Append(s, o)[i] = s[i]
      /\ Append(s, o)[Len(s) + 1] = o /\ Len(s) \in Nat
  OBVIOUS
<1>3. ASSUME NEW x PROVE Has(Append(s, o), x) <=> Has(s, x) \/ x = o
  BY <1>2 DEF Has
<1> QED
  BY <1>1, <1>3, <1>4

\* What is left when the first frame is taken.
LEMMA HasTail ==
  ASSUME NEW S, NEW s \in Seq(S), s # <<>>
  PROVE  /\ Tail(s) \in Seq(S) /\ Head(s) \in S /\ Has(s, Head(s))
         /\ \A x : Has(Tail(s), x) => Has(s, x)
         /\ \A x : Has(s, x) /\ x # Head(s) => Has(Tail(s), x)
<1>1. Tail(s) \in Seq(S) /\ Head(s) \in S /\ Has(s, Head(s))
  BY DEF Has
<1>2. \A x : Has(Tail(s), x) => Has(s, x)
  BY DEF Has
<1>3. ASSUME NEW x, Has(s, x), x # Head(s) PROVE Has(Tail(s), x)
  <2>1. PICK i \in 1 .. Len(s) : s[i] = x
    BY <1>3 DEF Has
  <2>2. i # 1 /\ i - 1 \in 1 .. Len(Tail(s)) /\ Tail(s)[i - 1] = x
    BY <2>1, <1>3
  <2>3. DOMAIN Tail(s) = 1 .. Len(Tail(s))
    BY <1>1
  <2> QED
    BY <2>2, <2>3 DEF Has
<1> QED
  BY <1>1, <1>2, <1>3

\* Nothing is under way on an empty wire.
LEMMA HasNone == \A x : ~ Has(<<>>, x)
BY DEF Has

\* A write of the client: a frame op may be added on a connection that is open.
Wrote(op) ==
  /\ c2s' \in [Conn -> Seq({"binary", "ping", "close"})]
  /\ \A d \in Conn :
       /\ \A x : Has(c2s[d], x) => Has(c2s'[d], x)
       /\ \A x : Has(c2s'[d], x) => Has(c2s[d], x) \/ x = op
       /\ c2s[d] # <<>> => c2s'[d] # <<>>
       /\ csock[d] # "open" => c2s'[d] = c2s[d]

\* A write of the client on its open connection adds its frame, or may fail.
LEMMA ClientWritten ==
  ASSUME PeerTypes, NEW k \in Conn, NEW op \in {"binary", "ping", "close"}, ClientWrites(k, op)
  PROVE  /\ csock[k] = "open" /\ Wrote(op)
         /\ ~ WriteCanFail(k) => Has(c2s'[k], op) /\ c2s'[k] # <<>>
<1> DEFINE T == {"binary", "ping", "close"}
<1>1. c2s \in [Conn -> Seq(T)] /\ c2s[k] \in Seq(T)
  BY DEF PeerTypes
<1>2. /\ Append(c2s[k], op) \in Seq(T) /\ Append(c2s[k], op) # <<>>
      /\ \A x : Has(Append(c2s[k], op), x) <=> Has(c2s[k], x) \/ x = op
  BY <1>1, HasAppend
<1> HIDE DEF T
<1>3. CASE WriteCanFail(k)
  BY <1>1, <1>3 DEF ClientWrites, Wrote, T
<1>4. CASE ~ WriteCanFail(k)
  <2>1. c2s' = [c2s EXCEPT ![k] = Append(c2s[k], op)] /\ csock[k] = "open"
    BY <1>4 DEF ClientWrites
  <2>2. c2s' \in [Conn -> Seq(T)] /\ c2s'[k] = Append(c2s[k], op)
    BY <2>1, <1>1, <1>2
  <2>3. \A d \in Conn : d # k => c2s'[d] = c2s[d]
    BY <2>1, <1>1
  <2> QED
    BY <2>1, <2>2, <2>3, <1>1, <1>2 DEF Wrote, T
<1> QED
  BY <1>3, <1>4

\* A step that leaves the wire alone counts as a write of nothing.
LEMMA NothingWritten ==
  ASSUME PeerTypes, UNCHANGED c2s, NEW op
  PROVE  Wrote(op)
BY DEF PeerTypes, Wrote

\* A write of the server reaches a client that is there and reads.
LEMMA ServerWritten ==
  ASSUME PeerTypes, NEW k \in Conn, NEW op \in {"pong", "close"}, ServerWrites(k, op)
  PROVE  /\ s2c' \in [Conn -> Seq({"pong", "close"})]
         /\ \A d \in Conn : d # k => s2c'[d] = s2c[d]
         /\ s2c[k] # <<>> => s2c'[k] # <<>>
         /\ Healthy(k) /\ ~ (rpc = "ended" /\ rconn = k) => s2c'[k] # <<>>
<1> DEFINE T == {"pong", "close"}
<1>1. s2c \in [Conn -> Seq(T)] /\ s2c[k] \in Seq(T)
  BY DEF PeerTypes
<1>2. Append(s2c[k], op) \in Seq(T) /\ Append(s2c[k], op) # <<>>
  BY <1>1, HasAppend
<1> HIDE DEF T
<1> QED
  BY <1>1, <1>2 DEF ServerWrites, Healthy, T

\* A nil connection is none of the connections.
LEMMA ConnIsNot0 == NoConn \notin Conn
BY DEF Conn, NoConn

\* The heartbeat of a healthy connection pings that connection.
LEMMA PingDoes ==
  ASSUME ClientInv, PeerTypes, Beating, NEW c \in Conn, BeatDue(c)
  PROVE  /\ PingConn(c) \in Conn /\ hb[c] = "wait" /\ due[c] = 0
         /\ Healthy(c) => PingConn(c) = c
BY DEF ClientInv, ClientTypes, Dialled, PeerTypes, Beating, BeatDue, PingConn, Healthy

\* Send writes nothing but an OpBinary, Close nothing but an OpClose.
LEMMA SendDoes ==
  ASSUME ClientInv, PeerTypes, Send
  PROVE  Wrote("binary")
<1>1. UNCHANGED c2s \/ (conn \in Conn /\ ClientWrites(conn, "binary"))
  BY DEF Send, ClientInv, ClientTypes
<1> QED
  BY <1>1, ClientWritten, NothingWritten

\* Close writes OpClose on the one open connection.
LEMMA CloseWriteDoes ==
  ASSUME ClientInv, PeerTypes, CloseWrite
  PROVE  /\ conn \in Conn /\ csock[conn] = "open" /\ Wrote("close")
         /\ \A d \in Conn : csock[d] = "open" => d = conn
<1>1. conn \in Conn /\ csock[conn] = "open"
  BY DEF CloseWrite, ClientInv, ClientTypes, Assigned
<1>2. UNCHANGED c2s \/ ClientWrites(conn, "close")
  BY DEF CloseWrite
<1>3. \A d \in Conn : csock[d] = "open" => d = conn
  BY <1>1 DEF ClientInv, OneLive, Live
<1> QED
  BY <1>1, <1>2, <1>3, ClientWritten, NothingWritten

\* Readloop takes the first frame: it ends on an OpClose and answers an OpPing.
LEMMA FrameDoes ==
  ASSUME PeerTypes, NEW c \in Conn, ReadloopFrame(c)
  PROVE  /\ srv[c] = "read" /\ c2s[c] # <<>>
         /\ c2s' \in [Conn -> Seq({"binary", "ping", "close"})]
         /\ s2c' \in [Conn -> Seq({"pong", "close"})]
         /\ \A d \in Conn : d # c => c2s'[d] = c2s[d] /\ s2c'[d] = s2c[d]
         /\ \A d \in Conn : \A x : Has(c2s'[d], x) => Has(c2s[d], x)
         /\ s2c[c] # <<>> => s2c'[c] # <<>>
         /\ UNCHANGED <<ssock, client, callers, readG, beatG, up>>
         /\ \/ Has(c2s[c], "close") /\ srv' = [srv EXCEPT ![c] = "remove"] /\ UNCHANGED sdl
            \/ /\ UNCHANGED srv /\ sdl' = [sdl EXCEPT ![c] = ReadWait]
               /\ Has(c2s[c], "ping") => \/ Has(c2s'[c], "ping")
                                         \/ Healthy(c) /\ rpc = "read" => s2c'[c] # <<>>
<1> DEFINE T == {"binary", "ping", "close"}
<1>1. /\ c2s \in [Conn -> Seq(T)] /\ c2s[c] \in Seq(T) /\ c2s[c] # <<>> /\ srv[c] = "read"
      /\ s2c \in [Conn -> Seq({"pong", "close"})]
  BY DEF ReadloopFrame, PeerTypes
<1>2. /\ Tail(c2s[c]) \in Seq(T) /\ Has(c2s[c], Head(c2s[c]))
      /\ \A x : Has(Tail(c2s[c]), x) => Has(c2s[c], x)
      /\ \A x : Has(c2s[c], x) /\ x # Head(c2s[c]) => Has(Tail(c2s[c]), x)
  BY <1>1, HasTail
<1> HIDE DEF T
<1>3. c2s' = [c2s EXCEPT ![c] = Tail(c2s[c])]
  BY DEF ReadloopFrame
<1>4. c2s' \in [Conn -> Seq(T)] /\ c2s'[c] = Tail(c2s[c])
  BY <1>1, <1>2, <1>3
<1>5. \A d \in Conn : d # c => c2s'[d] = c2s[d]
  BY <1>1, <1>3
<1>6. \A d \in Conn : \A x : Has(c2s'[d], x) => Has(c2s[d], x)
  BY <1>2, <1>4, <1>5
<1>7. UNCHANGED <<ssock, client, callers, readG, beatG, up>>
  BY DEF ReadloopFrame
<1>8. CASE Head(c2s[c]) = "close"
  <2>1. srv' = [srv EXCEPT ![c] = "remove"] /\ UNCHANGED <<sdl, s2c>>
    BY <1>8 DEF ReadloopFrame
  <2> QED
    BY <2>1, <1>1, <1>2, <1>4, <1>5, <1>6, <1>7, <1>8 DEF T
<1>9. CASE Head(c2s[c]) = "ping"
  <2>1. UNCHANGED srv /\ sdl' = [sdl EXCEPT ![c] = ReadWait] /\ ServerWrites(c, "pong")
    BY <1>9 DEF ReadloopFrame
  <2>2. /\ s2c' \in [Conn -> Seq({"pong", "close"})]
        /\ \A d \in Conn : d # c => s2c'[d] = s2c[d]
        /\ s2c[c] # <<>> => s2c'[c] # <<>>
        /\ Healthy(c) /\ ~ (rpc = "ended" /\ rconn = c) => s2c'[c] # <<>>
    BY <2>1, ServerWritten
  <2> QED
    BY <2>1, <2>2, <1>1, <1>4, <1>5, <1>6, <1>7 DEF T
<1>10. CASE Head(c2s[c]) \notin {"close", "ping"}
  <2>1. UNCHANGED srv /\ sdl' = [sdl EXCEPT ![c] = ReadWait] /\ UNCHANGED s2c
    BY <1>10 DEF ReadloopFrame
  <2> QED
    BY <2>1, <1>1, <1>2, <1>4, <1>5, <1>6, <1>7, <1>10 DEF T
<1> QED
  BY <1>8, <1>9, <1>10

\* Time passes on a healthy connection only when nothing is under way, the
\* server reads and the next ping is not due.
LEMMA TickDoes ==
  ASSUME ClientInv, PeerTypes, Served, Beating, Tick, NEW c \in Conn, beats, Healthy(c),
         srv[c] = "read" \/ (rpc = "read" /\ rconn = c)
  PROVE  /\ srv[c] = "read" /\ c2s[c] = <<>> /\ dial[c] = "returned"
         /\ due[c] \in Nat /\ due[c] > 0
<1>1. /\ dial[c] \in {"no", "returned"} /\ ~ BeatDue(c) /\ ~ Incoming(c)
      /\ srv[c] \notin {"add", "remove"} /\ (srv[c] = "read" => c2s[c] = <<>>)
      /\ clpc # "close" /\ (rpc = "read" /\ rconn = c => ssock[c] # "closed")
  BY DEF Tick, Quiet, ClientHangup, Healthy
<1>2. dial[c] = "returned"
  BY <1>1 DEF ClientInv, Dialled, Healthy
<1>3. srv[c] = "read"
  BY <1>1 DEF Served, PeerTypes, Incoming, Healthy
<1>4. hb[c] = "wait"
  BY <1>2, <1>3 DEF Beating
<1>5. due[c] # 0 /\ due[c] \in 0 .. Heartbeat
  BY <1>1, <1>4 DEF BeatDue, PeerTypes
<1> QED
  BY <1>1, <1>2, <1>3, <1>5, LinkAssumption

-----------------------------------------------------------------------------
(* The heartbeat's invariant, conjunct by conjunct *)

\* Every step keeps the types of the two ends and of the frames between them.
LEMMA PeerTypesKept ==
  ASSUME ClientInv, PeerTypes, Beating, Next
  PROVE  PeerTypes'
<1> USE DEF client, callers, readG, beatG, net, server
<1>0. /\ <<>> \in Seq({"binary", "ping", "close"}) /\ <<>> \in Seq({"pong", "close"})
      /\ Heartbeat \in 0 .. Heartbeat
  BY LinkAssumption
<1>1. ASSUME NEW c \in Conn, ConnectCAS(c) \/ Dial(c) \/ DialFails(c) PROVE PeerTypes'
  BY <1>1 DEF ConnectCAS, Dial, DialFails, PeerTypes
<1>2. ASSUME NEW c \in Conn, Assign(c) PROVE PeerTypes'
  <2>1. hb' \in [Conn -> {"off", "wait", "ended"}] /\ due' \in [Conn -> 0 .. Heartbeat]
    <3>1. CASE beats
      BY <1>2, <1>0, <3>1 DEF Assign, PeerTypes
    <3>2. CASE ~ beats
      BY <1>2, <3>2 DEF Assign, PeerTypes
    <3> QED
      BY <3>1, <3>2
  <2> QED
    BY <1>2, <2>1 DEF Assign, PeerTypes
<1>3. ASSUME NEW c \in Conn, Ping(c) PROVE PeerTypes'
  <2>1. c2s' \in [Conn -> Seq({"binary", "ping", "close"})]
    BY <1>3, PingDoes, ClientWritten DEF Ping, Wrote
  <2>2. due' \in [Conn -> 0 .. Heartbeat]
    BY <1>3, LinkAssumption DEF Ping, PeerTypes
  <2> QED
    BY <1>3, <2>1, <2>2 DEF Ping, PeerTypes
<1>4. ASSUME NEW c \in Conn, PingFails(c) PROVE PeerTypes'
  BY <1>4 DEF PingFails, PeerTypes
<1>5. ASSUME NEW c \in Conn, GetFree(c) \/ Finalize(c) PROVE PeerTypes'
  BY <1>5 DEF GetFree, Finalize, PeerTypes
<1>17. ASSUME NEW c \in Conn, Silence(c) PROVE PeerTypes'
  <2>1. /\ c2s' \in [Conn -> Seq({"binary", "ping", "close"})]
        /\ s2c' \in [Conn -> Seq({"pong", "close"})]
    BY <1>17, <1>0 DEF Silence, PeerTypes
  <2> QED
    BY <1>17, <2>1 DEF Silence, PeerTypes
<1>6. ASSUME NEW c \in Conn, Refuse(c) PROVE PeerTypes'
  <2>1. s2c' \in [Conn -> Seq({"pong", "close"})]
    BY <1>6, ServerWritten DEF Refuse
  <2>2. c2s' \in [Conn -> Seq({"binary", "ping", "close"})]
    BY <1>6, <1>0 DEF Refuse, PeerTypes
  <2> QED
    BY <1>6, <2>1, <2>2 DEF Refuse, PeerTypes
<1>7. ASSUME NEW c \in Conn, Add(c) PROVE PeerTypes'
  BY <1>7, LinkAssumption DEF Add, PeerTypes
<1>8. ASSUME NEW c \in Conn, ReadloopFrame(c) PROVE PeerTypes'
  <2>1. /\ c2s' \in [Conn -> Seq({"binary", "ping", "close"})]
        /\ s2c' \in [Conn -> Seq({"pong", "close"})]
        /\ UNCHANGED <<ssock, client, callers, readG, beatG, up>>
        /\ \/ srv' = [srv EXCEPT ![c] = "remove"] /\ UNCHANGED sdl
           \/ UNCHANGED srv /\ sdl' = [sdl EXCEPT ![c] = ReadWait]
    BY <1>8, FrameDoes
  <2> QED
    BY <2>1, LinkAssumption DEF PeerTypes
<1>9. ASSUME NEW c \in Conn, ReadloopTimeout(c) \/ ReadloopFails(c) PROVE PeerTypes'
  BY <1>9 DEF ReadloopTimeout, ReadloopFails, PeerTypes
<1>18. ASSUME NEW c \in Conn, Remove(c) PROVE PeerTypes'
  <2>1. c2s' \in [Conn -> Seq({"binary", "ping", "close"})]
    BY <1>18, <1>0 DEF Remove, PeerTypes
  <2> QED
    BY <1>18, <2>1 DEF Remove, PeerTypes
<1>10. CASE SendTest \/ CloseTest \/ CloseReset
  BY <1>10 DEF SendTest, CloseTest, CloseReset, PeerTypes
<1>19. CASE CloseSocket
  <2>1. s2c' \in [Conn -> Seq({"pong", "close"})]
    BY <1>19, <1>0 DEF CloseSocket, PeerTypes
  <2> QED
    BY <1>19, <2>1 DEF CloseSocket, PeerTypes
<1>11. CASE Send
  BY <1>11, SendDoes DEF Send, PeerTypes, Wrote
<1>12. CASE CloseWrite
  BY <1>12, CloseWriteDoes DEF CloseWrite, PeerTypes, Wrote
<1>13. CASE ReadCall
  BY <1>13, LinkAssumption DEF ReadCall, PeerTypes, ClientInv, ClientTypes
<1>14. CASE ReadReturns
  <2>1. s2c' \in [Conn -> Seq({"pong", "close"})]
    <3>1. CASE rconn \in Conn
      <4>1. Tail(s2c[rconn]) \in Seq({"pong", "close"})
        BY <3>1, <1>14, HasTail DEF ReadReturns, PeerTypes
      <4> QED
        BY <1>14, <4>1 DEF ReadReturns, PeerTypes
    <3>2. CASE rconn \notin Conn
      <4>1. s2c' = s2c
        BY <1>14, <3>2 DEF ReadReturns, PeerTypes
      <4> QED
        BY <4>1 DEF PeerTypes
    <3> QED
      BY <3>1, <3>2
  <2> QED
    BY <1>14, <2>1 DEF ReadReturns, PeerTypes
<1>15. CASE ReadTimeout \/ ReadFails
  BY <1>15 DEF ReadTimeout, ReadFails, PeerTypes
<1>16. CASE Tick
  <2>1. rdl' \in Nat /\ \A c \in Conn : Less(due[c]) \in 0 .. Heartbeat /\ Less(sdl[c]) \in Nat
    BY <1>16, LinkAssumption DEF Tick, Less, PeerTypes
  <2>2. due' \in [Conn -> 0 .. Heartbeat] /\ sdl' \in [Conn -> Nat]
    BY <1>16, <2>1 DEF Tick
  <2> QED
    BY <1>16, <2>1, <2>2 DEF Tick, PeerTypes
<1> QED
  BY <1>1, <1>2, <1>3, <1>4, <1>5, <1>6, <1>7, <1>8, <1>9, <1>10, <1>11, <1>12, <1>13,
     <1>14, <1>15, <1>16, <1>17, <1>18, <1>19
     DEF Next, ConnectStep, BeatStep, ServeStep, CloseStep, ReadStep

\* Every step keeps Served: where the server's goroutine of a connection is.
LEMMA ServedKept ==
  ASSUME ClientInv, PeerTypes, Served, Beating, ServerAlive, Next
  PROVE  Served'
<1> USE DEF client, callers, readG, beatG, net, server, Healthy
<1>1. ASSUME NEW c \in Conn, Dial(c) PROVE Served'
  BY <1>1, HasNone DEF Dial, Served, PeerTypes, ClientInv, ClientTypes, Dialled
<1>2. ASSUME NEW c \in Conn, Ping(c) PROVE Served'
  <2>1. Wrote("ping")
    BY <1>2, PingDoes, ClientWritten DEF Ping
  <2> QED
    BY <1>2, <2>1 DEF Ping, Served, Wrote
<1>3. ASSUME NEW c \in Conn, GetFree(c) PROVE Served'
  BY <1>3 DEF GetFree, Incoming, Served, PeerTypes
<1>4. ASSUME NEW c \in Conn, Refuse(c) PROVE Served'
  BY <1>4, HasNone DEF Refuse, Incoming, Served, PeerTypes
<1>5. ASSUME NEW c \in Conn, Add(c) PROVE Served'
  BY <1>5 DEF Add, Served, PeerTypes
<1>6. ASSUME NEW c \in Conn, ReadloopFrame(c) PROVE Served'
  <2>1. /\ srv[c] = "read" /\ UNCHANGED <<ssock, client, callers, up>>
        /\ \A d \in Conn : d # c => c2s'[d] = c2s[d]
        /\ \A d \in Conn : \A x : Has(c2s'[d], x) => Has(c2s[d], x)
        /\ UNCHANGED srv \/ (Has(c2s[c], "close") /\ srv' = [srv EXCEPT ![c] = "remove"])
    BY <1>6, FrameDoes
  <2>2. csock[c] # "none"
    BY <2>1 DEF Served
  <2> QED
    BY <2>1, <2>2 DEF Served, PeerTypes
<1>7. ASSUME NEW c \in Conn, ReadloopTimeout(c) PROVE Served'
  <2>1. c2s[c] = <<>> /\ sdl[c] = 0 /\ srv[c] = "read" /\ due[c] \in 0 .. Heartbeat
    BY <1>7 DEF ReadloopTimeout, PeerTypes
  <2>2. ~ (sdl[c] > due[c]) /\ sdl[c] # ReadWait
    BY <2>1, LinkAssumption
  <2>3. ~ (beats /\ Healthy(c))
    BY <2>1, <2>2 DEF ServerAlive, ClientInv, ClientTypes, Dialled
  <2> QED
    BY <1>7, <2>3 DEF ReadloopTimeout, Served, PeerTypes
<1>8. ASSUME NEW c \in Conn, Remove(c) PROVE Served'
  BY <1>8, HasNone DEF Remove, Served, PeerTypes
<1>9. ASSUME NEW c \in Conn, ReadloopFails(c) PROVE Served'
  BY <1>9 DEF ReadloopFails, Served, PeerTypes
<1>10. ASSUME NEW c \in Conn, Silence(c) PROVE Served'
  BY <1>10, HasNone DEF Silence, Served, PeerTypes
<1>11. ASSUME NEW c \in Conn, Finalize(c) PROVE Served'
  BY <1>11 DEF Finalize, Served, PeerTypes
<1>12. CASE Send
  BY <1>12, SendDoes DEF Send, Served, Wrote
<1>13. CASE CloseTest
  BY <1>13 DEF CloseTest, Served, ClientInv, Assigned
<1>14. CASE CloseWrite
  <2>1. /\ Wrote("close") /\ clpc = "write" /\ clpc' = "close"
        /\ UNCHANGED <<client, up, server>>
    BY <1>14, CloseWriteDoes DEF CloseWrite
  <2> QED
    BY <2>1 DEF Served, Wrote
<1>15. CASE CloseSocket
  <2>1. conn \in Conn /\ csock[conn] = "open" /\ \A d \in Conn : csock[d] = "open" => d = conn
    BY <1>15 DEF CloseSocket, ClientInv, ClientTypes, Assigned, OneLive, Live
  <2>2. \A d \in Conn : csock'[d] = IF d = conn THEN "closed" ELSE csock[d]
    BY <1>15, <2>1 DEF CloseSocket, ClientInv, ClientTypes
  <2>3. \A d \in Conn : csock'[d] \in {"none", "closed"} /\ (csock'[d] = "none" <=> csock[d] = "none")
    BY <2>1, <2>2 DEF ClientInv, ClientTypes
  <2>4. UNCHANGED <<c2s, up, server>>
    BY <1>15 DEF CloseSocket
  <2> QED
    BY <2>3, <2>4, HasNone DEF Served
<1>16. CASE CloseReset
  BY <1>16 DEF CloseReset, Served
<1>17. CASE UNCHANGED <<csock, srv, ssock, c2s, clpc, beats, up>>
  BY <1>17 DEF Served
<1>18. ASSUME NEW c \in Conn,
              ConnectCAS(c) \/ DialFails(c) \/ Assign(c) \/ PingFails(c) \/ SendTest
                \/ ReadCall \/ ReadReturns \/ ReadTimeout \/ ReadFails \/ Tick
       PROVE  Served'
  BY <1>17, <1>18 DEF ConnectCAS, DialFails, Assign, PingFails, SendTest, ReadCall,
                      ReadReturns, ReadTimeout, ReadFails, Tick
<1>19. \E c \in Conn : TRUE
  BY LinkAssumption DEF Conn
<1> QED
  BY <1>1, <1>2, <1>3, <1>4, <1>5, <1>6, <1>7, <1>8, <1>9, <1>10, <1>11, <1>12, <1>13,
     <1>14, <1>15, <1>16, <1>18, <1>19
     DEF Next, ConnectStep, BeatStep, ServeStep, CloseStep, ReadStep

\* Every step keeps Beating: a healthy connection has its heartbeat goroutine.
LEMMA BeatingKept ==
  ASSUME ClientInv, PeerTypes, Served, Beating, Next
  PROVE  Beating'
<1> USE DEF client, callers, readG, beatG, net, server, Healthy
<1>1. ASSUME NEW c \in Conn, ConnectCAS(c) PROVE Beating'
  BY <1>1 DEF ConnectCAS, Beating, ClientInv, ClientTypes
<1>2. ASSUME NEW c \in Conn, Dial(c) PROVE Beating'
  BY <1>2 DEF Dial, Beating, ClientInv, ClientTypes
<1>3. ASSUME NEW c \in Conn, DialFails(c) PROVE Beating'
  BY <1>3 DEF DialFails, Beating, ClientInv, ClientTypes, Dialled
<1>4. ASSUME NEW c \in Conn, Assign(c) PROVE Beating'
  BY <1>4, ConnIsNot0 DEF Assign, Beating, PeerTypes, ClientInv, ClientTypes
<1>5. ASSUME NEW c \in Conn, PingFails(c) PROVE Beating'
  <2>1. hb[c] = "wait" /\ WriteCanFail(PingConn(c)) /\ (Healthy(c) => PingConn(c) = c)
    BY <1>5, PingDoes DEF PingFails
  <2>2. Healthy(c) => srv[c] \notin {"none", "add", "read"}
    BY <2>1 DEF WriteCanFail, ReadCanFail, Served
  <2> QED
    BY <1>5, <2>1, <2>2 DEF PingFails, Beating, PeerTypes
<1>6. ASSUME NEW c \in Conn, GetFree(c) PROVE Beating'
  BY <1>6 DEF GetFree, Incoming, Beating, PeerTypes
<1>7. ASSUME NEW c \in Conn, Refuse(c) PROVE Beating'
  BY <1>7 DEF Refuse, Beating, PeerTypes
<1>8. ASSUME NEW c \in Conn, Add(c) PROVE Beating'
  BY <1>8 DEF Add, Beating, PeerTypes
<1>9. ASSUME NEW c \in Conn, ReadloopFrame(c) PROVE Beating'
  <2>1. /\ UNCHANGED <<client, beatG, up>>
        /\ UNCHANGED srv \/ srv' = [srv EXCEPT ![c] = "remove"]
    BY <1>9, FrameDoes
  <2> QED
    BY <2>1 DEF Beating, PeerTypes
<1>10. ASSUME NEW c \in Conn, ReadloopTimeout(c) \/ ReadloopFails(c) \/ Remove(c)
       PROVE  Beating'
  <2>1. /\ UNCHANGED <<client, beatG, up>>
        /\ srv' = [srv EXCEPT ![c] = "remove"] \/ srv' = [srv EXCEPT ![c] = "ended"]
    BY <1>10 DEF ReadloopTimeout, ReadloopFails, Remove
  <2> QED
    BY <2>1 DEF Beating, PeerTypes
<1>11. ASSUME NEW c \in Conn, Silence(c) PROVE Beating'
  BY <1>11 DEF Silence, Beating, PeerTypes
<1>12. CASE CloseSocket
  BY <1>12 DEF CloseSocket, Beating, ClientInv, ClientTypes
<1>13. CASE UNCHANGED <<csock, srv, dial, conn, beats, up, hb>>
  BY <1>13 DEF Beating
<1>14. ASSUME NEW c \in Conn, \/ Ping(c) \/ Finalize(c) \/ SendTest \/ Send \/ CloseTest
                              \/ CloseWrite \/ CloseReset \/ ReadCall \/ ReadReturns
                              \/ ReadTimeout \/ ReadFails \/ Tick
       PROVE  Beating'
  BY <1>13, <1>14 DEF Ping, Finalize, SendTest, Send, CloseTest, CloseWrite, CloseReset,
                      ReadCall, ReadReturns, ReadTimeout, ReadFails, Tick
<1>15. \E c \in Conn : TRUE
  BY LinkAssumption DEF Conn
<1> QED
  BY <1>1, <1>2, <1>3, <1>4, <1>5, <1>6, <1>7, <1>8, <1>9, <1>10, <1>11, <1>12, <1>14, <1>15
     DEF Next, ConnectStep, BeatStep, ServeStep, CloseStep, ReadStep

\* Every step keeps ServerAlive: the next ping comes before Readloop's deadline.
LEMMA ServerAliveKept ==
  ASSUME ClientInv, PeerTypes, Served, Beating, ServerAlive, Next
  PROVE  ServerAlive'
<1> USE DEF client, callers, readG, beatG, net, server, Healthy
<1>1. ASSUME NEW c \in Conn, ConnectCAS(c) PROVE ServerAlive'
  BY <1>1 DEF ConnectCAS, ServerAlive, ClientInv, ClientTypes
<1>2. ASSUME NEW c \in Conn, Dial(c) PROVE ServerAlive'
  BY <1>2 DEF Dial, ServerAlive, Served, ClientInv, ClientTypes, Dialled
<1>3. ASSUME NEW c \in Conn, DialFails(c) PROVE ServerAlive'
  BY <1>3 DEF DialFails, ServerAlive, ClientInv, ClientTypes, Dialled
<1>4. ASSUME NEW c \in Conn, Assign(c) PROVE ServerAlive'
  BY <1>4, LinkAssumption DEF Assign, ServerAlive, PeerTypes, ClientInv, ClientTypes
<1>5. ASSUME NEW c \in Conn, Ping(c) PROVE ServerAlive'
  <2>1. /\ Wrote("ping") /\ due' = [due EXCEPT ![c] = Heartbeat]
        /\ UNCHANGED <<client, up, server>>
    BY <1>5, PingDoes, ClientWritten DEF Ping
  <2>2. Healthy(c) /\ ~ WriteCanFail(c) => c2s'[c] # <<>>
    BY <1>5, PingDoes, ClientWritten DEF Ping
  <2>3. srv[c] = "read" /\ Healthy(c) => ~ WriteCanFail(c)
    BY DEF WriteCanFail, ReadCanFail, Served
  <2> QED
    BY <2>1, <2>2, <2>3 DEF ServerAlive, PeerTypes, Wrote
<1>6. ASSUME NEW c \in Conn, GetFree(c) \/ Refuse(c) PROVE ServerAlive'
  <2>1. /\ UNCHANGED <<client, due, up, sdl>> /\ \A d \in Conn : d # c => c2s'[d] = c2s[d]
        /\ srv' = [srv EXCEPT ![c] = "add"] \/ srv' = [srv EXCEPT ![c] = "refused"]
    BY <1>6 DEF GetFree, Refuse, PeerTypes
  <2> QED
    BY <2>1 DEF ServerAlive, PeerTypes
<1>7. ASSUME NEW c \in Conn, Add(c) PROVE ServerAlive'
  <2>1. ReadWait > due[c]
    BY LinkAssumption DEF PeerTypes
  <2> QED
    BY <1>7, <2>1 DEF Add, ServerAlive, PeerTypes
<1>8. ASSUME NEW c \in Conn, ReadloopFrame(c) PROVE ServerAlive'
  <2>1. /\ UNCHANGED <<client, beatG, up>> /\ \A d \in Conn : d # c => c2s'[d] = c2s[d]
        /\ \/ srv' = [srv EXCEPT ![c] = "remove"] /\ UNCHANGED sdl
           \/ UNCHANGED srv /\ sdl' = [sdl EXCEPT ![c] = ReadWait]
    BY <1>8, FrameDoes
  <2>2. ReadWait > due[c]
    BY LinkAssumption DEF PeerTypes
  <2> QED
    BY <2>1, <2>2 DEF ServerAlive, PeerTypes
<1>9. ASSUME NEW c \in Conn, ReadloopTimeout(c) \/ ReadloopFails(c) \/ Remove(c)
      PROVE  ServerAlive'
  <2>1. /\ UNCHANGED <<client, beatG, up, sdl>> /\ \A d \in Conn : d # c => c2s'[d] = c2s[d]
        /\ srv' = [srv EXCEPT ![c] = "remove"] \/ srv' = [srv EXCEPT ![c] = "ended"]
    BY <1>9 DEF ReadloopTimeout, ReadloopFails, Remove, PeerTypes
  <2> QED
    BY <2>1 DEF ServerAlive, PeerTypes
<1>10. ASSUME NEW c \in Conn, Silence(c) PROVE ServerAlive'
  BY <1>10 DEF Silence, ServerAlive, PeerTypes
<1>11. CASE Send
  <2>1. Wrote("binary") /\ UNCHANGED <<client, beatG, up, server>>
    BY <1>11, SendDoes DEF Send
  <2> QED
    BY <2>1 DEF ServerAlive, Wrote
<1>12. CASE CloseWrite
  <2>1. Wrote("close") /\ UNCHANGED <<client, beatG, up, server>>
    BY <1>12, CloseWriteDoes DEF CloseWrite
  <2> QED
    BY <2>1 DEF ServerAlive, Wrote
<1>13. CASE CloseSocket
  BY <1>13 DEF CloseSocket, ServerAlive, ClientInv, ClientTypes
<1>14. CASE Tick
  <2> SUFFICES ASSUME NEW c \in Conn, beats, Healthy(c), srv[c] = "read"
               PROVE  dial[c] = "returned" /\ sdl'[c] > due'[c]
    BY <1>14 DEF Tick, ServerAlive
  <2>1. dial[c] = "returned" /\ due[c] \in Nat /\ due[c] > 0 /\ sdl[c] > due[c] /\ sdl[c] \in Nat
    BY <1>14, TickDoes DEF ServerAlive, PeerTypes
  <2>2. sdl'[c] = Less(sdl[c]) /\ due'[c] = Less(due[c])
    BY <1>14 DEF Tick
  <2> QED
    BY <2>1, <2>2 DEF Less
<1>15. CASE UNCHANGED <<csock, srv, dial, beats, up, due, sdl, c2s>>
  BY <1>15 DEF ServerAlive
<1>16. ASSUME NEW c \in Conn, \/ PingFails(c) \/ Finalize(c) \/ SendTest \/ CloseTest
                              \/ CloseReset \/ ReadCall \/ ReadReturns
                              \/ ReadTimeout \/ ReadFails
       PROVE  ServerAlive'
  BY <1>15, <1>16 DEF PingFails, Finalize, SendTest, CloseTest, CloseReset, ReadCall,
                      ReadReturns, ReadTimeout, ReadFails
<1>17. \E c \in Conn : TRUE
  BY LinkAssumption DEF Conn
<1> QED
  BY <1>1, <1>2, <1>3, <1>4, <1>5, <1>6, <1>7, <1>8, <1>9, <1>10, <1>11, <1>12, <1>13,
     <1>14, <1>16, <1>17
     DEF Next, ConnectStep, BeatStep, ServeStep, CloseStep, ReadStep

\* Every step keeps ClientAlive: the next pong comes before Read's deadline.
LEMMA ClientAliveKept ==
  ASSUME ClientInv, PeerTypes, Served, Beating, ClientAlive, Next
  PROVE  ClientAlive'
<1> USE DEF client, callers, readG, beatG, net, server, Healthy
<1>0. rconn # NoConn => rconn \in Conn
  BY DEF PeerTypes
<1>1. ASSUME NEW c \in Conn, ConnectCAS(c) \/ Dial(c) \/ DialFails(c) PROVE ClientAlive'
  <2>1. dial[c] \in {"no", "dial"}
    BY <1>1 DEF ConnectCAS, Dial, DialFails
  <2>2. /\ \A d \in Conn : d # c => dial'[d] = dial[d] /\ csock'[d] = csock[d] /\ ssock'[d] = ssock[d]
        /\ UNCHANGED <<beats, callers, readG, beatG, net>>
    BY <1>1 DEF ConnectCAS, Dial, DialFails, ClientInv, ClientTypes, PeerTypes
  <2> QED
    BY <1>0, <2>1, <2>2 DEF ClientAlive
<1>2. ASSUME NEW c \in Conn, Assign(c) PROVE ClientAlive'
  <2>1. dial[c] = "assign" /\ dial'[c] = "returned" /\ UNCHANGED <<beats, csock, callers, readG, net, server>>
    BY <1>2 DEF Assign, ClientInv, ClientTypes
  <2>2. \A d \in Conn : d # c => dial'[d] = dial[d] /\ due'[d] = due[d]
    BY <1>2 DEF Assign, ClientInv, ClientTypes, PeerTypes
  <2> QED
    BY <1>0, <2>1, <2>2 DEF ClientAlive
<1>3. ASSUME NEW c \in Conn, Ping(c) PROVE ClientAlive'
  <2>1. /\ Wrote("ping") /\ due' = [due EXCEPT ![c] = Heartbeat]
        /\ UNCHANGED <<client, callers, readG, up, s2c, server>>
    BY <1>3, PingDoes, ClientWritten DEF Ping
  <2>2. Healthy(c) /\ ~ WriteCanFail(c) => Has(c2s'[c], "ping")
    BY <1>3, PingDoes, ClientWritten DEF Ping
  <2>3. beats /\ Healthy(c) /\ WriteCanFail(c) => ssock[c] = "closed" \/ clpc = "close"
    BY DEF WriteCanFail, ReadCanFail, Served
  <2>4. CASE rconn = c
    BY <2>1, <2>2, <2>3, <2>4 DEF ClientAlive
  <2>5. CASE rconn # c
    BY <1>0, <2>1, <2>5 DEF ClientAlive, PeerTypes, Wrote
  <2> QED
    BY <2>4, <2>5
<1>4. ASSUME NEW c \in Conn, Refuse(c) PROVE ClientAlive'
  <2>1. /\ \A d \in Conn : d # c => s2c'[d] = s2c[d] /\ c2s'[d] = c2s[d] /\ ssock'[d] = ssock[d]
        /\ s2c[c] # <<>> => s2c'[c] # <<>>
        /\ ssock'[c] = "closed" /\ UNCHANGED <<client, callers, readG, beatG, up>>
    BY <1>4, ServerWritten DEF Refuse, PeerTypes
  <2> QED
    BY <1>0, <2>1 DEF ClientAlive
<1>5. ASSUME NEW c \in Conn, ReadloopFrame(c) PROVE ClientAlive'
  <2>1. /\ UNCHANGED <<ssock, client, callers, readG, beatG, up>>
        /\ \A d \in Conn : d # c => c2s'[d] = c2s[d] /\ s2c'[d] = s2c[d]
        /\ s2c[c] # <<>> => s2c'[c] # <<>>
        /\ \/ Has(c2s[c], "close")
           \/ Has(c2s[c], "ping") => \/ Has(c2s'[c], "ping")
                                     \/ Healthy(c) /\ rpc = "read" => s2c'[c] # <<>>
    BY <1>5, FrameDoes
  <2>2. Has(c2s[c], "close") => csock[c] = "closed" \/ clpc = "close"
    BY DEF Served
  <2>3. CASE rconn = c
    BY <2>1, <2>2, <2>3 DEF ClientAlive
  <2>4. CASE rconn # c
    BY <1>0, <2>1, <2>4 DEF ClientAlive
  <2> QED
    BY <2>3, <2>4
<1>6. ASSUME NEW c \in Conn, Remove(c) PROVE ClientAlive'
  <2>1. /\ srv[c] = "remove" /\ \A d \in Conn : d # c => c2s'[d] = c2s[d]
        /\ UNCHANGED <<ssock, client, callers, readG, beatG, up, s2c>>
    BY <1>6 DEF Remove, PeerTypes
  <2>2. beats /\ Healthy(c) => clpc = "close"
    BY <2>1 DEF Served
  <2>3. CASE rconn = c
    BY <2>1, <2>2, <2>3 DEF ClientAlive
  <2>4. CASE rconn # c
    BY <1>0, <2>1, <2>4 DEF ClientAlive
  <2> QED
    BY <2>3, <2>4
<1>7. ASSUME NEW c \in Conn, Silence(c) PROVE ClientAlive'
  <2>1. /\ \A d \in Conn : d # c => c2s'[d] = c2s[d] /\ s2c'[d] = s2c[d] /\ up'[d] = up[d]
        /\ ~ up'[c] /\ UNCHANGED <<client, callers, readG, beatG, server>>
    BY <1>7 DEF Silence, PeerTypes
  <2> QED
    BY <1>0, <2>1 DEF ClientAlive
<1>8. ASSUME NEW c \in Conn, Finalize(c) PROVE ClientAlive'
  BY <1>0, <1>8 DEF Finalize, ClientAlive, PeerTypes
<1>9. CASE Send
  <2>1. Wrote("binary") /\ UNCHANGED <<client, clpc, readG, beatG, up, s2c, server>>
    BY <1>9, SendDoes DEF Send
  <2> QED
    BY <1>0, <2>1 DEF ClientAlive, Wrote
<1>10. CASE CloseTest
  BY <1>10 DEF CloseTest, ClientAlive, ClientInv, Assigned
<1>11. CASE CloseWrite
  BY <1>11 DEF CloseWrite, ClientAlive
<1>12. CASE CloseSocket
  <2>1. /\ \A d \in Conn : csock'[d] # "open" /\ (csock'[d] = "none" => csock[d] = "none")
        /\ UNCHANGED <<beats, dial, readG>>
    BY <1>12 DEF CloseSocket, ClientInv, ClientTypes, OneLive, Live, Assigned
  <2> QED
    BY <1>0, <2>1 DEF ClientAlive
<1>13. CASE CloseReset
  BY <1>13 DEF CloseReset, ClientAlive
<1>14. CASE ReadCall
  <2>1. /\ conn \in Conn /\ dial[conn] = "returned" /\ csock[conn] # "none"
        /\ rconn' = conn /\ (beats => rdl' = ReadWait)
        /\ UNCHANGED <<client, callers, beatG, net, server>>
    BY <1>14 DEF ReadCall, CanRead, ClientInv, ClientTypes, Assigned
  <2>2. ReadWait > due[conn] /\ ReadWait > 0
    BY <2>1, LinkAssumption DEF PeerTypes
  <2> QED
    BY <2>1, <2>2, ConnIsNot0 DEF ClientAlive
<1>15. CASE ReadReturns \/ ReadTimeout \/ ReadFails
  BY <1>15 DEF ReadReturns, ReadTimeout, ReadFails, ClientAlive
<1>16. CASE Tick
  <2>1. ASSUME rpc = "read", beats, Healthy(rconn), s2c[rconn] = <<>>
        PROVE  rdl' > 0 /\ rdl' > due'[rconn]
    <3>1. rconn \in Conn
      BY <1>0, <2>1 DEF ClientAlive
    <3>2. c2s[rconn] = <<>> /\ due[rconn] \in Nat /\ due[rconn] > 0
      BY <1>16, <2>1, <3>1, TickDoes
    <3>3. ssock[rconn] # "closed" /\ clpc # "close"
      BY <1>16, <2>1 DEF Tick, Quiet, ClientHangup
    <3>4. rdl > due[rconn] /\ rdl \in Nat
      BY <2>1, <3>2, <3>3, HasNone DEF ClientAlive, PeerTypes
    <3>5. rdl' = Less(rdl) /\ due'[rconn] = Less(due[rconn])
      BY <1>16, <3>1 DEF Tick
    <3> QED
      BY <3>2, <3>4, <3>5 DEF Less
  <2>2. UNCHANGED <<client, callers, rpc, rconn, net, ssock>>
    BY <1>16 DEF Tick
  <2> QED
    BY <2>1, <2>2 DEF ClientAlive
<1>17. CASE UNCHANGED <<client, callers, readG, due, net, ssock>>
  BY <1>17 DEF ClientAlive
<1>18. ASSUME NEW c \in Conn, \/ PingFails(c) \/ GetFree(c) \/ Add(c) \/ ReadloopTimeout(c)
                              \/ ReadloopFails(c)
       PROVE  ClientAlive'
  BY <1>17, <1>18 DEF PingFails, GetFree, Add, ReadloopTimeout, ReadloopFails
<1>19. CASE SendTest
  BY <1>19 DEF SendTest, ClientAlive
<1> QED
  BY <1>1, <1>2, <1>3, <1>4, <1>5, <1>6, <1>7, <1>8, <1>9, <1>10, <1>11, <1>12, <1>13,
     <1>14, <1>15, <1>16, <1>18, <1>19
     DEF Next, ConnectStep, BeatStep, ServeStep, CloseStep, ReadStep

-----------------------------------------------------------------------------
(* The theorem *)

\* No deadline runs in the initial state.
LEMMA BeatInit == Init => BeatInv
<1> SUFFICES ASSUME Init PROVE BeatInv
  OBVIOUS
<1>1. PeerTypes
  <2>1. 0 \in 0 .. Heartbeat /\ <<>> \in Seq({"binary", "ping", "close"}) /\ <<>> \in Seq({"pong", "close"})
    BY LinkAssumption
  <2>2. /\ rpc = "idle" /\ rconn = NoConn /\ rdl = 0 /\ kind \in {"tcp", "ws"} /\ beats \in BOOLEAN
        /\ hb = [c \in Conn |-> "off"] /\ due = [c \in Conn |-> 0]
        /\ srv = [c \in Conn |-> "none"] /\ sdl = [c \in Conn |-> 0]
        /\ ssock = [c \in Conn |-> "none"]
    BY DEF Init
  <2>3. up = [c \in Conn |-> TRUE] /\ c2s = [c \in Conn |-> <<>>] /\ s2c = [c \in Conn |-> <<>>]
    BY DEF Init
  <2> QED
    BY <2>1, <2>2, <2>3 DEF PeerTypes
<1>2. Served
  BY HasNone DEF Init, Served, Healthy
<1>3. Beating /\ ServerAlive /\ ClientAlive
  BY DEF Init, Beating, ServerAlive, ClientAlive, Healthy
<1> QED
  BY <1>1, <1>2, <1>3 DEF BeatInv

\* The heartbeat invariant holds for ever.
LEMMA BeatInvariant == Spec => []BeatInv
<1>1. ClientInv /\ BeatInv /\ [Next]_vars => BeatInv'
  <2>1. ASSUME ClientInv, BeatInv, Next PROVE BeatInv'
    BY <2>1, PeerTypesKept, ServedKept, BeatingKept, ServerAliveKept, ClientAliveKept DEF BeatInv
  <2>2. ASSUME BeatInv, UNCHANGED vars PROVE BeatInv'
    BY <2>2 DEF BeatInv, PeerTypes, Served, Beating, ServerAlive, ClientAlive, Healthy,
                vars, client, callers, readG, beatG, net, server
  <2> QED
    BY <2>1, <2>2
<1> QED
  BY <1>1, BeatInit, ClientInvariant, PTL DEF Spec

\* With a heartbeat, whatever its period below the deadline: Readloop and Read time
\* out only on a connection that went silent or that the client has closed.
THEOREM HeartbeatKeepsAlive == Spec => KeepAlive
<1> DEFINE Timely ==
      \A c \in Conn :
        /\ ReadloopTimeout(c) => ~ up[c] \/ csock[c] = "closed" \/ ~ beats
        /\ ReadTimeout /\ rconn = c => ~ up[c] \/ csock[c] = "closed"
<1>1. ASSUME ClientInv, BeatInv, NEW c \in Conn, ReadloopTimeout(c)
      PROVE  ~ up[c] \/ csock[c] = "closed" \/ ~ beats
  <2>1. c2s[c] = <<>> /\ sdl[c] = 0 /\ srv[c] = "read" /\ due[c] \in 0 .. Heartbeat
    BY <1>1 DEF ReadloopTimeout, BeatInv, PeerTypes
  <2>2. ~ (sdl[c] > due[c]) /\ sdl[c] # ReadWait
    BY <2>1, LinkAssumption
  <2>3. csock[c] # "none"
    BY <1>1, <2>1 DEF BeatInv, Served
  <2> QED
    BY <1>1, <2>1, <2>2, <2>3 DEF BeatInv, ServerAlive, Healthy, ClientInv, ClientTypes, Dialled
<1>2. ASSUME ClientInv, BeatInv, NEW c \in Conn, ReadTimeout, rconn = c
      PROVE  ~ up[c] \/ csock[c] = "closed"
  <2>1. rpc = "read" /\ beats /\ rdl = 0 /\ s2c[c] = <<>> /\ dial[c] = "returned"
    BY <1>2 DEF ReadTimeout, BeatInv, ClientAlive
  <2>2. ~ Healthy(c)
    BY <1>2, <2>1 DEF BeatInv, ClientAlive
  <2>3. csock[c] # "none"
    BY <1>2, <2>1 DEF BeatInv, ClientAlive
  <2> QED
    BY <2>2, <2>3, <1>2 DEF Healthy, ClientInv, ClientTypes
<1>3. ClientInv /\ BeatInv => Timely
  BY <1>1, <1>2
<1>4. Spec => [](ClientInv /\ BeatInv)
  BY ClientInvariant, BeatInvariant, PTL
<1> QED
  BY <1>3, <1>4, PTL DEF KeepAlive
=============================================================================
