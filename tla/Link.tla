-------------------------------- MODULE Link --------------------------------
(***************************************************************************)
(* The life of a connection between the two transports' Client objects     *)
(* (websocket/client.go, tcp/client.go) and the server's goroutine for it  *)
(* (websocket/server.go, tcp/server.go, Readloop in channel.go): Connect,  *)
(* Send, Read, Close and the heartbeat on one side; Accept, the id check,  *)
(* Readloop with its deadline and pongs, Remove on the other.              *)
(*                                                                         *)
(* One Client object, which may be connected again after Close; the server *)
(* knows it by one id, as with the Acceptor of the examples.  Frames are   *)
(* whole (Framing tears them) and stand for their OpCode.  What the server *)
(* pushes is in Channel; it could only put the client's deadline off.      *)
(* Goroutines and delivery are fast against a clock step: time passes when *)
(* no step is due.                                                         *)
(***************************************************************************)
EXTENDS Naturals, Sequences, FiniteSets

CONSTANTS
  MaxConn,   \* bound: connections dialled
  Heartbeat, \* period of the heartbeat ticker, in clock steps (55 s)
  ReadWait   \* read deadline of both sides (3 min; 1 min in the examples)

ASSUME LinkAssumption ==
  MaxConn \in Nat \ {0} /\ Heartbeat \in Nat \ {0} /\ ReadWait \in Nat /\ ReadWait > Heartbeat

Conn  == 1 .. MaxConn
NoConn == 0     \* a nil conn; an id that is not in the ChannelMap

VARIABLES
  kind, beats,       \* "tcp" or "ws"; options.Heartbeat > 0
  state, conn, once, \* fields of Client; once has been used
  dial,              \* Connect, per connection: its position
  spc, clpc,         \* callers of Send and Close: their positions
  rpc, rconn, rdl,   \* the application's Read loop, its connection, time left
  hb, due,           \* heartbealoop of each connection, time to its next tick
  csock, ssock,      \* the client's and the server's socket
  up,                \* bytes still get through
  c2s, s2c,          \* frames under way
  srv, sdl,          \* the server's goroutine, time left to its deadline
  channels           \* ChannelMap at the client's id

client  == <<kind, beats, state, conn, once, dial, csock>>
callers == <<spc, clpc>>
readG   == <<rpc, rconn, rdl>>
beatG   == <<hb, due>>
net     == <<up, c2s, s2c>>
server  == <<srv, sdl, ssock, channels>>
vars    == <<client, callers, readG, beatG, net, server>>

\* NewClient: the tcp client replaces a Heartbeat of 0 by the default, the
\* websocket client keeps it.
Init ==
  /\ kind \in {"tcp", "ws"} /\ beats \in BOOLEAN /\ (kind = "tcp" => beats)
  /\ state = 0 /\ conn = NoConn /\ once = FALSE
  /\ dial = [c \in Conn |-> "no"] /\ csock = [c \in Conn |-> "none"]
  /\ spc = "idle" /\ clpc = "idle"
  /\ rpc = "idle" /\ rconn = NoConn /\ rdl = 0
  /\ hb = [c \in Conn |-> "off"] /\ due = [c \in Conn |-> 0]
  /\ up = [c \in Conn |-> TRUE]
  /\ c2s = [c \in Conn |-> <<>>] /\ s2c = [c \in Conn |-> <<>>]
  /\ srv = [c \in Conn |-> "none"] /\ sdl = [c \in Conn |-> 0]
  /\ ssock = [c \in Conn |-> "none"] /\ channels = NoConn

-----------------------------------------------------------------------------
(* The network, which is external *)

\* A read of the client can fail: one of the sockets was closed, or nothing gets
\* through.  A write can also meet a full buffer when the server reads no more.
ReadCanFail(c)  == csock[c] = "closed" \/ ssock[c] = "closed" \/ ~ up[c]
WriteCanFail(c) == ReadCanFail(c) \/ srv[c] = "ended"

\* The end of the stream reaches the client, the server.
ClientHangup(c) == csock[c] = "closed" \/ (ssock[c] = "closed" /\ up[c])
ServerHangup(c) == csock[c] = "closed" /\ up[c]

\* The client writes a frame; one that nobody will read is not kept.
ClientWrites(c, op) ==
  /\ csock[c] = "open"
  /\ c2s' = IF WriteCanFail(c) THEN c2s ELSE [c2s EXCEPT ![c] = Append(@, op)]

\* The server writes a frame; no writer of OpPong or OpClose looks at the error.
ServerWrites(c, op) ==
  s2c' = IF up[c] /\ csock[c] = "open" /\ ~ (rpc = "ended" /\ rconn = c)
           THEN [s2c EXCEPT ![c] = Append(@, op)] ELSE s2c

\* The path, or the other process, goes silent: what is under way is lost.  The
\* operating system may report it later, or never.
Silence(c) ==
  /\ up[c] /\ csock[c] # "none"
  /\ up' = [up EXCEPT ![c] = FALSE]
  /\ c2s' = [c2s EXCEPT ![c] = <<>>] /\ s2c' = [s2c EXCEPT ![c] = <<>>]
  /\ UNCHANGED <<client, callers, readG, beatG, server>>

-----------------------------------------------------------------------------
(* Connect *)

\* The CAS on state lets one caller through; the others return an error.
ConnectCAS(c) ==
  /\ dial[c] = "no" /\ \A d \in 1 .. c - 1 : dial[d] # "no"
  /\ state = 0 /\ state' = 1 /\ dial' = [dial EXCEPT ![c] = "dial"]
  /\ UNCHANGED <<kind, beats, conn, once, csock, callers, readG, beatG, net, server>>

\* DialAndHandshake connects and sends the login frame.
Dial(c) ==
  /\ dial[c] = "dial"
  /\ dial' = [dial EXCEPT ![c] = "assign"]
  /\ csock' = [csock EXCEPT ![c] = "open"] /\ ssock' = [ssock EXCEPT ![c] = "open"]
  /\ UNCHANGED <<kind, beats, state, conn, once, callers, readG, beatG, net, srv, sdl, channels>>

\* Its error sets state back.  The pool's dialer returns one only when the dial
\* failed, and then there is no socket; a failed login write it ignores.
DialFails(c) ==
  /\ dial[c] = "dial"
  /\ dial' = [dial EXCEPT ![c] = "returned"] /\ state' = IF state = 1 THEN 0 ELSE state
  /\ UNCHANGED <<kind, beats, conn, once, csock, callers, readG, beatG, net, server>>

\* c.conn = conn, the heartbeat is started, Connect returns.
Assign(c) ==
  /\ dial[c] = "assign"
  /\ dial' = [dial EXCEPT ![c] = "returned"] /\ conn' = c
  /\ IF beats THEN hb' = [hb EXCEPT ![c] = "wait"] /\ due' = [due EXCEPT ![c] = Heartbeat]
              ELSE UNCHANGED beatG
  /\ UNCHANGED <<kind, beats, state, once, csock, callers, readG, net, server>>

-----------------------------------------------------------------------------
(* Send *)

SendTest ==
  /\ spc = "idle" /\ state = 1 /\ spc' = "send"
  /\ UNCHANGED <<client, clpc, readG, beatG, net, server>>

\* c.conn is nil as long as Connect has not assigned it: the call panics.
\* Bound: a frame is sent when none is under way.
Send ==
  /\ spc = "send"
  /\ \/ conn = NoConn /\ spc' = "panic" /\ UNCHANGED c2s
     \/ /\ conn # NoConn /\ c2s[conn] = <<>> /\ spc' = "idle"
        /\ ClientWrites(conn, "binary") \/ (WriteCanFail(conn) /\ UNCHANGED c2s)
  /\ UNCHANGED <<client, clpc, readG, beatG, up, s2c, server>>

-----------------------------------------------------------------------------
(* Close: the body of once.Do *)

CloseTest ==
  /\ ~ once /\ once' = TRUE
  /\ clpc' = IF conn = NoConn THEN "returned" ELSE "write"
  /\ UNCHANGED <<kind, beats, state, conn, dial, csock, spc, readG, beatG, net, server>>

CloseWrite ==
  /\ clpc = "write" /\ clpc' = "close"
  /\ ClientWrites(conn, "close") \/ (WriteCanFail(conn) /\ UNCHANGED c2s)
  /\ UNCHANGED <<client, spc, readG, beatG, up, s2c, server>>

\* Mutant of CloseSocket: state is set back before the socket is closed.
ResetFirst ==
  /\ \/ clpc = "close" /\ clpc' = "reset" /\ state' = 0 /\ UNCHANGED <<csock, s2c>>
     \/ /\ clpc = "reset" /\ clpc' = "returned"
        /\ csock' = [csock EXCEPT ![conn] = "closed"] /\ s2c' = [s2c EXCEPT ![conn] = <<>>]
        /\ UNCHANGED state
  /\ UNCHANGED <<kind, beats, conn, once, dial, spc, readG, beatG, up, c2s, server>>

CloseSocket ==
  /\ clpc = "close" /\ clpc' = "reset"
  /\ csock' = [csock EXCEPT ![conn] = "closed"] /\ s2c' = [s2c EXCEPT ![conn] = <<>>]
  /\ UNCHANGED <<kind, beats, state, conn, once, dial, spc, readG, beatG, up, c2s, server>>

\* Mutant of CloseReset: Close also forgets the connection.
CloseForgets ==
  /\ clpc = "reset" /\ clpc' = "returned" /\ state' = IF state = 1 THEN 0 ELSE state
  /\ conn' = NoConn
  /\ UNCHANGED <<kind, beats, once, dial, csock, spc, readG, beatG, net, server>>

CloseReset ==
  /\ clpc = "reset" /\ clpc' = "returned" /\ state' = IF state = 1 THEN 0 ELSE state
  /\ UNCHANGED <<kind, beats, conn, once, dial, csock, spc, readG, beatG, net, server>>

-----------------------------------------------------------------------------
(* Read, which the application calls in a loop until it returns an error *)

\* A loop is started on each connection when its Connect has returned.
CanRead == conn # NoConn /\ (rpc = "idle" \/ (rpc = "ended" /\ rconn # conn))

\* The deadline is set only with a heartbeat.
ReadCall ==
  /\ CanRead /\ rpc' = "read" /\ rconn' = conn
  /\ rdl' = IF beats THEN ReadWait ELSE 0
  /\ UNCHANGED <<client, callers, beatG, net, server>>

\* A frame: OpClose ends the loop with an error, any other is returned.
ReadReturns ==
  /\ rpc = "read" /\ csock[rconn] = "open" /\ s2c[rconn] # <<>>
  /\ rpc' = IF Head(s2c[rconn]) = "close" THEN "ended" ELSE "idle"
  /\ s2c' = [s2c EXCEPT ![rconn] = Tail(@)] /\ rdl' = 0
  /\ UNCHANGED <<rconn, client, callers, beatG, up, c2s, server>>

ReadFails ==
  /\ rpc = "read" /\ s2c[rconn] = <<>> /\ ReadCanFail(rconn)
  /\ rpc' = "ended" /\ rdl' = 0
  /\ UNCHANGED <<rconn, client, callers, beatG, net, server>>

\* Mutant of ReadTimeout: the error is not returned.
ReadTimeoutRetries ==
  /\ rpc = "read" /\ beats /\ rdl = 0 /\ s2c[rconn] = <<>>
  /\ rpc' = "idle" /\ UNCHANGED <<rdl, rconn, client, callers, beatG, net, server>>

ReadTimeout ==
  /\ rpc = "read" /\ beats /\ rdl = 0 /\ s2c[rconn] = <<>>
  /\ rpc' = "ended" /\ UNCHANGED <<rdl, rconn, client, callers, beatG, net, server>>

-----------------------------------------------------------------------------
(* heartbealoop and ping *)

\* The websocket client pings the connection the loop was started for; the tcp
\* client whatever c.conn is by now.
PingConn(c) == IF kind = "ws" THEN c ELSE conn

BeatDue(c) == hb[c] = "wait" /\ due[c] = 0

Ping(c) ==
  /\ BeatDue(c) /\ ClientWrites(PingConn(c), "ping")
  /\ due' = [due EXCEPT ![c] = Heartbeat]
  /\ UNCHANGED <<hb, client, callers, readG, up, s2c, server>>

\* Mutant of PingFails: the loop goes on after an error.
PingErrorIgnored(c) ==
  /\ BeatDue(c) /\ WriteCanFail(PingConn(c))
  /\ due' = [due EXCEPT ![c] = Heartbeat]
  /\ UNCHANGED <<hb, client, callers, readG, net, server>>

PingFails(c) ==
  /\ BeatDue(c) /\ WriteCanFail(PingConn(c))
  /\ hb' = [hb EXCEPT ![c] = "ended"]
  /\ UNCHANGED <<due, client, callers, readG, net, server>>

-----------------------------------------------------------------------------
(* The server's goroutine of a connection *)

Incoming(c) == srv[c] = "none" /\ ssock[c] = "open"

\* The Acceptor's error, or an id in use: OpClose is written and the socket closed.
Refuse(c) ==
  /\ Incoming(c) /\ srv' = [srv EXCEPT ![c] = "refused"]
  /\ ServerWrites(c, "close") /\ ssock' = [ssock EXCEPT ![c] = "closed"]
  /\ c2s' = [c2s EXCEPT ![c] = <<>>]
  /\ UNCHANGED <<sdl, channels, client, callers, readG, beatG, up>>

\* Accept returned the id and Get did not find it.
GetFree(c) ==
  /\ Incoming(c) /\ channels = NoConn /\ srv' = [srv EXCEPT ![c] = "add"]
  /\ UNCHANGED <<sdl, ssock, channels, client, callers, readG, beatG, net>>

\* Add stores the channel, whatever is stored there; Readloop sets its deadline.
Add(c) ==
  /\ srv[c] = "add" /\ channels' = c
  /\ srv' = [srv EXCEPT ![c] = "read"] /\ sdl' = [sdl EXCEPT ![c] = ReadWait]
  /\ UNCHANGED <<ssock, client, callers, readG, beatG, net>>

\* Mutant of ReadloopFrame: a ping is not answered.
NoPong(c) ==
  /\ srv[c] = "read" /\ c2s[c] # <<>> /\ c2s' = [c2s EXCEPT ![c] = Tail(@)]
  /\ IF Head(c2s[c]) = "close"
       THEN srv' = [srv EXCEPT ![c] = "remove"] /\ UNCHANGED sdl
       ELSE sdl' = [sdl EXCEPT ![c] = ReadWait] /\ UNCHANGED srv
  /\ UNCHANGED <<ssock, channels, client, callers, readG, beatG, up, s2c>>

\* Readloop gets a frame: OpClose ends it, OpPing is answered, a payload goes to
\* the MessageListener; then the deadline is set again.
ReadloopFrame(c) ==
  /\ srv[c] = "read" /\ c2s[c] # <<>> /\ c2s' = [c2s EXCEPT ![c] = Tail(@)]
  /\ IF Head(c2s[c]) = "close"
       THEN srv' = [srv EXCEPT ![c] = "remove"] /\ UNCHANGED <<sdl, s2c>>
       ELSE /\ sdl' = [sdl EXCEPT ![c] = ReadWait] /\ UNCHANGED srv
            /\ IF Head(c2s[c]) = "ping" THEN ServerWrites(c, "pong") ELSE UNCHANGED s2c
  /\ UNCHANGED <<ssock, channels, client, callers, readG, beatG, up>>

ReadloopFails(c) ==
  /\ srv[c] = "read" /\ c2s[c] = <<>> /\ (csock[c] = "closed" \/ ~ up[c])
  /\ srv' = [srv EXCEPT ![c] = "remove"]
  /\ UNCHANGED <<sdl, ssock, channels, client, callers, readG, beatG, net>>

ReadloopTimeout(c) ==
  /\ srv[c] = "read" /\ c2s[c] = <<>> /\ sdl[c] = 0
  /\ srv' = [srv EXCEPT ![c] = "remove"]
  /\ UNCHANGED <<sdl, ssock, channels, client, callers, readG, beatG, net>>

\* Remove deletes the id's entry; Disconnect and channel.Close (Transport) leave
\* the socket open.
Remove(c) ==
  /\ srv[c] = "remove" /\ srv' = [srv EXCEPT ![c] = "ended"] /\ channels' = NoConn
  /\ c2s' = [c2s EXCEPT ![c] = <<>>]
  /\ UNCHANGED <<sdl, ssock, client, callers, readG, beatG, up, s2c>>

\* Nothing refers to the connection any more: the garbage collector may close it.
Finalize(c) ==
  /\ srv[c] = "ended" /\ ssock[c] = "open" /\ ssock' = [ssock EXCEPT ![c] = "closed"]
  /\ UNCHANGED <<srv, sdl, channels, client, callers, readG, beatG, net>>

-----------------------------------------------------------------------------

\* No goroutine has a step to take, and no frame waits for a reader.
Quiet ==
  /\ \A c \in Conn : /\ dial[c] \in {"no", "returned"} /\ ~ BeatDue(c)
                     /\ ~ Incoming(c) /\ srv[c] \notin {"add", "remove"}
                     /\ srv[c] = "read" => c2s[c] = <<>> /\ sdl[c] > 0 /\ ~ ServerHangup(c)
  /\ clpc \in {"idle", "returned"} /\ ~ CanRead
  /\ rpc = "read" => s2c[rconn] = <<>> /\ (beats => rdl > 0) /\ ~ ClientHangup(rconn)

Less(n) == IF n = 0 THEN 0 ELSE n - 1

Tick ==
  /\ Quiet /\ rdl' = Less(rdl)
  /\ due' = [c \in Conn |-> Less(due[c])] /\ sdl' = [c \in Conn |-> Less(sdl[c])]
  /\ UNCHANGED <<client, callers, rpc, rconn, hb, net, srv, ssock, channels>>

ConnectStep(c) == Dial(c) \/ DialFails(c) \/ Assign(c)
CloseStep  == CloseWrite \/ CloseSocket \/ CloseReset
ReadStep   == ReadCall \/ ReadReturns \/ ReadTimeout
BeatStep(c) == Ping(c) \/ PingFails(c)
ServeStep(c) ==
  GetFree(c) \/ Refuse(c) \/ Add(c) \/ ReadloopFrame(c) \/ ReadloopTimeout(c) \/ Remove(c)

Next ==
  /\ spc # "panic"
  /\ \/ \E c \in Conn : \/ ConnectCAS(c) \/ ConnectStep(c) \/ BeatStep(c)
                        \/ ServeStep(c) \/ ReadloopFails(c) \/ Silence(c) \/ Finalize(c)
     \/ SendTest \/ Send \/ CloseTest \/ CloseStep
     \/ ReadStep \/ ReadFails \/ Tick

\* Goroutines that can run do run, and time passes whatever the callers of Send
\* do.  A read returns when either socket is closed; an error of a silent path is
\* reported or not.
Fairness ==
  /\ \A c \in Conn : /\ WF_vars(ConnectStep(c)) /\ WF_vars(BeatStep(c))
                     /\ WF_vars(ServeStep(c))
                     /\ WF_vars(ServerHangup(c) /\ ReadloopFails(c))
  /\ WF_vars(CloseStep) /\ WF_vars(ReadStep) /\ SF_vars(Tick)
  /\ WF_vars(rconn # NoConn /\ ClientHangup(rconn) /\ ReadFails)

Spec == Init /\ [][Next]_vars /\ Fairness

-----------------------------------------------------------------------------
(* Properties *)

\* The CAS in Connect and the order in Close keep a Client object to one open
\* connection, over any interleaving of Connect, Close and a connection made
\* again: none is dropped unclosed by the assignment of c.conn.
OneConnection == Cardinality({c \in Conn : csock[c] = "open"}) <= 1

\* Send dereferences a nil c.conn only before the first Connect that succeeds
\* has assigned it; Close and a connection made again never bring it back.
PanicsOnlyBeforeConnected ==
  spc = "panic" => \A c \in Conn : csock[c] = "none" \/ dial[c] = "assign"

\* With a heartbeat, the pings and the pongs of Readloop keep both deadlines from
\* expiring: Readloop or Read times out only on a connection that went silent
\* or that the client has closed.
KeepAlive ==
  [][\A c \in Conn :
       /\ ReadloopTimeout(c) => ~ up[c] \/ csock[c] = "closed" \/ ~ beats
       /\ ReadTimeout /\ rconn = c => ~ up[c] \/ csock[c] = "closed"]_vars

\* A silent or closed connection is noticed without the operating system's help:
\* the server's Readloop ends and frees the id, and with a heartbeat the
\* client's Read returns an error.
DeadPeerNoticed ==
  \A c \in Conn :
    /\ srv[c] = "read" /\ (~ up[c] \/ csock[c] = "closed") ~> srv[c] = "ended" \/ spc = "panic"
    /\ beats /\ rpc = "read" /\ rconn = c /\ ~ up[c] ~> rpc = "ended" \/ spc = "panic"

\* The heartbeat goroutine of a closed connection ends with its next ping.  The
\* tcp client's may find another connection in c.conn and go on with that one.
HeartbeatStops ==
  \A c \in Conn :
    csock[c] = "closed" /\ hb[c] = "wait" ~>
      hb[c] = "ended" \/ (kind = "tcp" /\ conn # c) \/ spc = "panic"

\* Send after a successful test of state has a connection.
SendNeverPanics == spc # "panic"

\* Every Read that waits on a silent connection returns an error.
ClientAlwaysNotices ==
  \A c \in Conn : rpc = "read" /\ rconn = c /\ ~ up[c] ~> rpc = "ended" \/ spc = "panic"

\* A connection has one heartbeat goroutine, which ends when it is closed.
HeartbeatAlwaysStops ==
  \A c \in Conn :
    csock[c] = "closed" /\ hb[c] = "wait" ~> hb[c] = "ended" \/ spc = "panic"

\* A connection in Readloop is the one Push finds under its id.
ReaderReachable == \A c \in Conn : srv[c] = "read" => channels = c
=============================================================================
