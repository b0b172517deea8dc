------------------------------ MODULE RabbitMQ ------------------------------
(***************************************************************************)
(* The RabbitMQ MessageQueue (mq/rabbitmq.go) from an accepted submission  *)
(* to the store's counter, over lost connections, crashes and restarts of  *)
(* the server: Publish, the consume goroutine that hands deliveries to the *)
(* buffered channel out and acknowledges them, the consumer of AppServer,  *)
(* and Close under the retry of Shutdown (app/server/server.go).           *)
(*                                                                         *)
(* The broker is external: a durable queue, deliveries without a prefetch  *)
(* limit (Qos is not called), and redelivery of what was not acknowledged  *)
(* when its connection ended.  The order in the queue is left out.  The    *)
(* program does not reconnect.  The store is the PGStore: its counts       *)
(* survive.  The WaitGroup and the store's errors are in Pipeline.         *)
(***************************************************************************)
EXTENDS Naturals, Sequences, FiniteSets

CONSTANTS
  Evt,      \* submission events, each published at most once
  Junk,     \* messages in the queue that do not decode as an event
  Size,     \* capacity of out (1024 in NewRabbitMQ)
  MaxRestart \* bound: processes that end and are started again

NoMsg == "none"

ASSUME RabbitAssumption ==
  /\ Size \in Nat \ {0} /\ MaxRestart \in Nat /\ Evt \cap Junk = {}
  /\ NoMsg \notin Evt \cup Junk

VARIABLES
  ready, unacked,   \* the broker's queue; what it delivered and waits for
  pubWire, ackWire, \* publishings and acknowledgements on their way to it
  stored,           \* the events that have reached the queue
  link, lost,       \* the AMQP connection is up; it failed in this process
  msgs,             \* deliveries the client library holds for consume
  gpc, hand,        \* the consume goroutine and its delivery
  out, outClosed,   \* the channel out
  cpc, evt,         \* the consumer of AppServer and its event
  spc, tries,       \* Shutdown's call of Close: position, failed attempts
  refused,          \* events whose Publish returned an error
  counts,           \* how often the store has counted each event
  linkEnds, procEnds \* connections and processes that have ended

broker   == <<ready, unacked, stored, pubWire, ackWire>>
consumeG == <<msgs, gpc, hand, out, outClosed>>
consumer == <<cpc, evt, counts>>
shutdown == <<spc, tries>>
conn     == <<link, lost>>
amqp     == <<broker, conn>>
app      == <<consumer, shutdown, refused>>
ends     == <<linkEnds, procEnds>>
vars     == <<amqp, consumeG, app, ends>>

Running == spc \notin {"exited", "panic"}

Init ==
  /\ ready = Junk /\ unacked = {} /\ stored = {} /\ pubWire = {} /\ ackWire = {}
  /\ link = TRUE /\ lost = FALSE
  /\ msgs = {} /\ gpc = "start" /\ hand = NoMsg /\ out = <<>> /\ outClosed = FALSE
  /\ cpc = "select" /\ evt = NoMsg /\ counts = [e \in Evt |-> 0]
  /\ spc = "running" /\ tries = 0
  /\ refused = {} /\ linkEnds = 0 /\ procEnds = 0

-----------------------------------------------------------------------------
(* The broker *)

BrokerStores(e) ==
  /\ e \in pubWire /\ pubWire' = pubWire \ {e}
  /\ ready' = ready \cup {e} /\ stored' = stored \cup {e}
  /\ UNCHANGED <<unacked, ackWire, conn, consumeG, app, ends>>

BrokerAcks(m) ==
  /\ m \in ackWire /\ ackWire' = ackWire \ {m} /\ unacked' = unacked \ {m}
  /\ UNCHANGED <<ready, stored, pubWire, conn, consumeG, app, ends>>

\* Mutant of Deliver: consumption with autoAck.
DeliverAutoAck(m) ==
  /\ link /\ gpc \notin {"start", "ended"} /\ m \in ready
  /\ ready' = ready \ {m} /\ msgs' = msgs \cup {m}
  /\ UNCHANGED <<unacked, stored, pubWire, ackWire, conn, gpc, hand, out, outClosed, app, ends>>

Deliver(m) ==
  /\ link /\ gpc \notin {"start", "ended"} /\ m \in ready
  /\ ready' = ready \ {m} /\ unacked' = unacked \cup {m} /\ msgs' = msgs \cup {m}
  /\ UNCHANGED <<stored, pubWire, ackWire, conn, gpc, hand, out, outClosed, app, ends>>

\* The connection ends when P and A of what was under way have arrived; what is
\* still unacknowledged is ready again.
Disconnect(P, A) ==
  /\ P \subseteq pubWire /\ A \subseteq ackWire
  /\ ready' = ready \cup P \cup (unacked \ A) /\ unacked' = {}
  /\ stored' = stored \cup P
  /\ pubWire' = {} /\ ackWire' = {}
  /\ link' = FALSE /\ linkEnds' = linkEnds + 1

LinkFails ==
  /\ Running /\ link /\ lost' = TRUE
  /\ \E P \in SUBSET pubWire, A \in SUBSET ackWire : Disconnect(P, A)
  /\ UNCHANGED <<consumeG, app, procEnds>>

-----------------------------------------------------------------------------
(* Publish, called by handleSubmit, which ignores its error *)

\* Confirms are switched on (ch.Confirm) but never read: Publish succeeds when
\* the message is written.
Publish(e) ==
  /\ Running /\ e \notin stored \cup pubWire \cup refused
  /\ IF link THEN pubWire' = pubWire \cup {e} /\ UNCHANGED refused
             ELSE refused' = refused \cup {e} /\ UNCHANGED pubWire
  /\ UNCHANGED <<ready, unacked, stored, ackWire, conn, consumeG, consumer, shutdown, ends>>

-----------------------------------------------------------------------------
(* The consume goroutine *)

\* ch.Consume; its error closes out.
StartConsume ==
  /\ gpc = "start"
  /\ IF link THEN gpc' = "range" /\ UNCHANGED outClosed
             ELSE gpc' = "ended" /\ outClosed' = TRUE
  /\ UNCHANGED <<msgs, hand, out, amqp, app, ends>>

\* Mutant of TakeDelivery: the error of Unmarshal is not looked at.
TakeUndecoded(m) ==
  /\ gpc = "range" /\ m \in msgs
  /\ hand' = m /\ msgs' = msgs \ {m} /\ gpc' = "send"
  /\ UNCHANGED <<out, outClosed, amqp, app, ends>>

TakeDelivery(m) ==
  /\ gpc = "range" /\ m \in msgs
  /\ hand' = m /\ msgs' = msgs \ {m} /\ gpc' = IF m \in Junk THEN "nack" ELSE "send"
  /\ UNCHANGED <<out, outClosed, amqp, app, ends>>

\* The library closes msgs when the connection ends, and may drop deliveries.
RangeEnds ==
  /\ gpc = "range" /\ ~ link /\ gpc' = "ended" /\ msgs' = {}
  /\ UNCHANGED <<hand, out, outClosed, amqp, app, ends>>

\* r.out <- evt: waits while out is full.
SendOut ==
  /\ gpc = "send" /\ ~ outClosed /\ Len(out) < Size
  /\ out' = Append(out, hand) /\ gpc' = "ack"
  /\ UNCHANGED <<msgs, hand, outClosed, amqp, app, ends>>

\* Close has closed out: the send panics and the process ends.
SendOutPanics ==
  /\ gpc = "send" /\ outClosed /\ spc' = "panic"
  /\ UNCHANGED <<tries, consumeG, amqp, consumer, refused, ends>>

\* Mutant of Ack: the delivery is given back to the queue.
NackRequeue ==
  /\ gpc = "ack" /\ gpc' = "range" /\ hand' = NoMsg
  /\ IF link THEN ready' = ready \cup {hand} /\ unacked' = unacked \ {hand}
             ELSE UNCHANGED <<ready, unacked>>
  /\ UNCHANGED <<stored, pubWire, ackWire, msgs, out, outClosed, conn, app, ends>>

\* m.Ack after the send; its error is ignored.
Ack ==
  /\ gpc = "ack" /\ gpc' = "range" /\ hand' = NoMsg
  /\ ackWire' = IF link THEN ackWire \cup {hand} ELSE ackWire
  /\ UNCHANGED <<ready, unacked, stored, pubWire, msgs, out, outClosed, conn, app, ends>>

\* Mutant of Nack: a message that does not decode ends the goroutine.
NackReturns ==
  /\ gpc = "nack" /\ gpc' = "ended" /\ hand' = NoMsg
  /\ ackWire' = IF link THEN ackWire \cup {hand} ELSE ackWire
  /\ UNCHANGED <<ready, unacked, stored, pubWire, msgs, out, outClosed, conn, app, ends>>

\* m.Nack(false, false) of what does not decode: the broker drops it.
Nack ==
  /\ gpc = "nack" /\ gpc' = "range" /\ hand' = NoMsg
  /\ ackWire' = IF link THEN ackWire \cup {hand} ELSE ackWire
  /\ UNCHANGED <<ready, unacked, stored, pubWire, msgs, out, outClosed, conn, app, ends>>

-----------------------------------------------------------------------------
(* The consumer of AppServer.Start *)

Receive ==
  /\ cpc = "select" /\ out # <<>>
  /\ evt' = Head(out) /\ out' = Tail(out) /\ cpc' = "increment"
  /\ UNCHANGED <<counts, msgs, gpc, hand, outClosed, amqp, shutdown, refused, ends>>

\* stopConsume is closed, or out is closed and empty.
StopConsumer ==
  /\ cpc = "select" /\ (spc # "running" \/ (outClosed /\ out = <<>>))
  /\ cpc' = "returned"
  /\ UNCHANGED <<evt, counts, consumeG, amqp, shutdown, refused, ends>>

Increment ==
  /\ cpc = "increment" /\ cpc' = "select"
  /\ counts' = [counts EXCEPT ![evt] = @ + 1] /\ evt' = NoMsg
  /\ UNCHANGED <<consumeG, amqp, shutdown, refused, ends>>

-----------------------------------------------------------------------------
(* Shutdown, crash, restart *)

Signal ==
  /\ spc = "running" /\ procEnds < MaxRestart /\ spc' = "closeOut"
  /\ UNCHANGED <<tries, consumeG, amqp, consumer, refused, ends>>

\* close(r.out): panics if out was closed before.
CloseOut ==
  /\ spc = "closeOut"
  /\ IF outClosed THEN spc' = "panic" /\ UNCHANGED outClosed
                  ELSE spc' = "closeConn" /\ outClosed' = TRUE
  /\ UNCHANGED <<tries, msgs, gpc, hand, out, amqp, consumer, refused, ends>>

\* Mutant of CloseConn: its result is misread, so Close is tried again.
CloseConnRetried ==
  /\ spc = "closeConn" /\ link /\ Disconnect(pubWire, ackWire)
  /\ spc' = "closeOut" /\ tries' = tries + 1
  /\ UNCHANGED <<lost, consumeG, consumer, refused, procEnds>>

\* ch.Close and conn.Close: what was written before arrives.  An error of
\* conn.Close, which a lost connection gives, makes retry call Close again.
CloseConn ==
  /\ spc = "closeConn"
  /\ \/ link /\ Disconnect(pubWire, ackWire) /\ spc' = "exited" /\ UNCHANGED tries
     \/ /\ ~ link /\ tries' = tries + 1
        /\ spc' = IF tries' < 3 THEN "closeOut" ELSE "exited"
        /\ UNCHANGED <<broker, link, linkEnds>>
  /\ UNCHANGED <<lost, consumeG, consumer, refused, procEnds>>

Crash ==
  /\ Running /\ procEnds < MaxRestart /\ spc' = "exited"
  /\ IF link
       THEN \E P \in SUBSET pubWire, A \in SUBSET ackWire : Disconnect(P, A)
       ELSE UNCHANGED <<broker, link, linkEnds>>
  /\ UNCHANGED <<lost, tries, consumeG, consumer, refused, procEnds>>

\* The connection of a process that is gone ends with it; then the process is
\* started again: NewRabbitMQ connects and starts consume.
Restart ==
  /\ ~ Running /\ procEnds' = procEnds + 1
  /\ IF link
       THEN \E P \in SUBSET pubWire, A \in SUBSET ackWire :
              /\ ready' = ready \cup P \cup (unacked \ A) /\ stored' = stored \cup P
              /\ linkEnds' = linkEnds + 1
       ELSE UNCHANGED <<ready, stored, linkEnds>>
  /\ unacked' = {} /\ pubWire' = {} /\ ackWire' = {} /\ link' = TRUE
  /\ msgs' = {} /\ gpc' = "start" /\ hand' = NoMsg /\ out' = <<>> /\ outClosed' = FALSE
  /\ cpc' = "select" /\ evt' = NoMsg /\ spc' = "running" /\ tries' = 0
  /\ lost' = FALSE /\ UNCHANGED <<counts, refused>>

-----------------------------------------------------------------------------

BrokerStep == \E m \in Evt \cup Junk : BrokerStores(m) \/ BrokerAcks(m) \/ Deliver(m)
ConsumeStep ==
  \/ StartConsume \/ (\E m \in Evt \cup Junk : TakeDelivery(m)) \/ RangeEnds
  \/ SendOut \/ SendOutPanics \/ Ack \/ Nack
ConsumerStep == Receive \/ StopConsumer \/ Increment
CloseStep == CloseOut \/ CloseConn

Next ==
  \/ Running /\ (ConsumeStep \/ ConsumerStep \/ CloseStep)
  \/ Running /\ BrokerStep
  \/ (\E e \in Evt : Publish(e)) \/ Signal \/ LinkFails \/ Crash \/ Restart

\* Goroutines that can run do run, the broker serves a connection that is up,
\* and the container is started again (restart: unless-stopped in
\* docker-compose.yaml).  Nothing makes anybody publish or stop the server.
Fairness ==
  /\ WF_vars(Running /\ ConsumeStep) /\ WF_vars(Running /\ ConsumerStep)
  /\ WF_vars(Running /\ CloseStep) /\ WF_vars(Restart)
  /\ \A m \in Evt : WF_vars(Running /\ (BrokerStores(m) \/ Deliver(m)))
  /\ \A m \in Evt : SF_vars(Running /\ TakeDelivery(m))

Spec == Init /\ [][Next]_vars /\ Fairness

-----------------------------------------------------------------------------
(* Properties *)

TypeOK ==
  /\ {ready, unacked, ackWire, msgs} \subseteq SUBSET (Evt \cup Junk)
  /\ {pubWire, stored, refused} \subseteq SUBSET Evt /\ {link, lost, outClosed} \subseteq BOOLEAN
  /\ gpc \in {"start", "range", "send", "ack", "nack", "ended"}
  /\ gpc \in {"send", "ack", "nack"} <=> hand # NoMsg
  /\ out \in Seq(Evt) /\ Len(out) <= Size
  /\ cpc \in {"select", "increment", "returned"} /\ (cpc = "increment" <=> evt \in Evt)
  /\ spc \in {"running", "closeOut", "closeConn", "exited", "panic"} /\ tries \in 0 .. 3
  /\ counts \in [Evt -> Nat] /\ linkEnds \in Nat /\ procEnds \in Nat

\* An event that has left the queue without being counted or held.
Gone(e) ==
  /\ e \in stored /\ counts[e] = 0 /\ e \notin ready \cup unacked
  /\ evt # e /\ \A i \in DOMAIN out : out[i] # e

\* A delivery is counted again only when its connection ended before the
\* acknowledgement arrived: an event is never counted more often than one time
\* plus once for every connection that ended.
DuplicatesBounded == \A e \in Evt : counts[e] <= 1 + linkEnds

\* Acknowledging before the count puts at most the contents of out and the event
\* in the consumer's hand at risk, whatever the backlog is: each end of the
\* process loses no more than that, and a lost connection alone loses nothing.
LossBounded == Cardinality({e \in Evt : Gone(e)}) <= (Size + 1) * procEnds

\* Close panics on the channel it closed before only if the connection had been
\* lost; with the broker reachable the retry of Shutdown never calls it again.
ClosePanicsOnlyUnlinked == spc = "panic" => gpc = "send" \/ lost

\* Every event in the queue is counted, by redelivery after a crash or a
\* shutdown if need be, unless it was acknowledged in a process that ended or
\* the running process has lost its connection.
EventuallyCounted ==
  \A e \in Evt :
    e \in stored ~> \/ counts[e] > 0 \/ Gone(e)
                    \/ (Running /\ ~ link)

\* No event that reached the queue is lost by a restart.
NothingLost == \A e \in Evt : ~ Gone(e)

\* Shutdown closes the queue without ending the process.
CloseNeverPanics == spc # "panic"
=============================================================================
