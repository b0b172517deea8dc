--------------------------- MODULE RabbitMQProofs ---------------------------
(***************************************************************************)
(* Proofs about RabbitMQ: its types, that Close panics only after a lost   *)
(* connection, and the two bounds of at-least-once delivery with an early  *)
(* acknowledgement: on what is counted twice and on what is lost, for any  *)
(* number of events, capacity, and number of crashes and lost connections. *)
(***************************************************************************)
EXTENDS RabbitMQ, FiniteSetTheorems, TLAPS

-----------------------------------------------------------------------------
(* Types *)

\* What the consume goroutine and the consumer hold where they are, and how many
\* attempts Shutdown has left.
Holding ==
  /\ hand \in Evt \cup Junk \cup {NoMsg} /\ evt \in Evt \cup {NoMsg}
  /\ gpc \in {"send", "ack"} => hand \in Evt
  /\ gpc = "nack" => hand \in Junk
  /\ spc = "running" => tries = 0
  /\ spc \in {"closeOut", "closeConn"} => tries < 3

TypeInv == TypeOK /\ Holding

\* The connection of a running process is down only if it failed, and out is
\* closed before Close only by the consume goroutine that found it so.
LostInv ==
  /\ Running /\ ~ link => lost
  /\ outClosed /\ spc \in {"running", "closeOut"} => lost
  /\ ClosePanicsOnlyUnlinked

-----------------------------------------------------------------------------
(* Duplicates *)

In(e, s) == \E i \in DOMAIN s : s[i] = e
NoRepeat(s) == \A i, k \in DOMAIN s : i # k => s[i] # s[k]

\* The event was delivered to this process and not counted yet.
Pending(e) == e \in msgs \/ (gpc = "send" /\ hand = e) \/ In(e, out) \/ evt = e

\* It is then in one place only: a process gets each event at most once.
OnePlace ==
  /\ NoRepeat(out)
  /\ \A e \in Evt : In(e, out) => e \notin msgs /\ evt # e
  /\ \A e \in Evt : e \in msgs => evt # e
  /\ gpc = "send" => hand \notin msgs /\ ~ In(hand, out) /\ evt # hand

\* An event that has not reached the queue has not gone any further.
NotYetStored ==
  \A e \in Evt : e \notin stored => counts[e] = 0 /\ ~ Pending(e) /\ e \notin ready \cup unacked

\* The running process may still count what is in the queue or pending; each
\* connection that ended has paid for one count before.
Paid ==
  \A e \in Evt :
    /\ counts[e] <= 1 + linkEnds /\ (~ link => counts[e] <= linkEnds)
    /\ link /\ e \in ready => ~ Pending(e)
    /\ link /\ (e \in ready \/ Pending(e)) => counts[e] <= linkEnds
    /\ ~ link /\ Pending(e) => counts[e] < linkEnds

DupInv == OnePlace /\ NotYetStored /\ Paid /\ pubWire \cap stored = {}

-----------------------------------------------------------------------------
(* Losses *)

\* What is acknowledged has been handed on: it is in out, with the consumer, or
\* counted.
HandedOn(e) == In(e, out) \/ evt = e \/ counts[e] > 0
AckedHandedOn ==
  \A e \in Evt : e \in ackWire \/ (gpc = "ack" /\ hand = e) => HandedOn(e)

LostEvents == {e \in Evt : Gone(e)}
LossInv == AckedHandedOn /\ (~ link => unacked = {}) /\ IsFiniteSet(LostEvents) /\ LossBounded

-----------------------------------------------------------------------------
(* Proofs *)

\* The queue and the wire when a connection ends: each event that is ready was
\* so, was unacknowledged, or has just arrived.
LEMMA DisconnectDoes ==
  ASSUME TypeInv, NEW P \in SUBSET pubWire, NEW A \in SUBSET ackWire, Disconnect(P, A)
  PROVE  /\ ready' \subseteq Evt \cup Junk /\ stored' \subseteq Evt
         /\ unacked' = {} /\ pubWire' = {} /\ ackWire' = {}
         /\ link' = FALSE /\ linkEnds' = linkEnds + 1
BY DEF TypeInv, TypeOK, Disconnect

\* What a restart leaves of the broker, and that it ends a connection at most.
LEMMA RestartDoes ==
  ASSUME TypeInv, Restart
  PROVE  /\ ready' \subseteq Evt \cup Junk /\ stored' \subseteq Evt
         /\ linkEnds' = IF link THEN linkEnds + 1 ELSE linkEnds
BY DEF TypeInv, TypeOK, Restart, broker

\* Every step keeps the types.
LEMMA TypeSteps ==
  ASSUME TypeInv, Next
  PROVE  TypeInv'
<1> USE DEF broker, consumeG, consumer, shutdown, conn, amqp, app, ends, TypeInv, TypeOK, Holding
<1>1. ASSUME NEW m \in Evt \cup Junk, Running, BrokerStores(m) PROVE TypeInv'
  BY <1>1, RabbitAssumption DEF BrokerStores
<1>2. ASSUME NEW m \in Evt \cup Junk, Running, BrokerAcks(m) PROVE TypeInv'
  BY <1>2, RabbitAssumption DEF BrokerAcks
<1>3. ASSUME NEW m \in Evt \cup Junk, Running, Deliver(m) PROVE TypeInv'
  BY <1>3, RabbitAssumption DEF Deliver
<1>4. ASSUME NEW m \in Evt \cup Junk, Running, TakeDelivery(m) PROVE TypeInv'
  BY <1>4, RabbitAssumption DEF TakeDelivery
<1>5. ASSUME NEW m \in Evt, Publish(m) PROVE TypeInv'
  BY <1>5, RabbitAssumption DEF Publish
<1>6. CASE Running /\ StartConsume
  BY <1>6, RabbitAssumption DEF StartConsume
<1>7. CASE Running /\ RangeEnds
  BY <1>7, RabbitAssumption DEF RangeEnds
<1>8. CASE Running /\ SendOut
  BY <1>8, RabbitAssumption DEF SendOut
<1>9. CASE Running /\ SendOutPanics
  BY <1>9, RabbitAssumption DEF SendOutPanics
<1>10. CASE Running /\ Ack
  BY <1>10, RabbitAssumption DEF Ack
<1>11. CASE Running /\ Nack
  BY <1>11, RabbitAssumption DEF Nack
<1>12. CASE Running /\ Receive
  BY <1>12, RabbitAssumption DEF Receive
<1>13. CASE Running /\ StopConsumer
  BY <1>13, RabbitAssumption DEF StopConsumer
<1>14. CASE Running /\ Increment
  BY <1>14, RabbitAssumption DEF Increment
<1>15. CASE Running /\ CloseOut
  BY <1>15, RabbitAssumption DEF CloseOut
<1>16. CASE Running /\ CloseConn
  <2>1. CASE link
    <3>1. /\ ready' \subseteq Evt \cup Junk /\ stored' \subseteq Evt
          /\ unacked' = {} /\ pubWire' = {} /\ ackWire' = {}
          /\ link' = FALSE /\ linkEnds' = linkEnds + 1
      BY <1>16, <2>1, DisconnectDoes DEF CloseConn
    <3>2. /\ spc' = "exited" /\ UNCHANGED <<tries, lost, consumeG, consumer, refused, procEnds>>
      BY <1>16, <2>1 DEF CloseConn
    <3>3. {link, lost, outClosed}' \subseteq BOOLEAN
      BY <3>1, <3>2
    <3>4. {ready, unacked, ackWire, msgs}' \subseteq SUBSET (Evt \cup Junk)
      BY <3>1, <3>2
    <3>5. {pubWire, stored, refused}' \subseteq SUBSET Evt
      BY <3>1, <3>2
    <3> QED
      BY <3>1, <3>2, <3>3, <3>4, <3>5
  <2>2. CASE ~ link
    BY <1>16, <2>2 DEF CloseConn
  <2> QED
    BY <2>1, <2>2
<1>17. CASE Signal
  BY <1>17, RabbitAssumption DEF Signal
<1>18. CASE LinkFails
  <2>1. /\ ready' \subseteq Evt \cup Junk /\ stored' \subseteq Evt
        /\ unacked' = {} /\ pubWire' = {} /\ ackWire' = {}
        /\ link' = FALSE /\ linkEnds' = linkEnds + 1
    BY <1>18, DisconnectDoes DEF LinkFails
  <2>2. lost' = TRUE /\ UNCHANGED <<consumeG, app, procEnds>>
    BY <1>18 DEF LinkFails
  <2>3. {link, lost, outClosed}' \subseteq BOOLEAN
    BY <2>1, <2>2
  <2>4. {ready, unacked, ackWire, msgs}' \subseteq SUBSET (Evt \cup Junk)
    BY <2>1, <2>2
  <2>5. {pubWire, stored, refused}' \subseteq SUBSET Evt
    BY <2>1, <2>2
  <2> QED
    BY <2>1, <2>2, <2>3, <2>4, <2>5
<1>19. CASE Crash
  <2>1. CASE link
    <3>1. /\ ready' \subseteq Evt \cup Junk /\ stored' \subseteq Evt
          /\ unacked' = {} /\ pubWire' = {} /\ ackWire' = {}
          /\ link' = FALSE /\ linkEnds' = linkEnds + 1
      BY <1>19, <2>1, DisconnectDoes DEF Crash
    <3>2. spc' = "exited" /\ UNCHANGED <<lost, tries, consumeG, consumer, refused, procEnds>>
      BY <1>19 DEF Crash
    <3>3. {link, lost, outClosed}' \subseteq BOOLEAN
      BY <3>1, <3>2
    <3>4. {ready, unacked, ackWire, msgs}' \subseteq SUBSET (Evt \cup Junk)
      BY <3>1, <3>2
    <3>5. {pubWire, stored, refused}' \subseteq SUBSET Evt
      BY <3>1, <3>2
    <3> QED
      BY <3>1, <3>2, <3>3, <3>4, <3>5
  <2>2. CASE ~ link
    BY <1>19, <2>2 DEF Crash
  <2> QED
    BY <2>1, <2>2
<1>20. CASE Restart
  <2>1. /\ ready' \subseteq Evt \cup Junk /\ stored' \subseteq Evt
        /\ linkEnds' \in Nat /\ procEnds' \in Nat
    BY <1>20, RestartDoes DEF Restart
  <2>2. /\ unacked' = {} /\ pubWire' = {} /\ ackWire' = {} /\ link' = TRUE
        /\ msgs' = {} /\ gpc' = "start" /\ hand' = NoMsg /\ out' = <<>> /\ outClosed' = FALSE
        /\ cpc' = "select" /\ evt' = NoMsg /\ spc' = "running" /\ tries' = 0
        /\ lost' = FALSE /\ UNCHANGED <<counts, refused>>
    BY <1>20 DEF Restart
  <2>3. out' \in Seq(Evt) /\ Len(out') <= Size
    BY <2>2, RabbitAssumption
  <2>4. {link, lost, outClosed}' \subseteq BOOLEAN
    BY <2>2
  <2>5. {ready, unacked, ackWire, msgs}' \subseteq SUBSET (Evt \cup Junk)
    BY <2>1, <2>2
  <2>6. {pubWire, stored, refused}' \subseteq SUBSET Evt
    BY <2>1, <2>2
  <2> QED
    BY <2>1, <2>2, <2>3, <2>4, <2>5, <2>6, RabbitAssumption
<1> QED
  BY <1>1, <1>2, <1>3, <1>4, <1>5, <1>6, <1>7, <1>8, <1>9, <1>10, <1>11, <1>12,
     <1>13, <1>14, <1>15, <1>16, <1>17, <1>18, <1>19, <1>20
     DEF Next, BrokerStep, ConsumeStep, ConsumerStep, CloseStep

\* Every step keeps LostInv.
LEMMA LostSteps ==
  ASSUME TypeInv, LostInv, Next
  PROVE  LostInv'
<1> USE DEF broker, consumeG, consumer, shutdown, conn, amqp, app, ends, LostInv, ClosePanicsOnlyUnlinked, TypeInv, TypeOK, Running
<1>1. ASSUME NEW m \in Evt \cup Junk, Running, BrokerStores(m) PROVE LostInv'
  BY <1>1 DEF BrokerStores
<1>2. ASSUME NEW m \in Evt \cup Junk, Running, BrokerAcks(m) PROVE LostInv'
  BY <1>2 DEF BrokerAcks
<1>3. ASSUME NEW m \in Evt \cup Junk, Running, Deliver(m) PROVE LostInv'
  BY <1>3 DEF Deliver
<1>4. ASSUME NEW m \in Evt \cup Junk, Running, TakeDelivery(m) PROVE LostInv'
  BY <1>4 DEF TakeDelivery
<1>5. ASSUME NEW m \in Evt, Publish(m) PROVE LostInv'
  BY <1>5 DEF Publish
<1>6. CASE Running /\ StartConsume
  BY <1>6 DEF StartConsume
<1>7. CASE Running /\ RangeEnds
  BY <1>7 DEF RangeEnds
<1>8. CASE Running /\ SendOut
  BY <1>8 DEF SendOut
<1>9. CASE Running /\ SendOutPanics
  BY <1>9 DEF SendOutPanics
<1>10. CASE Running /\ Ack
  BY <1>10 DEF Ack
<1>11. CASE Running /\ Nack
  BY <1>11 DEF Nack
<1>12. CASE Running /\ Receive
  BY <1>12 DEF Receive
<1>13. CASE Running /\ StopConsumer
  BY <1>13 DEF StopConsumer
<1>14. CASE Running /\ Increment
  BY <1>14 DEF Increment
<1>15. CASE Running /\ CloseOut
  BY <1>15 DEF CloseOut
<1>16. CASE Running /\ CloseConn
  BY <1>16 DEF CloseConn, Disconnect
<1>17. CASE Signal
  BY <1>17 DEF Signal
<1>18. CASE LinkFails
  BY <1>18 DEF LinkFails, Disconnect
<1>19. CASE Crash
  BY <1>19 DEF Crash, Disconnect
<1>20. CASE Restart
  BY <1>20 DEF Restart
<1> QED
  BY <1>1, <1>2, <1>3, <1>4, <1>5, <1>6, <1>7, <1>8, <1>9, <1>10, <1>11, <1>12,
     <1>13, <1>14, <1>15, <1>16, <1>17, <1>18, <1>19, <1>20
     DEF Next, BrokerStep, ConsumeStep, ConsumerStep, CloseStep

\* Types, and who holds an event where, are invariant.
LEMMA TypeInvariant == Spec => []TypeInv
<1>1. Init => TypeInv
  <2>1. Init => Holding
    BY RabbitAssumption DEF Init, Holding
  <2>2. Init => /\ {ready, unacked, ackWire, msgs} \subseteq SUBSET (Evt \cup Junk)
                /\ {pubWire, stored, refused} \subseteq SUBSET Evt
                /\ {link, lost, outClosed} \subseteq BOOLEAN
    BY DEF Init
  <2>3. Init => /\ gpc \in {"start", "range", "send", "ack", "nack", "ended"}
                /\ gpc \in {"send", "ack", "nack"} <=> hand # NoMsg
                /\ out \in Seq(Evt) /\ Len(out) <= Size
                /\ cpc \in {"select", "increment", "returned"} /\ (cpc = "increment" <=> evt \in Evt)
                /\ spc \in {"running", "closeOut", "closeConn", "exited", "panic"} /\ tries \in 0 .. 3
                /\ counts \in [Evt -> Nat] /\ linkEnds \in Nat /\ procEnds \in Nat
    BY RabbitAssumption DEF Init
  <2> QED
    BY <2>1, <2>2, <2>3 DEF TypeInv, TypeOK
<1>2. TypeInv /\ UNCHANGED vars => TypeInv'
  BY DEF TypeInv, TypeOK, Holding, vars, broker, consumeG, consumer, shutdown, conn, amqp, app, ends
<1> QED
  BY <1>1, <1>2, TypeSteps, PTL DEF Spec

\* The queue, the wire, the goroutines and the counters keep their types; out holds
\* at most Size events and Shutdown makes at most three attempts.
THEOREM RabbitTypes == Spec => []TypeOK
<1>1. TypeInv => TypeOK
  BY DEF TypeInv
<1> QED
  BY <1>1, TypeInvariant, PTL

\* Close panics on its closed channel only if the connection had been lost.
THEOREM CloseSafeWhileLinked == Spec => []ClosePanicsOnlyUnlinked
<1>1. Init => LostInv
  BY DEF Init, LostInv, ClosePanicsOnlyUnlinked, Running
<1>2. LostInv /\ UNCHANGED vars => LostInv'
  BY DEF LostInv, ClosePanicsOnlyUnlinked, Running, vars, consumeG, shutdown, conn, amqp, app
<1>3. LostInv => ClosePanicsOnlyUnlinked
  BY DEF LostInv
<1>4. Spec => []LostInv
  BY <1>1, <1>2, LostSteps, TypeInvariant, PTL DEF Spec
<1> QED
  BY <1>3, <1>4, PTL

-----------------------------------------------------------------------------
(* Duplicates: the proof *)

\* A sequence without repetition stays so when a new element is added.
LEMMA InAppend ==
  ASSUME NEW S, NEW s \in Seq(S), NEW o \in S
  PROVE  /\ \A x : In(x, Append(s, o)) <=> In(x, s) \/ x = o
         /\ NoRepeat(s) /\ ~ In(o, s) => NoRepeat(Append(s, o))
<1>1. /\ DOMAIN s = 1 .. Len(s) /\ DOMAIN Append(s, o) = 1 .. Len(s) + 1
      /\ \A i \in 1 .. Len(s) : Append(s, o)[i] = s[i]
      /\ Append(s, o)[Len(s) + 1] = o /\ Len(s) \in Nat
  OBVIOUS
<1>2. \A x : In(x, Append(s, o)) <=> In(x, s) \/ x = o
  BY <1>1 DEF In
<1>3. NoRepeat(s) /\ ~ In(o, s) => NoRepeat(Append(s, o))
  BY <1>1 DEF In, NoRepeat
<1> QED
  BY <1>2, <1>3

\* It stays so when its head is taken, which is then no longer in it.
LEMMA InTail ==
  ASSUME NEW S, NEW s \in Seq(S), s # <<>>
  PROVE  /\ Head(s) \in S /\ In(Head(s), s)
         /\ \A x : In(x, s) <=> x = Head(s) \/ In(x, Tail(s))
         /\ NoRepeat(s) => NoRepeat(Tail(s)) /\ ~ In(Head(s), Tail(s))
<1>1. /\ Len(s) \in Nat \ {0} /\ DOMAIN s = 1 .. Len(s) /\ Head(s) = s[1] /\ Head(s) \in S
      /\ DOMAIN Tail(s) = 1 .. Len(s) - 1
      /\ \A i \in 1 .. Len(s) - 1 : Tail(s)[i] = s[i + 1]
  OBVIOUS
<1>2. ASSUME NEW x, In(x, s) PROVE x = Head(s) \/ In(x, Tail(s))
  <2>1. PICK i \in 1 .. Len(s) : s[i] = x
    BY <1>1, <1>2 DEF In
  <2>2. i = 1 \/ (i - 1 \in 1 .. Len(s) - 1 /\ Tail(s)[i - 1] = x)
    BY <1>1, <2>1
  <2> QED
    BY <1>1, <2>1, <2>2 DEF In
<1>3. ASSUME NEW x, In(x, Tail(s)) PROVE In(x, s)
  BY <1>1, <1>3 DEF In
<1>4. In(Head(s), s)
  BY <1>1 DEF In
<1>5. NoRepeat(s) => NoRepeat(Tail(s)) /\ ~ In(Head(s), Tail(s))
  BY <1>1 DEF In, NoRepeat
<1> QED
  BY <1>1, <1>2, <1>3, <1>4, <1>5

\* Nothing is in the empty sequence.
LEMMA InNone == NoRepeat(<<>>) /\ \A x : ~ In(x, <<>>)
BY DEF In, NoRepeat

\* A delivery and its hand-over never put an event in two places.
LEMMA OnePlaceKept ==
  ASSUME TypeInv, OnePlace, Paid, Next
  PROVE  OnePlace'
<1> USE DEF broker, consumeG, consumer, shutdown, conn, amqp, app, ends
<1>1. ASSUME NEW m \in Evt \cup Junk, Deliver(m) PROVE OnePlace'
  <2>1. m \in Evt => ~ Pending(m)
    BY <1>1 DEF Deliver, Paid
  <2>2. gpc = "send" => hand \in Evt
    BY DEF TypeInv, Holding
  <2> QED
    BY <1>1, <2>1, <2>2 DEF Deliver, OnePlace, Pending
<1>2. ASSUME NEW m \in Evt \cup Junk, TakeDelivery(m) PROVE OnePlace'
  BY <1>2 DEF TakeDelivery, OnePlace
<1>3. CASE StartConsume \/ RangeEnds
  BY <1>3 DEF StartConsume, RangeEnds, OnePlace
<1>4. CASE SendOut
  <2>1. out \in Seq(Evt) /\ hand \in Evt
    BY <1>4 DEF SendOut, TypeInv, TypeOK, Holding
  <2>2. /\ \A x : In(x, out') <=> In(x, out) \/ x = hand
        /\ NoRepeat(out')
    BY <1>4, <2>1, InAppend DEF SendOut, OnePlace
  <2> QED
    BY <1>4, <2>1, <2>2 DEF SendOut, OnePlace
<1>5. CASE Ack \/ Nack
  BY <1>5 DEF Ack, Nack, OnePlace
<1>6. CASE Receive
  <2>1. out \in Seq(Evt) /\ out # <<>> /\ evt' = Head(out) /\ out' = Tail(out)
    BY <1>6 DEF Receive, TypeInv, TypeOK
  <2>2. /\ evt' \in Evt /\ NoRepeat(out') /\ ~ In(evt', out')
        /\ \A x : In(x, out) <=> x = evt' \/ In(x, out')
    BY <2>1, InTail DEF OnePlace
  <2>3. UNCHANGED <<msgs, gpc, hand>>
    BY <1>6 DEF Receive
  <2> QED
    BY <2>2, <2>3 DEF OnePlace
<1>7. CASE Increment
  BY <1>7, RabbitAssumption DEF Increment, OnePlace, TypeInv, Holding
<1>8. CASE Restart
  BY <1>8, InNone DEF Restart, OnePlace
<1>9. CASE UNCHANGED <<msgs, gpc, hand, out, evt>>
  BY <1>9 DEF OnePlace
<1>10. ASSUME NEW m \in Evt \cup Junk, BrokerStores(m) \/ BrokerAcks(m) \/ Publish(m)
       PROVE  OnePlace'
  BY <1>9, <1>10 DEF BrokerStores, BrokerAcks, Publish
<1>11. CASE \/ SendOutPanics \/ StopConsumer \/ CloseOut \/ CloseConn \/ Signal
            \/ LinkFails \/ Crash
  BY <1>9, <1>11 DEF SendOutPanics, StopConsumer, CloseOut, CloseConn, Signal, LinkFails, Crash
<1> QED
  BY <1>1, <1>2, <1>3, <1>4, <1>5, <1>6, <1>7, <1>8, <1>10, <1>11
     DEF Next, BrokerStep, ConsumeStep, ConsumerStep, CloseStep

\* Nothing but a delivery makes an event pending, and a counted one is pending no
\* more.
LEMMA PendingDoes ==
  ASSUME TypeInv, Next, NEW e \in Evt, Pending(e)'
  PROVE  Pending(e) \/ Deliver(e)
<1> USE DEF broker, consumeG, consumer, shutdown, conn, amqp, app, ends
<1>1. ASSUME NEW m \in Evt \cup Junk, Deliver(m) PROVE Pending(e) \/ Deliver(e)
  BY <1>1 DEF Deliver, Pending
<1>2. ASSUME NEW m \in Evt \cup Junk, TakeDelivery(m) PROVE Pending(e)
  BY <1>2 DEF TakeDelivery, Pending
<1>3. CASE StartConsume \/ RangeEnds
  BY <1>3 DEF StartConsume, RangeEnds, Pending
<1>4. CASE SendOut
  <2>1. out \in Seq(Evt) /\ hand \in Evt
    BY <1>4 DEF SendOut, TypeInv, TypeOK, Holding
  <2>2. In(e, out') <=> In(e, out) \/ e = hand
    BY <1>4, <2>1, InAppend DEF SendOut
  <2> QED
    BY <1>4, <2>2 DEF SendOut, Pending
<1>5. CASE Ack \/ Nack
  BY <1>5 DEF Ack, Nack, Pending
<1>6. CASE Receive
  <2>1. out \in Seq(Evt) /\ out # <<>> /\ evt' = Head(out) /\ out' = Tail(out)
    BY <1>6 DEF Receive, TypeInv, TypeOK
  <2>2. \A x : In(x, out) <=> x = evt' \/ In(x, out')
    BY <2>1, InTail
  <2> QED
    BY <1>6, <2>2 DEF Receive, Pending
<1>7. CASE Increment
  BY <1>7, RabbitAssumption DEF Increment, Pending
<1>8. CASE Restart
  BY <1>8, InNone, RabbitAssumption DEF Restart, Pending
<1>9. CASE UNCHANGED <<msgs, gpc, hand, out, evt>>
  BY <1>9 DEF Pending
<1>10. ASSUME NEW m \in Evt \cup Junk, BrokerStores(m) \/ BrokerAcks(m) \/ Publish(m)
       PROVE  Pending(e) \/ Deliver(e)
  BY <1>9, <1>10 DEF BrokerStores, BrokerAcks, Publish
<1>11. CASE \/ SendOutPanics \/ StopConsumer \/ CloseOut \/ CloseConn \/ Signal
            \/ LinkFails \/ Crash
  BY <1>9, <1>11 DEF SendOutPanics, StopConsumer, CloseOut, CloseConn, Signal, LinkFails, Crash
<1> QED
  BY <1>1, <1>2, <1>3, <1>4, <1>5, <1>6, <1>7, <1>8, <1>10, <1>11
     DEF Next, BrokerStep, ConsumeStep, ConsumerStep, CloseStep

\* Increment counts the event in hand, which is then nowhere else.
LEMMA CountedDoes ==
  ASSUME TypeInv, OnePlace, Increment
  PROVE  /\ evt \in Evt /\ Pending(evt) /\ counts' = [counts EXCEPT ![evt] = @ + 1]
         /\ \A e \in Evt : e = evt => ~ Pending(e)'
<1>1. evt \in Evt /\ cpc = "increment"
  BY DEF Increment, TypeInv, TypeOK
<1>2. evt' = NoMsg /\ UNCHANGED <<msgs, gpc, hand, out>>
  BY DEF Increment, consumeG
<1> QED
  BY <1>1, <1>2, RabbitAssumption DEF Increment, Pending, OnePlace

\* Only Increment counts.
LEMMA CountsKept ==
  ASSUME Next, ~ Increment
  PROVE  UNCHANGED counts
BY DEF Next, BrokerStep, ConsumeStep, ConsumerStep, CloseStep, BrokerStores, BrokerAcks,
       Deliver, TakeDelivery, Publish, StartConsume, RangeEnds, SendOut, SendOutPanics, Ack,
       Nack, Receive, StopConsumer, CloseOut, CloseConn, Signal, LinkFails, Crash, Restart,
       consumer, app

\* What is on the publisher's side has not reached the broker before.
LEMMA NotYetStoredKept ==
  ASSUME TypeInv, OnePlace, NotYetStored, pubWire \cap stored = {}, Next
  PROVE  NotYetStored' /\ (pubWire \cap stored = {})'
<1> USE DEF broker, consumeG, consumer, shutdown, conn, amqp, app, ends
<1> DEFINE Grows ==
      /\ stored \subseteq stored' /\ (pubWire \cap stored = {})'
      /\ \A e \in Evt : e \notin stored' /\ e \notin ready \cup unacked
                          => e \notin (ready \cup unacked)'
<1>1. Grows
  <2>1. ASSUME NEW m \in Evt \cup Junk,
               BrokerStores(m) \/ BrokerAcks(m) \/ Deliver(m) \/ TakeDelivery(m) \/ Publish(m)
        PROVE  Grows
    BY <2>1 DEF BrokerStores, BrokerAcks, Deliver, TakeDelivery, Publish
  <2>2. CASE \/ StartConsume \/ RangeEnds \/ SendOut \/ SendOutPanics \/ Ack \/ Nack
             \/ Receive \/ StopConsumer \/ Increment \/ CloseOut \/ Signal
    BY <2>2 DEF StartConsume, RangeEnds, SendOut, SendOutPanics, Ack, Nack, Receive,
                StopConsumer, Increment, CloseOut, Signal
  <2>3. CASE CloseConn
    BY <2>3 DEF CloseConn, Disconnect
  <2>4. CASE LinkFails
    BY <2>4 DEF LinkFails, Disconnect
  <2>5. CASE Crash
    BY <2>5 DEF Crash, Disconnect
  <2>6. CASE Restart
    BY <2>6 DEF Restart
  <2> QED
    BY <2>1, <2>2, <2>3, <2>4, <2>5, <2>6
       DEF Next, BrokerStep, ConsumeStep, ConsumerStep, CloseStep
<1>2. ASSUME NEW e \in Evt, e \notin stored' PROVE ~ Pending(e)' /\ counts'[e] = 0
  <2>1. e \notin stored /\ ~ Pending(e) /\ counts[e] = 0 /\ e \notin ready
    BY <1>1, <1>2 DEF NotYetStored
  <2>2. ~ Deliver(e)
    BY <2>1 DEF Deliver
  <2>3. UNCHANGED counts \/ (Increment /\ evt # e /\ evt \in Evt)
    <3>1. CASE Increment
      BY <3>1, <2>1, CountedDoes
    <3>2. CASE ~ Increment
      BY <3>2, CountsKept
    <3> QED
      BY <3>1, <3>2
  <2>4. counts'[e] = counts[e]
    BY <2>3 DEF Increment, TypeInv, TypeOK
  <2> QED
    BY <2>1, <2>2, <2>4, PendingDoes
<1> QED
  BY <1>1, <1>2 DEF NotYetStored

\* A step leaves the connection alone, and only a publishing makes an event ready;
\* or the connection ends and the goroutines do not move; or it is a restart.
LEMMA LinkDoes ==
  ASSUME Next
  PROVE  \/ /\ UNCHANGED <<link, linkEnds>>
            /\ \A e \in Evt : e \in ready' => e \in ready \/ BrokerStores(e)
         \/ /\ link /\ ~ link' /\ linkEnds' = linkEnds + 1 /\ UNCHANGED <<consumeG, consumer>>
         \/ Restart
<1> USE DEF broker, consumeG, consumer, shutdown, conn, amqp, app, ends
<1> DEFINE Q == \/ /\ UNCHANGED <<link, linkEnds>>
                   /\ \A e \in Evt : e \in ready' => e \in ready \/ BrokerStores(e)
                \/ /\ link /\ ~ link' /\ linkEnds' = linkEnds + 1 /\ UNCHANGED <<consumeG, consumer>>
                \/ Restart
<1>1. ASSUME NEW m \in Evt \cup Junk, BrokerStores(m) PROVE Q
  <2>1. UNCHANGED <<link, linkEnds>> /\ ready' = ready \cup {m}
    BY <1>1 DEF BrokerStores
  <2> QED
    BY <1>1, <2>1
<1>2. ASSUME NEW m \in Evt \cup Junk, BrokerAcks(m) \/ Deliver(m) \/ TakeDelivery(m) \/ Publish(m)
      PROVE  Q
  <2>1. UNCHANGED <<link, linkEnds>> /\ ready' \subseteq ready
    BY <1>2 DEF BrokerAcks, Deliver, TakeDelivery, Publish
  <2> QED
    BY <2>1
<1>3. CASE \/ StartConsume \/ RangeEnds \/ SendOut \/ SendOutPanics \/ Ack \/ Nack
           \/ Receive \/ StopConsumer \/ Increment \/ CloseOut \/ Signal
  <2>1. UNCHANGED <<link, linkEnds, ready>>
    BY <1>3 DEF StartConsume, RangeEnds, SendOut, SendOutPanics, Ack, Nack, Receive,
                StopConsumer, Increment, CloseOut, Signal
  <2> QED
    BY <2>1
<1>4. CASE CloseConn \/ LinkFails \/ Crash
  <2>1. \/ UNCHANGED <<link, linkEnds, ready>>
        \/ link /\ ~ link' /\ linkEnds' = linkEnds + 1 /\ UNCHANGED <<consumeG, consumer>>
    BY <1>4 DEF CloseConn, LinkFails, Crash, Disconnect
  <2> QED
    BY <2>1
<1>5. CASE Restart
  BY <1>5
<1> QED
  BY <1>1, <1>2, <1>3, <1>4, <1>5 DEF Next, BrokerStep, ConsumeStep, ConsumerStep, CloseStep

\* An event is counted again only when a connection has ended in between.
LEMMA PaidKept ==
  ASSUME TypeInv, DupInv, Next
  PROVE  Paid'
<1> SUFFICES ASSUME NEW e \in Evt
             PROVE  /\ counts'[e] <= 1 + linkEnds' /\ (~ link' => counts'[e] <= linkEnds')
                    /\ link' /\ e \in ready' => ~ Pending(e)'
                    /\ link' /\ (e \in ready' \/ Pending(e)') => counts'[e] <= linkEnds'
                    /\ ~ link' /\ Pending(e)' => counts'[e] < linkEnds'
  BY DEF Paid
<1>0. /\ counts[e] \in Nat /\ linkEnds \in Nat
      /\ counts[e] <= 1 + linkEnds /\ (~ link => counts[e] <= linkEnds)
      /\ link /\ e \in ready => ~ Pending(e)
      /\ link /\ (e \in ready \/ Pending(e)) => counts[e] <= linkEnds
      /\ ~ link /\ Pending(e) => counts[e] < linkEnds
  BY DEF TypeInv, TypeOK, DupInv, Paid
<1>1. CASE Restart
  <2>1. /\ link' /\ linkEnds' = (IF link THEN linkEnds + 1 ELSE linkEnds) /\ UNCHANGED counts
    BY <1>1, RestartDoes DEF Restart
  <2>2. ~ Pending(e)'
    BY <1>1, InNone, RabbitAssumption DEF Restart, Pending
  <2> QED
    BY <1>0, <2>1, <2>2
<1>2. CASE link /\ ~ link' /\ linkEnds' = linkEnds + 1 /\ UNCHANGED <<consumeG, consumer>>
  <2>1. UNCHANGED counts /\ Pending(e)' = Pending(e)
    BY <1>2 DEF consumeG, consumer, Pending
  <2> QED
    BY <1>0, <1>2, <2>1
<1>3. CASE UNCHANGED <<link, linkEnds>> /\ (e \in ready' => e \in ready \/ BrokerStores(e))
  <2>1. BrokerStores(e) => counts[e] = 0 /\ ~ Pending(e) /\ UNCHANGED counts
    BY DEF BrokerStores, DupInv, NotYetStored, app, consumer
  <2>2. Deliver(e) => link /\ e \in ready /\ e \notin ready'
    BY DEF Deliver
  <2>3. Pending(e)' => Pending(e) \/ Deliver(e)
    BY PendingDoes
  <2>4. CASE Increment /\ evt = e
    <3>1. Pending(e) /\ ~ Pending(e)' /\ counts'[e] = counts[e] + 1
      BY <2>4, CountedDoes DEF DupInv, TypeInv, TypeOK
    <3>2. ready' = ready
      BY <2>4 DEF Increment, amqp, broker
    <3> QED
      BY <1>0, <1>3, <3>1, <3>2
  <2>5. CASE ~ (Increment /\ evt = e)
    <3>1. counts'[e] = counts[e]
      BY <2>5, CountsKept DEF Increment, TypeInv, TypeOK
    <3>2. CASE BrokerStores(e)
      <4>1. ~ Deliver(e)
        BY <3>2 DEF BrokerStores, Deliver, consumeG
      <4> QED
        BY <1>0, <1>3, <2>1, <2>3, <3>1, <3>2, <4>1
    <3>3. CASE ~ BrokerStores(e)
      BY <1>0, <1>3, <2>2, <2>3, <3>1, <3>3
    <3> QED
      BY <3>2, <3>3
  <2> QED
    BY <2>4, <2>5
<1> QED
  BY <1>1, <1>2, <1>3, LinkDoes

\* An event is counted at most once, and once more for every connection that
\* ended: redelivery is the only source of duplicates.
THEOREM CountedAgainOnlyByRedelivery == Spec => []DuplicatesBounded
<1>1. Init => DupInv
  BY InNone, RabbitAssumption
     DEF Init, DupInv, OnePlace, NotYetStored, Paid, Pending
<1>2. TypeInv /\ DupInv /\ [Next]_vars => DupInv'
  <2>1. ASSUME TypeInv, DupInv, Next PROVE DupInv'
    BY <2>1, OnePlaceKept, NotYetStoredKept, PaidKept DEF DupInv
  <2>2. ASSUME DupInv, UNCHANGED vars PROVE DupInv'
    BY <2>2 DEF DupInv, OnePlace, NotYetStored, Paid, Pending, vars, broker, consumeG, consumer,
                shutdown, conn, amqp, app, ends
  <2> QED
    BY <2>1, <2>2
<1>3. DupInv => DuplicatesBounded
  BY DEF DupInv, Paid, DuplicatesBounded
<1>4. Spec => []DupInv
  BY <1>1, <1>2, TypeInvariant, PTL DEF Spec
<1> QED
  BY <1>3, <1>4, PTL

-----------------------------------------------------------------------------
(* Losses: the proof *)

\* What has been handed on stays so until the process is started again.
LEMMA HandedOnKept ==
  ASSUME TypeInv, Next, ~ Restart, NEW e \in Evt, HandedOn(e)
  PROVE  HandedOn(e)'
<1> USE DEF broker, consumeG, consumer, shutdown, conn, amqp, app, ends
<1>1. CASE SendOut
  <2>1. out \in Seq(Evt) /\ hand \in Evt
    BY <1>1 DEF SendOut, TypeInv, TypeOK, Holding
  <2>2. In(e, out) => In(e, out')
    BY <1>1, <2>1, InAppend DEF SendOut
  <2> QED
    BY <1>1, <2>2 DEF SendOut, HandedOn
<1>2. CASE Receive
  <2>1. out \in Seq(Evt) /\ out # <<>> /\ evt' = Head(out) /\ out' = Tail(out)
    BY <1>2 DEF Receive, TypeInv, TypeOK
  <2>2. \A x : In(x, out) <=> x = evt' \/ In(x, out')
    BY <2>1, InTail
  <2>3. evt \notin Evt /\ UNCHANGED counts
    BY <1>2 DEF Receive, TypeInv, TypeOK
  <2> QED
    BY <2>2, <2>3 DEF HandedOn
<1>3. CASE Increment
  <2>1. evt \in Evt /\ counts' = [counts EXCEPT ![evt] = @ + 1] /\ UNCHANGED out /\ counts \in [Evt -> Nat]
    BY <1>3 DEF Increment, TypeInv, TypeOK
  <2> QED
    BY <2>1 DEF HandedOn
<1>4. CASE UNCHANGED <<out, evt, counts>>
  BY <1>4 DEF HandedOn
<1>5. ASSUME NEW m \in Evt \cup Junk,
             BrokerStores(m) \/ BrokerAcks(m) \/ Deliver(m) \/ TakeDelivery(m) \/ Publish(m)
      PROVE  HandedOn(e)'
  BY <1>4, <1>5 DEF BrokerStores, BrokerAcks, Deliver, TakeDelivery, Publish
<1>6. CASE \/ StartConsume \/ RangeEnds \/ SendOutPanics \/ Ack \/ Nack \/ StopConsumer
           \/ CloseOut \/ Signal \/ CloseConn \/ LinkFails \/ Crash
  BY <1>4, <1>6 DEF StartConsume, RangeEnds, SendOutPanics, Ack, Nack, StopConsumer, CloseOut,
                    Signal, CloseConn, LinkFails, Crash
<1> QED
  BY <1>1, <1>2, <1>3, <1>5, <1>6 DEF Next, BrokerStep, ConsumeStep, ConsumerStep, CloseStep

\* The acknowledgement follows the send to out.
LEMMA AckedKept ==
  ASSUME TypeInv, AckedHandedOn, Next
  PROVE  AckedHandedOn'
<1> USE DEF broker, consumeG, consumer, shutdown, conn, amqp, app, ends
<1> SUFFICES ASSUME NEW e \in Evt, e \in ackWire' \/ (gpc' = "ack" /\ hand' = e)
             PROVE  HandedOn(e)'
  BY DEF AckedHandedOn
<1>1. CASE Restart
  BY <1>1 DEF Restart
<1>2. CASE SendOut
  <2>1. out \in Seq(Evt) /\ hand \in Evt
    BY <1>2 DEF SendOut, TypeInv, TypeOK, Holding
  <2>2. In(hand, out')
    BY <1>2, <2>1, InAppend DEF SendOut
  <2>3. e \in ackWire \/ hand = e
    BY <1>2 DEF SendOut
  <2>4. ~ Restart
    BY <1>2 DEF SendOut, Restart
  <2> QED
    BY <2>2, <2>3, <2>4, HandedOnKept DEF AckedHandedOn, HandedOn
<1>3. CASE ~ Restart /\ ~ SendOut
  <2>1. e \in ackWire \/ (gpc = "ack" /\ hand = e) \/ (gpc = "nack" /\ hand = e)
    <3>1. ASSUME NEW m \in Evt \cup Junk,
                 BrokerStores(m) \/ BrokerAcks(m) \/ Deliver(m) \/ TakeDelivery(m) \/ Publish(m)
          PROVE  e \in ackWire \/ (gpc = "ack" /\ hand = e)
      BY <3>1 DEF BrokerStores, BrokerAcks, Deliver, TakeDelivery, Publish
    <3>2. CASE \/ StartConsume \/ RangeEnds \/ SendOutPanics \/ Ack \/ Nack \/ StopConsumer
               \/ Receive \/ Increment \/ CloseOut \/ Signal
      BY <3>2 DEF StartConsume, RangeEnds, SendOutPanics, Ack, Nack, StopConsumer, Receive,
                  Increment, CloseOut, Signal
    <3>3. CASE CloseConn \/ LinkFails \/ Crash
      BY <3>3 DEF CloseConn, LinkFails, Crash, Disconnect
    <3> QED
      BY <1>3, <3>1, <3>2, <3>3 DEF Next, BrokerStep, ConsumeStep, ConsumerStep, CloseStep
  <2>2. ~ (gpc = "nack" /\ hand = e)
    BY RabbitAssumption DEF TypeInv, Holding
  <2> QED
    BY <1>3, <2>1, <2>2, HandedOnKept DEF AckedHandedOn
<1> QED
  BY <1>1, <1>2, <1>3

\* Only a restart loses events: the others leave the queue when they have been
\* handed on.
LEMMA NothingGone ==
  ASSUME TypeInv, AckedHandedOn, Next, ~ Restart, NEW e \in Evt, ~ Gone(e)
  PROVE  ~ Gone(e)'
<1> USE DEF broker, consumeG, consumer, shutdown, conn, amqp, app, ends
<1>1. HandedOn(e) => ~ Gone(e)'
  BY HandedOnKept DEF HandedOn, Gone, In, TypeInv, TypeOK
<1>2. CASE e \in ready \cup unacked
  <2>1. e \in (ready \cup unacked)' \/ e \in ackWire
    <3>1. ASSUME NEW m \in Evt \cup Junk,
                 BrokerStores(m) \/ BrokerAcks(m) \/ Deliver(m) \/ TakeDelivery(m) \/ Publish(m)
          PROVE  e \in (ready \cup unacked)' \/ e \in ackWire
      BY <1>2, <3>1 DEF BrokerStores, BrokerAcks, Deliver, TakeDelivery, Publish
    <3>2. CASE \/ StartConsume \/ RangeEnds \/ SendOut \/ SendOutPanics \/ Ack \/ Nack
               \/ StopConsumer \/ Receive \/ Increment \/ CloseOut \/ Signal
      BY <1>2, <3>2 DEF StartConsume, RangeEnds, SendOut, SendOutPanics, Ack, Nack, StopConsumer,
                        Receive, Increment, CloseOut, Signal
    <3>3. CASE CloseConn \/ LinkFails \/ Crash
      BY <1>2, <3>3 DEF CloseConn, LinkFails, Crash, Disconnect
    <3> QED
      BY <3>1, <3>2, <3>3 DEF Next, BrokerStep, ConsumeStep, ConsumerStep, CloseStep
  <2> QED
    BY <1>1, <2>1 DEF AckedHandedOn, Gone
<1>3. CASE e \notin stored
  <2>1. e \in stored' => e \in ready'
    <3>1. ASSUME NEW m \in Evt \cup Junk,
                 BrokerStores(m) \/ BrokerAcks(m) \/ Deliver(m) \/ TakeDelivery(m) \/ Publish(m)
          PROVE  e \in stored' => e \in ready'
      BY <1>3, <3>1 DEF BrokerStores, BrokerAcks, Deliver, TakeDelivery, Publish
    <3>2. CASE \/ StartConsume \/ RangeEnds \/ SendOut \/ SendOutPanics \/ Ack \/ Nack
               \/ StopConsumer \/ Receive \/ Increment \/ CloseOut \/ Signal
      BY <1>3, <3>2 DEF StartConsume, RangeEnds, SendOut, SendOutPanics, Ack, Nack, StopConsumer,
                        Receive, Increment, CloseOut, Signal
    <3>3. CASE CloseConn \/ LinkFails \/ Crash
      BY <1>3, <3>3 DEF CloseConn, LinkFails, Crash, Disconnect
    <3> QED
      BY <3>1, <3>2, <3>3 DEF Next, BrokerStep, ConsumeStep, ConsumerStep, CloseStep
  <2> QED
    BY <2>1 DEF Gone
<1>4. CASE HandedOn(e)
  BY <1>1, <1>4
<1>5. HandedOn(e) \/ e \notin stored \/ e \in ready \cup unacked
  BY DEF Gone, HandedOn, In, TypeInv, TypeOK
<1> QED
  BY <1>2, <1>3, <1>4, <1>5

\* A restart loses at most what was in out and the event the consumer had.
LEMMA RestartLoses ==
  ASSUME TypeInv, AckedHandedOn, ~ link => unacked = {}, Restart
  PROVE  LostEvents' \subseteq LostEvents \cup ({out[i] : i \in DOMAIN out} \cup {evt})
<1>1. ASSUME NEW e \in Evt, Gone(e)', ~ Gone(e) PROVE In(e, out) \/ evt = e
  <2>1. e \in stored' /\ counts[e] = 0 /\ e \notin ready'
    BY <1>1 DEF Gone, Restart
  <2>2. e \in stored /\ e \notin ready /\ (e \in unacked => e \in ackWire)
    BY <1>1, <2>1 DEF Restart
  <2> QED
    BY <1>1, <2>1, <2>2 DEF Gone, In, AckedHandedOn, HandedOn
<1> QED
  BY <1>1 DEF LostEvents, In

\* The members of a sequence are no more than its length.
LEMMA MembersBounded ==
  ASSUME NEW S, NEW s \in Seq(S)
  PROVE  LET T == {s[i] : i \in DOMAIN s}
         IN  IsFiniteSet(T) /\ Cardinality(T) \in Nat /\ Cardinality(T) <= Len(s)
<1> DEFINE T == {s[i] : i \in DOMAIN s}
<1>1. DOMAIN s = 1 .. Len(s) /\ Len(s) \in Nat
  OBVIOUS
<1>2. IsFiniteSet(1 .. Len(s)) /\ Cardinality(1 .. Len(s)) = Len(s)
  BY <1>1, FS_Interval
<1>3. s \in Surjection(1 .. Len(s), T)
  BY <1>1 DEF Surjection
<1>4. IsFiniteSet(T) /\ Cardinality(T) <= Len(s)
  BY <1>2, <1>3, FS_Surjection
<1>5. Cardinality(T) \in Nat
  BY <1>4, FS_CardinalityType
<1> QED
  BY <1>4, <1>5

\* Arithmetic: the bound of one more restart.
LEMMA Distributes ==
  ASSUME NEW a \in Nat, NEW n \in Nat
  PROVE  a * (n + 1) = a * n + a
OBVIOUS

\* The losses of all the restarts add up to the bound.
LEMMA LossKept ==
  ASSUME TypeInv, LossInv, Next
  PROVE  IsFiniteSet(LostEvents)' /\ LossBounded'
<1>1. IsFiniteSet(LostEvents) /\ Cardinality(LostEvents) <= (Size + 1) * procEnds
  BY DEF LossInv, LossBounded, LostEvents
<1>2. Size \in Nat /\ procEnds \in Nat /\ Cardinality(LostEvents) \in Nat
  BY <1>1, FS_CardinalityType, RabbitAssumption DEF TypeInv, TypeOK
<1>3. CASE Restart
  <2> DEFINE T == {out[i] : i \in DOMAIN out}
  <2>1. out \in Seq(Evt) /\ Len(out) <= Size /\ Len(out) \in Nat
    BY DEF TypeInv, TypeOK
  <2>2. IsFiniteSet(T) /\ Cardinality(T) \in Nat /\ Cardinality(T) <= Len(out)
    BY <2>1, MembersBounded
  <2>3. LostEvents' \subseteq LostEvents \cup (T \cup {evt})
    BY <1>3, RestartLoses DEF LossInv
  <2> HIDE DEF T
  <2>4. /\ IsFiniteSet(T \cup {evt}) /\ Cardinality(T \cup {evt}) \in Nat
        /\ Cardinality(T \cup {evt}) <= Size + 1
    <3>1. /\ IsFiniteSet(T \cup {evt})
          /\ Cardinality(T \cup {evt}) = IF evt \in T THEN Cardinality(T) ELSE Cardinality(T) + 1
      BY <2>2, FS_AddElement
    <3> QED
      BY <3>1, <2>1, <2>2, <1>2
  <2> DEFINE U == LostEvents \cup (T \cup {evt})
  <2>5. /\ IsFiniteSet(U) /\ Cardinality(U) \in Nat
        /\ Cardinality(U) <= Cardinality(LostEvents) + Size + 1
    <3>1. /\ IsFiniteSet(U)
          /\ Cardinality(U) = Cardinality(LostEvents) + Cardinality(T \cup {evt})
                                - Cardinality(LostEvents \cap (T \cup {evt}))
      BY <1>1, <2>4, FS_Union
    <3>2. Cardinality(LostEvents \cap (T \cup {evt})) \in Nat
      BY <1>1, FS_Intersection, FS_CardinalityType
    <3>3. Cardinality(U) \in Nat
      BY <3>1, FS_CardinalityType
    <3> QED
      BY <3>1, <3>2, <3>3, <2>4, <1>2
  <2>6. /\ IsFiniteSet(LostEvents') /\ Cardinality(LostEvents') \in Nat
        /\ Cardinality(LostEvents') <= Cardinality(U)
    BY <2>3, <2>5, FS_Subset, FS_CardinalityType
  <2>7. procEnds' = procEnds + 1
    BY <1>3 DEF Restart
  <2>8. (Size + 1) * (procEnds + 1) = (Size + 1) * procEnds + (Size + 1)
    BY <1>2, Distributes
  <2>9. (Size + 1) * procEnds \in Nat
    BY <1>2
  <2> HIDE DEF U
  <2>10. Cardinality(LostEvents') <= (Size + 1) * procEnds'
    <3> DEFINE x == (Size + 1) * procEnds
               y == (Size + 1) * (procEnds + 1)
    <3>1. x \in Nat /\ y = x + (Size + 1) /\ Cardinality(LostEvents) <= x
      BY <1>1, <2>8, <2>9
    <3> HIDE DEF x, y
    <3>2. Cardinality(LostEvents') <= y
      BY <1>2, <2>5, <2>6, <3>1
    <3> QED
      BY <3>2, <2>7 DEF y
  <2> QED
    BY <2>6, <2>10 DEF LossBounded, LostEvents
<1>4. CASE ~ Restart
  <2>1. LostEvents' \subseteq LostEvents
    BY <1>4, NothingGone DEF LostEvents, LossInv
  <2>2. /\ IsFiniteSet(LostEvents')
        /\ Cardinality(LostEvents') <= Cardinality(LostEvents) /\ Cardinality(LostEvents') \in Nat
    BY <1>1, <2>1, FS_Subset, FS_CardinalityType
  <2>3. procEnds' = procEnds
    BY <1>4 DEF Next, BrokerStep, ConsumeStep, ConsumerStep, CloseStep, BrokerStores, BrokerAcks,
         Deliver, TakeDelivery, Publish, StartConsume, RangeEnds, SendOut, SendOutPanics, Ack,
         Nack, Receive, StopConsumer, Increment, CloseOut, CloseConn, Signal, LinkFails, Crash, ends
  <2>4. (Size + 1) * procEnds \in Nat
    BY <1>2
  <2>5. Cardinality(LostEvents') <= (Size + 1) * procEnds
    BY <1>1, <1>2, <2>2, <2>4
  <2> QED
    BY <2>2, <2>3, <2>5 DEF LossBounded, LostEvents
<1> QED
  BY <1>3, <1>4

\* When the connection ends, the broker takes back what was not acknowledged.
LEMMA NothingUnackedUnlinked ==
  ASSUME ~ link => unacked = {}, Next
  PROVE  (~ link => unacked = {})'
<1> USE DEF broker, consumeG, consumer, shutdown, conn, amqp, app, ends
<1>1. ASSUME NEW m \in Evt \cup Junk,
             BrokerStores(m) \/ BrokerAcks(m) \/ Deliver(m) \/ TakeDelivery(m) \/ Publish(m)
      PROVE  (~ link => unacked = {})'
  BY <1>1 DEF BrokerStores, BrokerAcks, Deliver, TakeDelivery, Publish
<1>2. CASE \/ StartConsume \/ RangeEnds \/ SendOut \/ SendOutPanics \/ Ack \/ Nack
           \/ StopConsumer \/ Receive \/ Increment \/ CloseOut \/ Signal
  BY <1>2 DEF StartConsume, RangeEnds, SendOut, SendOutPanics, Ack, Nack, StopConsumer,
              Receive, Increment, CloseOut, Signal
<1>3. CASE CloseConn \/ LinkFails \/ Crash \/ Restart
  BY <1>3 DEF CloseConn, LinkFails, Crash, Restart, Disconnect
<1> QED
  BY <1>1, <1>2, <1>3 DEF Next, BrokerStep, ConsumeStep, ConsumerStep, CloseStep

\* Each end of the process loses at most Size + 1 events that had reached the
\* queue, and nothing else loses any.
THEOREM RestartLosesAtMostOut == Spec => []LossBounded
<1>1. Init => LossInv
  <2> SUFFICES ASSUME Init PROVE LossInv
    OBVIOUS
  <2>1. AckedHandedOn /\ (~ link => unacked = {}) /\ procEnds = 0
    BY DEF Init, AckedHandedOn
  <2>2. LostEvents = {}
    BY DEF Init, LostEvents, Gone
  <2>3. IsFiniteSet(LostEvents) /\ Cardinality(LostEvents) = 0
    BY <2>2, FS_EmptySet
  <2>4. (Size + 1) * 0 = 0
    BY RabbitAssumption
  <2> QED
    BY <2>1, <2>3, <2>4 DEF LossInv, LossBounded, LostEvents
<1>2. TypeInv /\ LossInv /\ [Next]_vars => LossInv'
  <2>1. ASSUME TypeInv, LossInv, Next PROVE LossInv'
    <3>1. AckedHandedOn'
      BY <2>1, AckedKept DEF LossInv
    <3>2. (~ link => unacked = {})'
      BY <2>1, NothingUnackedUnlinked DEF LossInv
    <3> QED
      BY <2>1, <3>1, <3>2, LossKept DEF LossInv
  <2>2. ASSUME LossInv, UNCHANGED vars PROVE LossInv'
    <3>1. LostEvents' = LostEvents /\ UNCHANGED <<link, unacked, procEnds>>
      BY <2>2 DEF LostEvents, Gone, vars, broker, consumeG, consumer, conn, amqp, app, ends
    <3>2. AckedHandedOn'
      BY <2>2 DEF LossInv, AckedHandedOn, HandedOn, vars, broker, consumeG, consumer, amqp, app
    <3> QED
      BY <2>2, <3>1, <3>2 DEF LossInv, LossBounded, LostEvents
  <2> QED
    BY <2>1, <2>2
<1>3. LossInv => LossBounded
  BY DEF LossInv
<1>4. Spec => []LossInv
  BY <1>1, <1>2, TypeInvariant, PTL DEF Spec
<1> QED
  BY <1>3, <1>4, PTL
=============================================================================
