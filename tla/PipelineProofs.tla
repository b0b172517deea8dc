--------------------------- MODULE PipelineProofs ---------------------------
(***************************************************************************)
(* Proofs about Pipeline: its types, that every published event is in      *)
(* exactly one place, and that the MemoryStore counts exactly, for any     *)
(* number of events, publishers and clients and any capacity of the queue. *)
(***************************************************************************)
EXTENDS Pipeline, FiniteSetTheorems, TLAPS

-----------------------------------------------------------------------------
(* The invariants *)

\* What the publishers, the consumer and Shutdown hold where they are.
Holding ==
  /\ \A p \in Publisher : pub[p].pc = "idle" <=> pub[p].evt = NoEvt
  /\ Len(evt) = IF cpc \in {"add", "increment"} THEN 1 ELSE 0
  /\ wg = IF cpc \in {"increment", "done"} THEN 1 ELSE 0
  /\ spc \in {"running", "stop", "wait", "closeMQ"} => tries = 0
  /\ spc = "closeStore" => tries < 3

TypeInv == TypeOK /\ Holding

In(e, s) == \E i \in DOMAIN s : s[i] = e
NoRepeat(s) == \A i, k \in DOMAIN s : i # k => s[i] # s[k]

\* The places of a published event, no two of which hold the same one.
Apart ==
  /\ NoRepeat(counted) /\ NoRepeat(queue)
  /\ \A e \in Evt :
       /\ In(e, counted) => e \notin failed /\ ~ In(e, evt) /\ ~ In(e, queue)
       /\ e \in failed => ~ In(e, evt) /\ ~ In(e, queue)
       /\ In(e, evt) => ~ In(e, queue)
       /\ In(e, counted) \/ e \in failed \/ In(e, evt) \/ In(e, queue) => In(e, published)

\* An event is published by one goroutine, and once.
PublishedOnce ==
  \A p \in Publisher :
    pub[p].pc # "idle" => /\ ~ In(pub[p].evt, published)
                          /\ \A q \in Publisher : q # p => pub[q].evt # pub[p].evt

\* None is missing.
Complete ==
  /\ IsFiniteSet(failed)
  /\ Len(counted) + Cardinality(failed) + Len(evt) + Len(queue) = Len(published)

PlaceInv == Apart /\ PublishedOnce /\ Complete

-----------------------------------------------------------------------------
(* Types *)

\* The consumer's event, where it has one.
LEMMA InHand ==
  ASSUME TypeInv, cpc \in {"add", "increment"}
  PROVE  evt[1] \in Evt /\ evt = <<evt[1]>> /\ DOMAIN evt = {1}
<1>1. evt \in Seq(Evt) /\ Len(evt) = 1
  BY DEF TypeInv, TypeOK, Holding
<1> QED
  BY <1>1

\* Increment puts the event among the counted or the failed ones.
LEMMA IncrementDoes ==
  ASSUME TypeInv, Increment
  PROVE  /\ cpc = "increment" /\ cpc' = "done" /\ evt' = <<>>
         /\ evt[1] \in Evt /\ evt = <<evt[1]>> /\ DOMAIN evt = {1}
         /\ UNCHANGED <<mq, wg, store, shutdown>>
         /\ \/ /\ counted' = Append(counted, evt[1]) /\ counted' \in Seq(Evt)
               /\ Count(evt[1]) /\ UNCHANGED failed
            \/ /\ store = "pg" /\ failed' = failed \cup {evt[1]} /\ UNCHANGED <<counted, rows>>
<1>1. cpc = "increment" /\ cpc' = "done" /\ evt' = <<>> /\ UNCHANGED <<mq, wg, store, shutdown>>
  BY DEF Increment
<1>2. evt[1] \in Evt /\ evt = <<evt[1]>> /\ DOMAIN evt = {1}
  BY <1>1, InHand
<1>3. counted \in Seq(Evt) /\ counted \o <<evt[1]>> = Append(counted, evt[1])
  BY <1>2 DEF TypeInv, TypeOK
<1>4. Append(counted, evt[1]) \in Seq(Evt)
  BY <1>2, <1>3
<1>5. \/ counted' = counted \o evt /\ Count(evt[1]) /\ UNCHANGED failed
      \/ store = "pg" /\ failed' = failed \cup {evt[1]} /\ UNCHANGED <<counted, rows>>
  BY DEF Increment
<1>6. counted \o evt = Append(counted, evt[1])
  BY <1>2, <1>3
<1> QED
  BY <1>1, <1>2, <1>4, <1>5, <1>6

\* Either store keeps a number in every row.
LEMMA CountTypes ==
  ASSUME NEW e, rows \in [Row -> Nat], Count(e)
  PROVE  rows' \in [Row -> Nat]
<1> DEFINE n == IF store = "pg" THEN PGIncrement(rows[RowOf(e)])
                               ELSE MemoryIncrement(rows[RowOf(e)])
<1>1. RowOf(e) \in Row
  BY DEF RowOf, Row
<1>2. n \in Nat
  BY <1>1 DEF PGIncrement, MemoryIncrement
<1>3. rows' = [rows EXCEPT ![RowOf(e)] = n]
  BY <1>1 DEF Count
<1> QED
  BY <1>1, <1>2, <1>3

\* Every step keeps the types.
LEMMA TypeSteps ==
  ASSUME TypeInv, Next
  PROVE  TypeInv'
<1> USE DEF mq, consumer, shutdown, TypeInv, TypeOK, Holding, SubmitPc, ShutdownPc
<1>1. ASSUME NEW p \in Publisher, NEW e \in Fresh, Publish(p, e) PROVE TypeInv'
  BY <1>1, PipelineAssumption DEF Publish, Fresh, Quiet, PubState
<1>2. ASSUME NEW p \in Publisher, Send(p) PROVE TypeInv'
  BY <1>2, PipelineAssumption DEF Send, Quiet, PubState
<1>3. ASSUME NEW p \in Publisher, SendPanics(p) PROVE TypeInv'
  BY <1>3, PipelineAssumption DEF SendPanics, PubState
<1>4. CASE Receive
  BY <1>4, PipelineAssumption DEF Receive
<1>5. CASE StopConsumer
  BY <1>5, PipelineAssumption DEF StopConsumer
<1>6. CASE WgAdd
  BY <1>6, PipelineAssumption DEF WgAdd
<1>7. CASE Increment
  <2>1. rows' \in [Row -> Nat]
    <3>1. rows' = rows \/ Count(evt[1])
      BY <1>7, IncrementDoes
    <3> QED
      BY <3>1, CountTypes
  <2>2. counted' \in Seq(Evt) /\ failed' \subseteq Evt
    BY <1>7, IncrementDoes
  <2>3. cpc = "increment" /\ cpc' = "done" /\ evt' \in Seq(Evt) /\ Len(evt') = 0
    <3>1. evt' = <<>> /\ cpc = "increment" /\ cpc' = "done"
      BY <1>7, IncrementDoes
    <3>2. <<>> \in Seq(Evt) /\ Len(<<>>) = 0
      OBVIOUS
    <3> QED
      BY <3>1, <3>2
  <2>4. UNCHANGED <<mq, wg, store, shutdown>>
    BY <1>7, IncrementDoes
  <2> QED
    BY <2>1, <2>2, <2>3, <2>4
<1>8. CASE WgDone
  BY <1>8, PipelineAssumption DEF WgDone
<1>9. CASE Signal
  BY <1>9, PipelineAssumption DEF Signal
<1>10. CASE StopConsume
  BY <1>10, PipelineAssumption DEF StopConsume
<1>11. CASE WaitDone
  BY <1>11, PipelineAssumption DEF WaitDone
<1>12. CASE CloseQueue
  BY <1>12, PipelineAssumption DEF CloseQueue
<1>13. CASE CloseStore
  <2>1. UNCHANGED <<mq, consumer, stopped, ctx, open>> /\ spc = "closeStore"
    BY <1>13 DEF CloseStore
  <2>2. spc' \in {"closeStore", "closeSrv"} /\ tries' \in 0 .. 3 /\ (spc' = "closeStore" => tries' < 3)
    BY <1>13 DEF CloseStore
  <2>3. {stopped, ctx, storeOpen}' \subseteq BOOLEAN
    BY <1>13 DEF CloseStore
  <2> QED
    BY <2>1, <2>2, <2>3
<1>14. ASSUME NEW c \in Client, CloseClient(c) PROVE TypeInv'
  BY <1>14, PipelineAssumption DEF CloseClient
<1>15. CASE AllClosed
  BY <1>15, PipelineAssumption DEF AllClosed
<1> QED
  BY <1>1, <1>2, <1>3, <1>4, <1>5, <1>6, <1>7, <1>8, <1>9, <1>10, <1>11, <1>12, <1>13, <1>14, <1>15
     DEF Next, PublishStep, ConsumerStep, ShutdownStep

\* Types, and who holds an event where, are invariant.
LEMMA TypeInvariant == Spec => []TypeInv
<1>1. Init => TypeInv
  <2> SUFFICES ASSUME Init PROVE TypeInv
    OBVIOUS
  <2>1. Holding
    BY DEF Init, Holding, Quiet
  <2>2. pub \in [Publisher -> PubState]
    BY DEF Init, Quiet, PubState
  <2>3. {stopped, ctx, storeOpen} \subseteq BOOLEAN
    BY DEF Init
  <2>4. /\ queue \in Seq(Evt) /\ Len(queue) <= Size /\ published \in Seq(Evt)
        /\ evt \in Seq(Evt) /\ counted \in Seq(Evt) /\ failed \subseteq Evt
        /\ rows \in [Row -> Nat]
    BY PipelineAssumption DEF Init
  <2>5. /\ closed = "no" /\ cpc = "select" /\ wg = 0 /\ spc = "running" /\ tries = 0
        /\ open \in SUBSET Client /\ store \in Stores
    BY DEF Init
  <2> QED
    BY <2>1, <2>2, <2>3, <2>4, <2>5 DEF TypeInv, TypeOK, SubmitPc, ShutdownPc
<1>2. TypeInv /\ UNCHANGED vars => TypeInv'
  BY DEF TypeInv, TypeOK, Holding, vars, mq, consumer, shutdown
<1> QED
  BY <1>1, <1>2, TypeSteps, PTL DEF Spec

\* The queue never holds more than its capacity, the WaitGroup never counts more
\* than one event, retry makes at most three attempts, and all types are kept.
THEOREM PipelineTypes == Spec => []TypeOK
<1>1. TypeInv => TypeOK
  BY DEF TypeInv
<1> QED
  BY <1>1, TypeInvariant, PTL

-----------------------------------------------------------------------------
(* Every event in one place *)

\* A sequence without repetition stays so when a new element is added.
LEMMA InAppend ==
  ASSUME NEW S, NEW s \in Seq(S), NEW o \in S
  PROVE  /\ Append(s, o) \in Seq(S) /\ Len(Append(s, o)) = Len(s) + 1
         /\ \A x : In(x, Append(s, o)) <=> In(x, s) \/ x = o
         /\ NoRepeat(s) /\ ~ In(o, s) => NoRepeat(Append(s, o))
<1>1. /\ DOMAIN s = 1 .. Len(s) /\ DOMAIN Append(s, o) = 1 .. Len(s) + 1
      /\ \A i \in 1 .. Len(s) : Append(s, o)[i] = s[i]
      /\ Append(s, o)[Len(s) + 1] = o /\ Len(s) \in Nat
  OBVIOUS
<1>2. \A x : In(x, Append(s, o)) <=> In(x, s) \/ x = o
  BY <1>1 DEF In
<1>3. NoRepeat(s) /\ ~ In(o, s) => NoRepeat(Append(s, o))
  BY <1>1 DEF In, NoRepeat
<1> QED
  BY <1>2, <1>3

\* It stays so when its head is taken, which is then no longer in it.
LEMMA InTail ==
  ASSUME NEW S, NEW s \in Seq(S), s # <<>>
  PROVE  /\ Head(s) \in S /\ Len(Tail(s)) = Len(s) - 1 /\ Len(s) \in Nat
         /\ \A x : In(x, s) <=> x = Head(s) \/ In(x, Tail(s))
         /\ NoRepeat(s) => NoRepeat(Tail(s)) /\ ~ In(Head(s), Tail(s))
<1>1. /\ Len(s) \in Nat \ {0} /\ DOMAIN s = 1 .. Len(s) /\ Head(s) = s[1] /\ Head(s) \in S
      /\ Len(Tail(s)) = Len(s) - 1 /\ DOMAIN Tail(s) = 1 .. Len(s) - 1
      /\ \A i \in 1 .. Len(s) - 1 : Tail(s)[i] = s[i + 1]
  OBVIOUS
<1>2. ASSUME NEW x, In(x, s) PROVE x = Head(s) \/ In(x, Tail(s))
  <2>1. PICK i \in 1 .. Len(s) : s[i] = x
    BY <1>1, <1>2 DEF In
  <2>2. i = 1 \/ (i - 1 \in 1 .. Len(s) - 1 /\ Tail(s)[i - 1] = x)
    BY <1>1, <2>1
  <2> QED
    BY <1>1, <2>1, <2>2 DEF In
<1>3. ASSUME NEW x, In(x, Tail(s)) \/ x = Head(s) PROVE In(x, s)
  BY <1>1, <1>3 DEF In
<1>4. NoRepeat(s) => NoRepeat(Tail(s)) /\ ~ In(Head(s), Tail(s))
  BY <1>1 DEF In, NoRepeat
<1> QED
  BY <1>1, <1>2, <1>3, <1>4

\* Elements of the empty and of one-element sequences.
LEMMA InShort ==
  /\ NoRepeat(<<>>) /\ \A x : ~ In(x, <<>>)
  /\ \A x, y : In(x, <<y>>) <=> x = y
BY DEF In, NoRepeat

\* An event goes from a publisher to the queue, to the consumer's hand, and there
\* to the counted or the failed ones; no step repeats or drops one.
LEMMA ApartKept ==
  ASSUME TypeInv, Apart, PublishedOnce, Next
  PROVE  Apart'
<1> USE DEF mq, consumer, shutdown
<1>1. ASSUME NEW p \in Publisher, Send(p) PROVE Apart'
  <2> DEFINE x == pub[p].evt
  <2>1. x \in Evt /\ ~ In(x, published) /\ queue \in Seq(Evt) /\ published \in Seq(Evt)
    BY <1>1 DEF Send, TypeInv, TypeOK, Holding, PubState, PublishedOnce
  <2>2. /\ queue' = Append(queue, x) /\ published' = Append(published, x)
        /\ UNCHANGED <<counted, failed, evt>>
    BY <1>1 DEF Send
  <2> HIDE DEF x
  <2>3. ~ In(x, queue)
    BY <2>1 DEF Apart
  <2>4. /\ NoRepeat(queue') /\ \A e : In(e, queue') <=> In(e, queue) \/ e = x
        /\ \A e : In(e, published') <=> In(e, published) \/ e = x
    BY <2>1, <2>2, <2>3, InAppend DEF Apart
  <2> QED
    BY <2>1, <2>2, <2>4 DEF Apart
<1>2. CASE Receive
  <2>1. queue \in Seq(Evt) /\ queue # <<>> /\ cpc = "select" /\ evt' = <<Head(queue)>> /\ queue' = Tail(queue)
    BY <1>2 DEF Receive, TypeInv, TypeOK
  <2>2. /\ NoRepeat(queue') /\ ~ In(Head(queue), queue')
        /\ \A e : In(e, queue) <=> e = Head(queue) \/ In(e, queue')
    BY <2>1, InTail DEF Apart
  <2>3. \A e : In(e, evt') <=> e = Head(queue)
    BY <2>1, InShort
  <2>4. UNCHANGED <<counted, failed, published>>
    BY <1>2 DEF Receive
  <2> QED
    BY <2>2, <2>3, <2>4 DEF Apart
<1>3. CASE Increment
  <2> DEFINE x == evt[1]
  <2>1. /\ x \in Evt /\ evt = <<x>> /\ evt' = <<>> /\ UNCHANGED <<queue, published>>
        /\ \/ counted' = Append(counted, x) /\ UNCHANGED failed
           \/ failed' = failed \cup {x} /\ UNCHANGED counted
    BY <1>3, IncrementDoes
  <2>2. counted \in Seq(Evt)
    BY DEF TypeInv, TypeOK
  <2> HIDE DEF x
  <2>3. In(x, evt) /\ \A e : ~ In(e, evt')
    BY <2>1, InShort
  <2>4. x \notin failed /\ ~ In(x, counted) /\ ~ In(x, queue) /\ In(x, published)
    BY <2>1, <2>3 DEF Apart
  <2>5. /\ NoRepeat(Append(counted, x))
        /\ \A e : In(e, Append(counted, x)) <=> In(e, counted) \/ e = x
    BY <2>1, <2>2, <2>4, InAppend DEF Apart
  <2>6. CASE counted' = Append(counted, x) /\ UNCHANGED failed
    BY <2>1, <2>3, <2>4, <2>5, <2>6 DEF Apart
  <2>7. CASE failed' = failed \cup {x} /\ UNCHANGED counted
    BY <2>1, <2>3, <2>4, <2>7 DEF Apart
  <2> QED
    BY <2>1, <2>6, <2>7
<1>4. CASE UNCHANGED <<counted, failed, evt, queue, published>>
  BY <1>4 DEF Apart
<1>5. ASSUME NEW p \in Publisher, SendPanics(p) \/ \E e \in Fresh : Publish(p, e) PROVE Apart'
  BY <1>4, <1>5 DEF SendPanics, Publish
<1>6. CASE StopConsumer \/ WgAdd \/ WgDone
  BY <1>4, <1>6 DEF StopConsumer, WgAdd, WgDone
<1>7. CASE Signal \/ ShutdownStep
  BY <1>4, <1>7 DEF Signal, ShutdownStep, StopConsume, WaitDone, CloseQueue, CloseStore, AllClosed,
                    CloseClient
<1> QED
  BY <1>1, <1>2, <1>3, <1>5, <1>6, <1>7 DEF Next, PublishStep, ConsumerStep

\* Publishers go on holding distinct events that were not published.
LEMMA PublishedOnceKept ==
  ASSUME TypeInv, PublishedOnce, Next
  PROVE  PublishedOnce'
<1> USE DEF mq, consumer, shutdown
<1>1. ASSUME NEW p \in Publisher, NEW e \in Fresh, Publish(p, e) PROVE PublishedOnce'
  <2>1. /\ e \in Evt /\ ~ In(e, published) /\ e # NoEvt
        /\ \A q \in Publisher : pub[q].evt # e
    BY PipelineAssumption DEF Fresh, In
  <2>2. /\ pub'[p] = [pc |-> "send", evt |-> e] /\ \A q \in Publisher : q # p => pub'[q] = pub[q]
        /\ UNCHANGED published
    BY <1>1 DEF Publish, TypeInv, TypeOK
  <2> QED
    BY <2>1, <2>2 DEF PublishedOnce
<1>2. ASSUME NEW p \in Publisher, Send(p) PROVE PublishedOnce'
  <2> DEFINE x == pub[p].evt
  <2>1. x \in Evt /\ published \in Seq(Evt) /\ pub[p].pc = "send"
    BY <1>2 DEF Send, TypeInv, TypeOK, Holding, PubState
  <2>2. /\ pub'[p] = Quiet /\ \A q \in Publisher : q # p => pub'[q] = pub[q]
        /\ published' = Append(published, x)
    BY <1>2 DEF Send, TypeInv, TypeOK
  <2>3. \A q \in Publisher : q # p => pub[q].evt # x
    BY <2>1 DEF PublishedOnce
  <2> HIDE DEF x
  <2>4. \A e : In(e, published') <=> In(e, published) \/ e = x
    BY <2>1, <2>2, InAppend
  <2>5. \A q \in Publisher : pub[q].pc # "idle" => pub[q].evt # NoEvt
    BY DEF TypeInv, Holding
  <2> QED
    BY <2>2, <2>3, <2>4, <2>5 DEF PublishedOnce, Quiet
<1>3. ASSUME NEW p \in Publisher, SendPanics(p) PROVE PublishedOnce'
  <2>1. /\ pub[p].pc = "send" /\ pub'[p].evt = pub[p].evt /\ UNCHANGED published
        /\ \A q \in Publisher : q # p => pub'[q] = pub[q]
    BY <1>3 DEF SendPanics, TypeInv, TypeOK, PubState
  <2> QED
    BY <2>1 DEF PublishedOnce
<1>4. CASE UNCHANGED <<pub, published>>
  BY <1>4 DEF PublishedOnce
<1>5. CASE ConsumerStep
  BY <1>4, <1>5 DEF ConsumerStep, Receive, StopConsumer, WgAdd, Increment, WgDone
<1>6. CASE Signal \/ ShutdownStep
  BY <1>4, <1>6 DEF Signal, ShutdownStep, StopConsume, WaitDone, CloseQueue, CloseStore, AllClosed,
                    CloseClient
<1> QED
  BY <1>1, <1>2, <1>3, <1>5, <1>6 DEF Next, PublishStep

\* The numbers of events in the four places go on adding up.
LEMMA CompleteKept ==
  ASSUME TypeInv, Apart, Complete, Next
  PROVE  Complete'
<1> USE DEF mq, consumer, shutdown
<1>0. /\ IsFiniteSet(failed) /\ Cardinality(failed) \in Nat
      /\ Len(counted) \in Nat /\ Len(evt) \in Nat /\ Len(queue) \in Nat /\ Len(published) \in Nat
      /\ Len(counted) + Cardinality(failed) + Len(evt) + Len(queue) = Len(published)
  BY FS_CardinalityType DEF Complete, TypeInv, TypeOK
<1>1. ASSUME NEW p \in Publisher, Send(p) PROVE Complete'
  <2>1. pub[p].evt \in Evt /\ queue \in Seq(Evt) /\ published \in Seq(Evt)
    BY <1>1 DEF Send, TypeInv, TypeOK, Holding, PubState
  <2>2. Len(queue') = Len(queue) + 1 /\ Len(published') = Len(published) + 1
    BY <1>1, <2>1, InAppend DEF Send
  <2>3. UNCHANGED <<counted, failed, evt>>
    BY <1>1 DEF Send
  <2> QED
    BY <1>0, <2>2, <2>3 DEF Complete
<1>2. CASE Receive
  <2>1. queue \in Seq(Evt) /\ queue # <<>> /\ cpc = "select" /\ Len(evt) = 0
    BY <1>2 DEF Receive, TypeInv, TypeOK, Holding
  <2>2. Len(evt') = 1 /\ Len(queue') = Len(queue) - 1
    BY <1>2, <2>1, InTail DEF Receive
  <2>3. UNCHANGED <<counted, failed, published>>
    BY <1>2 DEF Receive
  <2> QED
    BY <1>0, <2>1, <2>2, <2>3 DEF Complete
<1>3. CASE Increment
  <2> DEFINE x == evt[1]
  <2>1. /\ x \in Evt /\ evt = <<x>> /\ evt' = <<>> /\ UNCHANGED <<queue, published>>
        /\ \/ counted' = Append(counted, x) /\ UNCHANGED failed
           \/ failed' = failed \cup {x} /\ UNCHANGED counted
    BY <1>3, IncrementDoes
  <2>2. counted \in Seq(Evt)
    BY DEF TypeInv, TypeOK
  <2> HIDE DEF x
  <2>3. Len(evt) = 1 /\ Len(evt') = 0 /\ Len(Append(counted, x)) = Len(counted) + 1
    BY <2>1, <2>2, InAppend
  <2>4. x \notin failed
    BY <2>1, InShort DEF Apart
  <2>5. IsFiniteSet(failed \cup {x}) /\ Cardinality(failed \cup {x}) = Cardinality(failed) + 1
    BY <1>0, <2>4, FS_AddElement
  <2>6. CASE counted' = Append(counted, x) /\ UNCHANGED failed
    BY <1>0, <2>1, <2>3, <2>6 DEF Complete
  <2>7. CASE failed' = failed \cup {x} /\ UNCHANGED counted
    BY <1>0, <2>1, <2>3, <2>5, <2>7 DEF Complete
  <2> QED
    BY <2>1, <2>6, <2>7
<1>4. CASE UNCHANGED <<counted, failed, evt, queue, published>>
  BY <1>4 DEF Complete
<1>5. ASSUME NEW p \in Publisher, SendPanics(p) \/ \E e \in Fresh : Publish(p, e) PROVE Complete'
  BY <1>4, <1>5 DEF SendPanics, Publish
<1>6. CASE StopConsumer \/ WgAdd \/ WgDone
  BY <1>4, <1>6 DEF StopConsumer, WgAdd, WgDone
<1>7. CASE Signal \/ ShutdownStep
  BY <1>4, <1>7 DEF Signal, ShutdownStep, StopConsume, WaitDone, CloseQueue, CloseStore, AllClosed,
                    CloseClient
<1> QED
  BY <1>1, <1>2, <1>3, <1>5, <1>6, <1>7 DEF Next, PublishStep, ConsumerStep

\* Every published event is counted once, failed, in the consumer's hand or queued:
\* none is dropped or counted twice, during and after Shutdown too.
THEOREM EventsInOnePlace == Spec => []EachEventOnce
<1>1. Init => PlaceInv
  <2> SUFFICES ASSUME Init PROVE PlaceInv
    OBVIOUS
  <2>1. /\ counted = <<>> /\ failed = {} /\ evt = <<>> /\ queue = <<>> /\ published = <<>>
        /\ \A p \in Publisher : pub[p].pc = "idle"
    BY DEF Init, Quiet
  <2>2. Apart /\ PublishedOnce
    BY <2>1, InShort DEF Apart, PublishedOnce
  <2>3. Complete
    BY <2>1, FS_EmptySet DEF Complete
  <2> QED
    BY <2>2, <2>3 DEF PlaceInv
<1>2. TypeInv /\ PlaceInv /\ [Next]_vars => PlaceInv'
  <2>1. ASSUME TypeInv, PlaceInv, Next PROVE PlaceInv'
    BY <2>1, ApartKept, PublishedOnceKept, CompleteKept DEF PlaceInv
  <2>2. ASSUME PlaceInv, UNCHANGED vars PROVE PlaceInv'
    BY <2>2 DEF PlaceInv, Apart, PublishedOnce, Complete, vars, mq, consumer
  <2> QED
    BY <2>1, <2>2
<1>3. TypeInv /\ PlaceInv => EachEventOnce
  BY DEF PlaceInv, Apart, Complete, EachEventOnce, In, NoRepeat, TypeInv, TypeOK
<1>4. Spec => []PlaceInv
  BY <1>1, <1>2, TypeInvariant, PTL DEF Spec
<1> QED
  BY <1>3, <1>4, TypeInvariant, PTL

-----------------------------------------------------------------------------
(* Counting *)

\* A step adds to the counter of the event's row and to no other.
LEMMA RowGrows ==
  ASSUME NEW s \in Seq(Evt), NEW x \in Evt, NEW m \in Row
  PROVE  LET S == {i \in DOMAIN s : RowOf(s[i]) = m}
             t == Append(s, x)
             T == {i \in DOMAIN t : RowOf(t[i]) = m}
         IN  Cardinality(T) = Cardinality(S) + (IF RowOf(x) = m THEN 1 ELSE 0)
<1> DEFINE S == {i \in DOMAIN s : RowOf(s[i]) = m}
           t == Append(s, x)
           T == {i \in DOMAIN t : RowOf(t[i]) = m}
<1>1. /\ DOMAIN s = 1 .. Len(s) /\ DOMAIN t = 1 .. Len(s) + 1 /\ Len(s) \in Nat
      /\ \A i \in 1 .. Len(s) : t[i] = s[i]
      /\ t[Len(s) + 1] = x
  OBVIOUS
<1>2. T = IF RowOf(x) = m THEN S \cup {Len(s) + 1} ELSE S
  BY <1>1
<1>3. IsFiniteSet(S) /\ Cardinality(S) \in Nat
  <2>1. IsFiniteSet(1 .. Len(s)) /\ S \in SUBSET (1 .. Len(s))
    BY <1>1, FS_Interval
  <2>2. IsFiniteSet(S)
    BY <2>1, FS_Subset
  <2> QED
    BY <2>2, FS_CardinalityType
<1>4. Len(s) + 1 \notin S
  BY <1>1
<1>5. Cardinality(S \cup {Len(s) + 1}) = Cardinality(S) + 1
  BY <1>3, <1>4, FS_AddElement
<1>6. Cardinality(T) = Cardinality(S) + (IF RowOf(x) = m THEN 1 ELSE 0)
  <2> HIDE DEF S, T
  <2> QED
    BY <1>2, <1>3, <1>5
<1> QED
  BY <1>6

\* MemoryStore.Increment is exact: at any time Get reports for each minute the
\* number of its events that were counted.
THEOREM MemoryStoreExact == Spec => []MemoryCountsExact
<1>1. Init => MemoryCountsExact
  <2> SUFFICES ASSUME Init, NEW m \in Row
               PROVE  rows[m] = Cardinality({i \in DOMAIN counted : RowOf(counted[i]) = m})
    BY DEF MemoryCountsExact, CountsExact
  <2>1. {i \in DOMAIN counted : RowOf(counted[i]) = m} = {} /\ rows[m] = 0
    BY DEF Init
  <2> QED
    BY <2>1, FS_EmptySet
<1>2. ASSUME TypeInv, MemoryCountsExact, Increment PROVE MemoryCountsExact'
  <2> SUFFICES ASSUME store = "memory", NEW m \in Row
               PROVE  rows'[m] = Cardinality({i \in DOMAIN counted' : RowOf(counted'[i]) = m})
    BY <1>2, IncrementDoes DEF MemoryCountsExact, CountsExact
  <2> DEFINE x == evt[1]
  <2>1. x \in Evt /\ counted' = Append(counted, x) /\ Count(x)
    BY <1>2, IncrementDoes
  <2>2. rows \in [Row -> Nat] /\ counted \in Seq(Evt)
    BY <1>2 DEF TypeInv, TypeOK
  <2> HIDE DEF x
  <2>3. rows'[m] = rows[m] + (IF RowOf(x) = m THEN 1 ELSE 0)
    BY <2>1, <2>2 DEF Count, MemoryIncrement
  <2>4. rows[m] = Cardinality({i \in DOMAIN counted : RowOf(counted[i]) = m})
    BY <1>2 DEF MemoryCountsExact, CountsExact
  <2> QED
    BY <2>1, <2>2, <2>3, <2>4, RowGrows
<1>3. ASSUME MemoryCountsExact, UNCHANGED <<store, rows, counted>> PROVE MemoryCountsExact'
  BY <1>3 DEF MemoryCountsExact, CountsExact
<1>4. Next => Increment \/ UNCHANGED <<store, rows, counted>>
  BY DEF Next, PublishStep, Publish, Send, SendPanics, ConsumerStep, Receive, StopConsumer, WgAdd,
         WgDone, Signal, ShutdownStep, StopConsume, WaitDone, CloseQueue, CloseStore, AllClosed,
         CloseClient, consumer
<1>5. UNCHANGED vars => UNCHANGED <<store, rows, counted>>
  BY DEF vars, consumer
<1>6. TypeInv /\ MemoryCountsExact /\ [Next]_vars => MemoryCountsExact'
  BY <1>2, <1>3, <1>4, <1>5
<1> QED
  BY <1>1, <1>6, TypeInvariant, PTL DEF Spec
=============================================================================
