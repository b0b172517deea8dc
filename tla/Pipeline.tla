------------------------------ MODULE Pipeline ------------------------------
(***************************************************************************)
(* From an accepted submission to the statistics, and the shutdown of all  *)
(* of it: MemoryQueue (mq/memory.go), the consumer goroutine and Shutdown  *)
(* of AppServer (app/server/server.go), the counters of the two StatsStore *)
(* implementations (stats/memory.go, stats/pg.go), and the end of main     *)
(* (cmd/kupool-server/main.go), which cancels rootCtx and then calls       *)
(* Shutdown with it.                                                       *)
(*                                                                         *)
(* Publishers are handleSubmit goroutines; nothing stops them before the   *)
(* queue is closed.  A send on the closed queue panics and ends the        *)
(* process.  The timeouts of Shutdown are steps that may be taken once     *)
(* Shutdown waits.                                                         *)
(***************************************************************************)
EXTENDS Naturals, Sequences, FiniteSets

CONSTANTS
  Evt,          \* submission events, each published at most once
  Late,         \* the events that fall into another minute than the rest
  Stores,       \* the StatsStore implementations main may choose
  Publisher,    \* goroutines in handleSubmit
  Size,         \* capacity of the queue (1024 in main)
  Client,       \* channels that may be in the server's ChannelMap
  StoreErrors,  \* may Increment and Close of the PGStore fail?
  SlowStore     \* may Increment take longer than the 10 s Shutdown waits?

NoEvt == "none"

ASSUME PipelineAssumption ==
  /\ Size \in Nat \ {0} /\ NoEvt \notin Evt /\ Late \subseteq Evt
  /\ Stores \subseteq {"memory", "pg"}
  /\ {StoreErrors, SlowStore} \subseteq BOOLEAN

VARIABLES
  queue, closed,   \* the Go channel; "no", "chan" (closed), "flag" (q.closed)
  pub,             \* each publisher: position in Publish and its event
  published,       \* events sent on the queue, in order
  cpc, evt,        \* the consumer: position and the event it received
  wg,              \* mqWG's counter
  counted, failed, \* events incremented in the store; events that failed
  spc, tries,      \* Shutdown: position, store.Close attempts
  stopped, ctx,    \* stopConsume closed; rootCtx cancelled
  storeOpen, open, \* the store; the clients' channels not closed
  store, rows      \* which StatsStore it is, and its counters

mq       == <<queue, closed, pub, published>>
consumer == <<cpc, evt, wg, counted, failed, store, rows>>
shutdown == <<spc, tries, stopped, ctx, storeOpen, open>>
vars     == <<mq, consumer, shutdown>>

Quiet == [pc |-> "idle", evt |-> NoEvt]
PubState == [pc : {"idle", "send", "panic"}, evt : Evt \cup {NoEvt}]

\* The row of an event's user and truncated minute.
Row == {"early", "late"}
RowOf(e) == IF e \in Late THEN "late" ELSE "early"

Init ==
  /\ queue = <<>> /\ closed = "no" /\ published = <<>>
  /\ pub = [p \in Publisher |-> Quiet]
  /\ cpc = "select" /\ evt = <<>> /\ wg = 0 /\ counted = <<>> /\ failed = {}
  /\ spc = "running" /\ tries = 0 /\ stopped = FALSE /\ ctx = FALSE
  /\ storeOpen = TRUE /\ open \in SUBSET Client
  /\ store \in Stores /\ rows = [m \in Row |-> 0]

-----------------------------------------------------------------------------
(* MemoryQueue.Publish *)

Fresh == Evt \ ({published[i] : i \in DOMAIN published}
                  \cup {pub[p].evt : p \in Publisher})

\* if q.closed { return nil }: otherwise go on to the send.
Publish(p, e) ==
  /\ pub[p].pc = "idle" /\ closed # "flag"
  /\ pub' = [pub EXCEPT ![p] = [pc |-> "send", evt |-> e]]
  /\ UNCHANGED <<queue, closed, published, consumer, shutdown>>

Send(p) ==
  /\ pub[p].pc = "send" /\ closed = "no" /\ Len(queue) < Size
  /\ queue' = Append(queue, pub[p].evt)
  /\ published' = Append(published, pub[p].evt)
  /\ pub' = [pub EXCEPT ![p] = Quiet]
  /\ UNCHANGED <<closed, consumer, shutdown>>

SendPanics(p) ==
  /\ pub[p].pc = "send" /\ closed # "no"
  /\ pub' = [pub EXCEPT ![p].pc = "panic"]
  /\ UNCHANGED <<queue, closed, published, consumer, shutdown>>

Panicked == \E p \in Publisher : pub[p].pc = "panic"

-----------------------------------------------------------------------------
(* The consumer goroutine of AppServer.Start *)

Receive ==
  /\ cpc = "select" /\ queue # <<>> /\ cpc' = "add"
  /\ evt' = <<Head(queue)>> /\ queue' = Tail(queue)
  /\ UNCHANGED <<closed, pub, published, wg, counted, failed, store, rows, shutdown>>

\* ctx.Done, stopConsume, or the closed and drained queue.
StopConsumer ==
  /\ cpc = "select" /\ cpc' = "returned"
  /\ ctx \/ stopped \/ (queue = <<>> /\ closed # "no")
  /\ UNCHANGED <<mq, evt, wg, counted, failed, store, rows, shutdown>>

WgAdd ==
  /\ cpc = "add" /\ cpc' = "increment" /\ wg' = wg + 1
  /\ UNCHANGED <<mq, evt, counted, failed, store, rows, shutdown>>

\* Mutant of MemoryIncrement: the count does not build on the stored one.
MemoryIncrementLost(n) == 1

\* MemoryStore.Increment: u[m] = u[m] + 1.
MemoryIncrement(n) == n + 1

\* PGStore.Increment: INSERT with count 1; ON CONFLICT sets the count to
\* excluded.submission_count + 1, and excluded is the row not inserted.
PGIncrement(n) == IF n = 0 THEN 1 ELSE 1 + 1

Count(e) ==
  rows' = [rows EXCEPT ![RowOf(e)] =
             IF store = "pg" THEN PGIncrement(@) ELSE MemoryIncrement(@)]

\* Mutant of Increment: the event is handed to the store twice.
IncrementTwice ==
  /\ cpc = "increment" /\ cpc' = "done"
  /\ counted' = counted \o evt \o evt /\ UNCHANGED <<failed, rows>>
  /\ evt' = <<>>
  /\ UNCHANGED <<mq, wg, store, shutdown>>

\* store.Increment; an error is logged and counted, the event is not retried.
\* A closed database refuses, a closed MemoryStore goes on counting.
Increment ==
  /\ cpc = "increment" /\ cpc' = "done"
  /\ \/ /\ storeOpen \/ store = "memory"
        /\ counted' = counted \o evt /\ Count(evt[1]) /\ UNCHANGED failed
     \/ /\ store = "pg" /\ (~ storeOpen \/ StoreErrors)
        /\ failed' = failed \cup {evt[1]} /\ UNCHANGED <<counted, rows>>
  /\ evt' = <<>>
  /\ UNCHANGED <<mq, wg, store, shutdown>>

\* Mutant of WgDone: the consumer returns after one event.
DoneAndReturn ==
  /\ cpc = "done" /\ cpc' = "returned" /\ wg' = wg - 1
  /\ UNCHANGED <<mq, evt, counted, failed, store, rows, shutdown>>

WgDone ==
  /\ cpc = "done" /\ cpc' = "select" /\ wg' = wg - 1
  /\ UNCHANGED <<mq, evt, counted, failed, store, rows, shutdown>>

-----------------------------------------------------------------------------
(* main after the signal, and AppServer.Shutdown *)

\* rootCancel(), then Shutdown(rootCtx).
Signal ==
  /\ spc = "running" /\ spc' = "stop" /\ ctx' = TRUE
  /\ UNCHANGED <<mq, consumer, tries, stopped, storeOpen, open>>

StopConsume ==
  /\ spc = "stop" /\ spc' = "wait" /\ stopped' = TRUE
  /\ UNCHANGED <<mq, consumer, tries, ctx, storeOpen, open>>

\* Mutant of WaitDone: Shutdown has no timeout and waits for an empty queue.
WaitForEver ==
  /\ spc = "wait" /\ wg = 0 /\ queue = <<>> /\ spc' = "closeMQ"
  /\ UNCHANGED <<mq, consumer, tries, stopped, ctx, storeOpen, open>>

\* mqWG.Wait returns, or its 10 s are over; coord.Stop follows.
WaitDone ==
  /\ spc = "wait" /\ spc' = "closeMQ"
  /\ wg = 0 \/ SlowStore
  /\ UNCHANGED <<mq, consumer, tries, stopped, ctx, storeOpen, open>>

\* MemoryQueue.Close: close(q.ch), then q.closed = true.
CloseQueue ==
  /\ spc = "closeMQ"
  /\ \/ closed = "no" /\ closed' = "chan" /\ spc' = spc
     \/ closed = "chan" /\ closed' = "flag" /\ spc' = "closeStore"
  /\ UNCHANGED <<queue, pub, published, consumer, tries, stopped, ctx, storeOpen, open>>

\* Mutant of CloseStore: a fourth attempt.
CloseStoreOnceMore ==
  /\ spc = "closeStore" /\ StoreErrors
  /\ tries' = tries + 1 /\ spc' = IF tries' > 3 THEN "closeSrv" ELSE spc
  /\ UNCHANGED <<mq, consumer, stopped, ctx, storeOpen, open>>

\* retry(3, ...): the store closes, or a third failure is given up on.
CloseStore ==
  /\ spc = "closeStore"
  /\ \/ storeOpen' = FALSE /\ spc' = "closeSrv" /\ UNCHANGED tries
     \/ /\ store = "pg" /\ StoreErrors
        /\ tries' = tries + 1 /\ UNCHANGED storeOpen
        /\ spc' = IF tries' = 3 THEN "closeSrv" ELSE spc
  /\ UNCHANGED <<mq, consumer, stopped, ctx, open>>

\* tcp Server.Shutdown: close a channel, then look at the context, which is
\* derived from the one of Shutdown.
CloseClient(c) ==
  /\ spc = "closeSrv" /\ c \in open
  /\ open' = open \ {c} /\ spc' = IF ctx THEN "ended" ELSE spc
  /\ UNCHANGED <<mq, consumer, tries, stopped, ctx, storeOpen>>

AllClosed ==
  /\ spc = "closeSrv" /\ open = {} /\ spc' = "ended"
  /\ UNCHANGED <<mq, consumer, tries, stopped, ctx, storeOpen, open>>

-----------------------------------------------------------------------------

PublishStep(p) == (\E e \in Fresh : Publish(p, e)) \/ Send(p) \/ SendPanics(p)
ConsumerStep == Receive \/ StopConsumer \/ WgAdd \/ Increment \/ WgDone
ShutdownStep ==
  \/ StopConsume \/ WaitDone \/ CloseQueue \/ CloseStore
  \/ AllClosed \/ \E c \in Client : CloseClient(c)

Alive == ~ Panicked /\ spc # "ended"

Next ==
  /\ Alive
  /\ \/ \E p \in Publisher : PublishStep(p)
     \/ ConsumerStep \/ Signal \/ ShutdownStep

\* Goroutines that can run do run; nothing makes a signal arrive.
Fairness ==
  /\ WF_vars(Alive /\ ConsumerStep)
  /\ WF_vars(Alive /\ ShutdownStep)
  /\ \A p \in Publisher : WF_vars(Alive /\ (Send(p) \/ SendPanics(p)))

Spec == Init /\ [][Next]_vars /\ Fairness

-----------------------------------------------------------------------------
(* Properties *)

SubmitPc == {"select", "add", "increment", "done", "returned"}
ShutdownPc == {"running", "stop", "wait", "closeMQ", "closeStore", "closeSrv",
               "ended"}

TypeOK ==
  /\ queue \in Seq(Evt) /\ Len(queue) <= Size /\ published \in Seq(Evt)
  /\ closed \in {"no", "chan", "flag"} /\ pub \in [Publisher -> PubState]
  /\ cpc \in SubmitPc /\ evt \in Seq(Evt) /\ wg \in 0 .. 1
  /\ counted \in Seq(Evt) /\ failed \subseteq Evt
  /\ spc \in ShutdownPc /\ tries \in 0 .. 3 /\ open \subseteq Client
  /\ {stopped, ctx, storeOpen} \subseteq BOOLEAN
  /\ store \in Stores /\ rows \in [Row -> Nat]

\* Every published event is in exactly one place: counted once in the store,
\* failed, in the consumer's hand or still queued.
EachEventOnce ==
  /\ Len(counted) + Cardinality(failed) + Len(evt) + Len(queue) = Len(published)
  /\ \A i, k \in DOMAIN counted : i # k => counted[i] # counted[k]
  /\ \A i \in DOMAIN counted : counted[i] \notin failed

\* What Get reports for a minute is the number of its events that were counted.
CountsExact ==
  \A m \in Row :
    rows[m] = Cardinality({i \in DOMAIN counted : RowOf(counted[i]) = m})

\* The MemoryStore counts exactly, late increments during and after Shutdown
\* included.
MemoryCountsExact == store = "memory" => CountsExact

\* While the server runs, every published event is taken to the store.
EventuallyCounted ==
  \A e \in Evt :
    (\E i \in DOMAIN published : published[i] = e) ~>
      ((\E i \in DOMAIN counted : counted[i] = e) \/ e \in failed \/ spc # "running")

\* Shutdown returns, whatever the consumer, the store and late publishers do,
\* unless one of them has ended the process.
ShutdownEnds == spc # "running" ~> spc = "ended" \/ Panicked

\* Publishing on a queue that is being closed does not end the process.
PublishNeverPanics == ~ Panicked

\* Shutdown waits for the consumer: no event in the consumer's hand meets a
\* closed store.
IncrementsBeforeClose == ~ storeOpen => evt = <<>>

\* When Shutdown returns it has closed every client's channel.
ShutdownClosesAll == spc = "ended" => open = {}
=============================================================================
