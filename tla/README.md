# A TLA+ development of kupool

kupool is a task pool: clients keep a TCP connection to a server, the server
announces a new job (id and random server nonce) at an interval, clients answer
with `SHA-256(server nonce + client nonce)`, and the server judges, persists and
counts the submissions. This directory models the program's own logic in TLA+,
model-checks it with TLC on small instances, and proves nearly all safety
properties with TLAPS for all instances.

## 1. The system

| part | source | state | operations |
|---|---|---|---|
| Coordinator | `app/server/coordinator.go`, `types.go` | `jobID`, `serverNonce`, `history`, `sessions`, mutex `mu` | `restore`, `rotateJob`, `broadcastJob`, `RegisterSession`, `UnregisterSession`, `Stop` |
| Acceptor, Listener | `app/server/acceptor.go`, `listener.go` | fields of a `Session` | `Accept`, `Receive`/`handleSubmit`, `Disconnect` |
| StateStore | `stats/pg.go`, `stats/memory.go` | `job_history`, `user_state`, `used_nonce` | `SaveJob`, `LoadLatestJob`, `LoadJobHistory`, `LoadUserState`, `SaveUserState`, `SaveUsedNonce` |
| Channel | `channel.go`, `event.go` | `writechan`, `closed`, `once` | `Push`, `writeloop`, `Readloop`, `Close` |
| TCP server | `tcp/server.go`, `channels.go` | `ChannelMap`, a goroutine per connection | `Start`, `Push`, `Shutdown` |
| Queue, statistics, shutdown | `mq/memory.go`, `app/server/server.go`, `stats/*.go`, `cmd/kupool-server/main.go` | queue, `mqWG`, `stopConsume`, counters | `Publish`, consumer loop, `Increment`, `Shutdown` |
| Frames | `tcp/connection.go`, `wire/endian/helper.go`, `tcp/client.go` | bytes on the connection, client mutex | `WriteFrame`, `ReadFrame`, `Send`, `ping` |
| Client | `app/client/client.go`, `tcp/client.go`, `cmd/kupool-client/main.go` | last job, `lastSubmit`, tickers, `errCh` | `Connect`, `Run`, `Close` |
| Connection objects | `tcp/client.go`, `websocket/client.go`, `websocket/server.go`, `Readloop` in `channel.go` | `state`, `conn`, `once`, heartbeat goroutine, read deadlines | `Connect`, `Send`, `Read`, `Close`, `ping`; `Accept`, id check, pongs |
| RabbitMQ queue | `mq/rabbitmq.go` | channel `out`, the AMQP connection | `Publish`, `consume`, `Close` |
| not modelled | HTTP and flags in `main.go`, `logger/`, `examples/` | | see section 8 |

How they interact: `tcp.Server.Start` runs one goroutine per connection, which
calls `Accept` (registers a session, restores the user's state), adds the channel
to the `ChannelMap` and stays in `Readloop`. `Readloop` starts **one goroutine per
frame** (`channel.go:145`) that runs `handleSubmit`. The broadcast loop rotates the
job, saves it, and pushes it to all sessions **with the mutex held**. An accepted
submission becomes an event in the queue, which the consumer hands to the
StatsStore. `Shutdown` stops the consumer, closes queue, store and channels.

What makes it hard: `handleSubmit` takes the mutex only for its lookup and then
reads and writes the session and the history unlocked; a crash may come between
any two of its store calls; `Push` tests and then sends, while `Close` closes;
`broadcastJob` blocks on a bounded channel with a lock held; `Shutdown` races the
consumer and late publishers; frames are written in three writes by several
goroutines; the client's `select` picks at random among tickers, frames, errors
and cancellation; heartbeats race read deadlines; RabbitMQ deliveries are
acknowledged before they are counted; a submission may cross a broadcast. `PROJECT.json` lists these hazards at their lines, with the
properties that would catch them.

What makes each part correct: one nonce per job id for everybody, for ever;
old jobs judged with their own nonce; accepted submissions a second apart and not
duplicated; payloads in order and complete; locks given back; every event counted
once, or lost and repeated only within bounds where RabbitMQ redelivers; frames read
as written; the client submitting steadily, judged with the nonce it was told, and
ending cleanly; healthy connections kept and dead ones noticed.

## 2. Modules

| module | models | composition |
|---|---|---|
| `Coordinator` | Coordinator, Acceptor, Listener, StateStore, crash and restart | refines `Ledger` |
| `Ledger` | abstract specification: what clients are promised | instantiated in `Coordinator` |
| `MCCoordinator` | symmetry sets for TLC | extends `Coordinator` |
| `CoordinatorProofs` | proofs: types, jobs, submissions, the refinement of `Ledger` | extends `Coordinator`, `TLAPS` |
| `Channel` | one `ChannelImpl` with its pushers and writeloop | |
| `Transport` | broadcast loop, connection goroutine, mutex, `Shutdown` | extends `Channel` |
| `TransportProofs` | proofs: the channel; the server implements it; panics | extends `Transport`, `SequenceTheorems`, `TLAPS` |
| `Pipeline` | queue, consumer, both StatsStores, `AppServer.Shutdown`, `main` | |
| `Framing`, `MCFraming` | bytes of frames, writers, reader | `MCFraming` gives the frames |
| `FramingProofs` | proofs: the reader stays in step with the writers | extends `Framing`, `SequenceTheorems`, `TLAPS` |
| `Client` | the client process | |
| `ClientProofs` | proofs: spacing of timed submissions | extends `Client`, `TLAPS` |
| `Pool`, `MCPool` | the server and the pool's own client on one connection | extends `Coordinator`, instantiates `Client`; `MCPool` gives symmetry |
| `RabbitMQ` | the RabbitMQ queue from `Publish` to the counter, broker, restart | |
| `Link` | a connection object of either transport and the server's goroutine for it | |
| `PoolProofs` | proofs: `Pool` implements `Coordinator`, what the client may rely on | extends `Pool`, `CoordinatorProofs` |
| `PipelineProofs`, `RabbitMQProofs`, `LinkProofs` | proofs | each extends its component, `FiniteSetTheorems`, `TLAPS` |

**Coordinator.** `pc` is the position of the loop goroutine: `latest`, `history`
(the two halves of `restore`), `rotate`, `save` (`rotateJob`), `snapshot`, `lock`,
`push` (`broadcastJob`), `wait` (the select of `loop`), `stopped`. `conn[c]` is the
progress of a connection's goroutine. `hs[h]` is a `Receive` goroutine; each of its
steps is one unlocked access of `handleSubmit`, in the order of the code, and each
early return with an error response is a branch to `Return`; the clock is read
(`ReadClock`) a step before `LastSubmitAt` (`RateCheck`). `c.mu` is held across
steps only by `broadcastJob` (`MuFree`). `known` records what clients were told and
`accepted` the published events; both are history variables. A server nonce is the
number of the random draw, a result is the nonce that was hashed (so SHA-256 is
taken as injective and draws as distinct). What a data race may do in Go is an
interleaving of these steps or a runtime error that ends the process, which `Crash`
covers. `Faults` names the StateStore calls that may return an error (the code
ignores all of them). `Serial` restricts the *clients*: one connection per user and
one request in flight; with `FALSE` they may do anything.

The `used` nonces of a session are kept per inner map: two handlers that both
find no map for a job each make one, and the later one stays (`FindMap`, `MakeMap`).

**Ledger.** Jobs are announced under increasing ids; a ledger of accepted events
grows, never with a duplicate on a connection, never with two events of a user
less than a second apart. The refinement maps `jobs` to everything any client was
told and `ledger` to `accepted`.

**Channel.** `closing` follows `Close`: `close(writechan)`, then `fired = 1`, then
`close(e.c)`. A send on the closed channel is `SendPanics`, which ends the process.
`SelectNil` is the receive from a closed, empty `writechan`: writeloop then writes
empty frames until its select takes the other case (`MaxEmpty` bounds them).

**Transport.** `lpc` is the loop in `broadcastJob`, `cpc` the connection goroutine
(`Readloop`, `Remove`, `Disconnect`, `Close`), `mu` the mutex, `closer` whoever is in
the `once` of `Close`. `spc` is `Shutdown`: `ShutdownSnapshot` takes `ChannelMap.All()`,
`ShutdownCloses` closes the channel found there, which may have left the map since. The channel is all of `Channel`, not a summary of it; its
properties are checked here, under the pushers and closers the server really has.

**Pipeline.** `wg.Add` after the receive, `Increment`, `Done`, and the steps of
`Shutdown`, each separate. `Signal` cancels the context that `Shutdown` is then called with,
as `main` does (`main.go:130-131`) and the tests too (`server_test.go:104`): the consumer may
stop for either reason, and the loop over the channels ends after the first one.
Any clients may be connected when it begins.
`store` is which StatsStore runs. Events are counted in two rows (`Late` events fall
into another minute).

**Framing.** Bytes below `Base`, lengths of four bytes, little endian; three
writes per frame. `Locked` writers, the callers of `Send`, hold the client's mutex across
them; the others (`ping`, `Close`, and on a server's connection `writeloop` and the pong) do
not, and begin a frame whenever they like. `Sends` says which frames each one writes. `torn`
is the first frame that is spoilt: one of its Writes failed, or another frame began inside
it and one of the two writers has no mutex. Two callers of `Send` never set `torn` by
themselves: that the mutex keeps them apart is what the properties show.

**Client.** Time is kept as ages, the tickers hold one pending tick, `Run`'s cases are
separate actions, `Send` and the assignment of `lastSubmit` are separate steps.

**Pool.** Steps of `Coordinator` and of `Client` interleave; `Announce` is `PushNonce`
with the frame that reaches the client's inbox, `Submit` is the client's `Send` with the
frame that reaches `Readloop`, `TakeFrame` starts its `Receive` goroutine. A submission is
computed from the last job `Run` has read, never chosen freely. `crossed` is a history
variable: since the session was given its job, a submission for another job has been
judged on it. The connection stays up, the server does not crash and the client's minute
ticker does not fire: this is the first minute of one connection. What the ticker adds is
another cause of a submission, checked in `Client`; reconnection and crashes are in
`Coordinator`, whose clients may submit anything.

**RabbitMQ.** `pubWire` and `ackWire` are what is written and not yet at the broker; when
a connection ends, any part of it has arrived, and what is unacknowledged is ready again.
`gpc` is the `consume` goroutine, `cpc` the consumer of `AppServer`, `spc` the call of
`Close` by `retry`. The program never reconnects: after a lost connection only a restart
(`restart: unless-stopped` in `docker-compose.yaml`) resumes. `linkEnds`, `procEnds` and
`lost` count and remember what ended.

**Link.** `dial`, `spc`, `clpc`, `rpc` and `hb` are the callers of `Connect`, `Send`, `Close`,
`Read` and the heartbeat goroutines; `srv` is the server's goroutine. `kind` and `beats` are
the transport and whether `options.Heartbeat` is positive: `tcp.NewClient` replaces 0 by
55 s, `websocket.NewClient` does not. `up` is FALSE when a path or a process has gone
silent; writes are then lost or fail. The server's socket is closed when a connection is
refused, otherwise only by the garbage collector (`Finalize`). Time passes when no
goroutine has a step to take. A `Dialer` that returns neither a connection nor an error
is left out: none of the repository does. `DialFails` opens no socket: the pool's dialer
(`app/client/client.go:152-170`) ignores the error of its login write, so its only error
comes from `net.DialTimeout`. The examples' dialers return the error of a failed handshake
and leave that socket to the garbage collector (`examples/mock/client.go:84-87`).

## 3. Runs

`tlc -config <run>.cfg <module>`; states are distinct states.

| run | module | states | shows |
|---|---|---|---|
| `jobs` | MCCoordinator | 3.8M | `Agreement`, `KnownJobsServable`, `ImplementsLedger`: 3 draws over 3 instants, a window of 1, 3 crashes, 2 users, user-state calls failing |
| `serial` | MCCoordinator | 3.0M | `TypeOK`, `RateLimitPerUser`, `SessionsNotAhead`, `ImplementsLedger`: submissions of a well-behaved client over reconnection, crash and broadcast, with `LoadJobHistory` and `SaveUsedNonce` failing |
| `pool` | MCPool | 0.65M | `AcceptedPersisted`, `AcceptedJobIssued`, `ClientUpToDate`, `NeverUnknownTask`, `InvalidOnlyIfCrossed`: the client's submissions in flight across broadcasts, two `Receive` goroutines racing |
| `transport` | Transport | 0.18M | `TypeOK`, `InOrder`, `DrainNeverBlocks`, `EventuallyWritten` of the channel; `PanicsOnlyInShutdown`, `BlocksOnlyOnFailedWriter`, `ConnectionCloses` |
| `pipeline` | Pipeline | 91k | `TypeOK`, `EachEventOnce`, `MemoryCountsExact`, `EventuallyCounted`, `ShutdownEnds`, in `main`'s order |
| `rabbit` | RabbitMQ | 0.21M | `TypeOK`, `DuplicatesBounded`, `LossBounded`, `ClosePanicsOnlyUnlinked`, `EventuallyCounted` |
| `framing` | MCFraming | 0.18M | `IntactUntilTorn`, `EventuallyRead`: two callers of `Send`, a `ping` without the mutex, failing writes |
| `client` | Client | 0.10M | `TimerSpacing`, `KeepsSubmitting`, `RunEnds` |
| `link` | Link | 95k | `OneConnection`, `PanicsOnlyBeforeConnected`, `KeepAlive`, `DeadPeerNoticed`, `HeartbeatStops` |
| `v_dupuser` | MCCoordinator | | violated `NoDuplicatePerUser`: a nonce is accepted again after a reconnection |
| `v_pg_count` | Pipeline | | violated `CountsExact`: the PGStore's count stops at 2 |
| `v_broadcast_stuck` | Transport | | violated `BroadcastCompletes`: a broadcast waits for ever on a failed writer, with the mutex |

The last three are the findings of `PROJECT.json`; each quotes the documentation
it disagrees with. The passing runs and the violated ones, here and in section 6,
complement each other: `BlocksOnlyOnFailedWriter` says that a failed writeloop is the
*only* way to the deadlock of `v_broadcast_stuck`; `PanicsOnlyInShutdown` that the mutex
keeps `broadcastJob`, unlike response pushes, out of the panic of `v_push_panics`;
`InvalidOnlyIfCrossed` that a client is told "invalid" for a correct result only after a
submission of its own crossed a broadcast (`v_invalid`); `LossBounded` that a restart
loses at most what `out` and the consumer hold (`v_rabbit_lost`); `IntactUntilTorn` that
`ping` and failed writes spoil nothing before the frame they hit (`v_frame_ping`,
`v_frame_error`); `RateLimitPerUser` and `ImplementsLedger` of `serial` that concurrent
requests are all it takes to get past the limit (`v_rate`, `v_dup`); and
`PanicsOnlyBeforeConnected` and `HeartbeatStops` confine `v_link_send` and
`v_link_heartbeat` in the same way.

### Bounds

`MaxDraw`, `MaxTime`, `MaxCrash`, `MaxEmpty`, `MaxFrames`, `MaxJobs`, `MaxInbox`,
`MaxRestart`, `MaxConn` bound counters; `Msg` and `Evt` are used once each. They are chosen
so that what the properties are about happens: in `jobs` the id of an unsaved job is issued
again after a crash, and saved jobs are inside, at the edge of and outside the window when
the server restarts, the latest one too (3 draws, 3 crashes, 3 instants); in `serial` a second passes (`MaxTime` = 2,
`Second` = 1) and a user reconnects on a second connection before and after a crash; in
`pool` two jobs are broadcast while both handlers are in `handleSubmit`, for three client
nonces; in `transport` `writechan` fills (capacity 2, three payloads, two pushers); in
`pipeline` the queue fills and the store is closed with an event in hand; in `rabbit` `out`
fills (capacity 1, three events) and a process ends once while events are in every place;
in `framing` (bytes of base 4) a length needs two of its bytes, and a `ping` fits between
any two Writes of a caller of `Send`; in `client` a minute is two seconds of two clock
steps, so ticks may be pending when a job arrives; in `link` the deadline is 3 steps and
the heartbeat 2, the closest the repository uses (60 s and 55 s in the examples), and two
connections are all that one `Client` object can make succeed, because `Close` works once.
Time in `serial` starts at 1 because 0 is Go's zero time. `jobs` has no client nonces:
submissions do not touch the jobs. Deadlock is not checked: with the counters at their
bounds, or after the process ended, the models stop as intended.

Symmetry (users, connections, handlers, client nonces) is used in the safety runs of
`Coordinator` and `Pool` only: no action or property distinguishes them.

### Fairness

Only goroutines that can run are assumed to run. In `Transport`: the writer, the loop, a
pusher in its send, a `Close` begun, and strong fairness of `Lock` (`sync.RWMutex` does not
starve a waiting writer); `v_broadcast_stuck` also assumes that `Readloop` ends (every read
has a deadline, `channel.go:126`), which makes the counterexample stronger. In `Pipeline`:
consumer, `Shutdown` once begun, senders. In `RabbitMQ`: the goroutines, the broker while
the connection is up, the restart of an ended process; strong fairness of taking a
delivery, because the library delivers in order and none waits for ever. In `Framing`: a
writer inside `WriteFrame`, the reader while bytes are there. In `Client`: every case of the
`select` gets strong fairness, because Go chooses at random among ready cases; time passes;
a read from a broken or closed connection returns. In `Link`: the goroutines; a read from a
closed socket returns; time passes (strong fairness, so that callers of `Send` cannot stop
the clock); that the operating system reports a silent path is *not* assumed. Nobody is
assumed to push, publish, close, connect, submit, signal or fail. `Coordinator` and `Pool`
have no fairness; nothing is claimed about their progress.

## 4. Proofs

`tlapm <module>.tla` checks them.

| theorem | assumes | states |
|---|---|---|
| `CoordinatorTypes` | nothing about faults | `Spec => []TypeOK` |
| `JobsAgree` | `LoadLatestJob`, `SaveJob` do not fail | `Spec => []Agreement` |
| `JobsServable` | also `LoadJobHistory` does not fail | `Spec => []KnownJobsServable` |
| `SessionsPersisted` | `SaveJob` does not fail | `Spec => []SessionsNotAhead` |
| `SubmissionsPersisted` | `SaveUsedNonce` does not fail | `Spec => []AcceptedPersisted` |
| `SubmissionsSpaced` | `Serial`; `LoadUserState`, `SaveUserState` do not fail | `Spec => []RateLimitPerUser` |
| `CoordinatorImplementsLedger` | those of `JobsAgree` and `SubmissionsSpaced` | `Spec => ImplementsLedger` |
| `ChannelTypes`, `ChannelInOrder`, `ChannelDrain` | | `Spec => []TypeOK`, `[]InOrder`, `[]DrainNeverBlocks` |
| `ServerImplementsChannel`, `ServerInOrder` | | `ServerSpec => Spec` of `Channel`, `[]InOrder` |
| `BroadcastPanicsOnlyInShutdown` | | `ServerSpec => []PanicsOnlyInShutdown` |
| `BroadcastNeverPanics` | `MayShutdown = FALSE` | the loop never sends on a closed channel |
| `ClientOneConnection`, `SendPanicsOnlyUnassigned` | | `Spec => []OneConnection`, `[]PanicsOnlyBeforeConnected` |
| `FramesIntactUntilTorn` | nothing about who has the mutex | `Spec => []IntactUntilTorn` |
| `ClientTimerSpacing` | | `Spec => TimerSpacing` of `Client` (an action property) |
| `HeartbeatKeepsAlive` | | `Spec => KeepAlive` (an action property) |
| `RabbitTypes` | | `Spec => []TypeOK` |
| `CountedAgainOnlyByRedelivery`, `RestartLosesAtMostOut` | | `Spec => []DuplicatesBounded`, `[]LossBounded` |
| `CloseSafeWhileLinked` | | `Spec => []ClosePanicsOnlyUnlinked` |
| `PipelineTypes`, `EventsInOnePlace`, `MemoryStoreExact` | | `Spec => []TypeOK`, `[]EachEventOnce`, `[]MemoryCountsExact` |
| `PoolImplementsCoordinator` | | `PoolSpec => Spec` of `Coordinator` |
| `ClientIsUpToDate` | nothing about faults | `PoolSpec => []ClientUpToDate` |
| `ClientTasksKnown`, `ClientResultsValid` | nothing about faults | `PoolSpec => NeverUnknownTask`, `InvalidOnlyIfCrossed` (action properties) |
| `ClientJobsIssued` | `SaveJob` does not fail | `PoolSpec => []AcceptedJobIssued` |

They hold for all users, connections, handlers, nonces, events, capacities, periods and
bounds that satisfy the modules' `ASSUME`s. Where `Serial` is not assumed it is arbitrary,
so the clients may do anything; `v_rate` and `v_dup` show what happens without it.
Every inductive invariant below was first checked by TLC on the bounds of section 3.

*Types.* `TypeOK` of `Coordinator` is inductive because it also says that a job id
never exceeds the number of draws (otherwise `rotateJob` could leave `JobId`), and that
the session of a live connection or handler has a user. `TypeInv` of `Pipeline` and
`RabbitMQ` adds `Holding`: who has an event in hand at which step.

*JobsAgree.* `Agreement` speaks of `known` only and is not inductive. `JobInv` adds: what
clients know is in `job_history` with the same nonce (`KnownPersisted`); from `snapshot`
to `wait` the loop's job is there as well (`CurrentPersisted`); and no saved id is
above the loop's once it is restored, nor equal to it before it is saved (`NoneAhead`).
The crux is a crash between `rotate` and `save`: the id is issued again, but nobody was
told of it. This is where the two assumptions are used: a failed `SaveJob` breaks
`CurrentPersisted`, a failed `LoadLatestJob` breaks `NoneAhead`.

*JobsServable.* `HistoryInv` says that after `restore` every row of `job_history` that is not
outdated is in `history`, and so is the loop's job. A row is outdated when it is older than
the window and not the latest one; it stays so, because time goes on and a later job stays
later (`StaysOutdated`), and that is why a row `restore` left out needs no second look. The
theorem is for every window. For 0 it leaves open which of the two, all jobs or the latest,
is restored; `v_window` is about that.

*SessionsPersisted.* `AheadInv` covers sessions, `user_state` rows and the job id a
handler holds between reading it and saving it.

*SubmissionsPersisted.* `PersistInv` carries the row from `SaveUsedNonce` to the publishing
of the event: a handler past that call has its row in `used_nonce`, and no step, a crash
included, takes a row away. It needs no `Serial`: racing handlers write the same row.

*SubmissionsSpaced.* Three invariants. `SerialInv` turns the restriction on clients into
facts about the server: no two handlers work on one session and no two attended sessions
are of one user, though an ended connection may still have a handler. `FreshInv` says that
a session has one inner map per job, which remembers all that was accepted on the
connection. `SpaceInv` says that `user_state`, and a session once restored from it, hold a
time not before any accepted submission of the user (`LastCovers`), and that a handler past
the rate check is a second after all of them. The crux is that the user's time is saved
*before* the event is published, so a crash in between is on the safe side; a failing
`SaveUserState` or `LoadUserState` breaks exactly `LastCovers`.

*CoordinatorImplementsLedger.* `PushNonce` is `Ledger`'s announcement or a repetition of one
(from `JobInv`), the publishing step is an acceptance (fresh by `FreshInv`, spaced by
`SpaceInv`), every other step leaves `known` and `accepted` alone.

*Channel.* `IInv` is the conjunction of the three: order needs `hold` to be empty where
writeloop has no payload (in `TypeOK`), and the drain bound needs that only writeloop
takes payloads out while pushers only add.

*Server and Channel.* Every step of `Transport` is a step of `Channel` or leaves it alone;
the one thing to show is that the loop's payload is still unused when it is sent
(`JobReserved`). The theorems about `Channel` then hold in the server. `MutexInv` is the
mutex argument: whoever holds `mu` is known (`Mutex`); while the loop has it between lookup
and send, the channel it looked up is not being closed by the connection goroutine
(`HeldOpen`, `Closers`), for that goroutine unregisters under `mu` first. `Shutdown` does
not, hence the exception.

*Link.* `ClientInv`: at most one connection is being dialled or open, it is the one `state`
and `conn` speak of, and `conn` is assigned once any `Connect` has returned. `BeatInv`
bounds ages: while a healthy connection has its heartbeat goroutine, the age of the last
frame the server read plus the time to the next ping stays below the deadline, and the same
for pongs and the client. It rests on `Heartbeat < ReadWait`, and on time passing only when
no goroutine has a step to take (`Quiet`): the theorem is about the protocol's periods, not
about slow schedulers.

*Framing.* `IntactUntilTorn` speaks of the frames read, `FrameInv` of the bytes between them
and the writers. `Apart`: a caller of `Send` inside `WriteFrame` has the mutex, and until a
frame is spoilt one writer at most is between the Writes of a frame, which is the last one
begun; a second one that gets there without the mutex spoils it. `InSync`: there is a function `at` that gives the place in the stream where each
frame begins, so that the frames lie behind each other (`Adjacent`), the bytes present are
those of their frames (`Filled`), the stream ends where the running `WriteFrame` has come to
(`Ending`, with `Left` bytes still to come), and the reader is inside the first frame it has
not returned, at the byte its `rpc` says (`Position`). A read moves every place forward, a
Write leaves the places alone or adds one, and a failed Write, or a
frame begun inside another, gives up the places behind the frame it spoils; the last is why `InSync` is claimed only while the reader is in front of that
frame (`Following`). The places are a witness of the proof, not state: the start of a frame
is a sum over all frames before it, and carrying `at` along makes an induction over that sum
unnecessary. That the reader takes the right number of bytes for the payload is
`LengthRoundTrip`: four base-`Base` digits give back every length below `Base`^4. `Base` is
arbitrary, so 256 is covered, and every length of 32 bits. `Locked` is any set of writers.

*Client.* `SpacingInv`: `lastSubmit` is not older than the last frame sent (`age <= gap`),
except between `cli.Send` and the assignment after it, where no ticker's case can be taken;
and a submission that a ticker caused has passed its test of `lastSubmit`, which time only
makes truer.

*RabbitMQ.* `DupInv`: an event is in one place (`OnePlace`); while it is on the publisher's
side it is not stored (`NotYetStored`); and every copy counted or still to be counted beyond
the first is paid for by a connection that ended (`Paid`). `LossInv`: an event the broker has
had acknowledged is in `out`, in the consumer's hand, counted, or among the lost
(`AckedHandedOn`), and what is lost are at most `Size + 1` events per process end.

*Pipeline.* `PlaceInv`: the counted, the failed, the one in hand and the queued are disjoint
and without repetition (`Apart`), publishers hold distinct, unpublished events
(`PublishedOnce`), and the numbers add up (`Complete`).

*Pool.* `PoolInv` says what each side knows: the client, the frames to it and its
submissions speak only of jobs it was told, with the nonce it was told (`ClientKnows`,
`UpHonest`, `HandlersHonest`); the connection in the map has its session (`Connected`); the
jobs told have one nonce each, are in `history`, and are older than the job about to be told
(`ToldOnce`); a broadcast's snapshot has the session of a client told before (`Reached`).
This makes every step of `Pool` one of `Coordinator`, so the theorems above hold with this
client too, and `NeverUnknownTask` follows at once. `OrderInv` restates `ClientUpToDate` by
the parts of `Pending` and adds that the newest job of a client already reached by the
running broadcast is the current one. `CrossInv` is the argument about `listener.go:58`: as
long as nothing has crossed, the session's nonce is the one told for its job, except between
the two writes of a broadcast, when its job was not told yet and so nobody can submit for it.
None of this needs a store call to succeed, because the process does not restart here;
only `AcceptedJobIssued`, which speaks of `job_history`, needs `SaveJob`.

Only model-checked is liveness (`EventuallyWritten`, `BlocksOnlyOnFailedWriter`,
`ConnectionCloses`, `EventuallyCounted`, `ShutdownEnds`, `EventuallyRead`, `KeepsSubmitting`,
`RunEnds`, `DeadPeerNoticed`, `HeartbeatStops`): fairness and `ENABLED` are out of this prover's
reach. Every invariant and every step property of a passing run has its theorem.

## 5. Mutants

Every property of a passing run is refuted for at least one mutated definition, kept
next to the definition it replaces (`RestoreOldest`, `RotateWithoutSave`, `DrainRepeats`,
`CloseFirst`, ...); `PROJECT.json` pairs them.

## 6. Further disagreements with the documentation

Each has a configuration of its own that TLC refutes, kept for whoever fixes the code.

| configuration | module | violated | code | documentation |
|---|---|---|---|---|
| `v_rate` | MCCoordinator | `RateLimitPerUser` | two frames sent together both pass `listener.go:67` | `README.md:48` "限速 1 秒最多一次" |
| `v_dup` | MCCoordinator | `NoDuplicatePerSession` | the same race at `listener.go:75` | `README.md:125` "重复 `client_nonce` → 返回 `Duplicate submission`" |
| `v_match` | MCCoordinator | `AcceptedMatchesJob` | `handleSubmit` reads the session without `c.mu`, between the two writes of `coordinator.go:97-98` or after the overwrite of `listener.go:58`; a result for another nonce is then accepted for a job | `README.md:48` "校验 `job_id` 与 `server_nonce`" |
| `v_job0` | MCCoordinator | `AcceptedJobIssued` | a session before its first job accepts job 0 with the empty nonce | `README.md:126` "否则 `Task does not exist`" |
| `v_window` | MCCoordinator | `ZeroWindowRestoresLatestOnly` | 0 loads the whole history (`pg.go:175`) | `README.md:117` "`0` 表示仅恢复最新任务" |
| `v_wg_race` | Pipeline | `IncrementsBeforeClose` | `mqWG.Add` (`app/server/server.go:57`) comes after the receive | `.trae/documents/服务端启动恢复交互状态的设计与实现计划.md:42` "关闭时保证所有持久化操作完成（已有 WaitGroup）" |
| `v_shutdown_clients` | Pipeline | `ShutdownClosesAll` | `main` cancels the context it passes to `Shutdown`, whose loop (`tcp/server.go:129-137`) then returns after the first channel | `.trae/documents/全面缺陷排查、单元测试覆盖与 README 更新计划.md:46` "`Shutdown` 关闭所有通道" |
| `v_rabbit_lost` | RabbitMQ | `NothingLost` | a delivery is acknowledged (`rabbitmq.go:58`) before it is counted | `.trae/documents/基于 TCP 的消息处理系统实现计划（KuPool）.md:77` "支持服务端重启后消息不丢失" |
| `v_opclose` | Client | `OpCloseSent` | `main` may return before the signal goroutine calls `Close` | `README.md:54` "并发送 `OpClose`" |
| `v_invalid` | MCPool | `ResultNeverInvalid` | the same as `v_honest`, reached by the pool's own client | `README.md:126` "按历史校验" |
| `v_push_panics` | Channel | `PushNeverPanics` | `Push` tests `closed` (`channel.go:78`) and sends (`:82`); `Close` closes `writechan` before it fires the event, so a `Push` in between panics | `.trae/documents/全面缺陷排查、单元测试覆盖与 README 更新计划.md:49` "`closed` 后写入报错" |
| `v_rabbit_close` | RabbitMQ | `CloseNeverPanics` | `Close` closes `out` under `consume`'s send, or a second time under `retry` | `.trae/documents/全面缺陷排查、单元测试覆盖与 README 更新计划.md:55` "重试关闭 MQ/Store" |
| `v_link_send` | Link | `SendNeverPanics` | `Send` between the CAS of `Connect` and the assignment of `conn` | `tcp/client.go:69` "是并发安全的" |
| `v_honest` | MCCoordinator | `HonestNeverInvalid` | `listener.go:58` overwrites `LatestServerNonce` with an old job's; a correct result for the latest job is then invalid | `README.md:126` "按历史校验" |
| `v_expired` | MCCoordinator | `ExpiredRefused` | a session restored from `user_state` has an old job as its latest one and skips the expiry test | `README.md:127` "过期任务 → 返回 `Task expired`" |
| `v_publish_panics` | Pipeline | `PublishNeverPanics` | `Publish` races `Close` | `.trae/documents/完善单元测试与使用说明计划.md:24` "Close 后发布不 panic" |
| `v_frame_ping` | MCFraming | `FramesIntact` | `ping` and `Close` write without the mutex | `wire/endian/helper.go:59` the length is in the first 4 bytes read |
| `v_frame_error` | MCFraming | `FramesIntact` | the connection is used again after a failed write | the same |
| `v_client_rate` | Client | `AtMostOncePerSecond` | a job's arrival triggers a submission whatever `lastSubmit` is | `.trae/documents/检查并完善任务分发与结果提交逻辑.md:19` "确保不超过 1 次/秒" |

Three more configurations refute what one would expect of the transports, though no
document says it: `v_link_ws` (`ClientAlwaysNotices`: a websocket client with default
options has no heartbeat and no read deadline, and waits for ever for a silent server),
`v_link_heartbeat` (`HeartbeatAlwaysStops`: after `Close` and `Connect` the old tcp heartbeat
goroutine goes on with the new connection) and `v_link_ids` (`ReaderReachable`: with the
example's ids, two connections that pass the id check together leave one that `Push`
does not find).

## 7. Plan

Done: the modules of section 2, in the order Coordinator, Channel, Transport,
Pipeline, Framing, Client, Pool, RabbitMQ, Link.

Next, modelling: `MemoryStore` as StateStore, call for call against the PGStore (`SaveJob`
of an id that exists, the latest job, the boundary of the window).

Next, proofs: none is open among the invariants; the liveness properties wait for a prover of
fairness.

## 8. Not modelled

PGStore's reporting queries: read-only SQL. JSON: the library's; messages are records.
HTTP endpoints, flags, logger: no state of their own. The examples: only their dialers'
and acceptor's use of the transports (the id is the client's, the read loop follows
`Connect`) is taken into `Link`. WebSocket masking and frame bytes: the gobwas/ws
library's; `Framing` is about the TCP format. `MemoryStore`'s mutex makes its calls atomic,
like SQL statements; it differs from the PGStore mainly in not surviving a restart, so
crashes in the runs mean the PGStore. What `Shutdown` leaves open, sockets and listener,
is left out: the process ends right after it. The RabbitMQ broker, the network
and the operating system are external, modelled by what the code can observe of them.
