# A TLA+ model of rama-pg

rama-pg is a PostgreSQL proxy written as services of the rama framework: it ends
a client's TLS, authenticates it (or passes its authentication through), and
hands it to one of three forwarders: a direct one, a pooled one and a custom one
that answers queries itself. This directory holds TLA+ modules that model it,
TLC configurations that check them on small instances, and TLAPS proofs of the
central properties for every instance. `PROJECT.json` lists the runs, what each
definition stands for in the source, the hazards the properties are aimed at,
the disagreements between code and documentation that came up, and the theorems.

## The system

| component | state it keeps | operations | properties that make it correct |
|---|---|---|---|
| `proxy/mod.rs`: `PgProxy`, `PgSession` | none beyond one connection's task | tell TLS, startup and cancel packets apart, negotiate the version, authenticate, forward | TLS and authentication first; a startup completes once and always ends |
| `auth.rs`, `scram/` | none | challenges, answers, verdict, re-authentication to a backend | no backend for a client that was not verified; no proper client denied |
| `proxy/direct.rs` | none | replay the startup, relay it, swap the cancel key, copy | no wait cycle, in the startup or between full sockets; one version on both sides; the backend's key stays with the proxy; nothing cut off at the end |
| `pool.rs`: `BackendPool`, `Lease` | round-robin counter, parameter cache, rama's pool of connections | `lease`, `reset`, `checkin`, `discard`, drop | one client per backend; bounds; only clean backends are idle; nobody starves |
| `proxy/pooled.rs` | one task per client | read, lease, relay to `ReadyForQuery`, reset, release | replies go to their own client; nothing is lost; nothing leaks |
| `cancel.rs`, `connect.rs` | registry of keys, one slot per session | `begin`, `set`, `clear`, drop, `cancel` | a cancel acts on what its client runs, and on nothing else |
| `proxy/custom.rs`, `query.rs` | transaction status, one token per query | the query loop, `run_query` | late cancels spare later queries; the status told is the real one |
| `protocol/codec.rs` | the reader's buffer | `read_frame`, `read_message` | cancel safety; only a cut between frames is a clean end |
| `protocol/startup.rs` | none | tell packets apart by code and length, negotiate versions | a key fits the version, and the CancelRequest that carries it is read as one |
| `scram/crypto.rs`, `scram/secret.rs` | none | keys, verifiers, stores | ideal in the model |
| `protocol/message.rs`, `route.rs`, `connect.rs` | none | formatting, lookup, dialling | only outcomes are modelled |
| `pgbouncer/` | a client list and counters | example binary; `PgAuthidStore` | which roles have a verifier; the console is not modelled |

Every client connection is a task. Tasks share the pool (a semaphore, the idle
connections, the parameter cache) and the cancel registry, and talk to
PostgreSQL over sockets. What is hard: tasks interleave at every await, tasks
are dropped at any await, backends die while leased or idle, cancels are
captured at one time and delivered at another, and the client side is free to
send ahead, stop or vanish.

## The modules

`LeaseContract` is the abstract specification: a backend serves at most one
client, a client holds at most one backend, at most `MaxSize` are held, and a
backend that changes hands is clean.

`BackendPool` models `pool.rs`. `stage[c]` says how far a `lease()` call has
come (waiting for a permit, granted, dialling, holding), `cstate`, `cid`,
`startup` and `lessee` describe each connection. `Lease`, `DialOk`, `DialFail`,
`Checkin` and `Discard` are the code's; `Acquire`, `Reuse`, `Create` and
`Withdraw` are what rama's `LruDropPool` does for it, modelled from the way
`with_connector` configures it: the same bound for permits and connections,
reuse of an idle connection with an equal key, otherwise a dial, evicting an
idle connection when full.

`Cancellation` models the registry: `registered`, `slot`, and the cancels in
flight that have captured a target. The forwarder modules instantiate it over
their own variables.

`PooledForwarder` extends `BackendPool` and instantiates `Cancellation`. Each
client has a program counter `pc`, an `inbox` of frames not forwarded yet and a
count of queries without an answer; each connection has its two queues, its
transaction status, whether it is alive, and `taint`, the client whose session
state it carries. `mode` and `resets` are the pool's mode and whether it has a
reset query; a run chooses which values to start from. A frame is reduced to what
the relay tells apart: queries, other parts, terminate; data, errors, notices and
`ReadyForQuery` with its status. The stretches between awaits are single actions;
every await is a point where other tasks, PostgreSQL or an abort come in. Two
stretches without an await are split, because other threads can look in between: the
check-in of a lease and `handle.clear()`, and the drop of a task. `Abort` drops the
future of `serve_pooled`, with the client's stream and the lease; the `CancelHandle`, a
local of `serve`, goes after it (`EndSession` from `dropped`). The
backend is polled first in the relay (`biased`), so the client branch is enabled
only when the backend has nothing to read. `Faults` switches crashes, aborts,
failed dials, failed statements and unsolicited messages on (`Notify`: a notice or
a changed parameter from a backend that was idle). Without a reset query a backend
goes back as it is (`CheckinAsIs`), and `CleanIdle` then asks only for no open replies
and no open transaction.

`Relay` looks at the same bytes where `PooledForwarder` and `Startup` do not: at
sockets that fill up. It counts the frames of each direction that were sent, read,
written and taken; a write waits while `Cap` frames wait for their receiver.
`kind = "copy"` is `copy_bidirectional` (the direct forwarder after its startup,
session pooling), with two independent directions, half-closed sides and a
shutdown passed on; `kind = "frames"` is one statement of `relay_to_next_rfq`,
one loop with one frame in hand.

`CustomForwarder` models `proxy/custom.rs` with the registry: `status` is the
`SessionState`, `seen` the copy that `run_query` takes before it awaits the
handler, `told` the status in the last `ReadyForQuery`; `fired` and `wanted`
record which tokens fired and during which queries a cancel was looked up. The
handler may set the status at any time while it runs.

`FramedReader` counts bytes: a stream is the sequence of its frame boundaries,
the reader has taken `taken` bytes and buffers the last `buf` of them. `way` says
which call reads it. `read_frame` may be dropped between any two reads (`Cancel`)
and tells a clean end from a cut; `read_message` is never cancelled and takes
every end for a cut. A boundary is where a header says that its frame ends, so a
stream can declare lengths that `MessageHeader::parse` refuses: above the cap, or
below the four bytes of the length itself, in which case the header reaches into
what follows.

`Scram` has SCRAM-SHA-256 as the proxy plays it with its client and with a
backend, with ideal cryptography: the keys of a password and a salt are that pair,
and a proof shows which keys made it. Mechanism, GS2 flag, channel-binding data,
nonce and proof are fields of the messages; `Acceptable` and `ProofVerifies` are
the proxy's checks, `FollowsRFC` says independently what a proper client sends.
`PgAuthidStore` decides who has a verifier.

`StartupPackets` classifies the packets that open a connection by their code and
length (`Parse`) and has the version arithmetic.

`Startup` extends both and follows one connection from its first byte through
`PgProxy::serve`, `PgSession::serve`, the authenticator and the forwarder's
startup. `conf` fixes version, authenticator, forwarder and cancellation;
`backend`, chosen when it is dialled, its newest version, what it demands, the
role's keys there and the pool's credentials. A backend sends a script and waits
for an answer after each challenge. `stored` is the verifier found, `first`,
`proof`, `proper` and `keys` record the exchange, `spoken` is the version the
client takes to be agreed, and `seen` what the client was sent. In direct mode the
keys recovered from the client's proof answer the backend's challenge, and they
are right exactly if they are the keys of the role's account there. `refused` records
that a backend failed or that the pool's own credentials were wrong or missing; a
wrong answer from recovered keys does not set it. A direct backend's `BackendKeyData`
takes two steps, as in the code: `RecordKey` sets the handle, `SendKey` writes the key.

The theorems are in `BackendPoolProofs`, `PooledLeaseProofs`, `PooledCleanProofs`,
`RelayProofs`, `CustomForwarderProofs`, `FramedReaderProofs` and `StartupProofs`.
`QueueFacts` has what they need to know of queues: what `Append` and `Tail` leave in
place, and how they change the number of frames of a kind. The `MC...` modules give
constants their values for TLC.

## The runs

| run | what it asks | result |
|---|---|---|
| `pool` | three clients of two roles, three connection identities for a pool of two, two replicas: bounds, keys, no starvation, the lease contract | holds |
| `pooled` | transaction mode over two connections, with aborts, failed dials, failed statements and notices: clean idle backends, own replies, no lost answer, no leaked key, permit or lease, the contract with cleanliness | holds |
| `pooled_statement` | statement mode, capacity one, with and without a reset query, under fairness: queries are answered, hung-up sessions end, idle backends are clean | holds |
| `pooled_cancel` | transaction and session mode over two replicas, with crashes, dropped tasks and late cancels: own replies, every running statement can be cancelled, a slot outlives its lease only in the windows below, a late cancel of a copied session reaches nobody else | holds |
| `relay` | a session between sockets of two frames, with answers of three: requests are answered, nothing is cut off, the relay ends with its client or backend | holds |
| `custom` | custom sessions with pipelining, late cancels, aborts, reconnects | holds |
| `framed_reader` | all splits, cancellations and cut-offs of six streams, three of them with an illegal length, by either call | holds |
| `startup` | all combinations of versions, authenticators, forwarders, cancellation, verifiers and backends, with clients that stray from SCRAM in every field: TLS and authentication first, right credentials accepted and their keys reusable, one completion, agreed versions, keys that fit and are routed, and an end | holds |
| `pipelined` | clean idle backends when a client sends ahead | violated |
| `stale_slot` | a cancel captured now cannot hit another client | violated |
| `startup_options` | a client's backend runs with its own startup options | violated |
| `startup_negotiation` | only unreachable, failing or md5 backends cause a rejection | violated |

The violated ones are statements of the documentation or of comments that the
code does not keep:

* `pipelined`. `relay_to_next_rfq` forwards a second query while the first is
  being answered. The first `ReadyForQuery` ends the lease, `reset` takes the
  second query's `ReadyForQuery` for that of `DISCARD ALL`, and the backend is
  pooled with frames still on its way. The other pooled runs therefore use
  `MaxPipeline = 1`: what they show holds for clients that wait for each answer.
* `stale_slot`. The lease is checked in before `handle.clear()`, so for an
  instant the slot names a backend that another client may hold.
  `SlotTracksLease` bounds that window. The slot outlives its lease in two more
  places, after a lease that failed and in a task that was dropped, where the lease goes
  before the handle; there the backend it names is closed, so that a cancel captured
  then reaches nobody.
* `startup_options`. The startup frame is replayed to open a connection but is
  not part of its key, and `DISCARD ALL` returns to its options.
* `startup_negotiation`. The proxy negotiates with the client and replays the
  original frame; a backend that negotiates too makes `PgConnector` fail.

Four results hold within limits worth knowing:

* Copying never has client, proxy and backend wait for each other. Relaying by
  frames does not as long as a client is at most `Cap + 1` requests ahead of its
  answers, which is what the run allows; with one more, a client that goes on
  writing before it reads can fill every socket and stop all three. No document
  promises otherwise, and clients that wait for a `Sync`'s answer are far from it.
* `VersionAgrees` holds for backends no newer than the proxy's own maximum. The
  startup frame is replayed verbatim, so a backend that is newer would agree to a
  version that the proxy has already talked the client out of.
* `KeysReusable` is about backends that hold the verifier the client was checked
  against. If the store's verifier is stale, a direct client has already been told that
  it is authenticated (`AuthenticationSASLFinal`) when it is dropped without an error
  message.
* `LateCancelSpares` is about session pooling. In the other modes a cancel that is
  delivered late can interrupt whatever its backend runs by then, as with PostgreSQL
  itself; `OwnReplies` and `CleanIdle` show that nothing worse comes of it.

### Bounds

Two clients are enough for every exchange of a backend; the pool run has a third
client and a second role so that keys and eviction matter, and two replicas so
that the round-robin wraps. It has one connection identity more than the pool may
open, so that exceeding the bound could show. Elsewhere two connections (three with cancels, whose targets
must stay distinct from new connections) allow reuse, eviction and replacement.
`MaxInbox` and `MaxWire` bound frames that wait; two frames on a wire hold a
query's data and status. `MaxCancels = 1` in flight is enough to be late by any
number of statements, and two in the custom run can be out of order.
In the relay run an answer is longer than a socket, so the backend blocks in the
middle of one, and a copying client may be three requests ahead of what a socket
holds.
`MaxQueries = 3` lets a cancel be late by two queries and by a reconnect. The
streams of `framed_reader` cover no frame, an empty body, short ones, one exactly at
the cap, one a byte above it, and lengths below four, with bytes behind them and
without. The startup run has minors below, at and above the proxy's
maximum and backends of both generations, and the two passwords and two salts that
it takes for a verifier to be wrong in either. Symmetry is used only in runs without
liveness properties.

Deadlock is checked except in the startup, reader and relay runs, where a finished
connection, stream or session really stops; there `StartupEnds`, `AllReturned`,
`RequestsAnswered` and `RelayEnds` say that nothing stops too early.

### Fairness

The runtime polls a task that can go on (weak fairness of the task's steps);
rama's semaphore is FIFO, so a call that waits for a permit is served (strong
fairness of `Acquire`); dials end, backends answer, a handler returns. Two
assumptions are about others and no timeout in the code enforces them: a client
that keeps its backend in a transaction or a batch while no query of its own is
unanswered sends its next query or disconnects (`ClientFinishes`), and in the pool
module a holder gives its lease back. A client that waits for an answer is not assumed
to do anything, so that a relay that stalls would violate `QueryAnswered`. A reader that loses races is
called again (strong fairness, since it may lose any number of them). In
`Startup` the client goes on with its startup. In `Relay` each direction of a copy
is polled by itself, the client reads what arrives and closes after the end of the
stream, and the backend works its requests off. Connects, aborts, crashes and
cancels are never assumed to happen.

## The proofs

Every invariant and every refinement that a passing run checks is also a theorem,
for every value of the constants that satisfies the modules' assumptions. Each
proof rests on an inductive invariant, which is proved for the initial states and
then action by action.

`BackendPoolProofs` proves, for any finite sets of clients and connections and
any sizes, that the pool's types, `OwnId`, `OpenBound` and `PermitServable` hold
and that it implements `LeaseContract`. The bounds are not inductive alone. The
inductive invariant `PoolInv` adds that a client that dials or holds has exactly
one connection (`LesseeUnique`), that a connection dialled or leased has a lessee
in that stage (`LesseeStage`), and that permits are bounded (`PermitBound`);
from it, counting gives that the connections in use inject into the permits in
use, so a client that was granted one of `MaxSize` permits and has no connection
yet leaves either a free slot or an idle connection.

`PooledLeaseProofs` is about leases, registrations and cancel slots of
`PooledForwarder`, with any mode, any faults and clients that send ahead as far as
they like. Its first lemmas show that every step of the forwarder is a step of the
pool or leaves it alone, so `PoolInv` carries over. `TaskInv` adds where each task
is: which stage its `lease()` call has (`StageOK`), which backend its slot names
(`SlotOK`) and which parts of the task belong to session mode (`ModeOK`). From it
follow `NoLeak`, `SlotTracksLease` and `StatementCancellable`. `LateCancelSpares` needs
`LateInv` as well: in session mode the target of a cancel in flight is held by its own
session's copy or closed, and a closed connection that a cancel may still mean is
never opened again (`StaysClosed`).

`PooledCleanProofs` is about what is on a connection, under the hypothesis
`MaxPipeline = 1`: clients wait for the answer to a query before they send on. The
hypothesis is needed, as run `pipelined` shows. `CleanIdle` alone says nothing of
leased connections, so `CleanInv` says for each place a task can be at what its
backend has on the wire (`HeldOK`): nothing while a statement is not forwarded yet,
only the client's own frames while it is relayed, with a `ReadyForQuery` being the
last word (`Settled`), nothing at the boundary, and only the reset query and its
answer during a reset, where an answer without an error means that the session
state is gone. `CleanIdle` and `OwnReplies` follow, and that the forwarder
implements `LeaseContract` with cleanliness (`ImplementsContract`), the step that
matters being a check-in: it happens only with a clean backend. `AnswerInv` adds
the count of queries unread, at the backend and on their way back, which gives
`NothingLost`.

`RelayProofs` proves `DrainedAtEnd`, on top of `RelayTypeOK`, for any socket capacity,
answer length and number of requests. Sockets that are within bounds do not yet give that
nothing is cut off at a `ReadyForQuery`; `RelayInv` adds that a direction that was shut down
is drained (`ShutOK`), that the frame loop holds one frame (`OneHand`), and that the
backend has sent and still has to send no more than `ReplyLen` frames for each
request it took (`Answers`). So when the client has been written as many full
answers as it sent requests, the backend has taken every request and owes nothing
(`FewerFrames`: the arithmetic is not linear, hence a lemma).

`CustomForwarderProofs` proves the types, `CancelOwnQuery`, `SlotIsQuery`,
`ToldIsStatus`, `FailedRejected` and `AwaitedIsPending` for any sessions and bounds.
`CustomInv` (`TokenIsQuery`, `RegisteredWhileOn`, `CancelsAreWanted`) ties the running
query's token to its number and says that every token in a
slot, in flight or fired belongs to a query during which a cancel was looked up
or that is running now; tokens of later queries do not exist yet. `PendingInv` adds
the places where `AwaitedIsPending` says nothing: before the session is up, inbox
and count are empty.

`FramedReaderProofs` proves, for every stream, with legal lengths or not, and every
cap, that frames come out whole and in order, that no byte is taken early of the frame
after a legal one, and that only a stream cut between frames ends cleanly. The key
lemma is that boundaries increase strictly, so the header at the front of the
buffer is that of the next frame to return.

`StartupProofs` proves the properties of `Startup` for any versions, passwords,
salts, deployments and backends. `TlsFirst` needs `InTheClear`: before TLS nothing
was sent or dialled, and no phase leads back. `VerifiedFirst` needs `VerifiedInv`,
which says what each phase of the authenticator has established; the step that
matters is the lemma `AcceptedIsProper`, that the proxy's checks on two messages
together imply an exchange as RFC 5802 has it and the stored password.
`RightAccepted` is the converse, through `ProperIsAcceptable` (every first message that
the RFC has passes the proxy's checks) and `RefusedIsWrong` (the salt presented is the
verifier's). `KeysReusable` follows from the keys kept being those of the verifier and
from the order in which a faithful backend sends its SASL messages (`RightInv`).

The other properties are about what has been relayed when a startup completes, and
rest on what the backend has left to send. `ScriptInv` says that a backend that has
not failed ends with `AuthenticationOk`, parameters, key and `ReadyForQuery`, told
apart by how many messages follow (`Ordered`). `SeenInv` counts what the client was
shown against that (`Told`; `Recorded` between the two steps of a direct
session's key), and gives `OneCompletion` and `KeyMediated`.
`VersionInv` says that the version is settled or the backend's
`NegotiateProtocolVersion` is still to come, and gives `VersionAgrees` under the
hypothesis that backends are no newer than `MaxMinor`; the startup frame is replayed
as it is, so the hypothesis is needed (see the limits above). `KeyFitsVersion` needs
no such hypothesis: `SpokenInv` bounds the version the client was told before a
backend comes in, and `LongInv` says that only `synthesize_startup` sends a long
key of the proxy's, and that a direct backend whose own key is long agreed on 3.2
with the client. `StartupTyped` needs the other invariants: the keys kept after a proof are the
stored ones, and a version is taken from a backend only after it was dialled.

The assumptions are those stated in the modules (`PoolAssumption`,
`ForwarderAssumption`, `RelayAssumption`, `CustomAssumption`, `StreamAssumption`,
`ScramAssumption`, `StartupAssumption`) and the two hypotheses named above.

Model-checked only are the liveness properties: `LeaseServed`, `QueryAnswered`,
`HangupEnds`, `CustomHangupEnds`, `AllReturned`, `StartupEnds`, `RequestsAnswered` and
`RelayEnds`. Liveness under fairness is outside what the installed provers do.

## What is not modelled

* The TLS handshake, message layout, SQL text, base64 and hashes. Cryptography is
  ideal, so nothing is said about guessing or timing.
* `copy_body_to`, which nothing in the proxy calls, and the formatting of messages
  (`protocol/message.rs`): pure computation with unit tests.
* Backends that send no `BackendKeyData` (no cancel target).
* An admin connection's query in `PgAuthidStore`: it yields a role's password or
  fails.
* The configuration and console of the `pgbouncer` example. Its client list is not
  cleaned up when a connection's task is dropped, and `SHOW STATS` reads two
  counters one after the other; a wrong count shown is the only effect.
* The extended protocol in the custom forwarder, which the repository's README
  excludes, and a `ReadyForQuery` without a status byte, which PostgreSQL does not
  send.
* Which status an error in the custom forwarder goes by when the handler has changed
  the status meanwhile: the code uses the one it read before the await, and neither the
  documentation nor the handler's trait says that it should be the other.

## Plan

The order was the pool and its contract, the pooled forwarder with the registry, the
custom forwarder, the reader, the startup with SCRAM, the relay between bounded
sockets, and then the proofs in the order of the section above, the pooled forwarder
last. What is left:

1. the steps of the proofs as theorems of their own where they say something about
   the code: a backend changes hands only through the pool, a cancel slot changes only
   by its own task;
2. how far `CleanIdle` can be had for clients that send ahead: session mode does not
   pool, so it needs no bound on pipelining there.
