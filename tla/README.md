# A TLA+ model of locho

locho tunnels HTTP and TCP services of a *host* to *attachments* on other
machines over one QUIC connection per peer. This directory models the parts of
the Rust code that run concurrently, hold limited resources or survive crashes,
checks them with TLC and proves every safety property of them with TLAPS. Paths
below are relative to the repository root.

## The system

| Component | State it keeps | Operations | What is hard | What makes it correct |
|---|---|---|---|---|
| Peer session (`crates/locho-core/src/session.rs`) | status and connections channels, shutdown token, generation, stream permits | `start`, `acquire`, `open_tcp`, `invalidate`, `close`, the driver's `run`/`supervise`, three `Drop`s | callers on other threads act between any two writes of the driver; notifications can be consumed early; leases outlive their connection; the driver can be dropped at any await | no lost wake-up, leases only of the newest connection, stale leases harmless, permits conserved, `Closed` final and complete |
| Native client (`crates/locho-client-native/src/client.rs`) | registry, per attachment a token and a status, two child tasks | `start_tcp`, `attach_tcp`, both `close`s, drops of futures and handles | five owners may cancel in any order; cleanup runs under a budget; the runtime may disappear | nothing runs on without an owner, results are reported after release, causes are kept, every call returns |
| Forwarding (`forward.rs`, `listener.rs` beside it) | two semaphores, accept back-off, connection tasks | `serve_listener`, `forward_connection`, `AcceptRetry::accept` | two limits taken one after the other; the accept future is cancelled and recreated; relays ignore shutdown | exact budgets, back-off kept, bounded shutdown |
| CLI attachment process (`src/attach.rs`) | listeners, driver, reporter, signal, exit code | `run_attachments`, `run_http_listener`, `tunnel_request` | a signal during startup, a dying driver, a failing listener and a close that times out take different exits | every exit releases everything, every reason to stop ends the process |
| Wire protocol and relay (`crates/locho-core/src/protocol.rs`, body loops of `attach.rs` and `host.rs`) | body counters on both sides, idle deadline | head and body framing, `relay_with_idle_policy` | either side may stop, time out or disappear in the middle of a body; the upstream may answer early; activity does not wake the deadline | a body arrives whole or the exchange visibly fails, limits are exact, nobody waits for ever, only idle relays expire |
| Host server (`src/host.rs`) | connection and stream tasks, TCP permits, upload tasks | accept loop, `handle_connection`, `handle_peer_stream`, HTTP and TCP handlers | STOP_SENDING, deadline, abort and the normal end race for one stream | at most one response head, exact permits, nothing detached, half-close survives |
| Host state (`src/state.rs`, `src/main.rs`, start of `src/host.rs`) | `state.lock`, `host.key`, `host_state.json` | `host`, `rotate-secret`, `reset-identity`, `share` | processes race and crash between file operations; `share` does not lock | the host agrees with the disk, revocation is final, capabilities survive restarts |
| Unix listener guard (`crates/locho-client-native/src/unix.rs`, `unix/filesystem.rs`) | directory entry, socket identity | `bind_unix`, `chmod_socket`, `unlink_owned` | the entry is replaced and inode numbers are used again between any two system calls, each of which may fail | only own sockets are restricted or removed; a guard that exists takes its socket with it unless the system refuses |
| Browser SDK (`crates/locho-web`, `packages/locho-web`) | session, request permits, owner tasks, JavaScript streams | `connect`, `fetch`, `fetchStream`, `health`, `close` | pull, cancel, abort, finish, release and close are callbacks that race; Rust objects are freed by hand | clean ends only for whole bodies, no borrowed object freed, permits come back |
| Flutter SDK (`packages/locho_flutter`), DNS recovery (`src/dns.rs`) | Dart handles; two resolvers | | callbacks that race closing | not modelled |
| Tickets, capabilities, relay and configuration parsing, diagnostics, generated code | none | pure functions, input and output | | not modelled |

How they interact: an attachment (native client or CLI) owns one peer session
and hands clones of it to its listeners; a listener leases a connection for each
local connection and relays bytes; the host accepts the resulting streams. The
client watches the session's status and turns it into its own. The host's
identity and secrets come from the state files, which other commands edit.
Everything is tokio tasks, watch channels, cancellation tokens and semaphores:
an action of a model is the code between two points where another task can
observe or change shared state.

`PROJECT.json` lists the hazards of this code at their lines, with the
properties that cover each.

## Modules

| Module | Models | Run by |
|---|---|---|
| `SessionContract` | what a session promises its users, abstractly | refined by `PeerSession` |
| `PeerSession` | session, driver, leases, streams, close | `MCPeerSession` |
| `PeerSessionProofs` | theorems about `PeerSession` | tlapm |
| `NativeClient` | client, attachments, supervisor task | `MCNativeClient` |
| `NativeClientProofs` | theorems about `NativeClient` | tlapm |
| `Forwarder` | listeners, budgets, accept retries, connection tasks | extended by `AttachProcess` |
| `AttachProcess` | the process of `locho attach`, around `Forwarder` | itself |
| `AttachProcessProofs` | theorems about `AttachProcess` and `Forwarder` | tlapm |
| `ExchangeContract` | what the tunnel promises about an HTTP exchange, abstractly | refined by `Tunnel` |
| `HttpTunnel` | one HTTP request between local client, attachment, host and upstream | extended by `Tunnel` |
| `Relay` | `relay_with_idle_policy` | extended by `Tunnel` |
| `Tunnel` | one stream: an HTTP request or a relay | itself |
| `TunnelProofs` | theorems about `HttpTunnel` and `Relay`, as composed in `Tunnel` | tlapm |
| `HostServer` | host process: connections, streams, requests | `MCHostServer` |
| `HostServerProofs` | theorems about `HostServer` | tlapm |
| `HostState` | state files and the commands on them | `MCHostState` |
| `HostStateProofs` | theorems about `HostState` | tlapm |
| `UnixListener` | Unix sockets of several processes at one path | itself |
| `UnixListenerProofs` | theorems about `UnixListener` | tlapm |
| `WebClient` | the browser SDK's client and requests | itself |
| `WebClientProofs` | theorems about `WebClient` | tlapm |

Definitions introduced by a comment `Fault:` are deliberately wrong variants of
the definition that follows; the specifications do not use them. Each property
is known to fail when the fault that `PROJECT.json` names replaces its original.

### PeerSession

`drv` is the driver's position in `run`, `supervise` or `Drop`; each write to a
channel is a step of its own, because callers may act between two writes (the
status says Connected before the connection is published, and is unpublished
before the status changes). `conns` is the connections channel: the published
generation or 0. A watch channel is its value plus `unseen`, the receivers that
have not seen its latest version; `borrow_and_update` and `changed` remove the
receiver, `send_replace` makes all unseen, `borrow` does neither. `live` is the
set of generations whose QUIC connection has no `close_reason`. A caller walks
through `acquire` (check, borrow, wait), `open_tcp` (permit, opening,
authorizing), a stream, and `suspect`, where a failed call looks at
`close_reason` and perhaps invalidates. The selects are biased and keep their
order: a branch is guarded by the negation of the ones before it where they are
stable. Deadlines are steps that may be taken at any time.

`SessionContract` says: connections are offered one at a time with ever newer
generations; an offer is withdrawn only when its connection is dead or the
session is stopping; and a session that was asked to stop ends once with a result
that stays. So a lease of a lost connection that is invalidated late withdraws
nothing newer. The refinement counts a generation as issued when it is published,
and the offered one as broken when it is not `live`.

### NativeClient

`task` is the position in `run_attachment`. The three local results that matter
are `failure`, the status (`state`, `terminal`) and `reply`, the oneshot channel
to the startup future. The peer session is reduced to what it can publish: the
statuses in the order `PeerSession` produces them, plus the drop of its driver.
The listener task is its port. `ExecutorStalls` allows the 13-second timers of
the close calls to expire and a task to be lost before its first poll;
`RuntimeDrops` allows a runtime to be destroyed under a task. Both are constants
because the documentation excludes them from what `close` promises; the safety
run has both, the liveness run only the second.

### Forwarder and AttachProcess

A listener holds `MaxListener` permits, the process `MaxTotal`; `fwd` is each
connection's task. `armed`, `left` and `delay` are the `AcceptRetry` of the
listener's task, `accept` is the future that borrows it: in its sleep, or in
its call of accept(). `Reap` is the `join_next` branch of the select: the future
is dropped wherever it is and the next turn of the loop makes a new one, which
knows only what `AcceptRetry` knows. Time is counted in units of 100 ms. `owed`
and `waited` are histories, the wait that the last failures call for and the time
since the last one, which `BackoffKept` compares with what the code has kept.
`serve_listener` joins what it aborts; `run_http_listener` does not, and its
tasks end when its `JoinSet` is dropped.

`AttachProcess` extends `Forwarder` with the main task: startup (endpoint, one
listener after the other, each await raced with the signal), the loop that waits
for the first reason to stop, and the wind-up in the code's order: close the
session, drain the listeners, join driver and reporter. A failing close keeps
the result but does not skip the rest. The session's driver is reduced to its
end, by request or by itself.

### Tunnel: HttpTunnel and Relay

`HttpTunnel` follows one request through both processes. A body is counted in
units; `up` and `down` hold the pieces in one direction of the QUIC stream, at
most `Window` of them, and an end mark that tells a finish from STOP_SENDING. A
piece of a framed body is a frame, 0 the end frame; a body of declared length is
simply bytes, so the host may see it end early. The host's upload is a task of
its own whose end closes the upstream request body in the same way whether it
succeeded or not, as dropping the sender does. `seen` is what the upstream can
conclude from it. `Deadline` is the host's request deadline; the attachment's
deadlines are `ResponseTimesOut` and `ReadTimesOut`.

`ExchangeContract` says what both ends of the tunnel can see of it: the upstream
is handed at most the request and its answer is accepted only after all of it;
the local client is given one status, bytes only behind the upstream's status and
only such as the upstream has sent, and one end, which is a proper one only after
the whole response. `Tunnel` maps it to the counters of both processes, the head
that the host wrote and what hyper was given.

`Relay` keeps the age of `activity` and the ticks left of the sleep. Bytes in a
direction's buffer, half-closed directions and polls that move nothing are
distinguished because only moved bytes may count as activity.

### HostServer

`stream` is the position in the stream task; `sent`, `received` and `broken` are
what the relay and STOP_SENDING see of the stream's halves. A request is a
record of the facts the checks look at. Response heads are counted, not built.

### HostState

Each file operation is a step; a process may end between any two of them
(`Exit`), which releases its lock. Keys and secrets are drawn from counters.
`revoked`, `adopted` and `issued` are histories for the properties. The order of
`host` is the code's: lock, key, bind, load, drop and draw secrets, build HTTP
clients, save.

### UnixListener

One step per system call of `bind_unix` and of the guard's `Drop`; each may
fail. `bind_unix` returns without a guard when `identity()` fails after the bind,
and `unlink_owned` gives up silently when its look at the entry or the removal
fails: such an entry stays and is marked `stale`, as is that of a process that
died, and the next bind at the path is refused until somebody removes it. An inode
number is in use while an entry, an open listener or an `O_PATH` descriptor names
it, and may then be given out again. `filesystem.rs` says that processes of the
same user are trusted not to race the path; the model needs this only between
`bind` and the first look at the inode, and between the close of the listener
and the removal (`Exposed`). Everywhere else the user may remove or replace the
entry. That the listener is closed before the identity is compared is what makes
the second window necessary: the inode number is free in it.

### WebClient

WebAssembly and JavaScript share one thread, so an action is what runs between
two awaits. Per call: the promise (`call`), the Rust future (`task`), the task
that owns a streamed body (`owner`), its permit and cancellation, and the
JavaScript side (`next`, `stopping`, `released`, `reader`). A response is a
combination of the facts `head` looks at. Of its body `wire` keeps the upstream's
side: what it sends next, the bytes left of the current chunk and of the body.
The upstream chooses the size of a chunk when its line is read, and any line may
be another one than the coding allows; a read returns a part of what comes next,
an error or an early end. A body is forgotten when it is dropped; `short` remembers
whether it ended cleanly too early. `health`, which reads to the end of the
stream and then compares lengths, is one step.

## Runs

| Run | Bounds | Shows |
|---|---|---|
| `peer_session_safety` | 2 callers, 1 permit, 2 routes, new outcomes up to revision 7 | a lease of generation 1 meets generation 2, two callers compete for the permit; the session refines its contract |
| `peer_session_liveness` | 2 callers, 1 route, revision 3 | shutdown, withdrawal and wake-ups, with a connection, its loss and a new attempt |
| `native_client_safety` | 1 attachment, 2 closers, stalls and runtime drops | ownership, release before report |
| `native_client_liveness` | 1 attachment, 1 closer, runtime drops | startup and close end |
| `native_client_closes` | 1 attachment, no closer, no stall, no drop | *violated*, see below |
| `host_state` | 2 processes, 2 services, 3 keys, 3 secrets | all state properties, deadlock checked |
| `host_server` | 1 connection, 2 streams, 1 permit, good requests and one with each defect | both streams want the permit; response heads, uploads and half-closes under every end of a stream; release by STOP_SENDING and shutdown |
| `attach_process` | a TCP and an HTTP listener, 2 local connections, 1 permit each and in all, back-off of 1 unit, then 2 | budgets when the second semaphore refuses; accept() fails again and again while connections that ended are reaped in its sleep and in its call; every exit of the process |
| `forwarder_budget` | 2 TCP listeners with 1 permit each, 3 connections and permits in all | *violated*, see below |
| `tunnel` | bodies up to 4 with limit 3, frames up to 3 cut to pieces of 2, 2 pieces in flight; idle timeout of 3 ticks | bodies below, at and above the limit, frames larger than a piece, a full window under a blocked writer; the exchange refines its contract; activity at every age of a sleep |
| `web_client` | 1 streamed and 1 plain call, 1 permit, bodies up to 3 read 2 at a time, buffered up to 2, 1 interim head | permit contention, every chunking of a body, chunks read in parts, each line corrupted, bodies beyond the buffered limit, close at every moment |
| `unix_listener` | 2 processes, a user, 4 inode numbers | reuse of inode numbers, replaced entries, failed system calls, crashes; deadlock checked |

Attachments of one client share only the registry, streams of a host only the
permits and their connection, listeners of a process only the total budget, calls
of a browser client only permits and shutdown: one attachment with several
closers, two streams, two listeners and two calls reach every interaction.
Callers, closers, processes and services are interchangeable, so the safety runs
of those modules use symmetry; runs with liveness properties do not.

Models that stop on purpose (a closed session, a stopped host) switch deadlock
checking off; `host_state` and `unix_listener` keep it on.

### Where the code and its documentation disagree

* `native_client_closes`: `docs/native-client.md` line 62 says that concurrent
  closes observe the same final result. When the driver task dies, the
  supervisor's loop head publishes the session's `Closed` as the attachment's
  state, with no error yet and the listener still bound. An `Attachment::close`
  that looks at this moment returns `Ok`; the next one returns the error.
* `forwarder_budget`: `docs/unix-sockets.md` line 110 (also the README and the
  FAQ) limits raw streams to 128 per attachment process. The code has 128 per
  listener and 512 per process.

## Fairness

Weak fairness is assumed of what the executor polls: the session's driver (the
documentation requires a persistent executor), calls in progress, aborted tasks,
the library's own timers (cleanup budget, drain deadlines, request deadline),
and a `Drop` once begun. Nothing is assumed of peers, upstreams, users or
relays: they may stay silent for ever. The startup deadline of an attachment has
strong fairness, because status news keep disabling its branch for a moment
while the deadline itself is absolute and its branch comes first in the biased
select. No fairness makes a caller's deadline pass, so the liveness properties
do not lean on it, except where the property is about that deadline.

In the attachment process the main task, its drain deadline and the session's
obedience to its token are fair, the last because `peer_session_liveness` shows
it. In the tunnel only what a deadline or the transport forces is fair: a write
on a stopped or lost stream fails, the attachment's wait for a head and the
host's request end, an opened stream gets its task. Reading, upstream progress
and the local client are not. Time is fair in the relay. In the browser, promises
that can settle do, the owner task is polled and the session's close returns;
that a page reads, aborts or closes is never assumed.

## Proofs

Eight modules hold the theorems. Each is about the specification that the runs
check and holds for every value of its constants that satisfies the assumption
of its module: `SessionAssumption` (finitely many callers, none called "driver",
at least one stream permit, the route "none"), `StateAssumption` (no process is
called "nobody", natural bounds), `ForwarderAssumption` and `ServerAssumption`
(finitely many connections or streams, positive budgets), `TunnelAssumption` and
`RelayAssumption` (natural limits; pieces, frames, window and idle timeout are
not 0), `ClientAssumption` (the two switches are Boolean), `ListenerAssumption`
(the user is not one of the processes, inode numbers are not 0) and
`WebAssumption`. The finite sets are needed only where permits are counted. Each
inductive invariant was model-checked on the instance of the component's run
before it was proved.

Between them they state every safety property of the passing runs, both
refinements included: 29 of 40 properties, and the other 11 are liveness. The
theorems that no run repeats are type correctness, the inductive invariants, and
a few facts close to what a run checks: `PublishedIsConnected`, `ClosedIsFinal`,
`OnlyDeadWithdrawn` and `CloseReturnsFinalResult` of the session,
`OnlyRotationReplaces` of the state, `ResponseWhole` of the tunnel (on the run it is
part of `ImplementsExchange`), and `PromptTheorem` of the relay.

`PeerSessionProofs`: type correctness, then `DriverInv`, which says what each
driver position implies: before "publish" and after "clear" nothing is
published; a published connection is the newest and the status says Connected
unless shutdown has begun; a live connection is the newest and only where the
driver owns one; none is live where the driver withdraws one; beyond "closing"
the token is cancelled. None of the listed
properties is inductive without it: that a Closed session has no live
connection, for instance, needs to know that only the newest can be live and
that a lease withdraws only a dead one. The wake-up properties follow from a
lemma on what each driver step does to `unseen` and one on what callers may do;
`CloseTheorem` uses that Closed is final; `PermitTheorem` counts the callers at
positions that hold a permit; `ContractTheorem` maps each step to a step of
`SessionContract` or to stuttering, and needs the clause on "clear" because the
contract lets only dead connections be withdrawn while the session runs.

`HostStateProofs`: type correctness; `LockHeld`, at most one process is at a
position under the lock; `InStep`, a process that has read key and state under
the lock still agrees with the disk; `Unrevoked`, what is on disk is not among
the revoked; `OwnerAdopted`, the identity in the state file, and one that
`share` has read from it, was adopted. From these follow
the invariants checked by `host_state`, and its action properties, which say who
may replace or drop a capability.

`NativeClientProofs`: every step of the supervisor, of a listener and of a
session driver has an `Effect` that its owners can rely on: it starts nothing,
takes back no cancellation, leaves the other attachments alone and leaves the
registry only at its very end. `ClientInv` adds the books of the owners: a task
that has not completed is registered as long as a client handle lives; a closer
has shut the client before it looks who is inside, and holds every running task
in its list until it has cancelled them. `CloseCancelsAll` is not inductive
without the last part, `NoOrphan` not without the first (the last client handle
cancels what is registered). `FinalReportReleases` needs that the reply is an
error only at the end of the task and that no child exists before the setup.

`AttachProcessProofs`: types and `BudgetsExact` are one inductive invariant. A
budget stays below its limit because each ended task gives back what it holds,
so neither can be proved first. Three lemmas (a task starts, ends, or stays as
it is) do the counting for all actions. `RetryInv` is `BackoffKept` with what makes
it inductive: the time left is what is owed less what was waited, the next delay
is the one after the delay that is owed, an armed `AcceptRetry` is one that owes,
and a future calls accept() only when nothing is left. `StageInv` says what each stage of
`run_attachments` has started and not yet stopped.

`HostServerProofs`: a step of a stream task is well typed and leaves the other
streams alone (`StreamEffect`), the host and its connections change no stream
task (`OthersEffect`), and a permit moves exactly when a stream enters or leaves
the positions that hold one (`PermitEffect`). `HeadInv` is what
`OneResponseHead` needs to be inductive: no head is counted before the response
position, nor in a failed stream whose `response_started` is not set, and the
flag is set while the body is sent.

`TunnelProofs`: `HttpInv` says for both directions that what was sent is what
was received plus what is in flight. The sum over a sequence of pieces is a
recursive function, about which this prover can show nothing for every input;
`Trail` states instead that there is a function of partial sums, from what has
left the pipe to what has entered it. `Append` and `Tail` extend and shift that
witness, so no induction over the sequence is needed. The other half of the
invariant is order: an empty piece is the last one and comes after the whole
body. `UploadWhole`, `ResponseWhole`, `LimitExact` and the bounds of the types
follow. `AnswerInv` adds the order of the answer: the host writes one head, before
any byte of a body and never over another, and the status the client was given is
that head from `ReadResponse` on. With it `ExchangeTheorem` maps each step of
either process to a step of `ExchangeContract` or to stuttering: a piece that is
read was sent because the trail of the response ends at `total`, a piece that is
uploaded is within the request because its trail ends at what was written, and
the head is written only where the upload was joined. `IdleInv` bounds the sleep
of a relay by what is left of the idle period, which gives both directions: a
relay expires only when idle, and its sleep is over when the period is.

`UnixListenerProofs`: `ListenerInv` says of each guard that its open listener
pins the inode it remembers, so that an entry with this number is its own, and
that an entry that is not stale is accounted for by its process. It is kept
when the number becomes free only because nothing is created at the path while a
process is `Exposed`; this is where the proof uses the trust that
`filesystem.rs` asks for.

`WebClientProofs`: `WebInv` speaks of the control state alone, so that it does not
depend on what a read returns. It says when a stream can be read, that the owner task
only answers a pull that is there, that finish() comes after the last pull and
release() after both, that an open stream is released only when its owner task
is done, and that a closing client awaits every open stream that is not
released. `FreedUnborrowed` fails to be inductive without the first and
`CloseReleases` without the last two. `BodyInv` is about the bodies: `Fits` says
that the framing expects exactly what the upstream sends next (a chunk with as
many bytes left, the line end after it, a size line, the last line, or bytes up
to the length or the end of the stream) and that what was handed on and what is
left add up to the size. `AnswerFits` shows it of every head that is accepted,
`LineFits` and `BytesFit` of the lines and bytes of `Body::next`. `BodyWhole`
follows, because a reader that expects nothing more stands at the last byte. The
upstream's chunks are numbers chosen as they are read and not a sequence, so that
no induction is needed.

Only model-checked is liveness (`DeadConnectionWithdrawn`, `WaitersWake`, the two
`ShutdownCompletes`, `StartupAnswered`, `ClientCloseReturns`,
`StopSendingReleases`, `ProcessStops`, `RequestMovesOn`, `SilentRelayEnds`,
`PausedBodyEnds`), because fairness and ENABLED are outside the prover's reach.

## Abstractions and limits

Headers, log output and, outside `Relay` and the accept back-off, wall-clock time
are left out; a timer
may expire whenever it is armed. Bodies are counted, not compared byte for byte:
that bytes keep their order is what QUIC and TCP provide. Iroh, QUIC, reqwest,
hyper, the file system and tokio are external: connections may be lost, endpoints
close and requests fail at any time, file replacement by rename is atomic, and
tokio's watch channels, tokens and semaphores behave as documented. The session's
reconnect delay is not modelled: no property depends on its length.

The components are composed through their interfaces: `AttachProcess` and
`NativeClient` see a session as what `PeerSession` lets its users observe, and
`HostServer` and `HttpTunnel` describe the same stream task, the one with its
permits, connection and shutdown, the other with its bytes.

An upload of unknown length that breaks off looks complete to the upstream,
because the host drops the sender of the request body in both cases. `UploadWhole`
therefore claims the upstream's view for declared lengths only, and for all
uploads that the upstream's answer to a short one is not passed on.

A reset-identity that dies between its two removals leaves the secrets of the old
identity, and the next host start adopts them under its new key. `HostState`
contains this behaviour and no property forbids it: the command has not reported
success, and running it again removes them.

## Not modelled

* Host DNS recovery: each lookup races two resolvers and merges two results.
* The Flutter SDK: its Rust side hands calls to the native client; the Dart
  wrapper's sequencing and its polling status streams are outside this project.
* Status observers of the browser SDK, which read the session's status.
* macOS variants of the Unix listener (a bind thread and `fchmodat`).
* Tickets, capabilities, proofs of secrets, relay and configuration parsing,
  diagnostics: pure functions and output. `frb_generated.rs` is generated.

## Plan

Every component of the plan is modelled, and its safety properties are proved.
What could follow: the Dart wrapper of the Flutter SDK, whose start races its
close; one abstract specification of the permits that session, host and forwarder
share in form; and a contract of `Client::close` that `NativeClient` refines.
