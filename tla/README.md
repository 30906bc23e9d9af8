# Verification of insler

TLA+ models of [insler](../src/README.md), a TypeScript monorepo with a dependency-injection
container (`packages/di`), contract-first RPC with an in-memory and a NATS transport
(`packages/rpc`), serdes (`packages/serde`), service declarations (`packages/service`) and a
platform that generates, plans, applies and heals deployments (`packages/platform`). TLC checks the
models on small instances; TLAPS proves the most important properties for every value of the
constants.

All of this code runs on one JavaScript thread per process: what interleaves is the code between
two awaits (or one callback), and that is what one action of the models is. Processes interact
through NATS (RPC) or through a shared state store (platform).

## 1. Inventory

Paths are under `src/packages`. `PROJECT.json` maps every definition to the lines it models and
lists the main hazards, each at its line with the properties that would catch it.

| Component | State it keeps | Operations | Hard behaviour | What makes it correct | Status |
|---|---|---|---|---|---|
| NATS server stream (`rpc/rpc-transport-nats/src`: `client-transport`, `host-transport`, `streaming`, `frames`) | a generator on the client, an async call on the host, an inbox on each side, sequence numbers, abort flags | open, publish, take, cancel, end, fail, unregister, connection close | lost or garbled frames, timers, a parked producer, teardown from five directions | no silent truncation, bounded frames in flight, both sides torn down, honest statistics | modelled, proved |
| NATS client stream and duplex (the same files) | as above, an input pump, two windows over one pair of inboxes | the same, with the host-ready gate and half-closes | grants of one direction queued behind the data of the other | inputs in order, windows conserved, nothing waited for in vain | modelled |
| NATS unary (the same files, `request-handler`) | requests queued on a queue group, replies in flight | request, serve, reply, time out | late, lost and garbled replies, stop with requests queued | the answer names its cause, the statistics count it once | modelled |
| Flow control (`flow-control`) | credit, parked senders, cancelled flag | acquire, grant, cancel, grantOnConsume | a cancel while a sender is parked | credits conserved, nobody stays parked | modelled, proved |
| Liveness (`liveness`) | idle timer, deadline | start, notify, expire, stop | a timer racing a late frame | never after the call | partly: an armed timer may expire any time |
| Discovery, statistics (`discovery`, `stats`) | `$SRV` subscriptions, counters per endpoint | PING, INFO, STATS, record | counting on five ways to answer | each request counted once | partly: which verbs answer and the counters, not the text of the answers |
| Leaf node (`leaf-node`) | a child process | start, connect, stop | failure half-way through | nothing left behind | not modelled |
| RPC client and host (`rpc/rpc/src/client`, `host`) | the middleware chain, registrations | create, register, stop, call by kind, validate, map errors | early returns in a chain, streams under middleware, registration that fails half-way | the tag of an error, the order of middleware, a host owns its methods | modelled, ownership proved |
| Contract and context (`rpc/rpc/src/contract`, `context`) | none | defaults, override, propagate | a method's own context overrides | the handler sees the caller's context | modelled |
| Memory transport (`rpc/rpc/src/transport-memory`) | handlers by key | register, unregister, dispatch | a host stopped in the midst of a call, a second stop | a method belongs to the host that registered it | modelled, proved |
| OpenTelemetry middleware (`rpc/rpc-otel`) | an open span per call | start, end | exceptions, streams | no span left open, its status is the outcome's | partly: no attributes |
| Serdes (`serde`) | none | encode, decode | | round trips of third-party libraries | not modelled |
| DI container (`di/di/src`: `container`, `resolved`) | bindings, values, stop callbacks and their order, resolutions in flight | start, init, resolve, stop | parallel levels, failures half-way, lazy resolutions that overlap each other and a stop, stops that overlap | factories after what they need, dependents stopped first, nothing left | modelled, proved in part |
| DI plan and manifest (`container`, `topo-sort`) | bindings, factories, deferred functions, link rules | register, expand, link, validate, sort, level, manifest | a fixpoint, cycles, a manifest asked for while deferred functions are awaited | complete, topological, tight levels; the manifest shows the plan | modelled |
| DI singleton (`singleton`) | an instance, its count, a creation in flight | use, create, release | several containers await one creation; failure; a stop that runs twice | shared, alive while held, closed when not | modelled, proved |
| DI tokens, inject, modules | none | constructors | | typing | not modelled |
| Reconciler (`platform/platform/src/reconciler`: `reconciler`, `diff`, `gate`, `control-loop`, `provider`) | actual and last-applied state behind a provider, the audit trail | plan, apply, detectDrift, applyGated, reconcileOnce, run | operators, loop and drift between each other's awaits; an audit sink that fails | no clobbering, a complete trail, intent only by review, drift healed | engine partly (no dry run, no failing provider), gate and loop modelled; proved |
| Plan rendering, blast radius | none | format, count | | | not modelled |
| Service definition (`service/service/src`) | none | declare, validate, resolve scale and isolation, identity, routes | numeric bounds, omitted fields | floors and ceilings | modelled |
| Fleet manifest and scanner (`platform/platform/src/fleet`) | the runtime's module cache | scan, load, validate, edges, routes | imports cached across scans | duplicates and dangling calls are found | modelled |
| Generator and plugins (`platform/platform/src/generator`) | list of plugins | generate, collect | names that flatten alike, one fact derived in three plugins | no service lost, calls granted, floors held | partly: names, references and bounds, no layout |
| CLI (`platform/cli/src`) | the snapshot file, watcher and queue of `insler dev` | scan, generate, dev | saves during a converge, a crash in the midst of a write | the last save is converged, a snapshot is never lost | `dev` and `generate` modelled; the other commands are thin wrappers |
| Websites, scripts, examples | | | | | not modelled |

How they interact: an RPC host wraps handlers and registers them with a transport; an RPC client
sends through one; the NATS transport meters streams with credit controllers and guards them with
liveness monitors. The container resolves `Managed` values, of which singletons are one source.
The CLI scans service declarations into a fleet manifest, the generator turns it into desired
state, and the reconciler plans and applies it through a state provider; the control loop corrects
drift through the same provider.

## 2. Modules

### 2.1 Streaming calls over NATS

| Module | Models |
|---|---|
| `CreditController` | class `CreditController` as operators on a record |
| `FrameSubscription` | the frames and `subscribeFrames`, the inbox that queues them for an iterator |
| `ServerStreamCall` | `invokeServerStream` of the client, `serveServerStreamCall` of the host and the network between them |
| `BoundedStream` | the abstract stream that a server-stream call promises its application |
| `UploadCall` | what client streams and duplex calls share: the input pump, the host-ready gate, the inboxes, the network, the closing events |
| `ClientStreamCall`, `DuplexCall` | the two ends of each kind: `invokeClientStream` and `serveClientStreamCall`, `invokeDuplex` and `serveDuplexCall` with its `drainUp` |
| `UploadCalls` | one call of either kind, its fairness and properties |
| `MCServerStreamCall`, `MCUploadCalls` | the instances for TLC |
| `StreamLemmas`, `ServerStreamCallProofs`, `UploadCallsProofs` | lemmas about inboxes, and the proofs about calls of each kind |

`cpc` and `hpc` (`client.pc`, `pump.pc`, `host.pc`) are where the client's generator, the pump and
the host's function are suspended; the other variables are the locals the code keeps (`terminated`,
`aborted`, `downCredit`, `seq`, ...) and the FIFO of each inbox. The network delivers in order but
may lose a frame or hand over one that does not decode (core NATS is at-most-once), within a budget
of faults. Timers are abstracted: an armed monitor may expire at any time. The handler ends, fails
(its wrapper yields an error response), throws or, for uploads, swallows an error of its input.
`ImplementsStream` is the refinement of `BoundedStream`: `sent` is what `seq` counts, `delivered`
what the application was given, `phase` what it has learned.

An open request that meets no subscriber is answered by NATS itself: the open names `down` as its
reply subject, so the empty no-responders message arrives there, where it does not decode
(`NoResponders`), and the application gets `__serde__`. One that NATS had passed on to a subscription
that is closing is dropped, and the call ends by its timer or not at all (`LoseOpen`). The wire encoding
is left out.

### 2.2 RPC calls

| Module | Models |
|---|---|
| `RpcPipeline` | what a call goes through that keeps no state: contract defaults, context, both middleware chains, the validating wrapper of the host, the reading of an answer |
| `RpcHosts` | `Host.create`, `stop` and the two transports' registries |
| `RpcCall` | calls of every kind over memory, unary calls over NATS, from the proxy to the handler and back |
| `MCRpcCall` | the instances for TLC |
| `RpcCallProofs` | the proofs about the registry and the calls |

`setup` fixes one deployment: the transport, the contract's method, how it is served, the
middleware arrays and the hosts. A host is new, up, failed in its creation, or stopped; its creation
may fail half-way with the earlier methods on the bus. An answer is its tag, as `RpcPipeline` says.
Middleware is of four sorts: `trace` (rpc-otel), `guard` (may answer, refuse or throw), `plain` (awaits
`next`) and `aware` (handles streams). Replies over NATS may be lost, garbled or late.

### 2.3 The container

| Module | Models |
|---|---|
| `Container` | `start()` from the first level on, initializers, `#resolveAny` and `#lazyExpand`, `stop()` |
| `TopologicalSort` | the depth-first walk of `topologicalSort`, a call or a return at a time, and the levels along an order |
| `ContainerPlan` | what `start()` computes before it calls a factory, and what `manifest()` says of it |
| `Singleton` | `singleton(factory)` |
| `MCContainer`, `MCContainerPlan`, `MCSingleton` | the instances for TLC |
| `ContainerProofs`, `SingletonProofs` | the proofs |

`Container` starts from every dependency graph over the tokens of one of its `Programs`, so one run
covers all of them. Factories, initializers and cleanups are external: they settle either way, in any
order. A program may stop the container with resolutions in flight and may go on resolving: `late`
remembers that it did, and the properties say what then still holds. `stop()` has no guard in the code
and each call walks the whole array again, so `loops` has one stop loop for each call, which may
overlap; a failed level and a failed initializer begin one too. Left out are initializers that call
`stop()` or leak their container, so that no loop of the application runs during `start()`. Lazy tokens have acyclic
dependencies: a cycle among them recurses synchronously in the code until the stack overflows. A lazy
resolution that failed stays failed: the code keeps its promise, and so does the model.

In `ContainerPlan` a dependency list is a set and its order is free: the expansion and the walk take
any member next, so every order of the lists and of the bindings is covered and names are
interchangeable. A walk is a record (`names` and `rest` are what the loops have still to visit, `path`
is the call stack); `start()` has one in `walk`, `manifest()` one in `shown`. What deferred functions
register comes first, one `provide()` or `factory()` after the other; a name that is bound, or has a
factory, stays as it is. A manifest copies what the builder has when it is asked for (`CallManifest`,
`seen`): before any deferred function has run, between two registrations, or when `start()` has its
plan. It runs no deferred function, its sort leaves out what link rules ask for unless `start()` has
added that (`SortableDeps`), and its levels leave it out either way. Its work on the copies is one
synchronous call in the code; here its steps come after `start()`'s, and neither reads what the other
writes. A deferred function or factory that throws rejects `start()` (`Throws`), after which no
manifest is modelled. Left out is a second `start()` of the same builder.
`ContainerPlan` ends where `Container` begins: with an order, what each binding waits for, and levels.

`Singleton` has several containers that start (`Acquire*`), hold and release one instance.
`AcquireThrows` is the factory that throws before its first await, where the code's `finally` runs
before the assignment it should undo. A container may run its stop callback again whenever it was
stopped, as `ResolvedContainer.stop()` does when it is called again (`ReleaseAgain`); `twice`
remembers that one did while an instance was there to be released, and the count, what is held and
what leaks are stated until then.

### 2.4 The platform

| Module | Models |
|---|---|
| `Reconciler` | the engine with its two policies (gate and loop) over one provider |
| `Fleet` | `defineService` and `buildFleetManifest` |
| `Artifacts` | the generator with its plugins, as what their documents name, refer to and bound |
| `InslerDev` | the dev session over the declarations on disk, and a generation by a process of its own |
| `MCReconciler`, `MCInslerDev` | the instances for TLC |
| `ReconcilerProofs`, `InslerDevProofs` | the proofs |

In `Reconciler` a resource's content is a pair of configuration and replica count, since that is all
that `classify` tells apart; a state maps each path to content or `Absent`; a plan is what is desired
and what it was diffed with, which is exactly what the fingerprint identifies (hash collisions are
left out). Operators go through plan, review, `applyGated`; the loop goes through detect, plan, check
and write; the world drifts. `policy.others`, chosen from `Interleavings` at the start, says what
others may act between: `"none"`, the steps of a `"pass"` of the loop, or also the check and the
write of an `"apply"`. What the properties promise of uninterrupted applies and passes (`AtomicApply`,
`AtomicPass`) is said of those choices only.

In `Fleet` and `Artifacts` a text is a sequence of words and separators, since splitting, joining and
flattening are what can go wrong with names. The words are in lower case and separators stand between
words only, so that the lower-casing, the collapse of runs and the trimming of `dnsSafe`
(`kubernetes.ts:133`) do nothing and are left out: names that flatten alike only by these are not among
the declarations. A file is a path and the record of what its document
refers to. `InslerDev` has the disk, the process's module cache, the session (`dev`: glob, one import
after the other, plan, apply, write), the watcher's one-event coalescing and the queue, and the
snapshot, which an interrupt may cut short in the midst of its write.

## 3. Runs

Every run explores its state graph to the end.

| Run | Checks | Bounds |
|---|---|---|
| `server_stream` | credits conserved, no silent truncation, honest statistics, success agreed on, silence after an abort, both ends torn down, the refinement of `BoundedStream` | window 2, 3 outputs, 1 lost or garbled frame, timers, every event |
| `server_stream_live` | without faults and timers a call completes on both sides; leaving the loop stops the host | window 2, 4 outputs |
| `upload_calls` | both windows conserved, inputs in order, a success is the host's, calls with a timer end, healthy calls without one complete | eight calls, each either kind's: window 1 or 2, up to 2 inputs and outputs, up to 1 fault, with and without timers |
| `rpc_calls` | who owns which method, what an answer says, spans and statistics agree with it, every call settles | 2 hosts, 2 calls, 2 items a stream, 1 fault over NATS; all kinds, served as what they are or not, middleware in several orders |
| `singleton_safety` | until a second stop, what is held is alive, what nobody holds is stopped | 3 interchangeable containers, 4 creations that may fail or throw, stops that run twice |
| `singleton_live` | failed creations are retried, waiters are answered | 3 containers, 3 creations, stops that run twice |
| `container` | factories after their dependencies, cleanups before them and once in each stop loop, nothing left; start, every stop and every resolve settle | 3 eager tokens, 2 and a lazy one, or 1 and 2 lazy ones; every graph, 2 initializers, resolutions in the face of a stop, 2 calls of `stop()` at any time |
| `container_plan` | expansion, order, levels, the levels of `manifest()` | 3 interchangeable tokens, any of them bound or made by factories, at most 4 dependencies, orderings and deferred registrations in all, at most 2 of these |
| `reconciler` | the trail, intent by review, what uninterrupted applies and passes promise, drift is healed | 2 paths of 2×2 contents, 2 operators, 1 drift, every interleaving and loop policy, failing audit |
| `insler_dev` | no service lost, calls granted, floors held; the session follows its files and spares a damaged snapshot | 3 files; every fleet of 9 declarations for the generation; 2 saves and 1 interrupt for the session |

Why the bounds are enough. A window of 2 tells "some credit left" from "none" and lets a frame
overtake a grant; outputs exceed the window so that the producer parks and is woken; a single fault
reaches each detection path, and a second one can only hit a call that is about to end. The timed
duplex calls are split (a fault without outputs, outputs without a fault), since a timer that may
fire in any state multiplies the states of five suspended parties. Two hosts are the least that
contend for a method; two calls the least that queue. Three containers give a creator, a waiter and
one that comes after the last release, and creations exceed what one generation needs. Three levels
are the least with a middle one whose failure has something below and skips something above; two
calls of `stop()` are the least that overlap. Three tokens and four edges give a cycle of three with
an edge to spare, a chain that a factory or a deferred function completes, and a link rule against
it. Two
paths give a managed resource and an extra at a time, two contents in each of two dimensions the four
drift categories. The nine declarations are those in which names flatten alike, namespaces share an
own name, needs are and are not databases, calls are served or not, routes collide, and scale bounds
sit at each edge; fleets of up to three of them put any two beside a third.

Two runs check a sentence of the code's comments that the code does not keep:

| Run | The comment says | The code |
|---|---|---|
| `rpc_stream_middleware` | `host/middleware.ts:6`: existing middleware keeps working around streaming handlers | middleware that awaits `next` makes a promise of the stream, and the call ends in a TypeError |
| `insler_secrets` | `secret-binding.ts:26`: the Deployment consumes the Secret that the plugin binds | with a namespace the two names differ |

**Deadlock** is checked in `container` and `container_plan`. The others say `CHECK_DEADLOCK FALSE`:
in `server_stream` and `server_stream_live` a call that is stuck violates the temporal property,
which says more (neither has a deadlock when it is checked); in `upload_calls` a call without a
timer that has met a fault does wait for good, as it does in the code; in the other runs the system
stops when the bounded calls, creations, applies or saves are used up.

### Fairness

Streams: code that can run runs, NATS delivers what it accepted, an armed timer fires, the
application pulls or leaves, its input iterable and the handler yield or end; no fault and no event
of the environment has to happen. RPC calls: client and memory transport go on, memory handlers
return, the timer of a NATS request fires; nothing is assumed of a NATS host. Container and
singleton: what was called settles; nobody has to call `resolve()` or `stop()`. Reconciler: provider
and sink answer, the ticker ticks, an operator that has planned goes on; nobody has to plan, and
drift is never forced. Dev session: a converge goes on and the watcher's event is delivered; no save
has to happen. These are weak fairness of the runtime's event loop and of promises that settle;
strong fairness is not used.

### Where code and documentation disagree, without a run

Streams over NATS (`rpc/rpc-transport-nats/src`):

- `client-transport.ts:353` says that a liveness timer on the client cancels the host; `onExpire`
  (214) sets `terminated` first, so no CancelFrame goes out.
- `client-transport.ts:207` and `liveness.ts:10` say that every inbound frame resets the idle window;
  line 253 resets it when the application pulls the frame.
- The README (93, 242) describes EndFrames as counted; the hosts do not check the `seq` of the one
  on `up` (`host-transport.ts:725`, `:974`): a loss of the last inputs passes for the end.
- A gap on the `up` of a duplex call ends the drain without an abort (`host-transport.ts:965`); a
  decode fault while the producer awaits its credit is counted as a success (`:1017`).
- The README (94) gives `__serde__` to what cannot be decoded and `__transport__` to the connection; a
  stream that nobody serves ends in `__serde__`, since NATS's empty answer on `down` is not a frame
  (`client-transport.ts:231`, `streaming.ts:86`), where a unary call gets `__transport__`.
- An input iterable that throws is announced to nobody (`client-transport.ts:500`).
- `client-transport.ts:551` says that a client stream completes with the EndFrame; it does with the
  DataFrame before it.
- The README says that calls in flight are torn down on `unregister()`; a producer parked at
  credit 0 stays parked when the idle timer is off (`host-transport.ts:308`).

Unary calls over NATS: the README (92) gives `__timeout__` to a request that exceeds its timeout;
`client-transport.ts:130` does so only if the library's message has `TIMEOUT` in upper case
(`setup.timeoutTag` is either reading).

RPC (`rpc`): client streams and duplex calls bypass all middleware (`client.ts:202`,
`host.ts:302`); the wrappers of streams extract the context outside their `try`
(`host.ts:159`, `:236`), so that undecodable metadata is a raw exception over memory; the spans of
streams end when the stream is handed out (`rpc-otel/src/client.ts:34`).

DI (`di`): `README.md:352` says that the next use creates afresh, not after a synchronous throw
(`singleton.ts:12`); `README.md:347` says that a shared instance lives until both containers stop, but
one that is stopped twice counts for the other (`singleton.ts:30`), since every call of `stop()` runs
every cleanup again (`resolved.ts:113`); `README.md:576` says that a
throwing initializer stops the container, but a lazy instance in flight is not stopped
(`resolved.ts:102`); `manifest()` shows levels without the orderings of link rules (`container.ts:203`) and without what
deferred functions have yet to register (`:308`): never later ones than those of `start()`, unless a
deferred function provides a token that is shown with what its factory depends on.

Reconciler (`platform/platform/src/reconciler`): `control-loop.ts:39` says that extras survive a
correction, not if they appear after the detection (`:161`); `types.ts:88` says that a stale plan is
rejected, not if actual moves between check and write (`reconciler.ts:48`); `types.ts:219` says that
a rejected attempt persists nothing, but it has when only the audit record failed (`gate.ts:45`);
`types.ts:135` says that last-applied is what the last successful apply recorded, but a converged plan
records nothing (`reconciler.ts:58`); `types.ts:381` says that the loop runs until its ticker stops,
but one stale correction ends it (`control-loop.ts:103`).

Generator: the ScaledObject aims at the dotted name of a service and the Deployment has the flattened
one (`autoscaler.ts:155`); pods are selected by the own name, so that the Services of two namespaces
select each other's pods (`kubernetes.ts:264`); the queue group is the dotted name in
`nats-credentials` and the qualified one in `kubernetes`; `Dev` is development for `kubernetes.ts:126`
and production for `nats-credentials.ts:59`; edge routes publish to `rpc.{service}.{handler}` while
hosts listen on `rpc.{contract}.{method}`; a data-store claim names its Secret by the need alone;
`max: 0`, or a `min` above the default ceiling of 50, gives a ScaledObject with min above max
(`scale.ts`).

CLI: `README.md:80` says that `insler dev` follows edits, but a file that has been loaded is answered
by the module cache (`scanner.ts:93`); `dev.ts:121` lets the next save recover from a failed converge,
but a failed first one ends the session (`insler.ts:274`); the watcher is registered after the first
converge (`dev.ts:194`); `--env production` is refused and `prod` is not, though the plugins take it
for production (`reconcile-shared.ts:44`); `apply --dry-run --env production` applies
(`apply.ts:84`).

## 4. Proofs

| Module | Theorem | States |
|---|---|---|
| `ServerStreamCallProofs` | `TypeCorrect` | `[]TypeOK` |
| | `CreditConserved` | `[]CreditConservation`: credits are lost with frames, never made |
| | `FlowControlled` | `[]InFlightBound` |
| | `InOrder` | `[]DeliveredInOrder` |
| | `NeverTruncated` | `[]NoSilentTruncation` |
| | `HonestStats` | `[]RecordedHonestly` |
| | `AbortSilences` | `NoOutputAfterAbort` |
| | `CallIsBoundedStream` | `ImplementsStream`: `Spec` refines `BoundedStream` |
| | `BothAgree` | `[]AgreeOnSuccess` |
| `UploadCallsProofs` | `BothWindowsConserved` | `[]WindowsConserved`, in both directions of a duplex call |
| | `InputsAreInOrder` | `[]InputsInOrder` |
| | `SuccessIsToldByTheHost` | `[]SuccessIsTheHosts` |
| `SingletonProofs` | `CountExact`, `HoldersKeepInstance`, `OneForAll`, `NothingForgotten` | `[]CountIsHolders`, `[]HeldIsLive`, `[]OneInstance`, `[]NothingLeaks` |
| `ContainerProofs` | `CleanupsComplete` | `[]NothingLeft` |
| | `FactoriesAfterDeps` | `FactoryAfterDeps` |
| | `DependentsStopFirst` | `[]DependentsFirst` |
| | `ExpansionIsExact` | `[]ExpandsWhatIsNeeded` |
| | `SortIsTopological` | `[]OrderIsTopological` |
| | `PlanIsTight` | `[]LevelsAreTight` |
| | `ManifestShowsThePlan` | `[]ManifestIsThePlan` |
| | `SortsTerminate` | a walk's steps leave less and less to do, cycles or not |
| | `PlanFitsContainer`, `LevelsAgree` | what `Container` assumes of its order, and its levels, are the plan's |
| `RpcCallProofs` | `HostsOwnTheirMethods` | `[]RegistryIsHosts` |
| | `AnswersMatchTheirCause` | `[]AnswerMatchesCause` |
| | `SpansTellOutcomes` | `[]SpansTellTheOutcome` |
| | `StatisticsAgree` | `[]StatsAgree` |
| `ReconcilerProofs` | `TypesKept` | `[]TypeOK` |
| | `TrailComplete` | `[]OutcomeIsAudited` |
| | `IntentReviewed` | `IntentIsReviewed`, in every interleaving |
| | `AppliesWhatWasReviewed` | `NothingClobbered` |
| | `LoopMindsItsOwn` | `LoopKeepsToItsPaths` |
| `InslerDevProofs` | `UnreadableIsKept` | `SnapshotSurvives` |
| | `FloorsAreHeld` | `[]FloorsHold` |
| | `EveryCallIsGranted` | `[]CallsAreGranted` |
| | `NoServiceIsLost` | `[]EveryServiceIsDeployed` |

**Stream.** For every window, number of outputs, budget of faults, choice of timers and events, from
the assumptions `ServerStreamCall` names. `InFlightBound` is not inductive: a frame in flight is
paid for with a credit that may be in any of six places. `CreditInv` says where: `CallControl`
relates the two program counters to the subscriptions and flags, `WindowControl` says that nobody is
parked while there is credit, `UpFrames` that every grant on its way is for one credit, and
`TokenBound` is the sum. `OrderInv` then says what a frame's number means wherever the frame is:
`Numbering` relates `produced` to `seq`, `DownFrames` types every frame in flight with
DataFrame *k* carrying output *k* + 1 and an EndFrame counting all outputs, `Received` and
`Completed` are the client's side. Counting over sequences is in `StreamLemmas`. The refinement adds
`StreamInv`: `SentCounts` (`seq` counts what was sent), `Listening` (the application is told of an
end once), `Undelivered` (a DataFrame under way is an output sent and not received, which makes the
abstract `Deliver` possible) and `WindowUsed` (an output that was lost keeps its token while the
application listens, which bounds the abstract `Send` even with lost frames).
`AgreeInv` is about calls without a fault so far: `Consecutive` says that what is in the client's
inbox and behind it on the wire is numbered from the frame it expects up to the one the host sends
next, so that a gap is a lost frame; `Uncancelled` that a CancelFrame under way is of a client that
gave up. `Stopped` and `Excused` hold with faults, too: who may still speak, and which errors the
client blames on the transport. Before the host has the call the client hears at most that nobody
serves it (`Silent`), and such a call never reaches the host (`Forsaken`).

**Uploads.** One invariant of both kinds of call, for every window, number of inputs and outputs and
budget of faults. `UploadInv` has, besides types: `Opened` and `Untouched` (nothing moves before the
host has subscribed), `Windows` (nobody is parked while its controller has credit), `PumpInOrder`
(an input's number is its frame's) and, along the way of an input, `HostInOrder`, `GivenInOrder` and
`TakenInOrder`; `SuccessIsTheHosts` with what makes it inductive; and `WindowsConserved` itself,
which is inductive together with the others. The credit of one direction may be in a controller, in
a producer's hand, in a frame on the wire, in an inbox or in a grant for any number of credits, so
each sum is taken over two FIFOs; what each FIFO contributes when a frame is appended, taken or lost
is a lemma. The step is proved by families of actions: the client's turns, the pump's, the host's,
and what moves frames.

**Singleton.** For every finite set of containers and any number of creations, until some container
is stopped a second time (then the instance may be closed under another): `UntilTwice` is `SharedInv`
as long as `twice` is false.
`SharedInv` adds to the count that the current instance is the only live one and every holder has it
(`Current`), and that a creation in flight has somebody waiting and nobody waits otherwise
(`InFlight`). The count is the cardinality of the holders, so each step rests on how the set of
holders changes (`OneMoves`, `Enters`, `Leaves`).

**Container.** For all bindings, dependency graphs and numbers of initializers, from
`OrdersAreDisjoint` and `ProgramsHaveTokens`. `NothingLeft` speaks of the end of every
cleanup loop (of a failed level, a failed initializer, and of any number of calls of `stop()`, each
with an index of its own into the array). `StopInv` keeps what
each of them will have seen: `OrderCovers` that the stop order holds exactly the instances with a
cleanup, each once unless the program resolves in the face of a stop, `EagerByLevel` and
`LazyInTime` when an instance gets there, `LoopCleans` that for each loop what it has left and what
it has called is all there is.

`ReadyInv` carries the two order properties. `ReadyOK` says that whoever has been started has its
dependencies ready, `LevelsDone` that the levels before the current one are, `Sorted` that cleanups
are inserted after those of what their tokens need, and `Descending` that the order in which they
are called is the reverse. An eager token needs only tokens before it in its container's order
(`GraphOK`), and its level is a recursive function along that order: `DepthRises` proves that a
level lies above those it needs.

**Plan.** For any names, bindings, factories and link rules. `PlanInv` says of each stage what is
known by then. `Expansion`: whatever is bound is in every set that is closed under what factories make,
and at the end the bindings are such a set, so they are the least. `WalkOK` is the invariant of a
depth-first walk: what is listed comes after all it depends on (`InOrder`), the path leads from each
call to the next (`Linked`), and what a call has visited is listed or is the call it waits for
(`Visited`); when the path is empty everything is in order, and a binding that is met on the path
closes a cycle. A step is a call or a return (`VisitKeeps`, `CallReturns`), so both sorts keep it, and
each leaves fewer names, dependencies or unlisted bindings (`LeftFalls`), so both end. The
levels along an order that respects the dependencies rise by no more than it takes (`LevelsRise`);
`Tight` says no more than that of them, and it determines them. More dependencies never make a level
lower (`LevelsGrow`) and bindings with levels have no cycle (`NoCycle`): so the manifest of a builder
that can start has no cycle either, and its levels are at most those of `start()`. `CopyOK` says of a
manifest's copy, whenever it was taken, that it has no dependency, ordering or binding that `start()`
has not, unless a binding was replaced since; `ManifestIsComplete` that it expands to all bindings when
nothing was registered since. The same comparison shows that the levels of `Container`, on the order and dependencies of the plan, are the
plan's (`LevelsAgree`), and that order is one `Container` may assume (`PlanFitsContainer`).

**RPC.** For any number of instances with any overlap of their contracts and any calls, from
`SetupsAssumption`. `RegistryInv` adds that the bus gives a host only methods of its contract
(`OwnMethods`), that `stops` counts the stops of a host that was up (`StopsCounted`), and that a
NATS instance is subscribed while it is up (`SubscribedWhileUp`).

`CallsInv` says of every call, from `MethodsAssumption` too, at which stage it is and what its record
then says (`CallOK`): what was `Requested`, where it was `Placed`, how it was `Handled`, what `Caused`
its answer, whether it is `Settled`, and what was `Traced`. `RepliesAreTheHosts` says that a reply
under way is the one its host gave, `QueuesHoldRequests` that a host's queue has requests that wait
for it, and `Counted` that the statistics are the numbers of handled calls. Answers, spans and statistics
are then read off the invariant.

**Reconciler.** For any paths, contents, operators and declarations. `Decided` (an attempt has a
verdict before it is recorded) makes `TypeOK` inductive, `Unrecorded` the trail. `Exclusive` says
that between an uninterrupted check and its write what was read is what is there and that only one
writer is there; `Steady` that in an uninterrupted pass what was reported is what is there and that
the correction is built from it. Both theorems hold of every behaviour; what is interrupted is
excluded by the properties themselves, since there the code keeps neither: two applies whose checks
both precede the writes overwrite one another.

**Dev session.** For any files, authors, saves and interrupts, from the shape of the session's
record (`Whole`): a write begins only in `Apply`, whose read refuses a damaged snapshot.

**Artifacts.** For any fleet whose declarations are typed as `defineService()` types them
(`DisksAssumption`) and any platform whose window has room for an instance (`PlatformAssumption`).
`MadeOfAFleet` says that a generation reads a disk that nobody touches, with no module loaded, and
that what it made it made of a fleet. The rest is about the generator's operators: the members of
concatenated and flattened sequences (`ConcatMembers`, `FlattenMembers`), the documents each plugin
writes, and that a generation that succeeds writes exactly those of every plugin (`GenerationHasAll`,
`WhatIsWritten`). From a manifest without errors the proofs take that no two services share a name or
an identity and that every call has an owner (`ManifestOfFleet`). Kubernetes names its queue groups
by the identity in another environment than the one validated; `QualifiedNames` shows that the
environment tells nobody apart.

Only model-checked: liveness (`TornDown`, `CallCompletes` and the like), since neither fairness nor
ENABLED is in the prover's reach. Every safety invariant and action property of the passing runs is a
theorem.

Recursive functions are not out of reach: levels, grants and sums are recursive functions, and what is
needed of them is proved from their defining equations, with the least counterexample (`WFMin`) in
the place of an induction scheme; that such a function exists is proved by extending it one number at
a time (`Climb`). Only the library's theorems with an operator parameter are unusable.

## 5. Not modelled

- **Leaf node**: it spawns a `nats-server` and polls a file the server writes; its behaviour is that
  of the process, and what is left is one `try`/`catch` with a cleanup.
- **Serdes**: encoders over third-party libraries. A payload that does not decode is a fault of the
  transport's models.
- **DI tokens, `inject`, modules**: constructors of values; a token is a model value.
- **Rendering**: plans, manifests, blast radius, the layout of YAML, quoting, ports, probes; help
  and argument parsing of the CLI.
- **Parts of modelled components**: the dry run and a provider that fails (a provider that throws
  ends the attempt before anything changes), the drift log, the texts of discovery answers and the
  processing times, the periodic schedule of the liveness timers, the diff of two generations, a
  provider without `statePath`, which writes nothing; `TestTransport` and the in-memory dev helpers.
- **Other CLI commands** (`scan`, `plan`, `apply`): wrappers of operations that `Fleet`,
  `Artifacts` and `Reconciler` model, with one read of the snapshot before and one write after.
- **Websites, release scripts, examples.**
