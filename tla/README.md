# Verification of the SWT3 witness SDK

The repository is a family of SDKs that witness AI inferences: an application
mints *anchors* (small records with hashes), the SDK buffers them and sends them
to a witness endpoint, which stores them and answers with receipts. Around that
pipeline stand a write-ahead log, adapters that intercept the calls of inference
clients, a policy engine for tool calls, chains of lifecycle events, a trail of
trust between agents, a client of a local sentinel daemon, a transport tap for MCP
servers, and an MCP server that reads the anchors back and lets them decide
whether a tool may run.

This directory holds the TLA+ specifications of these parts, the TLC runs that
check them, and proofs of the most important properties that the TLA+ proof
system checks.

    tlc -workers 2 -config FlushBuffer.cfg MCFlushBuffer.tla     a run
    tlapm FlushBufferProofs.tla                                  the proofs

`src/` below stands for the root of the repository; `ts/` is
`src/packages/swt3-ai-ts/src`, `py/` is `src/packages/swt3-ai/swt3_ai`, `mcp/` is
`src/packages/swt3-mcp/src`. `PROJECT.json` has for every definition that models
code the lines it models (`map`).

## 1. Inventory

| Component | State it keeps | Operations | Interacts with | Hard behaviours | Correct if |
|---|---|---|---|---|---|
| Flush buffer, TypeScript (`ts/buffer.ts`) | queue, dead-letter array, token count, stopped, timer, receipts, map from payload to log number | enqueue, timer, flush, stop, sendBatch | Witness (caller), log, endpoint, onFlush callback | any number of sends in flight at once; retries, timeouts, lost answers; stop while sends are out | no payload lost, sent twice at once or decided twice; caps kept; everything is settled in the end; what counts as delivered is stored (it is not after a 5xx answer with a JSON body: section 5) |
| Write-ahead log, TypeScript (`ts/wal.ts`) | file, checkpoint file, last number, replay window | append, markFlushed, rotation, open, recover | flush buffer, Witness constructor, file system | crash between any two writes, torn lines, failed writes, restart | what is unsent can be read back (broken in three ways: section 5); the log stays ordered; the checkpoint goes back never, and forward only over what was answered or overtaken |
| Flush buffer, Python (`py/buffer.py`) | queue.Queue, dead-letter deque, stopped flag, the daemon's local batch | enqueue, flush, stop, the daemon loop, _send_batch | application threads, log, endpoint, Redis | threads interleave at every get and lock; exceptions end a thread | as for TypeScript; what the daemon collects is sent |
| Write-ahead log, Python (`py/wal.py`) | as TypeScript, under a lock | as TypeScript | Python buffer | as TypeScript | as TypeScript |
| Witness: minting, sampling, density (`ts/witness.ts`) | sampling counters and skip counts, density window, session tokens, last anchor, buffer | about 130 witness methods, record, gateCheck, revoke, recordSessionTokens, flush, stop | the program, clearing, flush buffer, log | a rate leaves anchors out, and only a later flush says how many; counters are reset at different moments | every anchor is in the buffer or counted as skipped; level 3 lets no context and no model out; level 2 no context (broken by three methods: section 5) |
| Cycle scope (`ts/witness.ts`) | the shared `config.cycleId` | chain(callback) | every mint | nested and overlapping async callbacks | all calls of one callback carry one cycle (broken when callbacks overlap: section 5) |
| Lifecycle and incident chains (`ts/witness.ts`) | a handle: chain, last anchor, count, closed | begin, checkpoint, escalate, resolve, abandon, resume | sampling, flush buffer | half-done escalation, resumed handles that do not know of each other, roots sampled out | links lead to older anchors of the same chain; a chain minted by one handle is a line; an escalation ends its chain and leaves no chain without a handle (broken: section 5) |
| Chain trust (`ts/witness.ts`, `ts/trust.ts`) | levels handed along, last known policy version | handoff, checkPolicy, verifyTrust | other agents | a refused handoff, which leaves its level in the chain all the same | the handoffs on the trail tell the trust as it falls, and once it is below the minimum none is on the trail |
| Tool-call enforcement (`ts/witness.ts`) | velocity window, depth, last tool, tokens | check, wrapTool, wrapAccess, wrapVLA, gate of strict mode, resets | tools, record | overlapping calls; refused calls counted by some rules and not by others | the limits hold over every window and row; what is recorded of a call is true, and told once; each call is recorded (broken for a tool that returns nothing: section 5) |
| Adapters (`ts/adapters/`, `wrap` of `ts/witness.ts`) | the stream being iterated | 25 interceptors | inference clients, record | streams left before their end, calls that throw, clients taken for others | as above |
| Sentinel client (`ts/sentinel-client.ts`) | socket, pending requests, framing buffer | connect, request, socket events, timeout, destroy | sentinel daemon | a timeout, a late answer, a close and destroy race; the framing buffer outlives the socket | each request gets its own answer or an error, once |
| Redis reader (`mcp/redis-reader.ts`) | entries with two indices, running flag, connection, loop | start, stop, read loop, eviction, query | Redis consumer group, MCP server | starts overlap (a server is made for each request), replies are lost, processes die | the indices agree; no message is read twice |
| Chain verification (`mcp/chain-verifier.ts`, `mcp/density-policy.ts`, `chainGate` of `mcp/server.ts`) | none of its own | verifyAnchorChain, evaluateChain, the density policy, the denial | Redis reader, ledger, tools | the index forgets; a denial is an anchor like any other | an agent with a failed anchor in the index is denied |
| MCP transport tap (`mcp/middleware.ts`) | pending calls, payload and receipt buffers, flush guard, retry queue | send, receive, flush, retry, close | MCP transport, endpoint, onWitness callback | overlapping flushes, eviction, close during a flush, callbacks that throw | each call is accounted for once; receipts are true |
| The rest | see `PROJECT.json` and section 7 | | | mostly data | |

`PROJECT.json` has the same list with sources and status, and under `hazards`
what in this code is hard to test, each at its line, with the properties that
would catch it going wrong. The properties below were chosen from that list.

## 2. Modules

    AnchorDelivery            the promise of delivery, abstract
        ^ implemented by
    FlushBuffer               ts/buffer.ts            -- FlushBufferProofs
        ^ with a log under it
    DurableBuffer             ts/witness.ts:775-793,  -- DurableBufferProofs
        |-- WriteAheadLog     the two composed; ts/wal.ts
    ThreadedBuffer            py/buffer.py            -- ThreadedBufferProofs
    TransportTap              mcp/middleware.ts       -- McpServerProofs
                              (both implement AnchorDelivery too)

    Witness                   ts/witness.ts           -- WitnessProofs
        |-- LifecycleChains   beginLifecycle ... incidentChain
        |-- ChainTrust        handoff, checkPolicy
        `-- WitnessSession    sampling, density, chain(), flush, stop
              |-- MintSurface the witness methods

    GuardedCalls              wrapTool, ChainEnforcer -- GuardedCallsProofs
        |-- AdapterSurface    ts/adapters/, wrap()
    SentinelClient            ts/sentinel-client.ts   -- SentinelClientProofs
    ChainGate                 chain-verifier.ts, density-policy.ts, chainGate -- McpServerProofs
        |-- AnchorIndex       redis-reader.ts

    Subsequences              filters by position     -- OnceSequences
    MCFlushBuffer ... MCChainGate                     instances for TLC

JavaScript runs a call to its first `await` without interruption, so in the
TypeScript models one action is the code between two awaits. Variables that a
module calls a history are read by no action except to bound it.

**AnchorDelivery.** Anchors are accepted while the pipeline is open, held, and
then delivered or discarded, once; a delivered anchor is on record at the
endpoint. It names no queue, timer or retry.

**FlushBuffer.**

| Specification | Code |
|---|---|
| `queue`, `deadLetter`, `tokens`, `stopped` | `buffer`, `deadLetterQueue`, `tokenAccumulator`, `stopped` |
| `flights` | the calls of `sendBatch` under way: batch, attempt, the await each is at, and whether `stop()` waits for it |
| `receipts`, `notified` | `allReceipts`, calls of `onFlush` |
| `Enqueue`, `TimerFires`, `Flush`, `Stop` | the entry points; each ends in `Drain`, that is `flushInternal` and `sendBatch` to its first await |
| `AnswerStored`, `AnswerError` | the endpoint: stores the batch and answers, or answers 4xx or 5xx |
| `AttemptFails`, `Resend`, `Refuse`, `Credit`, `Notify` | the branches of `sendBatch` after each await; the last failed attempt is `GiveUp`, which applies the cap |
| `LateArrival` | a request the client aborted that arrives all the same |

The endpoint may store a batch whose answer is lost; it answers each payload of
a stored batch by itself, and only those in `Conforming` get a receipt. `accepted`,
`delivered`, `refused`, `dropped`, `failed` are histories: no action reads them
except to take each payload object once. A 5xx answer may have a JSON body or not: `Credit`
is possible after one, as `AttemptFails` is. In the refinement of AnchorDelivery a payload
is delivered when it has a receipt, and what is credited without one is discarded.

**WriteAheadLog** has the file as the sequence of lines a reader can parse, plus
how it ends: a line cut short has no newline, and the next entry is written onto
it. **DurableBuffer** puts it under FlushBuffer (`INSTANCE`, one item per anchor
and log number) and adds the life of the process: `Crash`, `CrashLogging` (in the
middle of a line), `CrashMarking` (checkpoint renamed, file not yet rotated),
failed writes (`EnqueueThrows`, `CreditThrows`; a refused write leaves nothing, a part of its
line, or the whole line without its newline), `Restart` (the constructor opens
the log and calls `recover`) and `Recover` (one entry through `enqueue`).

**ThreadedBuffer** is the Python buffer. An action is one operation on shared
state: a `get`, a critical section, a look at the flag, a request. `hand[t]` is
the list a thread has taken and no other thread can reach. `Enter` and `Put` are
the two halves of `enqueue`; `Turn`, `Get`, `FindEmpty`, `Take`, `Retry`, `Linger`
are the daemon's loop; `CallFlush` and `CallStop` start a caller; `Answer` to
`Raise` are `_send_batch`.

**TransportTap** is the middleware of the MCP server, with its three neighbours: the
client that calls tools, the server that answers and makes requests of its own, and
the endpoint. `pending`, `buffer`, `retryQueue` are the code's arrays and map;
`skipped` is the set of calls `skipCounters` counts, so that a summary can be held
against it. Only one flush runs at a time: `flushing`, `current` and `eligible` are
its local state. `Request`, `RequestThrows` are `captureRequest`; `TappedSend` is an
answer, or a request of the server's own with the same id, going out, also after `close`;
`TimerFires`, `Flush`, `Close` start a flush;
`PostRetry`, `PostBuffer`, `FindEmpty` take it to its next await; `Succeed`,
`Refuse`, `Fail` end a request, `ReceiptThrows` and `FailThrows` are the paths an
`onWitness` that throws takes through the catch block. `outcome` says what became
of the payloads that are gone.

**MintSurface** lists the witness methods, family by family, each by what it lets
out: whether it binds the anchor to agent, cycle and key and notes its procedure
(`meta`), and up to which clearing level `ai_context` and the model stay in clear.
**WitnessSession** is the object these methods belong to. `log` is what has entered
the flush buffer, in order; what becomes of it from there is FlushBuffer's subject.
An anchor is a record of the model's own (level, procedure, cycle, chain, parent,
`value` for what a summary or a handoff states). `Fates` is `_enqueueSampled`: a
sampled procedure's anchor enters or is counted in `skips`. `Flush` appends one
AI-SAMPLE.1 for each procedure skipped (in the order of the map, which is that of the
skips) and the density attestation, if `Attestation` says it is due. `BeginScope`
and `EndScope` are `chain()` before its callback and after it; callbacks settle in any
order. **LifecycleChains** adds the handles (a chain is named by the number of its first anchor), **ChainTrust** the
handoffs, and **Witness** joins them over one `log`. The program is arbitrary: it
calls any method in `Methods` at any time, resumes any chain from what it remembers
of it, and begins and ends scopes as it likes.

**AdapterSurface** has one record for every method the 25 adapters and the wrappers of
`witness.ts` intercept: gated, enforced, streaming, recording failures, what it
mints, and which ends of an answer it takes for a refusal; `HooksOf` is the order in
which `wrap()` tells clients apart, and a call that no interceptor knows is `Unseen`.
**GuardedCalls** runs any number of calls through any of them: `Begin` is the gate of
strict mode, `BeginTool` the ChainEnforcer with `Verdict` and `Checked`, then
`Return`, `ReturnNothing` (the hash of `undefined` throws after the tool has run),
`Throw`, `Open`, `Drain`, `Leave`. `log[c]` are the records made of one call.

**SentinelClient** has a socket object per `connect()`, each with a state and the
pieces on their way from the daemon; a line may come in two chunks, and a connection
may end between them. `Opened`, `Error`, `PeerEnds`, `Closed`, `Data` are the socket's
events, `Request`, `Timeout`, `Destroy` the client's. `said` is what the daemon
answered, against which `outcome` is held.

**AnchorIndex** is the Redis reader in each of several processes, over one consumer
group: `Start`, `Opened`, `OpenFails` are `startRedisReader` around its awaits, of which
several may be under way in one process; `Read`, `LoseReply`, `Process`, `Ack`, `Wake`
are the read loop; `Stop` and `Clear` stop it, `EvictStale` is the timer, `Crash` ends the
process. The two indices are kept as the code keeps them and not derived from the
entries. **ChainGate** adds the gate of the MCP server: `Judgements` is
`verifyAnchorChain` on the index, or on the ledger if the index has nothing,
`Valid` and `Compliant` are the rules, and a denial is posted as an anchor, which
comes back over the stream.

Definitions marked `Fault:` are the same code with one mistake in it. No specification
uses them; each shows, in a run of its own, that some property notices the mistake
(`mutants` in `PROJECT.json`).

## 3. Runs

| Run | Instance | States | What it shows |
|---|---|---|---|
| `flush_buffer` | 2 payloads of which one is not conforming, queue of 2, 2 attempts, cap 1; 5xx answers with and without a JSON body | 9 thousand | `OnePlace`: a payload is in exactly one of queue, dead letters, one flight, or one outcome. `QueueIsNewest`: the queue is the newest part of what was accepted, in order. `DuplicateOnlyAfterFailure`: what is on record is sent again only after an attempt of it has failed. `DeliverySpec`: the buffer implements AnchorDelivery. `EventuallySettled`, `StopReturns` |
| `durable_buffer` | 2 anchors, window 1, rotation at 2 entries, 2 faults | 343 thousand | `WrittenAhead`: an unsent payload is in the log, or the checkpoint is at or above it, or its line was spoiled, one line per fault, and the log is in order; `TakenByAnswer`: a step that takes an entry out of what a restart would read back is that of an answered flight with a payload numbered at or above it, or the entry stood at the end without its newline; the checkpoint goes back in no step |
| `threaded_buffer` | 2 payloads, daemon and one caller, 2 attempts, cap 1 | 50 thousand | `OnePlace`, `DeliverySpec`, `EventuallySettled`, `StopReturns`, exceptions included |
| `transport_tap` | 3 calls, pending map of 2, batches of 2, 2 attempts, retry queue of 2 | 206 thousand | `Accounted`: every call taken out of the pending map is accounted for once, by its payload, by one summary or as evicted, the oldest first; `ReceiptsTrue`: a receipt is of a payload that was stored, given once; `DeliverySpec`; `EventuallySettled`, with no assumption about the endpoint |
| `witness_session` | levels 2 and 3; one method for each shape of the surface; inferences of two mints; one procedure sampled, one never sent; 2 scopes, a lifecycle handle; 3 mints; symmetry of scopes | 441 thousand | `Accounted`: every anchor of a sampled procedure is in the buffer, in a summary, or in a count that the next flush will state, and an attestation tells the true counts; `FactorsOnly`: at level 3 no anchor has a context or a model in clear, whichever of the paths into the buffer it takes |
| `witness_chains` | strict, level 2; 2 handles, 4 mints, trust levels 1 to 3 with minimum 2, 2 policy versions, 3 handoffs | 1.17 million | `LineOfOneHandle`: what one handle minted of a chain is a line, each anchor after its predecessor, which ends where the code closes the handle; `ParentsOlder`: every link leads to an older anchor of the same chain; `TrustTrail`: the handoffs on record tell a trust that never rises, with a degradation exactly where it falls; the last one tells the trust after some first part of the handoffs asked for, and each later one was refused, the trust being below the minimum |
| `guarded_calls` | 3 calls, each of a tool, of an answer in one piece or a stream, or of a client that passes by; tools that run, are logged and are blocked; velocity 2, depth 2, budget 1, one reset; symmetry | 1.30 million | `RecordedOnce`: what is recorded of a call agrees with how far it has come, once and in order; `VelocityHeld`, `DepthHeld`: no window of time has more calls let by than the velocity limit, no row of attempts of one tool, refused ones in between included, more than the depth |
| `sentinel_client` | 3 requests, 2 connections | 223 thousand | `OwnAnswer`: an answer goes to the request that asked, and a request waits exactly while the map has it; `OneMissedPerCut`: no more answers are spoiled than lines were cut; `EventuallySettled` |
| `chain_gate` | one process, 2 starts at once, 3 messages, index of 2, TTL 0; symmetry of starts | 723 thousand | `IndexWhole`: entries and both indices agree, whichever loops run; `ReadByOne`: no message is handed to two loops or entered twice; `FailureRemembered`: an agent with a failed anchor in the index is denied |

Three runs show that the code does not do what a text of the repository says of
it; each checks one property, and the finding in `PROJECT.json` quotes the text:

| Run | Property violated | In short |
|---|---|---|
| `errors_credited` | `DeliveredIsStored` | a 5xx answer with a JSON body is credited: a payload that was never stored counts as delivered and is not sent again |
| `wal_recovery` | `UnsentReplayed` | recovered entries are refused as replays of themselves |
| `revoked_chain` | `RevokedNotValid` | a revocation that came over the stream names no target, and the chain it revokes is admitted |

### Bounds

* Payloads: each is enqueued once, since two calls with one object are two
  payloads to the code. Two give one in flight and one in the dead letters or in the
  queue.
* `MaxRetries = 2` has a first attempt, a retry and giving up. `MaxRetryBuffer`
  is below the number of payloads, so that the cap cuts, within one batch and
  over batches that give up in a row.
* `MaxSeq` bounds new log entries, `MaxFaults` crashes and failed writes; two
  faults give a crash during recovery from a crash, and a torn line followed by a
  failed write. `RotateAt = 2` makes rotation happen with and without entries
  that stay. `ReplayWindow = 1` evicts at the second anchor. `MCView` leaves out
  the histories that no action affecting the log or the places of a payload reads.
* Three calls overflow a pending map of 2 and a retry queue of 2: batches of one evict
  each other there, and a summary with two payloads is over the limit by itself. Two
  batches may be due in one flush; two attempts are a first and the last. The calls are
  alike and are never told apart, so the constraint `MCInOrder` lets them come in one order
  only; it cuts no step that is assumed fair. Longer queues and more attempts are covered by
  the proofs, which have no bound; liveness is not.
* `MaxMints` bounds the anchors of a Witness; three are a sampled-out anchor, one that
  enters and what a flush adds of them, so that counts are reset and grow again. Four
  are a chain with its root, an escalation (two anchors at once) and one more through
  a resumed handle. Since methods of one shape differ in the procedure only, one of each
  shape is called; the proofs cover all. `MaxTime`, `MaxTokens` and the thresholds are
  the smallest that have an attestation both due and not due.
* Trust levels 1 to 3 around a minimum of 2, and three handoffs: one that lowers, one
  that is refused, one after it.
* Three calls fill a velocity window of 2 and a depth of 2 with one more; `Span = 1`
  and `MaxTime = 1` move the window on once, which is little: `VelocityHeldAlways` has it
  for every span and any number of moments. One reset, between any two.
* Two sockets give a reconnect with requests of both; three requests have a line cut, one
  that suffers from it and one that does not.
* Two starts in one process are what two HTTP requests at once give; three messages
  overflow an index of two. `MaxDelay` is how long an anchor takes to the stream.
  `revoked_chain` has two processes.
* Nothing else is bounded; no run limits depth.
* Deadlock is not checked where the configuration says so: a program that makes no
  further calls stops, and so does a system that was stopped and has settled everything.

### Fairness

`Scheduling` is what the runtime gives: the event loop fires an armed timer and
resumes an await whose result is there; threads run. Every await of `sendBatch`
is taken to end: `fetch` is aborted after `config.timeout`, the pause is a timer,
but reading a body has no timeout (`ts/buffer.ts:168`) and is assumed to end. In
ThreadedBuffer the daemon's `Take` and `Retry` get strong fairness, because the
elapsed time it compares with its interval only grows: it cannot linger for ever.

`EndpointRecovers` assumes that the endpoint, asked again and again before
`stop()`, at some time stores a batch and its answer is read. Nothing makes an
endpoint do that: it is the condition of `EventuallySettled`, which is false of
an endpoint that is down for ever. It ends with `stop()`, so `StopReturns` holds
of every endpoint whose answers end, those that fail or never begin included.

In TransportTap the event loop alone is assumed: attempts are counted whatever the
answer, so payloads of an open tap are settled by an endpoint that is down for ever
too. The endpoint's storing a batch (`Accept`) has no fairness.

In SentinelClient timers fire, data and closes that have come are delivered, and an
opening connection opens or fails. The daemon need not answer.

## 4. Proofs

**FlushBufferProofs** proves, for all payload sets, queue sizes, budgets, retry
counts and caps, from `FlushBufferAssumption` (types of the constants) alone:

| Theorem | Statement |
|---|---|
| `TypeCorrect` | `Spec => []TypeOK` |
| `OnePlaceAlways` | `Spec => []OnePlace` |
| `QueueIsNewestAlways` | `Spec => []QueueIsNewest` |
| `CapRespectedAlways` | `Spec => []CapRespected` (in no run: the proof says more) |
| `DuplicateOnlyAfterFailureAlways` | `Spec => []DuplicateOnlyAfterFailure` |
| `ImplementsDelivery` | `Spec => DeliverySpec` |

*OnePlace* is inductive with `TypeOK`. `OnePlaceParts` splits it into what it
says of the queue and what it says of the other places; `DrainKeeps` shows that a
drain moves a queue which is apart into the other places, `LandKeeps` and
`MoveKeeps` that a flight which ends or moves on takes only its own payloads along,
`GiveUpKeeps` that the cap cuts a prefix of the joined batches. Every action is
one of these. They rest on the lemmas of `OnceSequences` about sequences that
hold each element once: concatenation, cutting, the empty one.

*QueueIsNewest* is inductive with `TypeOK`: an enqueue appends the same payload to
the queue and to what was accepted (`SuffixGrows`), a drain empties the queue
(`EmptyIsNewest`), and nothing else touches either.

*DuplicateOnlyAfterFailure* is not inductive: an endpoint that had something on
record the client knows nothing of could be sent it a second time. The
strengthening `StoredIsKnown` says that what is on record is in a flight past its
request, failed before, or settled; with `OnePlace` a batch in `posted` that did
not fail before is therefore new to the endpoint.

*ImplementsDelivery* needs in addition that a flight which has read a 2xx answer has its
conforming payloads on record (`AnswersAreTrue`), that a receipt is of a credited payload on
record (`ReceiptsAreTrue`), and that what failed was accepted, so that a late arrival stores
only accepted anchors. The refinement maps `accepted` to the set of the sequence, `delivered`
to `receipts` and `discarded` to `refused \cup dropped \cup (delivered \ receipts)`: what is
credited without a receipt, after a 5xx answer with a JSON body or because the endpoint
rejects it, is given up. So the proof says nothing good of such an answer, and needs no
condition that excludes it. Every action maps to `Accept`, `Store`, `Decide`, `Close` or a
stutter.

**DurableBufferProofs** proves for all anchors, sizes of queue, window and file, and any
number of crashes and failed writes, from `DurableBufferAssumption`:

| Theorem | Statement |
|---|---|
| `DurableTypeCorrect` | `Spec => []TypeOK` |
| `WrittenAheadAlways` | `Spec => []WrittenAhead` |
| `TakenByAnswerAlways` | `Spec => TakenByAnswer`, the step property of section 3 |

`DurableInv` is the inductive invariant: the lines of the file are ordered by number; a
live payload (one the buffer still has) is in the file, at or below the checkpoint, or its
line was spoiled; spoiled lines and a torn end are together no more than the faults; a
tail without its newline and a process that is down have nothing live; and the checkpoint
in memory is not behind the one on disk. The proof goes in three layers: what appending,
cutting, filtering and reading a file make of a sequence of ordered lines; what each
operation of the log makes of file and checkpoint (`LogGoesOn`); and what each step of the
buffer brings into memory or takes from it, which the proofs about FlushBuffer say
(`INSTANCE FlushBufferProofs`). The scan of a file is a recursive function; that it exists
is `SetInduction`, induction over a set of numbers, in which no operator is a parameter.

**ThreadedBufferProofs** proves for any payloads, any number of calling threads and any
limits, from `ThreadedBufferAssumption`:

| Theorem | Statement |
|---|---|
| `ThreadedTypeCorrect` | `Spec => []TypeOK` |
| `ThreadedOnePlace` | `Spec => []OnePlace` |
| `ThreadedImplementsDelivery` | `Spec => DeliverySpec` |

*OnePlace* is inductive with the types. `HandsOn` is the one lemma every action is an
instance of: a thread redistributes what it can reach, which is the queue, the dead letters
and its own hand, among these and the outcomes, and cannot touch the hands of others.
`GiveUpCuts` says that a full deque pushes out a prefix of the dead letters and the batch,
`SendKeeps` what a thread may send. The refinement needs that a thread which has read a 2xx
answer has the batch on record (`AnswersAreTrue`).

**McpServerProofs** has the proofs about the two parts of an MCP server that keep state. Of
TransportTap it proves for any calls and any limits, from `TransportTapAssumption`:

| Theorem | Statement |
|---|---|
| `TapTypeCorrect` | `Spec => []TypeOK` |
| `AccountedAlways` | `Spec => []Accounted` |
| `ReceiptsTrueAlways` | `Spec => []ReceiptsTrue` |
| `TapImplementsDelivery` | `Spec => DeliverySpec` |

None of the three invariants is inductive. `TapInv` says of each place a payload can be in
that it has nothing in common with the others, where `Accounted` speaks of all payloads in
one sequence (`ItemsAre` leads from one to the other, over the flattening of a queue:
`PayloadsOnce`). It adds that only a retried batch leaves something to retry behind it
(`FlushShape`: otherwise a flush that ends after a first attempt would lose it), that the
pending calls are in the order they came in, each younger than those given up
(`CallsKnown`), and where the items of a receipt have gone (`ReceiptsFollow`): with an
error to `refused` or `exhausted`, without one to `delivered`, or to a batch in whose
receipts `onWitness` threw. Every step but the arrival and the observation of a call and
the making of a summary is a `GoesOn`: payloads move and may get an outcome, none appears.

Of AnchorIndex under ChainGate it proves for any number of servers in a consumer group, any
overlapping starts, any messages and limits, from `BoundsAssumption`, `RecordsAssumption`
and `PolicyAssumption`:

| Theorem | Statement |
|---|---|
| `IndexTyped` | `GateSpec => []IndexTypeOK` |
| `ListsAgree` | `GateSpec => []IndexWhole` |
| `OneReader` | `GateSpec => []ReadByOne` |
| `FailuresRemembered` | `GateSpec => []FailureRemembered` |

None of the four is inductive alone; `GateInv` is, and was checked on the run first. It has
four parts. `OnStream` says what is on the stream, and that only what the group has handed
out is confirmed or lost. `OfLoops` says that a loop has messages exactly while it works on
or confirms a reply, and that one that reads has a group to read for. `OfLists` says of each
server that its three lists agree and hold an entry once (`Agree`), that the entries are the
newest it was given (`Newest`), and that what is missing is too old or one too many
(`NoneMissing`). `OfReaders` adds to `ReadByOne` that a loop which confirms has entered its
messages, that a reply has each message once, and that nothing lost is in a reply.

A reply is indexed entry by entry, and so are old entries evicted: `IndexAll` and `RemoveAll`
are folds. `IndexedOneByOne` and `RemovedOneByOne` show that a function over the steps of
such a fold exists, by induction over the first m of them; `AllIndexed` and `AllRemoved` then
go from step to step with `IndexEntryHeld`, `PushAgrees` and `RemoveOldestAgrees`. That the
list of an agent loses its own first entry when the oldest of all goes, and no other, is
`ListWithoutFirst`, over `Picked`, of which any listing of its positions in their order says
what it is (`PickedIs`). *FailureRemembered* follows: a failure that is recent and among the newest is
an entry (`NoneMissing`), is found by its agent (`EntryFound`), keeps its verdict in what the
verifier is given (`JudgedAsSaid`) and so denies (`FailureJudged`).

**SentinelClientProofs** proves for any set of requests and any number of connections

| Theorem | Statement |
|---|---|
| `SentinelTypeCorrect` | `Spec => []TypeOK` |
| `AnswersAreOwn` | `Spec => []OwnAnswer` |
| `MissedPerCut` | `Spec => []OneMissedPerCut` |

The inductive invariant adds to the first two `OneConnection`, which ties `socket`,
`connected` and the states of the sockets to each other (an old socket's late `close` could
otherwise reject the requests of a new one), and `OnItsWay`: what is on its way, or cut off
in the framing buffer, is an answer the daemon gave. *OneMissedPerCut* counts: a line begun
in the framing buffer whose end is cut off spoils the next line and no other, so that the
answers missed and the one about to be spoiled are no more than the lines cut (`Balanced`).

**WitnessProofs** proves for every program, that is for any methods of the surface, any
inference, any sampling rates, scopes, chains and handoffs:

| Theorem | Statement |
|---|---|
| `WitnessTypeCorrect` | `Spec => []TypeOK` |
| `FactorsOnlyAlways` | `Spec => []FactorsOnly`, which is about level 3 |
| `ParentsOlderAlways` | `Spec => []ParentsOlder` |
| `LineOfOneHandleAlways` | `Spec => []LineOfOneHandle` |
| `TrustTrailAlways` | `Spec => []TrustTrail` |
| `AccountedAlways` | `Spec => []Accounted` |

*FactorsOnly* is about what each method makes of its level, and enters the log only
through `AnchorOf`: `SurfaceIsCautious` goes through the surface family by family, where
the runs call one method of each shape.
*ParentsOlder* is not inductive, since nothing in it says where a handle's last anchor
is: `HandlesKnow` says that the last anchor of a handle is of its chain and not younger
than the mints so far, and `IdsMinted` that no anchor in the log is younger than those; a
stage minted by a handle is then younger than its parent. `SkipsFinite` makes the skips a
bag to which another can be added. That the least trust level of a nonempty sequence is one
of its levels is `WFMin` of the library, whose induction theorems take an operator and
cannot be cited.

*LineOfOneHandle* and *TrustTrail* speak of the positions of a chain's anchors, or of the
trail's, in `log`. `Line` and `Trail` say the same of any sequence; a step appends anchors
of the chain, of which `Line` is shown to go on, or anchors that are no concern of it,
which one lemma covers for all of them (`AsideKeeps`). The flush appends summaries in an
order of its own, but none that belongs to a chain or a trail. In strict
mode a handoff that is refused leaves its level in `trust` (`ts/witness.ts:4763`), so that
`TrustTrail` speaks of a first part of `trust` that is told and a rest that is not: since the
minimum of a longer row is no larger, everything after the first refusal is refused too. It
assumes of the program what its formula says: that no rate hides a handoff, that the program
does not call `witnessChainHandoff` (`ts/witness.ts:4715`), which mints AI-CHAIN.1 with
another meaning, and that the Witness has not been stopped.

*Accounted* compares counts that the Witness keeps with what its log shows. It is inductive
as it stands, once it is said of the whole class and not of the procedures called so far
(`Balance`): for every procedure, the anchors handed to `_enqueueSampled` are those in the
log, those skipped since the last summary and those the summaries tell of; and the anchors
in the log are those of the open density window and those the attestations tell of. Both
the number of anchors of a kind and the sum of what they say add up when a log is
lengthened (`NumberJoins`, `AmountJoins`), so that a step need only show what it adds to
each side (`Entered`, `BalanceGoesOn`). A sampled call adds what it enters and skips
(`EnteredOrSkipped`); a flush moves the counts into the log (`SummariesTell`,
`AttestationTells`), each once, since an order of the skipped procedures names none twice
(`OrderOnce`); gate, revocation and later stages add nothing to either (`AsideBalance`).
That a fold of the community modules is the sum of its parts, one by one, is
`SummedOneByOne`: a function that satisfies the fold's equation is built up to the length
of the sequence by `SetInduction`, and the fold is that function.

**GuardedCallsProofs** proves for any number of calls through any interceptions, and any
tools, rules, limits, modes and resets:

| Theorem | Statement |
|---|---|
| `RecordedOnceAlways` | `Spec => []RecordedOnce` |
| `DepthHeldAlways` | `Spec => []DepthHeld` |
| `TypeOKAlways` | `Spec => []TypeOK` |
| `VelocityHeldAlways` | `Spec => []VelocityHeld` |

*RecordedOnce* needs to know of every interception, where the run has four: that it has
not both a gate and an enforcer, and that no plain end of an answer is taken for a refusal
unless every end is (`Modest`; `InterceptionsAreModest` goes through the adapters,
`ClientCallsAreModest` through what `wrap()` makes of a client). The invariant `CallsTold`
then gives the log of a call as what was said before it ran, joined to what it tells now,
both as functions of the call; `GoesOn` covers every way a call that runs can end. Nothing is
asked of a tool that returned nothing or a stream that was left, but that there is at most
one record (section 5).

*DepthHeld* is about all rows of attempts, the enforcer's `depth` about none of them in
particular: it also counts calls it refused for another reason. `LastRowHeld` says that of the
last row no more have passed than `depth`, if `last` is its tool, and none otherwise; that
`depth` is 0 while there is no last tool makes the same true after a reset. `RowsGrow` is
the step, over sequences of attempts; it uses the cardinality theorems of the library.

*VelocityHeld* is about all windows of time, the enforcer's about the last one, of which
the filter keeps a suffix (`RecentIsSuffix`). `VelocityCounts` says that after any moment
the enforcer reaches back to no more calls were let through than its window holds behind
the times that are no younger. A call let through finds the window shorter than the limit,
and every window of time that ends with it is within the enforcer's.

The constants' assumptions are evaluated by TLC in the runs of the modules that declare
them. No fact is taken without a proof.

## 5. Only model-checked

All liveness, which the prover cannot do, and the three counterexamples, which need no proof.
Every safety property of the passing runs is a theorem.

Besides the three, the models show the code to differ from a text of the repository in the
following. No run is spent on these; what they break is what the properties do not say:

* a batch that succeeds moves the checkpoint over an earlier one that is still unsent
  (`ts/buffer.ts:187`), and a log that starts empty numbers from 1 whatever the checkpoint
  (`ts/wal.ts:231`), so that entries which were never sent are neither replayed nor kept,
  against `ts/wal.ts:4-6`. `WrittenAhead` therefore says "or at or below the checkpoint", and
  `TakenByAnswer` only who may move it;
* callbacks of `chain()` that overlap change each other's cycle (`ts/witness.ts:896`), against
  `ts/witness.ts:879`: "all witness calls inside the callback share the same cycle_id". No
  property speaks of the cycle an anchor carries;
* the stage "escalated" is none of `TERMINAL_STAGES` (`ts/witness.ts:66`), so an incident
  goes on after `escalate`, against `ts/witness.ts:8197`. `LineOfOneHandle` says what the code
  does about the end of a chain;
* `escalate` on a closed handle has begun the target chain before it finds out and throws
  (`ts/witness.ts:8095`): a root remains that no anchor names and nobody has a handle of;
* three methods send a reduced `ai_context` at level 2 (`Reduced` in MintSurface,
  `ts/witness.ts:2094`), against `ts/clearing.ts:11`: "ai_context DELETED". `FactorsOnly` is
  about level 3;
* the hash of `undefined` throws after a tool has run (`ts/witness.ts:1063`), so that a tool
  which returns nothing is not recorded, against `ts/witness.ts:1025`: "Each call mints an
  AI-TOOL.1 anchor". `RecordedOnce` asks nothing of it (`ReturnNothing`) but that it is not
  recorded twice.

Other behaviours met on the way are in the models, and are why a property is stated as
it is:

* Python's `stop()` cannot reach the list the daemon is collecting
  (`py/buffer.py:195`): the outcome `left` of
  ThreadedBuffer, which counts as settled: no property says that nothing is left; a body that is no JSON ends
  the daemon (`py/buffer.py:369`): `Raise`;
* a request of the MCP server with the id of a pending call is taken for its answer
  (`mcp/middleware.ts:261`);
* a closed chain that is resumed can mint again: the closing is the handle's, and
  `LineOfOneHandle` speaks of chains with one handle;
* an AI-SAMPLE.1 at level 2 or 3 does not name the procedure it summarises, and a flush by
  the buffer's timer, unlike `Witness.flush()`, emits no summary;
* methods that do not call `_applyOperationalMetadata` mint anchors without agent and cycle
  (`Bare`, `Inline` in MintSurface);
* a Mistral client has a `chat` and is given the OpenAI adapter, so that its calls pass
  unwitnessed (`ts/witness.ts:962`); streaming commands of Bedrock and `finalMessage()` of
  an Anthropic stream pass by too; streams of Cohere and Granite never record a refusal;
* wrapVLA mints AI-TOOL.1, as AI-MOB.7 is passed as the authorization;
* a handoff that is refused leaves its level in the chain (`ts/witness.ts:4763`), which no
  anchor tells: `TrustTrail` says so of the rest after the told part;
* the framing buffer of the sentinel client outlives its connection
  (`ts/sentinel-client.ts:207`): `OneMissedPerCut` bounds the damage;
* a second start of the Redis reader that fails ends the loop of the first, with `running`
  still true (`mcp/redis-reader.ts:110`), and one that completes during `stop` sets
  `running` again; the verifier asks the ledger only if the index has nothing.

## 6. Plan

What is left, in the order of its worth:

1. The Python log under ThreadedBuffer, and its Redis target.
2. The MCP server's session (open chain and verified trust) and the copy of the
   ChainEnforcer in `mcp/tool-policy.ts`, over GuardedCalls.
3. The rate limiter of credential checks in `ts/trust.ts`.
4. `walkChain` and Merkle proofs against reference definitions over bounded inputs.

## 7. Not modelled

* Hashing, signatures, fingerprints, credentials: functions over strings and
  cryptography; a fingerprint is a model value, so collisions are not examined.
* What a witness method computes from its arguments (factors, wording, code tables): no
  property depends on it. The same goes for exporters, tables, templates, profiles.
* The deployment gate, `walkChain`, `validateGovernanceGraph`, Merkle trees: pure functions
  over one document or list, which unit tests reach; nothing in the SDK feeds the
  Merkle accumulator.
* The handlers of the MCP server: each posts one anchor through the client.
* CLI, doctor, demo, parsing of configuration, writing of handoff files: input and output.
* The Kubernetes witness: a timer around the TypeScript SDK.
* Ports in Go, Rust, Swift, Kotlin, Ruby and .NET: they mint and sign; delivery is
  left to the application.
* Of the modelled files: log lines and the counters behind them; `destroy()` and
  `replayProtection: false` of the log; in Python the token counter (it only makes
  a flush earlier, which the model allows at any time), the Redis target and the
  log; in the tap demo mode and the resolution of tenants; of the adapters what they
  extract from an answer.
* `stop()` of the TypeScript buffer waits only for the send it starts: `StopReturned`
  says just that. What other sends hold at that time is theirs to settle.
