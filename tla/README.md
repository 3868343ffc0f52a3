# llama-harness in TLA+

TLA+ models of llama-harness (the Rust workspace under `src/`), checked by TLC and, for the broker, the
direct runner, planned and programmatic runs, speculation, the MCP catalog, the sidecar and the desktop
(approval router and trace store), proved with TLAPS. Paths below are relative to the repository; `core/` stands for `src/crates/llama-harness-core/src/`, `crates/` for `src/crates/`.

    tlc -workers 2 -config DirectSolo.cfg MCDirectRun      # any run of PROJECT.json
    tlapm DirectRunProofs.tla                              # any of the *Proofs modules

## 1. The system

llama-harness embeds tool-calling language models in an application. An *agent runner* selects the tools
a run may see (*discovery*), asks a *model provider* for a response (whole or as a *stream*), sends every
tool call in it through the *broker* (validation, limits, policy, approval, execution) and feeds the
results back until the model answers. Instead of single calls the model may be asked for a *plan* or a
*program*; the program runs in a *sandbox*. Tools may be an MCP server's. The runner is offered in
process (Rust, Tauri) and as a *stdio sidecar* that host SDKs drive.

| Component | State | Operations | Interacts with | What makes it correct | Module |
| --- | --- | --- | --- | --- | --- |
| Broker `core/broker.rs` | `BrokerState` per run (usage counters, identical calls, effects); `ToolConcurrencyLimiter` per runner | prepare, authorize, mark_dispatched, execute, record_*, finalize_usage | called by every strategy; awaits policy, approval, tools | every call classified and settled exactly once; effects not repeated; keyed executions exclusive; permits returned | `Broker` |
| Direct runner `core/runner.rs` | loop locals, transcript, deadline, cancellation token | run_direct_internal | provider, broker, event sink | budgets; a stop is honoured at every await and reported as what it was; the run ends | `DirectRun` |
| Adaptive runner `core/adaptive.rs`, `plan.rs` | plan, node results, gate, recovery count | plan, preflight, gate, waves, recover, reactive fallback | broker (several calls in flight) | preflight before any effect; wave independence; recovery only when every effect is known | `PlanRun` |
| Speculation `core/speculation.rs`, broker 1007-1905 | mode, meters and streaks per tool; one slot per runner; one candidate per turn | shadow, activate, issue, commit, discard, trip | broker, stream, policy | a candidate is used at most once, never twice executed; meters balance; slot and key returned | `Speculation` |
| Programmatic calls `core/programmatic.rs` | admission of the runner, program attempt, batch | plan, repair, invoke, fan out, settle, synthesize, fall back | broker, sandbox, provider | a batch is authorized whole; every exit gives the admission back; the answer is paid for | `Programmatic` |
| Sandbox `crates/llama-harness-programmatic-sandbox` | code, slots, loop stack, operand stack, fuel, pending calls | compile, verify, step, resume | programmatic strategy | slices and suspensions do not change what a program does; the verifier accepts what is sound and nothing else | `Sandbox*` |
| Discovery, registry `core/discovery.rs`, `tool.rs` | registrations and generation; two LRU caches per registry | register, replace_group, select a scope | runner | a scope holds allowed tools that fit and matter, whatever other runs do; caches stay within their limits | `Discovery` |
| Streaming `core/streaming.rs`, Ollama provider `crates/llama-harness-ollama` | assembler per consumer, line buffer, counters | push, finish, stream, complete | HTTP body, runner | a response is what was sent, whole, or an error; limits; no retry after an answer began | `ModelStream` |
| MCP `crates/llama-harness-mcp` | catalog epoch, contexts, in-flight leases, per-server gate | refresh, invalidate, call, close | tools of the registry | a stale or replaced catalog serves nobody; a context is closed after its calls, and never lost | `McpCatalog` |
| Trace store `crates/llama-harness-observability` | SQLite tables, health | append, list, export, retain, delete, migrate | event sink, console | a trace is read whole or not at all; rows go only by retention or deletion | `TraceStore` |
| Tauri bridge `crates/llama-harness-tauri` | run registry, pending approvals | register, cancel, approve, respond | runner, frontend | an approval is answered once, by the user or by nobody; capacity returned | `Approvals`, `DesktopHost` |
| Stdio sidecar `crates/llama-harness-runtime` | run table, callback table, bounded channel, tokens | command loop, run tasks, callbacks, shutdown | host over pipes; runner in each task | no run stranded; each answer used once; numbered frames in order; shutdown ends | `Sidecar` |
| Host SDKs, evaluations, CLI, promptfoo, facade, scripted runtime, console, examples, xtask | little or none here | batch, I/O, formatting | sidecar, runner | section 7 | none |

What is hard here: awaits at which a cancellation, a deadline and an answer can all be ready; foreign
futures that ignore cancellation or are dropped; one ledger written from many exits; permits and
connections held across awaits and shared by runs; state tested under one lock and used under another;
caches other runs fill; bytes cut anywhere; bounded channels that refuse frames; hosts and users that
answer late, twice, wrongly or never. `PROJECT.json` lists the most telling of these under `hazards`, at
their lines, with the properties that watch them.

## 2. The modules

| Module | Models |
| --- | --- |
| `Broker` | `ToolBroker`, `BrokerState`, `ToolConcurrencyLimiter` (`core/broker.rs`). Actions only: a strategy composes them |
| `DirectRun` | `run_direct_internal` (`core/runner.rs`) and, for runs in `Reusing`, `run_reactive` (`core/adaptive.rs`), over `Broker`, for several runs of one `AgentRunner` |
| `PlanRun` | `run_planned`, `execute_plan` and the reactive loop after a plan (`core/adaptive.rs`, `plan.rs`, broker.rs 462-560), over `Broker` |
| `Speculation` | the candidate of a streamed turn and its controller (`core/speculation.rs`, `broker.rs` 1007-1905, `runner.rs` 457-669), over `Broker` |
| `Programmatic` | `run_programmatic_engine`, `execute_programmatic_batch` (`core/programmatic.rs`), over `Broker` |
| `SandboxCompiler`, `SandboxSource`, `SandboxVm` | the sandbox's compiler and verifier, what its programs mean, and its virtual machine |
| `ToolRanking`, `LruCache`, `Discovery` | the ranking (pure), the caches (operators), and runs that select scopes over shared registries |
| `StreamAssembly`, `ModelStream` | the assemblers of `core/streaming.rs` and `core/speculation.rs` (operators), and a request from the Ollama provider to the runner |
| `CatalogPromise`, `McpCatalog` | what the MCP catalog manager promises, and how it keeps it (`crates/llama-harness-mcp/src/lib.rs`) |
| `Approvals`, `TraceStore`, `DesktopHost` | the Tauri bridge, the SQLite store, and an application that uses both |
| `Sidecar` | `serve_stdio_with_factory`, `run_start`, `request_callback`, `resolve`, `start_writer` (`crates/llama-harness-runtime/src/lib.rs`) |
| `BrokerProofs`; `DirectRunProofs`, `PlanRunProofs`, `ProgrammaticProofs`, `SpeculationProofs` | lemmas about the broker's actions, and theorems about the four strategies over it |
| `McpCatalogProofs`, `SidecarProofs` | theorems about the two |
| `DesktopProofs` | theorems about `DesktopHost`, and so about `Approvals` and `TraceStore` |
| `MC*` | constants for TLC |

### Broker and DirectRun

A *slot* is a call in flight; `RunOf` says whose. `DirectRun` has one slot per run, since the loop
walks the calls of a turn in order. A *signature* stands for a tool with its canonical arguments, the
key of `identical_calls` and `effects`.

| Model | Code |
| --- | --- |
| `usage[r]` | the counters of `BrokerState` (80-93), one record field per counter |
| `seen`, `effects` | `identical_calls`, `effects` (`EffectRecord`, absent = `"none"`) |
| `status`, `stop` | `RunResult.status` (initially `Failed`); the token and deadline read by `check_stopped` |
| `phase`, `call`, `err`, `before` | where `prepare`/`execute` is for a slot, its signature, the error it returned, and `attempts_before`/`classified_before` (runner.rs 652-667) |
| `holder` | the owner of each keyed semaphore |
| `pc`, `modelCalls`, `retries`, `repairs`, `queue` | the loop's position and locals |
| `starts`, `confirmed` | history only: executions begun, executions that returned a valid success |

The step between two awaits is one action. `prepare` runs to its first await in one step, so each of
its early returns is one disjunct (`PrepareStopped` ... `PrepareAdmitted`); policy and approval are
the two guarded awaits; `mark_dispatched` has no await between itself and the first check of
`execute`, and is still a step of its own, which only adds interleavings. `execute` is `AwaitPermit`,
`Invoke*`, `Tool*`, `BeginGrace`, `EndGrace`. Cancellation may come at any step and is never
withdrawn; a deadline may pass at any step; a cancellation after the deadline is reported as a
cancellation, as `check_stopped` does. `await_guarded` polls the stop first, so an answer counts only
while the run is live.

Abstracted: message contents, schemas and sizes (their failures are the nondeterministic choices
`PrepareUnusable`, `ToolFails`, `AnswerInvalid`, `AnswerTooLarge`, `RefuseRequest`'s third case and the
overflow halves of `PushResult` and `AnswerCalls`), events, and the providers, policies, approvers and
tools, which may answer anything, at any time or never. `PartyErrors` is the set of error classes such a
party reports by itself: any `HarnessError` is possible, and the runs use sets that include a timeout
and a cancellation of the party's own. `execute` looks the tool up again after the permit and compares
identity; the registry cannot change while a runner exists, so that failure cannot occur and is left
out. The second-level repair of counters in `finalize_usage` is not modelled: `ClassifiedOnce` says that
it has nothing to do. A speculative turn enters the broker differently and is module `Speculation`.

### PlanRun

A node of a plan is a slot `<<r, i>>` of `Broker`, so the nodes of a wave are in flight together; the
reactive loop uses slot `<<r, 0>>`. A plan is a value of the constant `Plans`: for each node the
signatures its arguments may have (several only if results are bound into them), its dependencies, the
nodes its bindings read, and whether it is an approval barrier or kept serial. What is accepted passes
`StaticallyValid`: `ExecutionPlan::validate` (`ValidGraph`: existing, acyclic dependencies, and bindings that
only read what they wait for) and `static_plan_preflight`.

| Model | Code |
| --- | --- |
| `pc`, `ask` | the position in `run_planned`/`execute_plan`/`run_reactive`; `ModelCallPhase` of the completion |
| `modelCalls`, `retries` | `model_calls`, `provider_retries` |
| `plan`, `attempt`, `done`, `gateOpen`, `started`, `failure` | the locals of `execute_plan`: plan, `plan_attempt`, `done`, `mutation_gate_open`, `effects_started`, `wave_failure` |
| `todo`, `exec` | what the loop of preflight, gate or wave has not reached; `executable` |
| `resolved` | `signature_accounted` |
| `dropped` | history: prepared nodes given up with their plan |

Preflight prepares the nodes in order (`Prepare` of `Broker`; a bound node only up to its validation).
`Schedule` picks the reads that are ready, opens the gate when there is none, and then takes mutations
one at a time. The gate and the wave both call `Revalidate` (`revalidate_bound_arguments`), whose
disjuncts are its early returns. A wave is dispatched as a whole, its calls execute independently
(`join_all`) and, once all have ended, are recorded in order. Every way an execution ends goes through
`DropPlan`, which frees the prepared nodes as the drop of `PreparedNode`s does, and then to recovery, the
reactive loop, the synthesis or the end. A run that turns direct before it accepted a plan leaves the
module (`"direct"`): it goes on as `DirectRun`.

Abstracted: the sizes of plans, arguments and results (any of them may exceed its limit:
`RefuseRequest`, `Dispatch`, `WaveNodeReused`, `RecordNode`, `GoOn`), and the number of output repairs of
the reactive loop, which `DirectRun` counts. Not in this module: the programmatic continuation
(`Programmatic`), strategy downgrades by capability, discovery.

### Sidecar

| Model | Code |
| --- | --- |
| `main`, `acking` | the command loop of `serve_stdio_with_factory`: serving, between `cancel_run` and its acknowledgement, shutdown, cancel_all, join, flush, returned |
| `writer`, `queue` | the writer task and its bounded channel |
| `runPc`, `token`, `sequence` | each spawned task (a run, or a provider inquiry), its `CancellationToken`, `RunControl.sequence` |
| `pending`, `ask`, `inbox` | `RuntimeState.callbacks`, the callback a run awaits, its oneshot |
| `received`, `replies` | the host: callbacks it has read, answers it has sent |
| `accepted`, `numbered` | history: answers handed to a run, its last numbered frame |

The runtime is multi-threaded, so every lock acquisition and every send is a separate action:
`request_callback` is `AskHost` (number, then the limit, under the first lock), `InsertAsk` (second
lock), `SendAsk`, and then the select between the answer, the token and the timeout. `try_send` on a
full or closed channel is a refusal, and each sender does with it what its code does: leave
`serve_stdio` (`?`), ignore it (`let _ =`), fail the callback, or cancel every run (events). A tool
callback that is cancelled sees the token inside `request_callback` and removes its entry; a policy or
approval callback is dropped by `await_guarded` and leaves the entry (`GuardedKinds`). The host is
unconstrained: it may answer what it was sent late, repeatedly or with the wrong kind, cancel, start,
stop reading, or close either pipe. A run has one callback at a time, which is so for direct runs;
parallel plan waves have several, which here are callbacks of several runs. `MaxAsks` and `MaxEvents` bound
how often each run asks and reports.

`get_provider_health` and `get_model_inventory` spawn tasks of the same `JoinSet` (`StartInquiry`,
`AnswerInquiry`). Such an inquiry is not in the run table (`Registered`), has no token, and counts toward no
limit, but `Join` waits until `Tasks`, runs and inquiries alike, is empty: a shutdown is as late as the last
inquiry, which only the provider's HTTP timeout bounds.

What a failed callback does to its run depends on the error. A refused frame is `HarnessError::Tool`, which a
planned run may recover from and go on (`SendAsk`). A callback that timed out (`CallbackTimesOut`) or met the
callback limit (`AskHost`) is `TimedOut` or `ResourceLimit`, which `is_terminal_failure` (adaptive.rs
2850-2855) puts among the errors that end a run under every strategy; hence these lead to `"ending"` only.

### Speculation

One streamed turn per run (speculation is tried once per run, at its first provider attempt) over the
actions of `Broker`, with two slots per run: `Direct(r)` for the authoritative call at index 0 and
`CandidateOf(r)` for its candidate, which only ever holds a permit. Runs share the controller, the one
speculation slot and the keyed permits.

| Model | Code |
| --- | --- |
| `mode`, `exact`, `meter` | `ToolState` (213-218); `meter` keeps the counters the breaker and the balance read. Every operation of the controller is one critical section, hence one action or part of one |
| `slot` | the runner-wide semaphore |
| `cand` | `CandidateState` and, inside `ActivePending`, the await at which the future of `speculate` stands: `"new"`, `"ordinary"` and `"dedicated"` (the two policies), `"running"`, `"grace"`; then `"ready"` |
| `pc` | the stream loop, the await of a pending candidate after it (`"tail"`), the two drains, and the commit of the call at index 0 |
| `due` | the deadline that has passed. The candidate's never exceeds the call's, nor that the run's, so one value says which |
| `want`, `committed` | the finalized call at index 0; history |

`"issuing"` is the stretch between the last check of the mode and `SpeculativeLease::new`; `"spent"` the
one between the settlement of a lease, which is recorded first (`Settle`), and the drop of its permits
(`Release`). Both are synchronous for their own run and interleave with the other runs and the host,
which are on other threads. A refused commit or a late decision leads to the ordinary execution of the
already authorized call. A tool is registered from the start (before its first valid candidate it is
`Disabled`, which behaves like a Shadow tool with no observations).

Left out: the pre-issue and latency counters, partial probes, a retry after a failed stream (it does not
speculate, and is `DirectRun`), and an embedder that drops a whole run. The mismatch breaker is out of
reach: the assembler refuses a second call at an index, so the captured call is the authoritative one.

### Programmatic

A run is admitted (or refused, never queued) while `admissions` are left, asks for a program, may repair it
once, and runs it. What a program computes is left to the sandbox: here the VM may yield any batch that its
instructions can form, return or fail. A batch is authorized whole before its first call is dispatched, its
calls run together, and all of them are settled before the VM goes on.

| Model | Code |
| --- | --- |
| `pc`, `modelCalls`, `attempt` | the position in `run_programmatic_engine`, `model_calls`, `program_attempt` |
| `wanted`, `taken`, `dispatched` | the requests of the batch, how many `prepare` has been given, `dispatched` |
| `admissions` | `programmatic_admission`, one semaphore of the runner |

`ReportsTruth` joins the balance of the ledger at the end of a run, that a program that completed had every
call confirmed, and that a run that may have left an effect behind says so; `ReservesHold`, that the model
call of the synthesis is there when it is needed and that no admission is lost or forged. Abstracted: the
byte accounting of the synthesis input (its reservation is made before the first effect) and provider
retries.

### Sandbox

`SandboxCompiler` translates a tree of statements into flat code over numbered slots and verifies the code
again without the compiler's bookkeeping: definite assignment by a flow over slots (`Verdict`), the operand
stack of each expression (`Balanced`, `MaxOperands`) and the least size of what is returned. `SandboxVm` runs
the code one unit of fuel at a time, in slices of any size the host asks for; comparisons and aggregates of
composite values keep explicit frames between units, as `advance_equality` and its siblings do, and a tool
batch suspends the run until answers come, matched by token and place. `SandboxSource` says what a program means
from its syntax tree alone: names instead of slots, no code, no fuel, arithmetic by its law (a quotient is
the number that divides, `Representable` or failed). `AgreesWithSource`: whatever the slices and answers, the VM asks for,
returns and fails as the source does, and never with an internal error. `VerifierSound`: a program is
accepted if and only if it is well scoped and fits (its declarations, its operands, its least result), and
no verified program outgrows its operand stack.

Integers are `-(MaxInt+1)..MaxInt`. Strings, object size and byte accounting, nesting and node limits are
left out; building a composite and following a pointer is one unit of fuel here.

### Discovery

`Register` and `ReplaceGroup` change a registry (a replacement makes a new one; runs that hold the old go
on with it). A selection reads the index cache and the prepared-catalog cache under the shared lock, ranks,
and, where it missed, builds the entry outside every lock and inserts it under the exclusive one, each of
these a step. `ToolRanking` is the BM25 of the code with its fixed-point logarithm and half-up divisions,
on the constants of the instance (`Scale`, `Ln2`); `LruCache` the two caches, with recency ticks drawn and
stamped in two steps. `ScopesSound`: a finished scope has only allowed tools, fits the budgets, was ranked
from the registry and order the run asked for, and left nothing relevant out that would have fitted;
`CachesSound`: no key twice, counts and bytes exact and within their limits, and a write evicts
the entries used longest ago. Abstracted: tokenization (a query is its phrase and its terms), fingerprints,
durations, posting lists. An empty scope (`EmptyCatalog`, `NoCapacity`, `NoMatch`) is covered too: it is
empty for the reason it gives. The version in the cache keys is not exercised: a registry that runs share no
longer changes (registering needs `&mut`), and a replacement makes a new registry with caches of its own.

### ModelStream

A request is refused, answered whole, or streamed. Ollama's body arrives in chunks of any size and may end or break
at any byte; lines are taken from the buffer, decoded and pass the provider's own controller, then the
consumer's, with the limits of the run, into the response. Another provider yields any events. `AssemblySound`: an accepted response is what was sent, and what is buffered
meanwhile is counted byte for byte; `ErrorsSound`: a whole, sound stream is not refused, and an
error is retryable only while nothing was delivered. A tool's validator is the set of texts it accepts; token
usage is left out, as are the size limits of each single schema in `ToolCallAssembler::new` (streaming.rs 298-328)
and the error class of arguments nested too deep (486-490), which are refused like any invalid argument. A
delta that is refused leaves the assembler of the model as it was, where the code has already put its index
among the seen ones; nothing reads it again, since the controller is fused by the error.

### McpCatalog

One action per section of the manager's mutex and per answer of the transport; refreshes, calls, closes and
drain workers interleave, and the future of each may be dropped at any of its awaits. A server context is named by
the refresh that connects it.

| Model | Code |
| --- | --- |
| `active`, `bound`, `closed`, `invalidated`, `epoch`, `exhausted`, `tokens`, `pending`, `retired`, `nextGeneration` | the fields of the manager's state |
| `rpc`, `refresher`, `generation`, `retiring` | the refresh in `refresh_lock` |
| `cpc`, `adapter`, `server`, `waiting` | a call, its adapter, the server's one permit and its waiters |
| `worker`, `kpc`, `snapshot`, `failed`, `answer` | drain workers and the close in `close_lock` |
| `opened`, `shut`, `closeBegun` | history of the transport |

`CatalogPromise` is the abstract specification: one context serves, it was listed after the last notice
whenever a call is let through, it gives way only when no call runs on it, and nothing runs on a context
whose shutdown has begun. `McpCatalog` implements it under the mapping `Promise` (`serving` is the active
catalog, `current` the contexts whose epoch is the manager's, `using` the context of a call past its last
check, `closing` the contexts whose close has begun); TLC checks `KeepsPromise == Promise!Spec`. The clock that expires a
catalog is a rejection at any time; pages and results are not validated.

### Approvals, TraceStore, DesktopHost

`Approvals` is `RunRegistry` and `ApprovalRouter`: an entry of `pending` is the sender of a one-shot
channel, the waiting task holds the receiver and a guard; an answer, the timeout, the token, `cancel_run`
and the drop of the task each take locks of their own. `TraceStore` is the table of events: appends and
batches with continuing sequence numbers, retention, deletion, import, an export that counts under one
lock and reads under another, health, and the migrations of a v1 database that two processes may start
together. `DesktopHost` composes them: a run registers, emits, asks for one approval, and ends. The four
`Scenes` are applications that stress one part each; a scene with two runs, both kept and both asking, is
the product of the first two. Redaction, raw payloads, paging and read-only opens are left out. A stored
event is compared with an arriving one by run and trace (`Verdict`); no scene sends an event of a stored
execution under another trace, so that only the comparison of runs is exercised. The second schema's primary key
`(run_id, sequence)` is that of the first: what migrates never collides on it, hence the assumption that
`LegacyRun` is injective. `KeepRuns` may be 0.

## 3. What is checked

| Run | Instance | Properties |
| --- | --- | --- |
| `DirectSolo` | one reusing run, a write and a read under one key, 3 model calls, 3 tool calls, 2 identical, 1 retry, 1 repair, 2 calls a turn | `ClassifiedOnce`, `EffectsSound` (an effect is begun once; recovery only when all are known), `OutcomeSound` (budgets; a run says truly why it stopped), `NoStartAfterStop` |
| `DirectShared` | two runs (one reusing), a keyed and an unkeyed write, one call each | `PermitsSound` (exclusion, no leak), `StoppedRunEnds`, `EveryRunEnds` |
| `PlanSolo` | one adaptive run, six valid shapes of plan and three invalid ones, 3 model calls, 4 tool calls, 2 identical, 1 retry, waves of 2 | `LedgerBalances`, `EffectsSound`, `ScheduleSound` (one gate; bindings resolve; nothing beside a mutation), `SynthesisReserved`, `StoppedRunEnds` |
| `Programs` | two runs (one routed by the adaptive planner), one admission, batches of up to 2, 3 model and tool calls, 2 identical | `ReportsTruth`, `ReservesHold`, `BatchDiscipline`, `StoppedRunEnds` |
| `Sandbox` | 10,947 programs, slices of 1 and 7, two answers | `AgreesWithSource`, `VerifierSound` |
| `Speculation` | two turns, an eligible read and a write under one key, one call each, one observation required | `LedgersBalance` (each call answered and counted once), `NoSlotLeak`, `KeyExclusion`, `BreakerHolds`, `TurnsComeToRest` |
| `Discovery` | two threads, 7 tools, 7 kinds of request, 2 replacements, caches of 2 | `ScopesSound`, `CachesSound` |
| `Stream` | bodies of up to 3 lines, whole replies, 6 events of another provider, 8 refusals | `AssemblySound`, `ErrorsSound`, `EveryRequestEnds` |
| `McpHost` | two refreshes (one registered), two calls, two closes, one retired context, epochs 0 and 1 | `ContextsAccounted`, `KeepsPromise`, `EveryoneReturns` |
| `McpLost` | the same with one call | `CloseReclaims`, violated: section 5 |
| `Desktop` | four scenes of one or two runs, two legacy traces, two openers | `ApprovalsSound`, `ReadsAreWhole`, `TraceTellsTruth`, `RowsAreKept`, `EveryRunEnds` |
| `Sidecar` | two runs, one question, one event, channel and callback table of 1, 2 answers a question | `AnswersHandedOver`, `Sequenced`, `CancelledRunEnds`, `ShutdownEnds` |

A property that joins several names them as its conjuncts, each defined and explained above it. The type
invariants (`TypeOK` in each module) are stated for the reader and for the proofs; `TypeCorrect` proves
those of `DirectRun`, `PlanRun`, `Programmatic`, `Speculation` and `DesktopHost`, and TLC checked all of them on these instances.

**Bounds.** Two model calls are needed for a repeated proposal and a third for a proposal after the
refused one; two identical calls and three tool calls let each limit be reached both first and last; two
calls in a turn put a break between calls. One retry and one repair reach both sides of their limits.
Contention for a key needs two runs and one call each; a second call adds nothing that the solo run
lacks. In `PlanRun` three model calls are a plan, its recovery and the answer, or a plan and two turns of
the reactive loop; four tool calls are two plans of two nodes or one of four; the plans are the smallest
in which a node is bound behind a read, two reads share a key, a bound read exceeds the identical-call
limit, a change is repeated, a read fails after a change, and a read and a change are ready together; the
invalid ones bind behind a change, bind to a node they do not wait for, and wait for each other. `Forced`
is empty: a forced run fails where an adaptive one may go on. In `Programs` one admission for two runs
makes each refusal and each leak visible; the second run has programs without tools, which contend for the
admission only; the write has no key, so that nothing but the admission of a fan-out keeps two writes apart.

The sandbox's programs put each statement alone, in a branch, in a loop and two deep after a first value
of each kind, and each operator on the ends of the integers (`MaxInt` is 3: overflow, `MIN / -1` and
`MIN % -1` all occur) and on values of every kind; `MaxFuel` is more than the longest of them needs but
for those that are meant to run out. Slices of 1 and 7 cut at every unit and let several pass. `MaxOperands`
is 3, one less than the deepest expression. In `Speculation` a candidate belongs to one turn, and contention for the slot, the key
and the breaker needs two (`MCAsks`: the first model asks for the read, the second for either); `Required`
is 1 for the thousand of the code, since only the comparison with it matters, and `Init` starts with any
streak up to it, as earlier turns may have left. The catalog of `Discovery` is built so that each rung of
the ranking, each refusal of the registry and each way a scope is cut short is some request's;
`MaxStarts`, `MaxStopping` and `MaxRegistries` bound the selections, the stops and the replacements; caches
of two entries fill and evict with the third request. In `Stream` limits are a few bytes so that every one of them is
reached from both sides. In the MCP run `MaxEpoch` is 1 for `u64::MAX`: the second notice saturates. In `Desktop`
the clock has two values, `budget` bounds what else happens to the database and `MaxQuery` 2 makes a trace
of two events the largest readable. In the sidecar a channel of one is full after an acknowledgement, which
is what 256 frames are to a host that stops reading; two answers make a duplicate. The sidecar was also run once with one run
of two questions and an event over a channel of two, and with two runs under a limit of one (`RunsCapped`);
neither showed anything new. The two threads of `Discovery` are interchangeable and its run uses that
symmetry, which is sound for the safety properties it checks; no other run does.

**Deadlock** is checked in `Stream`, where a request that is done may stay so and nothing else may stop. Elsewhere it is
not: a run that is done and a process that exited take no more steps, and a silent host or tool may stop
everything. The liveness properties say what must happen.

**Fairness.** The `Spec`s are weakly fair to the program's own tasks, which tokio polls when they are
woken, and never to the environment, unless said here. `DirectRun`, `PlanRun`, `Programmatic`: `RunStep` of each
run (and `CallStep` of each call of a batch, which `join_all` polls); no action of a run is disabled and enabled by others for ever except the wait for a
permit, which `StoppedRunEnds` does not need. Nothing is assumed of providers, policies, approvers, tools,
or of the application's cancellation. `EveryRunEnds` of `DirectRun` alone has the premise that they answer
(`AnswerFairness`); a run waits for a permit at most once in that instance. `Sidecar`: the run tasks and
the loop, the end of an inquiry (the provider's HTTP client has a timeout), and the end of a cancelled run that
is computing, which is `StoppedRunEnds`; `ShutdownEnds` has
the premise `WF_vars(Alive /\ Write)`, a host that reads or closes the pipe. `Speculation`: the run's task
and `CandidateDue`, since the candidate deadline is always configured (1 to 5000 ms). `McpCatalog`: the
refresh, the close, each call and each drain worker, including that a transport operation ends, since
each is under a deadline of the manager's limits. `ModelStream`: the consumer, and a body that goes on or
breaks, since the HTTP client has a total timeout; another provider's events are not assumed, so that a
request of one ends only when the run is stopped. `DesktopHost`: each run's thread, whose approval has a
timeout. The first drain, the last answer or the user's click are never assumed.

**Mutants.** Each property of a passing run has a mutant definition (an operator whose comment begins
with `MUTANT of`), a plausible bug in the code that the property finds; a property that joins several has
one for each that can fail by itself: a dropped stop check, an off-by-one, a permit kept on one exit, an
entry left in the table, a binding to a node that is not awaited, an answer matched by count alone.

## 4. What is proved

The theorems hold for every set of runs, signatures, keys, plans, calls and so on, and for every limit,
from the named assumptions on constants alone (`SigAssumption`, `SlotAssumption`, `LimitAssumption`,
`PlanAssumption`, `CatalogAssumption`, ...; each is declared beside its constants and evaluated by TLC).
`Safe == Init /\ [][Next]_vars`; no theorem uses fairness. Each theorem about a property that is not
inductive rests on an invariant that says what the code relies on between its steps, and TLC checked that
invariant on the instance of the runs before it was proved.

| Module | Theorem | Establishes |
| --- | --- | --- |
| `DirectRunProofs` | `TypeCorrect` | `TypeOK` |
| | `EveryCallClassifiedOnce` | `ClassifiedOnce` |
| | `EffectsAgree`; `EffectsHappenOnce`, `RecoveryOnlyWhenKnown`, `EffectsAreSound` | `EffectInv`; `EffectsSound` and its two parts |
| | `PermitsAlwaysAgree`; `KeysExclude`, `PermitsDoNotLeak`, `PermitsAreSound` | `PermitsAgree`; `PermitsSound` and its two parts |
| | `StoppedRunsStartNothing` | `NoStartAfterStop` |
| | `BudgetsHold`, `CancelledWasAsked`, `OutcomesAreSound` | `OutcomeSound` and its two parts |
| `PlanRunProofs` | `Schedules`; `TypeCorrect` | `ShapeInv`; `TypeOK` |
| | `SchedulesAreSound` | `ScheduleSound` |
| | `EffectsAreSound` | `EffectsSound` |
| | `LedgersBalance` | `LedgerBalances` |
| | `PlansKeepASynthesisCall` | `SynthesisReserved` |
| `SpeculationProofs` | `Invariance`, `TypeCorrect` | the invariant of a turn; `TypeOK` |
| | `KeysExclude` | `KeyExclusion` |
| | `CallsAreAnsweredOnce`, `MetersAlwaysBalance`, `LedgersAlwaysBalance` | `LedgersBalance` and its two parts |
| | `ActiveMustBeEarned`, `BreakerIsFinal`, `BreakerAlwaysHolds` | `BreakerHolds` and its two parts |
| | `NoSlotIsLeaked` | `NoSlotLeak` |
| `ProgrammaticProofs` | `Invariance`, `TypeCorrect` | the invariant of a run and of the admissions; `TypeOK` |
| | `ReportsAreTrue` | `ReportsTruth` |
| | `ReservesAreKept` | `ReservesHold` |
| | `BatchesAreDisciplined` | `BatchDiscipline` |
| `McpCatalogProofs` | `Invariance` | the invariant of the manager |
| | `PromiseKept` | `KeepsPromise`: `McpCatalog` implements `CatalogPromise` |
| | `NothingLost`, `Accounted` | `ContextsAccounted` and two of its parts |
| `SidecarProofs` | `Invariance` | the invariant of the tables, the numbers and the loop |
| | `HandedOver` | `AnswersHandedOver` |
| | `NumbersIncrease` | `Sequenced` |
| | `RunsAreCapped` | `RunsCapped`, which no run checks |
| `DesktopProofs` | `Invariance`, `TypeCorrect` | the invariant of an application; `TypeOK` |
| | `RouterDecides` | `ApprovalsSound` |
| | `TracesAreWhole` | `ReadsAreWhole` |
| | `TracesAreTrue` | `TraceTellsTruth` |
| | `RowsStay` | `RowsAreKept` |
| | `FailuresAreCounted` | `FailuresCounted`, which no run checks |

`BrokerProofs` holds what the strategies share: the types of the broker's actions, what each does to the
counters, to the effects and to the one slot it moves.

**DirectRun.** `ClassifiedOnce` speaks only of runs that are done. It is made inductive by `LedgerInv`: in
each phase of a call the counters differ from balance by exactly what the phase still owes (one
classification while a call is being authorized, one settlement while it is dispatched), and `before` still
tells a call that `prepare` counted from one it refused. A lemma (`OnlyOwnRun`) reduces a step to the run
that takes it. `EffectInv` relates the ledger of a reusing run to the history of what was begun and
confirmed: while a call is unclassified its effect is unknown to the ledger, from `mark_dispatched` until it
is recorded it is `"dispatched"`, and a `"completed"` effect has as many confirmations as starts. That a
second start is impossible then follows from `KnownEffect`, which turns every later proposal away.
`PermitsAgree` says that the holder of a key is exactly the executing call of that key; exclusion and the
absence of leaks are its two halves. For the budgets (`CountsInv`) the starts of a signature are bounded by
its identical calls less the one that is pending, since a call counts before it starts. That only an
application cancels a run needs `Asked`, which follows a `"cancelled"` from the party that reports it through
the error the call carries to the status.

**PlanRun.** A step is first classified by what it does to plan and calls (`Move`): the invariants are
proved over a dozen moves. `ShapeInv` gives each place in the loops what holds there: which nodes are
prepared or deferred (`Places`), which the loop has passed (`Loops`), what is known of resolved bindings
(`Known`), what may be in the wave (`Waves`) and what each request is for (`Asks`). Two arguments are not
local. A valid plan has a first node among any set of its nodes, by the number of its ancestors, so a wave is
never empty while nodes are left; and the bound nodes left when nothing can be read any more have all their
reads done, so that all of them pass the gate. `EffectsInv` adds that a state change alone in its wave is
revalidated just before it is dispatched, hence begun only if its effect is `"none"`, and that a recovery is
pending only while every effect is known. `LedgerInv` counts calls in flight: calls = classified + dropped +
owing slots, issued = settled + slots in hand, and while one call is being decided every other of its run is
untouched or dispatched (`Calm`), which is what lets a plan's end drop exactly the prepared ones.
`SynthesisReserved` speaks of executing plans, but the call it promises has to survive requests, retries, a
repair and a recovery: `ReserveInv` says that an optional request is only waiting to be sent while two calls
are left, and only under way while one is.

**Speculation.** For `BreakerHolds`, `StepIsControllerStep` shows that a step of the whole system is at most
one of five operations of the controller (demote, promote, observe, issue, commit); `ActiveIsEarned` is
inductive with the types (`EarnedInv`) and it is why nothing is committed after an incident. `SlotInv` adds
to `NoSlotLeak` where the turn is: without it a commit could give up a candidate whose future still runs, or
settle one that is gone. `TurnInv` ties the place of the turn to the phase of its authoritative call, and
says that nothing has started until one of call and candidate begins; a turn whose decision was dropped is
unbalanced only because it was stopped. `KeysInv` gives every permit a candidate or a call inside its tool,
and `MetersInv` allows the meters one lease off balance, the one that is open.

**Programmatic.** Here a run has many calls in flight, which end in any order, so its ledger is compared with
sets: at least as many calls are counted as are classified or still being authorized (`Pending`), exactly as
many are issued as are settled or in hand (`InHand`), and a signature has begun as often as it was confirmed
or is running, as long as no call of the batch failed. `Batches` makes the sets meet: during preparation
only the last call taken up is undecided and nothing is in hand, so that dispatch turns the ready calls,
which are then all of `Pending`, into all of `InHand`; once every call is over, `InHand` is what settlement
counts, split three ways. `Reserve` carries the model call of the answer from admission to synthesis, across
the repair. A step of one run leaves the calls and the ledger of every other alone (`Untouched`), and moves
at most one admission. The proof assumes of the slots of a run that they are distinct, and of an adaptive
run that the call its planner made was within the limit.

**McpCatalog.** A refinement by steps: the mapping sends each critical section to one step of
`CatalogPromise` or to a stutter. It needs that generations are distinct, that a call past its last check
uses the active context, and that holding the write side of the dispatch gate means no such call is left.
Counting the retained contexts alone is not inductive: a close may hand a context to a worker after the
refresh's own cleanup has closed it, so the bound counts each context once among all its owners.

**Sidecar.** `AskInv` says that the run waiting for an answer has its entry in the table, or its answer in
its inbox, or is cancelled: each of the three steps from number to frame may be overtaken by the others.
`AcceptedInv` makes entries and accepted answers exclusive, `SequenceInv` keeps the number drawn for a
question above all those sent, and `LoopInv` that after the join there is no task, run or inquiry, and none
can be spawned.

**Desktop.** In the router, `AnswerInv` says that an answer in a channel, or a verdict that is an answer, was
delivered, and that the channel of an answered request is never open again; hence one answer a request.
`LogInv` says of every event a run has emitted that it is `True`: its number is at most the length of the
log, only the last one ends the run, and what it says of the decision was answered by the user. It is needed
because `append_batch` may bring any prefix of a log back, altered or under another run, long after it was
emitted, and because rows may be deleted and imported again. `Sound` is what the table keeps at the current
schema: each row is a true event or one of a legacy trace, below each number all smaller ones are stored,
and one execution has one run and one row a number. It is a property of a table, not of a state, so that it
can be carried through the table's values inside a transaction; at the older schemas `RowsInv` knows the
table exactly, since only a migration writes to it. That a batch keeps `Sound` is an induction over the fold
that `append_batch` is; the library's induction rules take an operator and are out of reach, so
`FoldsSolvable` and `BatchKeeps` argue by the least counterexample instead, with a set in the place of the
predicate. A sound table is whole by counting: numbers without hole or repetition are as many as the
greatest of them. `RowsStay` adds that retention by number takes nothing while there are no more executions
than it keeps. Besides the types and limits the proofs assume that an execution's name is not that of a
migrated trace (live ones are fresh UUIDs, migrated ones carry the prefixed names of the third schema), that
public ids are run ids, and that no run id is the only one (a host may use any text), which is needed to
choose another for an event that comes under the wrong run.

**Only model-checked**: everything about the sandbox, discovery and streams; and
all liveness, which TLAPS cannot prove (fairness needs `ENABLED`): `EveryRunEnds`, `StoppedRunEnds`,
`TurnsComeToRest`, `EveryoneReturns`, `CancelledRunEnds`, `ShutdownEnds`, `EveryRequestEnds`. The sandbox's
modules and the ranking are recursive over trees and sequences, out of the provers' reach altogether. In
`McpCatalog` the queue `waiting` is filtered with `SelectSeq`, whose result the provers cannot type (it is
defined by recursion); no theorem needs it.
In `ModelStream`, `ReassembledAsSent` and `RefusedForCause` compare with flattened and selected sequences, which is
induction over data; `RetriedOnlyUnanswered` and `BuffersAccounted` are left for section 6.

## 5. What the code does otherwise than its documents say

One run of the project shows the first; the others are stated by a definition that TLC refutes when it
is put in the place of the properties of the named configuration.

* `McpLost`, `CloseReclaims`: `close` takes the pending contexts over only in the section that first sets
  `closed` (`crates/llama-harness-mcp/src/lib.rs` 1183-1203), but a refresh that is still connecting keeps its context
  after that (1378-1386). If that refresh is then dropped nobody owns the context: every later close
  answers `CleanupPending` and the connection stays. The comment at 1491-1493 says that close can still
  reclaim it.
* `CallbacksCapped` (`Sidecar.cfg`, `MaxAsks` 1 for both runs): `request_callback` tests the number of
  pending callbacks under one lock and inserts under another, so two runs can pass the test together.
  `src/protocol/compatibility/v1.md:15` says the runtime must cap pending callbacks.
* `TerminalIsLast` (`Sidecar.cfg`): the acknowledgement of a `cancel_run`, which names the run, can follow
  its terminal frame. `src/docs/protocol.md:23` says the terminal message is last. Numbered frames are in
  order (`Sequenced`): only the acknowledgement, which has no number, comes late.
* `TerminalIsSent` (`Sidecar.cfg`): a terminal frame refused by a full channel is dropped, and nothing
  replaces it, although the writer is up.
* `ShadowNeverIssues` (`Speculation.cfg`): `speculate` reads the mode a last time (broker.rs 1305) and issues
  afterwards. A tool returned to shadow in between is called in Shadow mode, although speculation.rs:78 says
  that in Shadow candidates are "never executed". The commit does recheck under the controller's lock, so
  such a candidate is never committed (`BreakerHolds`).
* `LinesBounded` (`Stream.cfg`): `max_stream_line_bytes` is compared with what is left in the buffer after
  the whole lines were taken (`crates/llama-harness-ollama/src/streaming.rs` 77-104), so a longer line that
  arrives in one chunk with its newline passes. provider.rs:82 calls it the maximum size of one line.

Seen while modelling and kept in the model as the code has it, without a definition of their own:

* An append's outcome is recorded after the connection is unlocked (sqlite.rs 365-392, 691), so two writers
  may record theirs in the other order and the store ends `healthy` after a failure; the field's comment
  (sqlite.rs:108) speaks of the most recent attempt.
* `respond`'s comment (`crates/llama-harness-tauri/src/lib.rs` 403-404) says a cancelled request answers
  NotFound; until the cancelled task is polled its entry is still there, and an answer is delivered to
  nobody.
* `ast.rs:328` of the sandbox speaks of structural equality; `advance_equality` (vm.rs 2026) compares objects
  entry by entry in their order, and object literals keep the program's order while tool outputs are
  sorted, so two objects equal as JSON may compare unequal.
* A stream without text yields `Some("")` and the requested model's name where `complete` yields `None` and the
  reported one (Ollama provider).

## 6. Plan

1. Proofs of `RetriedOnlyUnanswered` and `BuffersAccounted` in `ModelStream`, and of the limits in `CachesSound`.
2. Two planned runs that contend for keys; a parallel wave over the sidecar's callbacks.
3. The SDK clients composed with `Sidecar`.

## 7. Not modelled

* **Wire protocol, CLI, promptfoo, facade, scripted runtime, examples, xtask, scripts**: types, parsing,
  files and formatting, with no state that outlives a call. Frames are records in `Sidecar`.
* **Evaluations**: cases run one after another; assertions are pure. The sidecar has no command for them.
* **Host SDKs** (TypeScript, Python): the host of `Sidecar` is unconstrained, which contains them; their own
  promises are not stated.
* **Harness console**: its queries are those of `TraceStore`'s console; its interface is not modelled.
* **Inside modelled components**: schema compilation and validation, redaction, tokenization and Unicode
  normalization, fingerprints, JSON itself, HTTP, SQL and SQLite's own locking, byte sizes of plans and of
  sandbox values, paging and summaries, health and model listing of the Ollama provider. They are pure or
  I/O and are better served by the repository's own tests; where their failure matters it is a
  nondeterministic choice of the model.
