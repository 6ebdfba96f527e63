# mom: a verification development

`mom` is an HTTP service (OpenAI Chat, OpenAI Responses and Anthropic Messages dialects, and an MCP server) that
answers a request by fanning it out to a panel of models and letting a synthesizer merge their answers. This directory
models its core in TLA+, checks the models with TLC on small instances, and proves the central results with TLAPS for
every instance. Paths below are relative to the repository (`src/mom/...` is the Python package).

Contents: [the system](#1-the-system) · [the modules](#2-modules-and-their-code) · [the runs](#3-runs) ·
[bounds](#4-bounds-and-why-they-are-enough) · [fairness](#5-fairness) · [proofs](#6-proofs) ·
[disagreements found](#7-where-the-code-and-its-texts-disagree) · [limits](#8-what-is-only-checked-and-what-is-not-modelled) ·
[plan](#9-plan)

## 1. The system

Everything runs in one asyncio event loop per process: one callback at a time, so the code between two suspension
points (`await` on something not ready, `yield` in an async generator) is atomic, and *only* that. The exceptions are
the thread pool (`asyncio.to_thread`, sqlite's worker thread) and other processes that read the job files.

| component | code | state | operations | hard because | what makes it correct |
|---|---|---|---|---|---|
| request coalescing | `engine/coalesce.py`, `api/runs.py` | `_runs`; per run: history, queues, terminal, buffered chars, orphan timer, leader task | attach, events, broadcast, orphan expiry, end | callers come and go between broadcasts; cancellation is asked for in one turn and delivered in another | every caller folds the same log, none is left hanging, one live run per identity, nothing runs for nobody |
| pipeline run | `engine/pipeline.py` | the generator's place, member tasks, pending set, detached tasks and streams, the synthesis pump and its queue | run_ensemble, _fan_out, _run_member, callbacks, pump | two nested generators, a client that leaves at any yield or await, deadline, background work that outlives the request | each member's spend is booked once, the synthesis's unless its client left, nothing finished is dropped, the feed closes, quorum |
| caching client, cache store | `adapters/caching.py`, `store/cache.py`, `domain/cachekey.py` | `_inflight` futures; the `entries` table | complete, stream, get, put, evict | single flight across an awaited lookup; statements of many calls interleave on one connection | one upstream call per key, one caller charged, failures shared truthfully, the size and age limits |
| background jobs | `api/mcp/jobs.py` | `_jobs`, `_write_lock`, one JSON file per job | submit, report, end, save, cancel, aclose, record, status/result/list, prune | writes in threads outlive their cancelled awaiters; a task may be cancelled before it ran | a job ends once, the file never lies, who waits is woken, shutdown leaves nothing active |
| event bus and run index | `adapters/eventbus.py`, `domain/progress.py`, `runtime/wiring.py` | per request: history, subscribers, closed; a ring of run summaries | publish, subscribe, fold, evict; Redis variant | eviction on other requests' publishes; late subscribers; out-of-order Redis publishes | replay then live with no gap, the stream ends, runs in flight stay listed |
| progress feed endpoint | `api/routers/progress.py` | none of its own | snapshot, feed, page | follows the bus | it ends when the run does |
| metrics recorder and store | `store/metrics.py`, `domain/metrics.py`, `domain/cost.py` | a bounded queue, a writer task, one open transaction | record, batch, start/stop, report | shutdown in the middle of a batch; failing writes; overflow | each record is written, counted as dropped, or lost in one of three ways by a shutdown; the queue drains |
| upstream adapter | `adapters/litellm_client.py` | none between calls; in one, the attempt and the delay | complete, stream, classify, retry | one failure wears many shapes; a retry may repeat what was charged; two time-outs and two routes around one loop | attempts bounded and truthfully booked, refusals not retried, a timed member is answered for |
| planning, configuration | `engine/plan.py`, `config/resolve.py`, `config/types.py`, `config/capabilities.py` | read-only after start-up | resolve the catalog, plan a request | inheritance, variants, patches, effort tiers, directives and filters change the same panel one after another | the panel, the effort and the notices are what file and client say together |
| synthesis input, directives, tooling, custody | `domain/*.py`, `runtime/custody.py` | custody: a bounded map | fold answers into messages; parse directives; pick a tool call; remember ids | rewriting the same messages several times; eviction, restart and change of model between a call and its result | nothing the client said is lost or doubled; a provider's id goes back to that provider only |
| response encoders, SSE | `api/encoders/*`, `api/sse.py` | per response fold state | feed events, heartbeat | text, reasoning and parallel tool calls interleave, the stream may be cut anywhere | a well-formed stream in each dialect, and the same answer in all |
| MCP server and consult | `api/mcp/*` | none beyond the jobs | ask, submit, status, result, cancel | panels made for one call, arguments beside the prompt, progress relayed while the run goes on | a call gets the panel it describes; else as for jobs and runs |
| HTTP surfaces, secrets, discovery, tracing, CLI, lifecycle | rest of `src/mom` | read-only after start-up | translate, build, close | three protocols for one conversation; the order of shutdown | the same conversation in each of them; late rows are still written |

How they meet. A router or the MCP server builds a plan and calls `CoalesceRegistry.attach`; the leader's `_drive` task
is the only consumer of `run_ensemble`, and all callers, leader included, read its event log. `run_ensemble` calls
members and the synthesizer through `CachingClient`, publishes `ProgressEvent`s on the bus and rows to the metrics
recorder, and leaves background tasks (detached members, a stream kept to fill the cache) behind. A job is a consult in
a task of its own that iterates the same event stream and mirrors itself in a file. Cancelling flows the other way: a
client leaves → its queue is returned → the orphan timer cancels `_drive` → the generator unwinds → members are
detached or cancelled → a cancelled call of `CachingClient` fails its followers, which may belong to other requests.

All hazards known at this point are in `PROJECT.json`, each at its line.

## 2. Modules and their code

| module | models | how |
|---|---|---|
| `ReplayedStream` | what coalescing promises | abstract: runs are logs closed by a terminal event; a reader opens a log that is still open and takes it event by event from the start |
| `Coalesce` | `engine/coalesce.py` | one action per stretch between suspension points; a run is named by the caller that leads it, as the code names it by the leader's request id |
| `CoalesceProofs` | theorems about `Coalesce` | TLAPS |
| `RunPromise` | what a run of the pipeline promises | abstract: no tasks, queues, semaphore or generators; what became of each member's call, the end the client was told, the end the watchers of the feed were shown |
| `RunEnsemble` | `engine/pipeline.py` | `at` is the yield or await at which `run_ensemble` stands; `fan` is the state of the inner generator `_fan_out` |
| `RunEnsembleProofs` | theorems about `RunEnsemble` | TLAPS |
| `CachingClient` | `complete` of `adapters/caching.py` over `store/cache.py` | one action per SQL statement and per resumption |
| `CachingClientProofs` | theorems about `CachingClient` | TLAPS |
| `Jobs` | `api/mcp/jobs.py` | one action per resumption of a job, of a `_stop`, and per system call of the writer thread |
| `JobsProofs` | theorems about `Jobs` | TLAPS |
| `EventBus` | `adapters/eventbus.py` without Redis, and the pump of `api/routers/progress.py` | one action per publish, pull, sweep and tick; an event is its position in all that was published under its id |
| `EventBusProofs` | theorems about `EventBus` | TLAPS |
| `ChatEncoder`, `ResponsesEncoder`, `AnthropicEncoder` | `api/encoders/*` | one operator per closure of `encode_sse`, over a record of its local variables and the frames it has yielded; the non-streaming builders beside them |
| `Surfaces` | the three encoders and `collect` composed over one event stream | a step is an event of the run, in the orders `run_ensemble` yields them; every surface folds it at once |
| `SurfacesProofs`, `SurfacesAgreeProofs` | theorems about `Surfaces`; the second has `SurfacesGiveTheSame` | TLAPS |
| `Upstream` | `adapters/litellm_client.py`, `_run_member` and the hop to a backstop of `engine/pipeline.py` | one action per outcome of a call, a sleep, a timer, a part of a stream; `made` counts the calls that went out |
| `Catalog` | `config/resolve.py`, `merge.py`, `types.py`, and the card of `capabilities.py` | operators: inheritance, variants, the effort matrix, roster patches, references that do not resolve |
| `Conversation` | `domain/directives.py`, `synthesis.py`, `tooling.py`, `prompt_caching.py`, and `_responses_input` | operators over messages whose contents are blocks of tokens |
| `Planning` | `engine/plan.py` | operators over a catalog and a request, in the order `resolve_plan` applies them |
| `Wire` | `api/translate*.py`, `prepare_consult` of `api/mcp/consult.py`, `domain/requestkey.py` | a `Write` operator is the client, which puts what it means into the form of its protocol; a `ToIR` operator is the gateway |
| `Turn` | a client's conversation: boot, plan, panel, concluding call, reply, custody, restart | composes `Catalog`, `Conversation`, `Planning` and `Wire` in a state machine; `request` is what the client means, and grows as it sends the transcript back |
| `Recorder` | the recorder of `store/metrics.py` and its place in the shutdown (`runtime/wiring.py`) | one action per await; `open` is the transaction of the shared connection, `cut` a history of the batches a shutdown loses unsaid, `seen` how many rows there were when the final flush took the queue |
| `CallProofs` | theorems about `Upstream` and `Recorder` | TLAPS |
| `MCCall`, `MCProtocols` | two machines in one run each | `Upstream` and `Recorder`; `Turn` and `Surfaces`: they share no state, and a behaviour moves one of them and leaves the other at its start (`part`, `way`) |
| `MC*`, the others | instances | values of CONSTANTS that a .cfg cannot write, and symmetry |

Decisions a reader should know:

* **Coalesce.** `_drive` closes the generator in its `finally`. `run_ensemble`'s own `finally` awaits nothing, so that
  close never gives the loop back and ending a run is one step. `Task.cancel` only schedules: `Expire` sets the run
  `cancelling` and `DeliverCancel` is the later turn in which the task is told; a caller may attach in between.
  A caller may leave while reading (`Leave`, its `finally` runs) or before its first pull (`Vanish`, no `finally`:
  a generator that never started has none). The text of events is abstracted; each has a number of characters, for
  `max_buffer_chars`. A queue left behind by `Vanish` stays among the `subscribers`, so that no orphan timer is armed for it (section 7).
* **RunEnsemble.** Closing the outer generator at a yield does *not* close `_fan_out`: it is `dropped` and the loop's
  async-generator hook finalises it later (`FinalizeFanOut`); a cancellation at an await goes through both at once.
  Members answer `ok` (usable) or `bad`; a backstop is tried under the same semaphore slot. `LeaderCancelled` is a member
  call that `CachingClient` had coalesced onto another request's call, cancelled there. The sinks (metrics, bus,
  tracing) are assumed not to raise and not to block: they are `put_nowait`-like in the code. What `_run_member`
  catches is a `bad` answer; assembling messages may raise (`Fail` in `Conclude` and `PassThrough`).
* **CachingClient.** A call keeps the `now` it began with, judges a row by it and stamps the row with it. `Cancel` is
  possible at every await. Rows are of one size. Only `complete` is modelled; `stream` uses the table and not the
  in-flight map.
* **Jobs.** A save that is cancelled returns the lock; its thread, if it was running, goes on (`CutSave`). `cut` is a
  history variable: it remembers that a write of the job failed or was cut off, the only excuse the invariants allow.
  A process crash is covered without an action of its own: what a crash leaves behind are exactly `path` and `content`
  of some reachable state, and `FileWhole` speaks of all of them.
* **EventBus.** `Publish` is the whole of `RunIndexBus.publish`: fold, evict the index, touch, sweep, keep, send. Time is the age of
  a channel and of an index entry, in ticks up to `Ttl`, where `expires_at <= now`; `Tick` may come at any moment, so a run may be silent for
  longer than its channel lives. Being expired does nothing until something sweeps. `closed` is the flag of the channel
  object a reader holds, which outlives its eviction. The endpoint's pump puts into an unbounded queue and so does
  not give the loop back between two events that are there: while a pump replays, nobody else moves (`Holding`).
  `subscribe` relies on it: after the replay it returns if the channel is *by then* closed, although the final event may have come while
  the reader was suspended and be in its queue. A reader in `Stallers` does suspend, can end in the state `shut` without its
  last events, and is why `SeesTheEnd` is stated of `Pumps`. The index breaks ties of `updated_at` in any order.
* **Surfaces.** A frame is a kind, an index and a token; the wording of frames, ids, sequence numbers and usage are left out.
  The provider may interleave text, reasoning and fragments of parallel calls in any order; the run may fail at any event, and may
  end without a terminal event, which is what a subscriber of a cancelled coalesced run sees (`Cut`). Orders `run_ensemble` does
  not produce (an answer before `SynthesisStarted`, a fragment before its call) are not in the model.
* **Upstream.** The timer of a member is `wait_for` around `complete`; that of the synthesizer's stream is around every `__anext__`
  (`pipeline.py:611`), and the first one makes the calls and sleeps through the retries, so that it may expire there as well. A timer that fires is the row of a member with
  the status `timeout`, and of a synthesis that failed. An exception is what `_classify` looks at: its class, its status, its name, and whether its text speaks of an exhausted
  account or a truncated stream. A seat is a member (with or without backstop, usable proxy) or the streaming
  synthesizer; every planned call has a timeout (`plan.py:154`). What a Retry-After header may hold includes `nan`, which `float` reads and `min` keeps, and which
  `asyncio.sleep` refuses on the Python of the Dockerfile.
* **Wire.** What a client means has one form, that of `Conversation`; the protocol it speaks is one of four. So one property,
  written against the meaning, judges three translations: a call and its result are messages in Chat Completions, items of their own in Responses,
  blocks in Messages, where results and the words after them share a message; thinking that the client sends back is dropped. Sampling and `tool_choice`
  are carried as they are. `odd` is what a gateway may have to refuse.
* **Catalog, Conversation, Planning, Turn.** A text is a sequence of tokens, a directive block a token with its lines: parsing, which keys
  end the header, what is a name and what is prose is modelled, the regular expressions are not. `Turn` gives every member some outcome in any
  order and leaves deadlines, cancellation and the feed to `RunEnsemble`. What the client does between turns
  (`Resent`, `ComeBack`) is external. The properties are written against the *file and the typed lines*, read off in
  their own way (`Rostered`, `Typed`, `Transcript`), not against the operators of the plan. A block or the arguments of a tool call alone are taken as they are, repeated names
  included, and only the two together are made unique (`Merged`, `Union`); a name nobody knows is reported as often as the plan meets it (`Repeated`). A last message without parts cannot
  take a cache breakpoint and fails the run before the call (`Markable`).
* **Recorder.** One connection carries one transaction: what an insert executed before its commit failed is still in it and is
  committed by the next batch. So a row may be both counted as dropped and written; `Accounted` says nothing about that. It says that a row is waiting for someone who
  will read the queue, in hand, written or counted, or is one of three losses: the batch in which a shutdown cancels the writer, what the final flush took
  from the queue if that flush fails, and the rows a detached call records after the final flush, which may be in the queue and which nobody reads.
* **Mutants.** Operators with a comment that says so (`FinishAndGoOn`, `InsertLate`, `ExtendLast`, ...) are not used by any action: they are the plausible
  mistakes that show that each property is able to fail.

## 3. Runs

| run | instance | shows |
|---|---|---|
| `coalesce` | 2 callers, 1 identity, 2 different events, buffer of 1, fair | no event is missed or repeated by attaching late and all callers fold the same log (`Delivered` = `OwedExactly` and `SameAnswer`); the registry holds the live run of an identity and nothing else (`RegistryExact` = `OneLiveRun` and `RegistryLive`); only cancellation cuts a reader off (`CutMeansCancelled`); orphans are timed (`OrphanTimed`) and reaped even if their upstream never answers, and readers are released (`Released` = `OrphanReaped` and `ReaderReleased`); the whole implements `ReplayedStream` (`PromiseKept`) |
| `run_ensemble` | 3 members, 2 slots, one backstop; panels with and without detaching, deadline, quorum 0 or 2, tool calls; passthrough turns; fair | the spend of a member is booked once, that of the synthesis once if it answered or failed and never if its client left (`SpendOnce` = `BookedOnce` and `SynthesisBooked`), no call is without an owner (`CallsHeld` = `NothingDropped` and `CallsOwned`), and what is left in the background is booked in the end (`SpendBooked`), every seat one card and one terminal milestone (`FeedWhole` = `CardsFilled` and `FeedCloses`), quorum (`QuorumHeld`), runs end (`RunEnds`); the whole implements `RunPromise` (`RunPromiseKept`) |
| `caching` | 3 calls, 2 keys, cache of 1 row, time to live 1, fair | single flight and one charge (`PaidOnce` = `OneUpstream` and `ChargedOnce`), followers end as their leader and are released (`FollowersShare`, `FollowersReleased`), limits of size and age (`CapKept`, `ServedFresh`) |
| `jobs` | 2 jobs of which one reports a milestone, 2 `_stop`s, of the four at most 3 in a behaviour; fair | an ended job stays as it ended (`EndsOnce`), the file is whole, not ahead of the process, and says so before a waiter is woken (`FileHonest` = `FileWhole` and `DoneMeansSaved`), a `_stop` that returns left nothing active and a dead task is recorded or being recorded (`StopEnds` = `StopComplete` and `NeverStuck`), a waiter is woken (`WaitersWoken`) |
| `event_bus` | 2 ids, each used up to twice, 2 readers, one of which may suspend in its replay; 4 events, an index of 1 run, time to live 1 tick; fair | replay and live delivery have no gap, no repetition and the right end, and no reader is left on a channel nobody publishes to (`ReadersServed` = `Faithful` and `NeverDeaf`), a run loses its history only to silence and another id (`HistoryKept`), the index lists what is in flight and is otherwise bounded (`RunsListed`), watchers are released (`WatcherReleased`) |
| `call` | `Upstream`: every failure shape, 0 to 2 retries, both routes, 2 parts of a stream; `Recorder`: a queue of 3, batches of 2, 6 records; fair | rows claim the calls that were made (`AttemptsHonest`), a call is repeated only where it can help and no later than the cap (`CallsJustified`), every seat is answered for though no provider ever answers (`SeatSettles`); a row is written, counted or lost in one of the three ways above (`Accounted`), a failing database stops neither the writer nor the shutdown (`QueueDrains`) |
| `protocols` | `Turn`: about 3,700 pairs of a configuration and a request, in four protocols, that are planned; 47 requests at the same time; conversations in three protocols of up to 3 turns with a panel of 2, a custody of 2 ids and restarts. `Surfaces`: 2 members, 2 tool calls, 4 events of the answer, every option | the panel of a run is the one its caller, and who shares the run, asked for (`PanelAsAsked`); every route runs at the effort file and client ask for, where the cell is not `off` (`EffortHonoured`); `ConversationKept`, `IdsKept`, each written against what file and client say; each stream is well formed wherever it ends: `ChatFramed`, `ItemsClosed` (Responses), `BlocksBracketed` (Anthropic); the text, the calls and the reasoning, in its order, are the same on every surface, with a stream or without (`SurfacesAgree`) |
| `run_dropped`, `jobs_rollback`, `consult_shared`, `effort_off`, `candidate_order` | small, or those of the passing run | expected violations: section 7 |

`SpendOnce` is exact about the synthesis: its row is there if and only if its client was told how it ended. A client that leaves
while the answer is streamed leaves a call that was paid for, detached or not, and no row (section 7).
`SurfacesAgree` compares what is said and the order in which reasoning is said. It does not compare the order of items of
different kinds: a provider may mix them, and without a stream the items are sorted by kind. Anthropic shows the reasoning of the answer only in a stream, up to the first
text or call, and without a stream not at all; a Responses stream has the line that announces the members even if none of them answers (`Announced`).

A property that is a conjunction is two claims about one promise; each has a mutant of its own.
Every property of a passing run has a mutant in `PROJECT.json`: an operator beside the one it replaces, differing as a
plausible bug would, under which TLC finds the property violated.

## 4. Bounds, and why they are enough

* `Coalesce`: `MaxEvents` non-terminal events per run (2: the second one passes `MaxBuffer` = 1, so a run is withdrawn
  and another one may start beside it). Two callers are a leader and a follower, or two
  leaders in turn; runs of different identities share no state, so one identity sees every interaction. Any number
  of callers is what the proofs cover.
* `RunEnsemble`: three members over two slots (one waits for the semaphore), one of them with a backstop; `MaxChunks` = 1
  chunk (the queue is empty, filled and emptied). The plans are those where options interact; the set is in
  `MCRunEnsemble`. Counters of rows need no bound: `BookedOnce` keeps them at one.
* `CachingClient`: `MaxClock` = 2 with `TTL` = 1 gives a row that is fresh, at its limit, and expired; a cap of one row
  with two keys makes every second insert evict. Two of three calls share a key: a leader and a follower, or two
  leaders in turn.
* `Jobs`: `MaxReports` is the number of milestones of each job, 1 for one job and 0 for the other (`OneReporter`): one job saves while it runs, the other one only
  begins and ends. `MaxActors` = 3 bounds how many jobs and `_stop`s start, so every pair and triple of them meets and the four never all do. `Inodes` 1..5 is enough for one temporary file, one real file and three
  threads of a job, so that reuse never confuses two live files. Two `_stop`s are a `cancel` meeting another one or an `aclose`.
* `EventBus`: `MaxEvents` = 4 events in all are a whole run and the beginning of a second one under the same id with one of another
  id in between, or two runs side by side; `MaxTries` = 2 runs per id. `MaxRuns` = 1 with two ids puts the index over its limit. `Ttl` = 1
  tells what was touched since the last tick from what was not, the only difference the code makes.

* `Surfaces`: `MaxPieces` = 4 is the least in which two calls are opened and the first of them is continued after the second or after text;
  two members are a first and a further line. `usage` and `compat` are set together (`MCProtocols`):
  the one adds a frame after the finish, the other is about the fragments before it.
* `Upstream`: `MaxRetries` = 2 gives a first, a middle and a last attempt; `Backoff` = 20 puts the doubled delay above and the plain one below the
  cap of 30. `MaxParts` = 2 are a part that may be empty and one after it.
* `Turn`: the scenarios are in `MCTurn`. `Repeating` are arguments that give a name twice, `Unmarked` conversations with a message of no parts. `Rosters` vary what directives, effort, images, tools and search do to nine panels over four models and a variant;
  they are planned and not run (`turns` = 0). `Broken` are files that must not resolve. The conversations have two members (both orders, failing or not, proposing a tool or not),
  `MaxCalls` = 2 calls in a reply, and `MaxEntries` = 2 ids of custody, so that a second turn evicts. `Together` are requests that differ in one thing each
  (protocol, effort, tools, search, a line of the block, an inline panel), every one beside every other one; `Consulted` adds arguments of the consult tool.
* `Recorder`: a queue of 3 and batches of 2 give a full batch, a rest and an overflow; 6 records refill the queue behind a batch.

## 5. Fairness

* Coalesce: a caller's steps (`CallerStep`: the first pull, the later ones and the sentinel), the timer and the delivery of a cancellation are weakly
  fair: the loop runs what is ready, and the server iterates a stream it was handed (`StreamingResponse`) unless the client goes away, which
  `Leave` and `Vanish` may do instead at any time. Progress of the pipeline (`PipelineFairness`) is an
  assumption of `ReaderReleased` only: every upstream call has a time-out. `OrphanReaped` does without it.
* RunEnsemble: what wakes an awaiting generator, dispatch, answers (`wait_for` bounds a member's call), callbacks, the end of a stream
  (idle time-out) and the finaliser are weakly fair. The consumer pulls or closes (`_drive` does nothing else); nothing
  forces it to cancel an await, nor a fallback, nor a deadline to be configured.
* CachingClient: each call's own steps are weakly fair; cancellation and the clock are not.
* Jobs: ready code runs, threads end (well or badly), consults end. Milestones, submissions and `_stop`s are not forced.
* Upstream: calls and sleeps proceed and timers fire, `wait_for` of a member and the idle timer of a stream; nothing is asked of a provider, not even that it fails.
* Recorder: the task's and the shutdown's own steps; that a shutdown begins is not forced, nor that a write ever succeeds.
* Surfaces and Turn have safety properties only.
* EventBus: a reader's own steps. Publishing, sweeping, time and the client's leaving are not forced; a watcher of a
  run that is never published to waits for ever, as in the code.

All fairness is weak; the only steps of a client under it are the pulls of one that is still there. `call` states the fairness of `SeatFairSpec` and `RecorderFairSpec`, each
for its own machine.

## 6. Proofs

`CoalesceProofs` proves for any set of callers and identities, any events, any buffer limit and any bound on events:

* `TypeCorrect`: `Spec => []TypeOK`.
* `CallersOwedExactly`, `FollowersSameAnswer`, `SingleFlight`, `NoStaleRun`, `CutOnlyWhenCancelled`, `OrphansTimed`: the safety
  invariants of `coalesce` and their parts; `DeliveredExactly` and `RegistryIsExact` state the two conjunctions.
* `CoalescingKeepsPromise`: `Spec => PromiseKept`, the refinement of `ReplayedStream`.

The only assumption is `CoalesceAssumption` of `Coalesce` (constants have their types; `None` is no caller; terminal
events are not deltas). It is as weak as the code justifies: `MaxBuffer` and `MaxEvents` may be zero, there may be no caller.

The argument. None of the invariants is inductive alone. `OwedExactly` says what a reader is owed, but a broadcast
reaches the readers *registered with the run*; so `Linked` ties a caller to one run, and membership of a run's
`subscribers` to the state of the caller. `SameAnswer` needs that the terminal event is the last of its log (`LogShape`),
and that a reader that has it was still reading until then and has no second one to come (`Queues`). `RegistryLive` and
`OneLiveRun` hold each other up: the `is run_state` test at the end of `_drive` removes the run that ends and not a successor, because a live
run under the limit is the registered one. `IInv` is the conjunction. The lemmas `SubscribeLinks`, `DetachKeeps`, `BroadcastKeeps` and `EndKeeps` say what each helper of the
code preserves; then there is one lemma per action (`JoinInv` ... `ExpireInv`), and `StepInv` puts them together.
`OwedAppend`, `OwedTake` and `OwedNothing` are the three facts about sequences: appending to the history and to the queue,
moving the head of the queue to what was seen, and the empty queue. For the refinement, `RefinedStep` maps attach to `Open`, a broadcast to
`Emit`, a delivery to `Take`, and everything else to a stutter; `ClosedIsTerminal` identifies the abstract end of a log with the flag `terminal`.

`RunEnsembleProofs` proves for a panel of any width, any set of plans (any quorum, number of slots, set of backstops,
deadline or none, detaching or not, caching or not, tool turns, passthrough) and a synthesis of any length:

* `TypeCorrect`; `SpendBookedOnce`, `NothingIsDropped`, `EveryCallOwned` (who holds a call and its spend); `WatchersReleased`, `SeatsCarded`, `QuorumIsHeld`, `SynthesisIsBooked` (what was told); and the conjunctions `SpendIsOnce`, `CallsAreHeld` and
  `FeedIsWhole`. These are all the safety invariants of `run_ensemble`.
* `RunKeepsPromise`: `Spec => RunPromiseKept`, the refinement of `RunPromise`.

The assumption is `RunAssumption`: a panel has a member, and plans have their types. The proof is in layers, each relative
to the one before. `Ledger`: where `run_ensemble` stands decides whether `_fan_out` is open and has something pending (`FanShape`), which tasks
exist (`TaskShape`), that pending, detached and recorded exclude one another (`Books`), and which stages have a pump
(`PumpShape`); with these the three ledger properties are preserved by every action, and without them none of the three is (a member
that is both pending and detached would be booked twice). `StepFeed` classifies what a step may do to the feed
(`FeedSteps`: nothing, speak, close, depart) and needs that the flag `terminal_published` means what its name says (`FeedShape`).
`StepCards` views the feed as the set of carded seats, so that `FeedGrows` is the only lemma that looks at the
sequence. `StepSynthesis` rests on `QuorateStable`: once the fan-out is over, a late answer is of a member that was not reported,
and cannot change the quorum.

The refinement maps a member's rows in the ledger and the state of its task to what became of its call (`Fates`), `at` to how far the run is
(`Stage`), the last milestone to the end that was shown (`Shown`), and the plan to what was agreed (`Agreed`: whether the panel is asked, whether calls
are kept, and which sets of answers are a quorum; so the promise counts nothing). Of the promise's steps, several are one step of
`run_ensemble`: a panel without its quorum is told as failed and its calls are recalled at once. The layers above give the ledger, the flag and the quorum; one fact more is needed,
`Votes`: only a panel is asked for a vote, so a vote has a quorum to show. `EnoughBooked` is where the ledger and the quorum meet: the members
counted for the quorum are all booked. `LeaveRecalls` says that leaving `_fan_out` recalls every call that is out or, when
detaching, none, which needs `CallsOwned`; `LeaveEnds` that however the generator is left, its watchers were shown
an end. `RefinedStep` puts together the steps of the calls (`CallsRefine`), the panel (`PanelRefines`, `HandleRefines`), its end (`ConcludeRefines`), the answer
(`AnswerRefines`) and the ways out (`LeavingRefines`). The promise allows one thing a reader may not expect: after a vote the client was told of success, and if it
closes the stream at that event the watchers are shown a failure (section 7).

The six proofs that follow share a form. The model states the inductive invariant, `IInv`, as a conjunction of named parts; TLC checked it on
the instance of the run before it was proved; the proof module has lemmas about the operators, one lemma per action, `StepInv` that puts
them together, and `Inductive`. Each assumes only that the constants have their types (`CachingAssumption`, ..., `SurfacesAssumption`)
and what the list below names. An action property is read off a step from a state that satisfies the invariant.

`CachingClientProofs`, for any callers, keys, ages and sizes: `TypeCorrect`, `AnswersPaidOnce`, `FollowersShareFate`, `TableKeptSmall`, `ServedInTime`.
The assumption adds that the size after an eviction is not above the limit. An answer goes from a caller to a row or a future, and from there to others, so the
invariant says what each of these carriers may carry. `RowsWritten`: a row, and what a lookup found a while ago, is the answer of someone
who paid for it, and as old as it says. `Registered`: whoever is in `_inflight` leads its key and its future is open; that is why two leaders of a key cannot be. `FutureTells`: a
future that is not open tells how its leader ended, and with a value the leader has its own answer. `Standing`: what a caller has by where it stands. `TableKeptSmall` also
needs that the table is finite, and that an insert adds one row at most (`RowsKept`, `CapStays`).

`JobsProofs`, for any number of jobs, of calls of `_stop` and of milestones: `TypeCorrect`, `FilesCanBeRead`, `StoppedIsEnded`, `EndedOnce`. The file of a job is honest
because of a chain: the write lock is held by a save (`LockHeld`); as long as no write of the job was cut off, the only thread that writes it is the one the holder of
the lock awaits, with what the record says now (`OneWriter`); so the temporary file is that thread's and the real one has a whole record (`Files`). The condition *no
write was cut off* is where the finding of `jobs_rollback` enters: without it `OneWriter` is false. `StoppedIsEnded` needs `Stopping`: a `_stop` goes on only when the tasks it waits for
are over, ends one job at a time, and no two of them end the same one.

`EventBusProofs`, for any requests, readers, limits, times to live and numbers of events: `TypeCorrect`, `ServedOrReleased`, `IndexKnowsRuns`, `HistoryOutlives`. What a reader has is one
sequence in three parts (what it got, what is left of the replay, its queue), `Whole`; every step of a reader moves an event from one part to the next and leaves `Whole` as it was
(`HeadMoved`, `ReplayInv`, `GetInv`), and a publish appends to the `Whole` of the subscribers (`WholeAppend`). `Subscribed` says that
who is subscribed is up to date, `Histories` that a channel has no gap and a closed one has a final event, and `EndAhead` that a
pump which joined a closed channel has a final event yet to yield: this is what releases it. `Indexed` ties the index to the logs.

`CallProofs`, first half, for any number of retries, any backoff and any length of a stream: `SeatTypeCorrect`, `AttemptsAreHonest`, `CallsAreJustified`. The second assumption, `NoneAssumption`, is
that *no class* and *no status* are not among the classes and statuses. `Counts` ties the counter of the loop to the calls that went out on the
route, `Pending` says what a sleep or a hop was for, so that the next call is justified by the failure before it, and `Booked` has the rows of the routes left behind, in order.
`ClassifyDoes` and `WorthIt` say what the classification returns for every failure. The first attempt at
`DelayBound` failed because the model wrote the parsing of a Retry-After as a CASE whose guards overlap, so that its value was not determined; it
is an IF in the order of the code now.

Second half, for any sizes of the queue and the batch and any number of records: `RecorderTypeCorrect`, `RowsAccounted`. `Handed` says who holds the batch, the task or the flush of the
shutdown, that a batch about to be committed is in the open transaction, and what has been cut; then the recorded rows are those written, waiting,
in hand, counted as dropped, cut, or late. The bounds on what a shutdown loses, a batch it interrupts and a queue its flush had taken, follow from the sizes of the two.

`SurfacesProofs` and `SurfacesAgreeProofs`, for panels of any width, any tool calls and answers of any length: `ChatStreamFramed`, `AnthropicStreamBracketed`, `ResponsesItemsClosed` and `SurfacesGiveTheSame`,
all four properties of `Surfaces`. What is proved is the fold of any stream of events in the orders of `run_ensemble`, one event a step, cut or failing anywhere.

The first two rest on `StreamsInv`. What a dialect asks of a finished stream
does not hold of a stream that goes on, so the invariant says what is true of the frames *so far* together with the memory of the encoder: `ChatSent` (the
role sent or not, a think block open or not, the calls announced) and `BlocksSent` (the next index, the block that is open, the thinking block, and a signature whose stop is to come in the same
step). A frame appended after others changes none of the counts and openings before it (`OneMore`, `CountMore`, `OpenMore`); with that there is one lemma
per kind of frame (`SentRole`, `BlockStarts`, ...), per closure of the encoders (`ChatThink`, `Closes`, `Begins`, `Puts`, ...), per event (`ChatStep`, `BlocksStep`), and per
action. `CollectStep` is there because the end of a stream depends on the calls that were collected.

The other two rest on `SurfacesTogether`, a second invariant, `Agreement`, relative to the first: after every event what each surface has sent, and remembers, agrees with what `collect` has gathered *by then*.

* `ItemsGood` is the ledger of the Responses encoder: the items it holds open (reasoning, text, tools) and those it has put out share the output indices given so far, each its own; an
  open item was announced once, before its deltas, and is not closed; a closed one was closed once, after them; and `body` is what the deltas said. Only with the
  count of the open and the closed ones is the output, at the end, as long as there were items.
* `ChatShows`: the content, the reasoning and each call's fragments are what was collected, and the frames of the think block, its lines and the text come in
  the order of the non-streaming builder; while the block is open there is no text (`OpenSeen`), and when it is not there was none or it was closed (`ClosedSeen`).
* `AnthropicShows`: the blocks of calls stand in the order of the collected calls, each with its own index and its fragments, even when they come after the block was stopped; the thinking is all of the
  reasoning until the answer begins, and a part of it, the first, from then on.
* `ResponsesShow`: the texts put out and the open one are the text; the tools are the collected calls, in their order.

What a client reads off a stream is a recursive function (`Sending`, `Saying`): the frames of some kinds with some indices, in order. A frame of another kind at the end changes nothing
(`SentSilent`, `TokensNever`) and one of them is appended (`TokensMore`). These are inductions over the length of a stream. The library states
induction with an operator as a parameter, which no prover here instantiates; `AllNumbers` states it of a *set* of numbers instead: a set that has zero, and the next of each it has, has all of
them, because a least missing one would have one before it (`LeastNumber`, from the well-foundedness of `<`). The calls are sorted by index at the end: `Rank` of a call is the number of
calls not after it, indices differ, so ranks are one to one on `1..n` and therefore onto (`RankPlace`, by the pigeonhole theorem of the library), and sorting only permutes (`SortedSame`).
`AgreementOver` puts the ends together: closing what is open makes of `Agreement` what `ItemsClosed` and `SameSoFar` ask of a stream that is over.

For the reasoning, `SurfacesAgreeProofs` adds a third invariant, `Reasoned`: until the end, what the reasoning items of the Responses stream have said, put out or open (`Heard`), is what the
members' part has come to (`Preface`: the announcement, the notices, the outcomes) followed by the reasoning collected so far (`Thoughts`). It needs that the members' part is complete
before the answer begins, and that only the announcement can come without anything after it, which is the exception `Announced`. `ThoughtsStep` takes it over an event, `HeardOver` over the closing
of everything; `ResponseBuilt` and `MessageBuilt` take the two builders apart by kind of item, so that `ReasonedOver` compares them with what was streamed.

## 7. Where the code and its texts disagree

Five are the subject of a run that is expected to fail, and of an entry under "findings":

* `run_dropped` / `FinishedBooked`: without `detach_on_disconnect` a finished, unreported outcome is dropped with no
  metric (`engine/pipeline.py:608`, comment at 566).
* `jobs_rollback` / `NoRollback`: a cancelled save lets an older write land after a newer one (`api/mcp/jobs.py:319`, comment at 316).
* `consult_shared` / `SharedAlike`: the arguments of the consult tool take part in the plan (`api/mcp/consult.py:311`) and not in the identity by which a run
  in flight is found, which reads the directives off the messages (`domain/requestkey.py:49`, docstring at 11). With `dedupe` on, a consult that excludes a member is
  given the answer of a panel with it. Inline panels, for which the code thought of this (`consult.py:328`), and directives in a block are safe: `PanelAsAsked`.

* `effort_off` / `OffSendsNothing`: a cell `off` leaves the `reasoning_effort` of the llm's own parameters in place, and it is sent (`engine/plan.py:133`);
  `docs/CONFIGURATION.md:804` ("send **no** reasoning param") and the comment at `config/types.py:131` say the opposite. `EffortHonoured` leaves that case out.
* `candidate_order` / `CandidatesInPlanOrder`: the concluding model reads the candidates in the order in which they were answered (`engine/pipeline.py:895`), not in
  the order of the roster (`domain/synthesis.py:8`, `tests/golden/DEVIATIONS.md:10`). `ConversationKept` asks for each once, in some order.

The models also take the following steps, as the code does. No property forbids them, but a text of the repository does, or a reader
would be surprised:

* Synthesis: a client that leaves while the answer is streamed leaves a paid call without a row, detached or not (`engine/pipeline.py:1110`; the pump of
  `pipeline.py:438` reads it to its end for the cache). A message without parts where a cache breakpoint belongs is an IndexError
  (`domain/prompt_caching.py:70`), which fails the run before the call.
* Jobs: after a save that was cut off while its thread was writing, another one may write the same temporary file, and a reader can find a file that is not whole
  (`api/mcp/jobs.py:518`: "a reader never sees half a job"). `FileHonest` excuses the files of a job whose write was cut off.
* Chat: a stream that fails or is cut before its first chunk has no role (`api/encoders/chat.py:4`, `tests/golden/DEVIATIONS.md:12`: the first delta always carries
  it). `ChatFramed` excuses the frames of such an end.
* Directives: names are made unique only when a block and arguments of a tool call are merged (`domain/directives.py:114`); of one source alone a name that nobody knows, given
  twice, is reported twice (`plan.py:399`). `PanelAsAsked` counts it so.
* Translation: an `mcp` tool is forwarded to a concluding model on the Responses API (`plan.py:450`), not refused (`docs/API.md:128`); a tool of a Messages request that
  spells out its type, `custom` included, is skipped as a server tool (`translate_anthropic.py:118`); images in a tool result of a Messages request are dropped.
* Coalescing: a caller that leaves between `attach` and its first pull never gives its queue back, so the orphan timer is not armed
  (`engine/coalesce.py:143`, `docs/CONFIGURATION.md:227`).
* Pipeline: on a vote or first turn the terminal event is yielded before the terminal milestone is published; a consumer that stops there, as
  `_drive` does, makes the feed say "failed" (`engine/pipeline.py:871`, `docs/API.md:326`). Cancellation of another request's coalesced call leaves
  `run_ensemble` as an exception (`pipeline.py:599`, docstring at 690).
* Run index: a second run under a request id, which the client chooses, is folded on from "completed", and may be evicted in flight
  (`adapters/eventbus.py:239`, docstring at 201).
* Anthropic: a fragment of a tool call that comes after the next call or text began is sent as a delta of a block that was
  already stopped (`api/encoders/anthropic.py:271`).
* Upstream: a timeout, a stream that broke, a malformed answer and a Retry-After of `nan` are booked as one attempt, however many were made; the
  timeout of an attempt equals the outer `wait_for`; `response.failed` and `response.incomplete` events are skipped (`litellm_client.py:402`);
  a member whose proxy is unusable does not fall back (`pipeline.py:258`).
* Planning: images and windows are checked after the quorum of the panel (`plan.py:592`); search tools are lost when the client sends
  tools (`plan.py:455`, `docs/API.md:90`); a directive's names
  are lowercased, so an identity with capitals is never matched; blocks in older messages reach the models (`domain/directives.py:3`).
* Configuration: a variant inherits capability fields (`config/resolve.py:384`, `docs/CONFIGURATION.md:574`), may inherit a fallback that is
  itself, and two variants of one name replace each other; a card may advertise vision for a member that a tier skips.
* Recorder: a flush that fails raises out of `stop`, and what is closed after it stays open. What a shutdown loses is not counted as dropped: the batch in which the writer is
  cancelled, what a final flush that fails had taken, and the rows recorded after that flush, which nobody reads from the queue (`store/metrics.py:384`).

## 8. What is only checked, and what is not modelled

Only model-checked:

* everything temporal under fairness, which is out of the prover's reach: `Released`, `RunEnds`, `SpendBooked`, `FollowersReleased`, `WaitersWoken`, `WatcherReleased`,
  `SeatSettles`, `QueueDrains`;
* the properties of `Turn`, `PanelAsAsked`, `EffortHonoured`, `ConversationKept` and `IdsKept`: its operators resolve a roster, strip
  directives and translate messages block by block with the folds of the community modules, over records that differ from protocol to protocol. A fold is computed through an operator
  passed as an argument, which the provers do not instantiate, and each translation would have to be written again as a recursive function before a lemma about it can be stated. The
  evidence is the enumeration of `protocols`, over small rosters and messages;
* the runs that are expected to fail, which are counterexamples.

Not modelled: the components marked so in `PROJECT.json`, each with its reason. Within the modelled ones:
`CachingClient.stream`, `stats` and `clear`; `RedisEventBus`, the choice of the time to live, what a run summary holds besides its state, and two runs at once under
one request id; pruning and forgetting of old jobs, `record`, and readers of the files in other
processes; usage, cost and the payload parameters of the adapter; the validation of single configuration fields, secrets and loading; authentication,
sampling and `tool_choice` of the HTTP surfaces; the SSE heartbeat; the SQL of the metrics report; costs, tokens, texts and trace spans everywhere.

## 9. Plan

Done: `ReplayedStream`, `Coalesce`; `RunPromise`, `RunEnsemble`; `CachingClient`; `Jobs`; `EventBus`; the encoders and `Surfaces`; `Upstream`; `Catalog`, `Conversation`,
`Planning`, `Wire`, `Turn`; `Recorder`; and the proofs of all safety properties of their runs but those of `Turn`.

To prove next, of `Turn`: the parts that need no fold (which provider an id goes back to, as far as custody decides it; the effort of a seat).

Worth modelling after that: `_cached_stream`; the pruning of jobs; the reordering `RedisEventBus` allows.
