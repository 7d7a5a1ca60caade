# A verification project for arc-platform

TLA+ models of the concurrent core of the A.R.C. platform, the TLC runs that
check them on small instances and the TLAPS proofs that establish the main
properties for every instance. Everything is translated from the code; file
names below are relative to the repository, `reasoner/` stands for
`services/reasoner/src/reasoner/`.

## 1. Inventory

The repository is a platform of services around third-party servers
(PostgreSQL with pgvector, Redis, MinIO, NATS, Pulsar, LiveKit). Its own
programs are the **reasoner** (Python, asyncio), **cortex** (Go), **voice**
(Python, asyncio), a small Python SDK and shell scripts that resolve profiles
and wait for health. The rest is images, compose files, workflows and prose.

| component | state | operations | talks to | hard behaviour | correct when |
|---|---|---|---|---|---|
| streaming NATS handler `reasoner/nats_handler.py` | per message: attempt, generator, what was published; the connection | `_handle`, `close` | NATS, generator | first-token timer, retries, error path entered from everywhere, closing underneath | one verdict per request, nothing after it, replies agree with it |
| token generator `reasoner/graph.py: stream_graph` | where it stands, saves in the background | search, stream, save, be cancelled | memory, LLM | cancellation inside a shielded save, a failing save | no ai turn without its human turn; a result is remembered |
| conversation memory `reasoner/memory.py` | `reasoner.conversations`, `arc:ctx:*` keys, a lazy Redis client per replica | `search`, `save` | PostgreSQL, Redis, other replicas | fill racing with invalidation, partial invalidation, latching client | own committed turns only; staleness explained and bounded |
| knowledge files API `reasoner/files_router.py` | `knowledge_files`, bucket | upload, delete, read | PostgreSQL, MinIO | two systems, no common transaction | a row has its object |
| vector stores API `reasoner/vector_stores_router.py` | `vector_stores`, `vector_store_files` | create, delete, attach, detach, search | PostgreSQL, pipeline | status read then acted upon, sync timeout, background tasks | an unfinished row is somebody's business |
| ingestion pipeline `reasoner/rag/application/ingest.py` | status of a row, `knowledge_chunks` | `ingest` | PostgreSQL, MinIO | deletions between its transactions, cancellation, failing failure path | completed means searchable; it ends |
| RAG NATS handler `reasoner/rag/nats_handler.py` | connection | ingest, search, embed, chat | pipeline, retriever, graph | blocking embed, partial replies | a result, and a reply if one was asked for |
| graph `reasoner/graph.py` | agent state | retrieve, generate, retry, `invoke_graph` | memory, LLM | which failures reach the retry route | retries bounded, path A and B told apart |
| Pulsar handler `reasoner/pulsar_handler.py` | in-flight messages | consume, result, ack, nack, close | Pulsar, graph | crash between result and ack, redelivery | at least one result per message, ack last |
| v1 chat `reasoner/openai_nats_handler.py`, `openai_router.py`, `streaming.py` | per request | stream, announce | NATS, HTTP | two result subjects, client disconnects | one outcome on all subjects |
| chunker `reasoner/rag/chunker.py` | - | `chunk_text` | - | stride at the boundary | covers the text, overlap as configured |
| lifespan `reasoner/main.py` | `app_state` | start, probe, stop | all of the above | messages before the state is set, order of shutdown | no request on half a service |
| cortex orchestrator `services/cortex/internal/orchestrator` | in-progress flag, last result | bootstrap, deep health, readiness | four clients | check and start are two steps, shutdown during a run | one run at a time, ready means the last run succeeded |
| cortex clients `services/cortex/internal/clients` | breakers | probe, provision | PostgreSQL, NATS, Pulsar, Redis | breaker thresholds | fail fast, recover |
| voice worker `services/voice/src/voice/livekit_worker.py` | voice activity state, turn | connect, chunk, turn, disconnect | STT, bridge, TTS, Pulsar | turn awaited inside the audio loop | every turn has one outcome event |
| voice bridge `services/voice/src/voice/nats_bridge.py` | connection | `reason` | streaming NATS handler | its timeout against the retries of the reasoner | the answer it hands on is the reasoner's |
| scripts `scripts/lib/*.sh` | - | resolve, parse, wait | docker | cycles, duplicates | a topological order or an error |

`PROJECT.json` lists the same parts with what is modelled of each, and the
hazards of the code at the lines where they bite.

## 2. Plan

Written (in this order):

1. `StreamGraph`, `NatsHandler`: the request path every chat message takes.
2. `ContextCache`: the memory shared by all replicas.
3. `KnowledgeTables`, `KnowledgeBase`: the knowledge base, at rest and at work.
4. `CircuitBreaker`, `Cortex` and the abstract `BootstrapGate`: the server that
   bootstraps the platform.
5. `NatsHandler_proofs`, `ContextCache_proofs`, `KnowledgeBase_proofs`,
   `Cortex_proofs`.
6. `ReasonerContract`: what the NATS chat handlers promise a requester, refined
   by `NatsHandler` and by the v1 chat, and used by the voice service.
7. `VoiceBridge`, `VoiceEvents`, `VoiceWorker`: a voice turn against that
   contract.
8. `AgentGraph`, `PulsarHandler`, `ChatChannels` and `ReasonerService`, which
   composes them: every other way into the reasoner, from start to exit.
9. `StreamGraph_proofs`, `VoiceWorker_proofs`, `ReasonerService_proofs`, and the
   theorems of `NatsHandler_proofs` about the memory, dead letters and the
   contract: every safety property of every run is now a theorem.
10. Progress: `IngestSettles` and `TurnsAreAnnounced` as theorems of the fair
    specification, termination measures for the two other components whose runs
    state liveness of unbounded work (`HandlersTerminate`, `CallsTerminate`), the
    breakers' trials, the messages the consumer holds, and the link between the
    voice model and the reasoner's contract (`ReasonerIsItsContract`).

11. Progress in the other four components: everything that their liveness claims,
    up to a descent or a redelivery that would have to go on for ever; and what two
    answers to one user have to do with each other (`AnswersAreOneHistory`).

Next:

12. `ChatSession`: `StreamGraph` over `ContextCache`, a user reading what was
    written by the previous request.
13. Pure algorithms, in modules for TLC: dependency resolution, chunking, the
    health wait loop.

Which module uses which (`A > B`: A EXTENDS or INSTANCEs B):
`NatsHandler > StreamGraph, ReasonerContract`;
`VoiceWorker > VoiceBridge > ReasonerContract`; `VoiceWorker > VoiceEvents`;
`ReasonerService > PulsarHandler > AgentGraph`;
`ReasonerService > ChatChannels > StreamGraph, AgentGraph, ReasonerContract`;
`KnowledgeBase > KnowledgeTables`; `Cortex > CircuitBreaker, BootstrapGate`.

## 3. The modules

### StreamGraph

One generator at a time per request. `gen` is the await the generator stands
at: `search` (`memory.search`), `llm` (the event stream), `yielded` (suspended
at a `yield`), `saveHuman`, `saveAi` (the shielded saves), `stopped`
(StopAsyncIteration), `timeout` and `failure` (the exception it raised, told
apart because `nats_handler.py:196` does). `turns` counts the committed rows,
`detached` the saves that a cancelled generator left running behind
`asyncio.shield`: each commits or fails later, on its own. `SaveFails` skips
whatever was still to be saved and ends the stream normally (the `except
Exception` of graph.py:329); `Cancel` is a `CancelledError`, which that clause
does not see. `Token` counts the tokens that are yielded, up to `MaxTokens`.

### NatsHandler (EXTENDS StreamGraph)

One action per await of `_handle`, so everything between two awaits is atomic as
it is in asyncio. `pc` names the await; `attempt`, `replyTo` are the handler's
variables; `sent` counts the publications per subject and is the observable
result. `Publish` is `if self._nc is not None: await self._nc.publish(...)`:
with no connection it is skipped, with a closed one it raises, into the outer
handler or, from inside that handler, out of it. `Respond` does not look at
`self._nc`: it raises whenever the connection has gone. `Close` is the two
halves of `close()` that a handler can observe. `Retry` publishes to the
durable subject before it counts the attempt, as the code does, so an exception
there leaves the count alone. What a message says is chosen by `Receive`
(unparseable, rejected, accepted) and by whether `Intercept` or `Complete`
follows the stream.

The NATS client runs the callbacks of one subscription one after the other; the
handler has two subscriptions. Requests share nothing but the connection, so the
model lets them interleave freely, which includes every order the client allows.

### ContextCache

`rows` and `cache` are the two shared stores; a turn is the save that wrote it,
an answer is the set of turns it was computed from. `Lookup`, `Select` and
`Store` are the three awaits of `search`, with the fail-open clause of each;
`Insert` is the transaction of `save`, followed by the scan:
`BeginScan`, `DeleteKey`, `EndScan`. Redis promises that SCAN returns every key
that is there from the beginning to the end of the iteration and nothing about
the others: `todo` is the first set, `DeleteKey` may also hit others.
The scan looks for `arc:ctx:{user_id}:*` with the id as it is, while GET and SETEX
use it literally: `Matching` gives for each user the keys its pattern matches, and
`MatchesItself` says that its own are among them. An id with `[`, `?`, `*` or `\` may
match another user's keys too, or instead.
`Connect` and `Ping` are the lazy client of `_get_redis`, including the case
that two first calls ping at once. `Expire` is the TTL of SETEX, `Restart`
kills a replica with its calls. History variables: `floor` (the saves of the
user that had returned when a search began), `racers` (the searches that were
between SELECT and SETEX when a save committed), `source`, `clean`.

### KnowledgeTables and KnowledgeBase

`KnowledgeTables` holds the four tables with foreign keys and cascades, the
bucket, and the calls that create and delete files and stores, one action per
transaction or MinIO call. `KnowledgeBase` extends it with attach, detach and
the jobs of `ingest()`. A job belongs to the attach call or the NATS message that
started it. `SyncTimeout` is `asyncio.wait_for` cancelling the job where it
stands and `create_task` starting it again; the same clause also catches a
`TimeoutError` the job raised itself. Parsing, chunking and encoding do not
yield and are part of `Download`; a document is text, blank or corrupt.
`Restart` loses calls and jobs, never rows or objects. SQL statements are taken
to do what they say; parameter binding and drivers are outside the model. A
client names only ids it was given, though they may be deleted by then.
History variables: `lost` (pairs whose status update failed or whose process
died), `purged` (files a detach removed from every store), `unlisted` (pairs
whose chunks were written or left without a row).

### CircuitBreaker, Cortex and BootstrapGate

`CircuitBreaker` is the record gobreaker keeps per dependency: state, consecutive
failures, and the calls of the present generation, so that a call that comes
back after the breaker changed state does not count. Cortex builds its breakers
with the library's defaults (`app.go:60`): one trial call when half-open, no
periodic reset, and a threshold that is the constant `TripAfter`.

`Cortex` has one action per step two goroutines can observe apart. `Post` is
`Handler.Bootstrap`: it loads the flag and answers 409, or spawns a run and
answers 202. `Begin` is the compare-and-swap in the goroutine, `Publish` the
store of `lastResult` when all phases have returned, `Release` the deferred
store of the flag. `call[w][d]` is the phase or probe of a run or health check
`w` at dependency `d`: `Enter` asks the breaker, `Provide` creates one stream,
tenant, namespace or topic, `Answer` and `GiveUp` report to the breaker. A
dependency is `up`, `down` (it fails, or is slower than the timeout of its
client) or `hung` (it never answers a client that has no timeout: the constant
`Patient`, which in the code is Pulsar, whose client is `http.DefaultClient`, and
PostgreSQL, whose ping and query have only the `context.Background()` of the run). `Deaf` clients ignore the context of a health check whose client
went away; the others may notice it (`Disconnect`, then `GiveUp`). A call that
gives up may have created what it last asked for. `Restart` loses flag, result,
runs and breakers, `made` stays. Backing services do not forget resources.
`GET /ready` reads `lastResult` and has no action of its own. History variables:
`latest` (the run started last) and `suspects` (dependencies that were not up,
or whose call a client cancelled).

`BootstrapGate` is the abstract specification: runs start one at a time and never
twice, a run concludes once, readiness changes only then or is lost with the
process. `Gate` in `Cortex` is the refinement mapping.

### ReasonerContract

The abstract specification of a chat handler as its requester sees it: a request
gets at most one `verdict` and its reply inbox at most one `answer`, which is
that verdict; two verdicts (`intercepted`, `deadLettered`) are never answered. It
has no tokens, attempts, timers or subjects, and promises nothing in time.
`NatsHandler` implements it (`HonoursContract`, with the verdict read off what was
published), so does the v1 chat (`Contract` in `ChatChannels`), and `VoiceBridge`
lives with nothing but it, so the voice checks hold for any reasoner that keeps
the contract.

### VoiceBridge, VoiceEvents and VoiceWorker

`VoiceBridge` is `NATSBridge.reason` and the connection of its module. `Ask` raises
without a connection, raises something that is no `BridgeError` on a closed one
or without subscribers, and may lose the request. `Read` is the parsing of the reply:
`PayloadKeys` holds the keys of the payloads the reasoner sends, since the keys
decide what the bridge does. `Reason` lets the reasoner decide and answer
at any time, also after `Timeout`.

`VoiceEvents` is the fire-and-forget publisher: `Publish` starts a task, the task
sends or drops.

In `VoiceWorker`, `vad`, `frames` and `silence` are the three maps by participant
(`_vad_state`, `_speech_frames`, `_silence_count`), with the lazy initialisation of
`_process_audio_chunk`; a set of tracks stands for the audio, which is enough to
tell whose speech a turn was given. `task` is the consumer task of a track, which
is blocked while it awaits its `turn`; a task whose track has ended still drains
what was buffered. `stage` is the await of `_handle_turn`. `Conclude` is every end
of it: one event, the turn over. `Stop`, `Silence`, `Close` and `Exit` are the teardown
of `main.py` in its order; turns are not waited for. `Leave` from `connecting` is a
`room.connect` that raises and is not tried again. History variables: `heard`,
`late`, `born`.

### AgentGraph

One call of `invoke_graph`: `Search` and `Rerank` (each may fail and is given up),
the three nodes of `build_graph` with their routers, and the two saves. An
exception of the LLM leaves the node and the graph (`raised`, Path B); a
`GraphErrorResponse` (`graceful`, Path A) would need the retries to be exhausted.
The module has no next-state relation: its callers drive it.

### PulsarHandler

A message is `absent`, in the `backlog`, `held` for this process, or `acked`. Each
delivery has a task (`process`). `Redeliver` is the broker: whoever loses the connection,
closes the client or ends the process gives back what it holds. `SendFails` may
have reached the topic, `Acknowledge` may be lost, `AcknowledgeFails` raises after
the result is out. A message that does not parse is nacked and comes back, for
ever. `HandledElsewhere` is another replica on the shared subscription. The thread of a
`receive` that was waiting when the loop was cancelled may take one more message
(`consuming = "cancelled"`), which nobody processes until the client closes. The
history variable `doubtful` has the messages whose task could not know whether
it was through.

### ChatChannels

The v1 chat over NATS, the RAG subjects, SSE, and the synchronous HTTP routes, one
request each; which channel a request takes, and whether it has a reply inbox, is
chosen on arrival. `step` is the await the handler stands at. `Publish`,
`PublishIfConnected` and `Respond` are the three ways the code sends: unguarded,
behind `if self._nc is not None`, and behind `if msg.reply`. They raise on a lost
connection; `RagRefused` is the other case, a result above the payload limit of the
NATS server, which is refused at the first publication of it, on an open connection and
behind the handler's `except`. Only the RAG results (the embeddings of a whole
batch) come near that limit, so chat has no such action. `out` is what was sent, or
`refused`, `cut` the history of requests that were in work when their connection
closed or the process ended; closing may cancel their callbacks (`CutOff`).

### ReasonerService

The lifespan of `main.py` with every transport enabled: `phase` names the step of
start-up or shutdown. Handlers take work as soon as they are connected, HTTP only
when `serving`; RAG may fail to start and is then missing. `Close` of a handler
whose client gave up its connection (`GiveUp`, `dropped`) raises, and the rest of
the shutdown with it. `Exit` may come at any time (a crash, or an exception during
start-up). `GET /health`, `/health/deep` and the probe loop read only and are not
actions. Of the streaming handler only the connection is here.

The NATS client and Pulsar are external: nats-py drains or closes once and drops
replies nobody waits for; Pulsar keeps an unacknowledged message and gives it to
one consumer of a shared subscription at a time.

## 4. The runs

| run | instance | states | shows |
|---|---|---|---|
| `nats_handler` | 1 request, 2 tokens, 2 retries, guard on | 29,776 | `OneVerdict`, `VerdictIsFinal`, `HonoursContract` (the refinement), `DeadLetterIsLast`, `AiFollowsHuman`, `ResultIsRemembered`; `Settles` under fairness |
| `context_cache` | 2 users, one of them with an id that does not match itself, 1 query, 2 replicas, 2 searches, 1 save, all faults | 295,325 | `OwnCommittedRows`, `StaleOnlyByRace`, `StaleAnswerWasRaced`; `EventuallyFresh` under fairness |
| `knowledge_base` | 1 file, 2 stores, 2 attaches, 1 detach, database faults and restarts | 1,184,066 | `CompletedIsSearchable`, `ChunksAreListed` |
| `knowledge_base_live` | 1 file, 1 store, one call of every kind, all faults | 89,766 | `RowsHaveObjects`, `UnfinishedIsOwned`, `JobsCanGoOn`; `IngestSettles` under fairness |
| `cortex` | 2 POSTs, 1 health check, 2 dependencies (NATS, provisioned and deaf, and PostgreSQL, patient), trips after 1 failure | 594,836 | `OneBootstrapAtATime` (the refinement), `ReadyReflectsLatestRun`, `ReadyMeansProvisioned`, `FailuresAreOwn`; `BootstrapEnds` under fairness |
| `voice_turn` | 1 participant joining twice, 2 tracks, 1 turn, 1 chunk of silence ends an utterance | 845,132 | `OutcomesAreTrue`, `LeftoversAreLate`, `LostOnlyByShutdown`, `TurnsCanGoOn`; `TurnsAreAnnounced` under fairness |
| `reasoner_service` | 1 Pulsar message with 2 deliveries, or 1 request; 3 retries, 2 tokens, 1 connection given up at a time, any number of restarts | 146,991 | `AckedHasResult`, `DuplicatesAreDoubtful`, `RetriesNeverExhausted`, `AnnouncedAlike`, `AnsweredIsSaved`, `HonoursContract` (the refinement by v1 chat); `NoMessageLost` under fairness |
| `nats_dead_letter`, `context_cache_stale`, `knowledge_base_twice`, `cortex_accepted`, `voice_mute` | same or smaller | - | five places where the code does not do what a document says (section 6) |

Why the bounds are enough. Requests share only the connection, so one request
against every moment of `Close` meets every interleaving of the handler; two
tokens distinguish the first token, a later one and the end; two retries give a
first, a middle and a last attempt (the default is three). In the cache, the
hazards need a writer, a racing reader and a later reader, on the same or on
different replicas, of the same or of different users: two searches and one
save. A stale entry is about one user and one key, and keys of one user do not
interact except through the scan, which the proofs cover for any number. In the
knowledge base, two stores are needed for what a detach does to the other store
and two attaches for concurrent ingestion; more files only repeat it, because
no operation names two files. In cortex two POSTs meet at the flag, the health
check shares the breakers with them, and two dependencies differ in what a
client can do wrong and can fail one without the other; the four of the code
are combinations of these roles, and one resource is enough to tell "some" from
"all" missing across runs. In the voice worker the detector belongs to a session and
sessions share nothing but the connection and the producers, so one session with
two tracks and two visits meets stale audio, a turn that outlives its visit, and
a second track talking during a turn; a turn meets every moment of the shutdown
and of the reasoner. In the reasoner service a message and a request share
nothing but the lifespan, and two requests nothing but a connection, so one
arrival at a time (`MaxArrivals`) against every moment of start-up, shutdown and
restart meets what can happen to it; two deliveries give a redelivery, which is
what duplicates need, and another replica handles what is left. Three retries is the value
of the code, and `PathAIsNeverTaken` covers the larger ones. Deadlock checking is off everywhere: calls end,
ids are used up, and a system without calls has nothing to do.

Fairness. `NatsHandler`: the event loop runs ready steps and the timer fires;
LLM and memory are assumed to answer only after a first token, because before
it the code has a timer and after it it has none. So `Settles` does not depend
on the LLM before the first token, and does depend on it afterwards, which is
recorded as a hazard. `ContextCache`: calls go on, a scan whose keys are all
visited ends, keys expire. `KnowledgeBase`: the event loop and background tasks
run; PostgreSQL and MinIO answer or fail. `Cortex`: the goroutines of a run go
on, and a call ends when its dependency answers, fails or times out; a hung one
need not. `VoiceWorker`: the speech engines return or raise, the bridge's timer fires,
event tasks run; nothing is assumed of the reasoner. `ReasonerService`: tasks and
the graph go on, a shutdown that began is carried out, and some replica takes
what waits in the backlog. No fault is ever assumed to happen or
to stop. The fairness of one turn, event, call, job, request, task, run
or cache entry has a name of its own (`FairTurn`, `FairEvent`, `FairCall`, ...),
because the proof uses the fairness of the actor it is about and of no other.
`TurnsCanGoOn` and `JobsCanGoOn` say that nobody is stuck: whoever is in work has
a step to take (`ENABLED`). Fairness promises nothing to an actor that has none,
so they are what a forgotten outcome or a wait for something that will not
come would break first, and they are the hypotheses of the liveness theorems.

Every property has a mutant, an operator next to the definition it replaces,
that changes one definition the way a plausible bug would (a missing return, one page of a scan instead of
all of it, a retry that is not counted, a status that is not written): TLC finds
the property violated under it.

## 5. The proofs

`NatsHandler_proofs` proves, for every set of requests, every token bound and
retry limit and both guard settings:

- `TypeCorrect`: `Spec => []TypeOK`. The attempt counter is in range because a
  handler in its loop has used at most `MaxRetries` attempts and one that
  retries is not past them (`Bounded`, part of the induction).
- `AtMostOneVerdict`: `Spec => []OneVerdict`. `OneVerdict` is not inductive: a
  handler about to publish a verdict must not have published one before.
  `PastPublishing` says so: once a verdict is out the handler is at a reply or
  done, or it is on the error path because the connection is not open any more,
  and then its next publication cannot succeed.
- `NothingAfterTheVerdict`: `Spec => VerdictIsFinal`, from the same invariant.
- `AiTurnsAreFollowers` (`AiFollowsHuman`): a generator that is saving its ai turn
  counts as an ai turn to come (`AiCovered`), which pays for the shielded save it
  leaves behind when it is cancelled.
- `ResultsAreRemembered` (`ResultIsRemembered`), from `SavedInOrder` (a generator that
  stopped has saved both turns, or a save failed) and `Remembered`: a request that
  is past its stream stays remembered, because only a new attempt replaces the
  generator and forgets its failure.
- `DeadLettersAreLast` (`DeadLetterIsLast`), from `Ledger`: an answer and a dead letter
  are last acts (`Accounted`, `Exhausted`), and a handler whose connection is still
  open has handed the request to the durable subject exactly at its first failure.
- `ContractIsHonoured`: `Spec => HonoursContract`, the refinement of
  `ReasonerContract`. By `OneVerdict` and `Ledger` a publication that changes what
  the requester sees is `Decide`, an answer is `Answer`, everything else stutters.

- `HandlersTerminate`: every step of a handler or its generator goes down in the
  lexicographic order of the attempts left (`Rounds`), the tokens left (`Left`) and
  the place within an attempt or behind the attempts (`Place`); every other step
  leaves the three alone. It needs that a generator runs only while the handler of
  its request awaits it (`GeneratorsAreAwaited`): a generator that ran on behind
  its handler would take steps nobody counts. The tokens start again with every
  attempt, so no single counter would do.
- `HandlersNeverStall`: a request that is taken gets its verdict, or its connection is
  lost, or it goes on taking steps for ever; `HandlersTerminate` excludes the last.
  It needs that a handler that awaits a generator has one that was started
  (`Awaits`; an idle generator would be awaited for ever), and that a handler
  that is through has announced a verdict (`DoneIsDecided`).

`StreamGraph_proofs` holds what is shared by the transports that drive a generator:
its types, `AiCovered`, `SavedInOrder`, and that a failed save is forgotten only
when a new generator replaces the old one.

`ContextCache_proofs` proves for any users, queries, replicas, calls and faults,
with one lemma per action:

- `TypeCorrect`, and `AnswersAreOwnAndCommitted` (`OwnCommittedRows`), from
  `TurnsCommitted` and `ViewsCommitted`: what a search holds is committed even
  before it answers.
- `StaleEntriesAreRaced` (`StaleOnlyByRace`), for any scan patterns: a save that is
  through has invalidated every key of its user if the id matches itself. Needs that a search about to store
  an old view is a racer of every save it lacks (`OldViewsRace`), and that, while
  a scan runs, every entry of the user that lacks the saved turn is either still
  owed a visit or stored by a racer (`StaleCovered`).
- `StaleAnswersAreRaced` (`StaleAnswerWasRaced`): the saves of `floor` had
  returned (`FloorsReturned`) when the search began.
- `AnswersAreOneHistory`: the table of a user, the entries and what searches are about
  to store or have answered (`Seen`) form a chain. However stale an answer is, it is
  what the table held at one time, and two answers never contradict each other:
  a step adds to what is seen nothing but the table, which holds all the rest
  (`SeenStep`, `SeenIsCommitted`).
- `SearchesEnd`: a search comes back, five WF1 steps at most.
- `SavesEnd`: a save comes back, or its scan visits one key after another of those
  it found. A key it has to visit is set until it is visited (`TodoIsSet`), so
  its expiry alone would see to that (`KeyIsVisited`), and no entry that is stored
  meanwhile is added to the scan (`TodoShrinks`).
- `EntriesHeal`, the part of `EventuallyFresh` that speaks about one entry: from the
  time on when no save of its user commits and no search of the user stores a view
  that is not the table (`Quiet`), the entry is in the end, and stays, absent or equal
  to the table, while other searches go on reading and storing (`FreshStays`).

`KnowledgeBase_proofs` proves for any files, stores, calls and faults:

- `TypeCorrect`, and `FilesCanBeDownloaded` (`RowsHaveObjects`): a pending insert
  has its object, a row's upload is done, and a removal past its row names a file
  that is not in the table and will not come back (`ObjectsFirst`).
- `OrphanChunksExplained` (`ChunksAreListed`): inductive as it stands.
- `CompletedFilesAreSearchable` (`CompletedIsSearchable`), from `Kept`: rows have
  their parents (`Attached`), rows, calls and jobs name ids that were given
  out (`KnownCalls`), and a job about to complete has stored its chunks (`Ready`).
  The middle part is what makes the others inductive: `Searchable(p)` holds of a
  pair whose parents are gone, and stays true because ids are never given out
  twice, so deleted parents do not come back.
- `UnfinishedFilesAreOwned` (`UnfinishedIsOwned`), from `Owned`: a call that has
  not read its row back has not started a job, so the job it starts overwrites
  none; a processing row has a job, a queued one a job or a call.
- `EveryFileSettles` (`IngestSettles`, liveness): an unfinished row has a call that
  waits to read it or a job that runs (`UnfinishedIsOwned`, from the theorem
  above); a job that runs has at most twelve steps before it, two rounds of
  six because a sync call starts its job once more after a timeout (`StepsLeft`);
  every step of the job leads to a smaller number or to a settled pair, no other step leads back
  (`JobGoesOn`), so a chain of twelve WF1 steps ends it (`JobGoesDown`, `JobEnds`).
  The owner of a row is chosen when the row is looked at, not when the behaviour
  begins, so the fairness of the owner must hold from then on: this is `[]Fairness`,
  which says no more than `Fairness`, because weak fairness is about the
  suffixes of a behaviour.

`Cortex_proofs` proves for any dependencies, requests, health checks, resources
and thresholds:

- `TypeCorrect`: among others a breaker never counts more failures than it
  tolerates (`ReportedType`).
- `BootstrapsAreExclusive` (`OneBootstrapAtATime`): the refinement of
  `BootstrapGate`, from `Flag`: the flag is up exactly while there is a run, and
  that run is the one started last.
- `ReadinessIsTheLastRun` (`ReadyReflectsLatestRun`), from `Results`: the calls of
  the last run have returned when it is published, and stay as they are.
- `ReadyIsProvisioned` (`ReadyMeansProvisioned`), from `Provisions`: a run never
  counts more resources than exist, so "ok" of a phase means all of them.
- `DependenciesAreIsolated` (`FailuresAreOwn`), from `Suspects`: what is not up, or
  is called on a cancelled context, has been recorded as a suspect.
- `TrialsAreInFlight`, from `CallsAreOwned` (only a running run and a waiting health
  check have calls queued or in flight) and `BreakersWaitForCalls`: a half-open
  breaker refuses everybody while its trial is out, so a trial that ended
  without a report would close the dependency for ever.
- `CallsTerminate`: a step of a client takes its call down in the order of the
  resources missing (`Missing`) and what is ahead (`Ahead`), and no other step takes
  it up. `step` is shared by all runs, so this needs that there is one run only
  (`Flag`) and that nobody else provides (`CallsAreOwned`).
- `CallsReturn`: a call comes back, unless its dependency hangs and its client has no
  timeout, or it creates resources without end; a health check and a client that
  creates nothing have only the first two. That a dependency fails and recovers
  while the call is out does not matter (`CallKeeps`).
- `ConcludedRunsEnd`: a run whose calls are back publishes and lowers the flag, from
  `RunKeeps`: what has returned is not asked again.
- `BootstrapsGoOn`: while the flag is up there is a run that comes to its end, is
  kept by a client without a timeout, or goes on calling. A run that is not
  concluded has a call that is pending (`CallsAreMade`) and moves (`WaitedCallMoves`),
  and by `CallsTerminate` calls cannot move for ever. This is `BootstrapEnds` up to
  the finiteness of the dependencies.

`ReasonerService_proofs` proves for any messages, requests, deliveries and bounds:

- `PathAIsNeverTaken` (`RetriesNeverExhausted`), for any `MAX_RETRIES` above two: an
  error is counted once at a failed retrieval and once in `error_handler`
  (`AtMostTwoErrors`), which `generate_response` never leads back to. With two
  retries or fewer the statement is false, which is why the limit is a hypothesis.
- `AcknowledgedIsAnswered` (`AckedHasResult`), from `SentBeforeAcknowledged`: a task
  about to acknowledge has sent, and only tasks of parseable messages get there.

- `DuplicatesAreExplained` (`DuplicatesAreDoubtful`): a task whose message is in no
  doubt is the only one for it and holds the message (`Sole`), and a message in no
  doubt has a result only if it is acknowledged or about to be (`Clean`). The broker
  can take a message back only while it puts those being processed in doubt.
- `NothingIsHeldByNobody`: what the broker counts as held by this process has a task in
  work, or was taken by the receive that outlived the consume loop and goes back
  with the next step of the shutdown (`CancelledIsClosing`). It is the safety half
  of `NoMessageLost`: what nobody handles the broker gives to somebody else.
- `ShutdownsEnd`: a shutdown that began comes to its end. It has at most nine steps
  before it (`StopsWithin`), each of which returns or raises, and either takes the
  process on.
- `TasksEnd`: a delivery in work is ended by at most ten steps of its task, graph,
  send and acknowledgement (`EndsWithin`).
- `HeldIsReleased`: so what the broker counts as held is acknowledged or goes back,
  either by its task (`HeldByStays`, `TaskReleasesIt`) or, where a cancelled receive
  took it, by the shutdown (`HeldByReceiveStays`, `ClosingReleases`).
- `AnsweredOrRedelivered`: a message that can be parsed is acknowledged in the end or is
  received again and again. The second case is real in the code, which has no
  limit and no dead-letter topic.
- `FairReplicasAnswer` (`NoMessageLost`, liveness): such a message is acknowledged in
  the end, however often this process fails it, if the other replicas get round to a message
  that is in the backlog again and again (strong fairness of `HandledElsewhere`,
  `FairToRedelivered`), and not only to one that stays there, which is all
  `Fairness` says. Given that, no bound on the deliveries is needed. That another
  replica succeeds is an assumption about it: the code that runs there is the
  same and may fail there as well, which is why both theorems are stated.
- `TypeCorrect`, from `GraphShape`: an error is counted at most twice and a turn saved
  at most twice, where the call stands says how often.
- `ChannelsAgree` (`AnnouncedAlike`) and `ContractIsHonoured` (`HonoursContract`), from
  `Shapes`: for each step of a handler, what was published so far. The heart of it
  is that a request in work that is not in `cut` has its connection, that an
  error is published only on a connection on which nothing but chunks went out
  (a v1 handler that gets to its error path behind a result got there because the
  connection was lost), and that no v1 request of an earlier process is in work
  when `lifespan` connects the handler again (`NotYetConnected`). A RAG result that is
  refused is refused on all its channels, because it is refused at the first.
- `AnswersAreSaved` (`AnsweredIsSaved`), from `SavedInOrder`, `ToldIsSaved` and
  `GraphShape`: who is about to be told of the end was served by a generator that
  stopped, or by a call that ended.

The steps of the service are first classified by what they do to the graph, the
consumer, the generators, one request or the connections (`GraphChange`,
`PulsarChange`, `StreamChange`, `RequestStep`, `LifeChange`), so that each invariant is
proved against a few changes and not against every step of every component.

`VoiceWorker_proofs` proves for any participants, visits, tracks, turns and limits:

- `TypeCorrect`.
- `OutcomesAreReported` (`OutcomesAreTrue`), from `Truthful`: the reasoner answers only
  what reached it (`Honest`), every stage of a turn remembers what it was told
  (`Staged`), and the events of a turn say what it became (`Told`). A reply that
  comes after the bridge gave up finds the turn past its stage.
- `OutcomesAreKept` (`LostOnlyByShutdown`), from `Kept`: while the service serves
  or stops, and Pulsar has refused nothing, it has its producers and every outcome
  is in an event task or with Pulsar.
- `ReasonerIsItsContract`: the reasoner this model lets act behind the bridge does
  nothing but what `ReasonerContract` allows. With `ContractIsHonoured` of both
  handlers this joins the proofs of voice to those of the reasoner.
- `EveryTurnIsAnnounced` (`TurnsAreAnnounced`, liveness): a turn goes through
  transcription, the bridge, an answer or its timer, and speech, each of which the
  fairness of its own handler or timer ends (`TurnStep`, one WF1 step each), and its
  end leaves an event task, which the fairness of that event sends (`EventIsSent`).
- `LeftoversAreOfLateTasks` (`LeftoversAreLate`), from `EmptyBefore` and `AudioIsOwn`:
  the room is empty until it is joined, and audio is of tracks that were subscribed
  and belong to the session it is kept for.

The assumptions are the named ASSUMEs of the modules: bounds are naturals, call
sets are disjoint, a scan pattern matches a set of keys (any set), deliveries and requests are calls of the graph, there is at
least one user, query, replica and search, at least one file and one store, at
least one dependency of cortex, and a participant may join at least once.

Liveness. The theorems about progress have a state invariant with ENABLED as a
hypothesis, because the provers cannot look into ENABLED. `[]TurnsCanGoOn` and
`[]JobsCanGoOn` are invariants of the runs whose liveness the theorem is about, and
a mutant shows that they can fail. `[]ReadyIsEnabled`, in the other four proof
modules, says of each action with a fairness condition that it is possible where its guard
holds; the guard itself is spelled out, so that the theorem proves, and does not
assume, that somebody's guard holds. TLC confirms it on the instances of the runs
`nats_handler`, `context_cache`, `cortex` and `reasoner_service` (29,776, 295,325,
594,836 and 146,991 states): to repeat it, let the MC module extend the proof
module and put `ReadyIsEnabled` for the properties of its .cfg. `[]Fairness` says no more
than `Fairness`, as explained at `EveryFileSettles`. Everything else in these
theorems is proved for every value of the constants.

What is left to TLC is the last step of four liveness properties, an induction within a
temporal formula, for which the provers have no rule: `Settles` (the number of
attempts and tokens is a parameter), `BootstrapEnds` (resources, and a finite set of
dependencies that must all return), `EventuallyFresh` (all calls and keys of
finite sets) and `NoMessageLost` under the weak fairness of the run (a message may be
given back any number of times).
For each of them two things are proved, and the conclusion is drawn on paper:

| property | the system goes on | and not for ever |
|---|---|---|
| `Settles` | `HandlersNeverStall` | `HandlersTerminate` |
| `BootstrapEnds` | `BootstrapsGoOn`, `CallsReturn`, `ConcludedRunsEnd` | `CallsTerminate`, finitely many dependencies |
| `NoMessageLost` | `AnsweredOrRedelivered`, `HeldIsReleased`, `TasksEnd`, `ShutdownsEnd` | finitely many deliveries, or strong fairness: `FairReplicasAnswer` |
| `EventuallyFresh` | `EntriesHeal`, `SearchesEnd`, `SavesEnd` | finitely many calls and keys |

The invariants `TurnsCanGoOn` and `JobsCanGoOn` stay with TLC as well, being ENABLED. The five
runs of section 6 show violations by counterexample.

## 6. Where documents and code part

Checked, with a counterexample:

- A dead-lettered request-reply caller gets no answer (`DeadLetterIsAnswered`);
  `specs/015-nervous-system/spec.md:167` returns the error to it.
- A search that begins after a save returned can miss its turn
  (`SearchReflectsSaves`); the docstring at `memory.py:167` promises otherwise.
- A second attach of a queued file ingests again (`OneIngestPerAttachment`);
  `specs/013-sherlock-rag-api/spec.md:293` calls it idempotent.
- A POST that is answered 202 may get no run (`AcceptedRunsStart`);
  `services/cortex/internal/api/handlers.go:34` says "run started".
- A completed voice turn speaks the empty text (`CompletedTurnsSpeak`); the
  docstring at `services/voice/src/voice/nats_bridge.py:74` says the response
  text is returned.

Part of what a passing run checks and a theorem proves, because the code keeps to it:

- An intercepted request-reply caller gets no answer, ever: `intercepted` is a silent
  verdict of `ReasonerContract`, so `HonoursContract` would fail if the handler
  replied (`Intercept` returns at `nats_handler.py:177`);
  `specs/015-nervous-system/spec.md:88` says "client receives a safe fallback".
- A RAG requester whose result is above the payload limit gets neither the result nor a
  reply nor an error (`RagRefused`, the `refused` of `AnnouncedAlike`); the docstring at
  `rag/nats_handler.py:81` responds and publishes.
- The entries of a user whose id does not match itself as a pattern are not
  invalidated (`Matching`, the exception in `StaleOnlyByRace` and
  `StaleAnswerWasRaced`); the docstring at `memory.py:167` says "all Redis cache keys
  for this user". Like any stale entry they end with their TTL (`EventuallyFresh`).

Met while reading, reflected in the models, not checked by a run of their own:

- The docstring of `_handle` queues to the durable subject after all retries;
  the code does so at the first failed attempt (`Retry`).
- Deleting a file during its ingestion removes its rows (the job then updates
  nothing); specification 013 expects the status `failed`.
- Detaching a file from one store purges its chunks from all stores (`Purge`).
- After a restart, rows stay `queued` or `processing`; the latter, and failed ones, are never
  ingested again by an attach (`AttachSelect`).
- `GET /ready` stays 200 while a later bootstrap is in progress (`Publish` is the
  only change); `specs/002-cortex-setup/spec.md:297` wants 503.
- Phases are not retried within a run (`GiveUp`); `specs/002-cortex-setup/spec.md:292` wants retries with
  backoff.
- Breakers open after the library's five tolerated failures (`Trips`);
  `postgres.go:47`, `redis.go:58` and `specs/002-cortex-setup/spec.md:294` say three.
- A rejected request counts as a completed voice turn: its payload has no `error`
  key (`Read`).
- Path A, a graceful error after the retries (`reasoner/graph.py:26-33`), cannot
  happen with three retries: `error_handler` is entered once at most.
- A `GraphErrorResponse` is a 200 on `/chat` and an error on the v1 routes
  (`HttpAnswer`).
- `/health/deep` "checks all dependencies" (`reasoner/main.py:368`) but looks at
  neither v1 chat, RAG over NATS nor Pulsar (not modelled, it reads only).
- A Pulsar message that does not parse is nacked for ever (`Parse`, `Nack`).
- `room.connect` is tried once (`Leave`), and the service goes on without a worker.
- The audio track of an answer is created but never published to the room
  (`livekit_worker.py:400`; playback is left out of the model).

## 7. Not modelled, and why

Ranking and floating-point scores, wording and layout of payloads, telemetry and
logging: no property here depends on them. Third-party servers are modelled only
by the guarantees the code relies on. The chunker is one loop without state between calls, the scripts are pure
algorithms and in the plan;
health routes and the probe loop read only; models, providers, parsers,
configuration, telemetry, the SDK and the speech routes have no state of their
own; compose files and workflows are not programs of this repository (see
`PROJECT.json`). In `ReasonerService` the streaming handler is a connection only:
composing it with `NatsHandler` would multiply two systems that share nothing
else.
