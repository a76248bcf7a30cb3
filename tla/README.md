# guardrail-rs in TLA+

guardrail-rs is a reverse proxy for LLM APIs. It screens every chat request with
a pipeline of classifiers, forwards or blocks it, redacts personal data in the
answer, and records what it decided. This directory holds TLA+ models of its
concurrent and stateful parts, the TLC configurations that check them and
TLAPS proofs about them. Paths below are relative to `src/crates/` unless they
start with `docs/`.

    tlc -workers 2 -config SessionPoolFair.cfg SessionPool       # check a run
    tlapm SessionPool_proofs.tla                                 # check a proof

## Inventory

| Component | Code | State | Operations | Model |
|---|---|---|---|---|
| ONNX session pool | `guardrail-classifiers/src/onnx.rs` | idle sessions, semaphore, condvar, blocking jobs | `evaluate`, `score`, `reserve`, `checkout`, drop of a session | `SessionPool`, `SlotPool` |
| ONNX classification | `guardrail-classifiers/src/onnx.rs` | none | windows, oversize, scores | `Screening` |
| Configuration handle | `guardrail-config/src/loader.rs`, `guardrail-cli/src/commands.rs` | three ArcSwaps, the file, the pending SIGHUP | `load`, `reload`, readers | `ConfigHandle`, `LoadedConfig` |
| Schema and validation | `guardrail-config/src/schema.rs`, `validate.rs`, `loader.rs` | none | defaults, overrides, `validate_config`, building stages | `Settings`, `LoadedConfig` |
| Request handling | `guardrail-proxy/src/handler.rs`, `state.rs` | a request's snapshots, verdict, record, counters | route, admit, screen, forward, relay | `Proxy`, `Exchange` |
| Request pipeline | `guardrail-core/src/pipeline.rs`, `decision.rs` | working request, reasons, entities, events | `run_with_events`, `observe_stage_event` | `Pipeline`, in `Exchange` with data |
| Server lifecycle | `guardrail-proxy/src/server.rs`, `state.rs`, `guardrail-cli/src/commands.rs`, `main.rs` | accept loop, gauge, shutdown flag, log guard, exporter | accept, serve, close, shutdown, flush, return | `Server` |
| Audit log file | `guardrail-proxy/src/audit_log.rs` | file handle, size, rotated files | open, write, rotate, flush | `AuditLog` |
| Audit records | `guardrail-proxy/src/audit.rs` | none | `from_decision`, `emit` | `Exchange` (what), `Proxy` (when), `Server` (its way to the file) |
| Streaming PII redactor | `guardrail-classifiers/src/pii_stream.rs` | text held back, when to try next | `push`, `finish` | `PiiStream` |
| Event-stream redaction | `guardrail-proxy/src/sse.rs` | buffered bytes, held text, last template | `push`, `finish` | `SseRedactor`, partly |
| Response redaction | `guardrail-proxy/src/response.rs` | none | `try_redact_response_body` | `ApiBody`, `Exchange` |
| Forwarding, errors | `guardrail-proxy/src/forward.rs`, `error.rs` | none | header filters, `collect_limited`, the upstream call | `Exchange`, `Proxy` |
| API translation | `guardrail-proxy/src/translate.rs` | none | `parse_api_body`, `ScannedBody::apply` | `ApiBody`, `Exchange` |
| Authentication | `guardrail-proxy/src/auth.rs` | none | `is_authorized` | `Settings`, `Exchange` |
| PII redactor | `guardrail-classifiers/src/pii.rs` | none | `redact_text`, `raw_matches`, `evaluate` | `PiiText`, `Screening` |
| Injection scanner | `guardrail-classifiers/src/injection.rs` | none | rule lists, `evaluate` | `Settings`, `Screening` |
| Policy engine | `guardrail-core/src/policy.rs` | none | `evaluate` | `Settings`, `Screening` |
| Request model | `guardrail-core/src/request.rs` | none | texts of messages, roles | `Screening`, `ApiBody` |
| Metrics, telemetry | `guardrail-proxy/src/metrics.rs`, `telemetry.rs` | counters, gauge, spans | increment, export | `Proxy` (counters), `Server` (gauge, spans), partly |
| Classifier trait | `guardrail-classifiers/src/classifier.rs` | none | an adapter for other programs | not modelled |
| Command line | `guardrail-cli/src/cli.rs`, `commands.rs` | none | `validate`, `test`, `rules` | not modelled |

How they interact: `Server` is the process: it sets up tracing, the audit log and
the listener, and runs a handler for each request of each connection. A handler
(`Proxy` for its timing, `Exchange` for its data) reads the handle's cells at several
moments of one request, runs the pipeline between two of them (`Pipeline` for its
decisions, `Screening` for what its stages say), and a stage may be an ONNX
classifier that goes through `SessionPool`. What the stages are is what `Settings`
makes of the file, and `LoadedConfig` is the handle over such files. A body goes
through `ApiBody` on its way in and back; a streamed answer goes through
`SseRedactor`, which keeps a `PiiStream` for each choice or content block, which
redacts with `PiiText`. The record a request leaves goes through the channel of
`Server` to the writer of `AuditLog`. The SIGHUP task of the CLI is the only caller of
`reload`. Requests share nothing with each other but the handle, the counters
(atomic increments), the audit channel and the pools.

What is hard here: a request's future can be dropped at any await, by a stage
timeout or a client that leaves, while blocking jobs it spawned run on; a
reload can fall between any two loads of one request; a semaphore, a mutex with
a condvar and a bounded thread pool guard one set of sessions together; a
pipeline's decision, its reports and its working request come from different
stages; what the loader ignores the validator has to refuse; text enters and
leaves a request by dozens of fields that two functions have to agree on; and
the process ends while connections are served and records are on their way.

## The modules

### SessionPool, SlotPool

One request slot is one `evaluate` at a time. `task[r]` is its future
(`score_in_pool`: tokenizing, reserving, scoring), `job[r]` the blocking job it
has spawned, `permits`/`queue`/`granted` the semaphore (FIFO; a released permit
is assigned to the oldest waiter, which takes it up when it is polled), `blocking`
the FIFO of tokio's blocking pool, `idle` and `session` the sessions.
`Callers` use the synchronous `score`, which takes no permit.

| Action | Code |
|---|---|
| `SpawnTokenize`, `Tokenized`, `Reject` | `evaluate` to the first `spawn_blocking`, `windows`, its error |
| `Reserve`, `Granted`, `SpawnScoring` | `reserve().await` and the second `spawn_blocking` |
| `StartJob` | a thread of the blocking pool takes a job |
| `CallScore` | `score` on the caller's thread |
| `Checkout`, `WakeSpuriously`, `ReturnSession` | `checkout`'s loop, `Condvar::wait`, `PooledSession::drop` |
| `DropPermit`, `Collect` | the permit, dropped after the session; the result |
| `Cancel` | the future is dropped at any await |

Each critical section of the mutex is one action, and code between two awaits is
one action. The tokenizer and the arithmetic of windows and scores are abstracted
to success or failure; a panic in inference and a returned error are the same
step, because the drop guards run in both.

`SlotPool` is what the pool promises: FIFO slots, none idle while somebody waits,
kept until the work is over. `SessionPool` implements it with
`waiting <- queue`, `holding <- PermitHolders`.

### ConfigHandle

A version stands for the content of the file together with everything it names.
`LoadConfig`, `BuildPipeline` and `BuildRedactor` may each fail, by the version;
then come the three stores, one action each, because readers load the cells
without a lock. Cells carry a generation (history) so that properties can
compare them. SIGHUPs coalesce into one pending flag.

### Proxy

Extends `ConfigHandle`: the reload actions run among the requests' actions.
A request takes its configuration twice (routing, handling) and its pipeline
once, and asks the *current* redactor at `RejectCheck`, `StreamCheck`,
`UpstreamAnswers` and `Buffered`. What reaches the client is told apart by who looked
at it: redacted, filtered as events, `verbatim` with redaction off, `unread` and counted
when the redactor cannot read it, and `unreadError` for an error reply of another
type, which nobody counts. `Decide` abstracts the screening to its
verdict; `Record` is the audit record and the counters, written with the
response and never before. `Disconnect` may fall on each await. `offSeen` is
history: whether response redaction was ever off while the request was here.

Assumed of the environment: the upstream sends an event stream only to a
request that asked for one or to a passthrough request.

### Pipeline

One run: `Evaluate` starts a stage, `Answer` resolves what it came to, `Timeout`
resolves a stage timeout as an error, `Finish` is the code after the loop, `Drop`
the caller's disappearance. A request is the set of its sensitive items; a
redacting stage returns any subset and any list of entity types. A stage that
ends a run by a block, a fail-closed error and oversize input have different
decisions, so that the properties can tell them apart.

### AuditLog

The rotating writer as tracing_appender's thread drives it. `files` is the
directory; a record is a number with a length, its bytes are parts, a file is a
sequence of `<<record, part>>`. `Receive` and `Exit` are the thread's and the
process's; `Open` is `open`; one call of `write` is `BeginRotation`, `RenameFile`
and `Reopen` when a rotation is due, then `WriteParts` (a short write comes back
with the rest, as `write_all` does), and it ends early by `RotationFails`, `NoFile`
or `WriteFails`. The clock is any timestamp of `Times` at each rotation. What the
thread's channel drops is outside; `flush` of a file does nothing.

### PiiText, PiiStream

`PiiText` is the redaction of a text: the patterns run one after the other, each on
what the one before left. Three patterns stand for the seven of `entity_pattern`,
for what matters to a cut: an e-mail address (any length, no whitespace), a number
(whitespace within, word boundaries, a check of the matched digits that may reject
it after it has taken its text) and a bearer token (whitespace and any length). A
text is a sequence of classes of characters.

`PiiStream` is the streaming redactor. `StreamPush` is `push` (`Hold`, its early return,
or `Release`), `StreamFinish` is `finish`, `SafeCut` is `safe_cut` with its candidates,
attempts, checks and the forced cut. Bytes are characters. The lengths of the code
(64, 8192, 32 and 8 attempts) are constants; as in the code, `HoldBack` is no less than
`LongestNumber`, the longest match that contains whitespace and has a bounded length
(`StreamAssumption`), which the scaled configurations keep.

### SseRedactor

`stream` is what the upstream would send, `Bytes` its bytes as far as events are told
apart by them (a unit for each line, line feeds and carriage returns; lines end
with LF or CRLF), `Push` delivers any number of them, and one step each rewrites the
whole events: `Rewrite` (`rewrite_openai`, `rewrite_anthropic`), `StopBlock`, `Done`,
`PassThrough`, `Panic`. What one `push` has rewritten is its local buffer, `made`, until
`Return` hands it to the client (`out`); a panic discards it, with what is held.
`Finish` and `Fail` are the two ends of the upstream in
`redacting_sse_body`. The text an event brings for an index is one token, and what
the streaming redactor lets go is any first part of what it holds, so that these
properties do not depend on `PiiStream`'s.

### Server

`phase` is where `commands::run` is: `load`, `tracing`, `bind`, `serve`, then after a signal
`grace` (500 ms), `flush` (the exporter), `return`, `drop` (its locals) and `exited`. `conn[c]` is
a connection: in the listener's queue, spawned, idle between requests, busy, decided
(its record is emitted, its answer is not), over, closed, refused, or cut with the
process. `exhausted` says that there is no file descriptor to be had, so that `accept`
fails and leaves the connection in the queue. `channel` is the audit log's lossy, bounded
channel, `log` what its thread wrote; `spans` and `exported` are the batch exporter's, whose
queue is bounded too. `embedded` is a program that
calls `run_server` itself and may drop the handle.

| Action | Code |
|---|---|
| `LoadConfig`, `InitTracing`, `RunServer`, `Fail` | the start of `run`, in its order, and its early returns |
| `Connect`, `Accept`, `AcceptFails` | a client; the `accept` branch of `select!`; its error that takes an aborted connection |
| `Descriptors` | descriptors run out (`accept` fails, the loop goes on) or are freed |
| `StopAccepting` | the `changed` branch: the loop ends only if the value says so |
| `Serve`, `Request`, `Decide`, `Answer` | a connection's task: gauge, request, record, response |
| `Disconnect`, `Panic`, `Closed` | the ways it ends, and the `dec` behind the connection |
| `Write`, `WriteFails` | the log's thread; a record whose writing fails |
| `Export`, `ExportFails` | the exporter's thread; a batch that the collector does not take |
| `DropHandle`, `Shutdown` | an embedding program; SIGINT or SIGTERM |
| `GraceOver`, `Flush`, `Return` | the end of `run`: the grace period, `shutdown_tracer_provider`, which may export a part and fail, its locals |
| `Exit`, `ExitLate` | the guard has seen the channel empty, or gives up after 1.1 s; the runtime goes |

`timely`, `traced` and what was lost are history: requests decided before `run` returned
(`timely`), records that found the channel full (`overflow`), could not be written
(`unwritten`) or were left when the guard gave up (`late`), spans that ended while there was
an exporter (`traced`), and those that found no room or whose export failed (`missed`).
A dropped handle makes `changed()` ready for good, so the real loop spins from
then on; the step leaves the state as it is.

### Settings

Operators, no state. A file is a record of tables with the keys that are written in
it; `Config` adds the defaults of `schema.rs`, `ApplyEnvOverrides` the environment, `Valid` is
`validate_config` with one operator per table, `BuiltPipeline` and `ResponseRedactor` are what
`loader.rs` makes of the result, stage by stage, and `Authorized` and `RouteMatches` are what
a request asks of it. A key opens the door only if a header can carry it
(`HeaderValues`): visible ASCII, without spaces around it. Strings are atoms, told apart by what the checks ask of them
(blank, a URL, a path that exists); a rule is a word that compiles or does not.
`LoadFails` and `BuildFails` are the ways a file may be refused.

### LoadedConfig, MCLoadedConfig

`ConfigHandle` over these files: a version is a file's name, and what a reload fails on
is computed from its tables (`FailuresAssumption`) instead of being a parameter. The properties say
what a file in use *means*: the loader turns a rule without a condition into one that
matches everything and leaves out stages, roles and entities it does not know, and only
the checks of `validate.rs`, another file, rule that out. `MCLoadedConfig` has nineteen files
and one that is gone: six may be used, the others each fail in a way of their own.

### ApiBody, Screening, Exchange, MCExchange

One request with its data. A JSON body is a function from pointers (sequences of
tokens) to leaves; a string is a sequence of words; a pattern, whether of a rule, an
entity or a keyword, matches words, and a match lies in one word; a blank keyword is
in every text, or in every two words of a line (`HasKeyword`); a header is its name and its comma-separated items.

`ApiBody` is `translate.rs`: `ParseFails` and `ParseApiBody` pull out the messages of the three
formats, with each piece's pointer; `Texts`, `ApplyFails` and `Apply` write them back;
`ResponsePlaces` are the fields `response.rs` searches. `Screening` is what each stage says of
a request: `EvaluateRules`, `EvaluatePii`, `EvaluatePolicy`, and `EvaluateOnnx` with the part of the text
that is tokenized (`Cut`, `MaxBytes`), its overlapping windows (`Window`, `WindowCount`), the
highest score and oversize input. A model is a constant: two words in a row are
harmful to a window that holds both. The redactor runs its entities over a word one
after the other, each on what the one before left (`After`), and records each that
matches when its turn comes (`Finds`): a pass replaces a match by the entity's
replacement, or, where the match is a part of the word, leaves what `Leftovers` says, as
`[PHONE]111111` of a card number when phones are looked for first.

`Exchange` runs the handler over them, for one configuration that stays:

| Action | Code |
|---|---|
| `Arrive` | `handle_request`: the routes |
| `Admit` | `admit`: key, body limit, a body that breaks off |
| `Parse` | `parse_api_body` and the refusal of streams |
| `RunStage`, `StageFails`, `Decide` | one turn of the pipeline's loop; a model that fails; its end |
| `Write` | `ScannedBody::apply` and `forward_request` |
| `ForwardPassthrough` | `forward_passthrough` |
| `UpstreamFails`, `Relay` | `relay_upstream`, with `maybe_redact_response` |
| `BreakOff` | `read_body`: an answer that has to be searched breaks off |

The tables against which its properties look (`OpenaiTable`, `AnthropicTable`, `ResponsesTable`,
`ReplyTable`) are taken from the modules' documentation ("What is scanned", "Supported
shapes") and not from the extraction, so that one checks the other. Left out: an
event stream's body is relayed as it is (it is `SseRedactor`'s subject), only model stages
fail or time out, and how the patterns of the redactor meet in one text is `PiiText`'s.

### Lists, and the form of the modules

`Lists` holds `Only`, which is `iter().filter()`. Some definitions are written in the form
that proofs can use: `Only` takes a set instead of a test as `SelectSeq` does, an index into
an array is one of the three tokens of `Index` instead of a number's digits, `SseRedactor`
bounds its indices by `MaxIndex`, and `Table` and `PiiStage` are written out rather than with
`@@`.

### Proof modules

`SequenceLemmas` (sequences without repetition, flattening, picking, suffixes),
`SessionPool_proofs` (with the refinement of `SlotPool`), `ConfigHandle_proofs` (the handle
alone, `LoadedConfig` over it, and `Proxy` around it), `Pipeline_proofs`, `AuditLog_proofs`,
`Server_proofs`, `Streams_proofs` (`PiiText`, `PiiStream` and `SseRedactor`), `Exchange_proofs`.

## Runs

| Run | Instance | Shows |
|---|---|---|
| `SessionPoolFair` | 3 requests, 2 direct callers, 1 session, 2 blocking threads | `SlotAccounting`, `SessionsExclusive`, `NoLostWakeup`, `ImplementsSlots`; `EvaluationEnds`, `NoStarvation` |
| `ConfigReload` | 19 files and one that is gone, 14 of which fail, 2 SIGHUPs (`MCLoadedConfig`) | `OnlyUsableInUse`, `CellsInStep`, `PoliciesMeant`, `StagesMeant`, `CallersServed`; `SighupServed` |
| `ProxyReload` | one request of each kind, 3 versions, 2 reloads | `SnapshotsFresh`, `ExposureExplained`, `AuditTruth`; `AdmittedIsAnswered` |
| `PipelineRun` | 3 stages, 2 items, 2 entity types, all fail modes | `DecisionIsReference`, `RedactionsCompose`, `UncheckedIsReported`; `TimedRunEnds` |
| `AuditLog` | 3 records of length 1, 2 or 4, limit 3, 2 timestamps | `NothingLost`, `WrittenOnce`, `FileBound`; `WriteEnds` |
| `PiiStream` | texts of up to 13 characters from 4 kinds of pieces, 7 held back | `StreamContractApart`, `Prompt` |
| `SseStream` | up to 3 events, 2 indices, both formats and line endings | `EventsInOrder`, `TextKept`, `TextBeforeEnd`, `EndedInFull` |
| `Server` | 2 connections, 2 requests, an audit channel and an exporter's queue of 1 | `GaugeExact`, `DroppedHandleServes`, `FlushedAtExit`; `SignalEnds`, `QueuedAccepted` |
| `Exchange` | 4 files, 35 requests, 11 answers (`MCExchange`) | `ScreenedInFull`, `RedactionsOnly`, `NoHarmForwarded`, `HeadersClean`, `ResponseClean` |
| `StreamContractClaim` | an address and numbers, up to 32 characters, 11 held back | see Findings |
| `SseForwardClaim` | up to 2 events | see Findings |
| `ProxyStreamClaim` | 1 request, 2 versions, 1 reload | see Findings |

The properties behind a semicolon are about liveness. Every property of a passing run
has a mutant in `PROJECT.json`: a changed definition, kept next to the original, with
which the property fails under the same configuration. Where a property stands for
several mechanisms (the extraction, the write-back and a stage in `ScreenedInFull`), each
has a mutant.

What the properties about data mean: `PoliciesMeant`, a rule in use matches a request only for
a reason its table gives, and its keywords are not all blank, though one may be, and then
it matches everything; `StagesMeant`, nothing the file names for its pipeline is missing
from it (a listed stage that is on, a rule line, a role, an entity with its replacement, a
policy rule with its switch) or in another order, and the response side redacts what the
request side does, which does not say that a stage finds something to do, since a rule
file may be empty and each policy rule disabled; `CallersServed`, with `require_key` nothing
blank opens the door, the door stays shut to everybody only if the file has keys and no
header can carry any of them, and the environment's upstream is the one in use;
`ExposureExplained`, a response goes out unsearched only if redaction was off at some
moment, if it is counted as skipped, or if it is an error reply of a type the redactor
cannot read; `WrittenOnce`, nothing is in the log twice or out of order, and a record that
fits the limit lies in one file; `FlushedAtExit`, what was decided in time is in the log,
and what was traced is exported, but for losses that each have a name: a full queue, a
failing disk or collector, or the guard's limit; `ScreenedInFull`, no word that a stage would
have stopped or redacted goes upstream in any documented place, unless it is what the
redactor itself made; `RedactionsOnly`, what goes upstream is the client's body but for
redactions, each word that changed having matched an entity that replaced it, and the
record names for each word the first entity that matches it, and no other but one that
matches what a redaction left; `NoHarmForwarded`, no padding and no cut of the text into
windows carries the harmful words past a model that blocks at the score they have;
`HeadersClean`, no header of one connection is passed on to the next; `ResponseClean`, a
JSON reply is searched in its documented fields and nothing else of it is touched, and what is
neither searched nor an event stream goes out exactly as it came, counted with its reason
unless it is an error reply of another type.

### Bounds, and why they are enough

* One session: three requests leave a line of two, the shortest whose order can be got
  wrong, and with two direct callers there are callers that wait for the session, a job
  with a permit that waits for it too, and returns that race; two threads, so that a
  job waits for a thread. Longer lines and larger pools are part of the proofs, which
  have no bound.
* `MaxReloads` bounds the SIGHUPs. Two reloads let a request be overtaken twice,
  once with redaction on, once off, and let a signal arrive during a reload. The
  safety properties of `ConfigHandle` and `Proxy` are proved for any number.
* The files of `MCLoadedConfig`: some that fail at each point of a load (reading, parsing,
  validating, building a scanner or a model), among them one for each check of
  roles, keys, keywords and conditions; and six that may be used, with every stage,
  `always`, a blank keyword beside another, keys that no header can carry, stages that are
  off or not listed, and an upstream that the environment repairs. What is in use is one file, so more reloads add pairs of files, not meanings.
* One request in the `Proxy` runs: requests share nothing but the handle, and the
  proofs are for any number.
* Three stages: a stage before and a stage after the one that matters. Proved for
  any number.
* Records shorter than, nearly as long as and longer than the limit; three of them
  fill a file, make it rotate and rotate again, within one second or not. Nothing
  in the proofs about `AuditLog` depends on these numbers.
* A text of 13 characters with 7 held back leaves room for a match before, across and
  behind a cut, for a second cut, and, with `MaxCarry` at 11, for a forced one. A
  match of bounded length with whitespace is at most 6 long.
* Three events and two indices: a text that is held, another that frees it or not,
  and the event that ends it, with the other index beside or between. The chunks
  of `SomeChunks` have a text for one index or for both, and an end alone, beside the
  other index's text and with its own text.
* Two connections are one that is served beside one that waits, panics or is refused;
  a channel of one and a queue of one are full with the first record and the first span. The safety properties are proved for
  any number.
* `MCExchange`: for each row of the tables a body that has a text there, beside texts of
  other kinds (images, signed thinking, unknown types, keys with `/` and `~`); arrays have
  at most three items (`Index`), which tells first, middle and last apart. Windows hold
  three tokens and share one, a token is at most two bytes long and a long word eight:
  the harmful pair lies within a window, across two, behind the last, and behind a word that
  is cut. Each body goes through each of the four files: all stages on, models that
  block, a redactor that logs or blocks, response redaction off and on. A word matches two
  entities, and one what a redaction left of it. Answers are JSON, broken JSON, events and
  text, successful or not.

`PipelineRun`, `PiiStream`, `SseStream`, `Server` and `Exchange` disable the deadlock check
because a run, a text, a response, the process and an exchange end. In every other
passing run the deadlock check is on.

### Fairness

* `SessionPool`: a woken future is polled, a free thread takes the oldest job, a
  job's computations end and an unlocked mutex is acquired. Nothing makes a
  request arrive, be cancelled, or a condvar wake spuriously. `NoStarvation` thus
  holds against any number of other requests that come and are cancelled, because
  the semaphore is FIFO and abandoned jobs end.
* `ConfigHandle`: the SIGHUP task runs when signalled and `reload` has no await.
  The operator's edits and signals are not fair.
* `Proxy`: a handler that can go on is polled; the pipeline ends (`TimedRunEnds`,
  `EvaluationEnds`); the upstream client's timeout (`server.rs`, `run_server`) ends
  every call and every body. A client need not send its body (`Admit` has no
  fairness) nor read the response (`StreamEnds` has none).
* `Server`: `run` goes on when it can; the accept loop is polled, `select!` takes its ready
  branches in a random order, and the kernel hands connections over in the order
  they came, so each queued connection has its turn while there is a descriptor for it,
  which nothing promises: `QueuedAccepted` ends where descriptors run out. Clients, the
  log's thread, the disk and the collector owe nothing, and no request need ever end:
  `SignalEnds` holds because each wait of the ending has a limit of its own (the grace
  period, the exporter's timeout, the guard's 1.1 s). The runtime also waits for blocking
  jobs that have started, which end by themselves (`EvaluationEnds`).
* `AuditLog`: system calls return. Records need not come, processes neither start
  nor end by themselves.
* `Pipeline`: the loop runs on and a timer that is set fires; a stage need never
  answer, which is why `TimedRunEnds` is about runs with a stage timeout.
* `PiiStream`, `SseRedactor`, `Exchange`: none; only safety is stated about them.

## Proofs

All theorems hold for every value of the constants that satisfies the named
assumptions (`PoolAssumption`, `ReloadAssumption`, `ProxyAssumption`,
`PipelineAssumption`, `AuditLogAssumption`, `ServerAssumption`, `FailuresAssumption`,
`SettingsAssumption`, `SchemaAssumption`, `StreamAssumption`, `SseAssumption`, `WindowAssumption`,
`PatternAssumption`, `ExchangeAssumption`): finite sets of requests and sessions, versions
that fail are versions, a window moves on by at least one token, headers are a list of names
with values and a body is finitely many leaves, and so on. TLC evaluates the assumptions in
every run.

The library's induction rules take an operator as a parameter, which the provers cannot
instantiate. Where a proof needs induction over a sequence, `SequenceLemmas` and
`Streams_proofs` take the least number of a set of counterexamples instead.

* **SessionPool** (`PoolTypeOK`, `PoolSlotAccounting`, `PoolSessionsExclusive`).
  The counts are not inductive: releasing a permit adds one to `permits` only
  because the request that releases it held exactly one. `IInv` adds `Protocol`:
  a request in line or with an assigned permit has no job, nobody is in line
  twice, a job that waits for a thread has not started, and sessions are in the
  hands of the jobs that infer. Every action moves at most one permit between
  three places, and the cardinality lemmas do the rest.
* **Refinement** (`PoolWorkConserving`, `PoolImplementsSlots`). `Reserve` is
  `Enter` or `GetInLine`; `Cancel` is `Leave`, `Withdraw` or nothing; `DropPermit`
  is `Leave`; all else is stuttering. That a request gets in line only when all
  slots are taken follows from `SlotAccounting`, that it takes a free one only when
  the line is empty from `WorkConserving`.
* **`PoolNoLostWakeup`**: a return of a session wakes one sleeper, so the sessions
  that lie idle never outnumber the threads that are awake and about to take one;
  a checkout takes one from each side.
* **`PermitMeansIdleWithoutCallers`**: the comment on `checkout` is right when
  every user of the pool takes a permit.
* **ConfigHandle** (`HandleOnlyUsable`, `HandleCellsInStep`). `ReloadProtocol`
  says which of the stores are in place at each point of `reload`, that a version
  past a build was not stopped by it, and that every reload past, running or
  asked for has its own SIGHUP (which bounds the generations).
* **LoadedConfig** (`LoadedPoliciesMeant`, `LoadedStagesMeant`, `LoadedCallersServed`). `HandleOnlyUsable` says that
  what is in use passed every check; the rest is about one file: `ConditionMeant` goes
  through the branches of `Condition` and shows that the check leaves the last one, which
  matches everything, to nobody but `always`, and `OverriddenUpstream` that the environment's
  value is what the checks see. `SettingsAssumption`: none of a header's values is the atom
  that stands for an absent one. `StagesMeant` goes through the pipeline in the order it is
  listed (`BuiltInOrder`): each stage that is built has all its table names (`BuiltStageMeant`),
  rule lines (`ScannerLines`) and roles because what the loader would leave out fails a
  check, and the shares of the threads add up (`ShareFits`).
* **Proxy** (`ProxySnapshotsFresh`, `ProxyExposureExplained`, `ProxyAuditTruth`).
  `ProxyHandle` shows that the handle inside the proxy is the handle alone, so
  its invariants carry over. Each property has its own strengthening
  (`FreshProtocol`, `ExposureProtocol`, `AuditProtocol`): what a request has and
  has not yet at each place of its handler.
* **Pipeline** (`RunDecision`, `RunRedactions`, `RunUnchecked`). `RunProtocol`
  adds that while the run goes on no answer has called for its end, that
  the reasons are empty exactly when nothing was redacted, and that the entity
  types are those of the redacting stages so far, each once.
* **AuditLog** (`LogNothingLost`, `LogWrittenOnce`, `LogFileBound`). `LogProtocol`
  adds what the writer relies on: while the handle is there the size is the live
  file's, what is in the log is older than what comes next, the chosen name is
  free when the file is renamed, the parts of a record that are counted as
  written are somewhere in the log, and, of a record that fits the limit, in the live
  file, which has room for the rest: so no rotation comes between them (`WriteKeepsWhole`).
* **Server** (`ServerTypeOK`, `ServerGaugeExact`, `ServerDroppedHandleServes`,
  `ServerFlushedAtExit`). `GaugeExact` is nearly inductive: each step moves one connection
  into or out of the counted ones together with the gauge, which the cardinality lemmas
  say. `FlushedAtExit` is not: `ServerIInv` adds `SetUp` (nothing is recorded before there
  is a log), `InTime` (the guard and the exporter go where `run` gets to; what was decided
  in time is in the file, in the channel, or lost in one of the ways that are named, and
  likewise the spans) and `Fresh` (what is decided is a request).

* **PiiStream** (`PiiStreamContractApart`, `PiiStreamPrompt`, `CutSafe`). That what is released is
  right now is not inductive; that it stays right whatever arrives is (`ReleasedForGood`). The
  step that cuts then needs `CutSafe`: redacting commutes with a cut that `safe_cut` accepts, for
  every text that may follow, although `safe_cut` has only seen what has arrived. Its proof
  goes pattern by pattern. Where a pattern's matches keep to the two sides of a space, finding,
  checking and replacing do too (`MatchesSplit`, `ReplacedSplit`); an address never crosses a
  space (`EmailApart`); a number or a token that would cross it in the text so far is a raw match
  that the cut avoids, and the hold-back leaves no room for one that only later text completes
  (`CardApart`, `BearerApart`). For the second and third pattern the same is shown of what
  the ones before left, which is where digits behind an address have to be excluded.
  `MatchesFound` and `ReplacedWritten` first show that the recursive functions of `PiiText`
  exist (`Backward`, recursion from the end of a text). `CarryIsRest` says that the text held
  back begins at a cut, so that digits behind an address in it are so in the whole text;
  for `Prompt`, `AttemptDue` and `WordsFresh` say how old the last attempt is and that it
  left no word that had begun before its hold-back, since in text without matches every
  candidate is accepted (`ClearAccepted`). The proof never uses that both sides come out as
  the whole: for these patterns, and apart from digits behind an address, the look at the
  raw matches suffices. Three patterns stand for seven here as in the runs; that a bound on
  what contains whitespace is all the proof needs of their lengths is `LongestNumber <= HoldBack`.
* **SseRedactor** (`SseTypes`, `SseEventsInOrder`, `SseTextKept`, `SseTextBeforeEnd`,
  `SseEndedInFull`). The inductive invariant says where the stream is: of the events that
  came, the first `t` have been handled and the buffer holds the bytes that came behind
  them (which is what makes a cut in the middle of a line harmless); and `Kept`: for each
  index, what went out and what is held are together what the events so far brought.
  Each way of rewriting an event keeps that for the event's own indices and leaves the
  others alone. It is stated of what the client has and what the current `push` made; the
  client's part is a first part of it (`FrontIsPrefix`), which is all that is left to say
  after a panic.
* **Exchange, headers** (`ExchangeHeadersClean`). `ForwardableHeaders` is one pass of `Only`; that
  a pass keeps the order, and that two passes are one, is proved once in `SequenceLemmas`.
  `Connection`'s items are read as the code reads them: a value that is not visible ASCII
  lists nothing.
* **Exchange, coverage** (`ExchangeScreenedInFull`). One lemma per table shows that each place that
  a row names is the pointer of some segment that the extraction makes (`OpenaiCovers`,
  `AnthropicCovers`, `ResponsesCovers`, put together by `ParseCovers`). The inductive invariant
  `Screened` then follows these segments: of each text the stages so far have let
  through, no word is one that any of them stops, but for words the redactor made: a
  pass either leaves a word that no entity matches as it is or makes one of those
  (`AfterPasses`, `SparedOrReworked`, `WordRedacted`). `Apply` writes back
  by pointer, and where a redaction would have changed the number of texts it fails, which
  is why no other invariant about the alignment of the two is needed here.
* **Exchange, harm** (`ExchangeNoHarmForwarded`). The other direction of the coverage: every
  segment that the extraction makes points to a place in the table, and is heard in the role
  that its message speaks in (`ChatHeeds`, `MessagesHeed`, `ResponsesHeed`, put together by
  `ParseHeeds`). Cutting into windows hides nothing: the windows overlap, so two words that are
  harmful together lie wholly in one of them (`SomeWindow`, `WindowScores`); the number of
  windows covers every text that is not reported as too long (`NotCut`); and the settings that
  this needs are what `validate` enforces (`BuiltMeasures`). `Calm`, the inductive invariant, is
  that the pointers of what is left to be screened still are those of the role, and that what
  strict stages have let through has no harm in it. A redaction, before or after such a stage,
  makes none (`RedactedStaysHarmless`), and what `Apply` writes is part of a message that was
  screened (`AppliedIsAPart`).
* **Exchange, redactions** (`ExchangeRedactionsOnly`). That the write-back never fails is what
  the alignment gives: `Aligned` says that a message has as many texts as places, each what the
  client has there, reworded (`FinishVerbatim` for what is parsed, `LinedAgain` for a redaction
  after others), or no place and nothing said. So what `Apply` writes is the client's body,
  reworded where it was scanned (`AppliedIsAltered`). For the record, `Recorded` compares what
  was found with what is `Named` in the client's words: until the first redaction the request
  says exactly those (`VerbatimSays`, with both halves of the coverage), the first redaction
  tells the first entity that matches each of them (`NamedEntities`), and every other pass,
  of the same redaction or of a later one, adds only what matches a word that a redaction
  made (`Further`). It takes from the configuration that an entity has its pattern
  (`ExchangeAssumption`), that entities are listed one after the other and that an action is
  one of `StageAction` (`SchemaAssumption`).
* **Exchange, replies** (`ExchangeResponseClean`). `ReplyPlaces` shows that the fields the
  code searches are the rows of `ReplyTable`, `TextCleaned` that a pass over a text changes what
  matches and nothing else, and `ReplyMade` that a reply refuses or was made
  by `Relay` from an answer that can be decoded; `RelayedIsClean` says the rest of such a one.

Model-checked only: liveness (`NoStarvation`, `EvaluationEnds`, `SighupServed`,
`AdmittedIsAnswered`, `TimedRunEnds`, `WriteEnds`, `SignalEnds`, `QueuedAccepted`), which the
provers cannot do under fairness.

## Findings

Where a document or a comment says something else than the code does, a run
shows the difference:

* `StreamContract` (`pii_stream.rs:6`): what is emitted "equals
  `PiiRedactor::redact_text` of the concatenated input, however the input was
  split". In `StreamContractClaim` digits follow an e-mail address at once. Only when
  the address has become `[EMAIL]` do they begin at a word boundary, so the number
  that begins with them is no raw match, and `safe_cut` accepts a cut behind them
  as long as both sides come out as the whole does. Card numbers are found one
  behind the other, so in a long row of digits the cut moves every later match,
  and the Luhn check tells other ones from the rest than it would have: a number
  that the whole text would have replaced goes out. The hold-back does not help,
  however long it is. `StreamContractApart`, the contract for texts without such an
  address, holds in `PiiStream`, and is proved.
* `EverythingForwarded` (`sse.rs:18`): "everything else … is forwarded byte for
  byte". For the OpenAI format, data that is a JSON string, number, boolean or
  array is indexed as if it were an object, which panics.
* `ResponsesStreamRefused` (`handler.rs:337`): "refuse rather than stream PII
  through". A reload between the check and the answer lets a stream through.

Read off the same models, without a run of their own:

* Handle: in-flight requests keep their snapshot "to completion"
  (`docs/architecture.md:311`, `docs/threat-model.md:406`), but the redactor is the one that is
  current when the upstream answers (`handler.rs:510`, `722`), and the three cells are stored
  one by one where `commands.rs:22` and `docs/architecture.md:302` say "atomically". `CellsInStep`
  and `SnapshotsFresh` say what holds instead.
* Pool: `score` takes sessions without a permit, so the comment at `onnx.rs:207` ("with a
  permit … in hand, one is always idle") needs the absence of direct callers, under
  which it is proved (`PermitMeansIdleWithoutCallers`).
* Streams: a text that matches a pattern of unbounded length right behind whitespace (a
  token after `Bearer`) has a candidate cut that is never accepted, so it is never cut
  by force either and is held until it ends; the same goes for a number right before a
  very long word, and for a long row of numbers. "Released anyway so memory stays bounded"
  (`pii_stream.rs:18`) is true of text in which no word begins.
* Server: requests in flight are cut 500 ms after a signal, which
  `docs/deployment.md` says and
  `state.rs:39` does not; the gauge keeps counting a connection whose task panicked
  (`metrics.rs:53`: those "being served"); a record that finds the channel full is
  dropped where `audit_log.rs:3` says every decision is written, and so is one whose
  writing fails or that the thread has not reached 1.1 s after `run` returned. The number of workers and
  the rest of the configuration come from two loads of the file (`main.rs:34`).
* Audit log: "a single audit record is always written atomically, never split
  across the rotation boundary" (`audit_log.rs:70-74`) holds for records that fit the limit
  (`WrittenOnce`). One that is longer is split when its first write is short: `write_all`
  comes back with the rest, and the check at `audit_log.rs:190` sees a file that is not
  empty and over the limit. `validate.rs:249` keeps the limit at 1 MB or more, so this takes
  a record of more than that.
* Proxy: a request that was sent upstream and whose client leaves before the answer has
  no audit record (`handler.rs:451`, `483`); the record is written with the answer.
* Responses: `docs/threat-model.md:75` says that responses that cannot be inspected are
  counted; error replies of another type than JSON or events are not (`handler.rs:561`).
* Settings: a blank among other keywords makes `content_contains` match everything; keys with
  spaces around them or with other characters than ASCII pass the checks
  (`validate.rs:56-60`) and no header can carry them (`auth.rs:57`), so that all requests may
  be rejected although `validate.rs:53` means to prevent that; `validate` accepts a file whose model does
  not load, which stops `run`; `log_format = "json"` and `metrics_port` have no effect.
* Exchange: a media type is compared with its case, and of several `content-encoding`
  headers the first one counts; a `content-type` that `Connection` lists is replaced by the
  proxy's own, which goes out although it is listed; what the redactor puts in may match a
  pattern, of its own or of a later stage, and is then replaced again or forwarded; a text that two
  patterns match is recorded for the first of them, and, if that leaves a part of it, the
  part stays (`pii.rs:326-330`).

Attempts to prove a property that failed for a good reason changed it: `ScreenedInFull` was too
strong for a replacement that another entity matches, `NoHarmForwarded` for a model whose
threshold is above the score of what is harmful, `ResponsePlaces` took tokens that are no
index for items of an array, and `Prompt` did not hold after a forced cut, which may leave a
number whose digits stood behind a letter before.

## Not modelled, and the plan

Not modelled: HTTP and TLS, the text of JSON, regular expressions, tokenization and
scores, file formats, the metrics registry and its exposition format, the CLI's other
commands, and the trait for classifiers of other programs. They are I/O, libraries or
adapters without state, below what the properties tell apart. A second, concurrent
caller of the public `reload` (`loader.rs:615`) is outside the program that is modelled.

What is left of the plan:

1. `SseRedactor` over `PiiStream`: that a redactor lets go a first part of its text
   is what `PiiStream` does; a common abstract stream, implemented by both.
2. Composition of `Pipeline` with `SessionPool`: a stage timeout is a `Cancel`.
3. The statistics of `SseRedactor` and the fields of its synthetic chunks.
