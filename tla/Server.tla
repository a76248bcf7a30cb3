-------------------------------- MODULE Server -------------------------------
(***************************************************************************)
(* The life of the process: `run` of guardrail-cli/src/commands.rs, the    *)
(* accept loop and the connections of guardrail-proxy/src/server.rs, and   *)
(* what has to be finished before the process ends: the audit log's worker *)
(* thread and the exporter of the traces.                                  *)
(*                                                                         *)
(* `run` goes through its phases one by one, the accept loop and each      *)
(* connection are tasks of their own.  A connection is served until its    *)
(* client closes it; on the way it takes requests, one at a time, each     *)
(* with one audit record.  What a request goes through in between is the   *)
(* subject of Proxy.  A program that embeds the server may drop its        *)
(* ServerHandle without a shutdown, which the command never does.          *)
(***************************************************************************)
EXTENDS Naturals, FiniteSets, Sequences, SequencesExt

CONSTANTS
  Conns,       \* connections clients open
  ChannelSize, \* records the audit log's channel holds
  QueueSize,   \* ended spans the batch exporter holds
  MaxRequests  \* bound on the requests that are made

ASSUME ServerAssumption ==
  /\ IsFiniteSet(Conns)
  /\ ChannelSize \in Nat /\ QueueSize \in Nat /\ MaxRequests \in Nat

VARIABLES
  phase,    \* where `run` is
  embedded, \* the server runs in a program of its own
  handle,   \* the ServerHandle: "none", "held", "dropped"
  shutdown, \* the value in the watch channel
  loop,      \* the accept loop: "none", "running", "stopped"
  exhausted, \* the process or the system is out of file descriptors
  conn,      \* what became of each connection
  gauge,     \* Metrics.active_connections
  current,   \* the request a connection serves; 0: none
  requests,  \* requests made so far (bounded)
  guard,     \* the audit log's WorkerGuard: "none", "held", "dropped"
  channel,   \* records on their way to the worker thread
  log,       \* records in the file
  overflow,  \* records that found the channel full
  unwritten, \* records whose writing failed
  late,      \* the guard gave up waiting for the worker thread
  timely,    \* records made before `run` returned (history)
  tracer,    \* the tracer provider: "none", "live", "shut"
  spans,     \* ended request spans not exported yet
  exported,  \* request spans exported
  missed,    \* request spans that found no room or whose export failed
  traced     \* request spans that ended while the provider was live (history)

runVars   == <<phase, embedded, handle, shutdown>>
loopVars  == <<loop, exhausted>>
connVars  == <<loopVars, conn, gauge, current, requests>>
logVars   == <<guard, channel, log, overflow, unwritten, late, timely>>
traceVars == <<tracer, spans, exported, missed, traced>>
vars      == <<runVars, connVars, logVars, traceVars>>

Phases == {"load", "tracing", "bind", "serve", "grace", "flush", "return",
           "drop", "exited", "failed"}

\* A connection is queued in the kernel, spawned as a task, served (idle, with
\* a request, or with one that is decided), over, and gone.
Served     == {"idle", "busy", "decided"}
ConnStates == {"new", "queued", "refused", "spawned", "over", "closed",
               "panicked", "cut"} \cup Served

RequestIds == 1..MaxRequests

TypeOK ==
  /\ phase \in Phases /\ embedded \in BOOLEAN /\ shutdown \in BOOLEAN
  /\ handle \in {"none", "held", "dropped"}
  /\ loop \in {"none", "running", "stopped"} /\ exhausted \in BOOLEAN
  /\ conn \in [Conns -> ConnStates]
  /\ gauge \in 0..Cardinality(Conns)
  /\ current \in [Conns -> 0..MaxRequests] /\ requests \in 0..MaxRequests
  /\ guard \in {"none", "held", "dropped"} /\ tracer \in {"none", "live", "shut"}
  /\ channel \in Seq(RequestIds) /\ Len(channel) <= ChannelSize
  /\ log \in Seq(RequestIds) /\ late \in BOOLEAN
  /\ overflow \cup unwritten \cup timely \subseteq RequestIds
  /\ spans \cup exported \cup missed \cup traced \subseteq RequestIds

Init ==
  /\ phase = "load" /\ embedded \in BOOLEAN
  /\ handle = "none" /\ shutdown = FALSE
  /\ loop = "none" /\ exhausted = FALSE /\ conn = [c \in Conns |-> "new"]
  /\ gauge = 0 /\ current = [c \in Conns |-> 0] /\ requests = 0
  /\ guard = "none" /\ channel = <<>> /\ log = <<>>
  /\ overflow = {} /\ unwritten = {} /\ late = FALSE /\ timely = {}
  /\ tracer = "none" /\ spans = {} /\ exported = {} /\ missed = {} /\ traced = {}

Running == phase \notin {"exited", "failed"}

-----------------------------------------------------------------------------
(* Starting: any step may fail, which ends the process.                    *)
Fail ==
  /\ phase \in {"load", "tracing", "bind"}
  /\ phase' = "failed"
  /\ UNCHANGED <<embedded, handle, shutdown, connVars, logVars, traceVars>>

LoadConfig ==
  /\ phase = "load"
  /\ phase' = "tracing"
  /\ UNCHANGED <<embedded, handle, shutdown, connVars, logVars, traceVars>>

\* `build_layer`: no audit log when it is disabled, or when its directory or
\* file cannot be opened, which is not fatal.
BuildLayer == guard' \in {"none", "held"}

\* `build_otel_layer`: no exporter without an endpoint; a broken one is fatal.
BuildOtelLayer == tracer' \in {"none", "live"}

\* Mutant of InitTracing: `let (_, provider) = init_tracing(..)` drops the guard.
InitTracingUnguarded ==
  /\ phase = "tracing"
  /\ phase' = "bind"
  /\ guard' \in {"none", "dropped"} /\ BuildOtelLayer
  /\ UNCHANGED <<embedded, handle, shutdown, connVars, channel, log, overflow, unwritten,
                 late, timely, spans, exported, missed, traced>>

InitTracing ==
  /\ phase = "tracing"
  /\ phase' = "bind"
  /\ BuildLayer /\ BuildOtelLayer
  /\ UNCHANGED <<embedded, handle, shutdown, connVars, channel, log, overflow, unwritten,
                 late, timely, spans, exported, missed, traced>>

\* `run_server`: bind, build the HTTP client, spawn the accept loop.
RunServer ==
  /\ phase = "bind"
  /\ phase' = "serve" /\ handle' = "held" /\ loop' = "running"
  /\ UNCHANGED <<embedded, shutdown, exhausted, conn, gauge, current, requests, logVars,
                 traceVars>>

-----------------------------------------------------------------------------
(* The accept loop.                                                        *)
To(c, state) == conn' = [conn EXCEPT ![c] = state]

\* A client connects: the kernel queues it while the listener is open.
Connect(c) ==
  /\ Running /\ loop = "running" /\ conn[c] = "new"
  /\ To(c, "queued")
  /\ UNCHANGED <<runVars, loopVars, gauge, current, requests, logVars, traceVars>>

\* Mutant of Accept: the connection is served in the loop, not in a task.
AcceptAlone(c) ==
  /\ Running /\ loop = "running" /\ ~exhausted /\ conn[c] = "queued"
  /\ \A d \in Conns : conn[d] \notin Served \cup {"spawned", "over"}
  /\ To(c, "spawned")
  /\ UNCHANGED <<runVars, loopVars, gauge, current, requests, logVars, traceVars>>

\* `accept` needs a file descriptor: without one it fails, the connection stays
\* in the queue and the loop tries again.
Accept(c) ==
  /\ Running /\ loop = "running" /\ ~exhausted /\ conn[c] = "queued"
  /\ To(c, "spawned")
  /\ UNCHANGED <<runVars, loopVars, gauge, current, requests, logVars, traceVars>>

\* `accept` takes a connection that was aborted in the queue, and fails; the loop
\* goes on.
AcceptFails(c) ==
  /\ Running /\ loop = "running" /\ ~exhausted /\ conn[c] = "queued"
  /\ To(c, "refused")
  /\ UNCHANGED <<runVars, loopVars, gauge, current, requests, logVars, traceVars>>

\* Descriptors run out and are freed: connections have no limit, and upstream
\* connections, files and other processes take them too.
Descriptors ==
  /\ Running /\ loop = "running"
  /\ exhausted' = ~exhausted
  /\ UNCHANGED <<runVars, loop, conn, gauge, current, requests, logVars, traceVars>>

\* `shutdown_rx.changed()` is ready, with a value or because the sender is gone.
Changed == shutdown \/ handle = "dropped"

\* The listener goes with the loop, and what is queued with the listener.
CloseListener ==
  /\ loop' = "stopped"
  /\ conn' = [c \in Conns |-> IF conn[c] = "queued" THEN "refused" ELSE conn[c]]
  /\ UNCHANGED <<runVars, exhausted, gauge, current, requests, logVars, traceVars>>

\* Mutant of StopAccepting: a dropped sender counts as a shutdown.
StopOnChange == Running /\ loop = "running" /\ Changed /\ CloseListener

\* Without a shutdown a ready `changed` leaves the loop as it is.
StopAccepting == Running /\ loop = "running" /\ Changed /\ shutdown /\ CloseListener

-----------------------------------------------------------------------------
(* One connection: its task counts it, serves it, and takes it off again.  *)
Serve(c) ==
  /\ Running /\ conn[c] = "spawned"
  /\ To(c, "idle")
  /\ gauge' = gauge + 1
  /\ UNCHANGED <<runVars, loopVars, current, requests, logVars, traceVars>>

Request(c) ==
  /\ Running /\ conn[c] = "idle" /\ requests < MaxRequests
  /\ To(c, "busy")
  /\ requests' = requests + 1
  /\ current' = [current EXCEPT ![c] = requests']
  /\ UNCHANGED <<runVars, loopVars, gauge, logVars, traceVars>>

\* `AuditRecord::emit` through the lossy, bounded channel of the audit log.
Emit(r) ==
  IF guard = "held" /\ Len(channel) < ChannelSize
  THEN channel' = Append(channel, r) /\ UNCHANGED overflow
  ELSE /\ overflow' = IF guard = "held" THEN overflow \cup {r} ELSE overflow
       /\ UNCHANGED channel

Decide(c) ==
  /\ Running /\ conn[c] = "busy"
  /\ To(c, "decided")
  /\ Emit(current[c])
  /\ timely' = IF phase \in {"serve", "grace", "flush", "return"}
               THEN timely \cup {current[c]} ELSE timely
  /\ UNCHANGED <<runVars, loopVars, gauge, current, requests, guard, log, unwritten, late,
                 traceVars>>

\* The request span ends with its request, and goes to the batch exporter, which
\* drops what it has no room for.
EndSpan(c) ==
  LET r    == IF tracer = "live" THEN {current[c]} \ {0} ELSE {}
      room == Cardinality(spans) < QueueSize IN
  /\ spans' = IF room THEN spans \cup r ELSE spans
  /\ missed' = IF room THEN missed ELSE missed \cup r
  /\ traced' = traced \cup r
  /\ current' = [current EXCEPT ![c] = 0]
  /\ UNCHANGED <<tracer, exported>>

Answer(c) ==
  /\ Running /\ conn[c] = "decided"
  /\ To(c, "idle")
  /\ EndSpan(c)
  /\ UNCHANGED <<runVars, loopVars, gauge, requests, logVars>>

\* Mutant of Disconnect: an error returns from the task, past the `dec`.
DisconnectReturns(c) ==
  /\ Running /\ conn[c] \in Served
  /\ To(c, IF conn[c] = "idle" THEN "over" ELSE "closed")
  /\ EndSpan(c)
  /\ UNCHANGED <<runVars, loopVars, gauge, requests, logVars>>

\* The client closes the connection, idle or in the middle of a request, whose
\* handler is dropped: serve_connection returns, with or without an error.
Disconnect(c) ==
  /\ Running /\ conn[c] \in Served
  /\ To(c, "over")
  /\ EndSpan(c)
  /\ UNCHANGED <<runVars, loopVars, gauge, requests, logVars>>

\* A panic in the handler or in a body it returned unwinds the task.
Panic(c) ==
  /\ Running /\ conn[c] \in {"busy", "decided"}
  /\ To(c, "panicked")
  /\ EndSpan(c)
  /\ UNCHANGED <<runVars, loopVars, gauge, requests, logVars>>

Closed(c) ==
  /\ Running /\ conn[c] = "over"
  /\ To(c, "closed")
  /\ gauge' = gauge - 1
  /\ UNCHANGED <<runVars, loopVars, current, requests, logVars, traceVars>>

-----------------------------------------------------------------------------
(* The audit log's worker thread and the exporter's.                       *)
Write ==
  /\ Running /\ channel # <<>>
  /\ log' = Append(log, Head(channel)) /\ channel' = Tail(channel)
  /\ UNCHANGED <<runVars, connVars, guard, overflow, unwritten, late, timely, traceVars>>

\* The thread goes on after an error of the writer (AuditLog), the record is lost.
WriteFails ==
  /\ Running /\ channel # <<>>
  /\ unwritten' = unwritten \cup {Head(channel)} /\ channel' = Tail(channel)
  /\ UNCHANGED <<runVars, connVars, guard, log, overflow, late, timely, traceVars>>

Export ==
  /\ Running /\ tracer = "live" /\ spans # {}
  /\ exported' = exported \cup spans /\ spans' = {}
  /\ UNCHANGED <<runVars, connVars, logVars, tracer, missed, traced>>

\* The collector does not take a batch; it is not sent again.
ExportFails ==
  /\ Running /\ tracer = "live" /\ spans # {}
  /\ missed' = missed \cup spans /\ spans' = {}
  /\ UNCHANGED <<runVars, connVars, logVars, tracer, exported, traced>>

-----------------------------------------------------------------------------
(* Ending.                                                                 *)
\* An embedding program lets the handle go and lives on.
DropHandle ==
  /\ embedded /\ phase = "serve" /\ handle = "held"
  /\ handle' = "dropped"
  /\ UNCHANGED <<phase, embedded, shutdown, connVars, logVars, traceVars>>

\* SIGINT or SIGTERM: `handle.shutdown()`, then a sleep of 500 ms.
Shutdown ==
  /\ phase = "serve" /\ handle = "held"
  /\ shutdown' = TRUE
  /\ phase' = "grace"
  /\ UNCHANGED <<embedded, handle, connVars, logVars, traceVars>>

\* Mutant of GraceOver: the connections are awaited instead.
GraceDrains ==
  /\ phase = "grace"
  /\ \A c \in Conns : conn[c] \notin Served
  /\ phase' = "flush"
  /\ UNCHANGED <<embedded, handle, shutdown, connVars, logVars, traceVars>>

GraceOver ==
  /\ phase = "grace"
  /\ phase' = "flush"
  /\ UNCHANGED <<embedded, handle, shutdown, connVars, logVars, traceVars>>

\* `shutdown_tracer_provider`: exports what has ended so far, or some of it and
\* fails, which is logged and nothing more.
Flush ==
  /\ phase = "flush"
  /\ phase' = "return"
  /\ tracer' = IF tracer = "live" THEN "shut" ELSE tracer
  /\ \E sent \in SUBSET spans :
       /\ exported' = exported \cup sent
       /\ missed' = missed \cup (spans \ sent)
  /\ spans' = {}
  /\ UNCHANGED <<embedded, handle, shutdown, connVars, logVars, traced>>

\* `run` returns: its locals are dropped, the handle and the guard among them.
Return ==
  /\ phase = "return"
  /\ phase' = "drop"
  /\ handle' = "dropped"
  /\ guard' = IF guard = "held" THEN "dropped" ELSE guard
  /\ UNCHANGED <<embedded, shutdown, connVars, channel, log, overflow, unwritten, late, timely,
                 traceVars>>

\* The process ends: the runtime goes, and with it the tasks.
End ==
  /\ phase = "drop"
  /\ phase' = "exited"
  /\ conn' = [c \in Conns |-> IF conn[c] \in Served \cup {"queued", "spawned", "over"}
                              THEN "cut" ELSE conn[c]]
  /\ UNCHANGED <<embedded, handle, shutdown, loopVars, gauge, current, requests, guard, channel,
                 log, overflow, unwritten, timely, traceVars>>

\* Mutant of Exit: `std::process::exit`, which runs no destructor to its end.
ExitAtOnce == End /\ UNCHANGED late

\* The guard waits for the thread to take what is in the channel,
Exit == channel = <<>> /\ End /\ UNCHANGED late

\* but for no longer than 1.1 s; then what is left in the channel is lost.
ExitLate == channel # <<>> /\ End /\ late' = TRUE

-----------------------------------------------------------------------------
RunStep == LoadConfig \/ InitTracing \/ RunServer \/ GraceOver \/ Flush \/ Return \/ Exit \/ ExitLate

ConnStep(c) == Serve(c) \/ Request(c) \/ Decide(c) \/ Answer(c) \/ Disconnect(c)
               \/ Panic(c) \/ Closed(c)

Next ==
  \/ Fail \/ RunStep \/ DropHandle \/ Shutdown
  \/ StopAccepting \/ Descriptors
  \/ \E c \in Conns : Connect(c) \/ Accept(c) \/ AcceptFails(c) \/ ConnStep(c)
  \/ Write \/ WriteFails \/ Export \/ ExportFails

(* `run` and the accept loop are polled when they can go on: `select!` takes  *)
(* its ready branches in a random order, so none of them waits for good, and  *)
(* the kernel hands connections over in the order they came, while there are  *)
(* descriptors for them, which nothing promises.  Every wait of the ending    *)
(* has a limit of its own.  Clients, disk and collector owe nothing, and the  *)
(* end of a request is not assumed: an upstream may take as long as it likes. *)
Spec ==
  /\ Init /\ [][Next]_vars
  /\ WF_vars(RunStep)
  /\ WF_vars(StopAccepting)
  /\ \A c \in Conns : WF_vars(Accept(c))

-----------------------------------------------------------------------------
(* Metrics.active_connections counts the connections that are served, and   *)
(* for good those whose task panicked: each connection is counted once, on  *)
(* every way it may end, also while the server shuts down.                  *)
GaugeExact ==
  Running => gauge = Cardinality({c \in Conns : conn[c] \in Served \cup {"over", "panicked"}})

(* ServerHandle: "Dropping this handle does not stop the server": only a    *)
(* shutdown ends the accept loop, and no connection is turned away by it    *)
(* before that.                                                             *)
DroppedHandleServes ==
  ~shutdown /\ phase = "serve" => loop = "running"

(* The audit log's guard and the exporter are held until the grace period   *)
(* is over.  When the process ends, what was decided before `run` returned  *)
(* is in the file, but for records that found the channel full, that could  *)
(* not be written, or that the thread did not get to before the guard gave  *)
(* up; and what was answered before the exporter was shut down is exported, *)
(* unless there was no room for it or its export failed: nothing is lost in *)
(* silence by the order in which the process takes itself apart.            *)
FlushedAtExit ==
  phase = "exited" =>
    /\ guard = "dropped" =>
         timely = ToSet(log) \cup overflow \cup unwritten \cup IF late THEN ToSet(channel) ELSE {}
    /\ tracer = "shut" => traced = exported \cup missed

(* What the invariants rest on: nothing is recorded or served before it is  *)
(* set up; the guard and the exporter go when `run` gets there; what is     *)
(* decided in time is in the file, on its way, or lost in one of the ways   *)
(* above; and what is decided is a request.                                 *)
SetUp ==
  /\ phase \in {"load", "tracing"} =>
       /\ guard = "none" /\ channel = <<>> /\ log = <<>>
       /\ timely = {} /\ overflow = {} /\ unwritten = {}
       /\ tracer = "none" /\ spans = {} /\ exported = {} /\ missed = {} /\ traced = {}
  /\ phase \in {"load", "tracing", "bind"} => loop = "none"
  /\ loop = "none" => \A c \in Conns : conn[c] = "new"

InTime ==
  /\ guard = "dropped" => phase \in {"drop", "exited"}
  /\ guard = "held" => phase \notin {"drop", "exited"}
  /\ phase = "exited" => channel = <<>> \/ late
  /\ guard # "none" => timely = ToSet(log) \cup ToSet(channel) \cup overflow \cup unwritten
  /\ tracer = "live" => traced = exported \cup missed \cup spans
  /\ tracer = "shut" => traced = exported \cup missed /\ phase \in {"return", "drop", "exited"}

Fresh == \A c \in Conns : conn[c] \in {"busy", "decided"} => current[c] # 0

ServerIInv ==
  /\ TypeOK /\ GaugeExact /\ DroppedHandleServes
  /\ SetUp /\ InTime /\ Fresh

(* A signal ends the process, whatever its clients and its upstream do.     *)
SignalEnds == phase = "grace" ~> phase = "exited"

(* A connection waits in the queue for nothing but a file descriptor: it is *)
(* taken or turned away, however many connections are open, and also when   *)
(* the handle is dropped.                                                  *)
QueuedAccepted == \A c \in Conns : conn[c] = "queued" ~> conn[c] # "queued" \/ exhausted
=============================================================================
