-------------------------------- MODULE Proxy --------------------------------
(***************************************************************************)
(* Requests in the proxy (guardrail-proxy/src/handler.rs) while the        *)
(* configuration is reloaded under them (ConfigHandle).                    *)
(*                                                                         *)
(* A request loads the configuration to be routed, loads it again and then *)
(* the pipeline to be screened, and looks at the current response redactor *)
(* up to four times: for the two refusals of streamed requests, when the   *)
(* upstream answers and, for a JSON document, once its body is read.  A    *)
(* reload may come between any two of these loads.  The client may         *)
(* disconnect at every await, which drops the handler.                     *)
(*                                                                         *)
(* Abstracted: the screening itself (module Pipeline) to its verdict, the  *)
(* upstream to the kind of response it gives, and a client to the kind of  *)
(* request it makes:                                                       *)
(*   chat             a scanned route, not streamed                        *)
(*   chatStream       a scanned route, streamed                            *)
(*   responsesStream  /v1/responses, streamed                              *)
(*   extra            a path that only server.passthrough_paths can open   *)
(***************************************************************************)
EXTENDS ConfigHandle

CONSTANTS
  Requests,
  Redacting,  \* versions with response redaction: a response redactor is Some
  Rejecting,  \* versions with streaming_responses = "reject"
  Listing,    \* versions whose passthrough_paths list the extra path
  None        \* no snapshot taken

ASSUME ProxyAssumption ==
  /\ Redacting \cup Rejecting \cup Listing \subseteq Versions
  /\ None \notin Cells

VARIABLES
  at,       \* at[r]: where r is in its handler
  kind,     \* kind[r]: what r asks for
  entry,    \* entry[r]: the redactor in force when r arrived (history)
  routing,  \* routing[r]: the configuration r was routed with
  cfg,      \* cfg[r]: the configuration r is handled with
  pipe,     \* pipe[r]: the pipeline r is screened with
  relay,    \* relay[r]: the redactor loaded when the upstream answered
  verdict,  \* verdict[r]: the pipeline's decision
  called,   \* called[r]: r was sent upstream
  sent,     \* sent[r]: what the client was sent
  audited,  \* audited[r]: the decision in r's audit record
  counted,  \* counted[r]: the counters r has incremented
  offSeen   \* offSeen[r]: response redaction was off while r was here (history)

snapshots   == <<entry, routing, cfg, pipe, relay>>
outcome     == <<verdict, called, sent, audited, counted>>
requestVars == <<at, kind, snapshots, outcome>>
vars        == <<handleVars, requestVars, offSeen>>

Kinds == {"chat", "chatStream", "responsesStream", "extra"}
Streamed == {"chatStream", "responsesStream"}

Places == {"none", "arrived", "routed", "configured", "admitting", "rejectCheck",
           "streamCheck", "screening", "forwarding", "buffering", "streaming",
           "done", "gone"}

\* Awaits: where the future can be dropped.
Awaiting == {"admitting", "screening", "forwarding", "buffering", "streaming"}

\* "verbatim": the upstream's bytes, no redactor asked.  "unread": they were
\* passed on although a redactor was there, a success of another type or bad
\* JSON; "unreadError": an error reply of another type.  "filtered": they went
\* through a redactor.
Sent == {"nothing", "refused", "blocked", "failed", "verbatim", "unread", "unreadError",
         "filtered"}

Counters == {"allow", "redact", "block", "passthrough", "upstreamError",
             "responseRedacted", "redactionSkipped"}

TypeOK ==
  /\ HandleTypeOK
  /\ at \in [Requests -> Places]
  /\ kind \in [Requests -> Kinds]
  /\ entry \in [Requests -> Cells \cup {None}]
  /\ routing \in [Requests -> Cells \cup {None}]
  /\ cfg \in [Requests -> Cells \cup {None}]
  /\ pipe \in [Requests -> Cells \cup {None}]
  /\ relay \in [Requests -> Cells \cup {None}]
  /\ verdict \in [Requests -> {"none", "allow", "redact", "block"}]
  /\ called \in [Requests -> BOOLEAN]
  /\ sent \in [Requests -> Sent]
  /\ audited \in [Requests -> {"none", "allow", "redact", "block"}]
  /\ counted \in [Requests -> SUBSET Counters]
  /\ offSeen \in [Requests -> BOOLEAN]

\* Response redaction is on by a cell of the redactor.
On(cell) == cell.version \in Redacting

InHandler(r) == at[r] \notin {"none", "done", "gone"}

-----------------------------------------------------------------------------
(* handle_request: routing.                                                *)

Arrive(r, k) ==
  /\ at[r] = "none"
  /\ at' = [at EXCEPT ![r] = "arrived"]
  /\ kind' = [kind EXCEPT ![r] = k]
  /\ entry' = [entry EXCEPT ![r] = redactor]
  /\ UNCHANGED <<handleVars, routing, cfg, pipe, relay, outcome>>

\* The response is an error made here; nothing is recorded of the request.
Refuse(r) ==
  /\ at' = [at EXCEPT ![r] = "done"]
  /\ sent' = [sent EXCEPT ![r] = "refused"]
  /\ UNCHANGED <<verdict, called, audited, counted>>

Route(r) ==
  /\ at[r] = "arrived"
  /\ routing' = [routing EXCEPT ![r] = config]
  /\ IF kind[r] = "extra" /\ config.version \notin Listing
     THEN Refuse(r)
     ELSE at' = [at EXCEPT ![r] = "routed"] /\ UNCHANGED outcome
  /\ UNCHANGED <<handleVars, kind, entry, cfg, pipe, relay>>

\* proxy_request and passthrough_request load the configuration anew.
TakeConfig(r) ==
  /\ at[r] = "routed"
  /\ cfg' = [cfg EXCEPT ![r] = config]
  /\ at' = [at EXCEPT ![r] = IF kind[r] = "extra" THEN "admitting" ELSE "configured"]
  /\ UNCHANGED <<handleVars, kind, entry, routing, pipe, relay, outcome>>

TakePipeline(r) ==
  /\ at[r] = "configured"
  /\ pipe' = [pipe EXCEPT ![r] = pipeline]
  /\ at' = [at EXCEPT ![r] = "admitting"]
  /\ UNCHANGED <<handleVars, kind, entry, routing, cfg, relay, outcome>>

-----------------------------------------------------------------------------
(* Admission: the key, the body and its limit, and the body's parsing may  *)
(* each end the request.  A passthrough request goes upstream at once.     *)
Admit(r) ==
  /\ at[r] = "admitting"
  /\ \/ Refuse(r)
     \/ /\ kind[r] # "extra"
        /\ at' = [at EXCEPT ![r] = "rejectCheck"]
        /\ UNCHANGED outcome
     \/ /\ kind[r] = "extra"
        /\ at' = [at EXCEPT ![r] = "forwarding"]
        /\ called' = [called EXCEPT ![r] = TRUE]
        /\ UNCHANGED <<verdict, sent, audited, counted>>
  /\ UNCHANGED <<handleVars, kind, snapshots>>

\* streaming_responses = "reject" in r's configuration, redaction on now.
RejectCheck(r) ==
  /\ at[r] = "rejectCheck"
  /\ IF kind[r] \in Streamed /\ On(redactor) /\ cfg[r].version \in Rejecting
     THEN Refuse(r)
     ELSE at' = [at EXCEPT ![r] = "streamCheck"] /\ UNCHANGED outcome
  /\ UNCHANGED <<handleVars, kind, snapshots>>

\* Mutant of StreamCheck: streamed Responses API requests are let through.
StreamCheckDropped(r) ==
  /\ at[r] = "streamCheck"
  /\ at' = [at EXCEPT ![r] = "screening"]
  /\ UNCHANGED <<handleVars, kind, snapshots, outcome>>

\* Streamed Responses API events cannot be redacted: refused while it is on.
StreamCheck(r) ==
  /\ at[r] = "streamCheck"
  /\ IF kind[r] = "responsesStream" /\ On(redactor)
     THEN Refuse(r)
     ELSE at' = [at EXCEPT ![r] = "screening"] /\ UNCHANGED outcome
  /\ UNCHANGED <<handleVars, kind, snapshots>>

-----------------------------------------------------------------------------
(* The end of a handler that has a verdict, or of a passthrough request:   *)
(* an audit record and the request's counter, with no await before the     *)
(* response.                                                               *)

\* Mutant of Record: the record is written for what was relayed only.
RecordRelayed(r, v, more) ==
  /\ audited' = [audited EXCEPT ![r] = IF v = "none" \/ sent'[r] = "failed" THEN "none" ELSE v]
  /\ counted' = [counted EXCEPT ![r] = @ \cup more \cup {IF v = "none" THEN "passthrough" ELSE v}]

\* Mutant of Record: what is counted beside the decision is forgotten.
RecordAlone(r, v, more) ==
  /\ audited' = [audited EXCEPT ![r] = v]
  /\ counted' = [counted EXCEPT ![r] = @ \cup {IF v = "none" THEN "passthrough" ELSE v}]

Record(r, v, more) ==
  /\ audited' = [audited EXCEPT ![r] = v]
  /\ counted' = [counted EXCEPT ![r] = @ \cup more \cup {IF v = "none" THEN "passthrough" ELSE v}]

\* The pipeline's future is ready.  A blocked request is answered at once;
\* another is written back into the client's body, which may fail, and sent.
Decide(r, v) ==
  /\ at[r] = "screening"
  /\ verdict' = [verdict EXCEPT ![r] = v]
  /\ \/ /\ v = "block"
        /\ at' = [at EXCEPT ![r] = "done"]
        /\ sent' = [sent EXCEPT ![r] = "blocked"]
        /\ Record(r, v, {})
        /\ UNCHANGED called
     \/ /\ v # "block"
        /\ at' = [at EXCEPT ![r] = "done"]
        /\ sent' = [sent EXCEPT ![r] = "failed"]
        /\ Record(r, v, {})
        /\ UNCHANGED called
     \/ /\ v # "block"
        /\ at' = [at EXCEPT ![r] = "forwarding"]
        /\ called' = [called EXCEPT ![r] = TRUE]
        /\ UNCHANGED <<sent, audited, counted>>
  /\ UNCHANGED <<handleVars, kind, snapshots>>

-----------------------------------------------------------------------------
(* relay_upstream.                                                         *)

\* The handler returns; `next` is "done", or "streaming" for a body that is
\* still to be produced.
Respond(r, next, what, more) ==
  /\ at' = [at EXCEPT ![r] = next]
  /\ sent' = [sent EXCEPT ![r] = what]
  /\ Record(r, verdict[r], more)
  /\ UNCHANGED <<verdict, called>>

UpstreamFails(r) ==
  /\ at[r] = "forwarding"
  /\ Respond(r, "done", "failed", {"upstreamError"})
  /\ UNCHANGED <<handleVars, kind, snapshots>>

\* The head of the response: with redaction on, an encoding the proxy cannot
\* read is refused, another content type is passed on (and counted when it
\* is a success), an event stream is filtered and JSON is buffered.  The
\* upstream sends event streams only to requests that asked for one.
UpstreamAnswers(r) ==
  /\ at[r] = "forwarding"
  /\ relay' = [relay EXCEPT ![r] = redactor]
  /\ \/ /\ ~On(redactor)
        /\ Respond(r, "streaming", "verbatim", {})
     \/ /\ On(redactor)
        /\ \/ Respond(r, "done", "failed", {"redactionSkipped"})
           \/ Respond(r, "streaming", "unread", {"redactionSkipped"})
           \/ Respond(r, "streaming", "unreadError", {})
           \/ /\ kind[r] \in Streamed \cup {"extra"}
              /\ Respond(r, "streaming", "filtered", {})
           \/ at' = [at EXCEPT ![r] = "buffering"] /\ UNCHANGED outcome
  /\ UNCHANGED <<handleVars, kind, entry, routing, cfg, pipe>>

\* Mutant of Buffered: a document read after redaction went off is kept back.
BufferedWaits(r) ==
  /\ at[r] = "buffering"
  /\ On(redactor)
  /\ \E what \in {"filtered", "unread", "failed"} : Respond(r, "done", what, {})
  /\ UNCHANGED <<handleVars, kind, snapshots>>

\* The JSON body is read, or the upstream broke off; maybe_redact_response
\* asks for the redactor again.
Buffered(r) ==
  /\ at[r] = "buffering"
  /\ \/ Respond(r, "done", "failed", {})
     \/ ~On(redactor) /\ Respond(r, "done", "verbatim", {})
     \/ On(redactor) /\ \E more \in {{}, {"responseRedacted"}} : Respond(r, "done", "filtered", more)
     \/ On(redactor) /\ Respond(r, "done", "unread", {"redactionSkipped"})
  /\ UNCHANGED <<handleVars, kind, snapshots>>

\* The body of a response that was streamed ends; the event-stream redactor
\* counts what it has redacted.
StreamEnds(r) ==
  /\ at[r] = "streaming"
  /\ at' = [at EXCEPT ![r] = "done"]
  /\ \/ UNCHANGED counted
     \/ /\ sent[r] = "filtered"
        /\ counted' = [counted EXCEPT ![r] = @ \cup {"responseRedacted"}]
  /\ UNCHANGED <<handleVars, kind, snapshots, verdict, called, sent, audited>>

\* The client disconnects: the future, or the body, is dropped.
Disconnect(r) ==
  /\ at[r] \in Awaiting
  /\ at' = [at EXCEPT ![r] = "gone"]
  /\ UNCHANGED <<handleVars, kind, snapshots, outcome>>

-----------------------------------------------------------------------------
\* Redaction was off at some moment between r's arrival and its response.
Watch ==
  offSeen' = [r \in Requests |-> offSeen[r] \/ (InHandler(r)' /\ ~On(redactor'))]

Init ==
  /\ HandleInit
  /\ at = [r \in Requests |-> "none"]
  /\ kind = [r \in Requests |-> "chat"]
  /\ entry = [r \in Requests |-> None]
  /\ routing = [r \in Requests |-> None]
  /\ cfg = [r \in Requests |-> None]
  /\ pipe = [r \in Requests |-> None]
  /\ relay = [r \in Requests |-> None]
  /\ verdict = [r \in Requests |-> "none"]
  /\ called = [r \in Requests |-> FALSE]
  /\ sent = [r \in Requests |-> "nothing"]
  /\ audited = [r \in Requests |-> "none"]
  /\ counted = [r \in Requests |-> {}]
  /\ offSeen = [r \in Requests |-> FALSE]

\* What goes on by itself once the request is admitted.
Handle(r) ==
  \/ RejectCheck(r) \/ StreamCheck(r)
  \/ \E v \in {"allow", "redact", "block"} : Decide(r, v)
  \/ UpstreamFails(r) \/ UpstreamAnswers(r) \/ Buffered(r)

RequestStep(r) ==
  \/ \E k \in Kinds : Arrive(r, k)
  \/ Route(r) \/ TakeConfig(r) \/ TakePipeline(r) \/ Admit(r)
  \/ Handle(r) \/ StreamEnds(r) \/ Disconnect(r)

ReloadWhileServing == HandleNext /\ UNCHANGED requestVars

Next == (ReloadWhileServing \/ \E r \in Requests : RequestStep(r)) /\ Watch

Spec == Init /\ [][Next]_vars

(* The runtime polls a handler that can go on, the pipeline ends (see       *)
(* Pipeline and SessionPool), and the upstream client's timeout ends every  *)
(* call and every body.  A client need not send its body nor read the       *)
(* response, and a reload in progress never waits for requests.             *)
Fairness ==
  \A r \in Requests :
    /\ WF_vars(Route(r) /\ Watch) /\ WF_vars(TakeConfig(r) /\ Watch)
    /\ WF_vars(TakePipeline(r) /\ Watch) /\ WF_vars(Handle(r) /\ Watch)

FairSpec == Spec /\ Fairness

-----------------------------------------------------------------------------
(* Safety.                                                                 *)

(* "Only new requests see the updated configuration", and they all do: what *)
(* a request is routed, handled and screened with is at least as new as     *)
(* the last reload that was complete when it arrived, its configuration is  *)
(* no older than the one that routed it, and its pipeline is at most one    *)
(* reload behind its configuration (handler.rs 125, 284, 285).              *)
SnapshotsFresh ==
  \A r \in Requests :
    /\ routing[r] # None => entry[r].gen <= routing[r].gen
    /\ cfg[r] # None => routing[r].gen <= cfg[r].gen
    /\ pipe[r] # None => entry[r].gen <= pipe[r].gen /\ cfg[r].gen <= pipe[r].gen + 1

\* The upstream's text reaches the client with nobody having looked for PII:
\* as it came, or as the events of the Responses API, which the event-stream
\* redactor does not rewrite.
Unsearched(r) ==
  \/ sent[r] \in {"verbatim", "unread", "unreadError"}
  \/ sent[r] = "filtered" /\ kind[r] = "responsesStream"

(* A response goes out unsearched for one of three reasons, however reloads *)
(* fall between the handler's four looks at the redactor: redaction was off *)
(* at some moment while its request was in the proxy; or the redactor could *)
(* not read it, and it is counted as skipped; or it is an error reply of a  *)
(* type the redactor cannot read, which goes out with redaction on and is   *)
(* not counted.                                                             *)
ExposureExplained ==
  \A r \in Requests :
    Unsearched(r) => \/ offSeen[r]
                     \/ sent[r] = "unread" /\ "redactionSkipped" \in counted[r]
                     \/ sent[r] = "unreadError"

(* The audit trail tells the truth: a record says what the pipeline         *)
(* decided, a blocked request was not sent upstream, and a screened request *)
(* that was answered has its record and is counted under its decision.      *)
AuditTruth ==
  \A r \in Requests :
    /\ audited[r] # "none" => audited[r] = verdict[r] /\ verdict[r] \in counted[r]
    /\ verdict[r] = "block" => ~called[r]
    /\ verdict[r] # "none" /\ sent[r] # "nothing" => audited[r] = verdict[r]

(* What makes the three inductive: what a request has and has not yet at    *)
(* each place of its handler.                                               *)
FreshProtocol ==
  \A r \in Requests :
    /\ at[r] # "none" => entry[r] # None /\ entry[r].gen <= redactor.gen
    /\ at[r] \in {"none", "arrived"} => routing[r] = None
    /\ at[r] \in {"none", "arrived", "routed"} => cfg[r] = None /\ pipe[r] = None
    /\ at[r] = "routed" => routing[r] # None
    /\ at[r] = "configured" => cfg[r] # None
    /\ routing[r] # None => routing[r].gen <= config.gen
    /\ cfg[r] # None => cfg[r].gen <= config.gen

ExposureProtocol ==
  \A r \in Requests :
    /\ at[r] = "none" => sent[r] = "nothing"
    /\ InHandler(r) /\ ~On(redactor) => offSeen[r]
    /\ kind[r] = "responsesStream" /\ at[r] \in {"screening", "forwarding", "buffering"}
         => offSeen[r]

AuditProtocol ==
  \A r \in Requests :
    /\ at[r] \in {"none", "arrived", "routed", "configured", "admitting",
                  "rejectCheck", "streamCheck", "screening"}
         => /\ verdict[r] = "none" /\ ~called[r]
            /\ sent[r] = "nothing" /\ audited[r] = "none"
    /\ at[r] \in {"forwarding", "buffering"}
         => verdict[r] # "block" /\ sent[r] = "nothing" /\ audited[r] = "none"

(* handler.rs 337: "Streamed Responses API events aren't redacted yet:      *)
(* refuse rather than stream PII through".  No such stream goes through the *)
(* redactor that would leave it as it is.                                   *)
ResponsesStreamRefused ==
  \A r \in Requests : sent[r] = "filtered" => kind[r] # "responsesStream"

-----------------------------------------------------------------------------
(* Liveness.                                                               *)

(* An admitted request is answered, or its client has left, whatever is     *)
(* reloaded meanwhile.                                                      *)
AdmittedIsAnswered ==
  \A r \in Requests :
    at[r] = "rejectCheck" ~> at[r] \in {"streaming", "done", "gone"}
=============================================================================
