------------------------------- MODULE Pipeline ------------------------------
(***************************************************************************)
(* One run of the request pipeline: Pipeline::run_with_events of           *)
(* guardrail-core/src/pipeline.rs and the proxy's observer                 *)
(* (observe_stage_event in guardrail-proxy/src/handler.rs).                *)
(*                                                                         *)
(* Stages run one after the other on the working request `req`.  Each      *)
(* answers, fails, finds its input too long, or, with a stage timeout, is  *)
(* given up; the first block ends the run.  The caller may drop the run    *)
(* while a stage is awaited.  A request is the set of sensitive items in   *)
(* its text; what a stage returns is any part of what it was given.        *)
(***************************************************************************)
EXTENDS Naturals, SequencesExt, Lists

CONSTANTS
  N,      \* number of stages
  Items,  \* the sensitive items a request may hold
  Kinds   \* the entity types a redacting stage may report

ASSUME PipelineAssumption == N \in Nat

VARIABLES
  failMode,    \* failMode[i]: the FailMode of stage i, "open" or "closed"
  timed,       \* the pipeline has a stage timeout
  text,        \* the items in the request when the run began (history)
  req,         \* the items in the working request
  reasons,     \* redaction_reasons: the stages that redacted, in order
  entities,    \* redaction_entities
  answers,     \* what each stage evaluated so far came to (history)
  events,      \* the StageOutcome reported for each of them
  failedOpen,  \* the stages the observer noted as failed open
  running,     \* a stage is being evaluated
  decision     \* "none" until the run ends

pipe     == <<failMode, timed, text>>
redacted == <<req, reasons, entities>>
observed == <<events, failedOpen>>
vars     == <<pipe, redacted, answers, observed, running, decision>>

Stages == 1..N

\* Lists of entity types without repetition, as a stage reports them.
KindLists == {s \in UNION {[1..n -> Kinds] : n \in 0..Cardinality(Kinds)} : IsInjective(s)}

\* What evaluating a stage on the items of `in` may come to.
Answers(in) ==
  [kind : {"allow", "block", "error", "tooLongAllow", "tooLongBlock"}]
  \cup [kind : {"redact"}, mutated : SUBSET in, entities : KindLists]

Outcomes == {"completed", "errorAllowed", "errorBlocked", "oversizeAllowed", "oversizeBlocked"}

Decisions == {"none", "allow", "redact", "block", "stageError", "oversize", "dropped"}

TypeOK ==
  /\ failMode \in [Stages -> {"open", "closed"}]
  /\ timed \in BOOLEAN
  /\ text \in SUBSET Items /\ req \in SUBSET Items
  /\ reasons \in Seq(Stages)
  /\ entities \in Seq(Kinds)
  /\ answers \in Seq(Answers(Items)) /\ Len(answers) <= N
  /\ events \in Seq(Outcomes)
  /\ failedOpen \in Seq(Stages)
  /\ running \in BOOLEAN
  /\ decision \in Decisions

\* The stage that is evaluated, or is next.
Current == Len(answers) + 1

-----------------------------------------------------------------------------
(* The observer.                                                           *)

\* Mutant of Observe: input too long is noted like an error.
ObserveOversizeToo(outcome) ==
  /\ events' = Append(events, outcome)
  /\ failedOpen' = IF outcome \in {"errorAllowed", "oversizeAllowed"}
                   THEN Append(failedOpen, Current) ELSE failedOpen

Observe(outcome) ==
  /\ events' = Append(events, outcome)
  /\ failedOpen' = IF outcome = "errorAllowed" THEN Append(failedOpen, Current) ELSE failedOpen

-----------------------------------------------------------------------------
(* The loop over the stages.                                               *)

Evaluate ==
  /\ decision = "none" /\ ~running /\ Current <= N
  /\ running' = TRUE
  /\ UNCHANGED <<pipe, redacted, answers, observed, decision>>

\* The stage lets the request on as it is; `outcome` says why.
Continue(outcome) ==
  /\ Observe(outcome)
  /\ UNCHANGED <<redacted, decision>>

\* The run is over; what earlier stages redacted stays in `req` alone.
Stop(outcome, verdict) ==
  /\ Observe(outcome)
  /\ decision' = verdict
  /\ UNCHANGED redacted

\* Mutant of Redact: later stages get the request as the client sent it.
RedactForgotten(mutated, found) ==
  /\ Observe("completed")
  /\ reasons' = Append(reasons, Current)
  /\ entities' = entities \o Only(found, Kinds \ ToSet(entities))
  /\ UNCHANGED <<req, decision>>

Redact(mutated, found) ==
  /\ Observe("completed")
  /\ req' = mutated
  /\ reasons' = Append(reasons, Current)
  /\ entities' = entities \o Only(found, Kinds \ ToSet(entities))
  /\ UNCHANGED decision

\* resolve_oversize: the stage has said what is to be done.
ResolveOversize(a) ==
  \/ a.kind = "tooLongAllow" /\ Continue("oversizeAllowed")
  \/ a.kind = "tooLongBlock" /\ Stop("oversizeBlocked", "oversize")

\* The stage's fail mode resolves its error, or its timeout.
ResolveError(i) ==
  \/ failMode[i] = "open" /\ Continue("errorAllowed")
  \/ failMode[i] = "closed" /\ Stop("errorBlocked", "stageError")

Resolve(a) ==
  /\ answers' = Append(answers, a)
  /\ running' = FALSE
  /\ \/ a.kind = "allow" /\ Continue("completed")
     \/ a.kind = "redact" /\ Redact(a.mutated, a.entities)
     \/ a.kind = "block" /\ Stop("completed", "block")
     \/ a.kind = "error" /\ ResolveError(Current)
     \/ ResolveOversize(a)
  /\ UNCHANGED pipe

\* The stage's future is ready.
Answer(a) == running /\ Resolve(a)

\* Mutant of Timeout: a stage that fails open is waited for.
TimeoutIfClosed ==
  /\ running /\ timed /\ failMode[Current] = "closed"
  /\ Resolve([kind |-> "error"])

\* The stage ran over the limit: an error, and its future is dropped.
Timeout == running /\ timed /\ Resolve([kind |-> "error"])

\* Mutant of Finish: a redaction is forgotten unless it named a type.
FinishByEntities ==
  /\ decision = "none" /\ ~running /\ Current > N
  /\ decision' = IF entities = <<>> THEN "allow" ELSE "redact"
  /\ UNCHANGED <<pipe, redacted, answers, observed, running>>

Finish ==
  /\ decision = "none" /\ ~running /\ Current > N
  /\ decision' = IF reasons = <<>> THEN "allow" ELSE "redact"
  /\ UNCHANGED <<pipe, redacted, answers, observed, running>>

\* The caller is gone while a stage is awaited.
Drop ==
  /\ running /\ running' = FALSE
  /\ decision' = "dropped"
  /\ UNCHANGED <<pipe, redacted, answers, observed>>

-----------------------------------------------------------------------------
Init ==
  /\ failMode \in [Stages -> {"open", "closed"}]
  /\ timed \in BOOLEAN
  /\ text \in SUBSET Items /\ req = text
  /\ reasons = <<>> /\ entities = <<>>
  /\ answers = <<>> /\ events = <<>> /\ failedOpen = <<>>
  /\ running = FALSE
  /\ decision = "none"

Next ==
  \/ Evaluate
  \/ \E a \in Answers(req) : Answer(a)
  \/ Timeout \/ Finish \/ Drop

Spec == Init /\ [][Next]_vars

(* The loop runs on, and a timer that is set fires.  A stage need not       *)
(* answer.                                                                 *)
Fairness == WF_vars(Evaluate) /\ WF_vars(Timeout) /\ WF_vars(Finish)

FairSpec == Spec /\ Fairness

-----------------------------------------------------------------------------
(* Safety: the run against what its answers as a whole call for.           *)

\* The stages whose answer ends the run.
Stopping(i) ==
  \/ answers[i].kind \in {"block", "tooLongBlock"}
  \/ answers[i].kind = "error" /\ failMode[i] = "closed"

Redacting(i) == answers[i].kind = "redact"

(* The decision is the one the documentation of `run` calls for: the first  *)
(* stage that blocks, or fails closed, is the last one evaluated and gives  *)
(* the decision; without one every stage was evaluated, and the decision is *)
(* Redact exactly when some stage redacted, with or without naming types.   *)
DecisionIsReference ==
  /\ \A i \in DOMAIN answers : Stopping(i) => i = Len(answers) /\ decision # "none"
  /\ decision \in {"block", "stageError", "oversize"} =>
       /\ answers # <<>> /\ Stopping(Len(answers))
       /\ decision = "block" <=> answers[Len(answers)].kind = "block"
       /\ decision = "stageError" <=> answers[Len(answers)].kind = "error"
  /\ decision \in {"allow", "redact"} =>
       /\ Len(answers) = N /\ \A i \in DOMAIN answers : ~Stopping(i)
       /\ decision = "redact" <=> \E i \in DOMAIN answers : Redacting(i)

(* What one stage redacted never comes back: the request that goes upstream *)
(* holds only what every redacting stage left in it; and the entity types   *)
(* for its audit record are those these stages named, each of them once.    *)
RedactionsCompose ==
  /\ req \subseteq text
  /\ \A i \in DOMAIN answers : Redacting(i) => req \subseteq answers[i].mutated
  /\ ToSet(entities) =
       UNION {ToSet(answers[i].entities) : i \in {j \in DOMAIN answers : Redacting(j)}}
  /\ IsInjective(entities)

(* "Fail-open is only a defensible default if you can see it happening":    *)
(* the stages whose check a request went without because they failed are    *)
(* exactly those listed for its audit record, in order, and every stage     *)
(* that did not check the request is reported as such, also when a later    *)
(* one blocks it.                                                           *)
UncheckedIsReported ==
  /\ Len(events) = Len(answers)
  /\ ToSet(failedOpen) =
       {i \in DOMAIN answers : answers[i].kind = "error" /\ failMode[i] = "open"}
  /\ IsInjective(failedOpen)
  /\ \A i \in DOMAIN answers :
       events[i] \in {"errorAllowed", "oversizeAllowed"} <=>
         answers[i].kind \in {"error", "tooLongAllow"} /\ ~Stopping(i)

(* What makes them inductive: while it runs, no answer has called for an    *)
(* end, and the stages that redacted are remembered.                        *)
RunProtocol ==
  /\ running => decision = "none" /\ Len(answers) < N
  /\ decision = "none" => \A i \in DOMAIN answers : ~Stopping(i)
  /\ reasons # <<>> <=> \E i \in DOMAIN answers : Redacting(i)

(* A pipeline with a stage timeout comes to an end although no stage ever   *)
(* answers.                                                                 *)
TimedRunEnds == timed ~> decision # "none"
=============================================================================
