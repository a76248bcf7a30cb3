--------------------------- MODULE Pipeline_proofs --------------------------
(***************************************************************************)
(* Proofs about Pipeline: for any number of stages, fail modes, items and  *)
(* entity types.                                                           *)
(***************************************************************************)
EXTENDS Pipeline, SequenceLemmas

RunIInv ==
  TypeOK /\ RunProtocol /\ DecisionIsReference /\ RedactionsCompose /\ UncheckedIsReported

(* An answer is added to those before it.                                   *)
LEMMA AnswersGrow ==
  ASSUME NEW S, NEW s \in Seq(S), NEW e \in S, NEW t, t = Append(s, e)
  PROVE  /\ t \in Seq(S) /\ Len(s) \in Nat /\ Len(t) = Len(s) + 1
         /\ DOMAIN s = 1..Len(s) /\ DOMAIN t = 1..Len(s)+1
         /\ Len(s)+1 \in DOMAIN t /\ t[Len(s)+1] = e /\ t # <<>>
         /\ \A i \in DOMAIN s : i \in DOMAIN t /\ i # Len(s)+1 /\ t[i] = s[i]
         /\ \A i \in DOMAIN t : i \in DOMAIN s \/ i = Len(s)+1
<1>1. /\ t \in Seq(S) /\ Len(t) = Len(s) + 1 /\ t[Len(s)+1] = e
      /\ \A i \in 1..Len(s) : t[i] = s[i]
  BY AppendProperties
<1>2. Len(s) \in Nat /\ DOMAIN s = 1..Len(s) /\ DOMAIN t = 1..Len(s)+1
  BY <1>1, LenProperties
<1>3. t # <<>>  BY <1>1, <1>2, EmptySeq
<1> QED  BY <1>1, <1>2, <1>3

(* New types are named behind those that were, and none is named twice.     *)
LEMMA EntitiesNamed ==
  ASSUME NEW named \in Seq(Kinds), IsInjective(named), NEW found \in KindLists
  PROVE  LET new == named \o Only(found, Kinds \ ToSet(named))
         IN  new \in Seq(Kinds) /\ IsInjective(new) /\ ToSet(new) = ToSet(named) \cup ToSet(found)
<1> DEFINE more == Only(found, Kinds \ ToSet(named))
<1>1. found \in Seq(Kinds) /\ IsInjective(found)
  <2>1. PICK n \in 0..Cardinality(Kinds) : found \in [1..n -> Kinds]  BY DEF KindLists
  <2>2. n \in Nat  BY <2>1
  <2>3. found \in Seq(Kinds)  BY <2>1, <2>2, FunctionIsSequence
  <2> QED  BY <2>3 DEF KindLists
<1>2. ToSet(found) \subseteq Kinds
  <2>1. \A i \in DOMAIN found : found[i] \in Kinds  BY <1>1, ElementOfSeq, LenProperties
  <2> QED  BY <2>1 DEF ToSet
<1>3. /\ more \in Seq(Kinds) /\ IsInjective(more)
      /\ ToSet(more) = ToSet(found) \cap (Kinds \ ToSet(named))
  BY <1>1, OnlyType, OnlyInjective, OnlyHolds
<1> HIDE DEF more
<1>4. ToSet(named) \cap ToSet(more) = {}  BY <1>3
<1>5. /\ named \o more \in Seq(Kinds) /\ IsInjective(named \o more)
      /\ ToSet(named \o more) = ToSet(named) \cup ToSet(more)
  BY <1>3, <1>4, ConcatHolds
<1>6. ToSet(named) \cup ToSet(more) = ToSet(named) \cup ToSet(found)  BY <1>2, <1>3
<1> QED  BY <1>5, <1>6 DEF more

(* What a resolved answer leaves, whichever branch it takes.                *)
LEMMA ResolveShape ==
  ASSUME TypeOK, RunProtocol, running,
         NEW a \in Answers(req) \cup {[kind |-> "error"]}, Resolve(a)
  PROVE  /\ a \in Answers(Items)
         /\ \/ a.kind \in {"allow", "tooLongAllow"} /\ decision' = "none"
               /\ UNCHANGED <<req, reasons>>
            \/ a.kind = "redact" /\ decision' = "none" /\ req' = a.mutated
               /\ a.mutated \subseteq req /\ reasons' = Append(reasons, Current)
            \/ a.kind = "error" /\ failMode[Current] = "open" /\ decision' = "none"
               /\ UNCHANGED <<req, reasons>>
            \/ a.kind = "block" /\ decision' = "block" /\ UNCHANGED <<req, reasons>>
            \/ a.kind = "error" /\ failMode[Current] = "closed" /\ decision' = "stageError"
               /\ UNCHANGED <<req, reasons>>
            \/ a.kind = "tooLongBlock" /\ decision' = "oversize" /\ UNCHANGED <<req, reasons>>
         /\ entities' = IF a.kind = "redact"
                        THEN entities \o Only(a.entities, Kinds \ ToSet(entities)) ELSE entities
         /\ \E o \in Outcomes :
              /\ events' = Append(events, o)
              /\ o = "errorAllowed" <=> a.kind = "error" /\ failMode[Current] = "open"
              /\ o = "oversizeAllowed" <=> a.kind = "tooLongAllow"
              /\ failedOpen' = IF o = "errorAllowed" THEN Append(failedOpen, Current) ELSE failedOpen
         /\ answers' = Append(answers, a) /\ running' = FALSE
         /\ UNCHANGED <<failMode, timed, text>>
<1>1. decision = "none" /\ Current \in Stages /\ failMode[Current] \in {"open", "closed"}
  BY LenProperties, PipelineAssumption DEF RunProtocol, TypeOK, Current, Stages
<1>2. /\ a \in Answers(Items)
      /\ a.kind = "redact" => a.mutated \subseteq req
      /\ answers' = Append(answers, a) /\ running' = FALSE
      /\ UNCHANGED <<failMode, timed, text>>
  BY DEF Resolve, Answers, TypeOK, pipe
<1>3. CASE a.kind = "allow" /\ Continue("completed")
  BY <1>1, <1>2, <1>3 DEF Continue, Observe, redacted, Outcomes
<1>4. CASE a.kind = "redact" /\ Redact(a.mutated, a.entities)
  BY <1>1, <1>2, <1>4 DEF Redact, Observe, Outcomes
<1>5. CASE a.kind = "block" /\ Stop("completed", "block")
  BY <1>1, <1>2, <1>5 DEF Stop, Observe, redacted, Outcomes
<1>6. CASE a.kind = "error" /\ ResolveError(Current)
  BY <1>1, <1>2, <1>6 DEF ResolveError, Continue, Stop, Observe, redacted, Outcomes
<1>7. CASE ResolveOversize(a)
  BY <1>1, <1>2, <1>7 DEF ResolveOversize, Continue, Stop, Observe, redacted, Outcomes
<1> QED  BY <1>3, <1>4, <1>5, <1>6, <1>7 DEF Resolve

\* However an answer is resolved, the invariant holds behind it.
LEMMA ResolveRunIInv ==
  ASSUME RunIInv, running,
         NEW a \in Answers(req) \cup {[kind |-> "error"]}, Resolve(a)
  PROVE  RunIInv'
<1> USE DEF RunIInv
<1>n. PICK n \in Nat : n = Len(answers)  BY LenProperties DEF TypeOK
<1> DEFINE Open == a.kind = "error" /\ failMode[n+1] = "open"
           Ends == a.kind \in {"block", "tooLongBlock"} \/ (a.kind = "error" /\ failMode[n+1] = "closed")
<1>0. /\ n \in Nat /\ n < N /\ N \in Nat /\ n+1 \in Stages /\ Current = n+1
      /\ failMode[n+1] \in {"open", "closed"} /\ decision = "none"
  BY <1>n, PipelineAssumption DEF TypeOK, RunProtocol, Current, Stages
<1>1. /\ answers' \in Seq(Answers(Items)) /\ Len(answers') = n+1
      /\ DOMAIN answers = 1..n /\ DOMAIN answers' = 1..n+1
      /\ answers'[n+1] = a /\ answers' # <<>>
      /\ \A i \in 1..n : i \in 1..n+1 /\ i # n+1 /\ answers'[i] = answers[i]
      /\ \A i \in 1..n+1 : i \in 1..n \/ i = n+1
      /\ n+1 \in 1..n+1
  <2>1. answers \in Seq(Answers(Items)) /\ a \in Answers(Items) /\ answers' = Append(answers, a)
    BY ResolveShape DEF TypeOK
  <2> QED  BY <2>1, AnswersGrow, <1>n
<1>2. UNCHANGED <<failMode, timed, text>> /\ running' = FALSE  BY ResolveShape
<1>3. \A i \in 1..n : ~Stopping(i) /\ ~Stopping(i)'
  BY <1>0, <1>1, <1>2 DEF RunProtocol, Stopping
<1>4. Stopping(n+1)' <=> Ends  BY <1>1, <1>2 DEF Stopping
<1>5. \A i \in 1..n : Redacting(i)' <=> Redacting(i)  BY <1>1 DEF Redacting
<1>6. Redacting(n+1)' <=> a.kind = "redact"  BY <1>1 DEF Redacting
<1>7. /\ decision' = "none" <=> ~Ends
      /\ decision' \in {"none", "block", "stageError", "oversize"}
      /\ decision' = "block" <=> a.kind = "block"
      /\ decision' = "stageError" <=> a.kind = "error" /\ failMode[n+1] = "closed"
  BY <1>0, ResolveShape
<1>8. /\ reasons' \in Seq(Stages)
      /\ reasons' # <<>> <=> reasons # <<>> \/ a.kind = "redact"
  <2>1. CASE a.kind = "redact"
    <3>1. reasons' = Append(reasons, n+1)  BY <2>1, <1>0, ResolveShape
    <3> QED  BY <1>0, <2>1, <3>1, AnswersGrow DEF TypeOK
  <2>2. CASE a.kind # "redact"  BY <2>2, ResolveShape DEF TypeOK
  <2> QED  BY <2>1, <2>2
<1>9. PICK o \in Outcomes :
        /\ events' = Append(events, o)
        /\ o = "errorAllowed" <=> Open
        /\ o = "oversizeAllowed" <=> a.kind = "tooLongAllow"
        /\ failedOpen' = IF o = "errorAllowed" THEN Append(failedOpen, n+1) ELSE failedOpen
  BY <1>0, ResolveShape
<1>10. /\ events' \in Seq(Outcomes) /\ Len(events') = n+1 /\ events'[n+1] = o
       /\ \A i \in 1..n : events'[i] = events[i]
  BY <1>n, <1>9, AnswersGrow DEF TypeOK, UncheckedIsReported
<1>11. /\ failedOpen' \in Seq(Stages) /\ IsInjective(failedOpen')
       /\ ToSet(failedOpen') = IF Open THEN ToSet(failedOpen) \cup {n+1} ELSE ToSet(failedOpen)
  <2>1. n+1 \notin ToSet(failedOpen)  BY <1>1 DEF UncheckedIsReported
  <2>2. CASE Open
    BY <1>0, <1>9, <2>1, <2>2, AppendInjectiveSeq DEF TypeOK, UncheckedIsReported
  <2>3. CASE ~Open  BY <1>9, <2>3 DEF TypeOK, UncheckedIsReported
  <2> QED  BY <2>2, <2>3
<1>e. /\ entities' \in Seq(Kinds) /\ IsInjective(entities')
      /\ ToSet(entities') = ToSet(entities) \cup (IF a.kind = "redact" THEN ToSet(a.entities) ELSE {})
  <2>1. CASE a.kind = "redact"
    <3>1. a.entities \in KindLists  BY <2>1, ResolveShape DEF Answers
    <3>2. entities' = entities \o Only(a.entities, Kinds \ ToSet(entities))
      BY <2>1, ResolveShape
    <3> QED  BY <2>1, <3>1, <3>2, EntitiesNamed DEF TypeOK, RedactionsCompose
  <2>2. CASE a.kind # "redact"
    <3>1. entities' = entities  BY <2>2, ResolveShape
    <3> QED  BY <2>2, <3>1 DEF TypeOK, RedactionsCompose
  <2> QED  BY <2>1, <2>2
<1>12. req' \subseteq req /\ (a.kind = "redact" => req' = a.mutated)
  BY ResolveShape
<1> HIDE DEF Open, Ends
<1>13. TypeOK'
  <2>1. /\ failMode' \in [Stages -> {"open", "closed"}] /\ timed' \in BOOLEAN
        /\ text' \in SUBSET Items /\ req' \in SUBSET Items
    BY <1>2, <1>12 DEF TypeOK
  <2>2. answers' \in Seq(Answers(Items)) /\ Len(answers') <= N  BY <1>0, <1>1
  <2>3. decision' \in Decisions /\ running' \in BOOLEAN  BY <1>2, <1>7 DEF Decisions
  <2> QED  BY <1>8, <1>10, <1>11, <1>e, <2>1, <2>2, <2>3 DEF TypeOK
<1>14. RunProtocol'
  BY <1>0, <1>1, <1>2, <1>3, <1>4, <1>5, <1>6, <1>7, <1>8 DEF RunProtocol
<1>15. DecisionIsReference'
  <2>1. \A i \in DOMAIN answers' : Stopping(i)' => i = n+1 /\ decision' # "none"
    BY <1>1, <1>3, <1>4, <1>7
  <2>2. decision' \in {"block", "stageError", "oversize"} =>
          /\ Stopping(n+1)'
          /\ decision' = "block" <=> a.kind = "block"
          /\ decision' = "stageError" <=> a.kind = "error"
    BY <1>4, <1>7 DEF Ends
  <2> QED  BY <1>1, <1>7, <2>1, <2>2 DEF DecisionIsReference
<1>16. RedactionsCompose'
  <2>1. req' \subseteq text'  BY <1>2, <1>12 DEF RedactionsCompose
  <2>2. ASSUME NEW i \in 1..n, Redacting(i)' PROVE req' \subseteq answers'[i].mutated
    BY <1>1, <1>5, <1>12, <2>2 DEF RedactionsCompose
  <2>3. Redacting(n+1)' => req' \subseteq answers'[n+1].mutated  BY <1>1, <1>6, <1>12
  <2>4. ToSet(entities') = UNION {ToSet(answers'[i].entities) :
                                    i \in {j \in DOMAIN answers' : Redacting(j)'}}
    <3>1. ToSet(entities) = UNION {ToSet(answers[i].entities) :
                                     i \in {j \in 1..n : Redacting(j)}}
      BY <1>1 DEF RedactionsCompose
    <3>2. {j \in DOMAIN answers' : Redacting(j)'}
          = {j \in 1..n : Redacting(j)} \cup (IF a.kind = "redact" THEN {n+1} ELSE {})
      BY <1>1, <1>5, <1>6
    <3>3. \A i \in 1..n : answers'[i].entities = answers[i].entities  BY <1>1
    <3>4. answers'[n+1].entities = a.entities  BY <1>1
    <3> QED  BY <1>e, <3>1, <3>2, <3>3, <3>4
  <2> QED  BY <1>1, <1>e, <2>1, <2>2, <2>3, <2>4 DEF RedactionsCompose
<1>17. UncheckedIsReported'
  <2>1. ToSet(failedOpen') =
          {i \in DOMAIN answers' : answers'[i].kind = "error" /\ failMode'[i] = "open"}
    <3>1. ToSet(failedOpen) = {i \in 1..n : answers[i].kind = "error" /\ failMode[i] = "open"}
      BY <1>1 DEF UncheckedIsReported
    <3> QED  BY <1>1, <1>2, <1>11, <3>1 DEF Open
  <2>2. ASSUME NEW i \in 1..n
        PROVE  events'[i] \in {"errorAllowed", "oversizeAllowed"} <=>
                 answers'[i].kind \in {"error", "tooLongAllow"} /\ ~Stopping(i)'
    <3>1. events[i] \in {"errorAllowed", "oversizeAllowed"} <=>
            answers[i].kind \in {"error", "tooLongAllow"} /\ ~Stopping(i)
      BY <1>1 DEF UncheckedIsReported
    <3> QED  BY <1>1, <1>3, <1>10, <3>1
  <2>3. events'[n+1] \in {"errorAllowed", "oversizeAllowed"} <=>
          answers'[n+1].kind \in {"error", "tooLongAllow"} /\ ~Stopping(n+1)'
    BY <1>0, <1>1, <1>4, <1>9, <1>10 DEF Open, Ends
  <2> QED  BY <1>1, <1>10, <1>11, <2>1, <2>2, <2>3 DEF UncheckedIsReported
<1> QED  BY <1>13, <1>14, <1>15, <1>16, <1>17

\* Every step of the run keeps the invariant.
LEMMA NextRunIInv == RunIInv /\ [Next]_vars => RunIInv'
<1> SUFFICES ASSUME RunIInv, [Next]_vars PROVE RunIInv'  OBVIOUS
<1> USE DEF RunIInv
<1>0. Len(answers) \in Nat /\ DOMAIN answers = 1..Len(answers) /\ N \in Nat
  BY LenProperties, PipelineAssumption DEF TypeOK
<1>1. ASSUME NEW a \in Answers(req), Answer(a) PROVE RunIInv'
  BY <1>1, ResolveRunIInv DEF Answer
<1>2. CASE Timeout  BY <1>2, ResolveRunIInv DEF Timeout
<1>3. ASSUME UNCHANGED <<pipe, redacted, answers, observed>>,
             running' \in BOOLEAN, decision' \in Decisions,
             running' => decision' = "none" /\ Len(answers) < N,
             decision' = "none" => decision = "none",
             decision' # "none" => decision = "none" \/ decision' = decision,
             decision' # decision => decision' \in {"allow", "redact", "dropped"},
             decision' # decision /\ decision' # "dropped" =>
               /\ Len(answers) = N
               /\ decision' = IF reasons = <<>> THEN "allow" ELSE "redact"
      PROVE  RunIInv'
  <2>1. UNCHANGED <<failMode, timed, text, req, reasons, entities, answers, events, failedOpen>>
    BY <1>3 DEF pipe, redacted, observed
  <2>2. TypeOK'  BY <1>3, <2>1 DEF TypeOK
  <2>3. RunProtocol'  BY <1>3, <2>1 DEF RunProtocol, Stopping, Redacting
  <2>4. DecisionIsReference'
    <3>1. CASE decision' = decision
      BY <2>1, <3>1 DEF DecisionIsReference, Stopping, Redacting
    <3>2. CASE decision' # decision
      <4>1. decision = "none" /\ \A i \in DOMAIN answers : ~Stopping(i)
        BY <1>3, <3>2 DEF RunProtocol
      <4>2. \A i \in DOMAIN answers' : ~Stopping(i)'  BY <2>1, <4>1 DEF Stopping
      <4>3. reasons # <<>> <=> \E i \in DOMAIN answers' : Redacting(i)'
        BY <2>1 DEF RunProtocol, Redacting
      <4> QED  BY <1>3, <2>1, <3>2, <4>2, <4>3 DEF DecisionIsReference
    <3> QED  BY <3>1, <3>2
  <2>5. RedactionsCompose'  BY <2>1 DEF RedactionsCompose, Redacting
  <2>6. UncheckedIsReported'  BY <2>1 DEF UncheckedIsReported, Stopping
  <2> QED  BY <2>2, <2>3, <2>4, <2>5, <2>6
<1>4. CASE Evaluate
  BY <1>0, <1>3, <1>4 DEF Evaluate, Current, Decisions
<1>5. CASE Finish
  <2>1. /\ UNCHANGED <<pipe, redacted, answers, observed, running>> /\ ~running
        /\ decision = "none" /\ Len(answers) + 1 > N /\ Len(answers) <= N
        /\ decision' = IF reasons = <<>> THEN "allow" ELSE "redact"
    BY <1>5 DEF Finish, Current, TypeOK
  <2>2. Len(answers) = N
    <3>1. Len(answers) + 1 > N /\ Len(answers) <= N  BY <2>1
    <3>2. \A n \in Nat, m \in Nat : n + 1 > m /\ n <= m => n = m  OBVIOUS
    <3> QED  BY <1>0, <3>1, <3>2
  <2>3. decision' \in {"allow", "redact"} /\ decision' \in Decisions /\ running' = FALSE
    BY <2>1 DEF TypeOK, Decisions
  <2> QED  BY <1>3, <2>1, <2>2, <2>3
<1>6. CASE Drop
  BY <1>0, <1>3, <1>6 DEF Drop, Decisions, RunProtocol
<1>7. CASE UNCHANGED vars
  BY <1>3, <1>7 DEF vars, TypeOK, RunProtocol
<1> QED  BY <1>1, <1>2, <1>4, <1>5, <1>6, <1>7 DEF Next

\* The invariant holds before the first stage.
LEMMA InitRunIInv == Init => RunIInv
<1> SUFFICES ASSUME Init PROVE RunIInv  OBVIOUS
<1>1. \A S : <<>> \in Seq(S) /\ Len(<<>>) = 0 /\ DOMAIN <<>> = {}  OBVIOUS
<1>2. TypeOK
  <2>1. Len(answers) <= N  BY <1>1, PipelineAssumption DEF Init
  <2> QED  BY <1>1, <2>1 DEF Init, TypeOK, Decisions
<1>3. RunProtocol  BY <1>1 DEF Init, RunProtocol
<1>4. DecisionIsReference  BY <1>1 DEF Init, DecisionIsReference
<1>5. RedactionsCompose
  BY <1>1 DEF Init, RedactionsCompose, ToSet, IsInjective
<1>6. UncheckedIsReported
  BY <1>1 DEF Init, UncheckedIsReported, ToSet, IsInjective
<1> QED  BY <1>2, <1>3, <1>4, <1>5, <1>6 DEF RunIInv

\* The inductive invariant always holds.
THEOREM RunInvariant == Spec => []RunIInv
BY InitRunIInv, NextRunIInv, PTL DEF Spec

(* The decision is that of the first stage that blocks or fails closed, and *)
(* without one says whether any stage redacted.                             *)
THEOREM RunDecision == Spec => []DecisionIsReference
<1>1. RunIInv => DecisionIsReference  BY DEF RunIInv
<1> QED  BY <1>1, RunInvariant, PTL

(* What a stage took out of the request stays out of it.                    *)
THEOREM RunRedactions == Spec => []RedactionsCompose
<1>1. RunIInv => RedactionsCompose  BY DEF RunIInv
<1> QED  BY <1>1, RunInvariant, PTL

(* Every check a request went without is reported, the failed ones to its   *)
(* audit record.                                                            *)
THEOREM RunUnchecked == Spec => []UncheckedIsReported
<1>1. RunIInv => UncheckedIsReported  BY DEF RunIInv
<1> QED  BY <1>1, RunInvariant, PTL
=============================================================================
