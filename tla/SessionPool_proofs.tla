------------------------- MODULE SessionPool_proofs -------------------------
(***************************************************************************)
(* Proofs about SessionPool, for every pool size, every number of requests *)
(* and of synchronous callers, and every number of blocking threads.       *)
(***************************************************************************)
EXTENDS SessionPool, SequenceLemmas, FiniteSetTheorems

-----------------------------------------------------------------------------
(* The sets that SlotAccounting counts are finite.                          *)
LEMMA FiniteHolders ==
  ASSUME TypeOK
  PROVE  /\ IsFiniteSet(PermitHolders) /\ IsFiniteSet(SessionHolders) /\ IsFiniteSet(idle)
         /\ Cardinality(PermitHolders) \in Nat
         /\ Cardinality(SessionHolders) \in Nat
         /\ Cardinality(idle) \in Nat
         /\ Size \in Nat \ {0}
<1>1. IsFiniteSet(Jobs)  BY PoolAssumption, FS_Union DEF Jobs
<1>2. /\ PermitHolders \subseteq Requests /\ SessionHolders \subseteq Jobs
      /\ idle \subseteq Sessions
  BY DEF PermitHolders, SessionHolders, TypeOK
<1>3. IsFiniteSet(PermitHolders)  BY <1>2, PoolAssumption, FS_Subset
<1>4. IsFiniteSet(SessionHolders)  BY <1>1, <1>2, FS_Subset
<1>5. IsFiniteSet(idle)  BY <1>2, PoolAssumption, FS_Subset
<1>6. Size \in Nat \ {0}  BY PoolAssumption, FS_CardinalityType, FS_EmptySet DEF Size
<1> QED  BY <1>3, <1>4, <1>5, <1>6, FS_CardinalityType

\* The invariant holds in an idle pool.
LEMMA InitIInv == Init => IInv
<1> SUFFICES ASSUME Init PROVE IInv  OBVIOUS
<1>1. Size \in Nat \ {0} /\ 0 \in 0..Size /\ Size \in 0..Size
  BY PoolAssumption, FS_CardinalityType, FS_EmptySet DEF Size
<1>2. <<>> \in Seq(Requests) /\ DOMAIN <<>> = {}  OBVIOUS
<1>3. TypeOK  BY <1>1, <1>2 DEF Init, TypeOK, TaskStates, JobStates
<1>4. Queued = {}  BY <1>2 DEF Init, Queued, ToSet
<1>5. Protocol
  BY <1>2, <1>4, PoolAssumption DEF Init, Protocol, IsInjective
<1>6. SessionHolders = {} /\ PermitHolders = {}
  BY DEF Init, SessionHolders, PermitHolders, Jobs
<1>7. SessionsExclusive  BY <1>6 DEF SessionsExclusive
<1>8. SlotAccounting  BY <1>1, <1>6, FS_EmptySet DEF SlotAccounting, Init, Size
<1> QED  BY <1>3, <1>5, <1>7, <1>8 DEF IInv

-----------------------------------------------------------------------------
(* What Release does to the line, for a request that holds a permit and is  *)
(* not in line: the permit is free again, or somebody else's.               *)
LEMMA ReleaseFacts ==
  ASSUME TypeOK, Protocol, NEW r \in Requests, r \notin Queued, Release(r)
  PROVE  /\ queue' \in Seq(Requests) /\ IsInjective(queue')
         /\ granted' \in SUBSET Requests
         /\ ToSet(queue') \subseteq Queued
         /\ granted' \cap ToSet(queue') = {}
         /\ granted' \cup ToSet(queue') = (granted \cup Queued) \ {r}
         /\ \/ granted' = granted \ {r} /\ permits' = permits + 1
            \/ /\ permits' = permits
               /\ \E h \in Queued : granted' = (granted \ {r}) \cup {h}
<1>1. CASE queue = <<>>
  BY <1>1 DEF Release, TypeOK, Protocol, Queued, ToSet
<1>2. CASE queue # <<>>
  <2> DEFINE h == Head(queue)
  <2>1. /\ queue' = Tail(queue) /\ granted' = (granted \ {r}) \cup {h} /\ permits' = permits
    BY <1>2 DEF Release
  <2>2. /\ h \in Requests /\ h \in Queued /\ queue' \in Seq(Requests) /\ IsInjective(queue')
        /\ ToSet(queue') = Queued \ {h}
    BY <1>2, <2>1, TailInjectiveSeq DEF TypeOK, Protocol, Queued
  <2> HIDE DEF h
  <2> QED  BY <2>1, <2>2 DEF TypeOK, Protocol
<1> QED  BY <1>1, <1>2
-----------------------------------------------------------------------------
(* Steps that leave permits, sessions and the line alone: what remains is   *)
(* that the two sets of holders do not change.                              *)
LEMMA QuietStep ==
  ASSUME IInv, TypeOK', Protocol',
         PermitHolders' = PermitHolders, SessionHolders' = SessionHolders,
         permits' = permits, session' = session, idle' = idle
  PROVE  IInv'
<1>1. SlotAccounting'  BY DEF IInv, SlotAccounting, Size
<1>2. SessionsExclusive'  BY DEF IInv, SessionsExclusive
<1> QED  BY <1>1, <1>2 DEF IInv

(* A request that is not in the queue of the blocking pool is put there.    *)
LEMMA SpawnFacts ==
  ASSUME TypeOK, Protocol, NEW r \in Requests,
         job[r] \notin {"tokSpawned", "spawned"}, blocking' = Append(blocking, r),
         NEW js \in {"tokSpawned", "spawned"}, job' = [job EXCEPT ![r] = js]
  PROVE  /\ blocking' \in Seq(Requests) /\ IsInjective(blocking')
         /\ \A i \in DOMAIN blocking' : job'[blocking'[i]] \in {"tokSpawned", "spawned"}
<1>1. r \notin ToSet(blocking)  BY DEF Protocol, ToSet
<1>2. /\ blocking' \in Seq(Requests) /\ IsInjective(blocking')
      /\ \A i \in DOMAIN blocking' :
           (i \in DOMAIN blocking /\ blocking'[i] = blocking[i]) \/ blocking'[i] = r
  BY <1>1, AppendInjectiveSeq DEF TypeOK, Protocol
<1>3. job \in [Jobs -> JobStates] /\ r \in Jobs  BY DEF TypeOK, Jobs
<1>4. ASSUME NEW i \in DOMAIN blocking'
      PROVE  job'[blocking'[i]] \in {"tokSpawned", "spawned"}
  <2>1. CASE blocking'[i] = r  BY <2>1, <1>3
  <2>2. CASE i \in DOMAIN blocking /\ blocking'[i] = blocking[i] /\ blocking[i] # r
    <3>1. job[blocking[i]] \in {"tokSpawned", "spawned"}  BY <2>2 DEF Protocol
    <3>2. blocking[i] \in Jobs  BY <2>2, ElementOfSeq, LenProperties DEF TypeOK, Jobs
    <3> QED  BY <2>2, <3>1, <3>2, <1>3
  <2> QED  BY <2>1, <2>2, <1>2
<1> QED  BY <1>2, <1>4

(* The queue of the blocking pool keeps its shape when the job of somebody  *)
(* who is not in it moves on.                                               *)
LEMMA BlockingKept ==
  ASSUME TypeOK, Protocol, blocking' = blocking,
         \A r \in Requests : job[r] \in {"tokSpawned", "spawned"} => job'[r] = job[r]
  PROVE  /\ IsInjective(blocking')
         /\ \A i \in DOMAIN blocking' : job'[blocking'[i]] \in {"tokSpawned", "spawned"}
<1>1. \A i \in DOMAIN blocking : blocking[i] \in Requests
  BY ElementOfSeq, LenProperties DEF TypeOK
<1> QED  BY <1>1 DEF Protocol

\* Only requests wait in line.
LEMMA QueuedRequests ==
  ASSUME TypeOK
  PROVE  Queued \subseteq Requests /\ (queue' = queue => Queued' = Queued)
BY ElementOfSeq, LenProperties DEF Queued, ToSet, TypeOK

\* A request spawns its first job.
LEMMA SpawnTokenizeIInv ==
  ASSUME IInv, NEW r \in Requests, SpawnTokenize(r)
  PROVE  IInv'
<1> USE DEF IInv
<1>1. /\ task[r] = "away" /\ job[r] = "none" /\ r \in Jobs
      /\ task' = [task EXCEPT ![r] = "tokenizing"]
      /\ job' = [job EXCEPT ![r] = "tokSpawned"]
      /\ blocking' = Append(blocking, r)
      /\ UNCHANGED <<session, idle, permits, queue, granted>>
  BY DEF SpawnTokenize, poolVars, Jobs
<1>2. /\ blocking' \in Seq(Requests) /\ IsInjective(blocking')
      /\ \A i \in DOMAIN blocking' : job'[blocking'[i]] \in {"tokSpawned", "spawned"}
  BY <1>1, SpawnFacts
<1>3. TypeOK'  BY <1>1, <1>2 DEF TypeOK, TaskStates, JobStates, Size
<1>4. Protocol'
  <2>1. r \notin granted \cup Queued  BY <1>1 DEF Protocol
  <2>2. Queued' = Queued /\ Queued \subseteq Requests
    BY <1>1, QueuedRequests
  <2>3. \A q \in (granted \cup Queued)' : task'[q] = "reserving" /\ job'[q] = "none"
    BY <1>1, <2>1, <2>2 DEF Protocol, TypeOK, Jobs
  <2>4. \A j \in Jobs : session'[j] # NoSession <=> job'[j] = "inferring"
    BY <1>1 DEF Protocol, TypeOK
  <2> QED  BY <1>1, <1>2, <2>2, <2>3, <2>4 DEF Protocol
<1>5. PermitHolders' = PermitHolders  BY <1>1 DEF PermitHolders, TypeOK, Jobs
<1>6. SessionHolders' = SessionHolders  BY <1>1 DEF SessionHolders
<1> QED  BY <1>1, <1>3, <1>4, <1>5, <1>6, QuietStep

(* Reject and Collect: the result of a job over is read.                   *)
LEMMA ReadResultIInv ==
  ASSUME IInv, NEW r \in Requests, Reject(r) \/ Collect(r)
  PROVE  IInv'
<1> USE DEF IInv
<1>1. /\ task[r] \in {"tokenizing", "scoring"} /\ job[r] \in {"failed", "finished"} /\ r \in Jobs
      /\ task' = [task EXCEPT ![r] = "away"]
      /\ job' = [job EXCEPT ![r] = "none"]
      /\ UNCHANGED <<session, idle, permits, queue, granted, blocking>>
  BY DEF Reject, Collect, poolVars, Jobs
<1>2. TypeOK'  BY <1>1 DEF TypeOK, TaskStates, JobStates, Size
<1>3. Protocol'
  <2>1. r \notin granted \cup Queued  BY <1>1 DEF Protocol
  <2>2. Queued' = Queued /\ Queued \subseteq Requests  BY <1>1, QueuedRequests
  <2>3. \A q \in (granted \cup Queued)' : task'[q] = "reserving" /\ job'[q] = "none"
    BY <1>1, <2>1, <2>2 DEF Protocol, TypeOK, Jobs
  <2>4. \A j \in Jobs : session'[j] # NoSession <=> job'[j] = "inferring"
    BY <1>1 DEF Protocol, TypeOK
  <2>5. \A q \in Requests : job[q] \in {"tokSpawned", "spawned"} => job'[q] = job[q]
    BY <1>1 DEF TypeOK, Jobs
  <2> QED  BY <1>1, <2>2, <2>3, <2>4, <2>5, BlockingKept DEF Protocol
<1>4. PermitHolders' = PermitHolders  BY <1>1 DEF PermitHolders, TypeOK, Jobs
<1>5. SessionHolders' = SessionHolders  BY <1>1 DEF SessionHolders
<1> QED  BY <1>1, <1>2, <1>3, <1>4, <1>5, QuietStep

(* Steps of one job that change nothing but its state: tokenization ends, a *)
(* caller sets out, a waiter goes to sleep or wakes up.                     *)
LEMMA JobStepIInv ==
  ASSUME IInv, NEW j \in Jobs, NEW js \in JobStates,
         job' = [job EXCEPT ![j] = js],
         UNCHANGED <<asyncVars, poolVars, blocking>>,
         job[j] \notin {"tokSpawned", "spawned", "inferring", "returning"},
         js \notin {"spawned", "inferring", "returning"},
         j \in Requests => job[j] # "none"
                           /\ (job[j] \in {"checkout", "waiting"} <=> js \in {"checkout", "waiting"})
  PROVE  IInv'
<1> USE DEF IInv
<1>1. UNCHANGED <<task, session, idle, permits, queue, granted, blocking>>
  BY DEF asyncVars, poolVars
<1>2. TypeOK'  BY <1>1 DEF TypeOK, Size
<1>3. Protocol'
  <2>1. j \notin granted \cup Queued  BY QueuedRequests DEF Protocol, TypeOK
  <2>2. Queued' = Queued /\ Queued \subseteq Requests  BY <1>1, QueuedRequests
  <2>3. \A q \in (granted \cup Queued)' : task'[q] = "reserving" /\ job'[q] = "none"
    BY <1>1, <2>1, <2>2 DEF Protocol, TypeOK, Jobs
  <2>4. \A k \in Jobs : session'[k] # NoSession <=> job'[k] = "inferring"
    BY <1>1 DEF Protocol, TypeOK
  <2>5. \A q \in Requests : job[q] \in {"tokSpawned", "spawned"} => job'[q] = job[q]
    BY <1>1 DEF TypeOK, Jobs
  <2> QED  BY <1>1, <2>2, <2>3, <2>4, <2>5, BlockingKept DEF Protocol
<1>4. PermitHolders' = PermitHolders  BY <1>1 DEF PermitHolders, TypeOK, Jobs
<1>5. SessionHolders' = SessionHolders  BY <1>1 DEF SessionHolders
<1> QED  BY <1>1, <1>2, <1>3, <1>4, <1>5, QuietStep

\* A tokenizing job ends.
LEMMA TokenizedIInv ==
  ASSUME IInv, NEW r \in Requests, Tokenized(r)
  PROVE  IInv'
<1>1. PICK js \in {"tokenized", "failed", "none"} : job' = [job EXCEPT ![r] = js]
  BY DEF Tokenized
<1>2. job[r] = "tokenizing" /\ UNCHANGED <<asyncVars, poolVars, blocking>> /\ r \in Jobs
  BY DEF Tokenized, Jobs
<1> QED  BY <1>1, <1>2, JobStepIInv DEF JobStates

\* A direct caller goes for a session.
LEMMA CallScoreIInv ==
  ASSUME IInv, NEW c \in Callers, CallScore(c)
  PROVE  IInv'
<1>1. PICK js \in {"checkout", "finished"} : job' = [job EXCEPT ![c] = js]
  BY DEF CallScore
<1>2. /\ job[c] = "none" /\ UNCHANGED <<asyncVars, poolVars, blocking>>
      /\ c \in Jobs /\ c \notin Requests
  BY PoolAssumption DEF CallScore, Jobs
<1> QED  BY <1>1, <1>2, JobStepIInv DEF JobStates

\* A sleeper wakes without a reason.
LEMMA WakeSpuriouslyIInv ==
  ASSUME IInv, NEW j \in Jobs, WakeSpuriously(j)
  PROVE  IInv'
<1>1. /\ job[j] = "waiting" /\ job' = [job EXCEPT ![j] = "checkout"]
      /\ UNCHANGED <<asyncVars, poolVars, blocking>>
  BY DEF WakeSpuriously
<1> QED  BY <1>1, JobStepIInv DEF JobStates

\* A thread takes the oldest job.
LEMMA StartJobIInv ==
  ASSUME IInv, StartJob
  PROVE  IInv'
<1> USE DEF IInv
<1> DEFINE r == Head(blocking)
           js == IF job[r] = "tokSpawned" THEN "tokenizing" ELSE "checkout"
<1>1. /\ blocking # <<>> /\ blocking' = Tail(blocking)
      /\ job' = [job EXCEPT ![r] = js]
      /\ UNCHANGED <<task, session, idle, permits, queue, granted>>
  BY DEF StartJob, asyncVars, poolVars
<1>2. /\ r \in Requests /\ r \in ToSet(blocking) /\ r = blocking[1] /\ 1 \in DOMAIN blocking
      /\ blocking' \in Seq(Requests) /\ IsInjective(blocking')
      /\ \A i \in DOMAIN blocking' : i+1 \in DOMAIN blocking /\ blocking'[i] = blocking[i+1]
      /\ ToSet(blocking') = ToSet(blocking) \ {r}
  BY <1>1, TailInjectiveSeq DEF TypeOK, Protocol
<1>3. job[r] \in {"tokSpawned", "spawned"} /\ r \in Jobs  BY <1>2 DEF Protocol, Jobs
<1> HIDE DEF r
<1>4. TypeOK'  BY <1>1, <1>2, <1>3 DEF TypeOK, JobStates, Size
<1>5. Protocol'
  <2>1. r \notin granted \cup Queued  BY <1>3 DEF Protocol
  <2>2. Queued' = Queued /\ Queued \subseteq Requests  BY <1>1, QueuedRequests
  <2>3. \A q \in (granted \cup Queued)' : task'[q] = "reserving" /\ job'[q] = "none"
    BY <1>1, <1>3, <2>1, <2>2 DEF Protocol, TypeOK, Jobs
  <2>4. \A k \in Jobs : session'[k] # NoSession <=> job'[k] = "inferring"
    BY <1>1, <1>3 DEF Protocol, TypeOK
  <2>5. ASSUME NEW i \in DOMAIN blocking'
        PROVE  job'[blocking'[i]] \in {"tokSpawned", "spawned"}
    <3>1. i+1 \in DOMAIN blocking /\ blocking'[i] = blocking[i+1]  BY <1>2
    <3>2. job[blocking[i+1]] \in {"tokSpawned", "spawned"}  BY <3>1 DEF Protocol
    <3>3. blocking[i+1] \in Requests /\ blocking'[i] \in ToSet(blocking')
      BY <3>1, ElementOfSeq, LenProperties DEF TypeOK, ToSet
    <3>4. blocking'[i] # r  BY <1>2, <3>3
    <3> QED  BY <1>1, <3>1, <3>2, <3>3, <3>4 DEF TypeOK, Jobs
  <2> QED  BY <1>1, <1>2, <2>2, <2>3, <2>4, <2>5 DEF Protocol
<1>6. PermitHolders' = PermitHolders  BY <1>1, <1>2, <1>3 DEF PermitHolders, TypeOK, Jobs
<1>7. SessionHolders' = SessionHolders  BY <1>1 DEF SessionHolders
<1> QED  BY <1>1, <1>4, <1>5, <1>6, <1>7, QuietStep

(* A session goes from `idle` to the job that pops it.                     *)
LEMMA CheckoutIInv ==
  ASSUME IInv, NEW j \in Jobs, Checkout(j)
  PROVE  IInv'
<1> USE DEF IInv
<1>1. job[j] = "checkout" /\ UNCHANGED <<task, permits, queue, granted, blocking>>
  BY DEF Checkout, asyncVars
<1>2. CASE idle = {} /\ job' = [job EXCEPT ![j] = "waiting"] /\ UNCHANGED poolVars
  BY <1>1, <1>2, JobStepIInv DEF JobStates, asyncVars
<1>3. ASSUME NEW s \in idle, idle' = idle \ {s}, session' = [session EXCEPT ![j] = s],
             job' = [job EXCEPT ![j] = "inferring"]
      PROVE  IInv'
  <2>1. s \in Sessions /\ s # NoSession  BY PoolAssumption DEF TypeOK
  <2>2. session[j] = NoSession  BY <1>1 DEF Protocol
  <2>3. TypeOK'  BY <1>1, <1>3, <2>1 DEF TypeOK, JobStates, Size
  <2>4. Protocol'
    <3>1. j \notin granted \cup Queued  BY <1>1, QueuedRequests DEF Protocol, TypeOK
    <3>2. Queued' = Queued /\ Queued \subseteq Requests  BY <1>1, QueuedRequests
    <3>3. \A q \in (granted \cup Queued)' : task'[q] = "reserving" /\ job'[q] = "none"
      BY <1>1, <1>3, <3>1, <3>2 DEF Protocol, TypeOK, Jobs
    <3>4. \A k \in Jobs : session'[k] # NoSession <=> job'[k] = "inferring"
      BY <1>3, <2>1 DEF Protocol, TypeOK
    <3>5. \A q \in Requests : job[q] \in {"tokSpawned", "spawned"} => job'[q] = job[q]
      BY <1>1, <1>3 DEF TypeOK, Jobs
    <3> QED  BY <1>1, <3>2, <3>3, <3>4, <3>5, BlockingKept DEF Protocol
  <2>5. SessionHolders' = SessionHolders \cup {j} /\ j \notin SessionHolders
    BY <1>3, <2>1, <2>2 DEF SessionHolders, TypeOK
  <2>6. SessionsExclusive'
    <3>1. \A k \in SessionHolders : session'[k] = session[k] /\ session[k] # s
      BY <1>3, <2>5 DEF SessionsExclusive, SessionHolders, TypeOK
    <3>2. session'[j] = s  BY <1>3 DEF TypeOK
    <3> QED  BY <1>3, <2>5, <3>1, <3>2 DEF SessionsExclusive
  <2>7. PermitHolders' = PermitHolders  BY <1>1, <1>3 DEF PermitHolders, TypeOK, Jobs
  <2>8. Cardinality(idle') + Cardinality(SessionHolders') = Size
    <3>1. Cardinality(idle') = Cardinality(idle) - 1
      BY <1>3, FiniteHolders, FS_RemoveElement
    <3>2. Cardinality(SessionHolders') = Cardinality(SessionHolders) + 1
      BY <2>5, FiniteHolders, FS_AddElement
    <3> QED  BY <3>1, <3>2, FiniteHolders DEF SlotAccounting
  <2>9. SlotAccounting'  BY <1>1, <2>7, <2>8 DEF SlotAccounting, Size
  <2> QED  BY <2>3, <2>4, <2>6, <2>9
<1> QED  BY <1>2, <1>3 DEF Checkout

(* And back, when inference is over; one waiter, if any, wakes up.         *)
LEMMA ReturnSessionIInv ==
  ASSUME IInv, NEW j \in Jobs, ReturnSession(j)
  PROVE  IInv'
<1> USE DEF IInv
<1>1. /\ job[j] = "inferring" /\ idle' = idle \cup {session[j]}
      /\ session' = [session EXCEPT ![j] = NoSession]
      /\ UNCHANGED <<task, permits, queue, granted, blocking>>
  BY DEF ReturnSession, asyncVars
<1> DEFINE MovedOn ==
             /\ \A k \in Jobs \ {j} : job'[k] = job[k] \/ (job[k] = "waiting" /\ job'[k] = "checkout")
             /\ job'[j] = AfterReturn(j) /\ job' \in [Jobs -> JobStates]
<1>2. MovedOn
  <2>1. AfterReturn(j) \in JobStates /\ "checkout" \in JobStates  BY DEF AfterReturn, JobStates
  <2>2. CASE job' = [job EXCEPT ![j] = AfterReturn(j)]  BY <2>1, <2>2 DEF TypeOK
  <2>3. ASSUME NEW k \in Waiters, job' = [job EXCEPT ![j] = AfterReturn(j), ![k] = "checkout"]
        PROVE  MovedOn
    <3>1. k \in Jobs /\ k # j /\ job[k] = "waiting"  BY <1>1 DEF Waiters
    <3> QED  BY <2>1, <2>3, <3>1 DEF TypeOK
  <2> QED  BY <2>2, <2>3 DEF ReturnSession
<1>3. job'[j] = IF j \in Requests THEN "returning" ELSE "finished"  BY <1>2 DEF AfterReturn
<1>4. session[j] \in Sessions /\ session[j] # NoSession /\ j \in SessionHolders
  BY <1>1 DEF Protocol, TypeOK, SessionHolders
<1>5. TypeOK'  BY <1>1, <1>2, <1>4 DEF TypeOK, Size
<1>6. Protocol'
  <2>1. Queued' = Queued /\ Queued \subseteq Requests  BY <1>1, QueuedRequests
  <2>2. \A q \in (granted \cup Queued)' : task'[q] = "reserving" /\ job'[q] = "none"
    BY <1>1, <1>2, <2>1 DEF Protocol, TypeOK, Jobs
  <2>3. \A k \in Jobs : session'[k] # NoSession <=> job'[k] = "inferring"
    BY <1>1, <1>2, <1>3 DEF Protocol, TypeOK
  <2>4. \A q \in Requests : job[q] \in {"tokSpawned", "spawned"} => job'[q] = job[q]
    BY <1>1, <1>2 DEF TypeOK, Jobs
  <2> QED  BY <1>1, <2>1, <2>2, <2>3, <2>4, BlockingKept DEF Protocol
<1>7. SessionHolders' = SessionHolders \ {j}  BY <1>1, <1>4 DEF SessionHolders, TypeOK
<1>8. SessionsExclusive'
  <2>1. \A k \in SessionHolders \ {j} :
          session'[k] = session[k] /\ session[k] # session[j] /\ session[k] \notin idle
    BY <1>1, <1>4 DEF SessionsExclusive, SessionHolders, TypeOK
  <2> QED  BY <1>1, <1>7, <2>1 DEF SessionsExclusive
<1>9. PermitHolders' = PermitHolders
  <2>1. \A q \in Requests :
          job'[q] \in {"spawned", "checkout", "waiting", "inferring", "returning"}
            <=> job[q] \in {"spawned", "checkout", "waiting", "inferring", "returning"}
    BY <1>1, <1>2, <1>3 DEF Jobs
  <2> QED  BY <1>1, <2>1 DEF PermitHolders
<1>10. Cardinality(idle') + Cardinality(SessionHolders') = Size
  <2>1. session[j] \notin idle  BY <1>4 DEF SessionsExclusive
  <2>2. Cardinality(idle') = Cardinality(idle) + 1
    BY <1>1, <2>1, FiniteHolders, FS_AddElement
  <2>3. Cardinality(SessionHolders') = Cardinality(SessionHolders) - 1
    BY <1>4, <1>7, FiniteHolders, FS_RemoveElement
  <2> QED  BY <2>2, <2>3, FiniteHolders DEF SlotAccounting
<1>11. SlotAccounting'  BY <1>1, <1>9, <1>10 DEF SlotAccounting, Size
<1> QED  BY <1>5, <1>6, <1>8, <1>11

-----------------------------------------------------------------------------
(* The steps that move permits.                                            *)

(* A free permit is taken, or, when there is none, a place in line.        *)
LEMMA ReserveIInv ==
  ASSUME IInv, NEW r \in Requests, Reserve(r)
  PROVE  IInv'
<1> USE DEF IInv
<1>1. /\ task[r] = "tokenizing" /\ job[r] = "tokenized" /\ r \in Jobs
      /\ UNCHANGED <<session, idle, granted>>
  BY DEF Reserve, poolVars, Jobs
<1>2. r \notin granted \cup Queued /\ r \notin PermitHolders
  BY <1>1 DEF Protocol, PermitHolders
<1>3. permits \in 0..Size /\ Size \in Nat  BY FiniteHolders DEF TypeOK
<1>4. CASE permits > 0 /\ permits' = permits - 1 /\ SpawnScoring(r) /\ UNCHANGED queue
  <2>1. /\ task' = [task EXCEPT ![r] = "scoring"] /\ job' = [job EXCEPT ![r] = "spawned"]
        /\ blocking' = Append(blocking, r)
    BY <1>4 DEF SpawnScoring
  <2>2. /\ blocking' \in Seq(Requests) /\ IsInjective(blocking')
        /\ \A i \in DOMAIN blocking' : job'[blocking'[i]] \in {"tokSpawned", "spawned"}
    BY <1>1, <2>1, SpawnFacts
  <2>3. permits' \in 0..Size  BY <1>3, <1>4
  <2>4. TypeOK'  BY <1>1, <1>4, <2>1, <2>2, <2>3 DEF TypeOK, TaskStates, JobStates, Size
  <2>5. Protocol'
    <3>1. Queued' = Queued /\ Queued \subseteq Requests  BY <1>4, QueuedRequests
    <3>2. \A q \in (granted \cup Queued)' : task'[q] = "reserving" /\ job'[q] = "none"
      BY <1>1, <1>2, <2>1, <3>1 DEF Protocol, TypeOK, Jobs
    <3>3. \A k \in Jobs : session'[k] # NoSession <=> job'[k] = "inferring"
      BY <1>1, <2>1 DEF Protocol, TypeOK
    <3> QED  BY <1>1, <1>4, <2>2, <3>1, <3>2, <3>3 DEF Protocol
  <2>6. PermitHolders' = PermitHolders \cup {r}
    BY <1>1, <2>1 DEF PermitHolders, TypeOK, Jobs
  <2>7. Cardinality(PermitHolders') = Cardinality(PermitHolders) + 1
    BY <1>2, <2>6, FiniteHolders, FS_AddElement
  <2>8. SessionHolders' = SessionHolders  BY <1>1 DEF SessionHolders
  <2>9. SlotAccounting'
    BY <1>1, <1>3, <1>4, <2>7, <2>8, FiniteHolders DEF SlotAccounting, Size
  <2>10. SessionsExclusive'  BY <1>1, <2>8 DEF SessionsExclusive
  <2> QED  BY <2>4, <2>5, <2>9, <2>10
<1>5. CASE /\ permits = 0 /\ queue' = Append(queue, r)
           /\ task' = [task EXCEPT ![r] = "reserving"] /\ job' = [job EXCEPT ![r] = "none"]
           /\ UNCHANGED <<permits, blocking>>
  <2>1. /\ queue' \in Seq(Requests) /\ IsInjective(queue') /\ Queued' = Queued \cup {r}
    BY <1>2, <1>5, AppendInjectiveSeq DEF TypeOK, Protocol, Queued
  <2>2. TypeOK'  BY <1>1, <1>5, <2>1 DEF TypeOK, TaskStates, JobStates, Size
  <2>3. Protocol'
    <3>1. \A q \in (granted \cup Queued)' : task'[q] = "reserving" /\ job'[q] = "none"
      BY <1>1, <1>5, <2>1, QueuedRequests DEF Protocol, TypeOK, Jobs
    <3>2. \A k \in Jobs : session'[k] # NoSession <=> job'[k] = "inferring"
      BY <1>1, <1>5 DEF Protocol, TypeOK
    <3>3. \A q \in Requests : job[q] \in {"tokSpawned", "spawned"} => job'[q] = job[q]
      BY <1>1, <1>5 DEF TypeOK, Jobs
    <3>4. (granted \cap Queued)' = {}  BY <1>1, <1>2, <2>1 DEF Protocol
    <3> QED  BY <1>1, <1>5, <2>1, <3>1, <3>2, <3>3, <3>4, BlockingKept DEF Protocol
  <2>4. PermitHolders' = PermitHolders  BY <1>1, <1>5 DEF PermitHolders, TypeOK, Jobs
  <2>5. SessionHolders' = SessionHolders  BY <1>1 DEF SessionHolders
  <2> QED  BY <1>1, <1>5, <2>2, <2>3, <2>4, <2>5, QuietStep
<1> QED  BY <1>4, <1>5 DEF Reserve

(* A permit changes from assigned to used: the same holder.                 *)
LEMMA GrantedIInv ==
  ASSUME IInv, NEW r \in Requests, Granted(r)
  PROVE  IInv'
<1> USE DEF IInv
<1>1. /\ r \in granted /\ granted' = granted \ {r} /\ r \in Jobs
      /\ task' = [task EXCEPT ![r] = "scoring"] /\ job' = [job EXCEPT ![r] = "spawned"]
      /\ blocking' = Append(blocking, r)
      /\ UNCHANGED <<session, idle, permits, queue>>
  BY DEF Granted, SpawnScoring, poolVars, Jobs
<1>2. job[r] = "none"  BY <1>1 DEF Protocol
<1>3. /\ blocking' \in Seq(Requests) /\ IsInjective(blocking')
      /\ \A i \in DOMAIN blocking' : job'[blocking'[i]] \in {"tokSpawned", "spawned"}
  BY <1>1, <1>2, SpawnFacts
<1>4. TypeOK'  BY <1>1, <1>3 DEF TypeOK, TaskStates, JobStates, Size
<1>5. Protocol'
  <2>1. Queued' = Queued /\ Queued \subseteq Requests  BY <1>1, QueuedRequests
  <2>2. r \notin Queued  BY <1>1 DEF Protocol
  <2>3. \A q \in (granted \cup Queued)' : task'[q] = "reserving" /\ job'[q] = "none"
    BY <1>1, <2>1, <2>2 DEF Protocol, TypeOK, Jobs
  <2>4. \A k \in Jobs : session'[k] # NoSession <=> job'[k] = "inferring"
    BY <1>1, <1>2 DEF Protocol, TypeOK
  <2> QED  BY <1>1, <1>3, <2>1, <2>3, <2>4 DEF Protocol
<1>6. PermitHolders' = PermitHolders  BY <1>1, <1>2 DEF PermitHolders, TypeOK, Jobs
<1>7. SessionHolders' = SessionHolders  BY <1>1 DEF SessionHolders
<1> QED  BY <1>1, <1>4, <1>5, <1>6, <1>7, QuietStep

(* A permit is released by request r, whose job does not need one any more. *)
LEMMA ReleaseAccounting ==
  ASSUME IInv, NEW r \in PermitHolders, r \notin Queued, Release(r),
         job' \in [Jobs -> JobStates],
         job'[r] \in {"none", "finished"},
         \A q \in Requests \ {r} : job'[q] = job[q]
  PROVE  /\ permits' \in 0..Size
         /\ permits' + Cardinality(PermitHolders') = Size
<1> USE DEF IInv
<1>1. r \in Requests  BY DEF PermitHolders, TypeOK
<1>2. \A q \in Queued : q \notin PermitHolders /\ q \in Requests
  BY QueuedRequests DEF Protocol, PermitHolders
<1>3. PermitHolders' =
        granted' \cup ({q \in Requests : job[q] \in
          {"spawned", "checkout", "waiting", "inferring", "returning"}} \ {r})
  BY <1>1 DEF PermitHolders
<1>4. Cardinality(PermitHolders \ {r}) = Cardinality(PermitHolders) - 1
      /\ IsFiniteSet(PermitHolders \ {r})
  BY FiniteHolders, FS_RemoveElement
<1>5. permits \in 0..Size /\ Size \in Nat  BY FiniteHolders DEF TypeOK
<1>6. CASE granted' = granted \ {r} /\ permits' = permits + 1
  <2>1. PermitHolders' = PermitHolders \ {r}  BY <1>3, <1>6 DEF PermitHolders
  <2>2. Cardinality(PermitHolders \ {r}) \in Nat  BY <1>4, FS_CardinalityType
  <2> QED  BY <1>4, <1>5, <1>6, <2>1, <2>2, FiniteHolders DEF SlotAccounting
<1>7. ASSUME permits' = permits, NEW h \in Queued, granted' = (granted \ {r}) \cup {h}
      PROVE  /\ permits' \in 0..Size
             /\ permits' + Cardinality(PermitHolders') = Size
  <2>1. PermitHolders' = (PermitHolders \ {r}) \cup {h}  BY <1>3, <1>7 DEF PermitHolders
  <2>2. h \notin PermitHolders \ {r}  BY <1>2
  <2>3. Cardinality((PermitHolders \ {r}) \cup {h}) = Cardinality(PermitHolders \ {r}) + 1
    BY <1>4, <2>2, FS_AddElement
  <2>4. Cardinality(PermitHolders) \in Nat  BY FiniteHolders, FS_CardinalityType
  <2>5. Cardinality(PermitHolders') = Cardinality(PermitHolders)  BY <1>4, <2>1, <2>3, <2>4
  <2> QED  BY <1>5, <1>7, <2>5 DEF SlotAccounting
<1> QED  BY <1>1, <1>6, <1>7, ReleaseFacts

(* The job is over: its permit goes on.                                    *)
LEMMA DropPermitIInv ==
  ASSUME IInv, NEW r \in Requests, DropPermit(r)
  PROVE  IInv'
<1> USE DEF IInv
<1>1. PICK js \in {"none", "finished"} : job' = [job EXCEPT ![r] = js]  BY DEF DropPermit
<1>2. /\ job[r] = "returning" /\ Release(r) /\ r \in Jobs
      /\ UNCHANGED <<task, session, idle, blocking>>
  BY DEF DropPermit, poolVars, Jobs
<1>3. r \in PermitHolders /\ r \notin granted \cup Queued
  BY <1>2 DEF PermitHolders, Protocol
<1>4. /\ queue' \in Seq(Requests) /\ IsInjective(queue') /\ granted' \in SUBSET Requests
      /\ granted' \cap Queued' = {}
      /\ granted' \cup Queued' = granted \cup Queued
  BY <1>2, <1>3, ReleaseFacts DEF Queued
<1>5. job' \in [Jobs -> JobStates] /\ job'[r] = js /\ \A q \in Jobs \ {r} : job'[q] = job[q]
  BY <1>1, <1>2 DEF TypeOK, JobStates
<1>6. permits' \in 0..Size /\ permits' + Cardinality(PermitHolders') = Size
  BY <1>2, <1>3, <1>5, ReleaseAccounting DEF Jobs
<1>7. TypeOK'  BY <1>2, <1>4, <1>5, <1>6 DEF TypeOK, Size
<1>8. Protocol'
  <2>1. \A q \in (granted \cup Queued)' : task'[q] = "reserving" /\ job'[q] = "none"
    BY <1>2, <1>3, <1>4, <1>5, QueuedRequests DEF Protocol, TypeOK, Jobs
  <2>2. \A k \in Jobs : session'[k] # NoSession <=> job'[k] = "inferring"
    BY <1>2, <1>5 DEF Protocol
  <2>3. \A q \in Requests : job[q] \in {"tokSpawned", "spawned"} => job'[q] = job[q]
    BY <1>2, <1>5 DEF Jobs
  <2> QED  BY <1>2, <1>4, <2>1, <2>2, <2>3, BlockingKept DEF Protocol
<1>9. SessionHolders' = SessionHolders  BY <1>2 DEF SessionHolders
<1>10. SlotAccounting'  BY <1>2, <1>6, <1>9 DEF SlotAccounting, Size
<1>11. SessionsExclusive'  BY <1>2, <1>9 DEF SessionsExclusive
<1> QED  BY <1>7, <1>8, <1>10, <1>11

(* A dropped future: an assigned permit goes on, a place in line is freed,  *)
(* and a job keeps what it holds.                                          *)
LEMMA CancelIInv ==
  ASSUME IInv, NEW r \in Requests, Cancel(r)
  PROVE  IInv'
<1> USE DEF IInv
<1>1. /\ task' = [task EXCEPT ![r] = "away"] /\ job' = [job EXCEPT ![r] = Detached(job[r])]
      /\ r \in Jobs /\ UNCHANGED <<session, idle, blocking>>
  BY DEF Cancel, poolVars, Jobs
<1>2. /\ job' \in [Jobs -> JobStates] /\ \A q \in Jobs \ {r} : job'[q] = job[q]
      /\ job'[r] = Detached(job[r])
  <2>1. Detached(job[r]) \in JobStates  BY <1>1 DEF Detached, TypeOK, JobStates
  <2> QED  BY <1>1, <2>1 DEF TypeOK
<1>3. SessionHolders' = SessionHolders  BY <1>1 DEF SessionHolders
<1>4. SessionsExclusive'  BY <1>1, <1>3 DEF SessionsExclusive
<1>5. /\ \A k \in Jobs : session'[k] # NoSession <=> job'[k] = "inferring"
      /\ \A q \in Requests : job[q] \in {"tokSpawned", "spawned"} => job'[q] = job[q]
  BY <1>1, <1>2 DEF Protocol, Detached, Jobs
<1>6. ASSUME /\ queue' \in Seq(Requests) /\ IsInjective(queue') /\ granted' \in SUBSET Requests
             /\ granted' \cap Queued' = {}
             /\ granted' \cup Queued' \subseteq (granted \cup Queued) \ {r},
             permits' \in 0..Size, permits' + Cardinality(PermitHolders') = Size
      PROVE  IInv'
  <2>1. TypeOK'  BY <1>1, <1>2, <1>6 DEF TypeOK, TaskStates, Size
  <2>2. \A q \in (granted \cup Queued)' : task'[q] = "reserving" /\ job'[q] = "none"
    BY <1>1, <1>2, <1>6, QueuedRequests DEF Protocol, TypeOK, Jobs
  <2>3. Protocol'  BY <1>1, <1>5, <1>6, <2>2, BlockingKept DEF Protocol
  <2>4. SlotAccounting'  BY <1>1, <1>3, <1>6 DEF SlotAccounting, Size
  <2> QED  BY <1>4, <2>1, <2>3, <2>4
<1>7. permits \in 0..Size  BY DEF TypeOK
<1>8. CASE r \in granted /\ Release(r)
  <2>1. r \in PermitHolders /\ r \notin Queued /\ job[r] = "none"
    BY <1>8 DEF PermitHolders, Protocol
  <2>2. /\ queue' \in Seq(Requests) /\ IsInjective(queue') /\ granted' \in SUBSET Requests
        /\ granted' \cap Queued' = {}
        /\ granted' \cup Queued' = (granted \cup Queued) \ {r}
    BY <1>8, <2>1, ReleaseFacts DEF Queued
  <2>3. job'[r] = "none"  BY <1>2, <2>1 DEF Detached
  <2>4. permits' \in 0..Size /\ permits' + Cardinality(PermitHolders') = Size
    BY <1>2, <1>8, <2>1, <2>3, ReleaseAccounting DEF Jobs
  <2> QED  BY <1>6, <2>2, <2>4
<1>9. ASSUME UNCHANGED <<permits, granted>>, r \notin granted
      PROVE  permits' \in 0..Size /\ permits' + Cardinality(PermitHolders') = Size
  <2>1. \A q \in Requests :
          job'[q] \in {"spawned", "checkout", "waiting", "inferring", "returning"}
            <=> job[q] \in {"spawned", "checkout", "waiting", "inferring", "returning"}
    BY <1>2 DEF Detached, Jobs
  <2>2. PermitHolders' = PermitHolders  BY <1>9, <2>1 DEF PermitHolders
  <2> QED  BY <1>7, <1>9, <2>2 DEF SlotAccounting
<1>10. CASE LeaveLine(r)
  <2>1. PICK i \in DOMAIN queue : queue[i] = r /\ queue' = RemoveAt(queue, i)
    BY <1>10 DEF LeaveLine
  <2>2. queue' \in Seq(Requests) /\ IsInjective(queue') /\ Queued' = Queued \ {r}
    BY <2>1, RemoveInjectiveSeq DEF TypeOK, Protocol, Queued
  <2>3. UNCHANGED <<permits, granted>> /\ r \notin granted
    BY <1>10, <2>1 DEF LeaveLine, Protocol, Queued, ToSet
  <2>4. granted \cap (Queued \ {r}) = {} /\ granted \in SUBSET Requests
    BY DEF Protocol, TypeOK
  <2> QED  BY <1>6, <1>9, <2>2, <2>3, <2>4
<1>11. CASE r \notin granted \cup Queued /\ UNCHANGED <<permits, queue, granted>>
  <2>1. Queued' = Queued  BY <1>11, QueuedRequests
  <2> QED  BY <1>6, <1>9, <1>11, <2>1 DEF TypeOK, Protocol
<1> QED  BY <1>8, <1>10, <1>11 DEF Cancel

-----------------------------------------------------------------------------
\* Every step of the pool keeps the invariant.
LEMMA NextIInv == IInv /\ [Next]_vars => IInv'
<1> SUFFICES ASSUME IInv, [Next]_vars PROVE IInv'  OBVIOUS
<1>1. ASSUME NEW r \in Requests,
             \/ SpawnTokenize(r) \/ Reject(r) \/ Reserve(r) \/ Granted(r)
             \/ Collect(r) \/ Cancel(r) \/ Tokenized(r) \/ DropPermit(r)
      PROVE  IInv'
  BY <1>1, SpawnTokenizeIInv, ReadResultIInv, ReserveIInv, GrantedIInv,
     CancelIInv, TokenizedIInv, DropPermitIInv
<1>2. CASE StartJob  BY <1>2, StartJobIInv
<1>3. ASSUME NEW c \in Callers, CallScore(c) PROVE IInv'  BY <1>3, CallScoreIInv
<1>4. ASSUME NEW j \in Jobs, Checkout(j) \/ WakeSpuriously(j) \/ ReturnSession(j)
      PROVE  IInv'
  BY <1>4, CheckoutIInv, WakeSpuriouslyIInv, ReturnSessionIInv
<1>5. CASE UNCHANGED vars
  <2>1. UNCHANGED <<task, job, session, idle, permits, queue, granted, blocking>>
    BY <1>5 DEF vars
  <2>2. PermitHolders' = PermitHolders /\ SessionHolders' = SessionHolders /\ Queued' = Queued
    BY <2>1, QueuedRequests DEF PermitHolders, SessionHolders, IInv
  <2> QED  BY <2>1, <2>2, QuietStep DEF IInv, TypeOK, Protocol, Size
<1> QED  BY <1>1, <1>2, <1>3, <1>4, <1>5 DEF Next

(* The pool's bookkeeping is right for ever, whatever is cancelled, timed   *)
(* out or panicking, and whoever uses `score` at the same time.             *)
THEOREM PoolInvariant == Spec => []IInv
BY InitIInv, NextIInv, PTL DEF Spec

\* The pool's variables keep their types.
THEOREM PoolTypeOK == Spec => []TypeOK
<1>1. IInv => TypeOK  BY DEF IInv
<1> QED  BY <1>1, PoolInvariant, PTL

(* No permit and no session is leaked or counted twice.                     *)
THEOREM PoolSlotAccounting == Spec => []SlotAccounting
<1>1. IInv => SlotAccounting  BY DEF IInv
<1> QED  BY <1>1, PoolInvariant, PTL

(* No session runs two inferences at once.                                  *)
THEOREM PoolSessionsExclusive == Spec => []SessionsExclusive
<1>1. IInv => SessionsExclusive  BY DEF IInv
<1> QED  BY <1>1, PoolInvariant, PTL

-----------------------------------------------------------------------------
(* Lost wakeups.                                                            *)

(* The threads awake and about to take a session.                           *)
Awake == {j \in Jobs : job[j] = "checkout"}

\* The threads that are awake can be counted.
LEMMA FiniteAwake ==
  IsFiniteSet(Awake) /\ Cardinality(Awake) \in Nat
<1>1. IsFiniteSet(Jobs)  BY PoolAssumption, FS_Union DEF Jobs
<1>2. IsFiniteSet(Awake)  BY <1>1, FS_Subset DEF Awake
<1> QED  BY <1>2, FS_CardinalityType

\* The property, in terms of those threads.
LEMMA NoLostWakeupByAwake ==
  NoLostWakeup <=> (Waiters # {} => Cardinality(idle) <= Cardinality(Awake))
BY DEF NoLostWakeup, Awake

(* A step that takes no session, wakes whom it likes and puts nobody to     *)
(* sleep.                                                                   *)
LEMMA AwakeStep ==
  ASSUME IInv, NoLostWakeup, UNCHANGED idle, Waiters' \subseteq Waiters,
         \A j \in Jobs : job[j] = "checkout" => job'[j] = "checkout"
  PROVE  NoLostWakeup'
<1>1. Awake \subseteq Awake'  BY DEF Awake
<1>2. IsFiniteSet(Awake')
  <2>1. IsFiniteSet(Jobs)  BY PoolAssumption, FS_Union DEF Jobs
  <2> QED  BY <2>1, FS_Subset DEF Awake
<1>3. Cardinality(Awake) <= Cardinality(Awake') /\ Cardinality(Awake') \in Nat
  BY <1>1, <1>2, FS_Subset, FS_CardinalityType
<1>4. Cardinality(idle) \in Nat  BY FiniteHolders DEF IInv
<1>5. Waiters' # {} => Cardinality(idle') <= Cardinality(Awake')
  BY <1>3, <1>4, FiniteAwake, NoLostWakeupByAwake
<1> QED  BY <1>5 DEF NoLostWakeup, Awake

\* A checkout takes a session and a thread that was awake.
LEMMA CheckoutNoLostWakeup ==
  ASSUME IInv, NoLostWakeup, NEW j \in Jobs, Checkout(j)
  PROVE  NoLostWakeup'
<1>0. job \in [Jobs -> JobStates] /\ j \in Awake  BY DEF IInv, TypeOK, Checkout, Awake
<1>1. CASE idle = {} /\ UNCHANGED poolVars
  <2>1. idle' = {} /\ Cardinality(idle') = 0  BY <1>1, FS_EmptySet DEF poolVars
  <2>2. IsFiniteSet({k \in Jobs : job'[k] = "checkout"})
    <3>1. IsFiniteSet(Jobs)  BY PoolAssumption, FS_Union DEF Jobs
    <3> QED  BY <3>1, FS_Subset
  <2>3. Cardinality({k \in Jobs : job'[k] = "checkout"}) \in Nat  BY <2>2, FS_CardinalityType
  <2> QED  BY <2>1, <2>3 DEF NoLostWakeup
<1>2. ASSUME NEW s \in idle, idle' = idle \ {s}, job' = [job EXCEPT ![j] = "inferring"]
      PROVE  NoLostWakeup'
  <2>1. Waiters' = Waiters \ {j}  BY <1>0, <1>2 DEF Waiters
  <2>2. Awake' = Awake \ {j}  BY <1>0, <1>2 DEF Awake
  <2>3. Cardinality(Awake') = Cardinality(Awake) - 1
    BY <1>0, <2>2, FiniteAwake, FS_RemoveElement
  <2>4. Cardinality(idle') = Cardinality(idle) - 1
    BY <1>2, FiniteHolders, FS_RemoveElement DEF IInv
  <2>5. Cardinality(idle) \in Nat /\ Cardinality(Awake) \in Nat
    BY FiniteHolders, FiniteAwake DEF IInv
  <2>6. Waiters' # {} => Cardinality(idle') <= Cardinality(Awake')
    BY <2>1, <2>3, <2>4, <2>5, NoLostWakeupByAwake
  <2> QED  BY <2>6 DEF NoLostWakeup, Awake
<1> QED  BY <1>1, <1>2 DEF Checkout

(* The session that comes back takes a sleeper out of its sleep with it.    *)
LEMMA ReturnNoLostWakeup ==
  ASSUME IInv, NoLostWakeup, NEW j \in Jobs, ReturnSession(j)
  PROVE  NoLostWakeup'
<1>0. job \in [Jobs -> JobStates] /\ job[j] = "inferring" /\ idle' = idle \cup {session[j]}
  BY DEF IInv, TypeOK, ReturnSession
<1>1. CASE Waiters = {} /\ job' = [job EXCEPT ![j] = AfterReturn(j)]
  <2>1. Waiters' = {}  BY <1>0, <1>1 DEF Waiters, AfterReturn
  <2> QED  BY <2>1 DEF NoLostWakeup
<1>2. ASSUME NEW k \in Waiters, job' = [job EXCEPT ![j] = AfterReturn(j), ![k] = "checkout"]
      PROVE  NoLostWakeup'
  <2>1. k \in Jobs /\ job[k] = "waiting" /\ k # j /\ k \notin Awake
    BY <1>0 DEF Waiters, Awake
  <2>2. Awake' = Awake \cup {k}  BY <1>0, <1>2, <2>1 DEF AfterReturn, Awake
  <2>3. Cardinality(Awake') = Cardinality(Awake) + 1
    BY <2>1, <2>2, FiniteAwake, FS_AddElement
  <2>4. session[j] \notin idle
    BY <1>0 DEF IInv, Protocol, SessionHolders, SessionsExclusive
  <2>5. Cardinality(idle') = Cardinality(idle) + 1
    BY <1>0, <2>4, FiniteHolders, FS_AddElement DEF IInv
  <2>6. Cardinality(idle) \in Nat /\ Cardinality(Awake) \in Nat
    BY FiniteHolders, FiniteAwake DEF IInv
  <2>7. Cardinality(idle) <= Cardinality(Awake)  BY <1>2, NoLostWakeupByAwake
  <2>8. Waiters' # {} => Cardinality(idle') <= Cardinality(Awake')
    BY <2>3, <2>5, <2>6, <2>7
  <2> QED  BY <2>8 DEF NoLostWakeup, Awake
<1> QED  BY <1>1, <1>2 DEF ReturnSession

\* No step leaves a sleeper behind.
LEMMA NextNoLostWakeup ==
  ASSUME IInv, NoLostWakeup, [Next]_vars
  PROVE  NoLostWakeup'
<1>0. job \in [Jobs -> JobStates] /\ Requests \subseteq Jobs /\ Callers \subseteq Jobs
  BY DEF IInv, TypeOK, Jobs
<1>1. ASSUME NEW j \in Jobs, NEW js, js # "waiting", job[j] # "checkout",
             job' = [job EXCEPT ![j] = js], UNCHANGED idle
      PROVE  NoLostWakeup'
  <2>1. Waiters' \subseteq Waiters  BY <1>0, <1>1 DEF Waiters
  <2>2. \A k \in Jobs : job[k] = "checkout" => job'[k] = "checkout"  BY <1>0, <1>1
  <2> QED  BY <1>1, <2>1, <2>2, AwakeStep
<1>2. ASSUME UNCHANGED <<job, idle>> PROVE NoLostWakeup'
  BY <1>2, AwakeStep DEF Waiters
<1>3. ASSUME NEW r \in Requests, Cancel(r) PROVE NoLostWakeup'
  <2>1. job' = [job EXCEPT ![r] = Detached(job[r])] /\ UNCHANGED idle
    BY <1>3 DEF Cancel, poolVars
  <2>2. CASE job[r] \in {"tokenized", "failed", "finished"}
    BY <1>0, <1>1, <2>1, <2>2 DEF Detached
  <2>3. CASE job[r] \notin {"tokenized", "failed", "finished"}
    BY <1>0, <1>2, <2>1, <2>3 DEF Detached
  <2> QED  BY <2>2, <2>3
<1>4. ASSUME NEW r \in Requests,
             \/ SpawnTokenize(r) \/ Reject(r) \/ Reserve(r)
             \/ Collect(r) \/ Tokenized(r) \/ DropPermit(r)
      PROVE  NoLostWakeup'
  <2>1. PICK js \in {"tokSpawned", "none", "spawned", "tokenized", "failed", "finished"} :
          job' = [job EXCEPT ![r] = js]
    BY <1>4 DEF SpawnTokenize, Reject, Reserve, SpawnScoring, Collect, Tokenized, DropPermit
  <2>2. job[r] # "checkout" /\ UNCHANGED idle
    BY <1>4 DEF SpawnTokenize, Reject, Reserve, Collect, Tokenized, DropPermit, poolVars
  <2> QED  BY <1>0, <1>1, <2>1, <2>2
<1>5. ASSUME NEW r \in Requests, Granted(r) PROVE NoLostWakeup'
  <2>1. job[r] = "none"  BY <1>5 DEF Granted, IInv, Protocol
  <2> QED  BY <1>0, <1>1, <1>5, <2>1 DEF Granted, SpawnScoring, poolVars
<1>6. CASE StartJob
  <2> DEFINE r == Head(blocking)
             js == IF job[r] = "tokSpawned" THEN "tokenizing" ELSE "checkout"
  <2>1. job' = [job EXCEPT ![r] = js] /\ UNCHANGED idle  BY <1>6 DEF StartJob, poolVars
  <2>2. r \in Requests /\ r = blocking[1] /\ 1 \in DOMAIN blocking
    BY <1>6, TailInjectiveSeq DEF StartJob, IInv, TypeOK, Protocol
  <2>3. job[r] \in {"tokSpawned", "spawned"}  BY <2>2 DEF IInv, Protocol
  <2> HIDE DEF r
  <2> QED  BY <1>0, <1>1, <2>1, <2>2, <2>3
<1>7. ASSUME NEW c \in Callers, CallScore(c) PROVE NoLostWakeup'
  BY <1>0, <1>1, <1>7 DEF CallScore, poolVars
<1>8. ASSUME NEW j \in Jobs, WakeSpuriously(j) PROVE NoLostWakeup'
  BY <1>1, <1>8 DEF WakeSpuriously, poolVars
<1>9. CASE UNCHANGED vars  BY <1>2, <1>9 DEF vars
<1> QED
  BY <1>3, <1>4, <1>5, <1>6, <1>7, <1>8, <1>9, CheckoutNoLostWakeup, ReturnNoLostWakeup DEF Next

(* No session lies idle with everybody who could take it asleep, whatever   *)
(* direct callers and requests do.                                          *)
THEOREM PoolNoLostWakeup == Spec => []NoLostWakeup
<1>1. Init => NoLostWakeup
  <2> SUFFICES ASSUME Init PROVE NoLostWakeup  OBVIOUS
  <2>1. Waiters = {}  BY DEF Init, Waiters
  <2> QED  BY <2>1 DEF NoLostWakeup
<1> QED  BY <1>1, NextNoLostWakeup, PoolInvariant, PTL DEF Spec

(* A scoring job that gets to `checkout` has a permit but no session yet,   *)
(* so fewer sessions are out than permits: when all users of the pool take  *)
(* a permit, one is idle.                                                   *)
LEMMA PermitLeavesASession ==
  ASSUME Callers = {}, IInv
  PROVE  PermitMeansIdle
<1> SUFFICES ASSUME NEW r \in Requests, job[r] = "checkout"
             PROVE  idle # {}
  BY DEF PermitMeansIdle
<1>1. Jobs = Requests /\ r \in PermitHolders /\ r \notin SessionHolders
  BY DEF Jobs, PermitHolders, SessionHolders, IInv, Protocol
<1>2. SessionHolders \subseteq PermitHolders \ {r}
  BY <1>1 DEF SessionHolders, PermitHolders, IInv, Protocol
<1>3. /\ IsFiniteSet(PermitHolders \ {r})
      /\ Cardinality(PermitHolders \ {r}) = Cardinality(PermitHolders) - 1
  BY <1>1, FiniteHolders, FS_RemoveElement DEF IInv
<1>4. Cardinality(SessionHolders) <= Cardinality(PermitHolders) - 1
  BY <1>2, <1>3, FS_Subset
<1>5. permits >= 0 /\ permits \in Nat  BY FiniteHolders DEF IInv, TypeOK
<1>6. Cardinality(idle) >= 1
  BY <1>4, <1>5, FiniteHolders DEF IInv, SlotAccounting
<1> QED  BY <1>6, FS_EmptySet

(* The comment on `checkout`: with a permit in hand, a session is idle.     *)
THEOREM PermitMeansIdleWithoutCallers ==
  ASSUME Callers = {}
  PROVE  Spec => []PermitMeansIdle
<1>1. IInv => PermitMeansIdle  BY PermitLeavesASession
<1> QED  BY <1>1, PoolInvariant, PTL

-----------------------------------------------------------------------------
(* A permit is put back only when nobody is in line, and a request gets in  *)
(* line only when there is none.                                           *)
LEMMA ReleaseWorkConserving ==
  ASSUME WorkConserving, NEW r, Release(r)
  PROVE  WorkConserving'
BY DEF WorkConserving, Release

\* Leaving the line keeps the pool busy.
LEMMA LeaveLineWorkConserving ==
  ASSUME TypeOK, WorkConserving, NEW r, LeaveLine(r)
  PROVE  WorkConserving'
<1>1. PICK i \in DOMAIN queue : TRUE  BY DEF LeaveLine
<1>2. queue # <<>>  BY <1>1 DEF TypeOK
<1> QED  BY <1>2 DEF LeaveLine, WorkConserving

\* No step makes anybody wait while a permit is free.
LEMMA NextWorkConserving ==
  ASSUME TypeOK, WorkConserving, [Next]_vars
  PROVE  WorkConserving'
<1>1. ASSUME UNCHANGED <<permits, queue>> PROVE WorkConserving'
  BY <1>1 DEF WorkConserving
<1>2. ASSUME NEW r \in Requests, Reserve(r) PROVE WorkConserving'
  BY <1>2 DEF Reserve, WorkConserving, TypeOK
<1>3. ASSUME NEW r \in Requests, Cancel(r) PROVE WorkConserving'
  BY <1>1, <1>3, ReleaseWorkConserving, LeaveLineWorkConserving DEF Cancel
<1>4. ASSUME NEW r \in Requests, DropPermit(r) PROVE WorkConserving'
  BY <1>4, ReleaseWorkConserving DEF DropPermit
<1>5. ASSUME NEW r \in Requests,
             SpawnTokenize(r) \/ Reject(r) \/ Granted(r) \/ Collect(r) \/ Tokenized(r)
      PROVE  UNCHANGED <<permits, queue>>
  BY <1>5 DEF SpawnTokenize, Reject, Granted, Collect, Tokenized, asyncVars
<1>6. CASE StartJob  BY <1>1, <1>6 DEF StartJob, asyncVars
<1>7. ASSUME NEW c \in Callers, CallScore(c) PROVE UNCHANGED <<permits, queue>>
  BY <1>7 DEF CallScore, asyncVars
<1>8. ASSUME NEW j \in Jobs, Checkout(j) \/ WakeSpuriously(j) \/ ReturnSession(j)
      PROVE  UNCHANGED <<permits, queue>>
  BY <1>8 DEF Checkout, WakeSpuriously, ReturnSession, asyncVars
<1>9. CASE UNCHANGED vars  BY <1>1, <1>9 DEF vars
<1> QED  BY <1>1, <1>2, <1>3, <1>4, <1>5, <1>6, <1>7, <1>8, <1>9 DEF Next

(* No request waits for a permit while one is free.                         *)
THEOREM PoolWorkConserving == Spec => []WorkConserving
<1>1. Init => WorkConserving  BY DEF Init, WorkConserving
<1>2. TypeOK /\ WorkConserving /\ [Next]_vars => WorkConserving'  BY NextWorkConserving
<1> QED  BY <1>1, <1>2, PoolTypeOK, PTL DEF Spec

-----------------------------------------------------------------------------
(* The refinement.  What a step means to the slots depends on whose permits *)
(* it moves.                                                               *)

(* The copies of the library that come with the instance are the library.   *)
LEMMA SlotsLibrary ==
  /\ \A s : Slots!ToSet(s) = ToSet(s)
  /\ \A S : Slots!Cardinality(S) = Cardinality(S)
  /\ \A s, i : Slots!RemoveAt(s, i) = RemoveAt(s, i)
<1>1. \A s : Slots!ToSet(s) = ToSet(s)  BY DEF Slots!ToSet, ToSet
<1>2. \A S : Slots!Cardinality(S) = Cardinality(S)
  BY Zenon DEF Slots!Cardinality, Cardinality
<1>3. \A s, i : Slots!RemoveAt(s, i) = RemoveAt(s, i)
  BY DEF Slots!RemoveAt, RemoveAt
<1> QED  BY <1>1, <1>2, <1>3

\* A step that moves none.
LEMMA QuietSlots ==
  ASSUME UNCHANGED <<queue, granted>>,
         \A r \in Requests :
           job'[r] \in {"spawned", "checkout", "waiting", "inferring", "returning"}
             <=> job[r] \in {"spawned", "checkout", "waiting", "inferring", "returning"}
  PROVE  UNCHANGED Slots!slotVars
BY DEF Slots!slotVars, PermitHolders

(* A request's permit goes to the first in line, or back: Leave.            *)
LEMMA ReleaseLeaves ==
  ASSUME IInv, NEW r \in Requests, r \in PermitHolders, Release(r),
         job'[r] \in {"none", "finished"},
         \A q \in Requests \ {r} : job'[q] = job[q]
  PROVE  Slots!Leave(r)
<1>1. PermitHolders' = granted' \cup
        ({q \in Requests : job[q] \in
          {"spawned", "checkout", "waiting", "inferring", "returning"}} \ {r})
  BY DEF PermitHolders
<1>2. CASE queue = <<>>
  <2>1. granted' = granted \ {r} /\ UNCHANGED queue  BY <1>2 DEF Release
  <2>2. PermitHolders' = PermitHolders \ {r}  BY <1>1, <2>1 DEF PermitHolders
  <2> QED  BY <1>2, <2>1, <2>2 DEF Slots!Leave
<1>3. CASE queue # <<>>
  <2>1. granted' = (granted \ {r}) \cup {Head(queue)} /\ queue' = Tail(queue)
    BY <1>3 DEF Release
  <2>2. PermitHolders' = (PermitHolders \ {r}) \cup {Head(queue)}
    BY <1>1, <2>1 DEF PermitHolders
  <2> QED  BY <1>3, <2>1, <2>2 DEF Slots!Leave
<1> QED  BY <1>2, <1>3

(* Asking for a permit: a free slot is taken, or there is none.             *)
LEMMA ReserveEnters ==
  ASSUME IInv, WorkConserving, NEW r \in Requests, Reserve(r)
  PROVE  Slots!Enter(r) \/ Slots!GetInLine(r)
<1> USE DEF IInv
<1>1. /\ permits \in 0..Size /\ Size \in Nat
      /\ Cardinality(PermitHolders) \in Nat
      /\ permits + Cardinality(PermitHolders) = Size
  BY FiniteHolders DEF TypeOK, SlotAccounting
<1>2. job[r] = "tokenized" /\ r \notin PermitHolders \cup Queued /\ UNCHANGED granted
  BY DEF Reserve, PermitHolders, Protocol
<1>3. r \notin PermitHolders \cup ToSet(queue)  BY <1>2 DEF Queued
<1>4. job \in [Jobs -> JobStates] /\ r \in Jobs  BY DEF TypeOK, Jobs
<1>5. CASE permits > 0 /\ SpawnScoring(r) /\ UNCHANGED queue
  <2>1. queue = <<>>  BY <1>1, <1>5 DEF WorkConserving
  <2>2. Cardinality(PermitHolders) < Size  BY <1>1, <1>5
  <2>3. job'[r] = "spawned" /\ \A q \in Requests \ {r} : job'[q] = job[q]
    BY <1>4, <1>5 DEF SpawnScoring, Jobs
  <2>4. PermitHolders' = PermitHolders \cup {r}  BY <1>2, <2>3 DEF PermitHolders
  <2> QED  BY <1>3, <1>5, <2>1, <2>2, <2>4, SlotsLibrary DEF Slots!Enter
<1>6. CASE /\ permits = 0 /\ queue' = Append(queue, r)
           /\ job' = [job EXCEPT ![r] = "none"]
  <2>1. Cardinality(PermitHolders) = Size  BY <1>1, <1>6
  <2>2. job'[r] = "none" /\ \A q \in Requests \ {r} : job'[q] = job[q]
    BY <1>4, <1>6 DEF Jobs
  <2>3. PermitHolders' = PermitHolders  BY <1>2, <2>2 DEF PermitHolders
  <2> QED  BY <1>3, <1>6, <2>1, <2>3, SlotsLibrary DEF Slots!GetInLine
<1> QED  BY <1>5, <1>6 DEF Reserve

(* A dropped future gives up its place, or its slot, or leaves its job be.  *)
LEMMA CancelFitsSlots ==
  ASSUME IInv, NEW r \in Requests, Cancel(r)
  PROVE  Slots!Leave(r) \/ Slots!Withdraw(r) \/ UNCHANGED Slots!slotVars
<1> USE DEF IInv
<1> DEFINE Held == {"spawned", "checkout", "waiting", "inferring", "returning"}
<1>1. job \in [Jobs -> JobStates] /\ r \in Jobs /\ Requests \subseteq Jobs
  BY DEF TypeOK, Jobs
<1>2. job'[r] = Detached(job[r]) /\ \A q \in Requests \ {r} : job'[q] = job[q]
  BY <1>1 DEF Cancel
<1>3. \A q \in Requests : job'[q] \in Held <=> job[q] \in Held
  BY <1>2 DEF Detached
<1>4. CASE r \in granted /\ Release(r)
  <2>1. job[r] = "none" /\ job'[r] = "none"  BY <1>2, <1>4 DEF Protocol, Detached
  <2>2. r \in PermitHolders  BY <1>4 DEF PermitHolders
  <2> QED  BY <1>2, <1>4, <2>1, <2>2, ReleaseLeaves
<1>5. CASE LeaveLine(r)
  <2>1. UNCHANGED PermitHolders  BY <1>3, <1>5 DEF LeaveLine, PermitHolders
  <2>2. \E i \in DOMAIN queue : queue[i] = r /\ queue' = RemoveAt(queue, i)
    BY <1>5 DEF LeaveLine
  <2> QED  BY <2>1, <2>2, SlotsLibrary DEF Slots!Withdraw
<1>6. CASE UNCHANGED <<permits, queue, granted>>
  BY <1>3, <1>6, QuietSlots
<1> QED  BY <1>4, <1>5, <1>6 DEF Cancel

\* A permit that is dropped is a slot that is left.
LEMMA DropPermitLeaves ==
  ASSUME IInv, NEW r \in Requests, DropPermit(r)
  PROVE  Slots!Leave(r)
<1>1. job \in [Jobs -> JobStates] /\ r \in Jobs /\ Requests \subseteq Jobs
  BY DEF IInv, TypeOK, Jobs
<1>2. job'[r] \in {"none", "finished"} /\ \A q \in Requests \ {r} : job'[q] = job[q]
  BY <1>1 DEF DropPermit
<1>3. r \in PermitHolders /\ Release(r)  BY DEF DropPermit, PermitHolders
<1> QED  BY <1>2, <1>3, ReleaseLeaves

(* The permit moves from the future into its job, and stays one permit.     *)
LEMMA GrantedKeepsSlot ==
  ASSUME IInv, NEW r \in Requests, Granted(r)
  PROVE  UNCHANGED Slots!slotVars
<1>1. job \in [Jobs -> JobStates] /\ r \in Jobs /\ Requests \subseteq Jobs
  BY DEF IInv, TypeOK, Jobs
<1>2. job'[r] = "spawned" /\ \A q \in Requests \ {r} : job'[q] = job[q]
  BY <1>1 DEF Granted, SpawnScoring
<1>3. granted' = granted \ {r} /\ r \in granted /\ UNCHANGED queue  BY DEF Granted
<1>4. PermitHolders' = PermitHolders  BY <1>2, <1>3 DEF PermitHolders, IInv, Protocol
<1> QED  BY <1>3, <1>4 DEF Slots!slotVars

(* The job of one request or caller goes on, with or without a permit, and  *)
(* no permit moves.                                                         *)
LEMMA JobStepSlots ==
  ASSUME IInv, UNCHANGED <<queue, granted>>,
         NEW j \in Jobs, NEW js, job' = [job EXCEPT ![j] = js],
         j \in Requests =>
           (js \in {"spawned", "checkout", "waiting", "inferring", "returning"}
             <=> job[j] \in {"spawned", "checkout", "waiting", "inferring", "returning"})
  PROVE  UNCHANGED Slots!slotVars
<1>1. job \in [Jobs -> JobStates] /\ Requests \subseteq Jobs
  BY DEF IInv, TypeOK, Jobs
<1>2. job'[j] = js /\ \A q \in Requests \ {j} : job'[q] = job[q]  BY <1>1
<1> QED  BY <1>2, QuietSlots

\* Every step of the pool is a step of the slots, or none.
LEMMA NextFitsSlots ==
  ASSUME IInv, WorkConserving, [Next]_vars
  PROVE  [Slots!Next]_Slots!slotVars
<1> USE DEF IInv
<1> DEFINE Quiet == UNCHANGED Slots!slotVars
<1>1. ASSUME NEW r \in Requests, Reserve(r) PROVE Slots!Next
  BY <1>1, ReserveEnters DEF Slots!Next
<1>2. ASSUME NEW r \in Requests, Cancel(r) PROVE Slots!Next \/ Quiet
  BY <1>2, CancelFitsSlots DEF Slots!Next
<1>3. ASSUME NEW r \in Requests, DropPermit(r) PROVE Slots!Next
  BY <1>3, DropPermitLeaves DEF Slots!Next
<1>4. ASSUME NEW r \in Requests, Granted(r) PROVE Quiet
  BY <1>4, GrantedKeepsSlot
<1>5. ASSUME NEW r \in Requests, SpawnTokenize(r) \/ Reject(r) \/ Collect(r) \/ Tokenized(r)
      PROVE  Quiet
  <2>1. PICK js \in {"tokSpawned", "none", "tokenized", "failed"} : job' = [job EXCEPT ![r] = js]
    BY <1>5 DEF SpawnTokenize, Reject, Collect, Tokenized
  <2>2. /\ r \in Jobs /\ UNCHANGED <<queue, granted>>
        /\ job[r] \in {"none", "failed", "finished", "tokenizing"}
    BY <1>5 DEF SpawnTokenize, Reject, Collect, Tokenized, asyncVars, Jobs
  <2> QED  BY <2>1, <2>2, JobStepSlots
<1>6. CASE StartJob
  <2> DEFINE r == Head(blocking)
             js == IF job[r] = "tokSpawned" THEN "tokenizing" ELSE "checkout"
  <2>1. job' = [job EXCEPT ![r] = js] /\ UNCHANGED <<queue, granted>>
    BY <1>6 DEF StartJob, asyncVars
  <2>2. r \in Requests /\ r = blocking[1] /\ 1 \in DOMAIN blocking
    BY <1>6, TailInjectiveSeq DEF StartJob, TypeOK, Protocol
  <2>3. job[r] \in {"tokSpawned", "spawned"} /\ r \in Jobs  BY <2>2 DEF Protocol, Jobs
  <2> HIDE DEF r
  <2> QED  BY <2>1, <2>3, JobStepSlots
<1>7. ASSUME NEW c \in Callers, CallScore(c) PROVE Quiet
  <2>1. PICK js : job' = [job EXCEPT ![c] = js]  BY <1>7 DEF CallScore
  <2>2. c \in Jobs /\ c \notin Requests /\ UNCHANGED <<queue, granted>>
    BY <1>7, PoolAssumption DEF CallScore, asyncVars, Jobs
  <2> QED  BY <2>1, <2>2, JobStepSlots
<1>8. ASSUME NEW j \in Jobs, Checkout(j) \/ WakeSpuriously(j) PROVE Quiet
  <2>1. PICK js \in {"checkout", "waiting", "inferring"} : job' = [job EXCEPT ![j] = js]
    BY <1>8 DEF Checkout, WakeSpuriously
  <2>2. job[j] \in {"checkout", "waiting"} /\ UNCHANGED <<queue, granted>>
    BY <1>8 DEF Checkout, WakeSpuriously, asyncVars
  <2> QED  BY <2>1, <2>2, JobStepSlots
<1>9. ASSUME NEW j \in Jobs, ReturnSession(j) PROVE Quiet
  <2>1. /\ job[j] = "inferring" /\ UNCHANGED <<queue, granted>>
        /\ job \in [Jobs -> JobStates] /\ Requests \subseteq Jobs
    BY <1>9 DEF ReturnSession, asyncVars, TypeOK, Jobs
  <2>2. j \in Requests => AfterReturn(j) = "returning"  BY DEF AfterReturn
  <2>3. CASE job' = [job EXCEPT ![j] = AfterReturn(j)]
    BY <2>1, <2>2, <2>3, QuietSlots
  <2>4. ASSUME NEW k \in Waiters, job' = [job EXCEPT ![j] = AfterReturn(j), ![k] = "checkout"]
        PROVE  Quiet
    <3>1. job[k] = "waiting" /\ k \in Jobs /\ k # j  BY <2>1 DEF Waiters
    <3>2. \A q \in Requests : job'[q] = IF q = k THEN "checkout"
                                       ELSE IF q = j THEN "returning" ELSE job[q]
      BY <2>1, <2>2, <2>4, <3>1
    <3> QED  BY <2>1, <3>1, <3>2, QuietSlots
  <2> QED  BY <1>9, <2>3, <2>4 DEF ReturnSession
<1>10. CASE UNCHANGED vars
  BY <1>10 DEF vars, PermitHolders, Slots!slotVars
<1> QED
  BY <1>1, <1>2, <1>3, <1>4, <1>5, <1>6, <1>7, <1>8, <1>9, <1>10 DEF Next

(* Requests are given the pool in the order they asked for it, at most one  *)
(* per session at a time, and one that timed out or was dropped keeps its   *)
(* place until the job it left behind is over.                              *)
THEOREM PoolImplementsSlots == Spec => ImplementsSlots
<1>1. Init => Slots!Init
  <2> SUFFICES ASSUME Init PROVE Slots!Init  OBVIOUS
  <2>1. PermitHolders = {}  BY DEF Init, PermitHolders, Jobs
  <2> QED  BY <2>1 DEF Init, Slots!Init
<1>2. IInv /\ WorkConserving /\ [Next]_vars => [Slots!Next]_Slots!slotVars
  BY NextFitsSlots
<1> QED
  BY <1>1, <1>2, PoolInvariant, PoolWorkConserving, PTL DEF Spec, ImplementsSlots, Slots!Spec
=============================================================================
