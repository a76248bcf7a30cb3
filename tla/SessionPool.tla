---------------------------- MODULE SessionPool -----------------------------
(***************************************************************************)
(* The ONNX session pool of one classifier stage                           *)
(* (guardrail-classifiers/src/onnx.rs) and the two ways into it:           *)
(*   - `evaluate`, which the proxy awaits: `score_in_pool` tokenizes on a  *)
(*     blocking thread, waits for a semaphore permit, and scores on a      *)
(*     second blocking thread that checks a session out;                   *)
(*   - `score`, the public synchronous call: it tokenizes and checks a     *)
(*     session out on the caller's own thread, without a permit.           *)
(*                                                                         *)
(* A stage timeout or a client that disconnects drops the awaited future   *)
(* at any await; a blocking job already spawned runs on regardless.        *)
(*                                                                         *)
(* Atomicity.  `idle` is a Mutex<Vec> and every critical section over it   *)
(* is one action: pop or go to sleep on the condvar, push and notify.      *)
(* Between two awaits a future runs without interruption by its own        *)
(* request, so taking the permit and spawning the job are one action.      *)
(* tokio's semaphore (FIFO, a released permit goes to the oldest waiter    *)
(* at once) and its blocking pool (FIFO over a bounded number of threads)  *)
(* are external.                                                           *)
(***************************************************************************)
EXTENDS Naturals, SequencesExt

CONSTANTS
  Requests,   \* request slots: each carries one `evaluate` at a time
  Callers,    \* threads that call the synchronous `score`, once each
  Sessions,   \* the ONNX Runtime sessions of the pool
  Threads,    \* threads of the runtime's blocking pool
  NoSession   \* marks a job that has no session

ASSUME PoolAssumption ==
  /\ IsFiniteSet(Requests) /\ IsFiniteSet(Callers) /\ Requests \cap Callers = {}
  /\ IsFiniteSet(Sessions) /\ Sessions # {} /\ NoSession \notin Sessions
  /\ Threads \in Nat \ {0}

VARIABLES
  task,       \* task[r]: where r's `evaluate` future is
  job,        \* job[j]: where the blocking work of request or caller j is
  session,    \* session[j]: the session j has checked out
  idle,       \* SessionPool.idle
  permits,    \* permits the semaphore has to give
  queue,      \* requests waiting for a permit, oldest first
  granted,    \* requests given a permit that have not been polled since
  blocking    \* jobs spawned and waiting for a blocking thread, oldest first

asyncVars == <<task, permits, queue, granted>>
poolVars  == <<session, idle>>
vars      == <<task, job, session, idle, permits, queue, granted, blocking>>

Jobs == Requests \cup Callers
Size == Cardinality(Sessions)

TaskStates == {"away", "tokenizing", "reserving", "scoring"}

\* "none" and "failed" to "finished" are states of a request's job as its
\* JoinHandle sees it; a caller goes from "none" to "checkout" directly.
JobStates == {"none", "tokSpawned", "tokenizing", "tokenized", "failed",
              "spawned", "checkout", "waiting", "inferring", "returning", "finished"}

TypeOK ==
  /\ task \in [Requests -> TaskStates]
  /\ job \in [Jobs -> JobStates]
  /\ session \in [Jobs -> Sessions \cup {NoSession}]
  /\ idle \in SUBSET Sessions
  /\ permits \in 0..Size
  /\ queue \in Seq(Requests)
  /\ granted \in SUBSET Requests
  /\ blocking \in Seq(Requests)

\* The requests in line for a permit.
Queued == ToSet(queue)

\* The jobs that occupy a thread of the blocking pool.
OnThread ==
  {r \in Requests : job[r] \in {"tokenizing", "checkout", "waiting", "inferring", "returning"}}

\* The requests whose permit is taken: granted, or moved into their job.
PermitHolders ==
  granted \cup
  {r \in Requests : job[r] \in {"spawned", "checkout", "waiting", "inferring", "returning"}}

\* The jobs that have a session.
SessionHolders == {j \in Jobs : session[j] # NoSession}

-----------------------------------------------------------------------------
(* The semaphore (external) and the permit of a request.                   *)

\* Mutant of Release: the newest waiter goes first.
ReleaseToNewest(r) ==
  \/ /\ queue = <<>>
     /\ permits' = permits + 1
     /\ granted' = granted \ {r}
     /\ UNCHANGED queue
  \/ /\ queue # <<>>
     /\ granted' = (granted \ {r}) \cup {queue[Len(queue)]}
     /\ queue' = SubSeq(queue, 1, Len(queue) - 1)
     /\ UNCHANGED permits

\* A released permit is assigned to the oldest waiter, else it is free.
Release(r) ==
  \/ /\ queue = <<>>
     /\ permits' = permits + 1
     /\ granted' = granted \ {r}
     /\ UNCHANGED queue
  \/ /\ queue # <<>>
     /\ granted' = (granted \ {r}) \cup {Head(queue)}
     /\ queue' = Tail(queue)
     /\ UNCHANGED permits

\* A request in line for a permit leaves it.
LeaveLine(r) ==
  /\ \E i \in DOMAIN queue : queue[i] = r /\ queue' = RemoveAt(queue, i)
  /\ UNCHANGED <<permits, granted>>

\* With its permit a future spawns the scoring job and awaits it.
SpawnScoring(r) ==
  /\ task' = [task EXCEPT ![r] = "scoring"]
  /\ job' = [job EXCEPT ![r] = "spawned"]
  /\ blocking' = Append(blocking, r)

-----------------------------------------------------------------------------
(* `score_in_pool`: the future of a request.                               *)

\* The stage is evaluated: tokenization goes to a blocking thread.
SpawnTokenize(r) ==
  /\ task[r] = "away" /\ job[r] = "none"
  /\ task' = [task EXCEPT ![r] = "tokenizing"]
  /\ job' = [job EXCEPT ![r] = "tokSpawned"]
  /\ blocking' = Append(blocking, r)
  /\ UNCHANGED <<poolVars, permits, queue, granted>>

\* `windows` failed: input over the window limit, or not tokenizable.  The
\* request returns without having asked for a slot.
Reject(r) ==
  /\ task[r] = "tokenizing" /\ job[r] = "failed"
  /\ task' = [task EXCEPT ![r] = "away"]
  /\ job' = [job EXCEPT ![r] = "none"]
  /\ UNCHANGED <<poolVars, permits, queue, granted, blocking>>

\* `reserve().await`: the permit at once, or a place in line.
Reserve(r) ==
  /\ task[r] = "tokenizing" /\ job[r] = "tokenized"
  /\ UNCHANGED <<poolVars, granted>>
  /\ \/ /\ permits > 0
        /\ permits' = permits - 1
        /\ SpawnScoring(r)
        /\ UNCHANGED queue
     \/ /\ permits = 0
        /\ queue' = Append(queue, r)
        /\ task' = [task EXCEPT ![r] = "reserving"]
        /\ job' = [job EXCEPT ![r] = "none"]
        /\ UNCHANGED <<permits, blocking>>

\* The future is polled after its permit was assigned.
Granted(r) ==
  /\ r \in granted
  /\ granted' = granted \ {r}
  /\ SpawnScoring(r)
  /\ UNCHANGED <<poolVars, permits, queue>>

\* The scoring job is over: `evaluate` returns its score or its error.
Collect(r) ==
  /\ task[r] = "scoring" /\ job[r] = "finished"
  /\ task' = [task EXCEPT ![r] = "away"]
  /\ job' = [job EXCEPT ![r] = "none"]
  /\ UNCHANGED <<poolVars, permits, queue, granted, blocking>>

\* What a dropped JoinHandle leaves: running work goes on, a result is lost.
Detached(j) == IF j \in {"tokenized", "failed", "finished"} THEN "none" ELSE j

\* Mutant of Cancel: an assigned permit dies with the future it was for.
CancelLosesPermit(r) ==
  /\ task[r] # "away"
  /\ task' = [task EXCEPT ![r] = "away"]
  /\ job' = [job EXCEPT ![r] = Detached(@)]
  /\ UNCHANGED <<poolVars, blocking>>
  /\ \/ r \in granted /\ granted' = granted \ {r} /\ UNCHANGED <<permits, queue>>
     \/ LeaveLine(r)
     \/ r \notin granted \cup Queued /\ UNCHANGED <<permits, queue, granted>>

\* The stage timeout fires or the client disconnects: the future is dropped.
\* In line, it leaves the line; with an assigned permit, it gives it back;
\* while a job runs, the job keeps what it has.
Cancel(r) ==
  /\ task[r] # "away"
  /\ task' = [task EXCEPT ![r] = "away"]
  /\ job' = [job EXCEPT ![r] = Detached(@)]
  /\ UNCHANGED <<poolVars, blocking>>
  /\ \/ r \in granted /\ Release(r)
     \/ LeaveLine(r)
     \/ r \notin granted \cup Queued /\ UNCHANGED <<permits, queue, granted>>

-----------------------------------------------------------------------------
(* The blocking threads.                                                   *)

\* A blocking thread takes the oldest spawned job.
StartJob ==
  /\ blocking # <<>>
  /\ Cardinality(OnThread) < Threads
  /\ LET r == Head(blocking)
     IN  job' = [job EXCEPT ![r] = IF @ = "tokSpawned" THEN "tokenizing" ELSE "checkout"]
  /\ blocking' = Tail(blocking)
  /\ UNCHANGED <<asyncVars, poolVars>>

\* `windows` returns; nobody reads the result of a detached one.
Tokenized(r) ==
  /\ job[r] = "tokenizing"
  /\ \E result \in {"tokenized", "failed"} :
       job' = [job EXCEPT ![r] = IF task[r] = "tokenizing" THEN result ELSE "none"]
  /\ UNCHANGED <<asyncVars, poolVars, blocking>>

\* `score` tokenizes on the caller's thread and goes for a session, unless
\* the input is refused.
CallScore(c) ==
  /\ job[c] = "none"
  /\ \E next \in {"checkout", "finished"} : job' = [job EXCEPT ![c] = next]
  /\ UNCHANGED <<asyncVars, poolVars, blocking>>

\* Mutant of Checkout: the session is looked at, not taken.
CheckoutKeepsIdle(j) ==
  /\ job[j] = "checkout"
  /\ UNCHANGED <<asyncVars, idle, blocking>>
  /\ \/ \E s \in idle :
          /\ session' = [session EXCEPT ![j] = s]
          /\ job' = [job EXCEPT ![j] = "inferring"]
     \/ /\ idle = {}
        /\ job' = [job EXCEPT ![j] = "waiting"]
        /\ UNCHANGED session

\* One turn of `checkout`'s loop, under the lock: pop a session or wait on
\* the condvar.
Checkout(j) ==
  /\ job[j] = "checkout"
  /\ UNCHANGED <<asyncVars, blocking>>
  /\ \/ \E s \in idle :
          /\ idle' = idle \ {s}
          /\ session' = [session EXCEPT ![j] = s]
          /\ job' = [job EXCEPT ![j] = "inferring"]
     \/ /\ idle = {}
        /\ job' = [job EXCEPT ![j] = "waiting"]
        /\ UNCHANGED poolVars

\* A condvar may wake a waiter that nobody notified.
WakeSpuriously(j) ==
  /\ job[j] = "waiting"
  /\ job' = [job EXCEPT ![j] = "checkout"]
  /\ UNCHANGED <<asyncVars, poolVars, blocking>>

Waiters == {k \in Jobs : job[k] = "waiting"}

\* The state of a job that has just given its session back.
AfterReturn(j) == IF j \in Requests THEN "returning" ELSE "finished"

\* Mutant of ReturnSession: the session is pushed and nobody is told.
ReturnWithoutNotify(j) ==
  /\ job[j] = "inferring"
  /\ idle' = idle \cup {session[j]}
  /\ session' = [session EXCEPT ![j] = NoSession]
  /\ job' = [job EXCEPT ![j] = AfterReturn(j)]
  /\ UNCHANGED <<asyncVars, blocking>>

\* Mutant of ReturnSession: a panic in inference loses the session.
ReturnUnlessPanicked(j) ==
  /\ job[j] = "inferring"
  /\ idle' \in {idle, idle \cup {session[j]}}
  /\ session' = [session EXCEPT ![j] = NoSession]
  /\ job' = [job EXCEPT ![j] = AfterReturn(j)]
  /\ UNCHANGED <<asyncVars, blocking>>

\* Inference ended, failed or panicked: PooledSession's drop pushes the
\* session and notifies one waiter, under the lock.
ReturnSession(j) ==
  /\ job[j] = "inferring"
  /\ idle' = idle \cup {session[j]}
  /\ session' = [session EXCEPT ![j] = NoSession]
  /\ \/ /\ Waiters = {}
        /\ job' = [job EXCEPT ![j] = AfterReturn(j)]
     \/ \E k \in Waiters :
          job' = [job EXCEPT ![j] = AfterReturn(j), ![k] = "checkout"]
  /\ UNCHANGED <<asyncVars, blocking>>

\* The permit, declared before the session, is dropped after it.
DropPermit(r) ==
  /\ job[r] = "returning"
  /\ job' = [job EXCEPT ![r] = IF task[r] = "scoring" THEN "finished" ELSE "none"]
  /\ Release(r)
  /\ UNCHANGED <<task, poolVars, blocking>>

-----------------------------------------------------------------------------
Init ==
  /\ task = [r \in Requests |-> "away"]
  /\ job = [j \in Jobs |-> "none"]
  /\ session = [j \in Jobs |-> NoSession]
  /\ idle = Sessions
  /\ permits = Size
  /\ queue = <<>>
  /\ granted = {}
  /\ blocking = <<>>

Next ==
  \/ \E r \in Requests :
       \/ SpawnTokenize(r) \/ Reject(r) \/ Reserve(r) \/ Granted(r)
       \/ Collect(r) \/ Cancel(r) \/ Tokenized(r) \/ DropPermit(r)
  \/ StartJob
  \/ \E c \in Callers : CallScore(c)
  \/ \E j \in Jobs : Checkout(j) \/ WakeSpuriously(j) \/ ReturnSession(j)

Spec == Init /\ [][Next]_vars

(* tokio polls a woken future, a free blocking thread takes the oldest job, *)
(* and tokenizing, a session's run and an unlocked mutex do not block       *)
(* forever.  Nothing makes a request arrive, time out or disconnect, and a  *)
(* condvar need never wake by itself.                                       *)
Fairness ==
  /\ \A r \in Requests :
       /\ WF_vars(Reject(r)) /\ WF_vars(Reserve(r)) /\ WF_vars(Granted(r))
       /\ WF_vars(Collect(r)) /\ WF_vars(Tokenized(r)) /\ WF_vars(DropPermit(r))
  /\ WF_vars(StartJob)
  /\ \A j \in Jobs : WF_vars(Checkout(j)) /\ WF_vars(ReturnSession(j))

FairSpec == Spec /\ Fairness

-----------------------------------------------------------------------------
(* Safety.                                                                 *)

(* Every permit is free or taken by exactly one request, and a session is   *)
(* missing from `idle` exactly when some job has it: cancellations at any   *)
(* await, timeouts and panics leak neither.                                 *)
SlotAccounting ==
  /\ permits + Cardinality(PermitHolders) = Size
  /\ Cardinality(idle) + Cardinality(SessionHolders) = Size

(* Two jobs never run on the same session, and a session in use is not      *)
(* offered to anybody (Mutex<Vec> pop and push, onnx.rs 209-246).           *)
SessionsExclusive ==
  \A j \in SessionHolders :
    /\ session[j] \notin idle
    /\ \A k \in SessionHolders : session[j] = session[k] => j = k

(* `checkout`'s comment: with a permit in hand, a session is always idle.   *)
(* A scoring job never sleeps on a thread of the blocking pool.             *)
PermitMeansIdle == \A r \in Requests : job[r] = "checkout" => idle # {}

(* No request waits for a permit while one is free: a cancelled waiter, a   *)
(* timed-out job or an assigned but abandoned permit passes the slot on.    *)
WorkConserving == queue # <<>> => permits = 0

(* With synchronous callers, threads do sleep on the condvar.  There are    *)
(* never more idle sessions than awake threads about to take one while some *)
(* thread sleeps: no session is returned to a pool whose waiters sleep on.  *)
NoLostWakeup ==
  Waiters # {} => Cardinality(idle) <= Cardinality({j \in Jobs : job[j] = "checkout"})

(* What makes SlotAccounting inductive: a request in line or with an        *)
(* assigned permit has no job, nobody is in line twice, a job in the queue  *)
(* of the blocking pool has not started, and sessions are in the hands of   *)
(* the jobs that run inference.                                             *)
Protocol ==
  /\ \A r \in granted \cup Queued : task[r] = "reserving" /\ job[r] = "none"
  /\ granted \cap Queued = {}
  /\ IsInjective(queue)
  /\ \A i \in DOMAIN blocking : job[blocking[i]] \in {"tokSpawned", "spawned"}
  /\ IsInjective(blocking)
  /\ \A j \in Jobs : session[j] # NoSession <=> job[j] = "inferring"

IInv == TypeOK /\ Protocol /\ SessionsExclusive /\ SlotAccounting

(* Refinement: the permits are FIFO slots, kept through timeouts until the  *)
(* job that uses them is over.                                              *)
Slots == INSTANCE SlotPool WITH Capacity <- Size, waiting <- queue, holding <- PermitHolders
ImplementsSlots == Slots!Spec

-----------------------------------------------------------------------------
(* Liveness.                                                               *)

(* A request in line for a session gets one, however many others keep       *)
(* coming and being cancelled (unless its own stage timeout drops it).      *)
NoStarvation ==
  \A r \in Requests : task[r] = "reserving" ~> task[r] \in {"scoring", "away"}

(* `evaluate` ends, and what a dropped one leaves running ends as well.     *)
EvaluationEnds ==
  \A r \in Requests : task[r] # "away" ~> task[r] = "away" /\ job[r] = "none"
=============================================================================
