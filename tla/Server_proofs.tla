---------------------------- MODULE Server_proofs ----------------------------
(***************************************************************************)
(* What Server promises for any number of connections and requests and any *)
(* size of the audit log's channel: the gauge counts each connection once, *)
(* only a shutdown ends the accept loop, and what was recorded in time is  *)
(* in the file when the process ends, or lost in one of the ways that have *)
(* a name.                                                                 *)
(***************************************************************************)
EXTENDS Server, FiniteSetTheorems, SequenceTheorems, TLAPS

USE ServerAssumption

-----------------------------------------------------------------------------
(* The contents of the channel and of the file.                            *)
LEMMA AppendContents ==
  ASSUME NEW S, NEW s \in Seq(S), NEW e \in S
  PROVE  /\ Append(s, e) \in Seq(S)
         /\ Len(Append(s, e)) = Len(s) + 1
         /\ ToSet(Append(s, e)) = ToSet(s) \cup {e}
<1> DEFINE t == Append(s, e)
<1>1. /\ t \in Seq(S) /\ Len(t) = Len(s) + 1 /\ Len(s) \in Nat
      /\ \A i \in 1..Len(s) : t[i] = s[i]
      /\ t[Len(s) + 1] = e
  BY AppendProperties
<1>2. DOMAIN s = 1..Len(s) /\ DOMAIN t = 1..(Len(s) + 1)  BY <1>1
<1> HIDE DEF t
<1>3. ASSUME NEW i \in DOMAIN t PROVE t[i] \in ToSet(s) \cup {e}
  <2>1. CASE i \in DOMAIN s  BY <1>1, <1>2, <2>1 DEF ToSet
  <2>2. CASE i = Len(s) + 1  BY <1>1, <2>2
  <2> QED  BY <1>1, <1>2, <2>1, <2>2
<1>4. ASSUME NEW i \in DOMAIN s PROVE s[i] \in ToSet(t)
  <2>1. i \in DOMAIN t /\ t[i] = s[i]  BY <1>1, <1>2
  <2> QED  BY <2>1 DEF ToSet
<1>5. e \in ToSet(t)
  <2>1. Len(s) + 1 \in DOMAIN t  BY <1>1, <1>2
  <2> QED  BY <1>1, <2>1 DEF ToSet
<1>6. ToSet(t) \subseteq ToSet(s) \cup {e}  BY <1>3 DEF ToSet
<1>7. ToSet(s) \subseteq ToSet(t)  BY <1>4 DEF ToSet
<1>8. ToSet(t) = ToSet(s) \cup {e}  BY <1>5, <1>6, <1>7
<1> QED  BY <1>1, <1>8 DEF t

\* A sequence is its head and its tail.
LEMMA HeadTailContents ==
  ASSUME NEW S, NEW s \in Seq(S), s # <<>>
  PROVE  /\ Head(s) \in S /\ Tail(s) \in Seq(S)
         /\ Len(Tail(s)) = Len(s) - 1
         /\ ToSet(s) = ToSet(Tail(s)) \cup {Head(s)}
<1> DEFINE t == Tail(s)
<1>1. /\ Head(s) \in S /\ t \in Seq(S) /\ Len(t) = Len(s) - 1
      /\ \A i \in 1..Len(t) : t[i] = s[i + 1]
  BY HeadTailProperties
<1>2. Len(s) \in Nat \ {0} /\ DOMAIN s = 1..Len(s) /\ DOMAIN t = 1..(Len(s) - 1)
  BY <1>1, EmptySeq
<1>3. Head(s) = s[1] /\ 1 \in DOMAIN s  BY <1>2
<1> HIDE DEF t
<1>4. ASSUME NEW i \in DOMAIN s PROVE s[i] \in ToSet(t) \cup {Head(s)}
  <2>1. CASE i = 1  BY <1>3, <2>1
  <2>2. CASE i # 1
    <3>1. i - 1 \in DOMAIN t /\ t[i - 1] = s[i]  BY <1>1, <1>2, <2>2
    <3> QED  BY <3>1 DEF ToSet
  <2> QED  BY <2>1, <2>2
<1>5. ASSUME NEW i \in DOMAIN t PROVE t[i] \in ToSet(s)
  <2>1. i + 1 \in DOMAIN s /\ t[i] = s[i + 1]  BY <1>1, <1>2
  <2> QED  BY <2>1 DEF ToSet
<1>6. Head(s) \in ToSet(s)  BY <1>3 DEF ToSet
<1>7. ToSet(s) = ToSet(t) \cup {Head(s)}  BY <1>4, <1>5, <1>6 DEF ToSet
<1> QED  BY <1>1, <1>7 DEF t

-----------------------------------------------------------------------------
(* The gauge.                                                              *)
Counted == {c \in Conns : conn[c] \in Served \cup {"over", "panicked"}}

\* The counted connections are no more than there are.
LEMMA CountedFinite ==
  /\ IsFiniteSet(Counted) /\ Cardinality(Counted) \in 0..Cardinality(Conns)
  /\ IsFiniteSet(Counted') /\ Cardinality(Counted') \in 0..Cardinality(Conns)
<1>1. Counted \subseteq Conns /\ Counted' \subseteq Conns  BY DEF Counted
<1>2. /\ IsFiniteSet(Counted) /\ Cardinality(Counted) <= Cardinality(Conns)
      /\ IsFiniteSet(Counted') /\ Cardinality(Counted') <= Cardinality(Conns)
  BY <1>1, FS_Subset
<1>3. /\ Cardinality(Counted) \in Nat /\ Cardinality(Counted') \in Nat
      /\ Cardinality(Conns) \in Nat
  BY <1>2, FS_CardinalityType
<1> QED  BY <1>2, <1>3

(* A connection that comes in or leaves; any other step of a connection.   *)
LEMMA CountedMoves ==
  ASSUME conn \in [Conns -> ConnStates], NEW c \in Conns, NEW state \in ConnStates, To(c, state)
  PROVE  LET in  == Served \cup {"over", "panicked"} IN
         /\ state \in in /\ conn[c] \notin in =>
              Cardinality(Counted') = Cardinality(Counted) + 1
         /\ state \notin in /\ conn[c] \in in =>
              Cardinality(Counted') = Cardinality(Counted) - 1
         /\ (state \in in <=> conn[c] \in in) => Counted' = Counted
<1> DEFINE in == Served \cup {"over", "panicked"}
<1>1. conn' = [conn EXCEPT ![c] = state]  BY DEF To
<1>2. \A d \in Conns : conn'[d] = IF d = c THEN state ELSE conn[d]  BY <1>1
<1>3. ASSUME state \in in, conn[c] \notin in
      PROVE  Cardinality(Counted') = Cardinality(Counted) + 1
  <2>1. Counted' = Counted \cup {c} /\ c \notin Counted  BY <1>2, <1>3 DEF Counted, Served
  <2> QED  BY <2>1, CountedFinite, FS_AddElement
<1>4. ASSUME state \notin in, conn[c] \in in
      PROVE  Cardinality(Counted') = Cardinality(Counted) - 1
  <2>1. Counted' = Counted \ {c} /\ c \in Counted  BY <1>2, <1>4 DEF Counted, Served
  <2> QED  BY <2>1, CountedFinite, FS_RemoveElement
<1>5. ASSUME state \in in <=> conn[c] \in in
      PROVE  Counted' = Counted
  BY <1>2, <1>5 DEF Counted, Served
<1> QED  BY <1>3, <1>4, <1>5

\* While the process runs the gauge is a cardinality.
LEMMA GaugeIsCounted ==
  /\ GaugeExact <=> (Running => gauge = Cardinality(Counted))
  /\ GaugeExact' <=> (Running' => gauge' = Cardinality(Counted'))
BY DEF GaugeExact, Counted

-----------------------------------------------------------------------------
\* The invariant holds before `run` begins.
LEMMA InitServerIInv == Init => ServerIInv
<1> SUFFICES ASSUME Init PROVE ServerIInv  OBVIOUS
<1>1. conn = [c \in Conns |-> "new"] /\ \A c \in Conns : conn[c] = "new"  BY DEF Init
<1>2. Cardinality({}) = 0 /\ Cardinality(Conns) \in Nat  BY FS_EmptySet, FS_CardinalityType
<1>3. TypeOK
  <2>1. channel \in Seq(RequestIds) /\ Len(channel) = 0 /\ log \in Seq(RequestIds)  BY DEF Init
  <2>2. conn \in [Conns -> ConnStates] /\ current \in [Conns -> 0..MaxRequests]
    BY <1>1 DEF Init, ConnStates
  <2>3. gauge \in 0..Cardinality(Conns) /\ requests \in 0..MaxRequests  BY <1>2 DEF Init
  <2>4. /\ Len(channel) <= ChannelSize
        /\ overflow \cup unwritten \cup timely \subseteq RequestIds
        /\ spans \cup exported \cup missed \cup traced \subseteq RequestIds
    BY <2>1 DEF Init
  <2> QED  BY <2>1, <2>2, <2>3, <2>4 DEF Init, TypeOK, Phases
<1>4. GaugeExact
  <2>1. Counted = {}  BY <1>1 DEF Counted, Served
  <2> QED  BY <1>2, <2>1, GaugeIsCounted DEF Init
<1>5. DroppedHandleServes /\ SetUp  BY <1>1 DEF Init, DroppedHandleServes, SetUp
<1>6. InTime  BY DEF Init, InTime
<1>7. Fresh  BY <1>1 DEF Fresh
<1> QED  BY <1>3, <1>4, <1>5, <1>6, <1>7 DEF ServerIInv

-----------------------------------------------------------------------------
(* What is left alone.                                                     *)
LEMMA FreshKept ==
  ASSUME ServerIInv, UNCHANGED current,
         \A c \in Conns : conn'[c] \in {"busy", "decided"} => conn[c] \in {"busy", "decided"}
  PROVE  Fresh'
BY DEF ServerIInv, Fresh

\* A step that touches neither log nor exporter keeps what is in time.
LEMMA InTimeKept ==
  ASSUME ServerIInv, UNCHANGED <<phase, logVars, traceVars>>
  PROVE  InTime'
BY DEF ServerIInv, InTime, logVars, traceVars

(* A step of `run` alone, which opens and closes no connection.             *)
LEMMA RunKept ==
  ASSUME ServerIInv, UNCHANGED <<conn, gauge, current>>, Running
  PROVE  GaugeExact' /\ Fresh'
<1>1. UNCHANGED Counted  BY DEF Counted
<1>2. GaugeExact'  BY <1>1, GaugeIsCounted DEF ServerIInv
<1>3. Fresh'  BY FreshKept
<1> QED  BY <1>2, <1>3

(* Starting.                                                               *)
LEMMA Starts ==
  ASSUME ServerIInv, Fail \/ LoadConfig \/ InitTracing \/ RunServer
  PROVE  ServerIInv'
<1> USE DEF ServerIInv, loopVars, connVars, logVars, traceVars
<1>0. phase \in {"load", "tracing", "bind"} /\ Running
      /\ UNCHANGED <<exhausted, conn, gauge, current, requests, channel, log, overflow,
                     unwritten, late, timely, spans, exported, missed, traced, embedded,
                     shutdown>>
  BY DEF Fail, LoadConfig, InitTracing, RunServer, Running
<1>1. CASE Fail \/ LoadConfig
  <2>1. UNCHANGED <<handle, loop, guard, tracer>> /\ phase' \in {"failed", "tracing"}
        /\ (phase' = "tracing" => phase = "load")
    BY <1>1 DEF Fail, LoadConfig
  <2>2. TypeOK'  BY <1>0, <2>1 DEF TypeOK, Phases
  <2>3. GaugeExact' /\ Fresh'  BY <1>0, <2>1, RunKept
  <2>4. DroppedHandleServes' /\ SetUp'  BY <1>0, <2>1 DEF DroppedHandleServes, SetUp
  <2>5. InTime'  BY <1>0, <2>1 DEF InTime
  <2> QED  BY <2>2, <2>3, <2>4, <2>5
<1>2. CASE InitTracing
  <2>1. phase = "tracing" /\ phase' = "bind" /\ guard' \in {"none", "held"}
        /\ tracer' \in {"none", "live"} /\ UNCHANGED <<handle, loop>>
    BY <1>2 DEF InitTracing, BuildLayer, BuildOtelLayer
  <2>2. TypeOK'  BY <1>0, <2>1 DEF TypeOK, Phases
  <2>3. GaugeExact' /\ Fresh'  BY <1>0, RunKept
  <2>4. DroppedHandleServes' /\ SetUp'  BY <1>0, <2>1 DEF DroppedHandleServes, SetUp
  <2>5. ToSet(log) = {} /\ ToSet(channel) = {}  BY <2>1 DEF SetUp, ToSet
  <2>6. InTime'  BY <1>0, <2>1, <2>5 DEF InTime, SetUp
  <2> QED  BY <2>2, <2>3, <2>4, <2>6
<1>3. CASE RunServer
  <2>1. phase' = "serve" /\ handle' = "held" /\ loop' = "running" /\ UNCHANGED <<guard, tracer>>
    BY <1>3 DEF RunServer
  <2>2. TypeOK'  BY <1>0, <2>1 DEF TypeOK, Phases
  <2>3. GaugeExact' /\ Fresh'  BY <1>0, <2>1, RunKept
  <2>4. DroppedHandleServes' /\ SetUp'  BY <1>0, <2>1 DEF DroppedHandleServes, SetUp
  <2>5. InTime'  BY <1>0, <2>1 DEF InTime
  <2> QED  BY <2>2, <2>3, <2>4, <2>5
<1> QED  BY <1>1, <1>2, <1>3

(* Ending.                                                                 *)
LEMMA Ends ==
  ASSUME ServerIInv, DropHandle \/ Shutdown \/ GraceOver \/ Flush \/ Return \/ Exit \/ ExitLate
  PROVE  ServerIInv'
<1> USE DEF ServerIInv, loopVars, connVars, logVars, traceVars
<1>0. phase \in {"serve", "grace", "flush", "return", "drop"} /\ Running
  BY DEF DropHandle, Shutdown, GraceOver, Flush, Return, Exit, ExitLate, End, Running
<1>1. CASE DropHandle \/ Shutdown \/ GraceOver
  <2>1. /\ UNCHANGED <<connVars, logVars, traceVars, embedded>>
        /\ phase \in {"serve", "grace"} /\ phase' \in {"serve", "grace", "flush"}
        /\ shutdown' \in BOOLEAN
        /\ handle' \in {handle, "dropped"}
        /\ phase' = "serve" => phase = "serve" /\ shutdown' = shutdown
    BY <1>1 DEF DropHandle, Shutdown, GraceOver, TypeOK
  <2>2. TypeOK'  BY <2>1 DEF TypeOK, Phases
  <2>3. GaugeExact' /\ Fresh'  BY <1>0, <2>1, RunKept
  <2>4. DroppedHandleServes' /\ SetUp'  BY <1>0, <2>1 DEF DroppedHandleServes, SetUp
  <2>5. InTime'  BY <1>0, <2>1 DEF InTime
  <2> QED  BY <2>2, <2>3, <2>4, <2>5
<1>2. CASE Flush
  <2>1. /\ UNCHANGED <<connVars, logVars, embedded, handle, shutdown, traced>>
        /\ phase = "flush" /\ phase' = "return"
        /\ tracer' = IF tracer = "live" THEN "shut" ELSE tracer
    BY <1>2 DEF Flush
  <2>0. PICK sent \in SUBSET spans :
          /\ exported' = exported \cup sent /\ missed' = missed \cup (spans \ sent)
          /\ spans' = {}
    BY <1>2 DEF Flush
  <2>2. TypeOK'  BY <2>0, <2>1 DEF TypeOK, Phases
  <2>3. GaugeExact' /\ Fresh'  BY <1>0, <2>1, RunKept
  <2>4. DroppedHandleServes' /\ SetUp'  BY <2>0, <2>1 DEF DroppedHandleServes, SetUp
  <2>5. exported' \cup missed' = exported \cup missed \cup spans  BY <2>0
  <2>6. InTime'  BY <2>0, <2>1, <2>5 DEF InTime, TypeOK
  <2> QED  BY <2>2, <2>3, <2>4, <2>6
<1>3. CASE Return
  <2>1. /\ UNCHANGED <<connVars, traceVars, embedded, shutdown, channel, log, overflow,
                       unwritten, late, timely>>
        /\ phase = "return" /\ phase' = "drop" /\ handle' = "dropped"
        /\ guard' = IF guard = "held" THEN "dropped" ELSE guard
    BY <1>3 DEF Return
  <2>2. TypeOK'  BY <2>1 DEF TypeOK, Phases
  <2>3. GaugeExact' /\ Fresh'  BY <1>0, <2>1, RunKept
  <2>4. DroppedHandleServes' /\ SetUp'  BY <2>1 DEF DroppedHandleServes, SetUp
  <2>5. InTime'  BY <2>1 DEF InTime
  <2> QED  BY <2>2, <2>3, <2>4, <2>5
<1>4. CASE Exit \/ ExitLate
  <2>1. /\ UNCHANGED <<embedded, handle, shutdown, loop, exhausted, gauge, current, requests,
                       guard, channel, log, overflow, unwritten, timely, traceVars>>
        /\ phase = "drop" /\ phase' = "exited"
        /\ late' \in BOOLEAN /\ (channel = <<>> \/ late')
        /\ conn' = [c \in Conns |-> IF conn[c] \in Served \cup {"queued", "spawned", "over"}
                                    THEN "cut" ELSE conn[c]]
    BY <1>4 DEF Exit, ExitLate, End, TypeOK
  <2>2. \A c \in Conns : conn'[c] \in {conn[c], "cut"}  BY <2>1
  <2>3. \A c \in Conns : conn'[c] = "new" <=> conn[c] = "new"  BY <2>1 DEF Served
  <2>4. conn' \in [Conns -> ConnStates]  BY <2>1 DEF TypeOK, ConnStates
  <2>5. TypeOK'  BY <2>1, <2>4 DEF TypeOK, Phases
  <2>6. GaugeExact' /\ DroppedHandleServes'
    BY <2>1 DEF GaugeExact, DroppedHandleServes, Running
  <2>7. SetUp'  BY <2>1, <2>3 DEF SetUp
  <2>8. InTime'  BY <2>1 DEF InTime
  <2>9. Fresh'  BY <2>1, <2>2, FreshKept
  <2> QED  BY <2>5, <2>6, <2>7, <2>8, <2>9
<1> QED  BY <1>1, <1>2, <1>3, <1>4

-----------------------------------------------------------------------------
(* The accept loop.                                                        *)
LEMMA Accepts ==
  ASSUME ServerIInv,
         StopAccepting \/ Descriptors \/ \E c \in Conns : Connect(c) \/ Accept(c) \/ AcceptFails(c)
  PROVE  ServerIInv'
<1> USE DEF ServerIInv, runVars, loopVars
<1>1. CASE StopAccepting
  <2>1. /\ UNCHANGED <<runVars, exhausted, gauge, current, requests, logVars, traceVars>>
        /\ Running /\ loop = "running" /\ loop' = "stopped" /\ shutdown
        /\ conn' = [c \in Conns |-> IF conn[c] = "queued" THEN "refused" ELSE conn[c]]
    BY <1>1 DEF StopAccepting, CloseListener
  <2>2. \A c \in Conns : conn'[c] \in {conn[c], "refused"}
        /\ (conn[c] \in Served \cup {"over", "panicked"} <=>
            conn'[c] \in Served \cup {"over", "panicked"})
    BY <2>1 DEF Served
  <2>3. conn' \in [Conns -> ConnStates]  BY <2>1 DEF TypeOK, ConnStates
  <2>4. TypeOK'  BY <2>1, <2>3 DEF TypeOK, logVars, traceVars
  <2>5. UNCHANGED Counted  BY <2>2 DEF Counted
  <2>6. GaugeExact'  BY <2>1, <2>5, GaugeIsCounted
  <2>7. DroppedHandleServes' /\ SetUp'
    BY <2>1 DEF DroppedHandleServes, SetUp, logVars, traceVars
  <2>8. InTime' /\ Fresh'  BY <2>1, <2>2, InTimeKept, FreshKept
  <2> QED  BY <2>4, <2>6, <2>7, <2>8
<1>2. CASE Descriptors
  <2>1. /\ UNCHANGED <<runVars, loop, conn, gauge, current, requests, logVars, traceVars>>
        /\ Running /\ exhausted' \in BOOLEAN
    BY <1>2 DEF Descriptors, TypeOK
  <2>2. TypeOK'  BY <2>1 DEF TypeOK, logVars, traceVars
  <2>3. GaugeExact' /\ Fresh'  BY <2>1, RunKept
  <2>4. DroppedHandleServes' /\ SetUp'
    BY <2>1 DEF DroppedHandleServes, SetUp, logVars, traceVars
  <2>5. InTime'  BY <2>1, InTimeKept
  <2> QED  BY <2>2, <2>3, <2>4, <2>5
<1>3. ASSUME NEW c \in Conns, Connect(c) \/ Accept(c) \/ AcceptFails(c) PROVE ServerIInv'
  <2>1. PICK state \in {"queued", "spawned", "refused"} : To(c, state)
    BY <1>3 DEF Connect, Accept, AcceptFails
  <2>2. /\ UNCHANGED <<runVars, loop, exhausted, gauge, current, requests, logVars, traceVars>>
        /\ Running /\ loop = "running" /\ conn[c] \in {"new", "queued"}
    BY <1>3 DEF Connect, Accept, AcceptFails
  <2>3. conn' = [conn EXCEPT ![c] = state] /\ state \in ConnStates
    BY <2>1 DEF To, ConnStates
  <2>4. TypeOK'
    <3>1. conn' \in [Conns -> ConnStates]  BY <2>3 DEF TypeOK
    <3> QED  BY <2>2, <3>1 DEF TypeOK, logVars, traceVars
  <2>5. GaugeExact'
    <3>1. Counted' = Counted  BY <2>1, <2>2, <2>3, CountedMoves DEF TypeOK, Served
    <3> QED  BY <2>2, <3>1, GaugeIsCounted
  <2>6. DroppedHandleServes' /\ SetUp'
    BY <2>2 DEF DroppedHandleServes, SetUp, logVars, traceVars
  <2>7. \A d \in Conns : conn'[d] \in {conn[d], state}  BY <2>3 DEF TypeOK
  <2>8. InTime' /\ Fresh'  BY <2>2, <2>7, InTimeKept, FreshKept
  <2> QED  BY <2>4, <2>5, <2>6, <2>8
<1> QED  BY <1>1, <1>2, <1>3

-----------------------------------------------------------------------------
(* Connections.  One that has come in is served after the loop was started. *)
LEMMA Served1 ==
  ASSUME ServerIInv, NEW c \in Conns, conn[c] # "new", UNCHANGED <<runVars, loopVars>>
  PROVE  /\ loop # "none" /\ phase \notin {"load", "tracing", "bind"}
         /\ SetUp' /\ DroppedHandleServes'
<1>1. loop # "none" /\ phase \notin {"load", "tracing", "bind"}  BY DEF ServerIInv, SetUp
<1>2. UNCHANGED <<phase, shutdown, loop>>  BY DEF runVars, loopVars
<1> QED  BY <1>1, <1>2 DEF ServerIInv, SetUp, DroppedHandleServes

\* A connection is taken into service, or its task ends.
LEMMA Counts ==
  ASSUME ServerIInv, NEW c \in Conns, Serve(c) \/ Closed(c)
  PROVE  ServerIInv'
<1> USE DEF ServerIInv
<1>1. PICK state \in {"idle", "closed"} : To(c, state) /\
        \/ state = "idle" /\ conn[c] = "spawned" /\ gauge' = gauge + 1
        \/ state = "closed" /\ conn[c] = "over" /\ gauge' = gauge - 1
  BY DEF Serve, Closed
<1>2. /\ UNCHANGED <<runVars, loopVars, current, requests, logVars, traceVars>> /\ Running
      /\ conn' = [conn EXCEPT ![c] = state] /\ state \in ConnStates /\ conn[c] # "new"
  BY <1>1 DEF Serve, Closed, To, ConnStates, Served
<1>3. SetUp' /\ DroppedHandleServes'  BY <1>2, Served1
<1>4. gauge' = Cardinality(Counted')
  <2>1. gauge = Cardinality(Counted)  BY <1>2, GaugeIsCounted
  <2> QED  BY <1>1, <1>2, <2>1, CountedMoves DEF TypeOK, Served
<1>5. TypeOK'
  <2>1. conn' \in [Conns -> ConnStates]  BY <1>2 DEF TypeOK
  <2>2. gauge' \in 0..Cardinality(Conns)  BY <1>4, CountedFinite
  <2> QED  BY <1>2, <2>1, <2>2 DEF TypeOK, runVars, loopVars, logVars, traceVars
<1>6. GaugeExact'  BY <1>4, GaugeIsCounted
<1>7. \A d \in Conns : conn'[d] \in {conn[d], "idle", "closed"}  BY <1>1, <1>2 DEF TypeOK
<1>8. InTime' /\ Fresh'
  <2>1. UNCHANGED phase  BY <1>2 DEF runVars
  <2> QED  BY <1>2, <1>7, <2>1, InTimeKept, FreshKept
<1> QED  BY <1>3, <1>5, <1>6, <1>8

\* A request begins on a connection.
LEMMA Requests ==
  ASSUME ServerIInv, NEW c \in Conns, Request(c)
  PROVE  ServerIInv'
<1> USE DEF ServerIInv
<1>1. /\ UNCHANGED <<runVars, loopVars, gauge, logVars, traceVars>> /\ Running
      /\ conn[c] = "idle" /\ To(c, "busy") /\ conn' = [conn EXCEPT ![c] = "busy"]
      /\ requests < MaxRequests /\ requests' = requests + 1
      /\ current' = [current EXCEPT ![c] = requests + 1]
  BY DEF Request, To
<1>2. SetUp' /\ DroppedHandleServes'  BY <1>1, Served1
<1>3. conn' \in [Conns -> ConnStates]  BY <1>1 DEF TypeOK, ConnStates, Served
<1>4. /\ requests \in Nat /\ requests' \in 0..MaxRequests
      /\ current' \in [Conns -> 0..MaxRequests]
  BY <1>1 DEF TypeOK
<1>5. TypeOK'  BY <1>1, <1>3, <1>4 DEF TypeOK, runVars, loopVars, logVars, traceVars
<1>6. GaugeExact'
  <2>1. Counted' = Counted  BY <1>1, CountedMoves DEF TypeOK, ConnStates, Served
  <2> QED  BY <1>1, <2>1, GaugeIsCounted
<1>7. UNCHANGED phase  BY <1>1 DEF runVars
<1>8. InTime'  BY <1>1, <1>7, InTimeKept
<1>9. Fresh'
  <2>1. \A d \in Conns : /\ conn'[d] = IF d = c THEN "busy" ELSE conn[d]
                         /\ current'[d] = IF d = c THEN requests + 1 ELSE current[d]
    BY <1>1 DEF TypeOK
  <2> QED  BY <1>4, <2>1 DEF Fresh
<1> QED  BY <1>2, <1>5, <1>6, <1>8, <1>9

\* A decision is recorded, and finds room in the channel or does not.
LEMMA Decisions ==
  ASSUME ServerIInv, NEW c \in Conns, Decide(c)
  PROVE  ServerIInv'
<1> USE DEF ServerIInv
<1> DEFINE r == current[c]
<1>1. /\ UNCHANGED <<runVars, loopVars, gauge, current, requests, guard, log, unwritten, late,
                     traceVars>>
      /\ Running
      /\ conn[c] = "busy" /\ To(c, "decided") /\ conn' = [conn EXCEPT ![c] = "decided"]
      /\ Emit(r)
      /\ timely' = IF phase \in {"serve", "grace", "flush", "return"}
                   THEN timely \cup {r} ELSE timely
  BY DEF Decide, To
<1>2. SetUp' /\ DroppedHandleServes' /\ phase \notin {"load", "tracing", "bind"}
  BY <1>1, Served1
<1>3. r \in RequestIds  BY <1>1 DEF Fresh, TypeOK, RequestIds
<1>4. \/ /\ guard = "held" /\ Len(channel) < ChannelSize
         /\ channel' = Append(channel, r) /\ overflow' = overflow
      \/ /\ ~(guard = "held" /\ Len(channel) < ChannelSize) /\ channel' = channel
         /\ overflow' = IF guard = "held" THEN overflow \cup {r} ELSE overflow
  BY <1>1 DEF Emit
<1>5. /\ Append(channel, r) \in Seq(RequestIds) /\ Len(Append(channel, r)) = Len(channel) + 1
      /\ ToSet(Append(channel, r)) = ToSet(channel) \cup {r}
  BY <1>3, AppendContents DEF TypeOK
<1>6. TypeOK'
  <2>1. conn' \in [Conns -> ConnStates]  BY <1>1 DEF TypeOK, ConnStates, Served
  <2>2. channel' \in Seq(RequestIds) /\ Len(channel') <= ChannelSize
    <3>1. Len(channel) \in Nat /\ channel \in Seq(RequestIds) /\ Len(channel) <= ChannelSize
      BY DEF TypeOK
    <3>2. CASE channel' = channel  BY <3>1, <3>2
    <3>3. CASE Len(channel) < ChannelSize /\ channel' = Append(channel, r)
      <4>1. Len(channel) + 1 <= ChannelSize  BY <3>1, <3>3
      <4> QED  BY <1>5, <3>3, <4>1
    <3> QED  BY <1>4, <3>2, <3>3
  <2>3. overflow' \cup timely' \subseteq RequestIds  BY <1>1, <1>3, <1>4 DEF TypeOK
  <2> QED  BY <1>1, <2>1, <2>2, <2>3 DEF TypeOK, runVars, loopVars, traceVars
<1>7. GaugeExact'
  <2>1. Counted' = Counted  BY <1>1, CountedMoves DEF TypeOK, ConnStates, Served
  <2> QED  BY <1>1, <2>1, GaugeIsCounted
<1>8. InTime'
  <2>1. UNCHANGED <<phase, guard, log, unwritten, late, tracer, traced, exported, missed, spans>>
    BY <1>1 DEF runVars, traceVars
  <2>2. ASSUME guard' # "none"
        PROVE  timely' = ToSet(log') \cup ToSet(channel') \cup overflow' \cup unwritten'
    <3>1. timely = ToSet(log) \cup ToSet(channel) \cup overflow \cup unwritten
      BY <2>1, <2>2 DEF InTime
    <3>2. CASE guard = "held"
      <4>1. phase \in {"serve", "grace", "flush", "return"}
        BY <1>1, <1>2, <3>2 DEF InTime, TypeOK, Phases, Running
      <4> QED  BY <1>1, <1>4, <1>5, <2>1, <3>1, <3>2, <4>1
    <3>3. CASE guard = "dropped"
      <4>1. phase \in {"drop", "exited"}  BY <3>3 DEF InTime
      <4> QED  BY <1>1, <1>4, <2>1, <3>1, <3>3, <4>1
    <3> QED  BY <2>1, <2>2, <3>2, <3>3 DEF TypeOK
  <2>3. phase # "exited"  BY <1>1 DEF Running
  <2> QED  BY <2>1, <2>2, <2>3 DEF InTime
<1>9. Fresh'
  <2>1. \A d \in Conns : conn'[d] = IF d = c THEN "decided" ELSE conn[d]  BY <1>1 DEF TypeOK
  <2> QED  BY <1>1, <2>1 DEF Fresh
<1> QED  BY <1>2, <1>6, <1>7, <1>8, <1>9

\* A request ends by its answer, a disconnect or a panic.
LEMMA RequestEnds ==
  ASSUME ServerIInv, NEW c \in Conns, Answer(c) \/ Disconnect(c) \/ Panic(c)
  PROVE  ServerIInv'
<1> USE DEF ServerIInv
<1>1. PICK state \in {"idle", "over", "panicked"} : To(c, state)
  BY DEF Answer, Disconnect, Panic
<1>2. /\ UNCHANGED <<runVars, loopVars, gauge, requests, logVars>> /\ Running
      /\ conn[c] \in Served /\ EndSpan(c) /\ conn' = [conn EXCEPT ![c] = state]
      /\ state \in ConnStates
  BY <1>1 DEF Answer, Disconnect, Panic, Served, ConnStates, To
<1>3. SetUp' /\ DroppedHandleServes'  BY <1>2, Served1 DEF Served
<1>4. /\ current' = [current EXCEPT ![c] = 0] /\ UNCHANGED <<tracer, exported>>
      /\ \E r \in SUBSET ({current[c]} \ {0}) :
           /\ traced' = traced \cup r
           /\ \/ spans' = spans \cup r /\ missed' = missed
              \/ spans' = spans /\ missed' = missed \cup r
           /\ tracer # "live" => r = {}
  <2> DEFINE r == IF tracer = "live" THEN {current[c]} \ {0} ELSE {}
  <2>1. /\ r \in SUBSET ({current[c]} \ {0}) /\ (tracer # "live" => r = {})
        /\ traced' = traced \cup r
        /\ \/ spans' = spans \cup r /\ missed' = missed
           \/ spans' = spans /\ missed' = missed \cup r
        /\ current' = [current EXCEPT ![c] = 0] /\ UNCHANGED <<tracer, exported>>
    BY <1>2 DEF EndSpan
  <2> HIDE DEF r
  <2> QED  BY <2>1
<1>5. TypeOK'
  <2>1. conn' \in [Conns -> ConnStates] /\ current' \in [Conns -> 0..MaxRequests]
    BY <1>2, <1>4 DEF TypeOK
  <2>2. {current[c]} \ {0} \subseteq RequestIds  BY DEF TypeOK, RequestIds
  <2>3. spans' \cup missed' \cup traced' \subseteq RequestIds  BY <1>4, <2>2 DEF TypeOK
  <2> QED  BY <1>2, <1>4, <2>1, <2>3 DEF TypeOK, runVars, loopVars, logVars
<1>6. GaugeExact'
  <2>1. Counted' = Counted  BY <1>1, <1>2, CountedMoves DEF TypeOK, Served
  <2> QED  BY <1>2, <2>1, GaugeIsCounted
<1>7. UNCHANGED phase  BY <1>2 DEF runVars
<1>8. InTime'
  <2>1. PICK r \in SUBSET ({current[c]} \ {0}) :
          /\ traced' = traced \cup r
          /\ \/ spans' = spans \cup r /\ missed' = missed
             \/ spans' = spans /\ missed' = missed \cup r
          /\ tracer # "live" => r = {}
    BY <1>4
  <2>2. /\ tracer' = "live" => traced' = exported' \cup missed' \cup spans'
        /\ tracer' = "shut" => traced' = exported' \cup missed'
    BY <1>4, <2>1 DEF InTime
  <2> QED  BY <1>2, <1>4, <1>7, <2>2 DEF InTime, logVars
<1>9. Fresh'
  <2>1. \A d \in Conns : /\ conn'[d] = IF d = c THEN state ELSE conn[d]
                         /\ current'[d] = IF d = c THEN 0 ELSE current[d]
    BY <1>2, <1>4 DEF TypeOK
  <2> QED  BY <1>1, <2>1 DEF Fresh
<1> QED  BY <1>3, <1>5, <1>6, <1>8, <1>9

-----------------------------------------------------------------------------
(* The worker thread and the exporter.                                     *)
LEMMA Writes ==
  ASSUME ServerIInv, Write \/ WriteFails \/ Export \/ ExportFails
  PROVE  ServerIInv'
<1> USE DEF ServerIInv, runVars, loopVars, connVars
<1>0. /\ UNCHANGED <<phase, handle, shutdown, embedded, loop, exhausted, conn, gauge, current,
                     requests, guard, overflow, late, timely, tracer, traced>>
      /\ Running
  BY DEF Write, WriteFails, Export, ExportFails, logVars, traceVars
<1>1. UNCHANGED Counted  BY <1>0 DEF Counted
<1>2. GaugeExact' /\ DroppedHandleServes'
  BY <1>0, <1>1, GaugeIsCounted DEF DroppedHandleServes
<1>3. Fresh'  BY <1>0, FreshKept
<1>4. CASE Write \/ WriteFails
  <2>1. /\ channel # <<>> /\ channel' = Tail(channel) /\ UNCHANGED <<spans, exported, missed>>
        /\ \/ log' = Append(log, Head(channel)) /\ unwritten' = unwritten
           \/ log' = log /\ unwritten' = unwritten \cup {Head(channel)}
    BY <1>4 DEF Write, WriteFails, traceVars
  <2>2. /\ Head(channel) \in RequestIds /\ channel' \in Seq(RequestIds)
        /\ Len(channel') = Len(channel) - 1
        /\ ToSet(channel) = ToSet(channel') \cup {Head(channel)}
    BY <2>1, HeadTailContents DEF TypeOK
  <2>3. /\ Append(log, Head(channel)) \in Seq(RequestIds)
        /\ ToSet(Append(log, Head(channel))) = ToSet(log) \cup {Head(channel)}
    BY <2>2, AppendContents DEF TypeOK
  <2>4. TypeOK'
    <3>1. Len(channel) \in Nat  BY DEF TypeOK
    <3>2. Len(channel') <= ChannelSize  BY <2>2, <3>1 DEF TypeOK
    <3> QED  BY <1>0, <2>1, <2>2, <2>3, <3>2 DEF TypeOK
  <2>5. SetUp'  BY <1>0, <2>1 DEF SetUp
  <2>6. ToSet(log') \cup ToSet(channel') \cup unwritten'
          = ToSet(log) \cup ToSet(channel) \cup unwritten
    BY <2>1, <2>2, <2>3
  <2>7. InTime'
    <3>1. phase # "exited"  BY <1>0 DEF Running
    <3>2. guard' # "none" =>
            timely' = ToSet(log') \cup ToSet(channel') \cup overflow' \cup unwritten'
      BY <1>0, <2>6 DEF InTime
    <3> QED  BY <1>0, <2>1, <3>1, <3>2 DEF InTime
  <2> QED  BY <1>2, <1>3, <2>4, <2>5, <2>7
<1>5. CASE Export \/ ExportFails
  <2>1. /\ tracer = "live" /\ spans' = {} /\ UNCHANGED <<channel, log, unwritten>>
        /\ \/ exported' = exported \cup spans /\ missed' = missed
           \/ missed' = missed \cup spans /\ exported' = exported
    BY <1>5 DEF Export, ExportFails, logVars
  <2>2. TypeOK'  BY <1>0, <2>1 DEF TypeOK
  <2>3. exported' \cup missed' \cup spans' = exported \cup missed \cup spans  BY <2>1
  <2>4. SetUp' /\ InTime'  BY <1>0, <2>1, <2>3 DEF SetUp, InTime
  <2> QED  BY <1>2, <1>3, <2>2, <2>4
<1> QED  BY <1>4, <1>5

-----------------------------------------------------------------------------
\* Every step of the server keeps the invariant.
LEMMA NextServerIInv == ServerIInv /\ [Next]_vars => ServerIInv'
<1> SUFFICES ASSUME ServerIInv, [Next]_vars PROVE ServerIInv'  OBVIOUS
<1>1. CASE Fail \/ RunStep \/ DropHandle \/ Shutdown
  BY <1>1, Starts, Ends DEF RunStep
<1>2. CASE StopAccepting \/ Descriptors
         \/ \E c \in Conns : Connect(c) \/ Accept(c) \/ AcceptFails(c)
  BY <1>2, Accepts
<1>3. ASSUME NEW c \in Conns, ConnStep(c) PROVE ServerIInv'
  BY <1>3, Counts, Requests, Decisions, RequestEnds DEF ConnStep
<1>4. CASE Write \/ WriteFails \/ Export \/ ExportFails  BY <1>4, Writes
<1>5. CASE UNCHANGED vars
  <2>1. UNCHANGED <<phase, embedded, handle, shutdown, loop, exhausted, conn, gauge, current,
                    requests, guard, channel, log, overflow, unwritten, late, timely, tracer,
                    spans, exported, missed, traced>>
    BY <1>5 DEF vars, runVars, loopVars, connVars, logVars, traceVars
  <2>2. UNCHANGED Counted  BY <2>1 DEF Counted
  <2>3. TypeOK' /\ SetUp' /\ InTime'  BY <2>1 DEF ServerIInv, TypeOK, SetUp, InTime
  <2>4. GaugeExact' /\ DroppedHandleServes'
    BY <2>1, <2>2, GaugeIsCounted DEF ServerIInv, DroppedHandleServes, Running
  <2>5. Fresh'  BY <2>1, <2>2 DEF ServerIInv, Fresh
  <2> QED  BY <2>3, <2>4, <2>5 DEF ServerIInv
<1> QED  BY <1>1, <1>2, <1>3, <1>4, <1>5 DEF Next

\* The inductive invariant always holds.
LEMMA ServerInvariant == Spec => []ServerIInv
<1>1. Init /\ [][Next]_vars => []ServerIInv  BY InitServerIInv, NextServerIInv, PTL
<1> QED  BY <1>1, PTL DEF Spec

(* The server's variables keep their types: the gauge stays between zero    *)
(* and the number of connections, the audit channel within its size.        *)
THEOREM ServerTypeOK == Spec => []TypeOK
<1>1. ServerIInv => TypeOK  BY DEF ServerIInv
<1> QED  BY <1>1, ServerInvariant, PTL

(* Metrics.active_connections is the number of connections that are served  *)
(* or whose task panicked, whatever way the others ended (server.rs 84-102). *)
THEOREM ServerGaugeExact == Spec => []GaugeExact
<1>1. ServerIInv => GaugeExact  BY DEF ServerIInv
<1> QED  BY <1>1, ServerInvariant, PTL

(* Only a shutdown ends the accept loop; dropping the handle does not       *)
(* (state.rs 25, server.rs 105-110).                                        *)
THEOREM ServerDroppedHandleServes == Spec => []DroppedHandleServes
<1>1. ServerIInv => DroppedHandleServes  BY DEF ServerIInv
<1> QED  BY <1>1, ServerInvariant, PTL

(* When the process ends, every record that was decided before `run`        *)
(* returned is in the audit log, unless it found the channel full, could    *)
(* not be written, or was in the channel when the guard gave up; and every  *)
(* span that ended before the exporter was shut down is exported, unless    *)
(* the exporter had no room or its export failed (commands.rs 24-71).       *)
THEOREM ServerFlushedAtExit == Spec => []FlushedAtExit
<1>1. ServerIInv => FlushedAtExit
  <2> SUFFICES ASSUME ServerIInv, phase = "exited" PROVE FlushedAtExit
    BY DEF FlushedAtExit
  <2>1. late \/ ToSet(channel) = {}  BY DEF ServerIInv, InTime, ToSet
  <2>2. /\ guard = "dropped" =>
             timely = ToSet(log) \cup ToSet(channel) \cup overflow \cup unwritten
        /\ tracer = "shut" => traced = exported \cup missed
    BY DEF ServerIInv, InTime
  <2>3. CASE late  BY <2>2, <2>3 DEF FlushedAtExit
  <2>4. CASE ~late  BY <2>1, <2>2, <2>4 DEF FlushedAtExit
  <2> QED  BY <2>3, <2>4
<1> QED  BY <1>1, ServerInvariant, PTL
=============================================================================
