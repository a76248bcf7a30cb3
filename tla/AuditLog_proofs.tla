--------------------------- MODULE AuditLog_proofs ---------------------------
(***************************************************************************)
(* What AuditLog promises for every limit, every record length, any clock  *)
(* and any number of records, rotations, failures and restarts: no record  *)
(* written is lost or doubled, none that fits the limit is split, and files *)
(* keep to the limit.                                                      *)
(***************************************************************************)
EXTENDS AuditLog, FiniteSetTheorems, SequenceTheorems, TLAPS

USE AuditLogAssumption

-----------------------------------------------------------------------------
(* Contents of files.                                                      *)

\* A file that k more parts of the record are written to, part by part.
LEMMA ExtendedFacts ==
  ASSUME NEW c \in Seq(Parts), NEW k \in Nat, record \in Nat, done \in Nat
  PROVE  /\ Extended(c, k) \in Seq(Parts)
         /\ Len(Extended(c, k)) = Len(c) + k
         /\ DOMAIN Extended(c, k) = 1..(Len(c) + k)
         /\ \A i \in 1..Len(c) : Extended(c, k)[i] = c[i]
         /\ \A i \in (Len(c) + 1)..(Len(c) + k) :
              Extended(c, k)[i] = <<record, done + (i - Len(c))>>
<1> DEFINE s == [i \in 1..k |-> <<record, done + i>>]
<1>1. s \in Seq(Parts) /\ Len(s) = k /\ \A i \in 1..k : s[i] = <<record, done + i>>
  BY DEF Parts
<1>2. Extended(c, k) = c \o s  BY DEF Extended
<1>3. Len(c) \in Nat  OBVIOUS
<1> HIDE DEF s
<1>4. /\ c \o s \in Seq(Parts) /\ Len(c \o s) = Len(c) + k
      /\ DOMAIN (c \o s) = 1..(Len(c) + k)
      /\ \A i \in 1..Len(c) : (c \o s)[i] = c[i]
  <2>1. c \o s \in Seq(Parts)  BY <1>1
  <2>2. Len(c \o s) = Len(c) + k  BY <1>1, ConcatProperties
  <2>3. DOMAIN (c \o s) = 1..Len(c \o s)  BY <2>1
  <2>4. \A i \in 1..Len(c) : (c \o s)[i] = c[i]  BY <1>1, <1>3
  <2> QED  BY <2>1, <2>2, <2>3, <2>4
<1>5. ASSUME NEW i \in (Len(c) + 1)..(Len(c) + k)
      PROVE  (c \o s)[i] = <<record, done + (i - Len(c))>>
  <2>1. i - Len(c) \in 1..k  BY <1>3
  <2>2. (c \o s)[i] = s[i - Len(c)]  BY <1>1, <1>3, <2>1
  <2> QED  BY <1>1, <2>1, <2>2
<1> QED  BY <1>2, <1>4, <1>5

\* Writing loses nothing of a file and adds the parts that were written.
LEMMA ExtendedRange ==
  ASSUME NEW c \in Seq(Parts), NEW k \in Nat, record \in Nat, done \in Nat
  PROVE  /\ Range(c) \subseteq Range(Extended(c, k))
         /\ \A p \in 1..k : <<record, done + p>> \in Range(Extended(c, k))
         /\ \A u \in Range(Extended(c, k)) :
              u \in Range(c) \/ \E p \in 1..k : u = <<record, done + p>>
<1> DEFINE x == Extended(c, k)
<1>0. Len(c) \in Nat /\ DOMAIN c = 1..Len(c)  OBVIOUS
<1>1. /\ DOMAIN x = 1..(Len(c) + k)
      /\ \A i \in 1..Len(c) : x[i] = c[i]
      /\ \A i \in (Len(c) + 1)..(Len(c) + k) : x[i] = <<record, done + (i - Len(c))>>
  BY ExtendedFacts
<1> HIDE DEF x
<1>2. Range(c) \subseteq Range(x)
  <2>1. \A i \in DOMAIN c : i \in DOMAIN x /\ x[i] = c[i]  BY <1>0, <1>1
  <2> QED  BY <2>1 DEF Range
<1>3. ASSUME NEW p \in 1..k PROVE <<record, done + p>> \in Range(x)
  <2>1. Len(c) + p \in DOMAIN x /\ (Len(c) + p) - Len(c) = p
        /\ Len(c) + p \in (Len(c) + 1)..(Len(c) + k)
    BY <1>0, <1>1
  <2>2. x[Len(c) + p] = <<record, done + p>>  BY <1>1, <2>1
  <2> QED  BY <2>1, <2>2 DEF Range
<1>4. ASSUME NEW i \in DOMAIN x PROVE x[i] \in Range(c) \/ \E p \in 1..k : x[i] = <<record, done + p>>
  <2>1. CASE i <= Len(c)
    <3>1. i \in DOMAIN c /\ x[i] = c[i]  BY <1>0, <1>1, <2>1
    <3> QED  BY <3>1 DEF Range
  <2>2. CASE i > Len(c)
    <3>1. i - Len(c) \in 1..k /\ x[i] = <<record, done + (i - Len(c))>>  BY <1>0, <1>1, <2>2
    <3> QED  BY <3>1
  <2> QED  BY <1>0, <1>1, <2>1, <2>2
<1>5. \A u \in Range(x) : u \in Range(c) \/ \E p \in 1..k : u = <<record, done + p>>
  BY <1>4 DEF Range
<1> QED  BY <1>2, <1>3, <1>5 DEF x

(* The directory with a live file.                                         *)
LEMMA WithLiveFacts ==
  /\ DOMAIN WithLive = DOMAIN files \cup {Live}
  /\ \A f \in DOMAIN files : WithLive[f] = files[f]
  /\ Live \notin DOMAIN files => WithLive[Live] = <<>> /\ Range(WithLive[Live]) = {}
BY DEF WithLive, Range

-----------------------------------------------------------------------------
\* The invariant holds before the first process starts.
LEMMA InitLogIInv == LogInit => LogIInv
<1> SUFFICES ASSUME LogInit PROVE LogIInv  OBVIOUS
<1>1. DOMAIN files = {} /\ reported = {}  BY DEF LogInit
<1>2. IsFiniteSet(DOMAIN files)  BY <1>1, FS_EmptySet
<1>3. TypeOK
  <2>1. record \in 0..MaxRecords /\ done \in 0..len /\ len \in Nat /\ size \in Nat
    BY DEF LogInit
  <2>2. step \in Steps /\ handle \in {"open", "none"} /\ name \in Names \cup {Live}
    BY DEF LogInit, Steps
  <2> QED  BY <1>1, <1>2, <2>1, <2>2 DEF TypeOK
<1>4. NothingLost /\ WrittenOnce /\ FileBound
  BY <1>1 DEF NothingLost, WrittenOnce, FileBound
<1>5. LogProtocol  BY <1>1 DEF LogInit, LogProtocol
<1> QED  BY <1>3, <1>4, <1>5 DEF LogIInv

(* Steps that leave the directory alone.                                   *)
LEMMA LogKept ==
  ASSUME LogIInv, UNCHANGED disk, TypeOK', LogProtocol'
  PROVE  LogIInv'
BY DEF LogIInv, disk, NothingLost, WrittenOnce, FileBound

(* Steps that leave the files and the record alone and end the call.        *)
LEMMA CallEnds ==
  ASSUME LogIInv, UNCHANGED <<disk, size, name, current>>,
         handle' \in {handle, "none"}, step' \in {"off", "idle"}
  PROVE  LogIInv'
<1>1. TypeOK'  BY DEF LogIInv, TypeOK, disk, current, Steps
<1>2. LogProtocol'  BY DEF LogIInv, TypeOK, LogProtocol, disk, current
<1> QED  BY <1>1, <1>2, LogKept

(* `open` of the live file.                                                *)
LEMMA OpenLive ==
  ASSUME LogIInv, files' = WithLive, UNCHANGED <<name, current, reported>>,
         handle' = "open", size' = Len(WithLive[Live]),
         \/ step' = "idle"
         \/ step' = "append" /\ step = "reopen"
  PROVE  LogIInv'
<1>0. /\ DOMAIN files \subseteq Names \cup {Live} /\ IsFiniteSet(DOMAIN files)
      /\ \A f \in DOMAIN files : files[f] \in Seq(Parts)
  BY DEF LogIInv, TypeOK
<1>1. /\ DOMAIN files' = DOMAIN files \cup {Live}
      /\ \A f \in DOMAIN files : files'[f] = files[f]
      /\ Live \notin DOMAIN files => files'[Live] = <<>> /\ Range(files'[Live]) = {}
  BY WithLiveFacts
<1>2. \A f \in DOMAIN files' : files'[f] \in Seq(Parts)
  <2>1. <<>> \in Seq(Parts)  OBVIOUS
  <2> QED  BY <1>0, <1>1, <2>1
<1>3. TypeOK'
  <2>1. IsFiniteSet(DOMAIN files')  BY <1>0, <1>1, FS_AddElement
  <2>2. size' \in Nat  BY <1>1, <1>2
  <2> QED  BY <1>0, <1>1, <1>2, <2>1, <2>2 DEF LogIInv, TypeOK, current, Steps
<1>4. NothingLost'  BY <1>1 DEF LogIInv, NothingLost
<1>5. WrittenOnce'
  <2>1. \A f \in DOMAIN files' : Ordered(files'[f])
    BY <1>1 DEF LogIInv, WrittenOnce, Ordered
  <2>2. \A f, g \in DOMAIN files' : f # g => Range(files'[f]) \cap Range(files'[g]) = {}
    BY <1>1 DEF LogIInv, WrittenOnce
  <2>3. \A r \in reported' : r[2] <= MaxSize =>
          \E f \in DOMAIN files' : \A p \in 1..r[2] : <<r[1], p>> \in Range(files'[f])
    BY <1>1 DEF LogIInv, WrittenOnce
  <2> QED  BY <2>1, <2>2, <2>3 DEF WrittenOnce
<1>6. FileBound'
  BY <1>1 DEF LogIInv, FileBound
<1>7. LogProtocol'
  <2>1. step = "reopen" => size' = 0  BY <1>1 DEF LogIInv, LogProtocol
  <2>2. \A f \in DOMAIN files' : \A u \in Range(files'[f]) :
          u[1] < record \/ (u[1] = record /\ u[2] <= done)
    BY <1>1 DEF LogIInv, LogProtocol
  <2>3. step = "reopen" =>
          \A p \in 1..done : \E f \in DOMAIN files' : <<record, p>> \in Range(files'[f])
    BY <1>1 DEF LogIInv, LogProtocol
  <2>4. step = "reopen" => record > 0 /\ done < len  BY DEF LogIInv, LogProtocol
  <2>5. record' = record /\ done' = done /\ len' = len  BY DEF current
  <2>6. step = "reopen" => ~(done > 0 /\ len <= MaxSize)  BY DEF LogIInv, LogProtocol
  <2> QED  BY <1>1, <2>1, <2>2, <2>3, <2>4, <2>5, <2>6 DEF LogProtocol
<1> QED  BY <1>3, <1>4, <1>5, <1>6, <1>7 DEF LogIInv

\* A rename moves the live file to a name that is free, and nothing is lost.
LEMMA RenameStep ==
  ASSUME LogIInv, RenameFile
  PROVE  LogIInv'
<1>0. /\ DOMAIN files \subseteq Names \cup {Live} /\ IsFiniteSet(DOMAIN files)
      /\ \A f \in DOMAIN files : files[f] \in Seq(Parts)
      /\ Live \in DOMAIN files /\ name \in Names \ DOMAIN files /\ Live \notin Names
      /\ step = "rename"
  BY DEF LogIInv, TypeOK, RenameFile, LogProtocol, Names
<1> DEFINE old(f) == IF f = name THEN Live ELSE f
<1>1. /\ DOMAIN files' = (DOMAIN files \ {Live}) \cup {name}
      /\ \A f \in DOMAIN files' : files'[f] = files[old(f)] /\ old(f) \in DOMAIN files
      /\ \A f, g \in DOMAIN files' : f # g => old(f) # old(g)
      /\ \A f \in DOMAIN files : \E g \in DOMAIN files' : files'[g] = files[f]
  BY <1>0 DEF RenameFile
<1> HIDE DEF old
<1>2. UNCHANGED <<handle, size, name, record, len, done, reported>> /\ step' = "reopen"
  BY DEF RenameFile, current
<1>3. TypeOK'
  <2>1. IsFiniteSet(DOMAIN files \ {Live})  BY <1>0, FS_RemoveElement
  <2>2. IsFiniteSet((DOMAIN files \ {Live}) \cup {name})  BY <2>1, FS_AddElement
  <2>3. IsFiniteSet(DOMAIN files')  BY <1>1, <2>2
  <2> QED  BY <1>0, <1>1, <1>2, <2>3 DEF LogIInv, TypeOK, Steps
<1>4. NothingLost'  BY <1>1, <1>2 DEF LogIInv, NothingLost
<1>5. WrittenOnce'
  <2>1. \A f \in DOMAIN files' : Ordered(files'[f])
    BY <1>1 DEF LogIInv, WrittenOnce, Ordered
  <2>2. \A f, g \in DOMAIN files' : f # g => Range(files'[f]) \cap Range(files'[g]) = {}
    BY <1>1 DEF LogIInv, WrittenOnce
  <2>3. \A r \in reported' : r[2] <= MaxSize =>
          \E f \in DOMAIN files' : \A p \in 1..r[2] : <<r[1], p>> \in Range(files'[f])
    BY <1>1, <1>2 DEF LogIInv, WrittenOnce
  <2> QED  BY <2>1, <2>2, <2>3 DEF WrittenOnce
<1>6. FileBound'  BY <1>1 DEF LogIInv, FileBound
<1>7. LogProtocol'
  <2>1. Live \notin DOMAIN files'  BY <1>0, <1>1
  <2>2. handle = "none"
    BY <1>0 DEF LogIInv, LogProtocol, TypeOK
  <2>3. \A f \in DOMAIN files' : \A u \in Range(files'[f]) :
          u[1] < record \/ (u[1] = record /\ u[2] <= done)
    BY <1>1 DEF LogIInv, LogProtocol
  <2>4. \A p \in 1..done : \E f \in DOMAIN files' : <<record, p>> \in Range(files'[f])
    BY <1>0, <1>1 DEF LogIInv, LogProtocol
  <2>5. record > 0 /\ done < len  BY <1>0 DEF LogIInv, LogProtocol
  <2>6. ~(done > 0 /\ len <= MaxSize)  BY <1>0 DEF LogIInv, LogProtocol
  <2> QED  BY <1>2, <2>1, <2>2, <2>3, <2>4, <2>5, <2>6 DEF LogProtocol
<1> QED  BY <1>3, <1>4, <1>5, <1>6, <1>7 DEF LogIInv

\* What is known when parts of a record are written.
LEMMA WriteStepFacts ==
  ASSUME LogIInv, NEW k \in 1..Rest, WriteParts(k)
  PROVE  /\ files[Live] \in Seq(Parts) /\ Live \in DOMAIN files
         /\ k \in Nat /\ k >= 1 /\ record \in 1..MaxRecords /\ record \in Nat /\ done \in Nat
         /\ len \in Nat /\ done + k <= len /\ done + k \in 0..len
         /\ DOMAIN files' = DOMAIN files
         /\ files'[Live] = Extended(files[Live], k)
         /\ \A f \in DOMAIN files : f # Live => files'[f] = files[f]
<1>1. /\ record \in 0..MaxRecords /\ len \in Nat /\ done \in 0..len /\ handle = "open"
      /\ step \in {"append", "write"}
  BY DEF LogIInv, TypeOK, WriteParts, AtFile
<1>2. record > 0 /\ Live \in DOMAIN files  BY <1>1 DEF LogIInv, LogProtocol
<1>3. files[Live] \in Seq(Parts)  BY <1>2 DEF LogIInv, TypeOK
<1>4. k \in Nat /\ k >= 1 /\ done + k <= len /\ done + k \in 0..len  BY <1>1 DEF Rest
<1>5. /\ DOMAIN files' = DOMAIN files /\ files'[Live] = Extended(files[Live], k)
      /\ \A f \in DOMAIN files : f # Live => files'[f] = files[f]
  BY <1>2 DEF WriteParts
<1>6. record \in 1..MaxRecords /\ record \in Nat /\ done \in Nat  BY <1>1, <1>2
<1> QED  BY <1>1, <1>2, <1>3, <1>4, <1>5, <1>6

\* A record that fits the limit stays in one file, and the rest of it fits there.
LEMMA WriteKeepsWhole ==
  ASSUME LogIInv, NEW k \in 1..Rest, WriteParts(k), len <= MaxSize
  PROVE  /\ size + Rest <= MaxSize
         /\ \A p \in 1..(done + k) : <<record, p>> \in Range(files'[Live])
<1> USE WriteStepFacts
<1>1. /\ step \in {"append", "write"} /\ handle = "open" /\ size \in Nat
      /\ step = "append" => size = 0
      /\ step = "write" => ~MustRotate
  BY DEF LogIInv, TypeOK, LogProtocol, WriteParts, AtFile
<1>2. size = 0 => size + Rest <= MaxSize  BY DEF Rest
<1>3. size + Rest <= MaxSize
  <2>1. Rest \in Nat /\ MaxSize \in Nat  BY DEF Rest
  <2> QED  BY <1>1, <1>2, <2>1 DEF MustRotate
<1>4. ASSUME NEW p \in 1..(done + k) PROVE <<record, p>> \in Range(files'[Live])
  <2>1. CASE p <= done
    <3>1. done > 0 /\ p \in 1..done  BY <2>1
    <3>2. <<record, p>> \in Range(files[Live])  BY <1>1, <3>1 DEF LogIInv, LogProtocol
    <3> QED  BY <3>2, ExtendedRange
  <2>2. CASE p > done
    <3>1. p - done \in 1..k /\ done + (p - done) = p  BY <2>2
    <3> QED  BY <3>1, ExtendedRange
  <2> QED  BY <2>1, <2>2
<1> QED  BY <1>3, <1>4

(* The parts a write adds come after everything in the log.                *)
LEMMA WriteKeepsOrder ==
  ASSUME LogIInv, NEW k \in 1..Rest, WriteParts(k)
  PROVE  WrittenOnce'
<1> USE WriteStepFacts
<1>0. \A f \in DOMAIN files : \A u \in Range(files[f]) :
        u[1] < record \/ (u[1] = record /\ u[2] <= done)
  BY DEF LogIInv, LogProtocol
<1>1. ASSUME NEW f \in DOMAIN files' PROVE Ordered(files'[f])
  <2>1. CASE f # Live  BY <1>1, <2>1 DEF LogIInv, WrittenOnce
  <2>2. CASE f = Live
    <3> DEFINE c == files[Live]
               x == Extended(c, k)
    <3>1. Ordered(c) /\ c \in Seq(Parts) /\ Len(c) \in Nat /\ DOMAIN c = 1..Len(c)
      BY DEF LogIInv, WrittenOnce
    <3>2. /\ DOMAIN x = 1..(Len(c) + k)
          /\ \A i \in 1..Len(c) : x[i] = c[i]
          /\ \A i \in (Len(c) + 1)..(Len(c) + k) : x[i] = <<record, done + (i - Len(c))>>
      BY ExtendedFacts
    <3>3. \A i \in DOMAIN c : c[i] \in Nat \X Nat /\ c[i] \in Range(c)
      BY <3>1 DEF Parts, Range
    <3>4. \A i \in 1..Len(c) : /\ c[i][1] \in Nat /\ c[i][2] \in Nat
                               /\ c[i][1] < record \/ (c[i][1] = record /\ c[i][2] <= done)
      BY <1>0, <3>1, <3>3
    <3> HIDE DEF c, x
    <3>5. ASSUME NEW i \in DOMAIN x, NEW j \in DOMAIN x, i < j PROVE Before(x[i], x[j])
      <4>0. i \in Nat /\ j \in Nat /\ Len(c) \in Nat  BY <3>1, <3>2
      <4>1. CASE j <= Len(c)
        <5>1. i \in DOMAIN c /\ j \in DOMAIN c /\ x[i] = c[i] /\ x[j] = c[j]
          BY <3>1, <3>2, <3>5, <4>0, <4>1
        <5> QED  BY <3>1, <3>5, <5>1 DEF Ordered
      <4>2. CASE i <= Len(c) /\ j > Len(c)
        <5>1. x[j] = <<record, done + (j - Len(c))>> /\ j - Len(c) >= 1
          BY <3>2, <4>0, <4>2
        <5>2. i \in 1..Len(c) /\ x[i] = c[i]  BY <3>2, <4>0, <4>2
        <5> QED  BY <3>4, <4>0, <5>1, <5>2 DEF Before
      <4>3. CASE i > Len(c)
        <5>1. x[i] = <<record, done + (i - Len(c))>> /\ x[j] = <<record, done + (j - Len(c))>>
          BY <3>2, <3>5, <4>0, <4>3
        <5> QED  BY <3>5, <4>0, <5>1 DEF Before
      <4> QED  BY <4>0, <4>1, <4>2, <4>3
    <3>6. Ordered(x)  BY <3>5 DEF Ordered
    <3>7. files'[f] = x  BY <2>2 DEF x, c
    <3> QED  BY <3>6, <3>7
  <2> QED  BY <2>1, <2>2
<1>2. ASSUME NEW f \in DOMAIN files', NEW g \in DOMAIN files', f # g
      PROVE  Range(files'[f]) \cap Range(files'[g]) = {}
  <2>1. ASSUME NEW h \in DOMAIN files, h # Live
        PROVE  Range(files'[Live]) \cap Range(files'[h]) = {}
    <3>1. files'[h] = files[h] /\ Range(files[Live]) \cap Range(files[h]) = {}
      BY <2>1 DEF LogIInv, WrittenOnce
    <3>2. \A p \in 1..k : <<record, done + p>> \notin Range(files[h])
      BY <1>0
    <3>3. \A u \in Range(files'[Live]) :
            u \in Range(files[Live]) \/ \E p \in 1..k : u = <<record, done + p>>
      BY ExtendedRange
    <3> QED  BY <3>1, <3>2, <3>3
  <2>2. CASE f # Live /\ g # Live
    BY <1>2, <2>2 DEF LogIInv, WrittenOnce
  <2> QED  BY <1>2, <2>1, <2>2
<1>3. \A r \in reported' : r[2] <= MaxSize =>
        \E f \in DOMAIN files' : \A p \in 1..r[2] : <<r[1], p>> \in Range(files'[f])
  <2>1. \A f \in DOMAIN files : Range(files[f]) \subseteq Range(files'[f])  BY ExtendedRange
  <2>2. \A r \in reported : r[2] <= MaxSize =>
          \E f \in DOMAIN files' : \A p \in 1..r[2] : <<r[1], p>> \in Range(files'[f])
    BY <2>1 DEF LogIInv, WrittenOnce
  <2>3. CASE reported' = reported  BY <2>2, <2>3
  <2>4. CASE reported' = reported \cup {<<record, len>>} /\ done + k = len
    <3>1. len <= MaxSize => \A p \in 1..len : <<record, p>> \in Range(files'[Live])
      BY <2>4, WriteKeepsWhole
    <3>2. Live \in DOMAIN files'  OBVIOUS
    <3> QED  BY <2>2, <2>4, <3>1, <3>2
  <2> QED  BY <2>3, <2>4 DEF WriteParts
<1> QED  BY <1>1, <1>2, <1>3 DEF WrittenOnce

(* A write that no rotation precedes fits, or is the first of its file.     *)
LEMMA WriteKeepsBound ==
  ASSUME LogIInv, NEW k \in 1..Rest, WriteParts(k)
  PROVE  FileBound'
<1> USE WriteStepFacts
<1>1. ASSUME NEW f \in DOMAIN files', f # Live
      PROVE  Len(files'[f]) <= MaxSize \/ \A u, v \in Range(files'[f]) : u[1] = v[1]
  BY <1>1 DEF LogIInv, FileBound
<1>2. size \in Nat /\ size = Len(files[Live]) /\ Len(files'[Live]) = size + k
  <2>1. size \in Nat /\ size = Len(files[Live])
    BY DEF LogIInv, TypeOK, LogProtocol, WriteParts
  <2> QED  BY <2>1, ExtendedFacts
<1>3. CASE size = 0
  <2>1. Range(files[Live]) = {}
    <3>1. files[Live] \in Seq(Parts) /\ Len(files[Live]) = 0  BY <1>2, <1>3
    <3>2. DOMAIN files[Live] = {}  BY <3>1
    <3> QED  BY <3>2 DEF Range
  <2>2. \A u \in Range(files'[Live]) : \E p \in 1..k : u = <<record, done + p>>
    BY <2>1, ExtendedRange
  <2>3. \A u \in Range(files'[Live]) : u[1] = record  BY <2>2
  <2> QED  BY <1>1, <2>3 DEF FileBound
<1>4. CASE size # 0
  <2>1. ~MustRotate  BY <1>4 DEF WriteParts, AtFile, LogIInv, LogProtocol
  <2>2. size + k <= MaxSize
    <3>1. Rest \in Nat /\ k <= Rest  BY DEF Rest
    <3> QED  BY <1>2, <1>4, <2>1, <3>1 DEF MustRotate
  <2> QED  BY <1>1, <1>2, <2>2 DEF FileBound
<1> QED  BY <1>3, <1>4

(* What is written stays, and the record's parts are all there at its end.  *)
LEMMA WriteKeepsParts ==
  ASSUME LogIInv, NEW k \in 1..Rest, WriteParts(k)
  PROVE  /\ NothingLost'
         /\ \A p \in 1..(done + k) : \E f \in DOMAIN files' : <<record, p>> \in Range(files'[f])
         /\ \A f \in DOMAIN files' : \A u \in Range(files'[f]) :
              u[1] < record \/ (u[1] = record /\ u[2] <= done + k)
<1> USE WriteStepFacts
<1>1. \A f \in DOMAIN files : Range(files[f]) \subseteq Range(files'[f])
  BY ExtendedRange
<1>2. ASSUME NEW p \in 1..(done + k)
      PROVE  \E f \in DOMAIN files' : <<record, p>> \in Range(files'[f])
  <2>1. CASE p <= done
    BY <1>1, <2>1 DEF LogIInv, LogProtocol, WriteParts, AtFile
  <2>2. CASE p > done
    <3>1. p - done \in 1..k /\ done + (p - done) = p  BY <2>2
    <3>2. <<record, p>> \in Range(files'[Live])  BY <3>1, ExtendedRange
    <3> QED  BY <3>2
  <2> QED  BY <2>1, <2>2
<1>3. ASSUME NEW f \in DOMAIN files', NEW u \in Range(files'[f])
      PROVE  u[1] < record \/ (u[1] = record /\ u[2] <= done + k)
  <2>1. u \in Range(files[f]) \/ \E p \in 1..k : u = <<record, done + p>>
    BY <1>3, ExtendedRange
  <2>2. CASE u \in Range(files[f])
    <3>1. u \in Nat \X Nat
      <4>1. files[f] \in Seq(Parts)  BY DEF LogIInv, TypeOK
      <4> QED  BY <2>2, <4>1 DEF Range, Parts
    <3>2. u[1] < record \/ (u[1] = record /\ u[2] <= done)  BY <2>2 DEF LogIInv, LogProtocol
    <3> QED  BY <3>1, <3>2
  <2>3. CASE \E p \in 1..k : u = <<record, done + p>>  BY <2>3
  <2> QED  BY <2>1, <2>2, <2>3
<1>4. NothingLost'
  <2>1. \A r \in reported : \A p \in 1..r[2] :
          \E f \in DOMAIN files' : <<r[1], p>> \in Range(files'[f])
    BY <1>1 DEF LogIInv, NothingLost
  <2>2. CASE reported' = reported  BY <2>1, <2>2 DEF NothingLost
  <2>3. CASE reported' = reported \cup {<<record, len>>} /\ done + k = len
    BY <1>2, <2>1, <2>3 DEF NothingLost
  <2> QED  BY <2>2, <2>3 DEF WriteParts
<1> QED  BY <1>2, <1>3, <1>4

\* Parts of a record are written behind what is there.
LEMMA WritePartsStep ==
  ASSUME LogIInv, NEW k \in 1..Rest, WriteParts(k)
  PROVE  LogIInv'
<1> USE WriteStepFacts
<1>1. /\ UNCHANGED <<handle, name, record, len>>
      /\ done' = done + k /\ size' = size + k /\ step' = IF done' = len THEN "idle" ELSE "write"
      /\ handle = "open" /\ size \in Nat
  BY DEF WriteParts, LogIInv, TypeOK
<1>2. TypeOK'
  <2>1. Extended(files[Live], k) \in Seq(Parts)  BY ExtendedFacts
  <2>2. \A f \in DOMAIN files' : files'[f] \in Seq(Parts)
    BY <2>1 DEF LogIInv, TypeOK
  <2>3. reported' \subseteq (1..MaxRecords) \X Nat
    <3>1. <<record, len>> \in (1..MaxRecords) \X Nat  OBVIOUS
    <3>2. reported \subseteq (1..MaxRecords) \X Nat  BY DEF LogIInv, TypeOK
    <3>3. reported' \in {reported, reported \cup {<<record, len>>}}  BY DEF WriteParts
    <3> QED  BY <3>1, <3>2, <3>3
  <2>4. size' \in Nat /\ done' \in 0..len'  BY <1>1
  <2> QED  BY <1>1, <2>2, <2>3, <2>4 DEF LogIInv, TypeOK, Steps
<1>3. LogProtocol'
  <2>1. size' = Len(files'[Live]) /\ Live \in DOMAIN files'
    <3>1. Len(Extended(files[Live], k)) = Len(files[Live]) + k  BY ExtendedFacts
    <3>2. size = Len(files[Live])  BY <1>1 DEF LogIInv, LogProtocol
    <3> QED  BY <1>1, <3>1, <3>2
  <2>2. step' = "write" => record > 0 /\ done + k < len  BY <1>1
  <2>3. step' \in {"idle", "write"}  BY <1>1
  <2>4. len <= MaxSize =>
          /\ size' + (len - done') <= MaxSize
          /\ \A p \in 1..done' : <<record, p>> \in Range(files'[Live])
    <3> SUFFICES ASSUME len <= MaxSize
                 PROVE  /\ size' + (len - done') <= MaxSize
                        /\ \A p \in 1..done' : <<record, p>> \in Range(files'[Live])
      OBVIOUS
    <3>1. /\ size + (len - done) <= MaxSize
          /\ \A p \in 1..(done + k) : <<record, p>> \in Range(files'[Live])
      BY WriteKeepsWhole DEF Rest
    <3> QED  BY <1>1, <3>1
  <2> QED  BY <1>1, <2>1, <2>2, <2>3, <2>4, WriteKeepsParts DEF LogProtocol, Rest
<1> QED  BY <1>2, <1>3, WriteKeepsOrder, WriteKeepsBound, WriteKeepsParts DEF LogIInv

\* Every step of the writer keeps the invariant.
LEMMA NextLogIInv == LogIInv /\ [LogNext]_logVars => LogIInv'
<1> SUFFICES ASSUME LogIInv, [LogNext]_logVars PROVE LogIInv'  OBVIOUS
<1>1. CASE Open  BY <1>1, OpenLive DEF Open
<1>2. CASE Exit  BY <1>2, CallEnds DEF Exit, LogIInv, TypeOK
<1>3. ASSUME NEW n \in Lengths, Receive(n) PROVE LogIInv'
  <2>1. /\ UNCHANGED <<disk, handle, size, name>> /\ step' = "write"
        /\ record' = record + 1 /\ len' = n /\ done' = 0 /\ n \in Nat /\ n > 0
        /\ record \in 0..MaxRecords /\ record < MaxRecords
    <3>1. n \in Nat /\ n > 0  OBVIOUS
    <3> QED  BY <1>3, <3>1 DEF Receive, LogIInv, TypeOK
  <2>2. TypeOK'
    <3>1. record' \in 0..MaxRecords /\ done' \in 0..len'  BY <2>1
    <3> QED  BY <2>1, <3>1 DEF LogIInv, TypeOK, disk, Steps
  <2>3. LogProtocol'
    <3>1. \A f \in DOMAIN files' : \A u \in Range(files'[f]) : u[1] < record'
      <4>1. SUFFICES ASSUME NEW f \in DOMAIN files, NEW u \in Range(files[f]) PROVE u[1] < record + 1
        BY <2>1 DEF disk
      <4>2. files[f] \in Seq(Nat \X Nat)  BY DEF LogIInv, TypeOK, Parts
      <4>3. u \in Nat \X Nat  BY <4>2 DEF Range
      <4>4. u[1] <= record  BY <2>1, <4>3 DEF LogIInv, LogProtocol
      <4> QED  BY <2>1, <4>3, <4>4
    <3> QED  BY <2>1, <3>1 DEF LogIInv, LogProtocol, disk
  <2> QED  BY <2>1, <2>2, <2>3, LogKept
<1>4. CASE BeginRotation
  <2>1. /\ UNCHANGED <<disk, size, current>> /\ step = "write" /\ step' = "rename"
        /\ handle' = "none"
    BY <1>4 DEF BeginRotation
  <2>2. name' \in Names \ DOMAIN files
    <3>1. PICK t \in Times : ChooseName(t)  BY <1>4 DEF BeginRotation
    <3>2. Cardinality(DOMAIN files) \in Nat
      BY FS_CardinalityType DEF LogIInv, TypeOK
    <3> QED  BY <3>1, <3>2 DEF ChooseName, Names
  <2>3. TypeOK'  BY <2>1, <2>2 DEF LogIInv, TypeOK, disk, current, Steps
  <2>5. ~(done > 0 /\ len <= MaxSize)
    <3>1. MustRotate /\ step = "write"  BY <1>4 DEF BeginRotation
    <3>2. size + Rest > MaxSize  BY <3>1 DEF MustRotate
    <3>3. size \in Nat /\ Rest \in Int /\ MaxSize \in Nat  BY DEF LogIInv, TypeOK, Rest
    <3> QED  BY <3>1, <3>2, <3>3 DEF LogIInv, LogProtocol
  <2>4. LogProtocol'  BY <2>1, <2>2, <2>5 DEF LogIInv, LogProtocol, disk, current
  <2> QED  BY <2>1, <2>3, <2>4, LogKept
<1>5. CASE RenameFile  BY <1>5, RenameStep
<1>6. CASE Reopen
  <2>1. Live \notin DOMAIN files  BY <1>6 DEF Reopen, LogIInv, LogProtocol
  <2>2. Len(WithLive[Live]) = 0  BY <2>1, WithLiveFacts
  <2> QED  BY <1>6, <2>2, OpenLive DEF Reopen, LogIInv, TypeOK
<1>7. CASE RotationFails  BY <1>7, CallEnds DEF RotationFails
<1>8. CASE NoFile \/ WriteFails  BY <1>8, CallEnds DEF NoFile, WriteFails, LogIInv, TypeOK
<1>9. ASSUME NEW k \in 0..len, WriteParts(k) PROVE LogIInv'
  BY <1>9, WritePartsStep DEF WriteParts
<1>10. CASE UNCHANGED logVars
  <2>1. TypeOK'  BY <1>10 DEF logVars, current, LogIInv, TypeOK
  <2>2. LogProtocol'  BY <1>10 DEF logVars, current, LogIInv, LogProtocol, Rest
  <2> QED  BY <1>10, <2>1, <2>2, LogKept DEF logVars, disk
<1> QED
  BY <1>1, <1>2, <1>3, <1>4, <1>5, <1>6, <1>7, <1>8, <1>9, <1>10 DEF LogNext, WriteStep

\* The inductive invariant always holds.
THEOREM LogInvariant == LogSpec => []LogIInv
BY InitLogIInv, NextLogIInv, PTL DEF LogSpec

(* The writer's variables keep their types.                                *)
THEOREM LogTypes == LogSpec => []TypeOK
<1>1. LogIInv => TypeOK  BY DEF LogIInv
<1> QED  BY <1>1, LogInvariant, PTL

(* No record that was written without an error is ever lost: not by a       *)
(* rotation, not by a failure in the middle of one, not by a restart.       *)
THEOREM LogNothingLost == LogSpec => []NothingLost
<1>1. LogIInv => NothingLost  BY DEF LogIInv
<1> QED  BY <1>1, LogInvariant, PTL

(* Nothing is written twice or out of order, and no record that fits the    *)
(* limit is split between two files.                                       *)
THEOREM LogWrittenOnce == LogSpec => []WrittenOnce
<1>1. LogIInv => WrittenOnce  BY DEF LogIInv
<1> QED  BY <1>1, LogInvariant, PTL

(* Only a record longer than the limit makes a file longer than the limit.  *)
THEOREM LogFileBound == LogSpec => []FileBound
<1>1. LogIInv => FileBound  BY DEF LogIInv
<1> QED  BY <1>1, LogInvariant, PTL
=============================================================================
