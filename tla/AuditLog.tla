------------------------------- MODULE AuditLog ------------------------------
(***************************************************************************)
(* The NDJSON audit log: SizeRotatingWriter of                             *)
(* guardrail-proxy/src/audit_log.rs, driven by the one background thread   *)
(* of tracing_appender, with system calls that fail, short writes, a clock *)
(* that stands still or steps back, and process restarts.                  *)
(*                                                                         *)
(* Records are numbered in the order the thread receives them, and the     *)
(* parts of a record stand for its bytes: a file is a sequence of          *)
(* <<record, part>>.  What the thread's channel drops when it is full, or  *)
(* holds when the process ends, never gets here.  A process that fails to  *)
(* open the log runs without one, which is the same as one not started.    *)
(* `flush` of a File does nothing and cannot fail.                         *)
(***************************************************************************)
EXTENDS Naturals, Sequences, FiniteSets, Functions

CONSTANTS
  Live,        \* the configured path
  Times,       \* unix timestamps the clock may show
  Lengths,     \* lengths of records
  MaxSize,     \* max_size_mb in bytes
  MaxRecords   \* bound on the records received

ASSUME AuditLogAssumption ==
  /\ Live \notin Times \X Nat
  /\ Lengths \subseteq Nat \ {0}
  /\ MaxSize \in Nat
  /\ MaxRecords \in Nat

VARIABLES
  files,     \* the directory: from the names of its files to their contents
  handle,    \* SizeRotatingState.file: the live file is "open", or "none"
  size,      \* SizeRotatingState.current_size
  step,      \* where the thread is
  name,      \* the name `rotate` has chosen
  record,    \* number of the last record received
  len,       \* its length
  done,      \* the parts of it that are written
  reported   \* records, with lengths, whose write returned Ok (history)

disk    == <<files, reported>>
current == <<record, len, done>>
logVars == <<files, handle, size, step, name, current, reported>>

Names == Times \X Nat     \* <path>.<timestamp>, number 0, or .<timestamp>.<number>
Parts == Nat \X Nat
Steps == {"off", "idle", "write", "rename", "reopen", "append"}

TypeOK ==
  /\ DOMAIN files \subseteq Names \cup {Live} /\ IsFiniteSet(DOMAIN files)
  /\ \A f \in DOMAIN files : files[f] \in Seq(Parts)
  /\ handle \in {"open", "none"}
  /\ size \in Nat
  /\ step \in Steps
  /\ name \in Names \cup {Live}
  /\ record \in 0..MaxRecords /\ len \in Nat /\ done \in 0..len
  /\ reported \subseteq (1..MaxRecords) \X Nat

LogInit ==
  /\ files = [f \in {} |-> <<>>]
  /\ handle = "none" /\ size = 0
  /\ step = "off" /\ name = Live
  /\ record = 0 /\ len = 0 /\ done = 0
  /\ reported = {}

-----------------------------------------------------------------------------
\* The directory with an empty live file in it, unless there is one already.
WithLive == [f \in DOMAIN files \cup {Live} |-> IF f \in DOMAIN files THEN files[f] ELSE <<>>]

\* Mutant of Open: the size of a file that is there already is not asked for.
OpenUnsized ==
  /\ step = "off"
  /\ files' = WithLive
  /\ handle' = "open" /\ size' = 0
  /\ step' = "idle"
  /\ UNCHANGED <<name, current, reported>>

(* The process starts: `SizeRotatingWriter::open`.                         *)
Open ==
  /\ step = "off"
  /\ files' = WithLive
  /\ handle' = "open" /\ size' = Len(WithLive[Live])
  /\ step' = "idle"
  /\ UNCHANGED <<name, current, reported>>

(* The process ends, or is killed, wherever the thread is.                 *)
Exit ==
  /\ step # "off"
  /\ step' = "off" /\ handle' = "none"
  /\ UNCHANGED <<disk, size, name, current>>

(* The thread takes a record from its channel and calls `write_all`.       *)
Receive(n) ==
  /\ step = "idle" /\ record < MaxRecords
  /\ record' = record + 1 /\ len' = n /\ done' = 0
  /\ step' = "write"
  /\ UNCHANGED <<disk, handle, size, name>>

-----------------------------------------------------------------------------
Rest == len - done

\* Mutant of MustRotate: the whole record is counted again after a short write.
MustRotateWhole == size > 0 /\ size + len > MaxSize

\* The condition in `write`: never rotate an empty file.
MustRotate == size > 0 /\ size + Rest > MaxSize

\* Mutant of ChooseName: the timestamp alone.
ChooseTimestamp(t) == name' = <<t, 0>>

\* The first name with this timestamp that is free.
ChooseName(t) ==
  \E n \in 0..Cardinality(DOMAIN files) :
    /\ name' = <<t, n>>
    /\ <<t, n>> \notin DOMAIN files
    /\ \A m \in 0..(n - 1) : <<t, m>> \in DOMAIN files

(* `rotate` up to the rename: the name, and the handle is dropped.         *)
BeginRotation ==
  /\ step = "write" /\ MustRotate
  /\ \E t \in Times : ChooseName(t)
  /\ handle' = "none"
  /\ step' = "rename"
  /\ UNCHANGED <<disk, size, current>>

RenameFile ==
  /\ step = "rename" /\ Live \in DOMAIN files
  /\ files' = [f \in (DOMAIN files \ {Live}) \cup {name} |->
                 IF f = name THEN files[Live] ELSE files[f]]
  /\ step' = "reopen"
  /\ UNCHANGED <<handle, size, name, current, reported>>

Reopen ==
  /\ step = "reopen"
  /\ files' = WithLive
  /\ handle' = "open" /\ size' = 0
  /\ step' = "append"
  /\ UNCHANGED <<name, current, reported>>

\* Mutant of RotationFails: the rotation is tried again at once.
RotationRetried ==
  /\ step \in {"rename", "reopen"}
  /\ step' = "write"
  /\ UNCHANGED <<disk, handle, size, name, current>>

(* The rename, or opening the new file, fails: `write_all` returns the      *)
(* error, the thread goes on to the next record.                           *)
RotationFails ==
  /\ step \in {"rename", "reopen"}
  /\ step' = "idle"
  /\ UNCHANGED <<disk, handle, size, name, current>>

-----------------------------------------------------------------------------
\* `write` gets to the file: no rotation is due, or it has just been done.
AtFile == step = "append" \/ (step = "write" /\ ~MustRotate)

(* There is no file since an earlier rotation failed: an error.            *)
NoFile ==
  /\ AtFile /\ handle = "none"
  /\ step' = "idle"
  /\ UNCHANGED <<disk, handle, size, name, current>>

\* A file with the next k parts of the record at its end.
Extended(file, k) == file \o [i \in 1..k |-> <<record, done + i>>]

\* Mutant of WriteParts: after a short write the whole record is written again.
WriteFromStart(k) ==
  /\ AtFile /\ handle = "open" /\ k \in 1..Rest
  /\ files' = [files EXCEPT ![Live] = @ \o [i \in 1..k |-> <<record, i>>]]
  /\ size' = size + k
  /\ done' = done + k
  /\ step' = IF done' = len THEN "idle" ELSE "write"
  /\ reported' = IF done' = len THEN reported \cup {<<record, len>>} ELSE reported
  /\ UNCHANGED <<handle, name, record, len>>

(* `File::write` takes the next k parts; `write_all` comes back with the    *)
(* rest, if there is one.                                                  *)
WriteParts(k) ==
  /\ AtFile /\ handle = "open" /\ k \in 1..Rest
  /\ files' = [files EXCEPT ![Live] = Extended(@, k)]
  /\ size' = size + k
  /\ done' = done + k
  /\ step' = IF done' = len THEN "idle" ELSE "write"
  /\ reported' = IF done' = len THEN reported \cup {<<record, len>>} ELSE reported
  /\ UNCHANGED <<handle, name, record, len>>

(* `File::write` fails, or writes nothing: an error.                       *)
WriteFails ==
  /\ AtFile /\ handle = "open"
  /\ step' = "idle"
  /\ UNCHANGED <<disk, handle, size, name, current>>

-----------------------------------------------------------------------------
WriteStep ==
  \/ BeginRotation \/ RenameFile \/ Reopen \/ RotationFails
  \/ NoFile \/ WriteFails \/ \E k \in 0..len : WriteParts(k)

LogNext ==
  \/ Open \/ Exit
  \/ \E n \in Lengths : Receive(n)
  \/ WriteStep

LogSpec == LogInit /\ [][LogNext]_logVars

(* System calls return, so a call of `write_all` goes on.  Records need not *)
(* come, and processes neither start nor end by themselves.                 *)
FairLogSpec == LogSpec /\ WF_logVars(WriteStep)

-----------------------------------------------------------------------------
(* Every record that was written without an error is in the log, whole,     *)
(* whatever rotations, failures and restarts came before or after:          *)
(* `rotate` never renames a file over another, and no file is truncated.    *)
NothingLost ==
  \A r \in reported : \A p \in 1..r[2] :
    \E f \in DOMAIN files : <<r[1], p>> \in Range(files[f])

Before(u, v) == u[1] < v[1] \/ (u[1] = v[1] /\ u[2] < v[2])

Ordered(file) == \A i, j \in DOMAIN file : i < j => Before(file[i], file[j])

(* Nothing is in the log twice, every file keeps records and their parts in *)
(* the order in which the thread received them, and a rotation never splits *)
(* a record that fits the limit, however short the writes are.  The source  *)
(* promises that of every record; one longer than the limit is split when   *)
(* its first write is short, since `write_all` comes back with the rest.    *)
WrittenOnce ==
  /\ \A f \in DOMAIN files : Ordered(files[f])
  /\ \A f, g \in DOMAIN files : f # g => Range(files[f]) \cap Range(files[g]) = {}
  /\ \A r \in reported : r[2] <= MaxSize =>
       \E f \in DOMAIN files : \A p \in 1..r[2] : <<r[1], p>> \in Range(files[f])

(* A file, live or rotated, is above the limit only with parts of a single  *)
(* record that is longer than the limit, also when the process was          *)
(* restarted or a rotation failed in between.                               *)
FileBound ==
  \A f \in DOMAIN files :
    \/ Len(files[f]) <= MaxSize
    \/ \A u, v \in Range(files[f]) : u[1] = v[1]

(* What makes them inductive: the size is the live file's, a record that    *)
(* will be written has parts left, what is in the log is older than what    *)
(* comes next, nobody has the file open while it is renamed, the chosen     *)
(* name is free, and the rest of a record that fits goes to the live file,  *)
(* where its first part is.                                                *)
LogProtocol ==
  /\ handle = "open" => Live \in DOMAIN files /\ size = Len(files[Live])
  /\ step = "append" => handle = "open" /\ size = 0
  /\ step \in {"write", "rename", "reopen", "append"} => record > 0 /\ done < len
  /\ step \in {"rename", "reopen"} => handle = "none"
  /\ step = "rename" => name \in Names \ DOMAIN files
  /\ step = "reopen" => Live \notin DOMAIN files
  /\ \A f \in DOMAIN files : \A u \in Range(files[f]) :
       u[1] < record \/ (u[1] = record /\ u[2] <= done)
  /\ step \in {"write", "rename", "reopen", "append"} =>
       \A p \in 1..done : \E f \in DOMAIN files : <<record, p>> \in Range(files[f])
  /\ step \in {"write", "rename", "reopen", "append"} /\ done > 0 /\ len <= MaxSize =>
       /\ step = "write" /\ handle = "open" /\ size + Rest <= MaxSize
       /\ \A p \in 1..done : <<record, p>> \in Range(files[Live])

LogIInv == TypeOK /\ NothingLost /\ WrittenOnce /\ FileBound /\ LogProtocol

(* A call of `write_all` comes to its end, however often it writes short    *)
(* and rotates.                                                             *)
WriteEnds == step = "write" ~> step \in {"idle", "off"}
=============================================================================
