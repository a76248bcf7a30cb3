----------------------------- MODULE ConfigHandle ----------------------------
(***************************************************************************)
(* Hot reload: the ConfigHandle of guardrail-config/src/loader.rs, the     *)
(* file it is loaded from and the SIGHUP task of guardrail-cli.            *)
(*                                                                         *)
(* The handle is three ArcSwaps: configuration, request pipeline and       *)
(* response redactor.  Readers load any of them at any moment, without a   *)
(* lock.  `reload` reads the file, builds a pipeline and a redactor from   *)
(* it, and then stores the three one after the other; every failure comes  *)
(* before the first store.                                                 *)
(*                                                                         *)
(* A version stands for the content of the file and of the rule, model and *)
(* environment settings it names; `version` in a cell says what the cell   *)
(* was built from, `gen` (history) which reload stored it.  SIGHUPs that   *)
(* arrive while one is pending coalesce, as in tokio's signal stream; one  *)
(* that arrives during a reload is served after it.  In the program only   *)
(* the SIGHUP task calls `reload`.                                         *)
(***************************************************************************)
EXTENDS Naturals, FiniteSets

CONSTANTS
  Versions,    \* contents the configuration file may have
  Unloadable,  \* load_config fails on them: unreadable, unparsable, invalid
  Unbuildable, \* build_pipeline fails: a rule, a pattern, a model file
  Unredactable,\* build_response_redactor fails: nothing a valid file says
  MaxReloads   \* bound on the SIGHUPs that are sent

ASSUME ReloadAssumption ==
  /\ Unloadable \cup Unbuildable \cup Unredactable \subseteq Versions
  /\ MaxReloads \in Nat

VARIABLES
  disk,      \* the version in the file
  config,    \* ConfigHandle.config
  pipeline,  \* ConfigHandle.pipeline
  redactor,  \* ConfigHandle.response_redactor
  hup,       \* a SIGHUP is pending
  phase,     \* where the SIGHUP task is in `reload`
  fresh,     \* the version it has loaded
  sighups,   \* SIGHUPs sent so far (bounded)
  due        \* a SIGHUP was sent since the file was last edited (history)

cells      == <<config, pipeline, redactor>>
handleVars == <<disk, cells, hup, phase, fresh, sighups, due>>

\* Versions that a reload takes up.
Usable == Versions \ (Unloadable \cup Unbuildable \cup Unredactable)

Phases == {"idle", "load", "buildPipeline", "buildRedactor",
           "storeConfig", "storePipeline", "storeRedactor"}

Cells == [version : Versions, gen : 0..MaxReloads]

HandleTypeOK ==
  /\ disk \in Versions
  /\ config \in Cells /\ pipeline \in Cells /\ redactor \in Cells
  /\ hup \in BOOLEAN /\ due \in BOOLEAN
  /\ phase \in Phases
  /\ fresh \in Versions
  /\ sighups \in 0..MaxReloads

\* The versions behind the three cells.
InUse == {config.version, pipeline.version, redactor.version}

-----------------------------------------------------------------------------
(* The operator: edits the file, sends SIGHUP.                             *)
Edit(v) ==
  /\ disk' = v
  /\ due' = FALSE
  /\ UNCHANGED <<cells, hup, phase, fresh, sighups>>

\* Mutant of Sighup: a signal during a reload is not kept.
SighupDropped ==
  /\ sighups < MaxReloads
  /\ sighups' = sighups + 1
  /\ hup' = (hup \/ phase = "idle")
  /\ due' = TRUE
  /\ UNCHANGED <<disk, cells, phase, fresh>>

Sighup ==
  /\ sighups < MaxReloads
  /\ sighups' = sighups + 1
  /\ hup' = TRUE
  /\ due' = TRUE
  /\ UNCHANGED <<disk, cells, phase, fresh>>

(* `sighup.recv()` returns: the task reloads.                              *)
ServeSighup ==
  /\ hup /\ phase = "idle"
  /\ hup' = FALSE
  /\ phase' = "load"
  /\ UNCHANGED <<disk, cells, fresh, sighups, due>>

-----------------------------------------------------------------------------
(* `reload`.  Reading, parsing and building touch nothing that is shared;  *)
(* any of them may fail, which ends the call.                              *)
AdvanceTo(v, bad, next) == phase' = IF v \in bad THEN "idle" ELSE next

LoadConfig ==
  /\ phase = "load"
  /\ fresh' = disk
  /\ AdvanceTo(disk, Unloadable, "buildPipeline")
  /\ UNCHANGED <<disk, cells, hup, sighups, due>>

\* Mutant of BuildPipeline: its failure is logged and the reload goes on.
BuildPipelineOrNot ==
  /\ phase = "buildPipeline"
  /\ phase' = "buildRedactor"
  /\ UNCHANGED <<disk, cells, hup, fresh, sighups, due>>

BuildPipeline ==
  /\ phase = "buildPipeline"
  /\ AdvanceTo(fresh, Unbuildable, "buildRedactor")
  /\ UNCHANGED <<disk, cells, hup, fresh, sighups, due>>

BuildRedactor ==
  /\ phase = "buildRedactor"
  /\ AdvanceTo(fresh, Unredactable, "storeConfig")
  /\ UNCHANGED <<disk, cells, hup, fresh, sighups, due>>

\* What the reload in progress stores, one generation after the redactor.
NewCell == [version |-> fresh, gen |-> redactor.gen + 1]

StoreConfig ==
  /\ phase = "storeConfig"
  /\ config' = NewCell
  /\ phase' = "storePipeline"
  /\ UNCHANGED <<disk, pipeline, redactor, hup, fresh, sighups, due>>

\* Mutant of StorePipeline: the pipeline of the first load stays.
KeepPipeline ==
  /\ phase = "storePipeline"
  /\ phase' = "storeRedactor"
  /\ UNCHANGED <<disk, cells, hup, fresh, sighups, due>>

StorePipeline ==
  /\ phase = "storePipeline"
  /\ pipeline' = NewCell
  /\ phase' = "storeRedactor"
  /\ UNCHANGED <<disk, config, redactor, hup, fresh, sighups, due>>

\* Mutant of StoreRedactor: a second call of `load_config` for the redactor,
\* which may find another file.
StoreRedactorFromDisk ==
  /\ phase = "storeRedactor"
  /\ \E v \in {fresh, disk} \ (Unloadable \cup Unredactable) :
       redactor' = [version |-> v, gen |-> redactor.gen + 1]
  /\ phase' = "idle"
  /\ UNCHANGED <<disk, config, pipeline, hup, fresh, sighups, due>>

StoreRedactor ==
  /\ phase = "storeRedactor"
  /\ redactor' = NewCell
  /\ phase' = "idle"
  /\ UNCHANGED <<disk, config, pipeline, hup, fresh, sighups, due>>

-----------------------------------------------------------------------------
\* `ConfigHandle::load` at startup: three cells from one version, or no start.
HandleInit ==
  /\ disk \in Versions
  /\ fresh \in Usable
  /\ config = [version |-> fresh, gen |-> 0]
  /\ pipeline = config /\ redactor = config
  /\ hup = FALSE
  /\ phase = "idle"
  /\ sighups = 0
  /\ due = FALSE

ReloadStep ==
  \/ ServeSighup
  \/ LoadConfig \/ BuildPipeline \/ BuildRedactor
  \/ StoreConfig \/ StorePipeline \/ StoreRedactor

HandleNext ==
  \/ \E v \in Versions : Edit(v)
  \/ Sighup
  \/ ReloadStep

HandleSpec == HandleInit /\ [][HandleNext]_handleVars

(* The SIGHUP task is polled when a signal is pending, and a running reload *)
(* has no await: it goes on.  Nothing makes an operator act.                *)
FairHandleSpec == HandleSpec /\ WF_handleVars(ReloadStep)

-----------------------------------------------------------------------------
(* `reload`: "if reloading fails for any reason, the existing               *)
(* configuration and pipeline remain active".  Whatever is in the file and  *)
(* wherever a reload stands, only versions that load and build completely   *)
(* are in use.                                                              *)
OnlyUsableInUse == InUse \subseteq Usable

(* The cells follow each other through every reload: the redactor is the    *)
(* last to change, no cell is more than one reload behind another, cells of *)
(* one reload were built from one version, and unless a reload is at its    *)
(* stores all three come from one reload, whatever failed before.           *)
CellsInStep ==
  /\ redactor.gen <= pipeline.gen /\ pipeline.gen <= config.gen
  /\ config.gen <= redactor.gen + 1
  /\ config.gen = pipeline.gen => config = pipeline
  /\ pipeline.gen = redactor.gen => pipeline = redactor
  /\ phase \notin {"storePipeline", "storeRedactor"} => config.gen = redactor.gen

(* What makes them inductive.  A reload that got past a build was not       *)
(* stopped by it, its first stores are in place when it gets to the next,   *)
(* and every reload past, running or asked for has its own SIGHUP.          *)
ReloadProtocol ==
  /\ phase = "buildPipeline" => fresh \notin Unloadable
  /\ phase = "buildRedactor" => fresh \notin Unloadable \cup Unbuildable
  /\ phase \in {"storeConfig", "storePipeline", "storeRedactor"} => fresh \in Usable
  /\ phase \in {"storePipeline", "storeRedactor"} => config = NewCell
  /\ phase = "storePipeline" => pipeline = redactor
  /\ phase = "storeRedactor" => pipeline = NewCell
  /\ redactor.gen + (IF phase = "idle" THEN 0 ELSE 1) + (IF hup THEN 1 ELSE 0) <= sighups

HandleIInv == HandleTypeOK /\ OnlyUsableInUse /\ CellsInStep /\ ReloadProtocol

(* No SIGHUP is lost: one that is sent with a usable file in place, perhaps  *)
(* while another reload is past reading the file, makes the handle serve     *)
(* that file, unless it is edited again.                                    *)
SighupServed == due /\ disk \in Usable ~> InUse = {disk} \/ ~due
=============================================================================
