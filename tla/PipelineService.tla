--------------------------- MODULE PipelineService ---------------------------
(***************************************************************************)
(* PipelineService over the rows of one pipeline and its jobs.  Saving a   *)
(* pipeline is one transaction that replaces all its stages; reading one   *)
(* (FindByID) is a query for the pipeline, one for its stages and one for  *)
(* the blocks of these stages, without a transaction.  Execute answers     *)
(* with the new job while a goroutine of the API server runs it.           *)
(***************************************************************************)
EXTENDS PipelineOrchestrator

CONSTANTS
  Revisions,   (* the stages that one save of the pipeline writes           *)
  Faults       (* may a statement fail, may the API server crash?           *)

ASSUME ServiceAssumption ==
  /\ Revisions \subseteq SUBSET Stages
  /\ Faults \in BOOLEAN

VARIABLES
  pipeline,    (* the row of pipelines                                      *)
  stages,      (* its rows of stages; a block is there while its stage is   *)
  written,     (* stage ids that have been given out                        *)
  row          (* pipeline_jobs                                             *)

Contract == INSTANCE JobContract WITH row <- row

JobStatus == {"absent", "PENDING", "RUNNING", "COMPLETED", "FAILED", "DELETED"}
Final == {"COMPLETED", "FAILED"}
Row == [status : JobStatus, results : SUBSET Blocks, errors : SUBSET Blocks]
JobRow(status, found, failed) == [status |-> status, results |-> found, errors |-> failed]
NoJob == JobRow("absent", {}, {})
GoneJob == JobRow("DELETED", {}, {})

ServiceTypeOK ==
  /\ pipeline \in {"absent", "present", "DELETED"}
  /\ stages \in SUBSET Stages
  /\ written \in SUBSET Stages
  /\ row \in [Jobs -> Row]

ServiceInit ==
  /\ pipeline = "absent"
  /\ stages = {}
  /\ written = {}
  /\ row = [j \in Jobs |-> NoJob]

Goto(j, next) == pc' = [pc EXCEPT ![j] = next]

-----------------------------------------------------------------------------
(* POST, PUT and DELETE of the pipeline *)

Save(revision) ==
  /\ revision \cap written = {}
  /\ stages' = revision
  /\ written' = written \cup revision

CreatePipeline(revision) ==
  /\ pipeline = "absent"
  /\ pipeline' = "present"
  /\ Save(revision)
  /\ UNCHANGED <<row, pc, plan, blocks, runVars>>

UpdatePipeline(revision) ==
  /\ pipeline = "present"
  /\ Save(revision)
  /\ UNCHANGED <<pipeline, row, pc, plan, blocks, runVars>>

(* ON DELETE CASCADE: stages, blocks and jobs *)
DeletePipeline ==
  /\ pipeline = "present"
  /\ pipeline' = "DELETED"
  /\ stages' = {}
  /\ row' = [j \in Jobs |-> IF row[j] = NoJob THEN NoJob ELSE GoneJob]
  /\ UNCHANGED <<written, pc, plan, blocks, runVars>>

-----------------------------------------------------------------------------
(* POST /pipelines/:id/execute *)

LoadPipeline(j) ==
  /\ pc[j] = "idle"
  /\ pipeline = "present"
  /\ Goto(j, "loadStages")
  /\ UNCHANGED <<pipeline, stages, written, row, plan, blocks, runVars>>

LoadStages(j) ==
  /\ pc[j] = "loadStages"
  /\ plan' = [plan EXCEPT ![j] = stages]
  /\ blocks' = [blocks EXCEPT ![j] = {}]
  /\ Goto(j, IF stages = {} THEN "create" ELSE "loadBlocks")
  /\ UNCHANGED <<pipeline, stages, written, row, runVars>>

LoadBlocks(j) ==
  /\ pc[j] = "loadBlocks"
  /\ blocks' = [blocks EXCEPT ![j] = {b \in Blocks : StageOf[b] \in plan[j] \cap stages}]
  /\ Goto(j, "create")
  /\ UNCHANGED <<pipeline, stages, written, row, plan, runVars>>

(* The foreign key on pipelines is what can refuse the row. *)
CreateJob(j) ==
  /\ pc[j] = "create"
  /\ IF pipeline = "present"
     THEN row' = [row EXCEPT ![j] = JobRow("PENDING", {}, {})] /\ Goto(j, "start")
     ELSE Goto(j, "idle") /\ UNCHANGED row
  /\ UNCHANGED <<pipeline, stages, written, plan, blocks, runVars>>

RequestFails(j) ==
  /\ Faults
  /\ pc[j] \in RequestPC \ {"idle"}
  /\ Goto(j, "idle")
  /\ UNCHANGED <<pipeline, stages, written, row, plan, blocks, runVars>>

-----------------------------------------------------------------------------
(* The goroutine of the job.  UpdateJobStatus is :one: without a row it is  *)
(* an error, which is logged or dropped, and ends the goroutine.            *)

UpdateJobStatus(j, new) ==
  row' = [row EXCEPT ![j] = IF @.status = "DELETED" THEN @ ELSE new]

MarkRunning(j) ==
  /\ pc[j] = "start"
  /\ UpdateJobStatus(j, JobRow("RUNNING", {}, {}))
  /\ IF row[j].status = "DELETED" THEN Goto(j, "gone") /\ UNCHANGED ahead
     ELSE /\ Goto(j, "nextStage")
          /\ ahead' = [ahead EXCEPT ![j] = {Order[s] : s \in plan[j]}]
  /\ UNCHANGED <<pipeline, stages, written, plan, blocks, group, outcome, input,
                 results, errors>>

MarkCompleted(j) ==
  /\ pc[j] = "nextStage"
  /\ ahead[j] = {}
  /\ UpdateJobStatus(j, JobRow("COMPLETED", results[j], errors[j]))
  /\ Goto(j, "gone")
  /\ UNCHANGED <<pipeline, stages, written, plan, blocks, runVars>>

(* Mutant: the return after the failed run is missing.                      *)
MarkFailedFallsThrough(j) ==
  /\ pc[j] = "abort"
  /\ UpdateJobStatus(j, JobRow("FAILED", results[j], errors[j]))
  /\ Goto(j, "nextStage")
  /\ ahead' = [ahead EXCEPT ![j] = {}]
  /\ UNCHANGED <<pipeline, stages, written, plan, blocks, group, outcome, input,
                 results, errors>>

MarkFailed(j) ==
  /\ pc[j] = "abort"
  /\ UpdateJobStatus(j, JobRow("FAILED", results[j], errors[j]))
  /\ Goto(j, "gone")
  /\ UNCHANGED <<pipeline, stages, written, plan, blocks, runVars>>

UpdateFails(j) ==
  /\ Faults
  /\ \/ pc[j] \in {"start", "abort"}
     \/ pc[j] = "nextStage" /\ ahead[j] = {}
  /\ Goto(j, "gone")
  /\ UNCHANGED <<pipeline, stages, written, row, plan, blocks, runVars>>

(* The API server ends: requests and goroutines are lost, rows stay. *)
CrashAPI ==
  /\ Faults
  /\ pc' = [j \in Jobs |-> IF pc[j] \in RequestPC THEN "idle" ELSE "gone"]
  /\ UNCHANGED <<pipeline, stages, written, row, plan, blocks, runVars>>
=============================================================================
