------------------------------ MODULE Pipelines ------------------------------
(***************************************************************************)
(* A pipeline, the jobs that run it and the clients that wait for them.    *)
(***************************************************************************)
EXTENDS JobPolling

serviceVars == <<pipeline, stages, written, row, pc, plan, blocks, runVars>>
storedVars == <<pipeline, stages, written, row>>
vars == <<serviceVars, clientVars>>

Init == OrchestratorInit /\ ServiceInit /\ PollingInit

TypeOK == OrchestratorTypeOK /\ ServiceTypeOK /\ PollingTypeOK

UserStep ==
  \/ \E revision \in Revisions : CreatePipeline(revision)
  \/ \E revision \in Revisions : UpdatePipeline(revision)
  \/ DeletePipeline

RequestStep(j) ==
  \/ LoadPipeline(j)
  \/ LoadStages(j)
  \/ LoadBlocks(j)
  \/ CreateJob(j)
  \/ RequestFails(j)

OrchestratorStep(j) ==
  \/ EnterStage(j)
  \/ \E b \in Blocks : StartBlock(j, b)
  \/ \E b \in Blocks : EndBlock(j, b)
  \/ Collect(j)

GoroutineStep(j) ==
  \/ MarkRunning(j)
  \/ OrchestratorStep(j) /\ UNCHANGED storedVars
  \/ MarkCompleted(j)
  \/ MarkFailed(j)
  \/ UpdateFails(j)

ClientStep(j) ==
  \/ BeginPolling(j)
  \/ PollAnswered(j)
  \/ PollUnfinished(j)
  \/ PollError(j)
  \/ PollTimesOut(j)

ServerStep ==
  \/ UserStep
  \/ CrashAPI
  \/ \E j \in Jobs : RequestStep(j)
  \/ \E j \in Jobs : GoroutineStep(j)

Next ==
  \/ ServerStep /\ UNCHANGED clientVars
  \/ \E j \in Jobs : ClientStep(j) /\ UNCHANGED serviceVars

Spec == Init /\ [][Next]_vars

(* The goroutines of the job are scheduled, a statement returns or fails    *)
(* and an agent answers; the client's timer fires.  Nothing is assumed of   *)
(* users, of requests and of the API server staying up.                     *)
Fairness ==
  \A j \in Jobs :
    /\ WF_vars(MarkRunning(j) /\ UNCHANGED clientVars)
    /\ WF_vars(OrchestratorStep(j) /\ UNCHANGED <<storedVars, clientVars>>)
    /\ WF_vars((MarkCompleted(j) \/ MarkFailed(j)) /\ UNCHANGED clientVars)
    /\ WF_vars((PollAnswered(j) \/ PollUnfinished(j) \/ PollError(j) \/ PollTimesOut(j))
               /\ UNCHANGED serviceVars)

FairSpec == Spec /\ Fairness

-----------------------------------------------------------------------------
(* Properties *)

(* The rows keep the contract of JobContract through parallel blocks,       *)
(* failing statements, crashes and the deletion of the pipeline: a status   *)
(* never goes back, a job ends once, and it fails only with a whole stage.  *)
JobsKeepContract == Contract!Spec

(* Orchestrator.Execute: a block is given the results of the earlier order  *)
(* indexes, all of them, and none of a block that runs beside it, whatever  *)
(* the interleaving of the goroutines.                                      *)
InputsFromEarlierStages ==
  \A j \in Jobs : \A b \in Blocks :
    outcome[j][b] # "none"
      => input[j][b] = {x \in Blocks : outcome[j][x] = "ok" /\ OrderOf[x] < OrderOf[b]}

(* UpdateJobStatus: the final status tells what became of the run.  In a    *)
(* completed job every loaded block has returned and no stage failed as a   *)
(* whole; in a failed one a stage did, and no later block was started.      *)
StatusTellsTheRun ==
  \A j \in Jobs :
    /\ row[j].status = "COMPLETED" => \A b \in blocks[j] :
         /\ outcome[j][b] \in Returned
         /\ \E x \in blocks[j] : OrderOf[x] = OrderOf[b] /\ outcome[j][x] # "failed"
    /\ row[j].status = "FAILED" => \E b \in blocks[j] : \A x \in blocks[j] :
         /\ OrderOf[x] = OrderOf[b] => outcome[j][x] = "failed"
         /\ OrderOf[x] > OrderOf[b] => outcome[j][x] = "none"

(* pollJobStatus: what the client returns is the end of the job and stays   *)
(* true until the pipeline is deleted.                                      *)
AnswerIsFinal ==
  \A j \in Jobs :
    client[j] = "answered" => /\ answer[j].status \in Final
                              /\ row[j] \in {answer[j], GoneJob}

(* The goroutine of a job comes to its end: no block of a stage, failing or *)
(* not, keeps the WaitGroup from opening, and every order index is passed.  *)
JobsEnd == \A j \in Jobs : pc[j] \in JobPC ~> pc[j] = "gone"

(* pollJobStatus: the client stops waiting even for a job that was lost     *)
(* with the server, so that isRunning is reset.                             *)
ClientsStopWaiting == \A j \in Jobs : client[j] = "polling" ~> client[j] # "polling"

(* FindByID "returns a pipeline with its stages, blocks, monitors, and      *)
(* price alerts loaded" (pipeline_repo.go): so a completed job has run all  *)
(* blocks of the stages it has loaded.                                      *)
LoadedWithItsBlocks ==
  \A j \in Jobs :
    row[j].status = "COMPLETED" => blocks[j] = {b \in Blocks : StageOf[b] \in plan[j]}
=============================================================================
