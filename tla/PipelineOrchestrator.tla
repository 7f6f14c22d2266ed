------------------------- MODULE PipelineOrchestrator -------------------------
(***************************************************************************)
(* PipelineOrchestrator.Execute, one run for each job: the stages of the   *)
(* loaded pipeline in the order of their index, all blocks of one index in *)
(* parallel goroutines, a WaitGroup, and the results handed to the blocks  *)
(* of the next index.  What the agents answer is a constant: the runner of *)
(* this repository is a stub that always answers.                          *)
(***************************************************************************)
EXTENDS Integers

CONSTANTS
  Jobs,
  Stages, Blocks,  (* ids of rows; each save of a pipeline makes new ones   *)
  Order,           (* stages.order_index                                    *)
  StageOf,         (* agent_blocks.stage_id                                 *)
  Outcomes         (* what the agent of a block may return                  *)

(* Output and no error; neither; an error *)
Returned == {"ok", "silent", "failed"}
OrderOf == [b \in Blocks |-> Order[StageOf[b]]]

ASSUME OrchestratorAssumption ==
  /\ Order \in [Stages -> Int]
  /\ StageOf \in [Blocks -> Stages]
  /\ Outcomes \in [Blocks -> SUBSET Returned]

VARIABLES
  pc,        (* where the request, then the goroutine of a job is           *)
  plan,      (* pipeline.Stages as loaded                                   *)
  blocks,    (* their Blocks as loaded                                      *)
  ahead,     (* sortedOrders still to come                                  *)
  group,     (* the blocks of the present order index                       *)
  outcome,   (* the goroutine of each block, then its entry of results[]    *)
  input,     (* AgentInputContext.PreviousResults given to each block       *)
  results,   (* execCtx.PreviousResults                                     *)
  errors     (* execCtx.Errors                                              *)

runVars == <<ahead, group, outcome, input, results, errors>>

RequestPC == {"idle", "loadStages", "loadBlocks", "create"}
JobPC == {"start", "nextStage", "inStage", "abort"}

OrchestratorTypeOK ==
  /\ pc \in [Jobs -> RequestPC \cup JobPC \cup {"gone"}]
  /\ plan \in [Jobs -> SUBSET Stages]
  /\ blocks \in [Jobs -> SUBSET Blocks]
  /\ ahead \in [Jobs -> SUBSET Int]
  /\ group \in [Jobs -> SUBSET Blocks]
  /\ outcome \in [Jobs -> [Blocks -> {"none", "started"} \cup Returned]]
  /\ input \in [Jobs -> [Blocks -> SUBSET Blocks]]
  /\ results \in [Jobs -> SUBSET Blocks]
  /\ errors \in [Jobs -> SUBSET Blocks]

OrchestratorInit ==
  /\ pc = [j \in Jobs |-> "idle"]
  /\ plan = [j \in Jobs |-> {}]
  /\ blocks = [j \in Jobs |-> {}]
  /\ ahead = [j \in Jobs |-> {}]
  /\ group = [j \in Jobs |-> {}]
  /\ outcome = [j \in Jobs |-> [b \in Blocks |-> "none"]]
  /\ input = [j \in Jobs |-> [b \in Blocks |-> {}]]
  /\ results = [j \in Jobs |-> {}]
  /\ errors = [j \in Jobs |-> {}]

-----------------------------------------------------------------------------
(* Mutant: a stage without blocks is left before it is counted as done.     *)
EnterStageStuck(j) ==
  /\ pc[j] = "nextStage"
  /\ \E o \in ahead[j] :
       /\ \A later \in ahead[j] : o <= later
       /\ group' = [group EXCEPT ![j] = {b \in blocks[j] : OrderOf[b] = o}]
       /\ ahead' = IF group'[j] = {} THEN ahead ELSE [ahead EXCEPT ![j] = @ \ {o}]
       /\ pc' = [pc EXCEPT ![j] = IF group'[j] = {} THEN "nextStage" ELSE "inStage"]
  /\ UNCHANGED <<plan, blocks, outcome, input, results, errors>>

(* The next of sortedOrders; one without blocks is passed over *)
EnterStage(j) ==
  /\ pc[j] = "nextStage"
  /\ \E o \in ahead[j] :
       /\ \A later \in ahead[j] : o <= later
       /\ ahead' = [ahead EXCEPT ![j] = @ \ {o}]
       /\ group' = [group EXCEPT ![j] = {b \in blocks[j] : OrderOf[b] = o}]
       /\ pc' = [pc EXCEPT ![j] = IF group'[j] = {} THEN "nextStage" ELSE "inStage"]
  /\ UNCHANGED <<plan, blocks, outcome, input, results, errors>>

(* The goroutine of a block gets to buildInput *)
StartBlock(j, b) ==
  /\ pc[j] = "inStage"
  /\ b \in group[j]
  /\ outcome[j][b] = "none"
  /\ outcome' = [outcome EXCEPT ![j][b] = "started"]
  /\ input' = [input EXCEPT ![j][b] = results[j]]
  /\ UNCHANGED <<pc, plan, blocks, ahead, group, results, errors>>

(* Mutant: a block publishes its result itself, without the WaitGroup.      *)
EndBlockPublishes(j, b) ==
  /\ pc[j] = "inStage"
  /\ outcome[j][b] = "started"
  /\ \E returned \in Outcomes[b] :
       /\ outcome' = [outcome EXCEPT ![j][b] = returned]
       /\ results' = [results EXCEPT ![j] = IF returned = "ok" THEN @ \cup {b} ELSE @]
  /\ UNCHANGED <<pc, plan, blocks, ahead, group, input, errors>>

(* agentRunner.Execute returns, results[idx] is set *)
EndBlock(j, b) ==
  /\ pc[j] = "inStage"
  /\ outcome[j][b] = "started"
  /\ \E returned \in Outcomes[b] : outcome' = [outcome EXCEPT ![j][b] = returned]
  /\ UNCHANGED <<pc, plan, blocks, ahead, group, input, results, errors>>

Ended(j, how) == {b \in group[j] : outcome[j][b] = how}

(* Mutant: a stage that failed as a whole does not end the run.             *)
CollectCarriesOn(j) ==
  /\ pc[j] = "inStage"
  /\ \A b \in group[j] : outcome[j][b] \in Returned
  /\ results' = [results EXCEPT ![j] = @ \cup Ended(j, "ok")]
  /\ errors' = [errors EXCEPT ![j] = @ \cup Ended(j, "failed")]
  /\ group' = [group EXCEPT ![j] = {}]
  /\ pc' = [pc EXCEPT ![j] = "nextStage"]
  /\ UNCHANGED <<plan, blocks, ahead, outcome, input>>

(* After wg.Wait: the results in the order of the blocks, and the end of    *)
(* the run when every block of the stage has failed                         *)
Collect(j) ==
  /\ pc[j] = "inStage"
  /\ \A b \in group[j] : outcome[j][b] \in Returned
  /\ results' = [results EXCEPT ![j] = @ \cup Ended(j, "ok")]
  /\ errors' = [errors EXCEPT ![j] = @ \cup Ended(j, "failed")]
  /\ group' = [group EXCEPT ![j] = {}]
  /\ pc' = [pc EXCEPT ![j] = IF Ended(j, "failed") = group[j] THEN "abort" ELSE "nextStage"]
  /\ UNCHANGED <<plan, blocks, ahead, outcome, input>>
=============================================================================
