---------------------------- MODULE PipelineProofs ----------------------------
(***************************************************************************)
(* Proofs about Pipelines, for any number of jobs, stages and blocks.      *)
(***************************************************************************)
EXTENDS Pipelines, TLAPS

(* Types.  That consecutiveErrors stays within its bound needs the limit to  *)
(* be checked after each of them.                                           *)

MissesBounded == \A j \in Jobs : client[j] # "thrown" => misses[j] < MaxErrors
TypeInv == TypeOK /\ MissesBounded

LEMMA JobRowType ==
  ASSUME NEW status \in JobStatus, NEW found \in SUBSET Blocks, NEW failed \in SUBSET Blocks
  PROVE  JobRow(status, found, failed) \in Row
BY DEF JobRow, Row

LEMMA TypeInit == Init => TypeInv
BY PollingAssumption
   DEF Init, TypeInv, MissesBounded, TypeOK, OrchestratorInit, ServiceInit, PollingInit, OrchestratorTypeOK,
       ServiceTypeOK, PollingTypeOK, RequestPC, JobStatus, Row, NoJob, JobRow

(* What the users do to the types ... *)
LEMMA UserTypes ==
  ASSUME TypeOK, UNCHANGED clientVars, UserStep \/ CrashAPI
  PROVE  TypeOK'
<1> USE DEF TypeOK, OrchestratorTypeOK, ServiceTypeOK, PollingTypeOK, clientVars, runVars
<1>1. CASE UserStep
  <2>1. CASE DeletePipeline
    <3>1. GoneJob \in Row
      BY DEF GoneJob, JobRow, Row, JobStatus
    <3> QED
      BY <2>1, <3>1 DEF DeletePipeline
  <2>2. ASSUME NEW revision \in Revisions,
               CreatePipeline(revision) \/ UpdatePipeline(revision)
        PROVE  TypeOK'
    <3>1. revision \in SUBSET Stages
      BY ServiceAssumption
    <3> QED
      BY <2>2, <3>1 DEF CreatePipeline, UpdatePipeline, Save
  <2> QED
    BY <1>1, <2>1, <2>2 DEF UserStep
<1>2. CASE CrashAPI
  BY <1>2 DEF CrashAPI, RequestPC
<1> QED
  BY <1>1, <1>2

(* ... the requests ... *)
LEMMA RequestTypes ==
  ASSUME TypeOK, UNCHANGED clientVars, NEW j \in Jobs, RequestStep(j)
  PROVE  TypeOK'
<1> USE DEF TypeOK, OrchestratorTypeOK, ServiceTypeOK, PollingTypeOK, clientVars, runVars
<1>3. CASE LoadPipeline(j)
  BY <1>3 DEF LoadPipeline, Goto, RequestPC
<1>4. CASE LoadStages(j)
  BY <1>4 DEF LoadStages, Goto, RequestPC
<1>5. CASE LoadBlocks(j)
  BY <1>5 DEF LoadBlocks, Goto, RequestPC
<1>6. CASE CreateJob(j)
  <2>1. JobRow("PENDING", {}, {}) \in Row
    BY JobRowType DEF JobStatus
  <2>2. CASE pipeline = "present"
    <3>1. /\ row' = [row EXCEPT ![j] = JobRow("PENDING", {}, {})]
          /\ pc' = [pc EXCEPT ![j] = "start"]
          /\ UNCHANGED <<pipeline, stages, written, plan, blocks, runVars, clientVars>>
      BY <1>6, <2>2 DEF CreateJob, Goto
    <3>2. row' \in [Jobs -> Row]
      BY <2>1, <3>1
    <3> QED
      BY <3>1, <3>2 DEF JobPC
  <2>3. CASE pipeline # "present"
    BY <1>6, <2>3 DEF CreateJob, Goto, RequestPC
  <2> QED
    BY <2>2, <2>3
<1>7. CASE RequestFails(j)
  BY <1>7 DEF RequestFails, Goto, RequestPC
<1> QED
  BY <1>3, <1>4, <1>5, <1>6, <1>7 DEF RequestStep

(* ... the goroutine of a job ... *)
LEMMA GoroutineTypes ==
  ASSUME TypeOK, UNCHANGED clientVars, NEW j \in Jobs, GoroutineStep(j)
  PROVE  TypeOK'
<1> USE DEF TypeOK, OrchestratorTypeOK, ServiceTypeOK, PollingTypeOK, clientVars, runVars
<1>1. CASE EnterStage(j) /\ UNCHANGED storedVars
  BY <1>1 DEF EnterStage, storedVars, JobPC
<1>2. ASSUME NEW b \in Blocks, StartBlock(j, b), UNCHANGED storedVars PROVE TypeOK'
  BY <1>2 DEF StartBlock, storedVars
<1>3. ASSUME NEW b \in Blocks, EndBlock(j, b), UNCHANGED storedVars PROVE TypeOK'
  <2>1. PICK returned \in Returned : outcome' = [outcome EXCEPT ![j][b] = returned]
    BY <1>3, OrchestratorAssumption DEF EndBlock
  <2> QED
    BY <1>3, <2>1 DEF EndBlock, storedVars
<1>4. CASE Collect(j) /\ UNCHANGED storedVars
  BY <1>4 DEF Collect, Ended, storedVars, JobPC
<1>5. CASE MarkRunning(j)
  <2>1. {Order[s] : s \in plan[j]} \in SUBSET Int
    BY OrchestratorAssumption
  <2>2. JobRow("RUNNING", {}, {}) \in Row
    BY JobRowType DEF JobStatus
  <2> QED
    <3>1. row' \in [Jobs -> Row]
      BY <1>5, <2>2 DEF MarkRunning, UpdateJobStatus
    <3>2. ahead' \in [Jobs -> SUBSET Int]
      BY <1>5, <2>1 DEF MarkRunning
    <3>3. pc' \in [Jobs -> RequestPC \cup JobPC \cup {"gone"}]
      BY <1>5 DEF MarkRunning, Goto, JobPC
    <3> QED
      BY <1>5, <3>1, <3>2, <3>3 DEF MarkRunning
<1>6. CASE MarkCompleted(j)
  <2>1. JobRow("COMPLETED", results[j], errors[j]) \in Row
    BY JobRowType DEF JobStatus
  <2> QED
    BY <1>6, <2>1 DEF MarkCompleted, UpdateJobStatus, Goto
<1>7. CASE MarkFailed(j)
  <2>1. JobRow("FAILED", results[j], errors[j]) \in Row
    BY JobRowType DEF JobStatus
  <2> QED
    BY <1>7, <2>1 DEF MarkFailed, UpdateJobStatus, Goto
<1>8. CASE UpdateFails(j)
  BY <1>8 DEF UpdateFails, Goto
<1> QED
  BY <1>1, <1>2, <1>3, <1>4, <1>5, <1>6, <1>7, <1>8 DEF GoroutineStep, OrchestratorStep

(* ... and the client that waits for it *)
LEMMA ClientTypes ==
  ASSUME TypeInv, UNCHANGED serviceVars, NEW j \in Jobs, ClientStep(j)
  PROVE  TypeInv'
<1> USE PollingAssumption
    DEF TypeInv, MissesBounded, TypeOK, OrchestratorTypeOK, ServiceTypeOK, PollingTypeOK,
        serviceVars, runVars
<1>1. CASE BeginPolling(j)
  BY <1>1 DEF BeginPolling
<1>2. CASE PollAnswered(j)
  BY <1>2 DEF PollAnswered
<1>3. CASE PollUnfinished(j)
  BY <1>3 DEF PollUnfinished, Again
<1>4. CASE PollError(j)
  <2>1. misses[j] + 1 \in 0..MaxErrors /\ attempts[j] + 1 \in 0..MaxAttempts
    BY <1>4 DEF PollError, Again
  <2>2. misses' = [misses EXCEPT ![j] = misses[j] + 1]
    BY <1>4 DEF PollError
  <2>3. CASE misses'[j] >= MaxErrors
    <3>1. client' = [client EXCEPT ![j] = "thrown"] /\ UNCHANGED <<attempts, answer>>
      BY <1>4, <2>3 DEF PollError
    <3>2. TypeOK'
      BY <2>1, <2>2, <3>1
    <3>3. MissesBounded'
      BY <2>2, <3>1
    <3> QED
      BY <3>2, <3>3
  <2>4. CASE ~(misses'[j] >= MaxErrors)
    <3>1. attempts' = [attempts EXCEPT ![j] = attempts[j] + 1] /\ UNCHANGED <<client, answer>>
      BY <1>4, <2>4 DEF PollError
    <3>2. TypeOK'
      BY <2>1, <2>2, <3>1
    <3>3. misses[j] + 1 < MaxErrors
      BY <2>2, <2>4
    <3>4. MissesBounded'
      BY <2>2, <3>1, <3>3
    <3> QED
      BY <3>2, <3>4
  <2> QED
    BY <2>3, <2>4
<1>5. CASE PollTimesOut(j)
  BY <1>5 DEF PollTimesOut
<1> QED
  BY <1>1, <1>2, <1>3, <1>4, <1>5 DEF ClientStep

LEMMA NextTypeInv == TypeInv /\ [Next]_vars => TypeInv'
<1> SUFFICES ASSUME TypeInv, [Next]_vars PROVE TypeInv'
  OBVIOUS
<1>1. CASE ServerStep /\ UNCHANGED clientVars
  <2>1. TypeOK'
    <3>1. ASSUME NEW j \in Jobs, GoroutineStep(j) PROVE TypeOK'
      BY <1>1, <3>1, GoroutineTypes DEF TypeInv
    <3>2. ASSUME NEW j \in Jobs, RequestStep(j) PROVE TypeOK'
      BY <1>1, <3>2, RequestTypes DEF TypeInv
    <3>3. CASE UserStep \/ CrashAPI
      BY <1>1, <3>3, UserTypes DEF TypeInv
    <3> QED
      BY <1>1, <3>1, <3>2, <3>3 DEF ServerStep
  <2>2. MissesBounded'
    BY <1>1 DEF TypeInv, MissesBounded, clientVars
  <2> QED
    BY <2>1, <2>2 DEF TypeInv
<1>2. CASE \E j \in Jobs : ClientStep(j) /\ UNCHANGED serviceVars
  BY <1>2, ClientTypes
<1>3. CASE UNCHANGED vars
  BY <1>3 DEF TypeInv, MissesBounded, TypeOK, OrchestratorTypeOK, ServiceTypeOK,
              PollingTypeOK, vars, serviceVars, runVars, clientVars
<1> QED
  BY <1>1, <1>2, <1>3 DEF Next

LEMMA AlwaysTypeInv == Spec => []TypeInv
BY TypeInit, NextTypeInv, PTL DEF Spec

(* Every variable of the service, of the orchestrator and of the clients    *)
(* keeps its type; consecutiveErrors never passes its limit.                *)
THEOREM TypeCorrect == Spec => []TypeOK
<1>1. TypeInv => TypeOK
  BY DEF TypeInv
<1> QED
  BY <1>1, AlwaysTypeInv, PTL

-----------------------------------------------------------------------------
(***************************************************************************)
(* The run of a job.  Which order indexes are behind, present and ahead is *)
(* what ties the goroutines together: blocks of an index behind have all   *)
(* returned, those of the present one are the group, and nothing of an     *)
(* index ahead has begun.                                                  *)
(***************************************************************************)

Begun(j, b) == outcome[j][b] # "none"

PlanInv(j) == \A b \in blocks[j] : StageOf[b] \in plan[j]

(* Nothing has happened before the goroutine has marked the job RUNNING.    *)
FreshInv(j) ==
  pc[j] \in RequestPC \cup {"start"} =>
    ahead[j] = {} /\ group[j] = {} /\ \A b \in Blocks : ~Begun(j, b)

BegunInv(j) ==
  \A b \in Blocks : Begun(j, b) => b \in blocks[j] /\ \A o \in ahead[j] : OrderOf[b] < o

(* The group is all of the present index, which lies between the others.    *)
GroupInv(j) ==
  /\ pc[j] \in {"nextStage", "abort"} => group[j] = {}
  /\ pc[j] = "inStage" => \E c \in group[j] :
       /\ group[j] = {b \in blocks[j] : OrderOf[b] = OrderOf[c]}
       /\ \A later \in ahead[j] : OrderOf[c] < later
       /\ \A b \in Blocks \ group[j] : Begun(j, b) => OrderOf[b] < OrderOf[c]

(* execCtx holds what has returned outside the present group.               *)
CollectedInv(j) ==
  /\ results[j] = {b \in Blocks \ group[j] : outcome[j][b] = "ok"}
  /\ errors[j] = {b \in Blocks \ group[j] : outcome[j][b] = "failed"}

InputInv(j) ==
  \A b \in Blocks :
    Begun(j, b) => input[j][b] = {x \in Blocks : outcome[j][x] = "ok" /\ OrderOf[x] < OrderOf[b]}

(* No block is forgotten ...                                                *)
CoverInv(j) ==
  pc[j] \in {"nextStage", "inStage"} =>
    \A b \in blocks[j] : Begun(j, b) \/ OrderOf[b] \in ahead[j] \/ b \in group[j]

(* ... and each index behind has a block that did not fail.                 *)
SurvivorInv(j) ==
  pc[j] \in {"nextStage", "inStage"} =>
    \A b \in blocks[j] \ group[j] : Begun(j, b) =>
      /\ outcome[j][b] \in Returned
      /\ \E x \in blocks[j] : OrderOf[x] = OrderOf[b] /\ outcome[j][x] # "failed"

WholeStageFailed(j) ==
  \E b \in blocks[j] : \A x \in blocks[j] :
    /\ OrderOf[x] = OrderOf[b] => outcome[j][x] = "failed"
    /\ OrderOf[x] > OrderOf[b] => outcome[j][x] = "none"

AbortInv(j) == pc[j] = "abort" => WholeStageFailed(j)

AllReturned(j) ==
  \A b \in blocks[j] :
    /\ outcome[j][b] \in Returned
    /\ \E x \in blocks[j] : OrderOf[x] = OrderOf[b] /\ outcome[j][x] # "failed"

(* The row and the goroutine keep step; a final row is of a run that is over. *)
RowInv(j) ==
  /\ pc[j] \in RequestPC => row[j] = NoJob
  /\ pc[j] = "start" => row[j] \in {JobRow("PENDING", {}, {}), GoneJob}
  /\ pc[j] \in {"nextStage", "inStage", "abort"} =>
       row[j] \in {JobRow("RUNNING", {}, {}), GoneJob}
  /\ pc[j] = "gone" => row[j].status # "absent"
  /\ row[j].status = "COMPLETED" => AllReturned(j)
  /\ row[j].status = "FAILED" => WholeStageFailed(j)

RunInv(j) ==
  /\ PlanInv(j)
  /\ FreshInv(j)
  /\ BegunInv(j)
  /\ GroupInv(j)
  /\ CollectedInv(j)
  /\ InputInv(j)
  /\ CoverInv(j)
  /\ SurvivorInv(j)
  /\ AbortInv(j)
  /\ RowInv(j)

IInv == TypeInv /\ \A j \in Jobs : RunInv(j)

LEMMA RunInit == Init => \A j \in Jobs : RunInv(j)
<1> SUFFICES ASSUME Init, NEW j \in Jobs PROVE RunInv(j)
  OBVIOUS
<1>1. /\ pc[j] = "idle" /\ blocks[j] = {} /\ ahead[j] = {} /\ group[j] = {}
      /\ results[j] = {} /\ errors[j] = {} /\ row[j] = NoJob
      /\ \A b \in Blocks : outcome[j][b] = "none"
  BY DEF Init, OrchestratorInit, ServiceInit
<1>2. PlanInv(j) /\ FreshInv(j) /\ BegunInv(j) /\ GroupInv(j) /\ CollectedInv(j)
  BY <1>1 DEF PlanInv, FreshInv, BegunInv, GroupInv, CollectedInv, Begun
<1>3. InputInv(j) /\ CoverInv(j) /\ SurvivorInv(j) /\ AbortInv(j)
  BY <1>1 DEF InputInv, CoverInv, SurvivorInv, AbortInv, Begun
<1>4. RowInv(j)
  BY <1>1 DEF RowInv, NoJob, JobRow, RequestPC
<1> QED
  BY <1>2, <1>3, <1>4 DEF RunInv

(* A job of which nothing changes. *)
LEMMA RunFrame ==
  ASSUME NEW j \in Jobs, RunInv(j),
         pc'[j] = pc[j], plan'[j] = plan[j], blocks'[j] = blocks[j], ahead'[j] = ahead[j],
         group'[j] = group[j], outcome'[j] = outcome[j], input'[j] = input[j],
         results'[j] = results[j], errors'[j] = errors[j], row'[j] = row[j]
  PROVE  RunInv(j)'
<1>1. PlanInv(j)' /\ FreshInv(j)' /\ BegunInv(j)' /\ GroupInv(j)' /\ CollectedInv(j)'
  BY DEF RunInv, PlanInv, FreshInv, BegunInv, GroupInv, CollectedInv, Begun
<1>2. InputInv(j)' /\ CoverInv(j)' /\ SurvivorInv(j)' /\ AbortInv(j)'
  BY DEF RunInv, InputInv, CoverInv, SurvivorInv, AbortInv, WholeStageFailed, Begun
<1>3. RowInv(j)'
  BY DEF RunInv, RowInv, AllReturned, WholeStageFailed
<1> QED
  BY <1>1, <1>2, <1>3 DEF RunInv

(* A job that is given up as it stands: its goroutine or its request ends.  *)
LEMMA RunCutOff ==
  ASSUME NEW j \in Jobs, TypeOK, RunInv(j), runVars' = runVars, plan' = plan,
         blocks' = blocks, row'[j] = row[j],
         \/ pc[j] \in RequestPC /\ pc'[j] = "idle"
         \/ pc[j] \notin RequestPC /\ pc'[j] = "gone"
  PROVE  RunInv(j)'
<1> USE DEF runVars
<1>1. PlanInv(j)' /\ BegunInv(j)' /\ CollectedInv(j)' /\ InputInv(j)'
  BY DEF RunInv, PlanInv, BegunInv, CollectedInv, InputInv, Begun
<1>2. FreshInv(j)'
  BY DEF RunInv, FreshInv, Begun, RequestPC
<1>3. GroupInv(j)' /\ CoverInv(j)' /\ SurvivorInv(j)' /\ AbortInv(j)'
  BY DEF GroupInv, CoverInv, SurvivorInv, AbortInv
<1>4. RowInv(j)'
  <2>1. pc[j] \notin RequestPC => row[j].status # "absent"
    BY DEF RunInv, RowInv, TypeOK, OrchestratorTypeOK, JobPC, JobRow, GoneJob
  <2> QED
    BY <2>1 DEF RunInv, RowInv, AllReturned, WholeStageFailed, RequestPC
<1> QED
  BY <1>1, <1>2, <1>3, <1>4 DEF RunInv

-----------------------------------------------------------------------------
(* The steps of the orchestrator *)

LEMMA EnterStageKeeps ==
  ASSUME TypeOK, NEW j \in Jobs, RunInv(j), EnterStage(j), UNCHANGED storedVars
  PROVE  RunInv(j)'
<1> USE DEF TypeOK, OrchestratorTypeOK
<1>1. PICK o \in ahead[j] :
        /\ \A later \in ahead[j] : o <= later
        /\ ahead' = [ahead EXCEPT ![j] = ahead[j] \ {o}]
        /\ group' = [group EXCEPT ![j] = {b \in blocks[j] : OrderOf[b] = o}]
        /\ pc' = [pc EXCEPT ![j] = IF group'[j] = {} THEN "nextStage" ELSE "inStage"]
  BY DEF EnterStage
<1>2. /\ pc[j] = "nextStage" /\ group[j] = {}
      /\ UNCHANGED <<plan, blocks, outcome, input, results, errors, row>>
  BY DEF EnterStage, storedVars, RunInv, GroupInv
<1>3. o \in Int /\ \A later \in ahead'[j] : later \in Int /\ later # o /\ o < later
  BY <1>1
<1>4. \A b \in Blocks : Begun(j, b) => b \in blocks[j] /\ OrderOf[b] < o /\ b \notin group'[j]
  <2>1. \A b \in Blocks : Begun(j, b) => b \in blocks[j] /\ OrderOf[b] < o
    BY DEF RunInv, BegunInv
  <2>2. \A b \in group'[j] : OrderOf[b] = o
    BY <1>1
  <2> QED
    BY <1>3, <2>1, <2>2
<1>5. PlanInv(j)' /\ FreshInv(j)' /\ AbortInv(j)' /\ InputInv(j)'
  BY <1>1, <1>2 DEF RunInv, PlanInv, FreshInv, AbortInv, InputInv, Begun, RequestPC
<1>6. BegunInv(j)'
  BY <1>1, <1>2, <1>4 DEF RunInv, BegunInv, Begun
<1>7. GroupInv(j)'
  <2>1. CASE group'[j] = {}
    BY <1>1, <2>1 DEF GroupInv
  <2>2. CASE group'[j] # {}
    <3>1. PICK c \in group'[j] : OrderOf[c] = o
      BY <1>1, <2>2
    <3>2. group'[j] = {b \in blocks'[j] : OrderOf[b] = OrderOf[c]}
      BY <1>1, <1>2, <3>1
    <3>3. \A b \in Blocks \ group'[j] : Begun(j, b)' => OrderOf[b] < OrderOf[c]
      BY <1>2, <1>4, <3>1 DEF Begun
    <3> QED
      BY <1>1, <1>3, <2>2, <3>1, <3>2, <3>3 DEF GroupInv
  <2> QED
    BY <2>1, <2>2
<1>8. CollectedInv(j)'
  BY <1>2, <1>4 DEF RunInv, CollectedInv, Begun
<1>9. CoverInv(j)'
  BY <1>1, <1>2 DEF RunInv, CoverInv, Begun
<1>10. SurvivorInv(j)'
  BY <1>1, <1>2 DEF RunInv, SurvivorInv, Begun
<1>11. RowInv(j)'
  BY <1>1, <1>2 DEF RunInv, RowInv, AllReturned, WholeStageFailed, RequestPC
<1> QED
  BY <1>5, <1>6, <1>7, <1>8, <1>9, <1>10, <1>11 DEF RunInv

LEMMA StartBlockKeeps ==
  ASSUME TypeOK, NEW j \in Jobs, RunInv(j), NEW y \in Blocks, StartBlock(j, y),
         UNCHANGED storedVars
  PROVE  RunInv(j)'
<1> USE DEF TypeOK, OrchestratorTypeOK
<1>1. /\ pc[j] = "inStage" /\ y \in group[j] /\ outcome[j][y] = "none"
      /\ outcome' = [outcome EXCEPT ![j][y] = "started"]
      /\ input' = [input EXCEPT ![j][y] = results[j]]
      /\ UNCHANGED <<pc, plan, blocks, ahead, group, results, errors, row>>
  BY DEF StartBlock, storedVars
<1>2. PICK c \in group[j] :
        /\ group[j] = {b \in blocks[j] : OrderOf[b] = OrderOf[c]}
        /\ \A later \in ahead[j] : OrderOf[c] < later
        /\ \A b \in Blocks \ group[j] : Begun(j, b) => OrderOf[b] < OrderOf[c]
  BY <1>1 DEF RunInv, GroupInv
<1>3. OrderOf[y] = OrderOf[c] /\ y \in blocks[j] /\ \A b \in Blocks : OrderOf[b] \in Int
  BY <1>1, <1>2, OrchestratorAssumption DEF OrderOf
<1>4. /\ outcome'[j][y] = "started" /\ input'[j][y] = results[j]
      /\ \A b \in Blocks \ {y} : outcome'[j][b] = outcome[j][b] /\ input'[j][b] = input[j][b]
  BY <1>1
<1>5. PlanInv(j)' /\ FreshInv(j)' /\ AbortInv(j)'
  BY <1>1 DEF RunInv, PlanInv, FreshInv, AbortInv, RequestPC
<1>6. BegunInv(j)'
  BY <1>1, <1>2, <1>3, <1>4 DEF RunInv, BegunInv, Begun
<1>7. GroupInv(j)'
  <2>1. \A b \in Blocks \ group'[j] : Begun(j, b)' => OrderOf[b] < OrderOf[c]
    BY <1>1, <1>2, <1>4 DEF Begun
  <2> QED
    BY <1>1, <1>2, <2>1 DEF GroupInv
<1>8. CollectedInv(j)'
  BY <1>1, <1>4 DEF RunInv, CollectedInv
<1>9. InputInv(j)'
  <2>1. results[j] = {x \in Blocks : outcome'[j][x] = "ok" /\ OrderOf[x] < OrderOf[y]}
    <3>1. \A x \in Blocks : outcome'[j][x] = "ok" <=> outcome[j][x] = "ok"
      BY <1>1, <1>4
    <3>2. \A x \in Blocks \ group[j] : outcome[j][x] = "ok" => OrderOf[x] < OrderOf[y]
      BY <1>2, <1>3 DEF Begun
    <3>3. \A x \in group[j] : ~(OrderOf[x] < OrderOf[y])
      BY <1>2, <1>3
    <3> QED
      BY <3>1, <3>2, <3>3 DEF RunInv, CollectedInv
  <2>2. ASSUME NEW b \in Blocks \ {y}, Begun(j, b)'
        PROVE  input'[j][b] = {x \in Blocks : outcome'[j][x] = "ok" /\ OrderOf[x] < OrderOf[b]}
    BY <1>1, <1>4, <2>2 DEF RunInv, InputInv, Begun
  <2> QED
    BY <1>4, <2>1, <2>2 DEF InputInv
<1>10. CoverInv(j)'
  BY <1>1, <1>4 DEF RunInv, CoverInv, Begun
<1>11. SurvivorInv(j)'
  BY <1>1, <1>4 DEF RunInv, SurvivorInv, Begun
<1>12. RowInv(j)'
  BY <1>1 DEF RunInv, RowInv, RequestPC, JobRow, GoneJob
<1> QED
  BY <1>5, <1>6, <1>7, <1>8, <1>9, <1>10, <1>11, <1>12 DEF RunInv

LEMMA EndBlockKeeps ==
  ASSUME TypeOK, NEW j \in Jobs, RunInv(j), NEW y \in Blocks, EndBlock(j, y),
         UNCHANGED storedVars
  PROVE  RunInv(j)'
<1> USE DEF TypeOK, OrchestratorTypeOK
<1>1. PICK returned \in Returned : outcome' = [outcome EXCEPT ![j][y] = returned]
  BY OrchestratorAssumption DEF EndBlock
<1>2. /\ pc[j] = "inStage" /\ outcome[j][y] = "started"
      /\ UNCHANGED <<pc, plan, blocks, ahead, group, input, results, errors, row>>
  BY DEF EndBlock, storedVars
<1>3. /\ outcome'[j][y] = returned /\ returned # "none"
      /\ \A b \in Blocks \ {y} : outcome'[j][b] = outcome[j][b]
  BY <1>1 DEF Returned
<1>4. \A b \in Blocks : Begun(j, b)' <=> Begun(j, b)
  BY <1>2, <1>3 DEF Begun
<1>5. PICK c \in group[j] :
        /\ group[j] = {b \in blocks[j] : OrderOf[b] = OrderOf[c]}
        /\ \A later \in ahead[j] : OrderOf[c] < later
        /\ \A b \in Blocks \ group[j] : Begun(j, b) => OrderOf[b] < OrderOf[c]
  BY <1>2 DEF RunInv, GroupInv
<1>6. y \in group[j] /\ OrderOf[y] = OrderOf[c] /\ \A b \in Blocks : OrderOf[b] \in Int
  <2>1. y \in blocks[j]
    BY <1>2 DEF RunInv, BegunInv, Begun
  <2>2. y \in group[j]
    BY <1>2, <2>1 DEF RunInv, SurvivorInv, Begun, Returned
  <2> QED
    BY <1>5, <2>2, OrchestratorAssumption DEF OrderOf
<1>7. PlanInv(j)' /\ FreshInv(j)' /\ AbortInv(j)'
  BY <1>2 DEF RunInv, PlanInv, FreshInv, AbortInv, RequestPC
<1>8. BegunInv(j)'
  BY <1>2, <1>4 DEF RunInv, BegunInv
<1>9. GroupInv(j)'
  <2>1. \A b \in Blocks \ group'[j] : Begun(j, b)' => OrderOf[b] < OrderOf[c]
    BY <1>2, <1>4, <1>5
  <2> QED
    BY <1>2, <1>5, <2>1 DEF GroupInv
<1>10. CollectedInv(j)'
  <2>1. CollectedInv(j)
    BY <1>2 DEF RunInv
  <2>2. {b \in Blocks \ group[j] : outcome'[j][b] = "ok"} = {b \in Blocks \ group[j] : outcome[j][b] = "ok"}
    BY <1>3, <1>6
  <2>3. {b \in Blocks \ group[j] : outcome'[j][b] = "failed"} = {b \in Blocks \ group[j] : outcome[j][b] = "failed"}
    BY <1>3, <1>6
  <2> QED
    BY <1>2, <2>1, <2>2, <2>3 DEF CollectedInv
<1>11. InputInv(j)'
  <2>1. \A b \in Blocks : Begun(j, b) => ~(OrderOf[y] < OrderOf[b])
    BY <1>5, <1>6
  <2> QED
    BY <1>2, <1>3, <1>4, <2>1 DEF RunInv, InputInv
<1>12. CoverInv(j)'
  BY <1>2, <1>4 DEF RunInv, CoverInv
<1>13. SurvivorInv(j)'
  <2> SUFFICES ASSUME NEW b \in blocks[j] \ group[j], Begun(j, b)
               PROVE  /\ outcome'[j][b] \in Returned
                      /\ \E x \in blocks[j] : OrderOf[x] = OrderOf[b] /\ outcome'[j][x] # "failed"
    BY <1>2, <1>4 DEF SurvivorInv
  <2>1. outcome[j][b] \in Returned
    BY <1>2 DEF RunInv, SurvivorInv
  <2>2. PICK x \in blocks[j] : OrderOf[x] = OrderOf[b] /\ outcome[j][x] # "failed"
    BY <1>2 DEF RunInv, SurvivorInv
  <2>3. x # y
    BY <1>5, <1>6, <2>2
  <2> QED
    BY <1>3, <1>6, <2>1, <2>2, <2>3
<1>14. RowInv(j)'
  BY <1>2 DEF RunInv, RowInv, RequestPC, JobRow, GoneJob
<1> QED
  BY <1>7, <1>8, <1>9, <1>10, <1>11, <1>12, <1>13, <1>14 DEF RunInv

LEMMA CollectKeeps ==
  ASSUME TypeOK, NEW j \in Jobs, RunInv(j), Collect(j), UNCHANGED storedVars
  PROVE  RunInv(j)'
<1> USE DEF TypeOK, OrchestratorTypeOK
<1>1. /\ pc[j] = "inStage" /\ \A b \in group[j] : outcome[j][b] \in Returned
      /\ results' = [results EXCEPT ![j] = results[j] \cup Ended(j, "ok")]
      /\ errors' = [errors EXCEPT ![j] = errors[j] \cup Ended(j, "failed")]
      /\ group' = [group EXCEPT ![j] = {}]
      /\ pc' = [pc EXCEPT ![j] = IF Ended(j, "failed") = group[j] THEN "abort" ELSE "nextStage"]
      /\ UNCHANGED <<plan, blocks, ahead, outcome, input, row>>
  BY DEF Collect, storedVars
<1>2. PICK c \in group[j] :
        /\ group[j] = {b \in blocks[j] : OrderOf[b] = OrderOf[c]}
        /\ \A later \in ahead[j] : OrderOf[c] < later
        /\ \A b \in Blocks \ group[j] : Begun(j, b) => OrderOf[b] < OrderOf[c]
  BY <1>1 DEF RunInv, GroupInv
<1>3. group'[j] = {} /\ pc'[j] \in {"abort", "nextStage"}
  BY <1>1
<1>4. PlanInv(j)' /\ FreshInv(j)' /\ BegunInv(j)' /\ InputInv(j)' /\ GroupInv(j)'
  BY <1>1, <1>3
     DEF RunInv, PlanInv, FreshInv, BegunInv, InputInv, GroupInv, Begun, RequestPC
<1>5. CollectedInv(j)'
  BY <1>1, <1>3 DEF RunInv, CollectedInv, Ended
<1>6. CoverInv(j)'
  BY <1>1, <1>3 DEF RunInv, CoverInv, Begun, Returned
<1>7. SurvivorInv(j)'
  <2> SUFFICES ASSUME pc'[j] = "nextStage", NEW b \in blocks[j], Begun(j, b)
               PROVE  /\ outcome[j][b] \in Returned
                      /\ \E x \in blocks[j] : OrderOf[x] = OrderOf[b] /\ outcome[j][x] # "failed"
    BY <1>1, <1>3 DEF SurvivorInv, Begun
  <2>1. CASE b \in group[j]
    <3>1. PICK x \in group[j] : outcome[j][x] # "failed"
      BY <1>1 DEF Ended
    <3> QED
      BY <1>1, <1>2, <2>1, <3>1
  <2>2. CASE b \notin group[j]
    BY <1>1, <2>2 DEF RunInv, SurvivorInv
  <2> QED
    BY <2>1, <2>2
<1>8. AbortInv(j)'
  <2> SUFFICES ASSUME pc'[j] = "abort" PROVE WholeStageFailed(j)
    BY <1>1 DEF AbortInv, WholeStageFailed
  <2>1. \A x \in group[j] : outcome[j][x] = "failed"
    BY <1>1 DEF Ended
  <2>2. \A x \in blocks[j] : OrderOf[x] = OrderOf[c] => outcome[j][x] = "failed"
    BY <1>2, <2>1
  <2>3. \A x \in blocks[j] : OrderOf[x] > OrderOf[c] => outcome[j][x] = "none"
    <3> SUFFICES ASSUME NEW x \in blocks[j], OrderOf[x] > OrderOf[c], Begun(j, x)
                 PROVE  FALSE
      BY DEF Begun
    <3>1. OrderOf[x] \in Int /\ OrderOf[c] \in Int
      BY OrchestratorAssumption DEF OrderOf
    <3>2. x \notin group[j]
      BY <1>2, <3>1
    <3> QED
      BY <1>2, <3>1, <3>2
  <2> QED
    BY <1>2, <2>2, <2>3 DEF WholeStageFailed
<1>9. RowInv(j)'
  BY <1>1, <1>3 DEF RunInv, RowInv, RequestPC, JobRow, GoneJob
<1> QED
  BY <1>4, <1>5, <1>6, <1>7, <1>8, <1>9 DEF RunInv

-----------------------------------------------------------------------------
(* The steps of the request, the service and the users *)

LEMMA RequestKeeps ==
  ASSUME TypeOK, NEW j \in Jobs, RunInv(j), RequestStep(j)
  PROVE  RunInv(j)'
<1> USE DEF TypeOK, OrchestratorTypeOK, ServiceTypeOK, runVars
<1>1. /\ pc[j] \in RequestPC
      /\ pc'[j] \in RequestPC \cup {"start"}
      /\ UNCHANGED runVars
      /\ row'[j] = IF pc'[j] = "start" THEN JobRow("PENDING", {}, {}) ELSE row[j]
      /\ PlanInv(j)'
  <2>1. CASE LoadPipeline(j)
    BY <2>1 DEF LoadPipeline, Goto, RequestPC, RunInv, PlanInv
  <2>2. CASE LoadStages(j)
    BY <2>2 DEF LoadStages, Goto, RequestPC, PlanInv
  <2>3. CASE LoadBlocks(j)
    BY <2>3 DEF LoadBlocks, Goto, RequestPC, PlanInv
  <2>4. CASE CreateJob(j)
    BY <2>4 DEF CreateJob, Goto, RequestPC, RunInv, PlanInv
  <2>5. CASE RequestFails(j)
    BY <2>5 DEF RequestFails, Goto, RequestPC, RunInv, PlanInv
  <2> QED
    BY <2>1, <2>2, <2>3, <2>4, <2>5 DEF RequestStep
<1>2. FreshInv(j)' /\ \A b \in Blocks : ~Begun(j, b) /\ ~Begun(j, b)'
  BY <1>1 DEF RunInv, FreshInv, Begun
<1>3. BegunInv(j)' /\ InputInv(j)'
  BY <1>2 DEF BegunInv, InputInv
<1>4. CollectedInv(j)'
  BY <1>1 DEF RunInv, CollectedInv
<1>5. pc'[j] \notin {"nextStage", "inStage", "abort", "gone"}
  BY <1>1 DEF RequestPC
<1>6. GroupInv(j)' /\ CoverInv(j)' /\ SurvivorInv(j)' /\ AbortInv(j)'
  BY <1>5 DEF GroupInv, CoverInv, SurvivorInv, AbortInv
<1>7. RowInv(j)'
  <2>1. row[j] = NoJob
    BY <1>1 DEF RunInv, RowInv
  <2> QED
    BY <1>1, <1>5, <2>1 DEF RowInv, NoJob, JobRow, RequestPC
<1> QED
  BY <1>1, <1>2, <1>3, <1>4, <1>6, <1>7 DEF RunInv

LEMMA MarkRunningKeeps ==
  ASSUME TypeOK, NEW j \in Jobs, RunInv(j), MarkRunning(j)
  PROVE  RunInv(j)'
<1> USE DEF TypeOK, OrchestratorTypeOK, ServiceTypeOK
<1>1. /\ pc[j] = "start"
      /\ row' = [row EXCEPT ![j] = IF row[j].status = "DELETED" THEN row[j]
                                   ELSE JobRow("RUNNING", {}, {})]
      /\ UNCHANGED <<plan, blocks, group, outcome, input, results, errors>>
  BY DEF MarkRunning, UpdateJobStatus
<1>2. ahead[j] = {} /\ group[j] = {} /\ \A b \in Blocks : ~Begun(j, b) /\ ~Begun(j, b)'
  BY <1>1 DEF RunInv, FreshInv, Begun
<1>3. PlanInv(j)' /\ BegunInv(j)' /\ CollectedInv(j)' /\ InputInv(j)'
  BY <1>1, <1>2 DEF RunInv, PlanInv, BegunInv, CollectedInv, InputInv
<1>4. CASE row[j].status = "DELETED"
  <2>1. pc'[j] = "gone" /\ row'[j] = row[j]
    BY <1>1, <1>4 DEF MarkRunning, Goto
  <2>2. FreshInv(j)' /\ GroupInv(j)' /\ CoverInv(j)' /\ SurvivorInv(j)' /\ AbortInv(j)'
    BY <2>1 DEF FreshInv, GroupInv, CoverInv, SurvivorInv, AbortInv, RequestPC
  <2>3. RowInv(j)'
    BY <1>4, <2>1 DEF RowInv, RequestPC
  <2> QED
    BY <1>3, <2>2, <2>3 DEF RunInv
<1>5. CASE row[j].status # "DELETED"
  <2>1. /\ pc'[j] = "nextStage"
        /\ ahead'[j] = {Order[s] : s \in plan[j]}
        /\ row'[j] = JobRow("RUNNING", {}, {})
    BY <1>1, <1>5 DEF MarkRunning, Goto
  <2>2. FreshInv(j)' /\ AbortInv(j)' /\ RowInv(j)'
    BY <2>1 DEF FreshInv, AbortInv, RowInv, RequestPC, JobRow
  <2>3. GroupInv(j)' /\ SurvivorInv(j)'
    BY <1>1, <1>2, <2>1 DEF GroupInv, SurvivorInv
  <2>4. CoverInv(j)'
    <3>1. \A b \in blocks[j] : OrderOf[b] \in {Order[s] : s \in plan[j]}
      BY DEF RunInv, PlanInv, OrderOf
    <3> QED
      BY <1>1, <2>1, <3>1 DEF CoverInv
  <2> QED
    BY <1>3, <2>2, <2>3, <2>4 DEF RunInv
<1> QED
  BY <1>4, <1>5

(* The end of a run, in the row: it is what the run was. *)
LEMMA RunEnds ==
  ASSUME TypeOK, NEW j \in Jobs, RunInv(j), pc[j] \in {"nextStage", "abort"},
         pc'[j] = "gone", UNCHANGED <<plan, blocks, runVars>>,
         \/ row'[j].status = "DELETED"
         \/ row'[j].status = "COMPLETED" /\ AllReturned(j)
         \/ row'[j].status = "FAILED" /\ WholeStageFailed(j)
  PROVE  RunInv(j)'
<1> USE DEF runVars
<1>1. PlanInv(j)' /\ BegunInv(j)' /\ CollectedInv(j)' /\ InputInv(j)'
  BY DEF RunInv, PlanInv, BegunInv, CollectedInv, InputInv, Begun
<1>2. FreshInv(j)' /\ GroupInv(j)' /\ CoverInv(j)' /\ SurvivorInv(j)' /\ AbortInv(j)'
  BY DEF FreshInv, GroupInv, CoverInv, SurvivorInv, AbortInv, RequestPC
<1>3. RowInv(j)'
  BY DEF RowInv, AllReturned, WholeStageFailed, RequestPC
<1> QED
  BY <1>1, <1>2, <1>3 DEF RunInv

(* With no order index left, every block has returned. *)
LEMMA NothingLeft ==
  ASSUME NEW j \in Jobs, RunInv(j), pc[j] = "nextStage", ahead[j] = {}
  PROVE  AllReturned(j)
<1>1. group[j] = {}
  BY DEF RunInv, GroupInv
<1>2. \A b \in blocks[j] : Begun(j, b)
  BY <1>1 DEF RunInv, CoverInv
<1> QED
  BY <1>1, <1>2 DEF RunInv, SurvivorInv, AllReturned

LEMMA MarkEndKeeps ==
  ASSUME TypeOK, NEW j \in Jobs, RunInv(j), MarkCompleted(j) \/ MarkFailed(j)
  PROVE  RunInv(j)'
<1> USE DEF TypeOK, OrchestratorTypeOK, ServiceTypeOK
<1>1. CASE MarkCompleted(j)
  <2>1. AllReturned(j)
    BY <1>1, NothingLeft DEF MarkCompleted
  <2>2. row'[j] = IF row[j].status = "DELETED" THEN row[j]
                  ELSE JobRow("COMPLETED", results[j], errors[j])
    BY <1>1 DEF MarkCompleted, UpdateJobStatus
  <2>3. row'[j].status \in {"DELETED", "COMPLETED"}
    BY <2>2 DEF JobRow
  <2>4. /\ pc[j] = "nextStage" /\ pc'[j] = "gone"
        /\ UNCHANGED <<plan, blocks, runVars>>
    BY <1>1 DEF MarkCompleted, Goto
  <2> QED
    BY <2>1, <2>3, <2>4, RunEnds
<1>2. CASE MarkFailed(j)
  <2>1. WholeStageFailed(j)
    BY <1>2 DEF MarkFailed, RunInv, AbortInv
  <2>2. row'[j] = IF row[j].status = "DELETED" THEN row[j]
                  ELSE JobRow("FAILED", results[j], errors[j])
    BY <1>2 DEF MarkFailed, UpdateJobStatus
  <2>3. row'[j].status \in {"DELETED", "FAILED"}
    BY <2>2 DEF JobRow
  <2>4. /\ pc[j] = "abort" /\ pc'[j] = "gone"
        /\ UNCHANGED <<plan, blocks, runVars>>
    BY <1>2 DEF MarkFailed, Goto
  <2> QED
    BY <2>1, <2>3, <2>4, RunEnds
<1> QED
  BY <1>1, <1>2

LEMMA DeletionKeeps ==
  ASSUME TypeOK, NEW j \in Jobs, RunInv(j), DeletePipeline
  PROVE  RunInv(j)'
<1> USE DEF runVars
<1>1. /\ UNCHANGED <<pc, plan, blocks, runVars>>
      /\ row'[j] = IF row[j] = NoJob THEN NoJob ELSE GoneJob
  BY DEF DeletePipeline
<1>2. PlanInv(j)' /\ FreshInv(j)' /\ BegunInv(j)' /\ GroupInv(j)' /\ CollectedInv(j)'
  BY <1>1 DEF RunInv, PlanInv, FreshInv, BegunInv, GroupInv, CollectedInv, Begun
<1>3. InputInv(j)' /\ CoverInv(j)' /\ SurvivorInv(j)' /\ AbortInv(j)'
  BY <1>1 DEF RunInv, InputInv, CoverInv, SurvivorInv, AbortInv, WholeStageFailed, Begun
<1>4. RowInv(j)'
  <2>1. NoJob.status = "absent" /\ GoneJob.status = "DELETED"
    BY DEF NoJob, GoneJob, JobRow
  <2>2. NoJob \notin {JobRow("PENDING", {}, {}), JobRow("RUNNING", {}, {}), GoneJob}
    BY DEF NoJob, GoneJob, JobRow
  <2> QED
    BY <1>1, <2>1, <2>2 DEF RunInv, RowInv
<1> QED
  BY <1>2, <1>3, <1>4 DEF RunInv

-----------------------------------------------------------------------------
(* Every step *)

LEMMA GoroutineKeeps ==
  ASSUME TypeOK, NEW j \in Jobs, RunInv(j), GoroutineStep(j)
  PROVE  RunInv(j)'
<1>1. CASE MarkRunning(j)
  BY <1>1, MarkRunningKeeps
<1>2. CASE MarkCompleted(j) \/ MarkFailed(j)
  BY <1>2, MarkEndKeeps
<1>3. CASE UpdateFails(j)
  BY <1>3, RunCutOff DEF UpdateFails, Goto, RequestPC, TypeOK, OrchestratorTypeOK
<1>4. CASE OrchestratorStep(j) /\ UNCHANGED storedVars
  <2>1. CASE EnterStage(j)
    BY <1>4, <2>1, EnterStageKeeps
  <2>2. ASSUME NEW b \in Blocks, StartBlock(j, b) PROVE RunInv(j)'
    BY <1>4, <2>2, StartBlockKeeps
  <2>3. ASSUME NEW b \in Blocks, EndBlock(j, b) PROVE RunInv(j)'
    BY <1>4, <2>3, EndBlockKeeps
  <2>4. CASE Collect(j)
    BY <1>4, <2>4, CollectKeeps
  <2> QED
    BY <1>4, <2>1, <2>2, <2>3, <2>4 DEF OrchestratorStep
<1> QED
  BY <1>1, <1>2, <1>3, <1>4 DEF GoroutineStep

(* Jobs do not touch each other. *)
LEMMA OthersKeep ==
  ASSUME TypeOK, NEW j \in Jobs, NEW k \in Jobs \ {j}, RunInv(k),
         RequestStep(j) \/ GoroutineStep(j)
  PROVE  RunInv(k)'
<1> USE DEF TypeOK, OrchestratorTypeOK, ServiceTypeOK, runVars
<1> SUFFICES /\ pc'[k] = pc[k] /\ plan'[k] = plan[k] /\ blocks'[k] = blocks[k]
             /\ ahead'[k] = ahead[k] /\ group'[k] = group[k] /\ outcome'[k] = outcome[k]
             /\ input'[k] = input[k] /\ results'[k] = results[k] /\ errors'[k] = errors[k]
             /\ row'[k] = row[k]
  BY RunFrame
<1>1. CASE LoadPipeline(j) \/ RequestFails(j)
  BY <1>1 DEF LoadPipeline, RequestFails, Goto
<1>2. CASE LoadStages(j) \/ LoadBlocks(j)
  BY <1>2 DEF LoadStages, LoadBlocks, Goto
<1>3. CASE CreateJob(j)
  BY <1>3 DEF CreateJob, Goto
<1>4. CASE MarkRunning(j)
  BY <1>4 DEF MarkRunning, UpdateJobStatus, Goto
<1>5. CASE MarkCompleted(j) \/ MarkFailed(j)
  BY <1>5 DEF MarkCompleted, MarkFailed, UpdateJobStatus, Goto
<1>6. CASE UpdateFails(j)
  BY <1>6 DEF UpdateFails, Goto
<1>7. CASE OrchestratorStep(j) /\ UNCHANGED storedVars
  <2>1. CASE EnterStage(j)
    BY <1>7, <2>1 DEF EnterStage, storedVars
  <2>2. CASE \E b \in Blocks : StartBlock(j, b)
    BY <1>7, <2>2 DEF StartBlock, storedVars
  <2>3. CASE \E b \in Blocks : EndBlock(j, b)
    BY <1>7, <2>3 DEF EndBlock, storedVars
  <2>4. CASE Collect(j)
    BY <1>7, <2>4 DEF Collect, storedVars
  <2> QED
    BY <1>7, <2>1, <2>2, <2>3, <2>4 DEF OrchestratorStep
<1> QED
  BY <1>1, <1>2, <1>3, <1>4, <1>5, <1>6, <1>7 DEF RequestStep, GoroutineStep

LEMMA NextIInv == IInv /\ [Next]_vars => IInv'
<1> SUFFICES ASSUME IInv, [Next]_vars PROVE IInv'
  OBVIOUS
<1> USE DEF IInv
<1>1. TypeInv'
  BY NextTypeInv
<1>2. TypeOK
  BY DEF TypeInv
<1>3. ASSUME NEW k \in Jobs PROVE RunInv(k)'
  <2>1. CASE UNCHANGED serviceVars
    BY <2>1, RunFrame DEF serviceVars, runVars
  <2>2. CASE ServerStep
    <3>1. CASE DeletePipeline
      BY <1>2, <3>1, DeletionKeeps
    <3>2. CASE \E revision \in Revisions : CreatePipeline(revision) \/ UpdatePipeline(revision)
      BY <3>2, RunFrame DEF CreatePipeline, UpdatePipeline, runVars
    <3>3. CASE CrashAPI
      BY <1>2, <3>3, RunCutOff
         DEF CrashAPI, runVars, TypeOK, OrchestratorTypeOK
    <3>4. ASSUME NEW j \in Jobs, RequestStep(j) \/ GoroutineStep(j) PROVE RunInv(k)'
      BY <1>2, <3>4, RequestKeeps, GoroutineKeeps, OthersKeep
    <3> QED
      BY <2>2, <3>1, <3>2, <3>3, <3>4 DEF ServerStep, UserStep
  <2> QED
    BY <2>1, <2>2 DEF Next, vars
<1> QED
  BY <1>1, <1>3

LEMMA AlwaysIInv == Spec => []IInv
<1>1. Init => IInv
  BY TypeInit, RunInit DEF IInv
<1> QED
  BY <1>1, NextIInv, PTL DEF Spec

(* Whatever the interleaving of the goroutines, a block is given all the     *)
(* results of the earlier order indexes and no other.                       *)
THEOREM InputsCorrect == Spec => []InputsFromEarlierStages
<1>1. IInv => InputsFromEarlierStages
  BY DEF IInv, RunInv, InputInv, Begun, InputsFromEarlierStages
<1> QED
  BY <1>1, AlwaysIInv, PTL

(* A completed job has run every loaded block and no stage of it failed as  *)
(* a whole; a failed one stopped at such a stage.                           *)
THEOREM StatusCorrect == Spec => []StatusTellsTheRun
<1>1. IInv => StatusTellsTheRun
  BY DEF IInv, RunInv, RowInv, AllReturned, WholeStageFailed, StatusTellsTheRun
<1> QED
  BY <1>1, AlwaysIInv, PTL

-----------------------------------------------------------------------------
(***************************************************************************)
(* The rows implement the contract: each step of the service is a step of  *)
(* the contract or leaves the rows alone.                                  *)
(***************************************************************************)

LEMMA SameRows ==
  /\ \A status, found, failed : Contract!JobRow(status, found, failed) = JobRow(status, found, failed)
  /\ Contract!NoJob = NoJob
  /\ Contract!GoneJob = GoneJob
BY DEF Contract!JobRow, Contract!NoJob, Contract!GoneJob, JobRow, NoJob, GoneJob

(* What is collected at the end of a run. *)
LEMMA FailureShows ==
  ASSUME TypeOK, NEW j \in Jobs, RunInv(j), pc[j] = "abort"
  PROVE  \E b \in errors[j] : /\ \A x \in results[j] : OrderOf[x] < OrderOf[b]
                             /\ \A x \in errors[j] : OrderOf[x] <= OrderOf[b]
<1>1. /\ results[j] = {b \in Blocks : outcome[j][b] = "ok"}
      /\ errors[j] = {b \in Blocks : outcome[j][b] = "failed"}
  BY DEF RunInv, GroupInv, CollectedInv
<1>2. PICK b \in blocks[j] : \A x \in blocks[j] :
        /\ OrderOf[x] = OrderOf[b] => outcome[j][x] = "failed"
        /\ OrderOf[x] > OrderOf[b] => outcome[j][x] = "none"
  BY DEF RunInv, AbortInv, WholeStageFailed
<1>3. b \in Blocks /\ b \in errors[j]
  BY <1>1, <1>2 DEF TypeOK, OrchestratorTypeOK
<1>4. \A x \in results[j] \cup errors[j] : x \in blocks[j] /\ outcome[j][x] # "none"
  BY <1>1 DEF RunInv, BegunInv, Begun
<1>5. \A x \in Blocks : OrderOf[x] \in Int
  BY OrchestratorAssumption DEF OrderOf
<1>6. \A x \in results[j] : OrderOf[x] < OrderOf[b]
  BY <1>1, <1>2, <1>3, <1>4, <1>5
<1>7. \A x \in errors[j] : OrderOf[x] <= OrderOf[b]
  BY <1>1, <1>2, <1>3, <1>4, <1>5
<1> QED
  BY <1>3, <1>6, <1>7

LEMMA GoroutineImplements ==
  ASSUME TypeOK, NEW j \in Jobs, RunInv(j), GoroutineStep(j)
  PROVE  Contract!Begin(j) \/ Contract!Succeed(j) \/ Contract!Fail(j) \/ row' = row
<1> USE DEF TypeOK, OrchestratorTypeOK, ServiceTypeOK
<1>1. \A new : UpdateJobStatus(j, new) /\ row[j].status = "DELETED" => row' = row
  BY DEF UpdateJobStatus
<1>2. \A new : UpdateJobStatus(j, new) /\ row[j].status # "DELETED"
        => row' = [row EXCEPT ![j] = new]
  BY DEF UpdateJobStatus
<1>3. CASE MarkRunning(j)
  <2>1. row[j] \in {JobRow("PENDING", {}, {}), GoneJob}
    BY <1>3 DEF MarkRunning, RunInv, RowInv
  <2>2. CASE row[j] = JobRow("PENDING", {}, {})
    <3>1. row' = [row EXCEPT ![j] = JobRow("RUNNING", {}, {})]
      BY <1>2, <1>3, <2>2 DEF MarkRunning, JobRow
    <3>2. row[j].status = "PENDING"
      BY <2>2 DEF JobRow
    <3>3. row' = [row EXCEPT ![j] = Contract!JobRow("RUNNING", {}, {})]
      BY <3>1, SameRows
    <3> QED
      BY <3>2, <3>3 DEF Contract!Begin
  <2>3. CASE row[j] = GoneJob
    <3>1. row[j].status = "DELETED"
      BY <2>3 DEF GoneJob, JobRow
    <3> QED
      BY <1>1, <1>3, <3>1 DEF MarkRunning
  <2> QED
    BY <2>1, <2>2, <2>3
<1>4. CASE MarkCompleted(j)
  <2>1. row[j] \in {JobRow("RUNNING", {}, {}), GoneJob}
    BY <1>4 DEF MarkCompleted, RunInv, RowInv
  <2>2. CASE row[j] = JobRow("RUNNING", {}, {})
    <3>1. row' = [row EXCEPT ![j] = JobRow("COMPLETED", results[j], errors[j])]
      BY <1>2, <1>4, <2>2 DEF MarkCompleted, JobRow
    <3>2. results[j] \cap errors[j] = {}
      BY DEF RunInv, CollectedInv
    <3>3. results[j] \in SUBSET Blocks /\ errors[j] \in SUBSET Blocks
      OBVIOUS
    <3>4. row' = [row EXCEPT ![j] = Contract!JobRow("COMPLETED", results[j], errors[j])]
      BY <3>1, SameRows
    <3>5. row[j].status = "RUNNING"
      BY <2>2 DEF JobRow
    <3> QED
      BY <3>2, <3>3, <3>4, <3>5 DEF Contract!Succeed
  <2>3. CASE row[j] = GoneJob
    <3>1. row[j].status = "DELETED"
      BY <2>3 DEF GoneJob, JobRow
    <3> QED
      BY <1>1, <1>4, <3>1 DEF MarkCompleted
  <2> QED
    BY <2>1, <2>2, <2>3
<1>5. CASE MarkFailed(j)
  <2>1. pc[j] = "abort" /\ row[j] \in {JobRow("RUNNING", {}, {}), GoneJob}
    BY <1>5 DEF MarkFailed, RunInv, RowInv
  <2>2. CASE row[j] = JobRow("RUNNING", {}, {})
    <3>1. row' = [row EXCEPT ![j] = JobRow("FAILED", results[j], errors[j])]
      BY <1>2, <1>5, <2>2 DEF MarkFailed, JobRow
    <3>2. results[j] \in SUBSET Blocks /\ errors[j] \in SUBSET Blocks
      OBVIOUS
    <3>3. row' = [row EXCEPT ![j] = Contract!JobRow("FAILED", results[j], errors[j])]
      BY <3>1, SameRows
    <3>4. row[j].status = "RUNNING"
      BY <2>2 DEF JobRow
    <3>5. \E b \in errors[j] : /\ \A x \in results[j] : OrderOf[x] < OrderOf[b]
                             /\ \A x \in errors[j] : OrderOf[x] <= OrderOf[b]
      BY <2>1, FailureShows
    <3> QED
      BY <3>2, <3>3, <3>4, <3>5 DEF Contract!Fail
  <2>3. CASE row[j] = GoneJob
    <3>1. row[j].status = "DELETED"
      BY <2>3 DEF GoneJob, JobRow
    <3> QED
      BY <1>1, <1>5, <3>1 DEF MarkFailed
  <2> QED
    BY <2>1, <2>2, <2>3
<1>6. CASE UpdateFails(j) \/ (OrchestratorStep(j) /\ UNCHANGED storedVars)
  BY <1>6 DEF UpdateFails, storedVars
<1> QED
  BY <1>3, <1>4, <1>5, <1>6 DEF GoroutineStep

LEMMA NextImplements == IInv /\ [Next]_vars => [Contract!Next]_row
<1> SUFFICES ASSUME IInv, [Next]_vars PROVE [Contract!Next]_row
  OBVIOUS
<1> USE DEF IInv
<1>1. TypeOK
  BY DEF TypeInv
<1>2. CASE UNCHANGED serviceVars
  BY <1>2 DEF serviceVars
<1>3. CASE UserStep
  <2>1. CASE DeletePipeline
    BY <2>1, SameRows DEF DeletePipeline, Contract!Next, Contract!Withdraw
  <2> QED
    BY <1>3, <2>1 DEF UserStep, CreatePipeline, UpdatePipeline
<1>4. CASE CrashAPI
  BY <1>4 DEF CrashAPI
<1>5. ASSUME NEW j \in Jobs, RequestStep(j) PROVE [Contract!Next]_row
  <2>1. CASE CreateJob(j)
    <3>1. CASE pipeline = "present"
      <4>1. row[j] = NoJob
        BY <2>1 DEF CreateJob, RunInv, RowInv, RequestPC
      <4>2. row' = [row EXCEPT ![j] = JobRow("PENDING", {}, {})]
        BY <2>1, <3>1 DEF CreateJob
      <4> QED
        BY <4>1, <4>2, SameRows DEF Contract!Accept, Contract!Next
    <3> QED
      BY <2>1, <3>1 DEF CreateJob
  <2> QED
    BY <1>5, <2>1 DEF RequestStep, LoadPipeline, LoadStages, LoadBlocks, RequestFails
<1>6. ASSUME NEW j \in Jobs, GoroutineStep(j) PROVE [Contract!Next]_row
  BY <1>1, <1>6, GoroutineImplements DEF Contract!Next
<1> QED
  BY <1>2, <1>3, <1>4, <1>5, <1>6 DEF Next, ServerStep, vars

(* The job rows refine JobContract: accepted, begun, ended once, failed     *)
(* only with a whole stage, gone only with the pipeline.                    *)
THEOREM ContractKept == Spec => JobsKeepContract
<1>1. Init => Contract!Init
  BY SameRows DEF Init, ServiceInit, Contract!Init
<1> QED
  BY <1>1, AlwaysIInv, NextImplements, PTL DEF Spec, JobsKeepContract, Contract!Spec

-----------------------------------------------------------------------------
(* What the client has been told stays true because the contract has no     *)
(* step from an ended job but its deletion.                                 *)

LEMMA ContractKeepsAnswers ==
  ASSUME TypeOK, AnswerIsFinal, [Contract!Next]_row, UNCHANGED clientVars
  PROVE  AnswerIsFinal'
<1> SUFFICES ASSUME NEW k \in Jobs, client[k] = "answered"
             PROVE  row'[k] \in {answer[k], GoneJob}
  BY DEF AnswerIsFinal, clientVars
<1>1. answer[k].status \in Final /\ row[k] \in {answer[k], GoneJob}
  BY DEF AnswerIsFinal
<1>2. row[k].status \in {"COMPLETED", "FAILED", "DELETED"} /\ row[k] # NoJob
  BY <1>1 DEF Final, GoneJob, NoJob, JobRow
<1>3. CASE row' = row
  BY <1>1, <1>3
<1>4. ASSUME NEW j \in Jobs,
             Contract!Accept(j) \/ Contract!Begin(j) \/ Contract!Succeed(j) \/ Contract!Fail(j)
      PROVE  row'[k] = row[k]
  <2>1. j # k
    BY <1>2, <1>4, SameRows
       DEF Contract!Accept, Contract!Begin, Contract!Succeed, Contract!Fail
  <2> QED
    BY <1>4, <2>1 DEF TypeOK, ServiceTypeOK, Contract!Accept, Contract!Begin, Contract!Succeed, Contract!Fail
<1>5. CASE Contract!Withdraw
  BY <1>2, <1>5, SameRows DEF Contract!Withdraw
<1> QED
  BY <1>1, <1>3, <1>4, <1>5 DEF Contract!Next

LEMMA ClientsKeepAnswers ==
  ASSUME TypeOK, AnswerIsFinal, NEW j \in Jobs, ClientStep(j), UNCHANGED serviceVars
  PROVE  AnswerIsFinal'
<1> USE DEF TypeOK, PollingTypeOK, AnswerIsFinal, serviceVars
<1>1. CASE BeginPolling(j)
  BY <1>1 DEF BeginPolling
<1>2. CASE PollAnswered(j)
  BY <1>2 DEF PollAnswered
<1>3. CASE PollUnfinished(j)
  BY <1>3 DEF PollUnfinished
<1>4. CASE PollError(j)
  BY <1>4 DEF PollError
<1>5. CASE PollTimesOut(j)
  BY <1>5 DEF PollTimesOut
<1> QED
  BY <1>1, <1>2, <1>3, <1>4, <1>5 DEF ClientStep

(* The job the client got is ended, and stays so until it is deleted.       *)
THEOREM AnswersFinal == Spec => []AnswerIsFinal
<1>1. Init => AnswerIsFinal
  BY DEF Init, PollingInit, AnswerIsFinal
<1>2. IInv /\ AnswerIsFinal /\ [Next]_vars => AnswerIsFinal'
  <2> SUFFICES ASSUME IInv, AnswerIsFinal, [Next]_vars PROVE AnswerIsFinal'
    OBVIOUS
  <2>1. CASE UNCHANGED clientVars
    BY <2>1, NextImplements, ContractKeepsAnswers DEF IInv, TypeInv
  <2>2. CASE \E j \in Jobs : ClientStep(j) /\ UNCHANGED serviceVars
    BY <2>2, ClientsKeepAnswers DEF IInv, TypeInv
  <2> QED
    BY <2>1, <2>2 DEF Next, vars
<1> QED
  BY <1>1, <1>2, AlwaysIInv, PTL DEF Spec
=============================================================================
