----------------------------- MODULE JobContract -----------------------------
(***************************************************************************)
(* What the owner of a pipeline is promised of its jobs, as GET            *)
(* /pipelines/jobs/:id shows them: a job is accepted, begins, and ends     *)
(* once, with the blocks that gave a result and those that failed.  A job  *)
(* fails only because a whole stage did.  Jobs disappear together, with    *)
(* their pipeline.  Nothing is promised of a job's end.                    *)
(***************************************************************************)
EXTENDS Integers

CONSTANTS
  Jobs, Blocks,
  OrderOf       (* the order index of a block's stage                       *)

VARIABLE row    (* pipeline_jobs                                            *)

JobRow(status, results, errors) ==
  [status |-> status, results |-> results, errors |-> errors]
NoJob == JobRow("absent", {}, {})
GoneJob == JobRow("DELETED", {}, {})

Init == row = [j \in Jobs |-> NoJob]

Accept(j) ==
  /\ row[j] = NoJob
  /\ row' = [row EXCEPT ![j] = JobRow("PENDING", {}, {})]

Begin(j) ==
  /\ row[j].status = "PENDING"
  /\ row' = [row EXCEPT ![j] = JobRow("RUNNING", {}, {})]

Succeed(j) ==
  /\ row[j].status = "RUNNING"
  /\ \E results, errors \in SUBSET Blocks :
       /\ results \cap errors = {}
       /\ row' = [row EXCEPT ![j] = JobRow("COMPLETED", results, errors)]

(* The last stage that ran has nothing but failures. *)
Fail(j) ==
  /\ row[j].status = "RUNNING"
  /\ \E results, errors \in SUBSET Blocks :
       /\ \E b \in errors : /\ \A x \in results : OrderOf[x] < OrderOf[b]
                            /\ \A x \in errors : OrderOf[x] <= OrderOf[b]
       /\ row' = [row EXCEPT ![j] = JobRow("FAILED", results, errors)]

Withdraw ==
  row' = [j \in Jobs |-> IF row[j] = NoJob THEN NoJob ELSE GoneJob]

Next ==
  \/ \E j \in Jobs : Accept(j) \/ Begin(j) \/ Succeed(j) \/ Fail(j)
  \/ Withdraw

Spec == Init /\ [][Next]_row
=============================================================================
