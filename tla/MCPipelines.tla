----------------------------- MODULE MCPipelines -----------------------------
(* Two saves of a pipeline.  The first has two stages of the same order     *)
(* index, with two blocks and one, and a stage of a later index; the second *)
(* a stage with one block and a later one without any.                      *)
EXTENDS Pipelines

CONSTANTS s1, s2, s3, s4, s5, b1, b2, b3, b4, b5

MCOrder == [s \in Stages |-> IF s \in {s1, s2, s4} THEN 1 ELSE 2]
MCStageOf == [b \in Blocks |-> CASE b \in {b1, b2} -> s1
                                 [] b = b3 -> s2
                                 [] b = b4 -> s3
                                 [] b = b5 -> s4]
MCOutcomes == [b \in Blocks |-> IF b \in {b1, b5} THEN Returned ELSE {"ok", "failed"}]
=============================================================================
