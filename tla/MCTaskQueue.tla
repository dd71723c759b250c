------------------------------ MODULE MCTaskQueue ------------------------------
(***************************************************************************)
(* Instances of TaskQueue for TLC.  Jobs s1 and s2 save messages of one     *)
(* conversation; s1 submits the enrichment e1 of its message, and e2 is the *)
(* enrichment of a message that a request saved itself (history.py:91).     *)
(* While the enricher has the lock, one worker can wait for it and the      *)
(* other come for it.  p is a job without a key, as process_rag_file is.    *)
(* The smaller instance, which shows what the gate does not prevent, has    *)
(* two messages and the enrichment of each.                                 *)
(***************************************************************************)
EXTENDS TaskQueue

CONSTANTS s1, s2, e1, e2, p, k1

MCJobs == {s1, s2, e1, e2, p}
MCSmallJobs == {s1, s2, e1, e2}
MCKeys == {k1}

MCKeyOf == [j \in Jobs |-> IF j = p THEN NoKey ELSE k1]

MCLaneOf == [j \in Jobs |-> IF j \in {e1, e2} THEN "enrichment" ELSE "persistence"]

MCChildOf == [j \in Jobs |-> IF j = s1 THEN e1 ELSE NoJob]

MCSmallChildOf ==
  [j \in Jobs |-> IF j = s1 THEN e1 ELSE IF j = s2 THEN e2 ELSE NoJob]
=============================================================================
