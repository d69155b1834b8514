---------------------------- MODULE MCWorkflowJobs ----------------------------
(* A reminder that is tried once and may be offered again, the document of a  *)
(* process that is tried twice, and two drains.                               *)
EXTENDS WorkflowJobs

CONSTANTS notice, document, w1, w2

MCMaxAttempts == [j \in Jobs |-> IF j = notice THEN 1 ELSE 2]
MCMaxRequeues == [j \in Jobs |-> IF j = notice THEN 1 ELSE 0]
=============================================================================
