------------------------------ MODULE MCWorker ------------------------------
(* Worker with a small set of interchangeable processes, and messages of the *)
(* three kinds that the contract tells apart.                                *)
EXTENDS Worker, TLC

CONSTANTS Refused, Escaping

MCBody == [m \in Message |->
  IF m \in Refused THEN [Build EXCEPT !.wrong = {"schema_version"}]
  ELSE IF m \in Escaping THEN [Build EXCEPT !.created_at = "unconvertible"]
  ELSE Build]

Symmetry == Permutations(Process)
=============================================================================
