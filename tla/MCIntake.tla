------------------------------ MODULE MCIntake ------------------------------
(* Intake with small symmetric sets of jobs, threads and message ids. *)
EXTENDS Intake, TLC

MCOffered == Content

Symmetry == Permutations(Job) \cup Permutations(Thread) \cup Permutations(MessageId)
=============================================================================
