----------------------------- MODULE MCPipeline -----------------------------
(* Pipeline with small sets. *)
EXTENDS Pipeline, TLC

(* One acceptable upload, and one that is too large. *)
MCOffered == {[size |-> n, csv |-> TRUE] : n \in {MaxUpload, MaxUpload + 1}}

Symmetry == Permutations(MessageId)
=============================================================================
