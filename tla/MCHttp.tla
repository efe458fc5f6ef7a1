------------------------------- MODULE MCHttp -------------------------------
(* Two clients, of which one also uses the legacy path and the other starts  *)
(* uploads, and the probe of the orchestrator.                               *)
EXTENDS HttpApi

CONSTANTS client1, client2, probe

MCRequest == {client1, client2, probe}

MCAsks ==
  [r \in MCRequest |->
     CASE r = client1 -> {"validate_job", "create_intake_job_legacy"}
       [] r = client2 -> {"create_upload", "validate_job"}
       [] r = probe   -> {"health_live"}]
=============================================================================
