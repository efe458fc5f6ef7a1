------------------------------ MODULE Envelope ------------------------------
(***************************************************************************)
(* The message contract of app/messaging/schemas.py: what the API builds   *)
(* and what the worker makes of a body that it received.                   *)
(*                                                                         *)
(* Of a body only this matters: whether it is a JSON object, which of its  *)
(* fields break their declared type, and its timestamp.                    *)
(***************************************************************************)

Field == {"message_id", "message_type", "schema_version", "job_id", "s3_bucket", "s3_key"}

(* created_at: in UTC; with another offset; without one; with an offset    *)
(* that takes it out of datetime's range in UTC (year 1 east of Greenwich, *)
(* year 9999 west of it); and no datetime at all.                          *)
Timestamp == {"utc", "offset", "naive", "unconvertible", "invalid"}

RawBody == [object : BOOLEAN, wrong : SUBSET Field, created_at : Timestamp]

(* _require_utc, which sees any created_at that is a datetime. *)
RequireUtc(ts) ==
  CASE ts \in {"utc", "offset"} -> "utc"
    [] ts = "naive"             -> "ValueError"
    [] ts = "unconvertible"     -> "OverflowError"

(* build_process_dataset_message.  The constructor runs the validators of   *)
(* the model itself: wrong fields and a naive timestamp would raise at the  *)
(* publisher and never be sent, and datetime.now(UTC) passes _require_utc.  *)
Build == [object |-> TRUE, wrong |-> {}, created_at |-> RequireUtc("utc")]

(* model_validate_json.  Wrong fields and ValueErrors are gathered into one *)
(* ValidationError; any other exception of a validator goes straight up,    *)
(* whatever else is wrong with the body.                                    *)
Parse(body) ==
  LET dated == body.object /\ body.created_at # "invalid" IN
  IF dated /\ RequireUtc(body.created_at) = "OverflowError" THEN "OverflowError"
  ELSE IF dated /\ RequireUtc(body.created_at) = "utc" /\ body.wrong = {} THEN "accepted"
  ELSE "ValidationError"
=============================================================================
