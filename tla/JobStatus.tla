------------------------------ MODULE JobStatus ------------------------------
(* The statuses of a job (api/jobs.py), which the modules about jobs share.     *)

Active == {"pending", "running", "paused"}
Terminal == {"completed", "failed", "cancelled"}
=============================================================================
