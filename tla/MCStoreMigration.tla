-------------------------- MODULE MCStoreMigration --------------------------
(* Two old runs, the API and one worker for TLC.                           *)
EXTENDS StoreMigration, TLC

CONSTANTS r1, r2, api, worker
=============================================================================
