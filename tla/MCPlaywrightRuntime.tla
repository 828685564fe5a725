----------------------- MODULE MCPlaywrightRuntime -----------------------
(* One run over three pages for TLC.                                       *)
EXTENDS PlaywrightRuntime

CONSTANTS v1, v2
=============================================================================
