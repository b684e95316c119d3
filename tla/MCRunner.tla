------------------------------ MODULE MCRunner ------------------------------
(* Runner on a problem of three tests, with everything that may fail.      *)
EXTENDS Runner

MCFaults == {"setup", "files", "log", "judge"}
=============================================================================
