------------------------------- MODULE MCRuntime -------------------------------
(* The process with its terminal; one request to stop of each kind.        *)
EXTENDS Runtime
===============================================================================
