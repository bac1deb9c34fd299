---------------------------- MODULE MCCanonicalLoop ----------------------------
(* One route, anchors every second block of seven, one reorganisation, and*)
(* both profit floors: the program's and its test's.                       *)
EXTENDS CanonicalLoop
===============================================================================
