-------------------------------- MODULE MCRadar --------------------------------
(* Two venues and one pair: the filter compares them, their tasks can take *)
(* the two locks in opposite orders, and two errors trip a breaker.        *)
EXTENDS Radar, TLC

CONSTANTS v1, v2, p1

MCVenues == {v1, v2}
MCPairs == {p1}
MCLevels == {1, 2}
===============================================================================
