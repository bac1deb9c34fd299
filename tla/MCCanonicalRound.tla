--------------------------- MODULE MCCanonicalRound ----------------------------
(* Three tokens, a pool for each two of them and a second one for 2 and 3. *)
(* Tokens 1 and 2 may have the same number of decimals (MCSameInput).      *)
EXTENDS CanonicalRound

(* The second pool for 2 and 3 is a concentrated one.                      *)
MCProtocol(p) == IF p = 4 THEN "V3" ELSE "V2"

MCSides(p) == CASE p = 1 -> {1, 2} [] p = 2 -> {2, 3} [] p = 3 -> {1, 3} [] p = 4 -> {2, 3}

(* One unit of 1 is worth two of 2 and of 3; pool 4 pays too much for 2,   *)
(* and the other branch of the chain pays one more.                        *)
MCOut(b, p, t, x) ==
  b + CASE p = 1 -> IF t = 1 THEN 2 * x - 1 ELSE x \div 2
        [] p = 2 -> IF x = 0 THEN 0 ELSE x - 1
        [] p = 3 -> IF t = 1 THEN 2 * x - 1 ELSE x \div 2
        [] p = 4 -> IF t = 2 THEN 2 * x ELSE x \div 2

MCInput(t) == CASE t = 1 -> 4 [] t = 2 -> 11 [] t = 3 -> 30
MCSameInput(t) == CASE t = 1 -> 4 [] t = 2 -> 4 [] t = 3 -> 8
===============================================================================
