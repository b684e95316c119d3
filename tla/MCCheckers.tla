----------------------------- MODULE MCCheckers -----------------------------
(* Checkers on every pair of short files over two letters.                 *)
EXTENDS Checkers, TLC

CONSTANTS a, b

MCLetter   == {a, b}
MCSymmetry == Permutations({a, b})
=============================================================================
