------------------------------ MODULE MCTexts ------------------------------
(***************************************************************************)
(* Texts for TLC: every .cfg file of up to six bytes with a letter, = and  *)
(* line breaks in them; every contest.json of up to nine units with a      *)
(* string and a scalar, and a blank in one place; every string of up to    *)
(* three pieces, with the codes at which UTF-8 and the surrogates change;  *)
(* every command line of up to four units, with a path that is shorter     *)
(* than a placeholder and two that are longer and hold one, a blank in one *)
(* of them; and up to three arguments of the judge's own.                  *)
(***************************************************************************)
EXTENDS Texts

UpTo(n, S) == UNION {[1 .. k -> S] : k \in 0 .. n}

MCCfgText == UpTo(6, {"a", "=", "\n"})

Codes == {0, 127, 128, 2047, 2048, 55296, 56319, 56320, 57343, 65535}
Pieces == {[kind |-> "byte", code |-> 65], [kind |-> "byte", code |-> 195],
           [kind |-> "escape", code |-> 10],
           [kind |-> "unknown", code |-> 0], [kind |-> "badhex", code |-> 0]}
          \cup {[kind |-> "u", code |-> c] : c \in Codes}
MCQuoted == [pieces : UpTo(3, Pieces), closed : BOOLEAN]

MCCommandLine == UpTo(4, {" ", "\t", "{src}", "{bin}", "x"})
MCPath == {<<"y">>, <<"y", "{bin}">>, <<"y", " ", "y", "y", "y", "{src}">>}

MCAtoi == ("" :> 0) @@ ("x" :> 0) @@ ("0" :> 0) @@ ("2" :> 2) @@ ("-1" :> -1)
MCText == DOMAIN MCAtoi
=============================================================================
