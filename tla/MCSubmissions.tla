--------------------------- MODULE MCSubmissions ----------------------------
(***************************************************************************)
(* Lines of up to four bytes, and fractions of an int of eight bits with   *)
(* numbers of one and two digits, some of which do not fit together.       *)
(***************************************************************************)
EXTENDS Submissions

MCNumber == {<<0>>, <<1>>, <<3>>, <<6>>, <<8>>, <<1, 2>>, <<2, 0, 0>>}
=============================================================================
