----------------------------- MODULE MCSession ------------------------------
(***************************************************************************)
(* Two users and one problem of two tests for TLC, once with two names and *)
(* once with the same name twice, and two judges one after the other.      *)
(***************************************************************************)
EXTENDS Session

MCNamings == {<<"Ivanov", "Kim">>, <<"Ivanov", "Ivanov">>}
MCSandboxes == {[wish |-> "auto", available |-> FALSE], [wish |-> "on", available |-> FALSE]}
MCTests   == <<2>>
MCPoints  == <<7>>
MCVerdict == << << <<"+", "x">> >>, << <<"X">> >> >>
=============================================================================
