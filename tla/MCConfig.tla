------------------------------ MODULE MCConfig ------------------------------
(***************************************************************************)
(* Descriptions for TLC.  Everything that may be wrong with one part of a  *)
(* description goes together with everything that may be wrong with the    *)
(* others.                                                                 *)
(***************************************************************************)
EXTENDS Config

MCName      == {"Alice", "Bob", Empty}
MCProgram   == {"checkers/own"}
MCDirectory == {"checkers"}
MCDotted    == {"tar.gz"}

Rosters ==
  {{}, {<<>>}, {<<"Alice", "Bob">>}, {<<"Alice", NoName>>}, {<<Empty>>}}

A(tests, checker, points) ==
  [letter |-> {}, tests |-> tests, checker |-> checker, time |-> {}, memory |-> {}, points |-> points]

Sheets ==
  {A({}, {}, {}), A({0}, {}, {}), A({6}, {}, {}), A({6}, {"checkers/own"}, {7}),
   A({6}, {"checkers/gone"}, {}), A({6}, {"checkers"}, {}), A({6}, {Empty}, {}),
   [A({5}, {"checker_int"}, {200}) EXCEPT !.letter = {2}, !.time = {1}, !.memory = {256}]}

ProblemLists == {{}, {<<>>}} \cup {{<<a>>} : a \in Sheets} \cup {{<<A({6}, {}, {}), b>>} : b \in Sheets}

Lines   == {{}, {Empty}, {Spaces}, {"cc"}}
Entries == {[ext |-> "c", compile |-> c, run |-> r] : c, r \in Lines}
Python  == [ext |-> "py", compile |-> {}, run |-> {"python3"}]
Archive == [ext |-> "tar.gz", compile |-> {}, run |-> {"sh"}]

Tables ==
  {{}, {<<>>}, {<<Archive>>}}
  \cup {{<<c>>} : c \in Entries} \cup {{<<Python, c>>} : c \in Entries}

\* With nobody written down, -1 and -2 are counts below none.
Miscounts ==
  {[users |-> 0, problems |-> 0]}
  \cup {[users |-> m, problems |-> 0] : m \in {-2, -1, 1}}
  \cup {[users |-> 0, problems |-> m] : m \in {-1, 1}}

MCDescription ==
  [users : Rosters, problems : ProblemLists, languages : Tables,
   sandbox : {{}, {"on"}, {Empty}, {"maybe"}}, miscount : Miscounts]
=============================================================================
