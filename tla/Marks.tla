------------------------------- MODULE Marks -------------------------------
(***************************************************************************)
(* The marks a runner writes and what the judge makes of them: one mark    *)
(* for the scoreboard (summarise) and a score (the scoring loop of main).  *)
(***************************************************************************)
EXTENDS Integers, Sequences, FiniteSets

TestMark == {"+", "-", "x"}   \* what one test may earn
NotBuilt == "X"               \* nothing submitted, or nothing that builds
Mark     == TestMark \cup {NotBuilt}
Nul      == "nul"             \* the '\0' calloc leaves in a Job's mark
Newline  == "nl"              \* what a runner that ran to its end writes last

(* One mark for a whole submission: a crash outranks a wrong answer. *)
Summarise(marks) ==
  IF marks = <<>> \/ marks = <<NotBuilt>>
  THEN NotBuilt
  ELSE IF \E i \in DOMAIN marks : marks[i] = "x"
       THEN "x"
       ELSE IF \E i \in DOMAIN marks : marks[i] # "+" THEN "-" ELSE "+"

Passed(marks) == Cardinality({i \in DOMAIN marks : marks[i] = "+"})

(* The points of a problem shared out over its tests, in C's integers: the  *)
(* product fits an int (ContestAssumption of module Contest) and is not     *)
(* negative.                                                               *)
Score(points, passed, tests) ==
  IF tests > 0 THEN (points * passed) \div tests ELSE 0
=============================================================================
