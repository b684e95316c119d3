------------------------------ MODULE MCJudge ------------------------------
(***************************************************************************)
(* A contest of two students and two problems for TLC: one problem with a  *)
(* single test and one with two, points that do not divide evenly, and     *)
(* four submissions that all earn different marks.                         *)
(***************************************************************************)
EXTENDS Judge

MCTests   == <<1, 2>>
MCPoints  == <<10, 7>>
MCVerdict == << << <<"+">>, <<"-", "+">> >>,
                << <<"X">>, <<"+", "x">> >> >>

\* One student, three problems, so that three workers have something to do.
MCRowTests   == <<1, 1, 2>>
MCRowPoints  == <<10, 5, 7>>
MCRowVerdict == << << <<"+">>, <<"x">>, <<"+", "-">> >> >>

\* The pids of the judge's own children are interchangeable.
MCSymmetry == Permutations(Pid \ Inherited)
=============================================================================
