------------------------------ MODULE Contest ------------------------------
(***************************************************************************)
(* What one marking run is given: the contest that contest_load read, the  *)
(* marks each submission earns when nothing disturbs it, and what may go   *)
(* wrong on the way.  Both the judge and the promise it keeps are stated   *)
(* over these constants.                                                   *)
(***************************************************************************)
EXTENDS Marks, FiniteSetsExt

CONSTANTS
  UsersCount,     \* contest->users_count
  ProblemsCount,  \* contest->problems_count
  Tests,          \* Tests[p]:  tests of problem p
  Points,         \* Points[p]: what problem p is worth
  Verdict,        \* Verdict[u][p]: the marks of u's submission to p, undisturbed
  Faults          \* what may go wrong: some of "start", "wait", "runner"

User    == 1 .. UsersCount
Problem == 1 .. ProblemsCount
Cell    == User \X Problem     \* one mark of the scoreboard
INT_MAX == 2147483647

(* contest_load refuses a problem without tests.  Nothing in the code keeps *)
(* users and problems from being fewer than none, points from being        *)
(* negative, or points times tests from overflowing the int of main's      *)
(* scoring loop: that much is asked of the configuration.                  *)
ASSUME ContestAssumption ==
  /\ UsersCount \in Nat /\ ProblemsCount \in Nat
  /\ Tests  \in [Problem -> Nat \ {0}]
  /\ Points \in [Problem -> Nat]
  /\ \A p \in Problem : Points[p] * Tests[p] <= INT_MAX

(* A runner that is left alone writes X, or one mark for each test. *)
ASSUME VerdictAssumption ==
  \A u \in User, p \in Problem :
    \/ Verdict[u][p] = <<NotBuilt>>
    \/ Verdict[u][p] \in Seq(TestMark) /\ Len(Verdict[u][p]) = Tests[p]

ASSUME FaultsAssumption == Faults \subseteq {"start", "wait", "runner"}

(* The function f with the value v at x, where it may have had none. *)
With(f, x, v) == [y \in DOMAIN f \cup {x} |-> IF y = x THEN v ELSE f[y]]

(* The cell of a submission to p that came back with these marks, of one   *)
(* whose job was never collected (calloc left it all zeros), and of a      *)
(* student with no directory.                                              *)
MarkedCell(p, marks) == [mark  |-> Summarise(marks),
                         score |-> Score(Points[p], Passed(marks), Tests[p])]
LostCell   == [mark |-> Nul, score |-> 0]
AbsentCell == [mark |-> NotBuilt, score |-> 0]
=============================================================================
