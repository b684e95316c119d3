------------------------------ MODULE Marking ------------------------------
(***************************************************************************)
(* What a marking run promises, said without slots, processes or pipes:    *)
(* "jobs finish in whatever order they finish in and are written out in    *)
(* the order of the configuration" (README.md).  Submissions are marked in *)
(* any order.  When the last one is, or the run has failed, the scoreboard *)
(* is written cell by cell in the order of the configuration, and what a   *)
(* cell says depends on its own submission alone.                          *)
(***************************************************************************)
EXTENDS Contest

VARIABLES
  present,   \* present[u]: whether u has a directory, for the users looked at
  marks,     \* marks[<<u, p>>]: what came back, for the submissions marked
  failed,    \* the run has failed and marks nothing it need not
  board,     \* board[<<u, p>>]: the cells written
  totals     \* totals[u]: the totals written

vars == <<present, marks, failed, board, totals>>

Init ==
  /\ present = <<>> /\ marks = <<>>
  /\ failed = FALSE
  /\ board = <<>> /\ totals = <<>>

Enlisted   == DOMAIN present = User
Submitted  == {c \in Cell : Enlisted /\ present[c[1]]}
Unwritten  == DOMAIN board = {} /\ DOMAIN totals = {}
Settled    == Enlisted /\ (failed \/ Submitted \subseteq DOMAIN marks)

CellOf(c) ==
  IF ~present[c[1]] THEN AbsentCell
  ELSE IF c \in DOMAIN marks THEN MarkedCell(c[2], marks[c]) ELSE LostCell

RowOf(u)      == {u} \X Problem
RowTotal(u)   == MapThenSumSet(LAMBDA p : board[<<u, p>>].score, Problem)

(* Users are looked at in the order of the configuration. *)
Enlist(u) ==
  /\ DOMAIN present = 1 .. u - 1
  /\ \E here \in BOOLEAN : present' = With(present, u, here)
  /\ UNCHANGED <<marks, failed, board, totals>>

(* A submission comes back: with all its marks, or with the first few of   *)
(* them where runners may die.                                             *)
Mark1(c) ==
  /\ Unwritten /\ c \in Submitted \ DOMAIN marks
  /\ \E n \in 0 .. Len(Verdict[c[1]][c[2]]) :
       /\ "runner" \in Faults \/ n = Len(Verdict[c[1]][c[2]])
       /\ marks' = With(marks, c, SubSeq(Verdict[c[1]][c[2]], 1, n))
  /\ UNCHANGED <<present, failed, board, totals>>

Fail ==
  /\ Faults \cap {"start", "wait"} # {}
  /\ Enlisted /\ ~failed /\ Unwritten
  /\ Submitted # {}
  /\ failed' = TRUE
  /\ UNCHANGED <<present, marks, board, totals>>

(* The next cell of the scoreboard: every row above is closed, and every   *)
(* cell to the left in this row is written.                                *)
Write(c) ==
  /\ Settled
  /\ DOMAIN totals = 1 .. c[1] - 1
  /\ DOMAIN board \cap RowOf(c[1]) = {c[1]} \X (1 .. c[2] - 1)
  /\ board' = With(board, c, CellOf(c))
  /\ UNCHANGED <<present, marks, failed, totals>>

(* The total at the end of a row is the sum of the row. *)
CloseRow(u) ==
  /\ Settled
  /\ DOMAIN totals = 1 .. u - 1
  /\ RowOf(u) \subseteq DOMAIN board
  /\ totals' = With(totals, u, RowTotal(u))
  /\ UNCHANGED <<present, marks, failed, board>>

Progress ==
  \/ \E u \in User : Enlist(u) \/ CloseRow(u)
  \/ \E c \in Cell : Mark1(c) \/ Write(c)

Next == Progress \/ Fail

Safety == Init /\ [][Next]_vars

(* The run goes on until every row is closed. *)
Spec == Safety /\ WF_vars(Progress)

=============================================================================
