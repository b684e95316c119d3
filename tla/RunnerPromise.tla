--------------------------- MODULE RunnerPromise ----------------------------
(***************************************************************************)
(* What the judge may count on from a runner at the other end of a pipe:   *)
(* X and a newline, or a mark for each test in order and a newline, and    *)
(* where the runner ends early, the beginning of one of the two.           *)
(***************************************************************************)
EXTENDS Marks

CONSTANTS Tests         \* problem->tests

VARIABLES sent, alive   \* the bytes in the pipe, and whether the runner is there

Init == sent = <<>> /\ alive = TRUE

IsX   == sent # <<>> /\ sent[1] = NotBuilt
Whole == Len(sent) = IF IsX THEN 1 ELSE Tests

SendX == sent = <<>> /\ sent' = <<NotBuilt>>

SendMark ==
  /\ Len(sent) < Tests /\ ~IsX
  /\ \E mark \in TestMark : sent' = Append(sent, mark)

SendNewline == Whole /\ sent' = Append(sent, Newline)

Send == alive /\ (SendX \/ SendMark \/ SendNewline) /\ UNCHANGED alive
End  == alive /\ alive' = FALSE /\ UNCHANGED sent

Spec == Init /\ [][Send \/ End]_<<sent, alive>>
=============================================================================
