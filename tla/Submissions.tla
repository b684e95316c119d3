---------------------------- MODULE Submissions -----------------------------
(***************************************************************************)
(* Some of the submissions of the example contest, one at a time: what     *)
(* expected/results.log has the judge say of them is for their own code to *)
(* account for.                                                            *)
(***************************************************************************)
EXTENDS Lines, Fractions

VARIABLE problem    \* whether it is one about "lines" or about "fractions"

svars == <<problem, lvars, fvars>>

NoLine ==
  /\ program = "Murzabayev/I" /\ line = <<>> /\ line2 = <<>> /\ ended = TRUE /\ left = <<>>
  /\ sentence = <<>> /\ luck = Null /\ printed = <<>> /\ outcome = "no"

NoFractions ==
  /\ author = "Murzabayev/F" /\ text = [i \in 1 .. 4 |-> <<1>>]
  /\ numbers = <<>> /\ lines = <<>> /\ step = "read"

Init ==
  \/ problem = "lines" /\ LinesInit /\ NoFractions
  \/ problem = "fractions" /\ NoLine /\ FractionsInit

OnLines     == problem = "lines" /\ LinesNext /\ UNCHANGED <<problem, fvars>>
OnFractions == problem = "fractions" /\ FractionsNext /\ UNCHANGED <<problem, lvars>>

Over ==
  /\ IF problem = "lines" THEN outcome # "no" ELSE step \in {"returned", "crashed"}
  /\ UNCHANGED svars

Next == OnLines \/ OnFractions \/ Over

Spec == Init /\ [][Next]_svars

=============================================================================
