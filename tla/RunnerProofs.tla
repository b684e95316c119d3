---------------------------- MODULE RunnerProofs ----------------------------
(***************************************************************************)
(* What the runner keeps true for any number of tests and whatever fails:  *)
(* how its log and its pipe stand at every place in main, and from that    *)
(* what the judge may count on.  The inductive invariant says for each     *)
(* value of the program counter which marks have gone where.               *)
(***************************************************************************)
EXTENDS Runner, TLAPS

(* The marks before the test in hand, and a whole row of marks.            *)
Tested(marks) == marks \in Seq(TestMark) /\ test \in 1 .. Tests /\ Len(marks) = test - 1
Nothing(marks) == marks = <<>> /\ test = 0
Row(marks)     == marks = <<NotBuilt>> \/ (marks \in Seq(TestMark) /\ Len(marks) = Tests)

(* The mark in hand: X before the first test, or that of the test.         *)
InHand(marks) == \/ mark = NotBuilt /\ Nothing(marks)
                 \/ mark \in TestMark /\ Tested(marks)

Early   == {"sandbox", "source", "compile", "prepare", "memory", "profile", "wrap"}
InTest  == {"test", "running", "check"}

Place ==
  /\ pc = "start" => log = OldLog /\ Nothing(pipe)
  /\ pc \in Early => log = <<>> /\ Nothing(pipe)
  /\ pc \in InTest => pipe = log /\ Tested(pipe)
  /\ pc = "log" => pipe = log /\ InHand(pipe)
  /\ pc = "pipe" => log = Append(pipe, mark) /\ InHand(pipe)
  /\ pc = "newline" => pipe = log /\ Row(pipe)
  /\ pc = "close" \/ status = "0" => pipe = Append(log, Newline) /\ Row(log)
  /\ pc = "gone" /\ status # "0" =>
       /\ pipe \in Seq(Mark)
       /\ pipe = <<>> \/ pipe = log \/ \E m \in Mark : log = Append(pipe, m)
  /\ pc = "gone" <=> status # "none"

(* The files of a test.                                                    *)
Held ==
  /\ pc \notin {"running", "check", "gone"} => ~in /\ ~out
  /\ pc = "check" => ~out

(* What a submission is run in, from the moment its marks are no X: where  *)
(* it is confined, nothing else leads to the tests than through a profile  *)
(* that was written in full.                                               *)
Ready ==
  /\ Confined => command \in {"wrapped", "cut"} /\ profile = "whole" /\ ~quoted
  /\ bounded => memory /\ lowers
  /\ memory /\ lowers /\ "setup" \notin Faults => bounded

Within ==
  /\ wish = "on" /\ ~available => pc \in {"start", "sandbox", "gone"}
  /\ pc \in {"profile", "wrap"} => Confined
  /\ pc = "wrap" => profile = "whole" /\ ~quoted
  /\ pc \in {"profile", "wrap"} =>
       /\ bounded => memory /\ lowers
       /\ memory /\ lowers /\ "setup" \notin Faults => bounded
  /\ pc \in InTest => Ready
  /\ pc \in {"log", "pipe"} /\ mark # NotBuilt => Ready

Inv == TypeOK /\ Place /\ Held /\ Within

----------------------------------------------------------------------------
(* Sequences of marks                                                      *)

LEMMA NoMarks == \A S : <<>> \in Seq(S)
OBVIOUS

LEMMA TestMarks ==
  ASSUME NEW marks \in Seq(TestMark)
  PROVE  /\ marks \in Seq(Mark)
         /\ \A i \in 1 .. Len(marks) : marks[i] # NotBuilt /\ marks[i] # Newline
<1>1. \A i \in 1 .. Len(marks) : marks[i] \in TestMark
  OBVIOUS
<1>. QED  BY <1>1 DEF TestMark, Mark, NotBuilt, Newline

LEMMA RowsAreMarks ==
  ASSUME NEW marks, Row(marks)
  PROVE  /\ marks \in Seq(Mark) /\ Len(marks) \in Nat \ {0}
         /\ \A i \in 1 .. Len(marks) : marks[i] # Newline
<1>1. CASE marks = <<NotBuilt>>
  BY <1>1 DEF Mark, NotBuilt, Newline
<1>2. CASE marks \in Seq(TestMark) /\ Len(marks) = Tests
  BY <1>2, TestMarks, RunnerAssumption
<1>. QED  BY <1>1, <1>2 DEF Row

----------------------------------------------------------------------------
(* The invariant                                                           *)

LEMMA InvInit == Init => Inv
<1>. SUFFICES ASSUME Init PROVE Inv
  OBVIOUS
<1>1. TypeOK
  <2>1. available \in BOOLEAN /\ quoted \in BOOLEAN /\ memory \in BOOLEAN /\ lowers \in BOOLEAN
    BY Zenon DEF Init
  <2>2. pipe \in Seq(Mark \cup {Newline}) /\ test \in 0 .. Tests /\ mark \in Mark
    BY RunnerAssumption, NoMarks DEF Init, Mark
  <2>. QED  BY <2>1, <2>2 DEF Init, TypeOK
<1>2. Place /\ Held /\ Within
  BY DEF Init, Place, Held, Within, Nothing, Early, InTest
<1>. QED  BY <1>1, <1>2 DEF Inv

(* The flags apart from the other variables: the provers that know truth   *)
(* values and those that know sequences are not the same.                  *)
Flags ==
  /\ available \in BOOLEAN /\ quoted \in BOOLEAN /\ memory \in BOOLEAN /\ lowers \in BOOLEAN
  /\ bounded \in BOOLEAN /\ in \in BOOLEAN /\ out \in BOOLEAN /\ reader \in BOOLEAN

Kinds ==
  /\ wish \in {"off", "auto", "on"}
  /\ pc \in {"start", "sandbox", "gone", "log", "pipe", "newline", "close"} \cup Early \cup InTest
  /\ command \in {"none", "plain", "missing", "wrapped", "cut"} /\ profile \in {"old", "part", "whole"}
  /\ test \in 0 .. Tests /\ mark \in Mark
  /\ log \in Seq(Mark) \cup {OldLog} /\ pipe \in Seq(Mark \cup {Newline})
  /\ status \in {"none", "-1", "0", "3", "5", "SIGPIPE", "SIGSEGV"}

LEMMA TypeParts == TypeOK <=> Flags /\ Kinds
BY Zenon DEF TypeOK, Flags, Kinds, Early, InTest

LEMMA FlagsStep ==
  ASSUME TypeOK, [Next]_vars
  PROVE  Flags'
<1>. USE DEF given, setup, files, Leave, Earns, Closed, FirstTest
<1>1. Flags
  BY TypeParts
<1>2. /\ available' = available /\ quoted' = quoted /\ memory' = memory /\ lowers' = lowers
      /\ bounded' = bounded \/ ProbeMemory
      /\ in' = in \/ in' = TRUE \/ in' = FALSE
      /\ out' = out \/ out' = TRUE \/ out' = FALSE
      /\ reader' = reader \/ reader' = FALSE
  BY DEF Next, vars, Gone, RunnerStep, Start, AskSandbox, FindSource, Compile, Prepare, ProbeMemory, WriteProfile,
         WrapCommand, OpenFiles, RunSubmission, AskChecker, WriteLog, WritePipe, WriteNewline, Exit, JudgeGoes
<1>3. ProbeMemory => bounded' \in BOOLEAN
  BY <1>1, Zenon DEF ProbeMemory, Flags
<1>. QED  BY <1>1, <1>2, <1>3, Zenon DEF Flags

(* The program counter and the status always have one of their values, and *)
(* the other variables that keep to their types do.                        *)
LEMMA KindsStep ==
  ASSUME Inv, [Next]_vars
  PROVE  Kinds'
<1>. USE DEF given, setup, files, Leave, Earns, Closed, FirstTest, Early, InTest
<1>1. Kinds /\ Place /\ Tests \in Nat \ {0}
  BY RunnerAssumption, TypeParts DEF Inv
<1>2. CASE Start
  BY <1>1, <1>2, NoMarks DEF Start, Emptied, Kinds
<1>3. CASE AskSandbox
  BY <1>1, <1>3 DEF AskSandbox, Kinds
<1>4. CASE FindSource
  BY <1>1, <1>4 DEF FindSource, Kinds, Mark
<1>5. CASE Compile
  BY <1>1, <1>5 DEF Compile, Kinds, Mark
<1>6. CASE Prepare \/ WriteProfile \/ WrapCommand
  BY <1>1, <1>6 DEF Prepare, WriteProfile, WrapCommand, Kinds
<1>7. CASE ProbeMemory
  <2>1. /\ UNCHANGED <<wish, command, profile, mark, log, pipe, status>>
        /\ (pc' = "profile" /\ test' = test) \/ (pc' = "test" /\ test' = 1)
    BY <1>7, Zenon DEF ProbeMemory
  <2>. QED  BY <1>1, <2>1 DEF Kinds
<1>8. CASE OpenFiles
  BY <1>1, <1>8 DEF OpenFiles, Kinds, Mark, TestMark
<1>9. CASE RunSubmission
  BY <1>1, <1>9 DEF RunSubmission, Kinds, Mark, TestMark
<1>10. CASE AskChecker
  BY <1>1, <1>10 DEF AskChecker, Kinds, Mark, TestMark
<1>11. CASE WriteLog
  <2>1. pc = "log" => Append(log, mark) \in Seq(Mark)
    BY <1>1, TestMarks DEF Place, InHand, Nothing, Tested, Kinds
  <2>. QED  BY <1>1, <1>11, <2>1 DEF WriteLog, Kinds
<1>12. CASE WritePipe
  <2>1. Append(pipe, mark) \in Seq(Mark \cup {Newline})
    BY <1>1 DEF Kinds
  <2>2. pc = "pipe" /\ AfterMark = "test" => test + 1 \in 0 .. Tests
    BY <1>1 DEF Kinds, AfterMark, TestsLeft
  <2>3. AfterMark \in {"test", "newline"}
    BY DEF AfterMark
  <2>. QED  BY <1>1, <1>12, <2>1, <2>2, <2>3 DEF WritePipe, Kinds
<1>13. CASE WriteNewline
  <2>1. Append(pipe, Newline) \in Seq(Mark \cup {Newline})
    BY <1>1 DEF Kinds
  <2>. QED  BY <1>1, <1>13, <2>1 DEF WriteNewline, Kinds
<1>14. CASE Exit
  BY <1>1, <1>14 DEF Exit, Kinds
<1>15. CASE JudgeGoes
  BY <1>1, <1>15 DEF JudgeGoes, Kinds
<1>16. CASE UNCHANGED vars
  BY <1>1, <1>16 DEF vars, Kinds
<1>. QED
  BY <1>2, <1>3, <1>4, <1>5, <1>6, <1>7, <1>8, <1>9, <1>10, <1>11, <1>12, <1>13, <1>14, <1>15, <1>16
     DEF Next, RunnerStep, Gone

LEMMA TypeStep ==
  ASSUME Inv, [Next]_vars
  PROVE  TypeOK'
<1>1. Flags' /\ Kinds'
  BY FlagsStep, KindsStep DEF Inv
<1>. QED  BY <1>1, Zenon DEF TypeOK, Flags, Kinds, Early, InTest

LEMMA PlaceStep ==
  ASSUME Inv, [Next]_vars
  PROVE  Place'
<1>. USE DEF given, files, Leave, Earns, Closed, Early, InTest, Nothing, Tested, InHand, FirstTest
<1>1. TypeOK /\ Place /\ Tests \in Nat \ {0}
  BY RunnerAssumption DEF Inv
<1>2. CASE Start
  BY <1>1, <1>2 DEF Start, Emptied, Place
<1>3. CASE AskSandbox
  BY <1>1, <1>3 DEF AskSandbox, Place
<1>4. CASE FindSource
  BY <1>1, <1>4 DEF FindSource, Place
<1>5. CASE Compile
  BY <1>1, <1>5 DEF Compile, Place
<1>6. CASE Prepare \/ ProbeMemory \/ WriteProfile \/ WrapCommand
  <2>1. pc \in Early /\ status = "none" /\ log = <<>> /\ pipe = <<>> /\ test = 0
    BY <1>1, <1>6, Zenon DEF Prepare, ProbeMemory, WriteProfile, WrapCommand, Place
  <2>2. log' = log /\ pipe' = pipe /\ mark' = mark
    BY <1>6, Zenon DEF Prepare, ProbeMemory, WriteProfile, WrapCommand
  <2>3. \/ pc' \in {"memory", "profile", "wrap"} /\ test' = test /\ status' = status
        \/ pc' = "test" /\ test' = 1 /\ status' = status
        \/ pc' = "gone" /\ status' \in {"-1", "SIGSEGV"}
    BY <1>6, Zenon DEF Prepare, ProbeMemory, WriteProfile, WrapCommand
  <2>4. <<>> \in Seq(TestMark) /\ <<>> \in Seq(Mark) /\ Len(<<>>) = 0
    BY NoMarks
  <2>. QED  BY <1>1, <2>1, <2>2, <2>3, <2>4 DEF Place
<1>7. CASE OpenFiles
  BY <1>1, <1>7 DEF OpenFiles, Place, TestMark
<1>8. CASE RunSubmission
  BY <1>1, <1>8 DEF RunSubmission, Place, TestMark
<1>9. CASE AskChecker
  <2>1. pc = "check" /\ pipe = log /\ Tested(pipe) /\ status = "none"
    BY <1>1, <1>9 DEF AskChecker, Place
  <2>2. pipe \in Seq(Mark)
    BY <2>1, NoMarks, TestMarks
  <2>. QED  BY <1>9, <2>1, <2>2 DEF AskChecker, Place, TestMark
<1>10. CASE WriteLog
  <2>1. pc = "log" /\ pipe = log /\ InHand(pipe) /\ status = "none"
    BY <1>1, <1>10 DEF WriteLog, Place
  <2>2. pipe \in Seq(Mark)
    BY <2>1, NoMarks, TestMarks
  <2>. QED  BY <1>10, <2>1, <2>2 DEF WriteLog, Place
<1>11. CASE WritePipe
  <2>1. pc = "pipe" /\ log = Append(pipe, mark) /\ InHand(pipe) /\ status = "none" /\ mark \in Mark
    BY <1>1, <1>11 DEF WritePipe, Place, TypeOK
  <2>2. pipe \in Seq(Mark)
    BY <2>1, NoMarks, TestMarks
  <2>3. CASE ~reader
    BY <1>11, <2>1, <2>2, <2>3 DEF WritePipe, Place
  <2>4. CASE reader /\ mark = NotBuilt
    <3>1. Append(pipe, mark) = <<NotBuilt>> /\ AfterMark = "newline"
      BY <2>1, <2>4 DEF AfterMark, TestMark, NotBuilt
    <3>. QED  BY <1>11, <2>1, <2>4, <3>1 DEF WritePipe, Place, Row
  <2>5. CASE reader /\ mark \in TestMark
    <3>1. /\ Tested(pipe) /\ mark # NotBuilt
          /\ Append(pipe, mark) \in Seq(TestMark) /\ Len(Append(pipe, mark)) = test
      BY <2>1, <2>5 DEF TestMark, NotBuilt
    <3>2. CASE test < Tests
      <4>1. /\ pc' = "test" /\ test' = test + 1 /\ pipe' = Append(pipe, mark)
            /\ log' = log /\ status' = status
        BY <1>11, <2>1, <2>5, <3>1, <3>2 DEF WritePipe, AfterMark, TestsLeft
      <4>2. pipe' = log' /\ Len(pipe') = test' - 1 /\ test' \in 1 .. Tests
        BY <1>1, <2>1, <3>1, <3>2, <4>1
      <4>. QED  BY <2>1, <3>1, <4>1, <4>2 DEF Place
    <3>3. CASE test = Tests
      BY <1>1, <1>11, <2>1, <2>5, <3>1, <3>3 DEF WritePipe, AfterMark, TestsLeft, Place, Row
    <3>. QED  BY <1>1, <3>1, <3>2, <3>3
  <2>. QED  BY <2>1, <2>3, <2>4, <2>5
<1>12. CASE WriteNewline
  <2>1. pc = "newline" /\ pipe = log /\ Row(pipe) /\ status = "none"
    BY <1>1, <1>12 DEF WriteNewline, Place
  <2>2. pipe \in Seq(Mark)
    BY <2>1, RowsAreMarks
  <2>. QED  BY <1>12, <2>1, <2>2 DEF WriteNewline, Place, Row
<1>13. CASE Exit
  BY <1>1, <1>13 DEF Exit, Place, Row
<1>14. CASE JudgeGoes
  BY <1>1, <1>14 DEF JudgeGoes, Place, Row
<1>15. CASE UNCHANGED vars
  BY <1>1, <1>15 DEF vars, Place, Row
<1>. QED
  BY <1>2, <1>3, <1>4, <1>5, <1>6, <1>7, <1>8, <1>9, <1>10, <1>11, <1>12, <1>13, <1>14, <1>15
     DEF Next, RunnerStep, Gone

LEMMA HeldStep ==
  ASSUME Inv, [Next]_vars
  PROVE  Held'
<1>. USE DEF given, files, Leave, Earns, Closed, FirstTest
<1>1. TypeOK /\ Held
  BY DEF Inv
<1>2. CASE Start \/ AskSandbox
  BY <1>1, <1>2 DEF Start, AskSandbox, Held, TypeOK
<1>3. CASE FindSource \/ Compile \/ Prepare \/ ProbeMemory \/ WriteProfile \/ WrapCommand
  BY <1>1, <1>3 DEF FindSource, Compile, Prepare, ProbeMemory, WriteProfile, WrapCommand, Held, TypeOK
<1>4. CASE OpenFiles \/ RunSubmission \/ AskChecker
  BY <1>1, <1>4 DEF OpenFiles, RunSubmission, AskChecker, Held, TypeOK
<1>5. CASE WriteLog \/ WritePipe \/ WriteNewline \/ Exit
  BY <1>1, <1>5 DEF WriteLog, WritePipe, AfterMark, WriteNewline, Exit, Held, TypeOK
<1>6. CASE JudgeGoes \/ UNCHANGED vars
  BY <1>1, <1>6 DEF JudgeGoes, vars, Held, TypeOK
<1>. QED
  BY <1>2, <1>3, <1>4, <1>5, <1>6 DEF Next, RunnerStep, Gone

LEMMA WithinStep ==
  ASSUME Inv, [Next]_vars
  PROVE  Within'
<1>. USE DEF given, setup, files, Leave, Earns, Closed, FirstTest, InTest
<1>1. TypeOK /\ Within
  BY DEF Inv
<1>2. CASE Start \/ AskSandbox
  BY <1>1, <1>2 DEF Start, AskSandbox, Confined, Within, TypeOK
<1>3. CASE FindSource \/ Compile \/ Prepare
  BY <1>1, <1>3 DEF FindSource, Compile, Prepare, Confined, Within
<1>4. CASE ProbeMemory
  BY <1>1, <1>4 DEF ProbeMemory, Confined, Ready, Within
<1>5. CASE WriteProfile \/ WrapCommand
  BY <1>1, <1>5 DEF WriteProfile, WrapCommand, Confined, Ready, Within
<1>6. CASE OpenFiles \/ RunSubmission \/ AskChecker
  BY <1>1, <1>6 DEF OpenFiles, RunSubmission, AskChecker, Confined, Ready, Within
<1>7. CASE WriteLog \/ WritePipe \/ WriteNewline \/ Exit
  BY <1>1, <1>7 DEF WriteLog, WritePipe, AfterMark, WriteNewline, Exit, Confined, Ready, Within
<1>8. CASE JudgeGoes \/ UNCHANGED vars
  BY <1>1, <1>8 DEF JudgeGoes, vars, Confined, Ready, Within
<1>. QED
  BY <1>2, <1>3, <1>4, <1>5, <1>6, <1>7, <1>8 DEF Next, RunnerStep, Gone

LEMMA InvStep == Inv /\ [Next]_vars => Inv'
BY TypeStep, PlaceStep, HeldStep, WithinStep DEF Inv

LEMMA InvHolds == Spec => []Inv
BY InvInit, InvStep, PTL DEF Spec

----------------------------------------------------------------------------
(* What follows from it                                                    *)

(* The values of the runner's variables, in every run.                     *)
THEOREM TypeCorrect == Spec => []TypeOK
<1>1. Inv => TypeOK
  BY DEF Inv
<1>. QED  BY InvHolds, <1>1, PTL

(* The log and the pipe hold the same marks but for the one in hand, for   *)
(* any number of tests and wherever main ends.                             *)
LEMMA FrontOfAppend ==
  ASSUME NEW marks, NEW S, marks \in Seq(S), NEW byte
  PROVE  /\ Append(marks, byte) # <<>> /\ Last(Append(marks, byte)) = byte
         /\ Front(Append(marks, byte)) = marks
BY DEF Last, Front

LEMMA SentAfterRow ==
  ASSUME NEW marks, Row(marks), pipe = Append(marks, Newline)
  PROVE  Sent = marks /\ pipe # <<>> /\ Last(pipe) = Newline
<1>1. marks \in Seq(Mark)
  BY RowsAreMarks
<1>. QED  BY <1>1, FrontOfAppend DEF Sent

LEMMA SentBeforeNewline ==
  ASSUME pipe \in Seq(Mark)
  PROVE  Sent = pipe /\ (pipe # <<>> => Last(pipe) # Newline)
<1>1. pipe # <<>> => Last(pipe) \in Mark
  BY DEF Last
<1>. QED  BY <1>1 DEF Sent, Mark, TestMark, NotBuilt, Newline

(* What has gone into the pipe has gone into the log before it.            *)
LEMMA PipeIsMarks ==
  ASSUME Inv, ~(pc = "close" \/ status = "0")
  PROVE  /\ pipe \in Seq(Mark)
         /\ pipe = <<>> \/ pipe = log \/ \E m \in Mark : log = Append(pipe, m)
<1>1. TypeOK /\ Place
  BY DEF Inv
<1>2. CASE pc = "start" \/ pc \in Early
  BY <1>1, <1>2, NoMarks DEF Place, Nothing, Early
<1>3. CASE pc \in InTest \/ pc = "log" \/ pc = "pipe"
  BY <1>1, <1>3, NoMarks, TestMarks DEF Place, TypeOK, InHand, Tested, Nothing
<1>4. CASE pc = "newline"
  BY <1>1, <1>4, RowsAreMarks DEF Place
<1>5. CASE pc = "gone"
  BY <1>1, <1>5 DEF Place
<1>. QED  BY <1>1, <1>2, <1>3, <1>4, <1>5 DEF TypeOK, Early, InTest

THEOREM LogIsAhead == Spec => []LogLeadsPipe
<1>1. ASSUME Inv PROVE LogLeadsPipe
  <2>1. CASE pc = "close" \/ status = "0"
    <3>1. pipe = Append(log, Newline) /\ Row(log)
      BY <1>1, <2>1 DEF Inv, Place
    <3>2. Sent = log /\ log \in Seq(Mark)
      BY <3>1, SentAfterRow, RowsAreMarks
    <3>. QED  BY <3>2 DEF LogLeadsPipe, IsPrefix
  <2>2. CASE ~(pc = "close" \/ status = "0")
    <3>1. /\ pipe \in Seq(Mark) /\ Sent = pipe
          /\ pipe = <<>> \/ pipe = log \/ \E m \in Mark : log = Append(pipe, m)
      BY <1>1, <2>2, PipeIsMarks, SentBeforeNewline
    <3>. QED  BY <2>2, <3>1 DEF LogLeadsPipe, IsPrefix
  <2>. QED  BY <2>1, <2>2
<1>. QED  BY InvHolds, <1>1, PTL

(* A runner that ends with 0 has sent the whole row, and no other has sent *)
(* a newline.                                                              *)
THEOREM ZeroIsWhole == Spec => []ZeroMeansWhole
<1>1. ASSUME Inv PROVE ZeroMeansWhole
  <2>1. CASE pc = "close" \/ status = "0"
    <3>1. pipe = Append(log, Newline) /\ Row(log)
      BY <1>1, <2>1 DEF Inv, Place
    <3>. QED  BY <2>1, <3>1, SentAfterRow DEF ZeroMeansWhole, Row
  <2>2. CASE ~(pc = "close" \/ status = "0")
    BY <1>1, <2>2, PipeIsMarks, SentBeforeNewline DEF ZeroMeansWhole
  <2>. QED  BY <2>1, <2>2
<1>. QED  BY InvHolds, <1>1, PTL

(* Each test is over with both of its files closed.                        *)
THEOREM NoFileStaysOpen == Spec => []FilesAreClosed
<1>1. Inv => FilesAreClosed
  BY DEF Inv, Held, FilesAreClosed
<1>. QED  BY InvHolds, <1>1, PTL

(* A submission only runs in the sandbox and under the memory limit that   *)
(* the contest asks for, and not at all where a sandbox that is required   *)
(* is not there or cannot be set up.                                       *)
THEOREM NothingRunsUnconfined == Spec => []SubmissionIsHeld
<1>1. Inv => SubmissionIsHeld
  BY DEF Inv, Within, InTest, Ready, Confined, SubmissionIsHeld
<1>. QED  BY InvHolds, <1>1, PTL

----------------------------------------------------------------------------
(* The refinement: the runner implements what the judge counts on.         *)

Alive == pc # "gone"

LEMMA PromiseInit == Init => Promise!Init
BY DEF Init, Promise!Init

LEMMA PromiseStep ==
  ASSUME Inv, [Next]_vars
  PROVE  [Promise!Send \/ Promise!End]_<<pipe, Alive>>
<1>. USE DEF Leave, Alive
<1>1. TypeOK /\ Place /\ Tests \in Nat \ {0}
  BY RunnerAssumption DEF Inv
<1>2. ASSUME pipe' = pipe
      PROVE  [Promise!Send \/ Promise!End]_<<pipe, Alive>>
  <2>1. pc = "gone" => pc' = "gone"
    BY DEF Next, vars, Gone, RunnerStep, Start, AskSandbox, FindSource, Compile, Prepare, ProbeMemory, WriteProfile, WrapCommand,
           FirstTest, OpenFiles,
           RunSubmission, AskChecker, WriteLog, WritePipe, WriteNewline, Exit, JudgeGoes
  <2>. QED  BY <1>2, <2>1 DEF Promise!End
<1>3. CASE WritePipe /\ reader
  <2>1. /\ pc = "pipe" /\ pc' # "gone" /\ pipe' = Append(pipe, mark) /\ InHand(pipe)
    BY <1>1, <1>3 DEF WritePipe, Place, AfterMark
  <2>2. CASE mark = NotBuilt /\ Nothing(pipe)
    BY <2>1, <2>2 DEF NotBuilt, Nothing, Promise!Send, Promise!SendX, Promise!NotBuilt
  <2>3. CASE mark \in TestMark /\ Tested(pipe)
    <3>1. Len(pipe) < Tests /\ ~Promise!IsX
      BY <1>1, <2>3, TestMarks DEF Tested, NotBuilt, Promise!IsX, Promise!NotBuilt
    <3>. QED  BY <2>1, <2>3, <3>1 DEF TestMark, Promise!Send, Promise!SendMark, Promise!TestMark
  <2>. QED  BY <2>1, <2>2, <2>3 DEF InHand
<1>4. CASE WriteNewline /\ reader
  <2>1. pc = "newline" /\ pc' # "gone" /\ pipe' = Append(pipe, Newline) /\ Row(pipe)
    BY <1>1, <1>4 DEF WriteNewline, Place
  <2>2. Promise!Whole
    BY <1>1, <2>1, TestMarks DEF Row, NotBuilt, Promise!Whole, Promise!IsX, Promise!NotBuilt
  <2>. QED  BY <2>1, <2>2 DEF Newline, Promise!Send, Promise!SendNewline, Promise!Newline
<1>5. \/ pipe' = pipe \/ (WritePipe /\ reader) \/ (WriteNewline /\ reader)
  BY DEF Next, vars, Gone, RunnerStep, Start, AskSandbox, FindSource, Compile, Prepare, ProbeMemory, WriteProfile, WrapCommand,
           FirstTest, OpenFiles,
         RunSubmission, AskChecker, WriteLog, WritePipe, WriteNewline, Exit, JudgeGoes
<1>. QED  BY <1>2, <1>3, <1>4, <1>5

(* The runner keeps its promise to the judge, for any number of tests.     *)
THEOREM PromiseIsKept == Spec => KeepsPromise
<1>1. Inv /\ [Next]_vars => [Promise!Send \/ Promise!End]_<<pipe, pc # "gone">>
  BY PromiseStep DEF Alive
<1>. QED  BY InvHolds, PromiseInit, <1>1, PTL DEF Spec, KeepsPromise, Promise!Spec
=============================================================================
