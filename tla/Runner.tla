------------------------------- MODULE Runner -------------------------------
(***************************************************************************)
(* main of test.c: one submission against one problem.  The runner finds   *)
(* and builds the source, runs it on every test, and writes each mark to   *)
(* its log and then into the pipe to the judge.  What spawn returns, and   *)
(* whether a file is there, is for the world to say; spawn itself is in    *)
(* module Spawn, the two comparisons of check in module Checkers.          *)
(***************************************************************************)
EXTENDS Marks, SequencesExt

CONSTANTS
  Tests,       \* problem->tests
  Faults       \* what may go wrong: some of "setup", "files", "log", "judge"

OldLog == <<"old">>      \* what an earlier run left in the log

ASSUME RunnerAssumption ==
  /\ Tests \in Nat \ {0}          \* contest_load refuses a problem without tests
  /\ Faults \subseteq {"setup", "files", "log", "judge"}

VARIABLES
  wish,      \* contest->sandbox: "off", "auto" or "on"
  available, \* what sandbox_available finds
  quoted,    \* the contest's path has a quote or a backslash in it
  memory,    \* problem->memory is more than 0
  lowers,    \* the system lowers RLIMIT_AS
  pc,        \* "start", "sandbox", "source", "compile", "prepare", "memory", "profile", "wrap",
             \* "test", "running", "check", "log", "pipe", "newline", "close", or "gone"
  command,   \* the submission's command: "none", "plain", "missing", "wrapped", "cut"
  bounded,   \* spawn is given the memory limit
  profile,   \* what is in the profile on disk: "old", "part", "whole"
  test,      \* i of the loop over the tests, 0 before it
  mark,      \* the mark mark_write is called with
  in, out,   \* the descriptors of the test and of the output are open
  log, pipe, \* what the log holds, and what went into the pipe
  reader,    \* the judge still has the other end of the pipe
  status     \* the status the runner ended with, "none" before it has

given == <<wish, available, quoted, memory, lowers>>
setup == <<command, bounded, profile>>
files == <<in, out>>
vars  == <<given, pc, setup, test, mark, files, log, pipe, reader, status>>

Init ==
  /\ wish \in {"off", "auto", "on"} /\ available \in BOOLEAN
  /\ quoted \in BOOLEAN /\ memory \in BOOLEAN /\ lowers \in BOOLEAN
  /\ command = "none" /\ bounded = FALSE /\ profile = "old"
  /\ pc = "start" /\ test = 0 /\ mark = NotBuilt
  /\ in = FALSE /\ out = FALSE
  /\ log = OldLog /\ pipe = <<>>
  /\ reader = TRUE
  /\ status = "none"

Leave(s) == pc' = "gone" /\ status' = s

----------------------------------------------------------------------------
(* Before the first test *)

Reused(l)  == l
Emptied(l) == <<>>

(* The contest, the problem and the log: without them the runner leaves,   *)
(* and with them the log of an earlier run is emptied.                     *)
Start ==
  /\ pc = "start"
  /\ \/ pc' = "sandbox" /\ log' = Emptied(log) /\ UNCHANGED status
     \/ "setup" \in Faults /\ Leave("-1") /\ UNCHANGED log
  /\ UNCHANGED <<given, setup, test, mark, files, pipe, reader>>

OnlyAtWish == wish = "on" /\ available
Confined   == wish # "off" /\ available

AskSandbox ==
  /\ pc = "sandbox"
  /\ IF wish = "on" /\ ~Confined
     THEN Leave("-1")
     ELSE pc' = "source" /\ UNCHANGED status
  /\ UNCHANGED <<given, setup, test, mark, files, log, pipe, reader>>

(* find_source: the first language the student has a source in, which may  *)
(* be one that is compiled.  No source is an X.                            *)
FindSource ==
  /\ pc = "source"
  /\ \/ pc' \in {"compile", "prepare"} /\ UNCHANGED mark
     \/ pc' = "log" /\ mark' = NotBuilt
  /\ UNCHANGED <<given, setup, test, files, log, pipe, reader, status>>

(* A compile command that does not return 0 is an X as well.               *)
Compile ==
  /\ pc = "compile"
  /\ \E returned \in {-1, 0, 1} :
       IF returned = 0 THEN pc' = "prepare" /\ UNCHANGED mark
                       ELSE pc' = "log" /\ mark' = NotBuilt
  /\ UNCHANGED <<given, setup, test, files, log, pipe, reader, status>>

(* The scratch directory, and the command the submission is run with,      *)
(* which is NULL where memory runs out.                                    *)
Prepare ==
  /\ pc = "prepare"
  /\ pc' = "memory"
  /\ command' = "plain" \/ ("setup" \in Faults /\ command' = "missing")
  /\ UNCHANGED <<given, bounded, profile, test, mark, files, log, pipe, reader, status>>

FirstTest == pc' = "test" /\ test' = 1

(* memory_limit_works: a child tries the limit.  Where there is no child   *)
(* to ask, the submission goes without one, and nobody is told.            *)
ProbeMemory ==
  /\ pc = "memory"
  /\ bounded' = (memory /\ lowers) \/ (memory /\ "setup" \in Faults /\ bounded' = FALSE)
  /\ IF Confined THEN pc' = "profile" /\ UNCHANGED test ELSE FirstTest
  /\ UNCHANGED <<given, command, profile, mark, files, log, pipe, reader, status>>

(* write_profile refuses paths it would have to escape, and may fail       *)
(* before the profile of an earlier run is touched or halfway through.     *)
WriteProfile ==
  /\ pc = "profile"
  /\ \/ quoted /\ Leave("-1") /\ UNCHANGED profile
     \/ ~quoted /\ "setup" \in Faults /\ Leave("-1") /\ profile' \in {profile, "part"}
     \/ ~quoted /\ profile' = "whole" /\ pc' = "wrap" /\ UNCHANGED status
  /\ UNCHANGED <<given, command, bounded, test, mark, files, log, pipe, reader>>

(* sandbox_wrap goes through the words of the command, also where it is    *)
(* NULL; a copy there is no memory for ends the new command early.         *)
WrapCommand ==
  /\ pc = "wrap"
  /\ \/ command = "missing" /\ Leave("SIGSEGV") /\ UNCHANGED <<command, test>>
     \/ command # "missing" /\ "setup" \in Faults /\ Leave("-1") /\ UNCHANGED <<command, test>>
     \/ /\ command # "missing" /\ FirstTest /\ UNCHANGED status
        /\ command' = "wrapped" \/ ("setup" \in Faults /\ command' = "cut")
  /\ UNCHANGED <<given, bounded, profile, mark, files, log, pipe, reader>>

----------------------------------------------------------------------------
(* One test *)

Closed(fd) == FALSE

Earns(m) == mark' = m /\ pc' = "log" /\ in' = Closed(in) /\ out' = Closed(out)

(* Both files are opened; a test or an output that is not there is an x.   *)
OpenFiles ==
  /\ pc = "test"
  /\ \E gotIn, gotOut \in BOOLEAN :
       /\ (gotIn /\ gotOut) \/ "files" \in Faults
       /\ IF gotIn /\ gotOut
          THEN pc' = "running" /\ in' = TRUE /\ out' = TRUE /\ UNCHANGED mark
          ELSE Earns("x")
  /\ UNCHANGED <<given, setup, test, log, pipe, reader, status>>

(* spawn returns: x unless it returned 0, in which case the output is      *)
(* closed and the checker is asked.  A command that is NULL is the end of  *)
(* the child.                                                              *)
RunSubmission ==
  /\ pc = "running"
  /\ \E returned \in {-1, 0, 1} :
       IF returned # 0 \/ command = "missing"
       THEN Earns("x")
       ELSE pc' = "check" /\ out' = FALSE /\ UNCHANGED <<in, mark>>
  /\ UNCHANGED <<given, setup, test, log, pipe, reader, status>>

(* check: + or -, or x where the output or the answer cannot be opened;    *)
(* a read that fails in checker_int ends the runner.                       *)
AskChecker ==
  /\ pc = "check"
  /\ \/ \E m \in {"+", "-"} : Earns(m) /\ UNCHANGED status
     \/ "files" \in Faults /\ Earns("x") /\ UNCHANGED status
     \/ "files" \in Faults /\ Leave("3") /\ UNCHANGED <<mark, files>>
  /\ UNCHANGED <<given, setup, test, log, pipe, reader>>

----------------------------------------------------------------------------
(* mark_write and the end *)

(* The log comes first: where it cannot be written, the runner leaves.     *)
WriteLog ==
  /\ pc = "log"
  /\ \/ log' = Append(log, mark) /\ pc' = "pipe" /\ UNCHANGED status
     \/ "log" \in Faults /\ Leave("5") /\ UNCHANGED log
  /\ UNCHANGED <<given, setup, test, mark, files, pipe, reader>>

OneTestLess(n) == n + 1 < Tests
TestsLeft(n)   == n < Tests

AfterAny  == IF TestsLeft(test) THEN "test" ELSE "newline"
AfterMark == IF mark # NotBuilt /\ TestsLeft(test) THEN "test" ELSE "newline"

(* A write into a pipe nobody reads is the runner's end (SIGPIPE).         *)
WritePipe ==
  /\ pc = "pipe"
  /\ IF reader
     THEN /\ pipe' = Append(pipe, mark)
          /\ pc' = AfterMark
          /\ test' = IF AfterMark = "test" THEN test + 1 ELSE test
          /\ UNCHANGED status
     ELSE Leave("SIGPIPE") /\ UNCHANGED <<pipe, test>>
  /\ UNCHANGED <<given, setup, mark, files, log, reader>>

WriteNewline ==
  /\ pc = "newline"
  /\ IF reader
     THEN pipe' = Append(pipe, Newline) /\ pc' = "close" /\ UNCHANGED status
     ELSE Leave("SIGPIPE") /\ UNCHANGED pipe
  /\ UNCHANGED <<given, setup, test, mark, files, log, reader>>

Exit ==
  /\ pc = "close"
  /\ Leave("0")
  /\ UNCHANGED <<given, setup, test, mark, files, log, pipe, reader>>

(* The judge ends before the runner does. *)
JudgeGoes ==
  /\ "judge" \in Faults /\ reader /\ pc # "gone"
  /\ reader' = FALSE
  /\ UNCHANGED <<given, setup, pc, test, mark, files, log, pipe, status>>

----------------------------------------------------------------------------
RunnerStep ==
  \/ Start \/ AskSandbox \/ FindSource \/ Compile
  \/ Prepare \/ ProbeMemory \/ WriteProfile \/ WrapCommand
  \/ OpenFiles \/ RunSubmission \/ AskChecker
  \/ WriteLog \/ WritePipe \/ WriteNewline \/ Exit

Gone == pc = "gone" /\ UNCHANGED vars

Next == RunnerStep \/ JudgeGoes \/ Gone

Spec == Init /\ [][Next]_vars

----------------------------------------------------------------------------
(* Properties *)

TypeOK ==
  /\ wish \in {"off", "auto", "on"} /\ available \in BOOLEAN
  /\ quoted \in BOOLEAN /\ memory \in BOOLEAN /\ lowers \in BOOLEAN
  /\ pc \in {"start", "sandbox", "source", "compile", "prepare", "memory", "profile", "wrap",
             "test", "running", "check", "log", "pipe", "newline", "close", "gone"}
  /\ command \in {"none", "plain", "missing", "wrapped", "cut"}
  /\ bounded \in BOOLEAN /\ profile \in {"old", "part", "whole"}
  /\ test \in 0 .. Tests /\ mark \in Mark
  /\ in \in BOOLEAN /\ out \in BOOLEAN
  /\ log \in Seq(Mark) \cup {OldLog} /\ pipe \in Seq(Mark \cup {Newline})
  /\ reader \in BOOLEAN
  /\ status \in {"none", "-1", "0", "3", "5", "SIGPIPE", "SIGSEGV"}

(* The log and what the judge reads are the same marks: the log is never   *)
(* behind the pipe, never more than the one mark ahead of it that is just  *)
(* being written, and the same once the runner has ended well.             *)
Sent == IF pipe # <<>> /\ Last(pipe) = Newline THEN Front(pipe) ELSE pipe

LogLeadsPipe ==
  /\ pipe # <<>> => IsPrefix(Sent, log) /\ Len(log) <= Len(Sent) + 1
  /\ status = "0" => log = Sent

(* A runner that ends with 0 has sent X alone or a mark for every test,    *)
(* and the newline; every other runner has sent no newline.                *)
ZeroMeansWhole ==
  /\ pc = "close" \/ status = "0" <=> pipe # <<>> /\ Last(pipe) = Newline
  /\ status = "0" => log = <<NotBuilt>> \/ Len(log) = Tests

(* Each test is over with both of its files closed, and a checker is only  *)
(* asked about an output the runner holds open no longer.                  *)
FilesAreClosed ==
  /\ pc \in {"test", "log", "pipe", "newline"} => ~in /\ ~out
  /\ pc = "check" => ~out

(* Where the contest asks for a sandbox and there is none, nothing of a    *)
(* submission is compiled or run.  Where there is one, and the contest has *)
(* not refused it, a submission only runs inside, under a profile that is  *)
(* whole and new; and it has a memory limit if it ought to, but for the    *)
(* one case of memory_limit_works without a child.                         *)
SubmissionIsHeld ==
  /\ wish = "on" /\ ~available => pc \in {"start", "sandbox", "gone"}
  /\ pc \in {"test", "running", "check"} /\ wish # "off" /\ available =>
       command \in {"wrapped", "cut"} /\ profile = "whole" /\ ~quoted
  /\ pc \in {"test", "running", "check"} =>
       /\ bounded => memory /\ lowers
       /\ memory /\ lowers /\ "setup" \notin Faults => bounded

(* The runner keeps the promise of module RunnerPromise.                   *)
Promise == INSTANCE RunnerPromise WITH sent <- pipe, alive <- pc # "gone"

KeepsPromise == Promise!Spec
=============================================================================
