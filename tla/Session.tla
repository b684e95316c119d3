------------------------------ MODULE Session -------------------------------
(***************************************************************************)
(* One judge after another over the same contest directory: what main of   *)
(* judge.c does before and after the jobs of module Judge, and the files   *)
(* that outlive it.  A judge may be refused, run out of room, give up with *)
(* runners still out, be killed or interrupted; its runners may go on      *)
(* without it, and write into logs that the next judge's runners open.     *)
(* Two users of the same name share a log, a binary and an output file.    *)
(***************************************************************************)
EXTENDS Contest, SequencesExt

CONSTANTS
  Namings,        \* the users of the contests looked at, as functions from User
  Sandboxes,      \* what contests ask for and what sandbox_available finds
  Spoiled,        \* the marks a test may earn in files that another runner uses
  Workers,        \* runners at once
  MaxRuns,        \* judges started one after another
  MaxOrphans      \* runners still out where a judge gives up or is killed

ASSUME SessionAssumption ==
  /\ \A naming \in Namings : DOMAIN naming = User
  /\ Sandboxes \subseteq [wish : {"off", "auto", "on"}, available : BOOLEAN]
  /\ Spoiled \subseteq Mark
  /\ Workers \in Nat \ {0} /\ MaxRuns \in Nat /\ MaxOrphans \in Nat

VARIABLES
  name,      \* contest->users
  runs,      \* the judges started so far
  pc,        \* where the judge is: "load", "sandbox", "open", "room", "enlist",
             \* "jobs", "report"; "shell" while there is none
  wish, available,  \* contest->sandbox and what sandbox_available finds
  opened,    \* which of the logs opened so far could be opened
  present, table, started, marks, failed,     \* the jobs, as in module Judge
  row, column, pen, at, total, \* the cursors of main's last loops, the log they write next
  file,      \* what the three logs hold
  runner,    \* the runners nobody has waited for, by judge and job
  own,       \* log/<Student>_<Letter>.log
  shared,    \* the submissions that two runners have had in hand at once
  cut        \* the jobs of this judge whose runners ended before their last mark

judge == <<wish, available, opened, present, table, started, marks, failed,
           row, column, pen, at, total>>
disk  == <<file, own>>
past  == <<shared, cut>>
vars  == <<name, runs, pc, judge, disk, runner, past>>

LogFile == <<"results", "trace", "scores">>      \* in the order they are opened
Submission == {<<name[u], p>> : u \in User, p \in Problem}
FileOf(c)  == <<name[c[1]], c[2]>>

(* The marks of a submission, which users of the same name have in common. *)
Deserved(c) == Verdict[Min({u \in User : name[u] = name[c[1]]})][c[2]]

(* A judge that is gone has left nothing in memory. *)
Forget ==
  /\ wish' = "off" /\ available' = TRUE /\ opened' = <<>>
  /\ present' = {} /\ table' = <<>> /\ started' = 0 /\ marks' = <<>> /\ failed' = FALSE
  /\ row' = 0 /\ column' = 0 /\ pen' = "results" /\ at' = 1 /\ total' = 0
  /\ cut' = {}

Init ==
  /\ name \in Namings
  /\ runs = 0 /\ pc = "shell"
  /\ wish = "off" /\ available = TRUE /\ opened = <<>>
  /\ present = {} /\ table = <<>> /\ started = 0 /\ marks = <<>> /\ failed = FALSE
  /\ row = 0 /\ column = 0 /\ pen = "results" /\ at = 1 /\ total = 0
  /\ file = [f \in {"results", "trace", "scores"} |-> <<>>]
  /\ runner = <<>>
  /\ own = [s \in Submission |-> <<>>] /\ shared = {} /\ cut = {}

----------------------------------------------------------------------------
(* main before the jobs *)

(* The judge returns: a runner that has ended is the system's to bury, one *)
(* that has not goes on.                                                   *)
IsOut(r) == runner[r].state # "gone"
Return ==
  /\ pc' = "shell" /\ Forget
  /\ runner' = Restrict(runner, {r \in DOMAIN runner : IsOut(r)})
  /\ UNCHANGED <<name, runs, disk, shared>>

Begin ==
  /\ pc = "shell" /\ runs < MaxRuns
  /\ pc' = "load" /\ runs' = runs + 1
  /\ \E sandbox \in Sandboxes : wish' = sandbox.wish /\ available' = sandbox.available
  /\ shared' = {s \in shared : \E r \in DOMAIN runner : FileOf(runner[r].cell) = s}
  /\ UNCHANGED <<name, opened, present, table, started, marks, failed,
                 row, column, pen, at, total, disk, runner, cut>>

LoadContest ==
  /\ pc = "load"
  /\ pc' = "sandbox"
  /\ UNCHANGED <<name, runs, judge, disk, runner, past>>

ContestRefused == pc = "load" /\ Return

Whatever   == TRUE
Acceptable == ~(wish = "on" /\ ~available)

AskSandbox ==
  /\ pc = "sandbox" /\ Acceptable
  /\ pc' = "open"
  /\ UNCHANGED <<name, runs, judge, disk, runner, past>>

SandboxRefused == pc = "sandbox" /\ ~Acceptable /\ Return

(* All three logs are opened, and emptied, before main looks whether one   *)
(* of them could not be.                                                   *)
OpenLog ==
  /\ pc = "open" /\ Len(opened) < Len(LogFile)
  /\ \E could \in BOOLEAN :
       /\ opened' = Append(opened, could)
       /\ file' = IF could THEN [file EXCEPT ![LogFile[Len(opened')]] = <<>>] ELSE file
  /\ UNCHANGED <<name, runs, pc, wish, available, present, table, started, marks, failed,
                 row, column, pen, at, total, own, runner, past>>

LogsOpen ==
  /\ pc = "open" /\ opened = <<TRUE, TRUE, TRUE>>
  /\ pc' = "room"
  /\ UNCHANGED <<name, runs, judge, disk, runner, past>>

LogMissing == pc = "open" /\ Len(opened) = Len(LogFile) /\ FALSE \in ToSet(opened) /\ Return

NoRoom == pc = "room" /\ Return

RowFromZero(u) == [p \in 1 .. ProblemsCount |-> <<u, p - 1>>]
Row(u) == [p \in 1 .. ProblemsCount |-> <<u, p>>]

MakeRoom ==
  /\ pc = "room"
  /\ pc' = "enlist" /\ row' = 1
  /\ UNCHANGED <<name, runs, wish, available, opened, present, table, started, marks, failed,
                 column, pen, at, total, disk, runner, past>>

(* submitted: the next user's directory is there, or it is not. *)
Enlist ==
  /\ pc = "enlist" /\ row <= UsersCount
  /\ \/ present' = present \cup {row} /\ table' = table \o Row(row)
     \/ UNCHANGED <<present, table>>
  /\ row' = row + 1
  /\ UNCHANGED <<name, runs, pc, wish, available, opened, started, marks, failed,
                 column, pen, at, total, disk, runner, past>>

(* The user counter of main's last loop is a variable of its own. *)
RunJobs ==
  /\ pc = "enlist" /\ row > UsersCount
  /\ pc' = "jobs" /\ row' = 0
  /\ UNCHANGED <<name, runs, wish, available, opened, present, table, started, marks, failed,
                 column, pen, at, total, disk, runner, past>>

----------------------------------------------------------------------------
(* The jobs, of which module Judge has every step *)

Out == {r \in DOMAIN runner : r[1] = runs}

InHand(s) == {r \in DOMAIN runner : IsOut(r) /\ FileOf(runner[r].cell) = s}

StartJob ==
  /\ pc = "jobs" /\ started < Len(table) /\ Cardinality(Out) < Workers
  /\ started' = started + 1
  /\ LET cell == table[started']
     IN  /\ runner' = With(runner, <<runs, started'>>, [cell |-> cell, marks |-> <<>>, state |-> "open"])
         /\ shared' = IF InHand(FileOf(cell)) = {} THEN shared ELSE shared \cup {FileOf(cell)}
  /\ UNCHANGED <<name, runs, pc, wish, available, opened, present, table, marks, failed,
                 row, column, pen, at, total, disk, cut>>

Collect ==
  /\ pc = "jobs"
  /\ \E r \in Out :
       /\ ~IsOut(r)
       /\ marks' = With(marks, r[2], runner[r].marks)
       /\ runner' = Restrict(runner, DOMAIN runner \ {r})
  /\ UNCHANGED <<name, runs, pc, wish, available, opened, present, table, started, failed,
                 row, column, pen, at, total, disk, past>>

AllStarted   == started = Len(table)
OneTooMany   == Cardinality(DOMAIN marks) = Len(table) + 1
AllCollected == Cardinality(DOMAIN marks) = Len(table)

JobsDone ==
  /\ pc = "jobs" /\ AllCollected
  /\ pc' = "report"
  /\ UNCHANGED <<name, runs, judge, disk, runner, past>>

FewOut == Cardinality({r \in DOMAIN runner : IsOut(r)}) <= MaxOrphans

(* A pipe, a fork or a waitpid fails: the scoreboard is written with       *)
(* runners still out.                                                      *)
GiveUp ==
  /\ pc = "jobs" /\ Faults \cap {"start", "wait"} # {} /\ FewOut /\ DOMAIN marks # DOMAIN table
  /\ pc' = "report" /\ failed' = TRUE
  /\ UNCHANGED <<name, runs, wish, available, opened, present, table, started, marks,
                 row, column, pen, at, total, disk, runner, past>>

----------------------------------------------------------------------------
(* main after the jobs: two tables and the trace, a piece at a time.  Row  *)
(* 0 is the header, column 0 the names, the last column the totals.        *)

Totals == ProblemsCount + 1
IsCell == row > 0 /\ column \in Problem
IsJob  == IsCell /\ row \in present

CellOf(j) == IF j \in DOMAIN marks THEN MarkedCell(table[j][2], marks[j]) ELSE LostCell
Shown     == IF IsJob THEN CellOf(at) ELSE AbsentCell

(* What is written of a name, a mark and a score, without its padding.     *)
WriteName       == <<"name", name[row]>>
WrCell(mark)    == <<"mark", mark>>
WrNumber(score) == <<"score", score>>

Piece(value) ==
  CASE row = 0                      -> <<"head", column>>
    [] row > 0 /\ column = 0        -> WriteName
    [] IsCell                       -> value
    [] row > 0 /\ column = Totals   -> <<"total", total>>

(* write_trace counts for itself what the scoring loop has counted before. *)
Counts(sent) ==
  LET accepted == Cardinality({k \in DOMAIN sent : sent[k] = "+"})
  IN  <<"tests", accepted, Len(sent) - accepted>>
Account(sent, mark) ==
  CASE sent = <<>>                     -> <<"no result">>
    [] sent # <<>> /\ mark = NotBuilt  -> <<"not built">>
    [] OTHER                           -> Counts(sent)
Sent(j) == IF j \in DOMAIN marks THEN marks[j] ELSE <<>>
Unscored(j) == [who |-> table[j], sent |-> Sent(j), says |-> Account(Sent(j), CellOf(j).mark), scored |-> 0]
Entry(j) ==
  [who |-> table[j], sent |-> Sent(j), says |-> Account(Sent(j), CellOf(j).mark), scored |-> CellOf(j).score]

(* The lines of an entry are written one by one, each field of it on a     *)
(* line of its own: those that are there once a pen has been used, and the *)
(* pen after it.                                                           *)
UpTo == [who    |-> {"who"},
         sent   |-> {"who", "sent"},
         says   |-> {"who", "sent", "says"},
         scored |-> {"who", "sent", "says", "scored"}]
NextPen == [who |-> "sent", sent |-> "says", says |-> "scored", scored |-> "results"]

Begun(entry, p) == [x \in UpTo[p] |-> entry[x]]

Advance == IF column < Totals THEN column' = column + 1 /\ UNCHANGED row
                              ELSE row' = row + 1 /\ column' = 0

WriteResults ==
  /\ pc = "report" /\ row <= UsersCount /\ pen = "results"
  /\ file' = [file EXCEPT !.results = Append(@, Piece(WrCell(Shown.mark)))]
  /\ pen' = "scores"
  /\ UNCHANGED <<name, runs, pc, wish, available, opened, present, table, started, marks, failed,
                 row, column, at, total, own, runner, past>>

NextTotal == IF column = Totals THEN 0 ELSE IF IsJob THEN total + Shown.score ELSE total

WriteScores ==
  /\ pc = "report" /\ pen = "scores"
  /\ file' = [file EXCEPT !.scores = Append(@, Piece(WrNumber(Shown.score)))]
  /\ total' = NextTotal
  /\ IF IsJob THEN pen' = "who" /\ UNCHANGED <<row, column>>
              ELSE pen' = "results" /\ Advance
  /\ UNCHANGED <<name, runs, pc, wish, available, opened, present, table, started, marks, failed,
                 at, own, runner, past>>

WriteTrace ==
  /\ pc = "report" /\ pen \in DOMAIN UpTo
  /\ file' = [file EXCEPT !.trace = Append(IF pen = "who" THEN @ ELSE Front(@), Begun(Entry(at), pen))]
  /\ pen' = NextPen[pen]
  /\ IF pen = "scored" THEN at' = at + 1 /\ Advance ELSE UNCHANGED <<at, row, column>>
  /\ UNCHANGED <<name, runs, pc, wish, available, opened, present, table, started, marks, failed,
                 total, own, runner, past>>

Written == pc = "report" /\ row > UsersCount

Finish == Written /\ Return

(* The judge is killed, alone, or with all its runners by the terminal.    *)
Killed == pc # "shell" /\ FewOut /\ Return
Interrupted ==
  /\ pc # "shell"
  /\ pc' = "shell" /\ Forget
  /\ runner' = Restrict(runner, DOMAIN runner \ Out)
  /\ UNCHANGED <<name, runs, disk, shared>>

----------------------------------------------------------------------------
(* The runners, of which module Runner has every step *)

StateOf(r, state) == [runner EXCEPT ![r].state = state]
Further(r, sent, state) == With(runner, r, [cell |-> runner[r].cell, marks |-> sent, state |-> state])
OthersOf(r) == DOMAIN runner \ {r}

(* The log of the submission is emptied, whoever else has it open.         *)
RunnerOpens(r) ==
  /\ runner[r].state = "open"
  /\ own' = [own EXCEPT ![FileOf(runner[r].cell)] = <<>>]
  /\ runner' = StateOf(r, "log")
  /\ UNCHANGED <<name, runs, pc, judge, file, past>>

(* A write at an offset past the end leaves a hole. *)
OpenedAnew(text, k, mark) == <<mark>>
WriteAt(text, k, mark) ==
  [i \in 1 .. Max({k, Len(text)}) |-> IF i = k THEN mark ELSE IF i <= Len(text) THEN text[i] ELSE Nul]

(* What the next test earns: what the submission deserves, or anything     *)
(* once another runner builds and runs in the same files.                  *)
Earned(r) ==
  LET c == runner[r].cell
      n == Len(runner[r].marks)
  IN  {Deserved(c)[n + 1]}
      \cup {mark \in Spoiled : FileOf(c) \in shared /\ (mark = NotBuilt => n = 0)
                             /\ Deserved(c) # <<NotBuilt>>}

RunnerMarks(r) ==
  /\ runner[r].state = "log"
  /\ \E mark \in Earned(r) :
       LET sent == Append(runner[r].marks, mark)
       IN  /\ own' = [own EXCEPT ![FileOf(runner[r].cell)] = WriteAt(@, Len(sent), mark)]
           /\ runner' = Further(r, sent, "pipe")
  /\ UNCHANGED <<name, runs, pc, judge, file, past>>

(* The other end of the pipe is the judge's, and every later runner of the *)
(* same judge has inherited it.                                            *)
Read(r) ==
  \/ pc # "shell" /\ r[1] = runs
  \/ \E q \in DOMAIN runner : IsOut(q) /\ q[1] = r[1] /\ q[2] > r[2]

IsWhole(r) ==
  LET sent == runner[r].marks
  IN  sent[1] = NotBuilt \/ Len(sent) = Tests[runner[r].cell[2]]

(* The runner returns: its judge has it to wait for, if it is there.       *)
Tended(r) == pc # "shell" /\ r[1] = runs
Leaves(r) == runner' = IF Tended(r) THEN StateOf(r, "gone") ELSE Restrict(runner, OthersOf(r))

RunnerSends(r) ==
  /\ runner[r].state = "pipe"
  /\ IF Read(r) /\ ~IsWhole(r) THEN runner' = StateOf(r, "log") ELSE Leaves(r)
  /\ UNCHANGED <<name, runs, pc, judge, disk, past>>

(* A runner ends early: it cannot be run, cannot open its log or set up    *)
(* the sandbox, gives up over a file, or is killed.  A mark that is in its *)
(* log may not be in the pipe yet.  The judge collects it like any other.  *)
InPipe(r) == IF runner[r].state = "pipe" THEN Front(runner[r].marks) ELSE runner[r].marks

RunnerDies(r) ==
  /\ "runner" \in Faults /\ IsOut(r)
  /\ IF Tended(r)
     THEN /\ runner' = Further(r, InPipe(r), "gone")
          /\ cut' = cut \cup {r[2]}
     ELSE runner' = Restrict(runner, OthersOf(r)) /\ UNCHANGED cut
  /\ UNCHANGED <<name, runs, pc, judge, disk, shared>>

----------------------------------------------------------------------------
JudgeStep ==
  \/ LoadContest \/ AskSandbox \/ SandboxRefused \/ OpenLog \/ LogsOpen \/ LogMissing
  \/ MakeRoom \/ Enlist \/ RunJobs \/ StartJob \/ Collect \/ JobsDone
  \/ WriteResults \/ WriteScores \/ WriteTrace \/ Finish

RunnerStep(r) == RunnerOpens(r) \/ RunnerMarks(r) \/ RunnerSends(r)

Over == pc = "shell" /\ runs = MaxRuns /\ runner = <<>> /\ UNCHANGED vars

Next ==
  \/ Begin \/ JudgeStep
  \/ ContestRefused \/ NoRoom \/ GiveUp \/ Killed \/ Interrupted
  \/ \E r \in DOMAIN runner : RunnerStep(r) \/ RunnerDies(r)
  \/ Over

(* The judge goes on while it can, and so does a runner: the submission it *)
(* runs has a limit, which is for module Spawn to say.                     *)
Fairness == WF_vars(JudgeStep) /\ WF_vars(\E r \in DOMAIN runner : RunnerStep(r))

Spec == Init /\ [][Next]_vars /\ Fairness

----------------------------------------------------------------------------
(* Properties *)

TypeOK ==
  /\ pc \in {"shell", "load", "sandbox", "open", "room", "enlist", "jobs", "report"}
  /\ runs \in 0 .. MaxRuns
  /\ wish \in {"off", "auto", "on"} /\ available \in BOOLEAN
  /\ opened \in SeqOf(BOOLEAN, 3)
  /\ present \subseteq User /\ ToSet(table) \subseteq Cell
  /\ started \in 0 .. Len(table) /\ DOMAIN marks \subseteq 1 .. started /\ failed \in BOOLEAN
  /\ row \in 0 .. UsersCount + 1 /\ column \in 0 .. Totals
  /\ pen \in {"results", "scores"} \cup DOMAIN UpTo
  /\ at \in 1 .. Len(table) + 1 /\ total \in Nat
  /\ \A r \in DOMAIN runner : runner[r].state \in {"open", "log", "pipe", "gone"}
  /\ \A s \in Submission : \A k \in DOMAIN own[s] : own[s][k] \in Mark \cup {Nul}
  /\ shared \subseteq Submission /\ cut \subseteq 1 .. started

Width       == ProblemsCount + 2
Position(c) == c[1] * Width + c[2] + 1
Scored(k)   == file.scores[k][1] = "score"
RowSum(k)   == MapThenSumSet(LAMBDA i : file.scores[i][2], k - ProblemsCount .. k - 1)

Tabled(e) == IF e.says = <<"not built">> THEN {"X"}
             ELSE IF e.says = <<"no result">> THEN {"X", Nul}
             ELSE IF e.says[3] = 0 THEN {"+"} ELSE {"-", "x"}
Holds(i, field) == field \in DOMAIN file.trace[i]

(* results.log, scores.log and results2.log are written by turns and never *)
(* say different things, whatever moment a judge is killed at and whatever *)
(* a later one does to them before it is refused: those that hold anything *)
(* tell of the same run.  The tables have the same rows, the scores of a   *)
(* row add up to its total in both, and each submission in the trace has   *)
(* its score and a mark that fits its counts under its name, as far as its *)
(* entry has been written; where there is none in the trace there is an X  *)
(* and no points.                                                          *)
TablesAgree ==
  file.results # <<>> /\ file.scores # <<>> =>
    /\ Len(file.results) - Len(file.scores) \in {0, 1}
    /\ \A k \in DOMAIN file.scores :
         IF Scored(k) THEN /\ file.results[k][1] = "mark"
                           /\ file.scores[k][2] > 0 => file.results[k][2] \in TestMark
                      ELSE file.results[k] = file.scores[k]

RowsAddUp == \A k \in DOMAIN file.scores : file.scores[k][1] = "total" => file.scores[k][2] = RowSum(k)

TraceHasTheScores ==
  file.scores # <<>> /\ file.trace # <<>> =>
    /\ \A i \in DOMAIN file.trace :
         LET k == Position(file.trace[i].who)
         IN  /\ k <= Len(file.scores) /\ Scored(k)
             /\ Holds(i, "scored") => file.scores[k][2] = file.trace[i].scored
    /\ \A k \in 1 .. Len(file.scores) - 1 :
         Scored(k) /\ file.scores[k][2] > 0 =>
           \E i \in DOMAIN file.trace : Position(file.trace[i].who) = k /\ Holds(i, "scored")

TraceFitsTheMarks ==
  file.results # <<>> /\ file.trace # <<>> =>
    \A i \in DOMAIN file.trace : Holds(i, "says") =>
      file.results[Position(file.trace[i].who)][2] \in Tabled(file.trace[i])

LogsTellTheSame == TablesAgree /\ RowsAddUp /\ TraceHasTheScores /\ TraceFitsTheMarks

(* Only a judge that has its contest, and the sandbox the contest asks     *)
(* for, touches the logs of the one before it.                             *)
RefusalSparesTheLogs == [][file' # file => pc # "load" /\ ~(wish = "on" /\ ~available)]_vars

(* When a run that has not failed is about to return, the scoreboard is    *)
(* whole and says what the submissions deserve, runners of other judges    *)
(* and users of the same name notwithstanding, unless they had a           *)
(* submission in hand at the same time.  One whose runner ended early is   *)
(* shown as a row of fewer marks would be, the first of those it deserves: *)
(* that may be a +.                                                        *)
CellsCut == {table[j] : j \in cut}
Shows(c, sent) ==
  LET cell == MarkedCell(c[2], sent)
  IN  file.results[Position(c)][2] = cell.mark /\ file.scores[Position(c)][2] = cell.score

WholeScoreboard ==
  Written /\ ~failed =>
    /\ Len(file.results) = (UsersCount + 1) * Width /\ Len(file.scores) = Len(file.results)
    /\ [i \in DOMAIN file.trace |-> file.trace[i].who] = table
    /\ \A c \in Cell :
         FileOf(c) \notin shared =>
           IF c[1] \notin present      THEN Shows(c, <<NotBuilt>>)
           ELSE IF c \in CellsCut      THEN \E n \in 1 .. Len(Deserved(c)) : Shows(c, SubSeq(Deserved(c), 1, n - 1))
           ELSE Shows(c, Deserved(c))

(* And log/<Student>_<Letter>.log then holds the marks the scoreboard was  *)
(* made of, those of the last row where two users have one name.  A runner *)
(* that ended early may have written one mark more than it sent, or, where *)
(* it sent none, not have come to its log.                                 *)
LastOn(s) == Max({j \in DOMAIN table : FileOf(table[j]) = s})
BearsOut(text, sent, early) ==
  \/ text = sent
  \/ early /\ (sent = <<>> \/ \E mark \in Mark : text = Append(sent, mark))

LogsAreTheMarks ==
  Written /\ ~failed =>
    \A s \in Submission \ shared :
      (\E j \in DOMAIN table : FileOf(table[j]) = s) =>
        BearsOut(own[s], marks[LastOn(s)], LastOn(s) \in cut)

(* Whatever is killed or given up, no runner is left for ever: every run   *)
(* ends, and so does what it has started.                                  *)
NobodyStays == <>[](pc = "shell" /\ runner = <<>>)
=============================================================================
