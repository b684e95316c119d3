--------------------------- MODULE SessionProofs ----------------------------
(***************************************************************************)
(* What module Session promises of the logs, for any number of judges,     *)
(* users, problems and workers and whatever is killed or given up.  The    *)
(* table of jobs is in the order of the cells of the scoreboard, so that   *)
(* main's own counter (at) is always at the job of the cell it writes; the *)
(* logs are then known piece by piece, and what they say of a submission   *)
(* is what it deserves while nobody else has had its files in hand.        *)
(***************************************************************************)
EXTENDS Session, MarksProofs, SequenceTheorems

(* The values of the variables, closer than TypeOK has them.               *)
LogValue ==
  {<<"head", c>> : c \in 0 .. Totals} \cup {<<"name", name[u]>> : u \in User}
  \cup {<<"mark", mark>> : mark \in Mark \cup {Nul}}
  \cup {<<"score", n>> : n \in Nat} \cup {<<"total", n>> : n \in Nat}
Statement == {<<"no result">>, <<"not built">>} \cup {<<"tests", n, m>> : n \in Int, m \in Int}
WholeEntry  == [who : Cell, sent : Seq(Mark), says : Statement, scored : Nat]
TraceEntry  == {Begun(e, p) : e \in WholeEntry, p \in DOMAIN UpTo}
RunnerId    == (1 .. MaxRuns) \X (Nat \ {0})
RunnerValue == [cell : Cell, marks : Seq(Mark), state : {"open", "log", "pipe", "gone"}]

Typed ==
  /\ name \in Namings
  /\ pc \in {"shell", "load", "sandbox", "open", "room", "enlist", "jobs", "report"}
  /\ runs \in 0 .. MaxRuns
  /\ wish \in {"off", "auto", "on"} /\ available \in BOOLEAN
  /\ opened \in Seq(BOOLEAN) /\ Len(opened) <= 3
  /\ present \subseteq User /\ table \in Seq(Cell)
  /\ started \in 0 .. Len(table) /\ failed \in BOOLEAN
  /\ DOMAIN marks \subseteq 1 .. started /\ marks \in [DOMAIN marks -> Seq(Mark)]
  /\ row \in 0 .. UsersCount + 1 /\ column \in 0 .. Totals
  /\ pen \in {"results", "scores"} \cup DOMAIN UpTo /\ at \in Nat \ {0} /\ total \in Nat
  /\ file \in [results : Seq(LogValue), trace : Seq(TraceEntry), scores : Seq(LogValue)]
  /\ DOMAIN runner \subseteq RunnerId
  /\ runner \in [DOMAIN runner -> RunnerValue]
  /\ own \in [Submission -> Seq(Mark \cup {Nul})] /\ shared \subseteq Submission /\ cut \subseteq Nat
  /\ pen # "results" => row <= UsersCount

(* What a judge has not come to yet is as a judge finds it.                *)
Unbegun ==
  /\ pc # "shell" => runs > 0
  /\ pc # "report" => column = 0 /\ pen = "results" /\ at = 1 /\ total = 0
  /\ pc \notin {"enlist", "report"} => row = 0
  /\ pc = "enlist" => row > 0
  /\ pc \notin {"enlist", "jobs", "report"} => present = {} /\ table = <<>>
  /\ pc \notin {"jobs", "report"} => started = 0 /\ marks = <<>>

(* The logs are touched under a sandbox the contest can do with, and they  *)
(* are empty from when all are opened until the first is written.          *)
Emptied ==
  /\ pc \in {"open", "room", "enlist", "jobs", "report"} => Acceptable
  /\ pc \in {"shell", "load", "sandbox"} => opened = <<>>
  /\ pc = "open" => \A i \in DOMAIN opened : opened[i] = TRUE => file[LogFile[i]] = <<>>
  /\ pc \in {"room", "enlist", "jobs"} => file.results = <<>> /\ file.scores = <<>> /\ file.trace = <<>>

(* The table has every submission of the users who are there, in order.    *)
Precedes(c, d) == c[1] < d[1] \/ (c[1] = d[1] /\ c[2] < d[2])

Listed ==
  /\ \A i, j \in DOMAIN table : i < j => Precedes(table[i], table[j])
  /\ \A i \in DOMAIN table : table[i][1] \in present
  /\ \A u \in present, p \in Problem : \E i \in DOMAIN table : table[i] = <<u, p>>
  /\ pc = "enlist" => \A u \in present : u < row

(* main's counter has passed the jobs of the cells before its cursors.     *)
Cursors ==
  pc = "report" =>
    /\ row = UsersCount + 1 => column = 0
    /\ pen \in DOMAIN UpTo => IsJob
    /\ at <= Len(table) + 1
    /\ \A i \in DOMAIN table : i < at <=> Precedes(table[i], <<row, column>>)

(* The pen before that of a line that is not the first of its entry.       *)
Before == [sent |-> "who", says |-> "sent", scored |-> "says"]

(* What the logs say of a cell, and where they say it.                     *)
JobOf(c)  == CHOOSE j \in DOMAIN table : table[j] = c
Told(c)   == IF c[1] \in present THEN CellOf(JobOf(c)) ELSE AbsentCell
Scores(u) == [p \in Problem |-> Told(<<u, p>>).score]

Index(u, c) == u * Width + c + 1
Line(u, c, value) ==
  IF u = 0 THEN <<"head", c>> ELSE IF c = 0 THEN <<"name", name[u]>>
  ELSE IF c \in Problem THEN value ELSE <<"total", SumOver(Scores(u), Problem)>>
ResultOf(u, c) == Line(u, c, <<"mark", Told(<<u, c>>).mark>>)
ScoreOf(u, c)  == Line(u, c, <<"score", Told(<<u, c>>).score>>)

Summed == IF pen \in DOMAIN UpTo THEN column ELSE column - 1

Reported ==
  pc = "report" =>
    /\ Len(file.results) = Index(row, column) - (IF pen = "results" THEN 1 ELSE 0)
    /\ Len(file.scores)  = Index(row, column) - (IF pen \in DOMAIN UpTo THEN 0 ELSE 1)
    /\ Len(file.trace) = IF pen \in DOMAIN Before THEN at ELSE at - 1
    /\ \A u \in 0 .. UsersCount, c \in 0 .. Totals :
         /\ Index(u, c) <= Len(file.results) => file.results[Index(u, c)] = ResultOf(u, c)
         /\ Index(u, c) <= Len(file.scores)  => file.scores[Index(u, c)]  = ScoreOf(u, c)
    /\ \A i \in 1 .. at - 1 : file.trace[i] = Entry(i)
    /\ pen \in DOMAIN Before => file.trace[at] = Begun(Entry(at), Before[pen])
    /\ \A u \in {row} : total = SumOver(Scores(u), 1 .. Summed)

(* Whose runner is whose: a judge's own are at jobs it has started and not *)
(* collected, and one that has ended is its judge's to collect.            *)
Own ==
  \A r \in DOMAIN runner :
    /\ r[1] <= runs
    /\ pc \notin {"shell", "jobs", "report"} => r[1] < runs
    /\ ~IsOut(r) => pc \in {"jobs", "report"} /\ r[1] = runs
    /\ pc \in {"jobs", "report"} /\ r[1] = runs =>
         r[2] <= started /\ r[2] \notin DOMAIN marks /\ runner[r].cell = table[r[2]]
Early(r) == r[1] = runs /\ r[2] \in cut
Ours ==
  /\ Own
  /\ cut \subseteq 1 .. started
  /\ \A r \in DOMAIN runner : Early(r) => ~IsOut(r)

(* How far a runner has come, and how far that is what is deserved.        *)
OnTheWay(sent, state, due) ==
  /\ state = "open" => sent = <<>>
  /\ state = "pipe" => sent # <<>>
  /\ Len(sent) <= Len(due) /\ (state = "log" => Len(sent) < Len(due))
  /\ due = <<NotBuilt>> => \A i \in DOMAIN sent : sent[i] = NotBuilt
AsDue(sent, state, due) ==
  /\ \A i \in DOMAIN sent : sent[i] = due[i]
  /\ state = "gone" => sent = due
  /\ state = "cut" => Len(sent) < Len(due)
Ended(early) == IF early THEN "cut" ELSE "gone"

Marked ==
  \A r \in DOMAIN runner :
    LET x == runner[r]
    IN  /\ OnTheWay(x.marks, x.state, Deserved(x.cell))
        /\ FileOf(x.cell) \notin shared =>
             AsDue(x.marks, IF IsOut(r) THEN x.state ELSE Ended(Early(r)), Deserved(x.cell))

(* What was collected is what is deserved, and all of it in a good run.    *)
Gathered ==
  /\ \A j \in DOMAIN marks :
       FileOf(table[j]) \notin shared => AsDue(marks[j], Ended(j \in cut), Deserved(table[j]))
  /\ pc = "report" /\ ~failed => DOMAIN marks = DOMAIN table

(* Of the submissions nobody else has in hand, the log is the last one's.  *)
LastStarted(j) == \A i \in j + 1 .. started : FileOf(table[i]) # FileOf(table[j])
Kept ==
  \A j \in 1 .. started :
    FileOf(table[j]) \notin shared =>
      /\ \A q \in DOMAIN runner :
           IsOut(q) /\ FileOf(runner[q].cell) = FileOf(table[j]) => q[1] = runs /\ j <= q[2]
      /\ LastStarted(j) =>
           /\ j \in DOMAIN marks => BearsOut(own[FileOf(table[j])], marks[j], j \in cut)
           /\ \A q \in DOMAIN runner :
                q = <<runs, j>> /\ runner[q].state # "open" =>
                  BearsOut(own[FileOf(table[j])], runner[q].marks, j \in cut)

(***************************************************************************)
(* What is in hand, to begin with.                                         *)
(***************************************************************************)
LEMMA Sizes ==
  /\ UsersCount \in Nat /\ ProblemsCount \in Nat
  /\ Totals \in Nat /\ Totals = ProblemsCount + 1 /\ Width = Totals + 1
  /\ User = 1 .. UsersCount /\ Problem = 1 .. ProblemsCount
  /\ IsFiniteSet(Problem)
BY ContestAssumption, FS_Interval DEF Totals, Width, User, Problem

LEMMA CellParts ==
  ASSUME NEW c \in Cell
  PROVE  c[1] \in User /\ c[2] \in Problem /\ c = <<c[1], c[2]>>
BY DEF Cell

(* A submission is worth at least one mark, X or one for each of its tests.*)
LEMMA DeservedType ==
  ASSUME NEW c \in Cell, name \in Namings
  PROVE  /\ FileOf(c) \in Submission
         /\ Deserved(c) \in Seq(Mark) /\ Len(Deserved(c)) \in Nat \ {0}
         /\ Tests[c[2]] \in Nat \ {0}
         /\ \/ Deserved(c) = <<NotBuilt>>
            \/ Deserved(c) \in Seq(TestMark) /\ Len(Deserved(c)) = Tests[c[2]]
<1>1. c[1] \in User /\ c[2] \in Problem
  BY CellParts
<1>2. FileOf(c) \in Submission
  BY <1>1 DEF FileOf, Submission
<1>. DEFINE alike == {u \in User : name[u] = name[c[1]]}
<1>3. Min(alike) \in alike
  <2>1. alike \in SUBSET Nat /\ alike # {}
    BY <1>1 DEF User
  <2>. HIDE DEF alike
  <2>. QED  BY <2>1, LeastNatural
<1>4. Min(alike) \in User
  BY <1>3
<1>. HIDE DEF alike
<1>5. Tests[c[2]] \in Nat \ {0}
  BY <1>1, ContestAssumption
<1>6. PICK w \in User : w = Min(alike)
  BY <1>4
<1>7. \/ Verdict[w][c[2]] = <<NotBuilt>>
      \/ Verdict[w][c[2]] \in Seq(TestMark) /\ Len(Verdict[w][c[2]]) = Tests[c[2]]
  BY <1>1, VerdictAssumption
<1>8. Deserved(c) = Verdict[w][c[2]]
  BY <1>6 DEF Deserved, alike
<1>9. <<NotBuilt>> \in Seq(Mark) /\ Len(<<NotBuilt>>) = 1
  BY DEF Mark
<1>10. Seq(TestMark) \subseteq Seq(Mark)
  BY SeqMonotonic DEF Mark
<1>11. CASE Deserved(c) = <<NotBuilt>>
  BY <1>2, <1>5, <1>9, <1>11
<1>12. CASE Deserved(c) \in Seq(TestMark) /\ Len(Deserved(c)) = Tests[c[2]]
  BY <1>2, <1>5, <1>10, <1>12
<1>. QED  BY <1>7, <1>8, <1>11, <1>12

(* A cell of the scoreboard is a mark, or NUL, and a score.                *)
LEMMA CellType ==
  ASSUME Typed, NEW j
  PROVE  CellOf(j).mark \in Mark \cup {Nul} /\ CellOf(j).score \in Nat
<1>1. CASE j \notin DOMAIN marks
  BY <1>1 DEF CellOf, LostCell
<1>2. CASE j \in DOMAIN marks
  <2>1. table[j] \in Cell /\ marks[j] \in Seq(Mark)
    BY <1>2 DEF Typed
  <2>2. PICK p \in Problem : p = table[j][2]
    BY <2>1, CellParts
  <2>3. Points[p] \in Nat /\ Tests[p] \in Nat \ {0}
    BY ContestAssumption
  <2>4. Passed(marks[j]) \in Nat
    BY <2>1, PassedBounds
  <2>5. Points[p] * Passed(marks[j]) \in Nat
    BY <2>3, <2>4
  <2>6. Score(Points[p], Passed(marks[j]), Tests[p]) \in Nat
    BY <2>3, <2>5 DEF Score
  <2>. QED  BY <1>2, <2>2, <2>6, SummariseType DEF CellOf, MarkedCell
<1>. QED  BY <1>1, <1>2

LEMMA ShownType ==
  ASSUME Typed
  PROVE  Shown.mark \in Mark \cup {Nul} /\ Shown.score \in Nat
BY CellType DEF Shown, AbsentCell, Mark

LEMMA EntryType ==
  ASSUME Typed, NEW j \in DOMAIN table
  PROVE  Entry(j) \in WholeEntry
<1>1. table[j] \in Cell
  BY DEF Typed
<1>2. Sent(j) \in Seq(Mark)
  BY DEF Typed, Sent
<1>3. \A sent, mark : sent \in Seq(Mark) => Account(sent, mark) \in Statement
  <2>. TAKE sent, mark
  <2>. SUFFICES ASSUME sent \in Seq(Mark) PROVE Account(sent, mark) \in Statement
    OBVIOUS
  <2>1. Len(sent) \in Nat /\ Passed(sent) \in Nat
    BY PassedBounds
  <2>2. Counts(sent) = <<"tests", Passed(sent), Len(sent) - Passed(sent)>>
    BY DEF Counts, Passed
  <2>. QED  BY <2>1, <2>2 DEF Account, Statement
<1>. QED  BY <1>1, <1>2, <1>3, CellType DEF Entry, WholeEntry

(* The lines of an entry in their order; the last of them makes it whole.  *)
LEMMA Pens ==
  /\ DOMAIN UpTo = {"who", "sent", "says", "scored"} /\ DOMAIN Before = {"sent", "says", "scored"}
  /\ NextPen["who"] = "sent" /\ NextPen["sent"] = "says"
  /\ NextPen["says"] = "scored" /\ NextPen["scored"] = "results"
  /\ Before["sent"] = "who" /\ Before["says"] = "sent" /\ Before["scored"] = "says"
  /\ \A e \in WholeEntry : Begun(e, "scored") = e
  /\ \A p \in DOMAIN UpTo : \A e : DOMAIN Begun(e, p) = UpTo[p] /\ \A x \in UpTo[p] : Begun(e, p)[x] = e[x]
  /\ \A p \in DOMAIN UpTo : "who" \in UpTo[p]
  /\ UpTo["scored"] = {"who", "sent", "says", "scored"}
<1>1. /\ DOMAIN UpTo = {"who", "sent", "says", "scored"} /\ DOMAIN Before = {"sent", "says", "scored"}
      /\ NextPen["who"] = "sent" /\ NextPen["sent"] = "says"
      /\ NextPen["says"] = "scored" /\ NextPen["scored"] = "results"
      /\ Before["sent"] = "who" /\ Before["says"] = "sent" /\ Before["scored"] = "says"
  BY DEF UpTo, Before, NextPen
<1>2. UpTo["scored"] = {"who", "sent", "says", "scored"} /\ \A p \in DOMAIN UpTo : "who" \in UpTo[p]
  BY DEF UpTo
<1>3. \A e \in WholeEntry : [x \in {"who", "sent", "says", "scored"} |-> e[x]] = e
  BY DEF WholeEntry
<1>4. \A e \in WholeEntry : Begun(e, "scored") = e
  BY <1>2, <1>3 DEF Begun
<1>. QED  BY <1>1, <1>2, <1>4 DEF Begun

(* The users keep their names. *)
LEMMA NamesStay ==
  ASSUME [Next]_vars
  PROVE  /\ name' = name /\ Submission' = Submission /\ LogValue' = LogValue
         /\ \A c : FileOf(c)' = FileOf(c) /\ Deserved(c)' = Deserved(c)
<1>1. name' = name
  <2>1. CASE JudgeStep
    BY <2>1 DEF JudgeStep, Begin, LoadContest, AskSandbox, SandboxRefused, OpenLog, LogsOpen, LogMissing,
         MakeRoom, Enlist, RunJobs, StartJob, Collect, JobsDone, WriteResults, WriteScores, WriteTrace,
         Finish, Return
  <2>2. CASE Begin \/ ContestRefused \/ NoRoom \/ GiveUp \/ Killed \/ Interrupted
    BY <2>2 DEF Begin, ContestRefused, NoRoom, GiveUp, Killed, Interrupted, Return
  <2>3. ASSUME NEW r \in DOMAIN runner, RunnerStep(r) \/ RunnerDies(r) PROVE name' = name
    <3>1. RunnerDies(r) => name' = name
      BY DEF RunnerDies
    <3>2. /\ RunnerOpens(r) => name' = name
          /\ RunnerMarks(r) => name' = name
          /\ RunnerSends(r) => name' = name
      BY Zenon DEF RunnerOpens, RunnerMarks, RunnerSends
    <3>. QED  BY <2>3, <3>1, <3>2 DEF RunnerStep
  <2>4. CASE UNCHANGED vars
    BY <2>4 DEF vars
  <2>. QED  BY <2>1, <2>2, <2>3, <2>4 DEF Next, Over
<1>2. Submission' = Submission /\ LogValue' = LogValue
  BY <1>1 DEF Submission, LogValue
<1>3. \A c : FileOf(c)' = FileOf(c) /\ Deserved(c)' = Deserved(c)
  BY <1>1 DEF FileOf, Deserved
<1>. QED  BY <1>1, <1>2, <1>3

(***************************************************************************)
(* Types.                                                                  *)
(***************************************************************************)
LEMMA TypedInit == Init => Typed
<1>. SUFFICES ASSUME Init PROVE Typed
  OBVIOUS
<1>1. /\ pc = "shell" /\ runs \in 0 .. MaxRuns /\ wish = "off"
      /\ opened \in Seq(BOOLEAN) /\ Len(opened) <= 3
      /\ present \subseteq User /\ table \in Seq(Cell) /\ started \in 0 .. Len(table)
      /\ row \in 0 .. UsersCount + 1 /\ column \in 0 .. Totals
      /\ pen = "results" /\ at \in Nat \ {0} /\ total \in Nat
      /\ name \in Namings /\ shared \subseteq Submission /\ cut \subseteq Nat
  BY Sizes, SessionAssumption DEF Init
<1>2. available \in BOOLEAN /\ failed \in BOOLEAN
  BY Zenon DEF Init
<1>3. DOMAIN <<>> = {} /\ \A S : <<>> \in [{} -> S]
  OBVIOUS
<1>4. /\ DOMAIN marks \subseteq 1 .. started /\ marks \in [DOMAIN marks -> Seq(Mark)]
      /\ DOMAIN runner \subseteq RunnerId
      /\ runner \in [DOMAIN runner -> RunnerValue]
  BY <1>3 DEF Init
<1>5. \A S : <<>> \in Seq(S)
  OBVIOUS
<1>6. file = [results |-> <<>>, trace |-> <<>>, scores |-> <<>>]
  BY DEF Init
<1>7. file \in [results : Seq(LogValue), trace : Seq(TraceEntry), scores : Seq(LogValue)]
  BY <1>5, <1>6
<1>8. own \in [Submission -> Seq(Mark \cup {Nul})]
  BY <1>5 DEF Init
<1>. QED  BY <1>1, <1>2, <1>4, <1>7, <1>8 DEF Typed

(* What is left in memory when a judge is gone.                            *)
LEMMA ForgetType ==
  ASSUME Forget
  PROVE  /\ wish' = "off" /\ available' \in BOOLEAN /\ failed' \in BOOLEAN
         /\ opened' \in Seq(BOOLEAN) /\ Len(opened') <= 3
         /\ present' \subseteq User /\ table' \in Seq(Cell) /\ started' \in 0 .. Len(table')
         /\ DOMAIN marks' \subseteq 1 .. started' /\ marks' \in [DOMAIN marks' -> Seq(Mark)]
         /\ row' \in 0 .. UsersCount + 1 /\ column' \in 0 .. Totals
         /\ pen' = "results" /\ at' \in Nat \ {0} /\ total' \in Nat /\ cut' \subseteq Nat
<1>1. available' \in BOOLEAN /\ failed' \in BOOLEAN
  BY Zenon DEF Forget
<1>2. DOMAIN <<>> = {} /\ \A S : <<>> \in [{} -> S]
  OBVIOUS
<1>. QED  BY <1>1, <1>2, Sizes DEF Forget

(* A runner goes by its judge and its job, and by nothing else.            *)
LEMMA RunnerIsPair ==
  ASSUME Typed
  PROVE  \A q \in DOMAIN runner : q[1] \in Nat /\ q[2] \in Nat /\ q = <<q[1], q[2]>>
<1>1. DOMAIN runner \subseteq RunnerId
  BY DEF Typed
<1>2. \A q \in RunnerId : q[1] \in 1 .. MaxRuns /\ q[2] \in Nat \ {0} /\ q = <<q[1], q[2]>>
  BY DEF RunnerId
<1>3. \A n \in 1 .. MaxRuns : n \in Nat
  BY SessionAssumption
<1>. QED  BY <1>1, <1>2, <1>3

(* Fewer runners, and one more or one that has come further.               *)
LEMMA RunnersType ==
  ASSUME Typed
  PROVE  /\ \A S \in SUBSET DOMAIN runner :
              /\ DOMAIN Restrict(runner, S) = S
              /\ Restrict(runner, S) \in [S -> RunnerValue]
         /\ \A r \in DOMAIN runner : \A value \in RunnerValue :
              /\ DOMAIN [runner EXCEPT ![r] = value] = DOMAIN runner
              /\ [runner EXCEPT ![r] = value] \in [DOMAIN runner -> RunnerValue]
         /\ \A r, value : value \in RunnerValue =>
              /\ DOMAIN With(runner, r, value) = DOMAIN runner \cup {r}
              /\ With(runner, r, value) \in [DOMAIN runner \cup {r} -> RunnerValue]
BY DEF Typed, Restrict, With

LEMMA FurtherIs ==
  ASSUME Typed, NEW r \in DOMAIN runner, NEW sent, NEW state
  PROVE  /\ DOMAIN Further(r, sent, state) = DOMAIN runner
         /\ Further(r, sent, state)[r].cell = runner[r].cell
         /\ Further(r, sent, state)[r].marks = sent /\ Further(r, sent, state)[r].state = state
         /\ \A q \in DOMAIN runner \ {r} : Further(r, sent, state)[q] = runner[q]
<1>. DEFINE value == [cell |-> runner[r].cell, marks |-> sent, state |-> state]
            new   == Further(r, sent, state)
<1>1. /\ DOMAIN new = DOMAIN runner /\ new[r] = value /\ \A q \in DOMAIN runner \ {r} : new[q] = runner[q]
  BY DEF Further, With
<1>2. value.cell = runner[r].cell /\ value.marks = sent /\ value.state = state
  OBVIOUS
<1>. HIDE DEF value
<1>. QED  BY <1>1, <1>2, Zenon

LEMMA FurtherType ==
  ASSUME Typed, NEW r \in DOMAIN runner, NEW sent \in Seq(Mark)
  PROVE  \A state \in {"open", "log", "pipe", "gone"} :
           /\ DOMAIN Further(r, sent, state) = DOMAIN runner
           /\ Further(r, sent, state) \in [DOMAIN runner -> RunnerValue]
<1>. SUFFICES ASSUME NEW state \in {"open", "log", "pipe", "gone"}
              PROVE  /\ DOMAIN Further(r, sent, state) = DOMAIN runner
                     /\ Further(r, sent, state) \in [DOMAIN runner -> RunnerValue]
  OBVIOUS
<1>. DEFINE value == [cell |-> runner[r].cell, marks |-> sent, state |-> state]
<1>1. value \in RunnerValue
  <2>1. runner[r] \in RunnerValue
    BY DEF Typed
  <2>2. runner[r].cell \in Cell
    BY <2>1 DEF RunnerValue
  <2>. QED  BY <2>2 DEF RunnerValue
<1>. HIDE DEF value
<1>2. DOMAIN runner \cup {r} = DOMAIN runner
  OBVIOUS
<1>3. /\ DOMAIN With(runner, r, value) = DOMAIN runner
      /\ With(runner, r, value) \in [DOMAIN runner -> RunnerValue]
  BY <1>1, <1>2, RunnersType
<1>. QED  BY <1>3, Zenon DEF Further, value

(* The job main is at is the one of the cell it has just written.          *)
LEMMA AtIsHere ==
  ASSUME Typed, Listed, Cursors, pc = "report", IsJob
  PROVE  /\ at \in DOMAIN table /\ table[at] = <<row, column>>
         /\ \A i \in DOMAIN table : table[i] = <<row, column>> => i = at
<1>1. row \in present /\ column \in Problem
  BY DEF IsJob, IsCell
<1>2. PICK i \in DOMAIN table : table[i] = <<row, column>>
  BY <1>1 DEF Listed
<1>3. \A j \in DOMAIN table : j < at <=> Precedes(table[j], <<row, column>>)
  BY DEF Cursors
<1>4. row \in Int /\ column \in Int /\ at \in Nat \ {0} /\ DOMAIN table \subseteq Int
  BY DEF Typed
<1>5. ~(i < at)
  BY <1>2, <1>3, <1>4 DEF Precedes
<1>6. DOMAIN table = 1 .. Len(table) /\ Len(table) \in Nat
  BY DEF Typed
<1>7. ~(at < i)
  <2>. SUFFICES ASSUME at < i PROVE FALSE
    OBVIOUS
  <2>1. at \in DOMAIN table
    BY <1>4, <1>6
  <2>2. Precedes(table[at], <<row, column>>)
    BY <1>2, <2>1 DEF Listed
  <2>. QED  BY <1>3, <1>4, <2>1, <2>2
<1>8. i = at
  BY <1>4, <1>5, <1>7
<1>9. ASSUME NEW j \in DOMAIN table, table[j] = <<row, column>> PROVE j = at
  <2>1. ~(j < i) /\ ~(i < j)
    <3>1. ~Precedes(<<row, column>>, <<row, column>>)
      BY <1>4 DEF Precedes
    <3>. QED  BY <1>2, <1>9, <3>1 DEF Listed
  <2>. QED  BY <1>4, <1>8, <2>1
<1>. QED  BY <1>2, <1>8, <1>9

(* A runner that ends early is there for its judge, or gone.               *)
LEMMA OneEnds ==
  ASSUME NEW r \in DOMAIN runner, RunnerDies(r)
  PROVE  /\ IsOut(r) /\ UNCHANGED <<name, runs, pc, judge, disk, shared>>
         /\ \/ /\ pc # "shell" /\ r[1] = runs /\ cut' = cut \cup {r[2]}
               /\ runner' = Further(r, InPipe(r), "gone")
            \/ ~(pc # "shell" /\ r[1] = runs) /\ cut' = cut /\ runner' = Restrict(runner, OthersOf(r))
BY DEF RunnerDies, Tended

(* The judge and the logs are the same before and after a runner's step.   *)
LEMMA RunnersAlone ==
  ASSUME NEW r \in DOMAIN runner, RunnerStep(r) \/ RunnerDies(r)
  PROVE  /\ UNCHANGED <<name, runs, pc, judge, file, shared>> /\ IsOut(r)
         /\ RunnerStep(r) => cut' = cut
<1>1. RunnerDies(r) => UNCHANGED <<name, runs, pc, judge, file, shared>> /\ IsOut(r)
  BY OneEnds DEF disk
<1>2. /\ RunnerOpens(r) => UNCHANGED <<name, runs, pc, judge, file, past>> /\ runner[r].state = "open"
      /\ RunnerMarks(r) => UNCHANGED <<name, runs, pc, judge, file, past>> /\ runner[r].state = "log"
      /\ RunnerSends(r) => UNCHANGED <<name, runs, pc, judge, disk, past>> /\ runner[r].state = "pipe"
  BY Zenon DEF RunnerOpens, RunnerMarks, RunnerSends
<1>. QED  BY <1>1, <1>2 DEF RunnerStep, IsOut, disk, past

LEMMA TypedStep ==
  ASSUME Typed, Unbegun, Listed, Cursors, Ours, Marked, [Next]_vars
  PROVE  Typed'
<1>. USE DEF judge, disk, past
<1>1. name' = name /\ Submission' = Submission /\ LogValue' = LogValue
  BY NamesStay
<1>2. \A r \in DOMAIN runner :
        /\ r[1] \in 1 .. MaxRuns /\ r[2] \in Nat \ {0} /\ r = <<r[1], r[2]>>
        /\ runner[r] \in RunnerValue
        /\ runner[r].cell \in Cell /\ runner[r].marks \in Seq(Mark)
        /\ runner[r].state \in {"open", "log", "pipe", "gone"}
        /\ FileOf(runner[r].cell) \in Submission
  <2>1. ASSUME NEW r \in DOMAIN runner
        PROVE  /\ r[1] \in 1 .. MaxRuns /\ r[2] \in Nat \ {0} /\ r = <<r[1], r[2]>>
               /\ runner[r] \in RunnerValue
    <3>1. r \in RunnerId /\ runner[r] \in RunnerValue
      BY DEF Typed
    <3>. QED  BY <3>1 DEF RunnerId
  <2>2. \A v \in RunnerValue : v.cell \in Cell /\ v.marks \in Seq(Mark) /\ v.state \in {"open", "log", "pipe", "gone"}
    BY DEF RunnerValue
  <2>3. \A c \in Cell : FileOf(c) \in Submission
    <3>1. name \in Namings
      BY DEF Typed
    <3>. QED  BY <3>1, DeservedType
  <2>. QED  BY <2>1, <2>2, <2>3
<1>0. ASSUME NEW S \in SUBSET DOMAIN runner, runner' = Restrict(runner, S)
      PROVE  DOMAIN runner' \subseteq RunnerId /\ runner' \in [DOMAIN runner' -> RunnerValue]
  <2>1. DOMAIN runner \subseteq RunnerId
    BY DEF Typed
  <2>2. DOMAIN Restrict(runner, S) = S /\ Restrict(runner, S) \in [S -> RunnerValue]
    BY RunnersType
  <2>. QED  BY <1>0, <2>1, <2>2
<1>3. ASSUME Return PROVE Typed'
  <2>1. /\ pc' = "shell" /\ Forget /\ UNCHANGED <<runs, file, own, shared>>
        /\ \E S \in SUBSET DOMAIN runner : runner' = Restrict(runner, S)
    BY <1>3 DEF Return
  <2>2. DOMAIN runner' \subseteq RunnerId /\ runner' \in [DOMAIN runner' -> RunnerValue]
    BY <1>0, <2>1
  <2>. QED  BY <1>1, <2>1, <2>2, ForgetType DEF Typed
<1>4. CASE ContestRefused \/ SandboxRefused \/ LogMissing \/ NoRoom \/ Finish \/ Killed
  BY <1>3, <1>4 DEF ContestRefused, SandboxRefused, LogMissing, NoRoom, Finish, Killed
<1>5. CASE Interrupted
  <2>1. /\ pc' = "shell" /\ Forget /\ UNCHANGED <<runs, file, own, shared>>
        /\ \E S \in SUBSET DOMAIN runner : runner' = Restrict(runner, S)
    BY <1>5 DEF Interrupted
  <2>2. DOMAIN runner' \subseteq RunnerId /\ runner' \in [DOMAIN runner' -> RunnerValue]
    BY <1>0, <2>1
  <2>. QED  BY <1>1, <2>1, <2>2, ForgetType DEF Typed
<1>6. CASE Begin
  <2>1. PICK sandbox \in Sandboxes : wish' = sandbox.wish /\ available' = sandbox.available
    BY <1>6 DEF Begin
  <2>2. sandbox \in [wish : {"off", "auto", "on"}, available : BOOLEAN]
    BY SessionAssumption
  <2>3. wish' \in {"off", "auto", "on"}
    BY <2>1, <2>2
  <2>4. available' \in BOOLEAN
    BY <2>1, <2>2, Zenon
  <2>5. /\ pc' = "load" /\ runs' = runs + 1 /\ runs < MaxRuns /\ shared' \subseteq shared
        /\ UNCHANGED <<opened, present, table, started, marks, failed,
                       row, column, pen, at, total, disk, runner, cut>>
    BY <1>6 DEF Begin
  <2>6. runs' \in 0 .. MaxRuns
    <3>1. runs \in 0 .. MaxRuns /\ MaxRuns \in Nat
      BY SessionAssumption DEF Typed
    <3>. QED  BY <2>5, <3>1
  <2>. QED  BY <1>1, <2>3, <2>4, <2>5, <2>6 DEF Typed
<1>7. CASE LoadContest \/ AskSandbox \/ LogsOpen \/ JobsDone
  <2>1. /\ pc' \in {"sandbox", "open", "room", "report"}
        /\ UNCHANGED <<runs, judge, disk, runner, past>>
    BY <1>7 DEF LoadContest, AskSandbox, LogsOpen, JobsDone
  <2>. QED  BY <1>1, <2>1 DEF Typed
<1>8. CASE OpenLog
  <2>1. PICK could \in BOOLEAN :
          /\ opened' = Append(opened, could)
          /\ file' = IF could THEN [file EXCEPT ![LogFile[Len(opened')]] = <<>>] ELSE file
    BY <1>8 DEF OpenLog
  <2>2. opened' \in Seq(BOOLEAN) /\ Len(opened') = Len(opened) + 1 /\ Len(opened') <= 3
    <3>1. opened \in Seq(BOOLEAN) /\ Len(opened) < 3
      BY <1>8 DEF Typed, OpenLog, LogFile
    <3>. QED  BY <2>1, <3>1
  <2>3. file' \in [results : Seq(LogValue), trace : Seq(TraceEntry), scores : Seq(LogValue)]
    <3>1. LogFile[Len(opened')] \in {"results", "trace", "scores"}
      <4>1. Len(opened') \in 1 .. 3
        <5>1. Len(opened) \in Nat
          BY DEF Typed
        <5>. QED  BY <2>2, <5>1
      <4>2. Len(opened') = 1 \/ Len(opened') = 2 \/ Len(opened') = 3
        BY <4>1
      <4>3. LogFile[1] = "results" /\ LogFile[2] = "trace" /\ LogFile[3] = "scores"
        BY DEF LogFile
      <4>. QED  BY <4>2, <4>3
    <3>2. \A S : <<>> \in Seq(S)
      OBVIOUS
    <3>3. \A f \in {"results", "trace", "scores"} :
            [file EXCEPT ![f] = <<>>] \in [results : Seq(LogValue), trace : Seq(TraceEntry), scores : Seq(LogValue)]
      BY <3>2 DEF Typed
    <3>4. file \in [results : Seq(LogValue), trace : Seq(TraceEntry), scores : Seq(LogValue)]
      BY DEF Typed
    <3>. QED  BY <2>1, <3>1, <3>3, <3>4
  <2>4. /\ pc' = pc
        /\ UNCHANGED <<runs, wish, available, present, table, started, marks, failed,
                       row, column, pen, at, total, own, runner, past>>
    BY <1>8 DEF OpenLog
  <2>. QED  BY <1>1, <2>2, <2>3, <2>4 DEF Typed
<1>9. CASE MakeRoom \/ RunJobs
  <2>1. /\ pc' \in {"enlist", "jobs"} /\ row' \in {0, 1}
        /\ UNCHANGED <<runs, wish, available, opened, present, table, started, marks, failed,
                       column, pen, at, total, disk, runner, past>>
    BY <1>9 DEF MakeRoom, RunJobs
  <2>2. row' \in 0 .. UsersCount + 1
    BY <2>1, Sizes
  <2>3. pen' = "results"
    BY <1>9, <2>1 DEF MakeRoom, RunJobs, Unbegun
  <2>. QED  BY <1>1, <2>1, <2>2, <2>3 DEF Typed
<1>10. CASE Enlist
  <2>1. /\ row <= UsersCount /\ row' = row + 1 /\ pc' = "enlist"
        /\ UNCHANGED <<runs, wish, available, opened, started, marks, failed,
                       column, pen, at, total, disk, runner, past>>
    BY <1>10 DEF Enlist
  <2>2. row \in User
    <3>1. row > 0 /\ row \in 0 .. UsersCount + 1
      BY <1>10 DEF Enlist, Unbegun, Typed
    <3>. QED  BY <2>1, <3>1, Sizes
  <2>3. row' \in 0 .. UsersCount + 1 /\ (pen' # "results" => row' <= UsersCount)
    BY <1>10, <2>1, <2>2, Sizes DEF Unbegun, Enlist
  <2>4. Row(row) \in Seq(Cell)
    BY <2>2, Sizes DEF Row, Cell
  <2>5. \E S \in SUBSET User, more \in Seq(Cell) : present' = S /\ table' = table \o more
    <3>1. table \o <<>> = table /\ <<>> \in Seq(Cell)
      BY DEF Typed
    <3>2. present \cup {row} \subseteq User /\ present \subseteq User
      BY <2>2 DEF Typed
    <3>. QED  BY <1>10, <2>4, <3>1, <3>2 DEF Enlist
  <2>6. present' \subseteq User /\ table' \in Seq(Cell) /\ Len(table) <= Len(table')
    <3>1. table \in Seq(Cell)
      BY DEF Typed
    <3>2. \A more \in Seq(Cell) : table \o more \in Seq(Cell) /\ Len(table \o more) = Len(table) + Len(more)
      BY <3>1
    <3>. QED  BY <2>5, <3>1, <3>2
  <2>7. started' \in 0 .. Len(table')
    <3>1. started \in 0 .. Len(table) /\ started' = started /\ Len(table') \in Nat
      BY <2>1, <2>6 DEF Typed
    <3>. QED  BY <2>6, <3>1
  <2>. QED  BY <1>1, <2>1, <2>3, <2>6, <2>7 DEF Typed
<1>11. CASE StartJob
  <2>1. /\ started' = started + 1 /\ started < Len(table) /\ pc' = "jobs"
        /\ UNCHANGED <<runs, wish, available, opened, present, table, marks, failed,
                       row, column, pen, at, total, disk, cut>>
        /\ runner' = With(runner, <<runs, started'>>, [cell |-> table[started'], marks |-> <<>>, state |-> "open"])
        /\ shared' = IF InHand(FileOf(table[started'])) = {} THEN shared ELSE shared \cup {FileOf(table[started'])}
    BY <1>11 DEF StartJob
  <2>2. started' \in 1 .. Len(table) /\ started \in Nat /\ Len(table) \in Nat
    <3>1. started \in Nat /\ Len(table) \in Nat
      BY DEF Typed
    <3>. QED  BY <2>1, <3>1
  <2>3. table[started'] \in Cell
    BY <2>2 DEF Typed
  <2>4. PICK value \in RunnerValue : value = [cell |-> table[started'], marks |-> <<>>, state |-> "open"]
    <3>1. \A S : <<>> \in Seq(S)
      OBVIOUS
    <3>. QED  BY <2>3, <3>1 DEF RunnerValue
  <2>5. <<runs, started'>> \in RunnerId
    <3>1. runs \in 1 .. MaxRuns
      BY <1>11, SessionAssumption DEF StartJob, Unbegun, Typed
    <3>. QED  BY <2>2, <3>1 DEF RunnerId
  <2>6. DOMAIN runner' \subseteq RunnerId /\ runner' \in [DOMAIN runner' -> RunnerValue]
    <3>1. DOMAIN runner \subseteq RunnerId
      BY DEF Typed
    <3>2. runner' = With(runner, <<runs, started'>>, value)
      BY <2>1, <2>4
    <3>3. DOMAIN runner' = DOMAIN runner \cup {<<runs, started'>>} /\ runner' \in [DOMAIN runner \cup {<<runs, started'>>} -> RunnerValue]
      BY <3>2, RunnersType
    <3>. QED  BY <2>5, <3>1, <3>3
  <2>7. shared' \subseteq Submission
    BY <2>1, <2>3, DeservedType DEF Typed
  <2>8. DOMAIN marks' \subseteq 1 .. started' /\ started' \in 0 .. Len(table')
    <3>1. started \in 0 .. Len(table) /\ Len(table) \in Nat /\ DOMAIN marks \subseteq 1 .. started
      BY DEF Typed
    <3>2. 1 .. started \subseteq 1 .. started + 1 /\ started + 1 \in 0 .. Len(table)
      BY <2>1, <3>1
    <3>3. marks' = marks /\ table' = table /\ started' = started + 1
      BY <2>1
    <3>. QED  BY <3>1, <3>2, <3>3
  <2>. QED  BY <1>1, <2>1, <2>6, <2>7, <2>8 DEF Typed
<1>12. CASE Collect
  <2>1. PICK r \in DOMAIN runner :
          /\ r[1] = runs /\ marks' = With(marks, r[2], runner[r].marks)
          /\ runner' = Restrict(runner, DOMAIN runner \ {r}) /\ ~IsOut(r)
    BY <1>12 DEF Collect, Out
  <2>2. /\ pc = "jobs" /\ pc' = "jobs"
        /\ UNCHANGED <<runs, wish, available, opened, present, table, started, failed,
                       row, column, pen, at, total, disk, past>>
    BY <1>12 DEF Collect
  <2>3. r[2] \in 1 .. started
    BY <1>2, <2>1, <2>2 DEF Ours, Own, Typed
  <2>4. DOMAIN marks' \subseteq 1 .. started' /\ marks' \in [DOMAIN marks' -> Seq(Mark)]
    BY <1>2, <2>1, <2>2, <2>3 DEF With, Typed
  <2>5. DOMAIN runner' \subseteq RunnerId /\ runner' \in [DOMAIN runner' -> RunnerValue]
    BY <2>1, RunnersType DEF Typed
  <2>. QED  BY <1>1, <2>2, <2>4, <2>5 DEF Typed
<1>13. CASE GiveUp
  <2>1. failed' \in BOOLEAN
    BY <1>13, Zenon DEF GiveUp
  <2>2. /\ pc' = "report"
        /\ UNCHANGED <<runs, wish, available, opened, present, table, started, marks,
                       row, column, pen, at, total, disk, runner, past>>
    BY <1>13 DEF GiveUp
  <2>. QED  BY <1>1, <2>1, <2>2 DEF Typed
<1>14. Advance /\ row <= UsersCount => row' \in 0 .. UsersCount + 1 /\ column' \in 0 .. Totals
  <2>1. row \in 0 .. UsersCount + 1 /\ column \in 0 .. Totals
    BY DEF Typed
  <2>2. column < Totals => column + 1 \in 0 .. Totals
    BY <2>1, Sizes
  <2>3. row <= UsersCount => row + 1 \in 0 .. UsersCount + 1
    BY <2>1, Sizes
  <2>4. 0 \in 0 .. Totals
    BY Sizes
  <2>. QED  BY <2>1, <2>2, <2>3, <2>4 DEF Advance
<1>15. ASSUME NEW value \in LogValue, row <= UsersCount PROVE Piece(value) \in LogValue
  <2>1. row \in 0 .. UsersCount /\ column \in 0 .. Totals /\ total \in Nat
    BY <1>15 DEF Typed
  <2>2. row = 0 \/ row \in User
    BY <2>1, Sizes
  <2>3. CASE row = 0
    BY <2>1, <2>3 DEF Piece, WriteName, LogValue
  <2>4. CASE row > 0 /\ column = 0
    <3>1. row # 0 /\ column \notin Problem /\ column # Totals
      BY <2>1, <2>4, Sizes
    <3>2. Piece(value) = <<"name", name[row]>>
      BY <2>4, <3>1 DEF Piece, WriteName, IsCell
    <3>. QED  BY <2>2, <2>4, <3>2 DEF LogValue
  <2>5. CASE row > 0 /\ column \in Problem
    <3>1. column # 0 /\ column # Totals /\ row # 0
      BY <2>1, <2>5, Sizes
    <3>. QED  BY <1>15, <2>5, <3>1 DEF Piece, WriteName, IsCell
  <2>6. CASE row > 0 /\ column = Totals
    <3>1. column # 0 /\ column \notin Problem /\ row # 0
      BY <2>6, Sizes
    <3>. QED  BY <2>1, <2>6, <3>1 DEF Piece, WriteName, IsCell, LogValue
  <2>. QED  BY <2>1, <2>2, <2>3, <2>4, <2>5, <2>6, Sizes
<1>21. /\ \A v \in LogValue :
            /\ [file EXCEPT !.results = Append(@, v)]
                 \in [results : Seq(LogValue), trace : Seq(TraceEntry), scores : Seq(LogValue)]
            /\ [file EXCEPT !.scores = Append(@, v)]
                 \in [results : Seq(LogValue), trace : Seq(TraceEntry), scores : Seq(LogValue)]
  <2>1. file \in [results : Seq(LogValue), trace : Seq(TraceEntry), scores : Seq(LogValue)]
    BY DEF Typed
  <2>2. \A S : \A s \in Seq(S), v \in S : Append(s, v) \in Seq(S)
    OBVIOUS
  <2>. QED  BY <2>1, <2>2
<1>22. \A e \in TraceEntry :
         [file EXCEPT !.trace = Append(IF pen = "who" THEN @ ELSE Front(@), e)]
           \in [results : Seq(LogValue), trace : Seq(TraceEntry), scores : Seq(LogValue)]
  <2>1. file \in [results : Seq(LogValue), trace : Seq(TraceEntry), scores : Seq(LogValue)]
    BY DEF Typed
  <2>2. ASSUME NEW s \in Seq(TraceEntry), NEW e \in TraceEntry
        PROVE  Append(IF pen = "who" THEN s ELSE Front(s), e) \in Seq(TraceEntry)
    <3>1. Front(s) \in Seq(TraceEntry)
      <4>1. Len(s) \in Nat /\ \A i \in 1 .. Len(s) - 1 : s[i] \in TraceEntry
        OBVIOUS
      <4>. QED  BY <4>1 DEF Front
    <3>. QED  BY <3>1
  <2>. QED  BY <2>1, <2>2
<1>16. CASE WriteResults
  <2>1. /\ pc' = "report" /\ pen' = "scores" /\ row <= UsersCount
        /\ file' = [file EXCEPT !.results = Append(@, Piece(WrCell(Shown.mark)))]
        /\ UNCHANGED <<runs, wish, available, opened, present, table, started, marks, failed,
                       row, column, at, total, own, runner, past>>
    BY <1>16 DEF WriteResults
  <2>2. Piece(WrCell(Shown.mark)) \in LogValue
    <3>1. WrCell(Shown.mark) \in LogValue
      BY ShownType DEF LogValue, WrCell
    <3>. QED  BY <1>15, <2>1, <3>1
  <2>3. file' \in [results : Seq(LogValue), trace : Seq(TraceEntry), scores : Seq(LogValue)]
    BY <1>21, <2>1, <2>2
  <2>. QED  BY <1>1, <2>1, <2>3 DEF Typed
<1>17. CASE WriteScores
  <2>1. /\ pc' = "report" /\ pen' \in {"who", "results"} /\ row <= UsersCount
        /\ file' = [file EXCEPT !.scores = Append(@, Piece(WrNumber(Shown.score)))]
        /\ (pen' = "who" /\ UNCHANGED <<row, column>>) \/ (pen' = "results" /\ Advance)
        /\ total' = NextTotal
        /\ UNCHANGED <<runs, wish, available, opened, present, table, started, marks, failed,
                       at, own, runner, past>>
    BY <1>17 DEF WriteScores, Typed
  <2>2. Piece(WrNumber(Shown.score)) \in LogValue
    <3>1. WrNumber(Shown.score) \in LogValue
      BY ShownType DEF LogValue, WrNumber
    <3>. QED  BY <1>15, <2>1, <3>1
  <2>3. file' \in [results : Seq(LogValue), trace : Seq(TraceEntry), scores : Seq(LogValue)]
    BY <1>21, <2>1, <2>2
  <2>4. total' \in Nat
    <3>1. total \in Nat /\ Shown.score \in Nat
      BY ShownType DEF Typed
    <3>2. total + Shown.score \in Nat
      BY <3>1
    <3>. QED  BY <2>1, <3>1, <3>2 DEF NextTotal
  <2>5. /\ row' \in 0 .. UsersCount + 1 /\ column' \in 0 .. Totals
        /\ pen' # "results" => row' <= UsersCount
    BY <1>14, <2>1 DEF Typed
  <2>6. pen' \in {"results", "scores"} \cup DOMAIN UpTo
    BY <2>1, Pens
  <2>. QED  BY <1>1, <2>1, <2>3, <2>4, <2>5, <2>6 DEF Typed
<1>18. CASE WriteTrace
  <2>1. /\ pc = "report" /\ pc' = "report" /\ pen \in DOMAIN UpTo /\ pen' = NextPen[pen]
        /\ IF pen = "scored" THEN at' = at + 1 /\ Advance ELSE UNCHANGED <<at, row, column>>
        /\ file' = [file EXCEPT !.trace = Append(IF pen = "who" THEN @ ELSE Front(@), Begun(Entry(at), pen))]
        /\ UNCHANGED <<runs, wish, available, opened, present, table, started, marks, failed,
                       total, own, runner, past>>
    BY <1>18 DEF WriteTrace
  <2>2. at \in DOMAIN table
    BY <2>1, AtIsHere DEF Cursors
  <2>3. file' \in [results : Seq(LogValue), trace : Seq(TraceEntry), scores : Seq(LogValue)]
    <3>1. Begun(Entry(at), pen) \in TraceEntry
      BY <2>1, <2>2, EntryType DEF TraceEntry
    <3>. QED  BY <1>22, <2>1, <3>1
  <2>4. row' \in 0 .. UsersCount + 1 /\ column' \in 0 .. Totals
    BY <1>14, <2>1 DEF Typed
  <2>5. at' \in Nat \ {0}
    <3>1. at \in Nat \ {0}
      BY DEF Typed
    <3>. QED  BY <2>1, <3>1
  <2>6. pen' \in {"results", "scores"} \cup DOMAIN UpTo /\ (pen' # "results" => row' <= UsersCount)
    <3>1. pen # "results" /\ row <= UsersCount
      BY <2>1, Pens DEF Typed
    <3>. QED  BY <2>1, <3>1, Pens
  <2>. QED  BY <1>1, <2>1, <2>3, <2>4, <2>5, <2>6 DEF Typed
<1>19. ASSUME NEW r \in DOMAIN runner, RunnerStep(r) \/ RunnerDies(r) PROVE Typed'
  <2>1. UNCHANGED <<runs, pc, judge, file, shared>> /\ cut' \subseteq Nat
    <3>1. RunnerDies(r) => UNCHANGED <<runs, pc, judge, file, shared>> /\ cut' \subseteq Nat
      <4>1. cut \subseteq Nat /\ r[2] \in Nat
        BY <1>2 DEF Typed
      <4>. QED  BY <4>1, OneEnds
    <3>2. cut \subseteq Nat
      BY DEF Typed
    <3>. QED  BY <1>19, <3>1, <3>2, RunnersAlone
  <2>2. ASSUME NEW state \in {"open", "log", "pipe", "gone"}
        PROVE  /\ DOMAIN StateOf(r, state) = DOMAIN runner
               /\ StateOf(r, state) \in [DOMAIN runner -> RunnerValue]
    <3>1. runner \in [DOMAIN runner -> RunnerValue]
      BY DEF Typed
    <3>. QED  BY <3>1 DEF StateOf, RunnerValue
  <2>3. CASE RunnerOpens(r)
    <3>1. own' \in [Submission -> Seq(Mark \cup {Nul})]
      <4>1. <<>> \in Seq(Mark \cup {Nul})
        OBVIOUS
      <4>. QED  BY <1>2, <2>3, <4>1 DEF RunnerOpens, Typed
    <3>2. runner' = StateOf(r, "log")
      BY <2>3 DEF RunnerOpens
    <3>. QED  BY <1>1, <2>1, <2>2, <3>1, <3>2 DEF Typed
  <2>4. CASE RunnerMarks(r)
    <3>1. PICK mark, sent :
            /\ mark \in Earned(r) /\ sent = Append(runner[r].marks, mark)
            /\ own' = [own EXCEPT ![FileOf(runner[r].cell)] = WriteAt(@, Len(sent), mark)]
            /\ runner' = Further(r, sent, "pipe")
      BY <2>4, Zenon DEF RunnerMarks
    <3>2. mark \in Mark
      <4>1. CASE mark \in Spoiled
        BY <4>1, SessionAssumption
      <4>2. CASE mark = Deserved(runner[r].cell)[Len(runner[r].marks) + 1]
        <5>1. Len(runner[r].marks) < Len(Deserved(runner[r].cell)) /\ Len(runner[r].marks) \in Nat
          BY <1>2, <2>4 DEF Marked, OnTheWay, RunnerMarks
        <5>2. Deserved(runner[r].cell) \in Seq(Mark)
          BY <1>2, DeservedType DEF Typed
        <5>. QED  BY <4>2, <5>1, <5>2
      <4>. QED  BY <3>1, <4>1, <4>2 DEF Earned
    <3>3. sent \in Seq(Mark) /\ Len(sent) \in Nat \ {0}
      BY <1>2, <3>1, <3>2
    <3>4. \A text \in Seq(Mark \cup {Nul}) : WriteAt(text, Len(sent), mark) \in Seq(Mark \cup {Nul})
      <4>. TAKE text \in Seq(Mark \cup {Nul})
      <4>. DEFINE m == Max({Len(sent), Len(text)})
      <4>1. Len(text) \in Nat /\ DOMAIN text = 1 .. Len(text)
        OBVIOUS
      <4>2. m \in Nat
        BY <3>3, <4>1 DEF Max
      <4>3. [i \in 1 .. m |-> IF i = Len(sent) THEN mark ELSE IF i <= Len(text) THEN text[i] ELSE Nul]
            \in [1 .. m -> Mark \cup {Nul}]
        BY <3>2, <4>1
      <4>4. \A n \in Nat : \A S : [1 .. n -> S] \subseteq Seq(S)
        BY SeqDef
      <4>5. WriteAt(text, Len(sent), mark) =
              [i \in 1 .. m |-> IF i = Len(sent) THEN mark ELSE IF i <= Len(text) THEN text[i] ELSE Nul]
        BY DEF WriteAt
      <4>. HIDE DEF m
      <4>. QED  BY <4>2, <4>3, <4>4, <4>5
    <3>5. own' \in [Submission -> Seq(Mark \cup {Nul})]
      BY <1>2, <3>1, <3>4 DEF Typed
    <3>6. DOMAIN runner' = DOMAIN runner /\ runner' \in [DOMAIN runner -> RunnerValue]
      BY <3>1, <3>3, FurtherType
    <3>. QED  BY <1>1, <2>1, <3>5, <3>6 DEF Typed
  <2>5. CASE RunnerSends(r)
    <3>1. \/ runner' = StateOf(r, "log") \/ runner' = StateOf(r, "gone")
          \/ runner' = Restrict(runner, OthersOf(r))
      BY <2>5 DEF RunnerSends, Leaves
    <3>2. DOMAIN runner' \subseteq RunnerId /\ runner' \in [DOMAIN runner' -> RunnerValue]
      <4>1. CASE runner' = Restrict(runner, OthersOf(r))
        BY <1>0, <4>1 DEF OthersOf
      <4>2. CASE runner' = StateOf(r, "log") \/ runner' = StateOf(r, "gone")
        <5>1. DOMAIN runner \subseteq RunnerId
          BY DEF Typed
        <5>. QED  BY <2>2, <4>2, <5>1
      <4>. QED  BY <3>1, <4>1, <4>2
    <3>3. own' = own
      BY <2>5 DEF RunnerSends
    <3>. QED  BY <1>1, <2>1, <3>2, <3>3 DEF Typed
  <2>6. CASE RunnerDies(r)
    <3>1. CASE runner' = Restrict(runner, OthersOf(r))
      <4>1. DOMAIN runner' \subseteq RunnerId /\ runner' \in [DOMAIN runner' -> RunnerValue]
        BY <1>0, <3>1 DEF OthersOf
      <4>2. own' = own
        BY <2>6, OneEnds
      <4>. QED  BY <1>1, <2>1, <4>1, <4>2 DEF Typed
    <3>2. CASE runner' = Further(r, InPipe(r), "gone")
      <4>1. InPipe(r) \in Seq(Mark)
        <5>1. \A s \in Seq(Mark) : Front(s) \in Seq(Mark)
          BY DEF Front
        <5>. QED  BY <1>2, <5>1 DEF InPipe
      <4>2. own' = own
        BY <2>6, OneEnds
      <4>3. DOMAIN runner' = DOMAIN runner /\ runner' \in [DOMAIN runner -> RunnerValue]
        BY <3>2, <4>1, FurtherType
      <4>. QED  BY <1>1, <2>1, <4>2, <4>3 DEF Typed
    <3>. QED  BY <2>6, <3>1, <3>2, OneEnds
  <2>. QED  BY <1>19, <2>3, <2>4, <2>5, <2>6 DEF RunnerStep
<1>20. CASE UNCHANGED vars
  BY <1>1, <1>20 DEF vars, Typed
<1>. QED
  BY <1>4, <1>5, <1>6, <1>7, <1>8, <1>9, <1>10, <1>11, <1>12, <1>13, <1>16, <1>17, <1>18, <1>19, <1>20
     DEF Next, JudgeStep, Over

(***************************************************************************)
(* The phases of a judge, and the logs of the one before it.               *)
(***************************************************************************)
LEMMA UnbegunInit == Init => Unbegun
  BY DEF Init, Unbegun

LEMMA UnbegunStep ==
  ASSUME Typed, Unbegun, [Next]_vars
  PROVE  Unbegun'
<1>. USE DEF judge, disk, past
<1>1. runs \in Nat
  BY DEF Typed
<1>2. CASE ContestRefused \/ SandboxRefused \/ LogMissing \/ NoRoom \/ Finish \/ Killed \/ Interrupted
  <2>1. pc' = "shell" /\ Forget
    BY <1>2 DEF ContestRefused, SandboxRefused, LogMissing, NoRoom, Finish, Killed, Interrupted, Return
  <2>. QED  BY <2>1 DEF Forget, Unbegun
<1>3. CASE Begin
  BY <1>1, <1>3 DEF Begin, Unbegun
<1>4. CASE LoadContest \/ AskSandbox \/ OpenLog \/ LogsOpen \/ JobsDone \/ GiveUp
  BY <1>4 DEF LoadContest, AskSandbox, OpenLog, LogsOpen, JobsDone, GiveUp, Unbegun
<1>5. CASE MakeRoom \/ RunJobs
  BY <1>5 DEF MakeRoom, RunJobs, Unbegun
<1>6. CASE Enlist
  <2>1. row \in Int
    BY DEF Typed
  <2>. QED  BY <1>6, <2>1 DEF Enlist, Unbegun
<1>7. CASE StartJob \/ Collect
  BY <1>7 DEF StartJob, Collect, Unbegun
<1>8. CASE WriteResults \/ WriteScores \/ WriteTrace
  <2>1. pc = "report" /\ pc' = "report" /\ runs' = runs
    BY <1>8 DEF WriteResults, WriteScores, WriteTrace, Unbegun
  <2>. QED  BY <2>1 DEF Unbegun
<1>9. ASSUME NEW r \in DOMAIN runner, RunnerStep(r) \/ RunnerDies(r) PROVE Unbegun'
  BY <1>9, RunnersAlone DEF Unbegun
<1>10. CASE UNCHANGED vars
  BY <1>10 DEF vars, Unbegun
<1>. QED
  BY <1>2, <1>3, <1>4, <1>5, <1>6, <1>7, <1>8, <1>9, <1>10 DEF Next, JudgeStep, Over

LEMMA EmptiedInit == Init => Emptied
  BY DEF Init, Emptied

LEMMA EmptiedStep ==
  ASSUME Typed, Emptied, [Next]_vars
  PROVE  Emptied'
<1>. USE DEF judge, disk, past
<1>1. CASE ContestRefused \/ SandboxRefused \/ LogMissing \/ NoRoom \/ Finish \/ Killed \/ Interrupted
  <2>1. pc' = "shell" /\ opened' = <<>>
    BY <1>1 DEF ContestRefused, SandboxRefused, LogMissing, NoRoom, Finish, Killed, Interrupted, Return, Forget
  <2>. QED  BY <2>1 DEF Emptied
<1>2. CASE Begin \/ LoadContest
  BY <1>2 DEF Begin, LoadContest, Emptied
<1>3. CASE AskSandbox
  <2>1. pc' = "open" /\ opened' = <<>> /\ UNCHANGED <<wish, available>> /\ Acceptable
    BY <1>3 DEF AskSandbox, Emptied
  <2>2. Acceptable'
    BY <2>1 DEF Acceptable
  <2>. QED  BY <2>1, <2>2 DEF Emptied
<1>4. CASE OpenLog
  <2>1. PICK could \in BOOLEAN :
          /\ opened' = Append(opened, could)
          /\ file' = IF could THEN [file EXCEPT ![LogFile[Len(opened')]] = <<>>] ELSE file
    BY <1>4 DEF OpenLog
  <2>2. pc = "open" /\ pc' = "open" /\ UNCHANGED <<wish, available>> /\ Len(opened) < 3
    BY <1>4 DEF OpenLog, LogFile
  <2>3. Acceptable'
    BY <2>2 DEF Acceptable, Emptied
  <2>4. /\ opened \in Seq(BOOLEAN) /\ Len(opened) \in Nat /\ DOMAIN opened = 1 .. Len(opened)
        /\ DOMAIN file = {"results", "trace", "scores"}
    BY DEF Typed
  <2>5. Len(opened') = Len(opened) + 1 /\ \A i \in DOMAIN opened : opened'[i] = opened[i]
    BY <2>1, <2>4
  <2>6. opened'[Len(opened')] = could /\ DOMAIN opened' = 1 .. Len(opened')
    BY <2>1, <2>4
  <2>7. \A i \in 1 .. Len(opened') : LogFile[i] \in DOMAIN file /\ (i # Len(opened') => LogFile[i] # LogFile[Len(opened')])
    <3>1. LogFile[1] = "results" /\ LogFile[2] = "trace" /\ LogFile[3] = "scores"
      BY DEF LogFile
    <3>2. \A i \in 1 .. Len(opened') : i = 1 \/ i = 2 \/ i = 3
      BY <2>2, <2>4, <2>5
    <3>3. Len(opened') \in 1 .. Len(opened')
      BY <2>4, <2>5
    <3>. QED  BY <2>4, <3>1, <3>2, <3>3
  <2>8. ASSUME NEW i \in DOMAIN opened', opened'[i] = TRUE PROVE file'[LogFile[i]] = <<>>
    <3>1. CASE i = Len(opened')
      <4>1. could = TRUE
        BY <2>6, <2>8, <3>1
      <4>2. file' = [file EXCEPT ![LogFile[Len(opened')]] = <<>>]
        BY <2>1, <4>1
      <4>3. LogFile[i] \in DOMAIN file /\ LogFile[i] = LogFile[Len(opened')]
        BY <2>6, <2>7, <2>8, <3>1, Zenon
      <4>4. \A f \in DOMAIN file : [file EXCEPT ![f] = <<>>][f] = <<>>
        OBVIOUS
      <4>. QED  BY <4>2, <4>3, <4>4, Zenon
    <3>2. CASE i # Len(opened')
      <4>1. i \in DOMAIN opened
        BY <2>4, <2>5, <2>6, <2>8, <3>2
      <4>2. opened[i] = TRUE
        BY <2>5, <2>8, <4>1, Zenon
      <4>3. file[LogFile[i]] = <<>>
        BY <2>2, <4>1, <4>2 DEF Emptied
      <4>4. file'[LogFile[i]] = file[LogFile[i]]
        BY <2>1, <2>6, <2>7, <2>8, <3>2
      <4>. QED  BY <4>3, <4>4
    <3>. QED  BY <3>1, <3>2
  <2>. QED  BY <2>2, <2>3, <2>8 DEF Emptied
<1>5. CASE LogsOpen
  <2>1. /\ pc = "open" /\ pc' = "room" /\ UNCHANGED <<wish, available, file>>
        /\ opened = <<TRUE, TRUE, TRUE>>
    BY <1>5 DEF LogsOpen
  <2>2. Acceptable'
    BY <2>1 DEF Acceptable, Emptied
  <2>3. \A i \in 1 .. 3 : i \in DOMAIN opened /\ opened[i] = TRUE
    <3>1. opened[1] = TRUE /\ opened[2] = TRUE /\ opened[3] = TRUE
      BY <2>1, Zenon
    <3>2. DOMAIN opened = 1 .. 3
      <4>1. \A a, b, c : DOMAIN <<a, b, c>> = 1 .. 3
        OBVIOUS
      <4>. QED  BY <2>1, <4>1, Zenon
    <3>3. \A i \in 1 .. 3 : i = 1 \/ i = 2 \/ i = 3
      OBVIOUS
    <3>. QED  BY <3>1, <3>2, <3>3, Zenon
  <2>4. \A i \in 1 .. 3 : file[LogFile[i]] = <<>>
    BY <2>1, <2>3 DEF Emptied
  <2>5. 1 \in 1 .. 3 /\ 2 \in 1 .. 3 /\ 3 \in 1 .. 3
    OBVIOUS
  <2>6. file.results = <<>> /\ file.trace = <<>> /\ file.scores = <<>>
    BY <2>4, <2>5 DEF LogFile
  <2>. QED  BY <2>1, <2>2, <2>6 DEF Emptied
<1>6. ASSUME pc \in {"room", "enlist", "jobs"}, pc' \in {"room", "enlist", "jobs", "report"},
             UNCHANGED <<wish, available, file>>
      PROVE  Emptied'
  <2>1. Acceptable'
    BY <1>6 DEF Acceptable, Emptied
  <2>. QED  BY <1>6, <2>1 DEF Emptied
<1>7. CASE MakeRoom \/ Enlist \/ RunJobs \/ StartJob \/ Collect \/ JobsDone \/ GiveUp
  BY <1>6, <1>7 DEF MakeRoom, Enlist, RunJobs, StartJob, Collect, JobsDone, GiveUp
<1>8. CASE WriteResults \/ WriteScores \/ WriteTrace
  <2>1. pc = "report" /\ pc' = "report" /\ UNCHANGED <<wish, available>>
    BY <1>8 DEF WriteResults, WriteScores, WriteTrace, Emptied
  <2>2. Acceptable'
    BY <2>1 DEF Acceptable, Emptied
  <2>. QED  BY <2>1, <2>2 DEF Emptied
<1>9. ASSUME UNCHANGED <<pc, wish, available, opened, file>> PROVE Emptied'
  BY <1>9 DEF Emptied, Acceptable
<1>10. ASSUME NEW r \in DOMAIN runner, RunnerStep(r) \/ RunnerDies(r) PROVE Emptied'
  BY <1>9, <1>10, RunnersAlone
<1>11. CASE UNCHANGED vars
  BY <1>9, <1>11 DEF vars
<1>. QED
  BY <1>1, <1>2, <1>3, <1>4, <1>5, <1>7, <1>8, <1>10, <1>11 DEF Next, JudgeStep, Over

(***************************************************************************)
(* The table of jobs and main's counter.                                   *)
(***************************************************************************)
LEMMA ListedInit == Init => Listed
  BY DEF Init, Listed

LEMMA ListedStep ==
  ASSUME Typed, Unbegun, Listed, [Next]_vars
  PROVE  Listed'
<1>. USE DEF judge, disk, past
<1>1. CASE ContestRefused \/ SandboxRefused \/ LogMissing \/ NoRoom \/ Finish \/ Killed \/ Interrupted
  <2>1. pc' = "shell" /\ present' = {} /\ table' = <<>>
    BY <1>1 DEF ContestRefused, SandboxRefused, LogMissing, NoRoom, Finish, Killed, Interrupted, Return, Forget
  <2>. QED  BY <2>1 DEF Listed
<1>2. ASSUME UNCHANGED <<present, table>>, pc' # "enlist" \/ UNCHANGED <<pc, row>> PROVE Listed'
  BY <1>2 DEF Listed
<1>3. CASE Begin \/ LoadContest \/ AskSandbox \/ OpenLog \/ LogsOpen
  BY <1>2, <1>3 DEF Begin, LoadContest, AskSandbox, OpenLog, LogsOpen
<1>4. CASE RunJobs \/ StartJob \/ Collect \/ JobsDone \/ GiveUp
  BY <1>2, <1>4 DEF RunJobs, StartJob, Collect, JobsDone, GiveUp
<1>5. CASE WriteResults \/ WriteScores \/ WriteTrace
  <2>1. pc' = "report" /\ UNCHANGED <<present, table>>
    BY <1>5 DEF WriteResults, WriteScores, WriteTrace
  <2>. QED  BY <1>2, <2>1
<1>6. ASSUME NEW r \in DOMAIN runner, RunnerStep(r) \/ RunnerDies(r) PROVE Listed'
  BY <1>2, <1>6, RunnersAlone
<1>7. CASE MakeRoom
  <2>1. present = {} /\ table = <<>> /\ UNCHANGED <<present, table>>
    BY <1>7 DEF MakeRoom, Unbegun
  <2>. QED  BY <2>1 DEF Listed
<1>8. CASE Enlist
  <2>1. /\ pc = "enlist" /\ row' = row + 1 /\ row \in Nat
        /\ \A u \in present : u < row /\ u \in Nat
        /\ present \subseteq User /\ table \in Seq(Cell)
        /\ \A i \in DOMAIN table : table[i][1] \in present
    <3>1. /\ pc = "enlist" /\ row' = row + 1
          /\ present \subseteq User /\ table \in Seq(Cell) /\ row \in Nat
      BY <1>8 DEF Enlist, Typed
    <3>2. (\A u \in present : u < row) /\ \A i \in DOMAIN table : table[i][1] \in present
      BY <3>1 DEF Listed
    <3>3. User \subseteq Nat
      BY Sizes
    <3>. QED  BY <3>1, <3>2, <3>3
  <2>2. CASE UNCHANGED <<present, table>>
    BY <2>1, <2>2 DEF Listed
  <2>3. CASE present' = present \cup {row} /\ table' = table \o Row(row)
    <3>1. row \in User
      BY <1>8, Sizes DEF Enlist, Unbegun, Typed
    <3>2. Row(row) \in Seq(Cell) /\ Len(Row(row)) = ProblemsCount /\ \A p \in Problem : Row(row)[p] = <<row, p>>
      BY <3>1, Sizes DEF Row, Cell
    <3>3. /\ \A j \in 1 .. Len(table) : j \in DOMAIN table' /\ table'[j] = table[j]
          /\ \A p \in Problem : Len(table) + p \in DOMAIN table' /\ table'[Len(table) + p] = <<row, p>>
          /\ \A j \in DOMAIN table' : j \in 1 .. Len(table) \/ \E p \in Problem : j = Len(table) + p
      <4>1. table \in Seq(Cell) /\ Row(row) \in Seq(Cell)
        BY <2>1, <3>2
      <4>2. \A j \in 1 .. Len(table) : j \in DOMAIN table' /\ table'[j] = table[j]
        BY <2>3, <4>1
      <4>3. \A p \in 1 .. Len(Row(row)) : Len(table) + p \in DOMAIN table' /\ table'[Len(table) + p] = Row(row)[p]
        BY <2>3, <4>1
      <4>4. DOMAIN table' = 1 .. Len(table) + ProblemsCount /\ Len(table) \in Nat
        BY <2>3, <3>2, <4>1
      <4>5. \A j \in DOMAIN table' : j \in 1 .. Len(table) \/ \E p \in Problem : j = Len(table) + p
        <5>. SUFFICES ASSUME NEW j \in DOMAIN table', ~(j \in 1 .. Len(table)) PROVE \E p \in Problem : j = Len(table) + p
          OBVIOUS
        <5>1. j - Len(table) \in Problem /\ j = Len(table) + (j - Len(table))
          BY <4>4, Sizes
        <5>. QED  BY <5>1
      <4>. QED  BY <3>2, <4>2, <4>3, <4>5, Sizes
    <3>4. DOMAIN table = 1 .. Len(table) /\ Len(table) \in Nat /\ Problem \subseteq Nat \ {0}
      BY <2>1, Sizes
    <3>5. ASSUME NEW i \in DOMAIN table', NEW j \in DOMAIN table', i < j
          PROVE  Precedes(table'[i], table'[j])
      <4>1. CASE i \in 1 .. Len(table) /\ j \in 1 .. Len(table)
        BY <3>3, <3>4, <3>5, <4>1 DEF Listed
      <4>2. ASSUME i \in 1 .. Len(table), NEW p \in Problem, j = Len(table) + p
            PROVE  Precedes(table'[i], table'[j])
        <5>1. table'[i][1] < row
          BY <2>1, <3>3, <3>4, <4>2
        <5>2. table'[j] = <<row, p>>
          BY <3>3, <4>2
        <5>. QED  BY <5>1, <5>2 DEF Precedes
      <4>3. ASSUME NEW p \in Problem, i = Len(table) + p, NEW q \in Problem, j = Len(table) + q
            PROVE  Precedes(table'[i], table'[j])
        <5>1. table'[i] = <<row, p>> /\ table'[j] = <<row, q>>
          BY <3>3, <4>3
        <5>2. p < q
          BY <3>4, <3>5, <4>3
        <5>. QED  BY <5>1, <5>2 DEF Precedes
      <4>4. ASSUME NEW p \in Problem, i = Len(table) + p, j \in 1 .. Len(table) PROVE FALSE
        BY <3>4, <3>5, <4>4
      <4>. QED  BY <3>3, <4>1, <4>2, <4>3, <4>4
    <3>6. \A i \in DOMAIN table' : table'[i][1] \in present'
      BY <2>1, <2>3, <3>3, <3>4
    <3>7. \A u \in present', p \in Problem : \E i \in DOMAIN table' : table'[i] = <<u, p>>
      <4>. SUFFICES ASSUME NEW u \in present', NEW p \in Problem PROVE \E i \in DOMAIN table' : table'[i] = <<u, p>>
        OBVIOUS
      <4>1. CASE u = row
        BY <3>3, <4>1
      <4>2. CASE u \in present
        <5>1. PICK i \in DOMAIN table : table[i] = <<u, p>>
          BY <4>2 DEF Listed
        <5>. QED  BY <3>3, <3>4, <5>1
      <4>. QED  BY <2>3, <4>1, <4>2
    <3>8. \A u \in present' : u < row'
      BY <2>1, <2>3
    <3>. QED  BY <3>5, <3>6, <3>7, <3>8 DEF Listed
  <2>. QED  BY <1>8, <2>2, <2>3 DEF Enlist
<1>9. CASE UNCHANGED vars
  BY <1>2, <1>9 DEF vars
<1>. QED
  BY <1>1, <1>3, <1>4, <1>5, <1>6, <1>7, <1>8, <1>9 DEF Next, JudgeStep, Over

LEMMA CursorsInit == Init => Cursors
  BY DEF Init, Cursors

(* Where the cursors go next, and which cells that leaves behind.          *)
LEMMA AdvanceEnds ==
  ASSUME Typed, Advance, row <= UsersCount
  PROVE  row' = UsersCount + 1 => column' = 0
<1>1. row # UsersCount + 1
  BY Sizes
<1>. QED  BY <1>1 DEF Advance

LEMMA AdvancePasses ==
  ASSUME Typed, Advance, row <= UsersCount, NEW c \in Cell
  PROVE  Precedes(c, <<row', column'>>) <=> Precedes(c, <<row, column>>) \/ c = <<row, column>>
<1>1. /\ row \in Nat /\ column \in 0 .. Totals
      /\ c[1] \in Nat /\ c[2] \in 1 .. Totals - 1 /\ c = <<c[1], c[2]>>
  <2>1. c[1] \in Nat /\ c[2] \in 1 .. Totals - 1 /\ c = <<c[1], c[2]>>
    BY CellParts, Sizes
  <2>2. row \in Nat /\ column \in 0 .. Totals
    BY DEF Typed
  <2>. QED  BY <2>1, <2>2
<1>2. Totals \in Nat /\ UsersCount \in Nat
  BY Sizes
<1>3. CASE column < Totals
  <2>1. row' = row /\ column' = column + 1
    BY <1>3 DEF Advance
  <2>. QED  BY <1>1, <1>2, <2>1 DEF Precedes
<1>4. CASE ~(column < Totals)
  <2>1. row' = row + 1 /\ column' = 0 /\ column = Totals
    BY <1>1, <1>2, <1>4 DEF Advance
  <2>. QED  BY <1>1, <1>2, <2>1 DEF Precedes
<1>. QED  BY <1>3, <1>4

LEMMA CursorsStep ==
  ASSUME Typed, Unbegun, Listed, Cursors, [Next]_vars
  PROVE  Cursors'
<1>. USE DEF judge, disk, past
<1>1. CASE ContestRefused \/ SandboxRefused \/ LogMissing \/ NoRoom \/ Finish \/ Killed \/ Interrupted
  <2>1. pc' = "shell"
    BY <1>1 DEF ContestRefused, SandboxRefused, LogMissing, NoRoom, Finish, Killed, Interrupted, Return
  <2>. QED  BY <2>1 DEF Cursors
<1>2. CASE Begin \/ LoadContest \/ AskSandbox \/ OpenLog \/ LogsOpen \/ MakeRoom \/ Enlist \/ RunJobs
  BY <1>2 DEF Begin, LoadContest, AskSandbox, OpenLog, LogsOpen, MakeRoom, Enlist, RunJobs, Cursors
<1>3. CASE StartJob \/ Collect
  BY <1>3 DEF StartJob, Collect, Cursors
<1>4. DOMAIN table = 1 .. Len(table) /\ Len(table) \in Nat /\ \A i \in DOMAIN table : table[i] \in Cell
  BY DEF Typed
<1>12. "results" \notin DOMAIN UpTo /\ "scores" \notin DOMAIN UpTo
  BY Pens
<1>5. CASE JobsDone \/ GiveUp
  <2>1. /\ pc' = "report" /\ row' = 0 /\ column' = 0 /\ pen' = "results" /\ at' = 1
        /\ table' = table
    BY <1>5 DEF JobsDone, GiveUp, Unbegun
  <2>2. \A i \in DOMAIN table : ~(i < 1) /\ ~Precedes(table[i], <<0, 0>>)
    <3>1. \A c \in Cell : c[1] \in Nat \ {0}
      BY CellParts, Sizes
    <3>. QED  BY <1>4, <3>1 DEF Precedes
  <2>3. row' # UsersCount + 1
    BY <2>1, Sizes
  <2>. QED  BY <1>4, <1>12, <2>1, <2>2, <2>3 DEF Cursors
<1>6. CASE WriteResults
  <2>1. pc = "report" /\ pen' = "scores" /\ UNCHANGED <<table, row, column, at>>
    BY <1>6 DEF WriteResults
  <2>. QED  BY <1>12, <2>1 DEF Cursors
<1>7. CASE WriteScores
  <2>1. /\ pc = "report" /\ UNCHANGED <<table, at, present>> /\ row <= UsersCount
        /\ pen = "scores"
    BY <1>7 DEF WriteScores, Typed
  <2>2. CASE IsJob
    <3>1. pen' = "who" /\ UNCHANGED <<row, column>>
      BY <1>7, <2>2 DEF WriteScores
    <3>2. IsJob'
      BY <2>1, <2>2, <3>1 DEF IsJob, IsCell
    <3>. QED  BY <2>1, <3>1, <3>2 DEF Cursors
  <2>3. CASE ~IsJob
    <3>1. pen' = "results" /\ Advance
      BY <1>7, <2>3 DEF WriteScores
    <3>2. \A i \in DOMAIN table : table[i] # <<row, column>>
      <4>. SUFFICES ASSUME NEW i \in DOMAIN table, table[i] = <<row, column>> PROVE FALSE
        OBVIOUS
      <4>1. row \in present /\ row > 0 /\ column \in Problem
        BY <1>4, CellParts, Sizes DEF Listed
      <4>. QED  BY <2>3, <4>1 DEF IsJob, IsCell
    <3>3. \A i \in DOMAIN table : Precedes(table[i], <<row', column'>>) <=> Precedes(table[i], <<row, column>>)
      BY <1>4, <2>1, <3>1, <3>2, AdvancePasses
    <3>4. row' = UsersCount + 1 => column' = 0
      BY <2>1, <3>1, AdvanceEnds
    <3>. QED  BY <1>12, <2>1, <3>1, <3>3, <3>4 DEF Cursors
  <2>. QED  BY <2>2, <2>3
<1>13. CASE WriteTrace /\ pen # "scored"
  <2>1. pc = "report" /\ UNCHANGED <<at, row, column, table, present>> /\ pen \in DOMAIN UpTo
    BY <1>13 DEF WriteTrace
  <2>2. IsJob'
    BY <2>1 DEF IsJob, IsCell, Cursors
  <2>. QED  BY <2>1, <2>2 DEF Cursors
<1>8. CASE WriteTrace /\ pen = "scored"
  <2>1. /\ pc = "report" /\ pen \in DOMAIN UpTo /\ pen' = "results" /\ at' = at + 1 /\ Advance
        /\ UNCHANGED table
    BY <1>8, Pens DEF WriteTrace
  <2>2. IsJob /\ row <= UsersCount /\ at \in Nat
    BY <2>1, Pens DEF Cursors, Typed
  <2>3. at \in DOMAIN table /\ \A i \in DOMAIN table : table[i] = <<row, column>> <=> i = at
    BY <2>1, <2>2, AtIsHere
  <2>4. \A i \in DOMAIN table :
          Precedes(table[i], <<row', column'>>) <=> Precedes(table[i], <<row, column>>) \/ i = at
    BY <1>4, <2>1, <2>2, <2>3, AdvancePasses
  <2>5. \A i \in DOMAIN table : i < at + 1 <=> i < at \/ i = at
    BY <1>4, <2>2
  <2>6. at + 1 <= Len(table) + 1
    BY <1>4, <2>2, <2>3
  <2>7. row' = UsersCount + 1 => column' = 0
    BY <2>1, <2>2, AdvanceEnds
  <2>. QED  BY <1>12, <2>1, <2>4, <2>5, <2>6, <2>7 DEF Cursors
<1>9. ASSUME UNCHANGED <<pc, pen, row, column, at, table, present>> PROVE Cursors'
  BY <1>9 DEF Cursors, IsJob, IsCell
<1>10. ASSUME NEW r \in DOMAIN runner, RunnerStep(r) \/ RunnerDies(r) PROVE Cursors'
  BY <1>9, <1>10, RunnersAlone
<1>11. CASE UNCHANGED vars
  BY <1>9, <1>11 DEF vars
<1>. QED
  BY <1>1, <1>2, <1>3, <1>5, <1>6, <1>7, <1>8, <1>10, <1>11, <1>13 DEF Next, JudgeStep, Over

(***************************************************************************)
(* The runners.                                                            *)
(***************************************************************************)
LEMMA OursInit == Init => Ours
<1>1. DOMAIN <<>> = {}
  OBVIOUS
<1>. QED  BY <1>1 DEF Init, Ours, Own

(* A runner's step takes it away or changes that runner alone, its cell    *)
(* aside.                                                                  *)
LEMMA OneRunner ==
  ASSUME Typed, NEW r \in DOMAIN runner, RunnerStep(r) \/ RunnerDies(r)
  PROVE  /\ UNCHANGED <<name, runs, pc, judge, file, shared>>
         /\ DOMAIN runner' \subseteq DOMAIN runner
         /\ \A q \in DOMAIN runner' : runner'[q].cell = runner[q].cell /\ (q # r => runner'[q] = runner[q])
         /\ r \in DOMAIN runner' => (runner'[r].state = "gone" => pc # "shell" /\ r[1] = runs)
         /\ IsOut(r)
         /\ \/ cut' = cut
            \/ pc # "shell" /\ r[1] = runs /\ cut' = cut \cup {r[2]} /\ runner'[r].state = "gone"
<1>. DEFINE Same == /\ DOMAIN runner' \subseteq DOMAIN runner
                    /\ \A q \in DOMAIN runner' : runner'[q].cell = runner[q].cell /\ (q # r => runner'[q] = runner[q])
                    /\ r \in DOMAIN runner' => (runner'[r].state = "gone" => pc # "shell" /\ r[1] = runs)
<1>1. runner \in [DOMAIN runner -> RunnerValue]
  BY DEF Typed
<1>2. UNCHANGED <<name, runs, pc, judge, file, shared>> /\ IsOut(r)
  BY RunnersAlone
<1>3. ASSUME runner' = Restrict(runner, OthersOf(r)) PROVE Same
  BY <1>3 DEF Restrict, OthersOf
<1>4. \A state : runner' = StateOf(r, state) /\ (state = "gone" => pc # "shell" /\ r[1] = runs) => Same
  <2>. TAKE state
  <2>. SUFFICES ASSUME runner' = StateOf(r, state), state = "gone" => pc # "shell" /\ r[1] = runs PROVE Same
    OBVIOUS
  <2>. QED  BY <1>1 DEF StateOf, RunnerValue
<1>. HIDE DEF Same
<1>10. \A sent, state : runner' = Further(r, sent, state) /\ (state = "gone" => pc # "shell" /\ r[1] = runs)
         => Same /\ runner'[r].state = state
  <2>. TAKE sent, state
  <2>. SUFFICES ASSUME runner' = Further(r, sent, state), state = "gone" => pc # "shell" /\ r[1] = runs
                PROVE  Same /\ runner'[r].state = state
    OBVIOUS
  <2>3. /\ DOMAIN Further(r, sent, state) = DOMAIN runner
        /\ Further(r, sent, state)[r].cell = runner[r].cell /\ Further(r, sent, state)[r].state = state
        /\ \A q \in DOMAIN runner \ {r} : Further(r, sent, state)[q] = runner[q]
    BY FurtherIs
  <2>1. /\ DOMAIN runner' = DOMAIN runner
        /\ runner'[r].cell = runner[r].cell /\ runner'[r].state = state
        /\ \A q \in DOMAIN runner \ {r} : runner'[q] = runner[q]
    BY <2>3, Zenon
  <2>2. \A q \in DOMAIN runner' : runner'[q].cell = runner[q].cell /\ (q # r => runner'[q] = runner[q])
    BY <2>1, Zenon
  <2>. QED  BY <2>1, <2>2, Zenon DEF Same
<1>5. ASSUME RunnerOpens(r) PROVE Same
  <2>1. runner' = StateOf(r, "log")
    BY <1>5 DEF RunnerOpens
  <2>. QED  BY <1>4, <2>1
<1>6. ASSUME RunnerMarks(r) PROVE Same
  <2>1. PICK sent : runner' = Further(r, sent, "pipe")
    BY <1>6, Zenon DEF RunnerMarks
  <2>2. "pipe" # "gone"
    OBVIOUS
  <2>. QED  BY <1>10, <2>1, <2>2, Zenon
<1>7. ASSUME RunnerSends(r) PROVE Same
  <2>1. CASE runner' = StateOf(r, "log")
    BY <1>4, <2>1
  <2>2. CASE Leaves(r)
    <3>1. CASE pc # "shell" /\ r[1] = runs
      <4>1. runner' = StateOf(r, "gone")
        BY <2>2, <3>1 DEF Leaves, Tended
      <4>. QED  BY <1>4, <3>1, <4>1
    <3>2. CASE ~(pc # "shell" /\ r[1] = runs)
      BY <1>3, <2>2, <3>2 DEF Leaves, Tended
    <3>. QED  BY <3>1, <3>2
  <2>. QED  BY <1>7, <2>1, <2>2 DEF RunnerSends
<1>8. ASSUME RunnerDies(r)
      PROVE  /\ Same
             /\ \/ cut' = cut
                \/ pc # "shell" /\ r[1] = runs /\ cut' = cut \cup {r[2]} /\ runner'[r].state = "gone"
  <2>1. CASE runner' = Restrict(runner, OthersOf(r)) /\ cut' = cut
    BY <1>3, <2>1
  <2>2. CASE pc # "shell" /\ r[1] = runs /\ cut' = cut \cup {r[2]} /\ runner' = Further(r, InPipe(r), "gone")
    BY <1>10, <2>2, Zenon
  <2>. QED  BY <1>8, <2>1, <2>2, OneEnds
<1>9. RunnerStep(r) => cut' = cut
  BY RunnersAlone
<1>. QED  BY <1>2, <1>5, <1>6, <1>7, <1>8, <1>9 DEF RunnerStep, Same

LEMMA OwnStep ==
  ASSUME Typed, Own, [Next]_vars
  PROVE  Own'
<1>. USE DEF judge, disk, past
<1>1. /\ runs \in Nat
      /\ \A r \in DOMAIN runner : r[1] \in Nat /\ r[2] \in Nat /\ r = <<r[1], r[2]>>
  BY DEF Typed, RunnerId
<1>2. CASE ContestRefused \/ SandboxRefused \/ LogMissing \/ NoRoom \/ Finish \/ Killed
  <2>1. /\ pc' = "shell" /\ runs' = runs
        /\ runner' = Restrict(runner, {r \in DOMAIN runner : IsOut(r)})
    BY <1>2 DEF ContestRefused, SandboxRefused, LogMissing, NoRoom, Finish, Killed, Return
  <2>2. \A r \in DOMAIN runner' : r \in DOMAIN runner /\ IsOut(r) /\ runner'[r] = runner[r]
    BY <2>1 DEF Restrict
  <2>. QED  BY <2>1, <2>2 DEF Own, IsOut
<1>3. CASE Interrupted
  <2>1. pc' = "shell" /\ runs' = runs /\ runner' = Restrict(runner, DOMAIN runner \ Out)
    BY <1>3 DEF Interrupted
  <2>2. \A r \in DOMAIN runner' : r \in DOMAIN runner /\ r[1] # runs /\ runner'[r] = runner[r]
    BY <2>1 DEF Restrict, Out
  <2>. QED  BY <2>1, <2>2 DEF Own, IsOut
<1>4. CASE Begin
  BY <1>1, <1>4 DEF Begin, Own, IsOut
<1>5. ASSUME UNCHANGED <<runs, runner, started, marks, table>>,
             pc \notin {"shell", "jobs", "report"}, pc' # "shell"
      PROVE  Own'
  BY <1>1, <1>5 DEF Own, IsOut
<1>6. CASE LoadContest \/ AskSandbox \/ OpenLog \/ LogsOpen \/ MakeRoom \/ RunJobs
  BY <1>5, <1>6 DEF LoadContest, AskSandbox, OpenLog, LogsOpen, MakeRoom, RunJobs
<1>7. CASE Enlist
  BY <1>1, <1>7 DEF Enlist, Own, IsOut
<1>8. CASE StartJob
  <2>1. PICK new, value :
          /\ new = <<runs, started + 1>> /\ value = [cell |-> table[started + 1], marks |-> <<>>, state |-> "open"]
          /\ runner' = With(runner, new, value)
          /\ pc = "jobs" /\ pc' = "jobs" /\ started' = started + 1 /\ UNCHANGED <<runs, marks, table>>
    BY <1>8 DEF StartJob
  <2>2. started \in Nat /\ DOMAIN marks \subseteq 1 .. started
    BY DEF Typed
  <2>3. \A r \in DOMAIN runner' : (r = new /\ runner'[r] = value) \/ (r \in DOMAIN runner /\ runner'[r] = runner[r])
    BY <2>1 DEF With
  <2>4. ASSUME NEW r \in DOMAIN runner', r = new, runner'[r] = value
        PROVE  /\ r[1] = runs /\ r[2] = started' /\ r[2] \notin DOMAIN marks
               /\ runner'[r].cell = table[r[2]] /\ runner'[r].state = "open"
    BY <2>1, <2>2, <2>4
  <2>5. ASSUME NEW r \in DOMAIN runner', r \in DOMAIN runner, runner'[r] = runner[r]
        PROVE  /\ r[1] <= runs /\ (r[1] = runs => r[2] <= started' /\ r[2] \notin DOMAIN marks
                                                  /\ runner'[r].cell = table[r[2]])
               /\ runner'[r].state = "gone" => r[1] = runs
    BY <1>1, <2>1, <2>2, <2>5 DEF Own, IsOut
  <2>. QED  BY <1>1, <2>1, <2>3, <2>4, <2>5 DEF Own, IsOut
<1>9. CASE Collect
  <2>1. PICK r \in DOMAIN runner :
          /\ r[1] = runs /\ marks' = With(marks, r[2], runner[r].marks)
          /\ runner' = Restrict(runner, DOMAIN runner \ {r})
          /\ pc = "jobs" /\ pc' = "jobs" /\ UNCHANGED <<runs, started, table>>
    BY <1>9 DEF Collect, Out
  <2>2. \A q \in DOMAIN runner' : q \in DOMAIN runner /\ q # r /\ runner'[q] = runner[q]
    BY <2>1 DEF Restrict
  <2>3. DOMAIN marks' = DOMAIN marks \cup {r[2]}
    BY <2>1 DEF With
  <2>4. \A q \in DOMAIN runner' : q[1] = runs => q[2] # r[2]
    BY <1>1, <2>1, <2>2
  <2>. QED  BY <2>1, <2>2, <2>3, <2>4 DEF Own, IsOut
<1>10. ASSUME UNCHANGED <<runs, runner, started, marks, table>>,
              pc = pc' \/ (pc = "jobs" /\ pc' = "report")
       PROVE  Own'
  BY <1>10 DEF Own, IsOut
<1>11. CASE JobsDone \/ GiveUp \/ WriteResults \/ WriteScores \/ WriteTrace
  BY <1>10, <1>11 DEF JobsDone, GiveUp, WriteResults, WriteScores, WriteTrace
<1>12. ASSUME NEW r \in DOMAIN runner, RunnerStep(r) \/ RunnerDies(r) PROVE Own'
  <2>1. UNCHANGED <<runs, pc, started, marks, table>>
    BY <1>12, OneRunner
  <2>2. \A q \in DOMAIN runner' :
          /\ q \in DOMAIN runner /\ runner'[q].cell = runner[q].cell
          /\ q # r => runner'[q] = runner[q]
          /\ q = r => (runner'[q].state = "gone" => pc # "shell" /\ r[1] = runs)
    BY <1>12, OneRunner
  <2>3. ASSUME NEW q \in DOMAIN runner'
        PROVE  runner'[q].state = "gone" => pc \in {"jobs", "report"} /\ q[1] = runs
    <3>1. CASE q = r
      BY <1>1, <2>2, <3>1 DEF Own
    <3>2. CASE q # r
      BY <2>2, <3>2 DEF Own, IsOut
    <3>. QED  BY <3>1, <3>2
  <2>. QED  BY <2>1, <2>2, <2>3 DEF Own, IsOut
<1>13. CASE UNCHANGED vars
  BY <1>10, <1>13 DEF vars
<1>. QED
  BY <1>2, <1>3, <1>4, <1>6, <1>7, <1>8, <1>9, <1>11, <1>12, <1>13 DEF Next, JudgeStep, Over

(* The jobs that were cut short are started ones, whose runners are done.  *)
LEMMA CutStep ==
  ASSUME Typed, Ours, [Next]_vars
  PROVE  cut' \subseteq 1 .. started' /\ \A r \in DOMAIN runner' : Early(r)' => ~IsOut(r)'
<1>. USE DEF judge, disk, past
<1>1. /\ runs \in Nat /\ started \in Nat /\ cut \subseteq 1 .. started
      /\ \A r \in DOMAIN runner : r[1] \in Nat /\ r[2] \in Nat \ {0} /\ r = <<r[1], r[2]>>
      /\ \A r \in DOMAIN runner : r[1] <= runs /\ (r[1] = runs /\ r[2] \in cut => runner[r].state = "gone")
  BY DEF Typed, RunnerId, Ours, Own, Early, IsOut
<1>2. CASE \/ ContestRefused \/ SandboxRefused \/ LogMissing \/ NoRoom \/ Finish \/ Killed \/ Interrupted
  <2>1. cut' = {}
    BY <1>2 DEF ContestRefused, SandboxRefused, LogMissing, NoRoom, Finish, Killed, Interrupted, Return, Forget
  <2>. QED  BY <2>1 DEF Early
<1>3. CASE Begin
  <2>1. runs' = runs + 1 /\ UNCHANGED <<started, runner, cut>>
    BY <1>3 DEF Begin
  <2>. QED  BY <1>1, <2>1 DEF Early
<1>4. ASSUME UNCHANGED <<runs, started, cut>>,
             \A r \in DOMAIN runner' : r \in DOMAIN runner /\ runner'[r] = runner[r]
      PROVE  cut' \subseteq 1 .. started' /\ \A r \in DOMAIN runner' : Early(r)' => ~IsOut(r)'
  BY <1>1, <1>4 DEF Early, IsOut
<1>5. CASE LoadContest \/ AskSandbox \/ OpenLog \/ LogsOpen \/ MakeRoom \/ RunJobs
  BY <1>4, <1>5 DEF LoadContest, AskSandbox, OpenLog, LogsOpen, MakeRoom, RunJobs
<1>6. CASE Enlist \/ JobsDone \/ GiveUp \/ WriteResults \/ WriteScores \/ WriteTrace
  BY <1>4, <1>6 DEF Enlist, JobsDone, GiveUp, WriteResults, WriteScores, WriteTrace
<1>7. CASE StartJob
  <2>1. /\ \A r \in DOMAIN runner' : r = <<runs, started + 1>> \/ (r \in DOMAIN runner /\ runner'[r] = runner[r])
        /\ started' = started + 1 /\ UNCHANGED <<runs, cut>>
    BY <1>7 DEF StartJob, With
  <2>2. started + 1 \notin cut /\ cut' \subseteq 1 .. started'
    BY <1>1, <2>1
  <2>3. ASSUME NEW r \in DOMAIN runner', Early(r)' PROVE ~IsOut(r)'
    <3>1. r[1] = runs /\ r[2] \in cut
      BY <2>1, <2>3 DEF Early
    <3>2. r \in DOMAIN runner /\ runner'[r] = runner[r]
      BY <2>1, <2>2, <3>1
    <3>. QED  BY <1>1, <3>1, <3>2 DEF IsOut
  <2>. QED  BY <2>2, <2>3
<1>8. CASE Collect
  <2>1. \A r \in DOMAIN runner' : r \in DOMAIN runner /\ runner'[r] = runner[r]
    BY <1>8 DEF Collect, Restrict
  <2>. QED  BY <1>4, <1>8, <2>1 DEF Collect
<1>9. ASSUME NEW r \in DOMAIN runner, RunnerStep(r) \/ RunnerDies(r)
      PROVE  cut' \subseteq 1 .. started' /\ \A q \in DOMAIN runner' : Early(q)' => ~IsOut(q)'
  <2>1. /\ UNCHANGED <<runs, started>> /\ IsOut(r)
        /\ \A q \in DOMAIN runner' : q \in DOMAIN runner /\ (q # r => runner'[q] = runner[q])
        /\ \/ cut' = cut
           \/ pc # "shell" /\ r[1] = runs /\ cut' = cut \cup {r[2]} /\ runner'[r].state = "gone"
    BY <1>9, OneRunner
  <2>2. cut' = cut => ~(r[1] = runs /\ r[2] \in cut)
    BY <1>1, <2>1 DEF IsOut
  <2>3. pc # "shell" /\ r[1] = runs => r[2] \in 1 .. started
    BY <1>1 DEF Ours, Own
  <2>4. ASSUME NEW q \in DOMAIN runner', Early(q)' PROVE ~IsOut(q)'
    <3>1. q[1] = runs /\ q[2] \in cut'
      BY <2>1, <2>4 DEF Early
    <3>2. CASE q = r
      BY <2>1, <2>2, <3>1, <3>2 DEF IsOut
    <3>3. CASE q # r
      <4>1. q \in DOMAIN runner /\ runner'[q] = runner[q]
        BY <2>1, <3>3
      <4>2. q[2] \in cut
        BY <1>1, <2>1, <3>1, <3>3, <4>1
      <4>. QED  BY <1>1, <3>1, <4>1, <4>2 DEF IsOut
    <3>. QED  BY <3>2, <3>3
  <2>. QED  BY <1>1, <2>1, <2>3, <2>4
<1>10. CASE UNCHANGED vars
  BY <1>4, <1>10 DEF vars
<1>. QED
  BY <1>2, <1>3, <1>5, <1>6, <1>7, <1>8, <1>9, <1>10 DEF Next, JudgeStep, Over

LEMMA OursStep ==
  ASSUME Typed, Ours, [Next]_vars
  PROVE  Ours'
<1>1. Own'
  BY OwnStep DEF Ours
<1>. QED  BY <1>1, CutStep DEF Ours

(* The next mark takes the place after those that are there.               *)
LEMMA MarkedInit == Init => Marked
<1>1. DOMAIN <<>> = {}
  OBVIOUS
<1>. QED  BY <1>1 DEF Init, Marked

(* What is left of a sequence without its last member.                     *)
LEMMA FrontIs ==
  ASSUME NEW S, NEW s \in Seq(S), s # <<>>
  PROVE  /\ Front(s) \in Seq(S) /\ Len(Front(s)) = Len(s) - 1 /\ Len(s) \in Nat \ {0}
         /\ \A i \in DOMAIN Front(s) : i \in DOMAIN s /\ Front(s)[i] = s[i]
         /\ s = Append(Front(s), s[Len(s)])
<1>1. Len(s) \in Nat \ {0} /\ DOMAIN s = 1 .. Len(s)
  OBVIOUS
<1>2. Front(s) = SubSeq(s, 1, Len(s) - 1)
  BY DEF Front
<1>3. SubSeq(s, 1, Len(s) - 1) = [i \in 1 .. Len(s) - 1 |-> s[i]]
  BY <1>1
<1>4. Front(s) = [i \in 1 .. Len(s) - 1 |-> s[i]]
  BY <1>2, <1>3
<1>5. Front(s) \in Seq(S) /\ Len(Front(s)) = Len(s) - 1
  <2>1. \A i \in 1 .. Len(s) - 1 : s[i] \in S
    BY <1>1
  <2>2. Len(s) - 1 \in Nat
    BY <1>1
  <2>. QED  BY <1>4, <2>1, <2>2
<1>6. \A i \in DOMAIN Front(s) : i \in DOMAIN s /\ Front(s)[i] = s[i]
  BY <1>1, <1>4
<1>7. s = Append(Front(s), s[Len(s)])
  <2>1. PICK e \in S : e = s[Len(s)]
    BY <1>1
  <2>2. PICK f \in Seq(S) : f = Front(s)
    BY <1>5
  <2>3. Len(f) = Len(s) - 1 /\ \A i \in 1 .. Len(f) : f[i] = s[i]
    <3>1. DOMAIN f = 1 .. Len(f)
      BY <2>2
    <3>2. f = [i \in 1 .. Len(s) - 1 |-> s[i]]
      BY <1>4, <2>2
    <3>3. Len(f) = Len(s) - 1
      BY <1>5, <2>2
    <3>. QED  BY <3>1, <3>2, <3>3
  <2>4. /\ Append(f, e) \in Seq(S) /\ Len(Append(f, e)) = Len(s)
        /\ \A i \in 1 .. Len(f) : Append(f, e)[i] = f[i]
        /\ Append(f, e)[Len(s)] = e
    <3>1. /\ Append(f, e) \in Seq(S) /\ Len(Append(f, e)) = Len(f) + 1
          /\ \A i \in 1 .. Len(f) : Append(f, e)[i] = f[i]
          /\ Append(f, e)[Len(f) + 1] = e
      BY AppendProperties
    <3>2. Len(f) + 1 = Len(s)
      BY <1>1, <2>3
    <3>. QED  BY <3>1, <3>2
  <2>5. \A i \in 1 .. Len(s) : Append(f, e)[i] = s[i]
    BY <1>1, <2>1, <2>3, <2>4
  <2>6. s = Append(f, e)
    BY <2>4, <2>5, SeqEqual
  <2>. QED  BY <2>1, <2>2, <2>6
<1>. QED  BY <1>1, <1>5, <1>6, <1>7

(* X is all there is to a submission that does not build, and only then.   *)
LEMMA WholeIsDue ==
  ASSUME Typed, NEW r \in DOMAIN runner, Marked, runner[r].state = "pipe"
  PROVE  LET sent == runner[r].marks  due == Deserved(runner[r].cell)
         IN  /\ ~IsWhole(r) => Len(sent) < Len(due)
             /\ IsWhole(r) /\ (\A i \in DOMAIN sent : sent[i] = due[i]) => sent = due
<1>1. PICK c \in Cell : c = runner[r].cell
  BY DEF Typed, RunnerValue
<1>2. PICK sent \in Seq(Mark) : sent = runner[r].marks
  BY DEF Typed, RunnerValue
<1>3. PICK due \in Seq(Mark) : due = Deserved(c)
  BY DeservedType DEF Typed
<1>4. OnTheWay(sent, "pipe", due)
  BY <1>1, <1>2, <1>3 DEF Marked
<1>5. sent # <<>> /\ Len(sent) <= Len(due) /\ (due = <<NotBuilt>> => \A i \in DOMAIN sent : sent[i] = NotBuilt)
  BY <1>4 DEF OnTheWay
<1>6. Len(sent) \in Nat /\ DOMAIN sent = 1 .. Len(sent) /\ 1 \in DOMAIN sent
  BY <1>2, <1>5
<1>7. Len(due) \in Nat \ {0} /\ DOMAIN due = 1 .. Len(due) /\ Tests[c[2]] \in Nat
  <2>1. name \in Namings
    BY DEF Typed
  <2>2. Len(Deserved(c)) \in Nat \ {0} /\ Tests[c[2]] \in Nat \ {0}
    BY <1>1, <2>1, DeservedType
  <2>. QED  BY <1>3, <2>2
<1>8. IsWhole(r) <=> sent[1] = NotBuilt \/ Len(sent) = Tests[c[2]]
  BY <1>1, <1>2 DEF IsWhole
<1>9. \/ due = <<NotBuilt>>
      \/ (\A i \in DOMAIN due : due[i] # NotBuilt) /\ Len(due) = Tests[c[2]]
  <2>1. due = <<NotBuilt>> \/ (due \in Seq(TestMark) /\ Len(due) = Tests[c[2]])
    BY <1>1, <1>3, DeservedType DEF Typed
  <2>2. due \in Seq(TestMark) => \A i \in DOMAIN due : due[i] # NotBuilt
    BY DEF TestMark, NotBuilt
  <2>. QED  BY <2>1, <2>2
<1>10. Len(<<NotBuilt>>) = 1
  OBVIOUS
<1>11. ~IsWhole(r) => Len(sent) < Len(due)
  BY <1>5, <1>6, <1>7, <1>8, <1>9
<1>12. ASSUME IsWhole(r), \A i \in DOMAIN sent : sent[i] = due[i] PROVE sent = due
  <2>1. Len(sent) = Len(due)
    <3>1. CASE due = <<NotBuilt>>
      BY <1>5, <1>6, <1>7, <1>10, <3>1
    <3>2. CASE (\A i \in DOMAIN due : due[i] # NotBuilt) /\ Len(due) = Tests[c[2]]
      BY <1>6, <1>7, <1>8, <1>12, <3>2
    <3>. QED  BY <1>9, <3>1, <3>2
  <2>. QED  BY <1>12, <2>1, SeqEqual
<1>. QED  BY <1>1, <1>2, <1>3, <1>11, <1>12

LEMMA MarkedStep ==
  ASSUME Typed, Marked, Ours, [Next]_vars
  PROVE  Marked'
<1>. USE DEF judge, disk, past
<1>0. \A c : FileOf(c)' = FileOf(c) /\ Deserved(c)' = Deserved(c)
  BY NamesStay
<1>1. ASSUME \A q \in DOMAIN runner' : q \in DOMAIN runner /\ runner'[q] = runner[q],
             \A q \in DOMAIN runner' : FileOf(runner[q].cell) \notin shared' => FileOf(runner[q].cell) \notin shared,
             \A q \in DOMAIN runner' : ~IsOut(q) => Early(q)' = Early(q)
      PROVE  Marked'
  <2>. SUFFICES ASSUME NEW q \in DOMAIN runner'
                PROVE  LET x == runner'[q]
                       IN  /\ OnTheWay(x.marks, x.state, Deserved(x.cell))
                           /\ FileOf(x.cell) \notin shared' =>
                                AsDue(x.marks, IF IsOut(q)' THEN x.state ELSE Ended(Early(q)'), Deserved(x.cell))
    BY <1>0 DEF Marked, Ended
  <2>1. q \in DOMAIN runner /\ runner'[q] = runner[q]
    BY <1>1
  <2>2. IsOut(q)' = IsOut(q)
    BY <2>1 DEF IsOut
  <2>3. LET x == runner[q]
        IN  /\ OnTheWay(x.marks, x.state, Deserved(x.cell))
            /\ FileOf(x.cell) \notin shared =>
                 AsDue(x.marks, IF IsOut(q) THEN x.state ELSE Ended(Early(q)), Deserved(x.cell))
    BY <2>1 DEF Marked
  <2>. QED  BY <1>1, <2>1, <2>2, <2>3
<1>2. CASE ContestRefused \/ SandboxRefused \/ LogMissing \/ NoRoom \/ Finish \/ Killed
  <2>1. shared' = shared /\ runner' = Restrict(runner, {r \in DOMAIN runner : IsOut(r)})
    BY <1>2 DEF ContestRefused, SandboxRefused, LogMissing, NoRoom, Finish, Killed, Return
  <2>2. \A r \in DOMAIN runner' : r \in DOMAIN runner /\ runner'[r] = runner[r]
    BY <2>1 DEF Restrict
  <2>3. \A r \in DOMAIN runner' : IsOut(r)
    BY <2>1 DEF Restrict
  <2>. QED  BY <1>1, <2>1, <2>2, <2>3
<1>3. CASE Interrupted
  <2>1. shared' = shared /\ runner' = Restrict(runner, DOMAIN runner \ Out)
    BY <1>3 DEF Interrupted
  <2>2. \A r \in DOMAIN runner' : r \in DOMAIN runner /\ runner'[r] = runner[r]
    BY <2>1 DEF Restrict
  <2>3. \A r \in DOMAIN runner' : IsOut(r)
    BY <2>1 DEF Restrict, Out, Ours, Own
  <2>. QED  BY <1>1, <2>1, <2>2, <2>3
<1>4. CASE Begin
  <2>1. /\ UNCHANGED runner /\ pc = "shell"
        /\ shared' = {s \in shared : \E r \in DOMAIN runner : FileOf(runner[r].cell) = s}
    BY <1>4 DEF Begin
  <2>2. \A r \in DOMAIN runner : IsOut(r)
    BY <2>1 DEF Ours, Own
  <2>. QED  BY <1>1, <2>1, <2>2
<1>5. CASE LoadContest \/ AskSandbox \/ OpenLog \/ LogsOpen \/ MakeRoom \/ Enlist \/ RunJobs \/ JobsDone
           \/ GiveUp \/ WriteResults \/ WriteScores \/ WriteTrace
  <2>1. UNCHANGED <<runner, runs, past>>
    BY <1>5 DEF LoadContest, AskSandbox, OpenLog, LogsOpen, MakeRoom, Enlist, RunJobs, JobsDone,
         GiveUp, WriteResults, WriteScores, WriteTrace
  <2>. QED  BY <1>1, <2>1 DEF Early
<1>6. CASE StartJob
  <2>1. PICK new, value :
          /\ value = [cell |-> table[started + 1], marks |-> <<>>, state |-> "open"]
          /\ runner' = With(runner, new, value) /\ shared \subseteq shared'
          /\ started < Len(table) /\ UNCHANGED <<runs, cut>>
    BY <1>6 DEF StartJob
  <2>2. PICK c \in Cell : c = table[started + 1]
    BY <2>1 DEF Typed
  <2>3. Len(Deserved(c)) \in Nat \ {0}
    BY DeservedType DEF Typed
  <2>4. PICK due : due = Deserved(c)
    OBVIOUS
  <2>5. OnTheWay(<<>>, "open", due) /\ AsDue(<<>>, "open", due)
    BY <2>3, <2>4 DEF OnTheWay, AsDue
  <2>6. \A q \in DOMAIN runner' : runner'[q] = value \/ (q \in DOMAIN runner /\ runner'[q] = runner[q])
    BY <2>1 DEF With
  <2>7. value.cell = c /\ value.marks = <<>> /\ value.state = "open"
    BY <2>1, <2>2
  <2>8. ASSUME NEW q \in DOMAIN runner', runner'[q] = value
        PROVE  LET x == runner'[q]
               IN  /\ OnTheWay(x.marks, x.state, Deserved(x.cell))
                   /\ AsDue(x.marks, IF IsOut(q)' THEN x.state ELSE Ended(Early(q)'), Deserved(x.cell))
    BY <2>4, <2>5, <2>7, <2>8 DEF IsOut
  <2>9. ASSUME NEW q \in DOMAIN runner', q \in DOMAIN runner /\ runner'[q] = runner[q]
        PROVE  LET x == runner'[q]
               IN  /\ OnTheWay(x.marks, x.state, Deserved(x.cell))
                   /\ FileOf(x.cell) \notin shared' =>
                        AsDue(x.marks, IF IsOut(q)' THEN x.state ELSE Ended(Early(q)'), Deserved(x.cell))
    <3>1. IsOut(q)' = IsOut(q) /\ Early(q)' = Early(q)
      BY <2>1, <2>9 DEF IsOut, Early
    <3>2. LET x == runner[q]
          IN  /\ OnTheWay(x.marks, x.state, Deserved(x.cell))
              /\ FileOf(x.cell) \notin shared =>
                   AsDue(x.marks, IF IsOut(q) THEN x.state ELSE Ended(Early(q)), Deserved(x.cell))
      BY <2>9 DEF Marked
    <3>. QED  BY <2>1, <2>9, <3>1, <3>2
  <2>. QED  BY <1>0, <2>6, <2>8, <2>9 DEF Marked, Ended
<1>7. CASE Collect
  <2>1. PICK r : UNCHANGED <<runs, past>> /\ runner' = Restrict(runner, DOMAIN runner \ {r})
    BY <1>7 DEF Collect
  <2>2. \A q \in DOMAIN runner' : q \in DOMAIN runner /\ runner'[q] = runner[q]
    BY <2>1 DEF Restrict
  <2>. QED  BY <1>1, <2>1, <2>2 DEF Early
<1>8. ASSUME NEW r \in DOMAIN runner, RunnerStep(r) \/ RunnerDies(r) PROVE Marked'
  <2>1. PICK c \in Cell : c = runner[r].cell
    BY DEF Typed, RunnerValue
  <2>2. PICK sent \in Seq(Mark) : sent = runner[r].marks
    BY DEF Typed, RunnerValue
  <2>3. PICK due \in Seq(Mark) : due = Deserved(c)
    BY DeservedType DEF Typed
  <2>12. IsOut(r)
    BY <1>8, OneRunner
  <2>4. OnTheWay(sent, runner[r].state, due) /\ (FileOf(c) \notin shared => AsDue(sent, runner[r].state, due))
    BY <2>1, <2>2, <2>3, <2>12 DEF Marked
  <2>5. Len(due) \in Nat \ {0}
    BY <2>3, DeservedType DEF Typed
  <2>6. /\ shared' = shared
        /\ \A q \in DOMAIN runner' :
             q \in DOMAIN runner /\ runner'[q].cell = runner[q].cell /\ (q # r => runner'[q] = runner[q])
    BY <1>8, OneRunner
  <2>13. \A q \in DOMAIN runner' : q # r => IsOut(q)' = IsOut(q) /\ Early(q)' = Early(q)
    <3>1. runs' = runs /\ (cut' = cut \/ (r[1] = runs /\ cut' = cut \cup {r[2]}))
      BY <1>8, OneRunner
    <3>2. \A q \in DOMAIN runner : q = <<q[1], q[2]>>
      BY RunnerIsPair
    <3>3. ASSUME NEW q \in DOMAIN runner', q # r PROVE IsOut(q)' = IsOut(q) /\ Early(q)' = Early(q)
      BY <2>6, <3>1, <3>2, <3>3 DEF IsOut, Early
    <3>. QED  BY <3>3
  <2>14. ASSUME r \in DOMAIN runner' =>
                  /\ OnTheWay(runner'[r].marks, runner'[r].state, due)
                  /\ FileOf(c) \notin shared =>
                       AsDue(runner'[r].marks, IF IsOut(r)' THEN runner'[r].state ELSE Ended(Early(r)'), due)
         PROVE  Marked'
    <3>1. ASSUME NEW q \in DOMAIN runner', q # r
          PROVE  LET x == runner'[q]
                 IN  /\ OnTheWay(x.marks, x.state, Deserved(x.cell))
                     /\ FileOf(x.cell) \notin shared' =>
                          AsDue(x.marks, IF IsOut(q)' THEN x.state ELSE Ended(Early(q)'), Deserved(x.cell))
      <4>1. LET x == runner[q]
            IN  /\ OnTheWay(x.marks, x.state, Deserved(x.cell))
                /\ FileOf(x.cell) \notin shared =>
                     AsDue(x.marks, IF IsOut(q) THEN x.state ELSE Ended(Early(q)), Deserved(x.cell))
        BY <2>6, <3>1 DEF Marked
      <4>. QED  BY <2>6, <2>13, <3>1, <4>1
    <3>2. ASSUME r \in DOMAIN runner'
          PROVE  LET x == runner'[r]
                 IN  /\ OnTheWay(x.marks, x.state, Deserved(x.cell))
                     /\ FileOf(x.cell) \notin shared' =>
                          AsDue(x.marks, IF IsOut(r)' THEN x.state ELSE Ended(Early(r)'), Deserved(x.cell))
      BY <2>1, <2>3, <2>6, <2>14, <3>2
    <3>. QED  BY <1>0, <3>1, <3>2 DEF Marked, Ended
  <2>15. ~Early(r)
    BY <2>12 DEF Ours
  <2>7. ASSUME RunnerStep(r),
               r \in DOMAIN runner' =>
                 /\ OnTheWay(runner'[r].marks, runner'[r].state, due)
                 /\ FileOf(c) \notin shared => AsDue(runner'[r].marks, runner'[r].state, due)
        PROVE  Marked'
    <3>1. UNCHANGED <<runs, cut>>
      BY <2>7, RunnersAlone
    <3>2. ~Early(r)'
      BY <2>15, <3>1 DEF Early
    <3>3. r \in DOMAIN runner' => (IF IsOut(r)' THEN runner'[r].state ELSE Ended(Early(r)')) = runner'[r].state
      BY <3>2 DEF IsOut, Ended
    <3>. QED  BY <2>7, <2>14, <3>3
  <2>8. CASE RunnerOpens(r)
    <3>1. runner[r].state = "open" /\ runner' = [runner EXCEPT ![r].state = "log"]
      BY <2>8 DEF RunnerOpens, StateOf
    <3>2. runner'[r].state = "log" /\ runner'[r].marks = sent
      BY <2>2, <3>1 DEF Typed, RunnerValue
    <3>3. sent = <<>>
      BY <2>4, <3>1 DEF OnTheWay
    <3>4. OnTheWay(<<>>, "log", due) /\ AsDue(<<>>, "log", due)
      BY <2>5 DEF OnTheWay, AsDue
    <3>. QED  BY <2>7, <2>8, <3>2, <3>3, <3>4 DEF RunnerStep
  <2>9. CASE RunnerMarks(r)
    <3>1. PICK mark \in Earned(r) :
            /\ runner[r].state = "log"
            /\ runner' = Further(r, Append(sent, mark), "pipe")
      BY <2>2, <2>9 DEF RunnerMarks
    <3>2. runner'[r].state = "pipe" /\ runner'[r].marks = Append(sent, mark)
      <4>1. \A more : Further(r, more, "pipe")[r].marks = more /\ Further(r, more, "pipe")[r].state = "pipe"
        BY FurtherIs
      <4>. QED  BY <3>1, <4>1, Zenon
    <3>3. Len(sent) < Len(due) /\ (due = <<NotBuilt>> => \A i \in DOMAIN sent : sent[i] = NotBuilt)
          /\ (FileOf(c) \notin shared => \A i \in DOMAIN sent : sent[i] = due[i])
      BY <2>4, <3>1 DEF OnTheWay, AsDue
    <3>4. \/ mark = due[Len(sent) + 1]
          \/ FileOf(c) \in shared /\ due # <<NotBuilt>>
      BY <2>1, <2>2, <2>3 DEF Earned
    <3>5. /\ Append(sent, mark) # <<>>
          /\ Len(Append(sent, mark)) = Len(sent) + 1 /\ Len(sent) \in Nat
          /\ \A i \in DOMAIN Append(sent, mark) :
               (i \in DOMAIN sent /\ Append(sent, mark)[i] = sent[i]) \/ (i = Len(sent) + 1 /\ Append(sent, mark)[i] = mark)
      <4>. DEFINE S == Mark \cup {mark}
      <4>1. Mark \subseteq S /\ mark \in S
        OBVIOUS
      <4>. HIDE DEF S
      <4>2. sent \in Seq(S)
        BY <2>2, <4>1, SeqMonotonic
      <4>3. /\ Append(sent, mark) # <<>> /\ Len(Append(sent, mark)) = Len(sent) + 1 /\ Len(sent) \in Nat
            /\ Append(sent, mark) \in Seq(S)
            /\ \A i \in 1 .. Len(sent) : Append(sent, mark)[i] = sent[i]
            /\ Append(sent, mark)[Len(sent) + 1] = mark
        <5>1. Len(sent) \in Nat
          BY <2>2
        <5>. QED  BY <4>1, <4>2, <5>1, AppendProperties
      <4>. QED  BY <2>2, <4>3
    <3>6. due = <<NotBuilt>> => \A i \in DOMAIN Append(sent, mark) : Append(sent, mark)[i] = NotBuilt
      <4>. SUFFICES ASSUME due = <<NotBuilt>> PROVE \A i \in DOMAIN Append(sent, mark) : Append(sent, mark)[i] = NotBuilt
        OBVIOUS
      <4>1. Len(due) = 1 /\ due[1] = NotBuilt
        OBVIOUS
      <4>2. mark = NotBuilt
        BY <3>3, <3>4, <3>5, <4>1
      <4>. QED  BY <3>3, <3>5, <4>2
    <3>7. FileOf(c) \notin shared => \A i \in DOMAIN Append(sent, mark) : Append(sent, mark)[i] = due[i]
      BY <3>3, <3>4, <3>5
    <3>8. OnTheWay(Append(sent, mark), "pipe", due)
      BY <2>5, <3>3, <3>5, <3>6 DEF OnTheWay
    <3>9. FileOf(c) \notin shared => AsDue(Append(sent, mark), "pipe", due)
      BY <3>7 DEF AsDue
    <3>. QED  BY <2>7, <2>9, <3>2, <3>8, <3>9 DEF RunnerStep
  <2>10. CASE RunnerSends(r)
    <3>1. runner[r].state = "pipe"
      BY <2>10 DEF RunnerSends
    <3>2. OnTheWay(sent, "pipe", due) /\ (FileOf(c) \notin shared => \A i \in DOMAIN sent : sent[i] = due[i])
      BY <2>4, <3>1 DEF AsDue
    <3>3. /\ ~IsWhole(r) => Len(sent) < Len(due)
          /\ IsWhole(r) /\ (\A i \in DOMAIN sent : sent[i] = due[i]) => sent = due
      BY <2>1, <2>2, <2>3, <3>1, WholeIsDue
    <3>4. CASE Read(r) /\ ~IsWhole(r)
      <4>1. runner' = [runner EXCEPT ![r].state = "log"]
        BY <2>10, <3>4 DEF RunnerSends, StateOf
      <4>2. runner'[r].state = "log" /\ runner'[r].marks = sent
        BY <2>2, <4>1 DEF Typed, RunnerValue
      <4>3. OnTheWay(sent, "log", due) /\ (FileOf(c) \notin shared => AsDue(sent, "log", due))
        BY <3>2, <3>3, <3>4 DEF OnTheWay, AsDue
      <4>. QED  BY <2>7, <2>10, <4>2, <4>3 DEF RunnerStep
    <3>5. CASE ~(Read(r) /\ ~IsWhole(r))
      <4>1. Leaves(r)
        BY <2>10, <3>5 DEF RunnerSends
      <4>2. CASE pc # "shell" /\ r[1] = runs
        <5>1. runner' = [runner EXCEPT ![r].state = "gone"]
          BY <4>1, <4>2 DEF Leaves, StateOf, Tended
        <5>2. runner'[r].state = "gone" /\ runner'[r].marks = sent
          BY <2>2, <5>1 DEF Typed, RunnerValue
        <5>3. IsWhole(r)
          BY <3>5, <4>2 DEF Read
        <5>4. OnTheWay(sent, "gone", due) /\ (FileOf(c) \notin shared => AsDue(sent, "gone", due))
          BY <3>2, <3>3, <5>3 DEF OnTheWay, AsDue
        <5>. QED  BY <2>7, <2>10, <5>2, <5>4 DEF RunnerStep
      <4>3. CASE ~(pc # "shell" /\ r[1] = runs)
        <5>1. runner' = Restrict(runner, OthersOf(r))
          BY <4>1, <4>3 DEF Leaves, Tended
        <5>2. r \notin DOMAIN runner'
          BY <5>1 DEF Restrict, OthersOf
        <5>. QED  BY <2>14, <5>2
      <4>. QED  BY <4>2, <4>3
    <3>. QED  BY <3>4, <3>5
  <2>11. CASE RunnerDies(r)
    <3>1. CASE runner' = Restrict(runner, OthersOf(r))
      <4>1. r \notin DOMAIN runner'
        BY <3>1 DEF Restrict, OthersOf
      <4>. QED  BY <2>14, <4>1
    <3>2. CASE Tended(r) /\ runner' = Further(r, InPipe(r), "gone") /\ cut' = cut \cup {r[2]}
      <4>1. runner'[r].state = "gone" /\ runner'[r].marks = InPipe(r)
        BY <3>2, FurtherIs
      <4>2. Early(r)' /\ ~IsOut(r)'
        <5>1. runs' = runs
          BY <2>11 DEF RunnerDies
        <5>. QED  BY <3>2, <4>1, <5>1 DEF Early, Tended, IsOut
      <4>3. OnTheWay(InPipe(r), "gone", due) /\ (FileOf(c) \notin shared => AsDue(InPipe(r), "cut", due))
        <5>1. CASE runner[r].state = "pipe"
          <6>1. sent \in Seq(Mark) /\ sent # <<>> /\ InPipe(r) = Front(sent)
            BY <2>2, <2>4, <5>1 DEF InPipe, OnTheWay
          <6>2. Len(Front(sent)) = Len(sent) - 1 /\ \A i \in DOMAIN Front(sent) : i \in DOMAIN sent /\ Front(sent)[i] = sent[i]
            BY <6>1, FrontIs
          <6>3. Len(sent) \in Nat
            BY <6>1
          <6>. QED  BY <2>4, <2>5, <5>1, <6>1, <6>2, <6>3 DEF OnTheWay, AsDue
        <5>2. CASE runner[r].state # "pipe"
          <6>1. InPipe(r) = sent
            BY <2>2, <5>2 DEF InPipe
          <6>2. runner[r].state \in {"open", "log"}
            BY <2>12, <5>2 DEF IsOut, Typed, RunnerValue
          <6>3. Len(sent) < Len(due)
            <7>1. Len(<<>>) = 0
              OBVIOUS
            <7>. QED  BY <2>4, <2>5, <6>2, <7>1 DEF OnTheWay
          <6>. QED  BY <2>4, <6>1, <6>3 DEF OnTheWay, AsDue
        <5>. QED  BY <5>1, <5>2
      <4>. QED  BY <2>14, <4>1, <4>2, <4>3 DEF Ended
    <3>. QED  BY <2>11, <3>1, <3>2 DEF RunnerDies
  <2>. QED  BY <1>8, <2>8, <2>9, <2>10, <2>11 DEF RunnerStep
<1>9. CASE UNCHANGED vars
  BY <1>1, <1>9 DEF vars, Early
<1>. QED
  BY <1>2, <1>3, <1>4, <1>5, <1>6, <1>7, <1>8, <1>9 DEF Next, JudgeStep, Over

(***************************************************************************)
(* What is collected.                                                      *)
(***************************************************************************)
LEMMA GatheredInit == Init => Gathered
<1>1. DOMAIN <<>> = {}
  OBVIOUS
<1>. QED  BY <1>1 DEF Init, Gathered

LEMMA GatheredStep ==
  ASSUME Typed, Unbegun, Ours, Marked, Gathered, [Next]_vars
  PROVE  Gathered'
<1>. USE DEF judge, disk, past
<1>0. \A c : FileOf(c)' = FileOf(c) /\ Deserved(c)' = Deserved(c)
  BY NamesStay
<1>1. DOMAIN <<>> = {}
  OBVIOUS
<1>2. CASE ContestRefused \/ SandboxRefused \/ LogMissing \/ NoRoom \/ Finish \/ Killed \/ Interrupted
  <2>1. pc' = "shell" /\ marks' = <<>>
    BY <1>2 DEF ContestRefused, SandboxRefused, LogMissing, NoRoom, Finish, Killed, Interrupted, Return, Forget
  <2>. QED  BY <1>1, <2>1 DEF Gathered
<1>3. CASE Begin \/ Enlist
  <2>1. pc' # "report" /\ marks' = <<>>
    BY <1>3 DEF Begin, Enlist, Unbegun
  <2>. QED  BY <1>1, <2>1 DEF Gathered
<1>4. ASSUME UNCHANGED <<table, marks>>, shared \subseteq shared', \A j \in DOMAIN marks : j \in cut' <=> j \in cut,
             pc' = "report" /\ ~failed' => DOMAIN marks = DOMAIN table
      PROVE  Gathered'
  <2>1. PICK m, t : m = marks /\ t = table /\ m = marks' /\ t = table'
    BY <1>4
  <2>2. \A j \in DOMAIN m : FileOf(t[j]) \notin shared' => AsDue(m[j], Ended(j \in cut'), Deserved(t[j]))
    <3>. SUFFICES ASSUME NEW j \in DOMAIN m, FileOf(t[j]) \notin shared'
                  PROVE  AsDue(m[j], Ended(j \in cut'), Deserved(t[j]))
      OBVIOUS
    <3>1. AsDue(m[j], Ended(j \in cut), Deserved(t[j]))
      BY <1>4, <2>1 DEF Gathered
    <3>2. Ended(j \in cut') = Ended(j \in cut)
      BY <1>4, <2>1 DEF Ended
    <3>. QED  BY <3>1, <3>2
  <2>3. \A c : FileOf(c)' = FileOf(c) /\ Deserved(c)' = Deserved(c)
    BY <1>0
  <2>. QED  BY <1>4, <2>1, <2>2, <2>3 DEF Gathered
<1>5. CASE LoadContest \/ AskSandbox \/ OpenLog \/ LogsOpen \/ MakeRoom \/ RunJobs
  <2>1. UNCHANGED <<table, marks, past>> /\ pc' # "report"
    BY <1>5 DEF LoadContest, AskSandbox, OpenLog, LogsOpen, MakeRoom, RunJobs
  <2>. QED  BY <1>4, <2>1
<1>6. CASE StartJob
  <2>1. UNCHANGED <<table, marks, cut>> /\ shared \subseteq shared' /\ pc' # "report"
    BY <1>6 DEF StartJob
  <2>. QED  BY <1>4, <2>1
<1>7. CASE Collect
  <2>1. PICK r \in DOMAIN runner :
          /\ r[1] = runs /\ ~IsOut(r) /\ marks' = With(marks, r[2], runner[r].marks)
          /\ pc = "jobs" /\ pc' = "jobs" /\ UNCHANGED <<table, shared, cut>>
    BY <1>7 DEF Collect, Out
  <2>2. PICK c, j, sent : c = runner[r].cell /\ j = r[2] /\ sent = runner[r].marks
    OBVIOUS
  <2>3. c = table[j]
    BY <2>1, <2>2 DEF Ours, Own
  <2>4. FileOf(c) \notin shared => AsDue(sent, Ended(j \in cut), Deserved(c))
    <3>1. Early(r) <=> j \in cut
      BY <2>1, <2>2 DEF Early
    <3>2. FileOf(c) \notin shared => AsDue(sent, Ended(Early(r)), Deserved(c))
      BY <2>1, <2>2 DEF Marked
    <3>3. Ended(Early(r)) = Ended(j \in cut)
      BY <3>1 DEF Ended
    <3>. QED  BY <3>2, <3>3
  <2>5. DOMAIN marks' = DOMAIN marks \cup {j} /\ marks'[j] = sent
        /\ \A k \in DOMAIN marks : k # j => marks'[k] = marks[k]
    BY <2>1, <2>2 DEF With
  <2>6. \A k \in DOMAIN marks' :
          FileOf(table[k]) \notin shared => AsDue(marks'[k], Ended(k \in cut), Deserved(table[k]))
    BY <2>3, <2>4, <2>5 DEF Gathered
  <2>7. PICK t, early : t = table /\ t = table' /\ early = cut /\ early = cut'
    BY <2>1
  <2>. QED  BY <1>0, <2>1, <2>6, <2>7 DEF Gathered
<1>8. CASE JobsDone
  <2>1. UNCHANGED <<table, marks, past>> /\ Cardinality(DOMAIN marks) = Len(table)
    BY <1>8 DEF JobsDone, AllCollected
  <2>2. /\ DOMAIN marks \subseteq 1 .. Len(table) /\ Len(table) \in Nat /\ DOMAIN table = 1 .. Len(table)
    BY DEF Typed
  <2>3. IsFiniteSet(1 .. Len(table)) /\ Cardinality(1 .. Len(table)) = Len(table)
    <3>1. \A n \in Nat : IsFiniteSet(1 .. n) /\ Cardinality(1 .. n) = n
      BY FS_Interval
    <3>. QED  BY <2>2, <3>1
  <2>4. DOMAIN marks = DOMAIN table
    BY <2>1, <2>2, <2>3, FS_Subset
  <2>. QED  BY <1>4, <2>1, <2>4
<1>9. CASE GiveUp
  <2>1. UNCHANGED <<table, marks, past>> /\ failed' = TRUE
    BY <1>9 DEF GiveUp
  <2>2. ~failed' = FALSE
    BY <2>1
  <2>. QED  BY <1>4, <2>1, <2>2
<1>10. CASE WriteResults \/ WriteScores \/ WriteTrace
  <2>1. UNCHANGED <<table, marks, past, failed>> /\ pc = "report"
    BY <1>10 DEF WriteResults, WriteScores, WriteTrace
  <2>. QED  BY <1>4, <2>1 DEF Gathered
<1>11. ASSUME UNCHANGED <<table, marks, shared, failed, pc>>, \A j \in DOMAIN marks : j \in cut' <=> j \in cut
       PROVE  Gathered'
  BY <1>4, <1>11 DEF Gathered
<1>12. ASSUME NEW r \in DOMAIN runner, RunnerStep(r) \/ RunnerDies(r) PROVE Gathered'
  <2>1. UNCHANGED <<table, marks, shared, failed, pc>>
    BY <1>12, OneRunner
  <2>2. cut' = cut \/ (pc # "shell" /\ r[1] = runs /\ cut' = cut \cup {r[2]})
    BY <1>12, OneRunner
  <2>3. pc # "shell" /\ r[1] = runs => r[2] \notin DOMAIN marks
    BY DEF Typed, RunnerId, Ours, Own
  <2>. QED  BY <1>11, <2>1, <2>2, <2>3
<1>13. CASE UNCHANGED vars
  BY <1>11, <1>13 DEF vars
<1>. QED
  BY <1>2, <1>3, <1>5, <1>6, <1>7, <1>8, <1>9, <1>10, <1>12, <1>13 DEF Next, JudgeStep, Over

(***************************************************************************)
(* The logs of the submissions.                                            *)
(***************************************************************************)
LEMMA KeptInit == Init => Kept
  BY DEF Init, Kept

(* A mark written after all that are there is appended.                    *)
LEMMA WriteAtEnd ==
  ASSUME NEW text \in Seq(Mark), NEW mark
  PROVE  WriteAt(text, Len(text) + 1, mark) = Append(text, mark)
<1>. DEFINE S == Mark \cup {mark}
<1>1. Mark \subseteq S /\ mark \in S
  OBVIOUS
<1>. HIDE DEF S
<1>2. text \in Seq(S)
  BY <1>1, SeqMonotonic
<1>3. Len(text) \in Nat /\ DOMAIN text = 1 .. Len(text)
  OBVIOUS
<1>4. Max({Len(text) + 1, Len(text)}) = Len(text) + 1
  BY <1>3 DEF Max
<1>5. WriteAt(text, Len(text) + 1, mark)
      = [i \in 1 .. Len(text) + 1 |-> IF i = Len(text) + 1 THEN mark ELSE text[i]]
  <2>1. \A i \in 1 .. Len(text) + 1 : i # Len(text) + 1 => i <= Len(text)
    BY <1>3
  <2>2. WriteAt(text, Len(text) + 1, mark)
        = [i \in 1 .. Len(text) + 1 |->
             IF i = Len(text) + 1 THEN mark ELSE IF i <= Len(text) THEN text[i] ELSE Nul]
    BY <1>4, Zenon DEF WriteAt
  <2>. QED  BY <2>1, <2>2
<1>6. \A n \in Nat : \A f \in [1 .. n -> S] : f \in Seq(S) /\ Len(f) = n
  BY SeqDef, LenProperties
<1>7. [i \in 1 .. Len(text) + 1 |-> IF i = Len(text) + 1 THEN mark ELSE text[i]] \in [1 .. Len(text) + 1 -> S]
  BY <1>1, <1>2, <1>3
<1>8. WriteAt(text, Len(text) + 1, mark) \in Seq(S) /\ Len(WriteAt(text, Len(text) + 1, mark)) = Len(text) + 1
  BY <1>3, <1>5, <1>6, <1>7
<1>9. Append(text, mark) \in Seq(S) /\ Len(Append(text, mark)) = Len(text) + 1
      /\ \A i \in 1 .. Len(text) : Append(text, mark)[i] = text[i]
      /\ Append(text, mark)[Len(text) + 1] = mark
  BY <1>1, <1>2, AppendProperties
<1>. DEFINE w == WriteAt(text, Len(text) + 1, mark)  a == Append(text, mark)
<1>10. \A i \in 1 .. Len(text) + 1 : w[i] = a[i]
  BY <1>3, <1>5, <1>9
<1>. HIDE DEF w, a
<1>11. w \in Seq(S) /\ a \in Seq(S) /\ Len(w) = Len(a) /\ \A i \in 1 .. Len(w) : w[i] = a[i]
  BY <1>8, <1>9, <1>10 DEF w, a
<1>12. w = a
  BY <1>11, SeqEqual
<1>. QED  BY <1>12 DEF w, a

(* What a runner does to its log, with what it has come to.                *)
LEMMA LogOfRunner ==
  ASSUME Typed, NEW r \in DOMAIN runner, RunnerStep(r), Marked
  PROVE  LET F == FileOf(runner[r].cell)
         IN  /\ \A s \in Submission : s # F => own'[s] = own[s]
             /\ r \in DOMAIN runner' =>
                  \/ runner'[r].state # "open" /\ own'[F] = runner'[r].marks
                  \/ /\ runner[r].state # "open"
                     /\ own'[F] = own[F] /\ runner'[r].marks = runner[r].marks
                  \/ runner[r].state # "open" /\ own[F] # runner[r].marks
<1>1. PICK c \in Cell : c = runner[r].cell
  BY DEF Typed, RunnerValue
<1>2. PICK sent \in Seq(Mark) : sent = runner[r].marks
  BY DEF Typed, RunnerValue
<1>3. PICK F \in Submission : F = FileOf(c)
  BY DeservedType DEF Typed
<1>4. DOMAIN own = Submission /\ runner \in [DOMAIN runner -> RunnerValue]
  BY DEF Typed
<1>5. CASE RunnerOpens(r)
  <2>1. own' = [own EXCEPT ![F] = <<>>] /\ runner[r].state = "open" /\ runner' = [runner EXCEPT ![r].state = "log"]
    BY <1>1, <1>3, <1>5 DEF RunnerOpens, StateOf
  <2>2. sent = <<>>
    BY <1>2, <2>1 DEF Marked, OnTheWay
  <2>3. runner'[r].state = "log" /\ runner'[r].marks = sent
    BY <1>2, <1>4, <2>1 DEF RunnerValue
  <2>. QED  BY <1>1, <1>3, <1>4, <2>1, <2>2, <2>3
<1>6. CASE RunnerMarks(r)
  <2>1. PICK mark :
          /\ runner[r].state = "log"
          /\ own' = [own EXCEPT ![F] = WriteAt(@, Len(Append(sent, mark)), mark)]
          /\ runner' = Further(r, Append(sent, mark), "pipe")
    BY <1>1, <1>2, <1>3, <1>6 DEF RunnerMarks
  <2>2. runner'[r].state = "pipe" /\ runner'[r].marks = Append(sent, mark)
    <3>1. \A more : Further(r, more, "pipe")[r].marks = more /\ Further(r, more, "pipe")[r].state = "pipe"
      BY FurtherIs
    <3>. QED  BY <2>1, <3>1, Zenon
  <2>3. Len(Append(sent, mark)) = Len(sent) + 1
    BY <1>2
  <2>4. own[F] = sent => own'[F] = Append(sent, mark)
    BY <1>2, <1>3, <1>4, <2>1, <2>3, WriteAtEnd
  <2>5. \A s \in Submission : s # F => own'[s] = own[s]
    BY <1>4, <2>1
  <2>. QED  BY <1>1, <1>2, <1>3, <2>1, <2>2, <2>4, <2>5
<1>7. CASE RunnerSends(r)
  <2>1. own' = own /\ runner[r].state = "pipe"
    BY <1>7 DEF RunnerSends, disk
  <2>2. r \in DOMAIN runner' => runner'[r].marks = sent
    <3>1. \A state : [runner EXCEPT ![r].state = state][r].marks = sent
      BY <1>2, <1>4 DEF RunnerValue
    <3>2. r \notin DOMAIN Restrict(runner, OthersOf(r))
      BY DEF Restrict, OthersOf
    <3>. QED  BY <1>7, <3>1, <3>2 DEF RunnerSends, Leaves, StateOf
  <2>. QED  BY <1>1, <1>2, <1>3, <2>1, <2>2
<1>. QED  BY <1>5, <1>6, <1>7 DEF RunnerStep

(* A runner that dies leaves its log a mark ahead of what it has sent, or  *)
(* has sent none.                                                          *)
LEMMA LogOfTheDead ==
  ASSUME Typed, NEW r \in DOMAIN runner, RunnerDies(r), Marked, r \in DOMAIN runner',
         runner[r].state # "open" => own[FileOf(runner[r].cell)] = runner[r].marks
  PROVE  BearsOut(own'[FileOf(runner[r].cell)], runner'[r].marks, r[1] = runs /\ r[2] \in cut')
<1>. DEFINE F == FileOf(runner[r].cell)
<1>1. own' = own /\ IsOut(r)
  BY DEF RunnerDies, disk
<1>2. Tended(r) /\ runner' = Further(r, InPipe(r), "gone") /\ cut' = cut \cup {r[2]}
  BY DEF RunnerDies, Restrict, OthersOf
<1>3. r[1] = runs /\ r[2] \in cut'
  BY <1>2 DEF Tended
<1>4. runner'[r].marks = InPipe(r)
  BY <1>2, FurtherIs
<1>5. PICK sent \in Seq(Mark) : sent = runner[r].marks
  BY DEF Typed, RunnerValue
<1>6. OnTheWay(sent, runner[r].state, Deserved(runner[r].cell))
  BY <1>5 DEF Marked
<1>. HIDE DEF F
<1>7. CASE runner[r].state = "pipe"
  <2>1. sent # <<>> /\ own[F] = sent /\ InPipe(r) = Front(sent)
    BY <1>5, <1>6, <1>7 DEF OnTheWay, InPipe, F
  <2>2. Len(sent) \in Nat \ {0} /\ sent = Append(Front(sent), sent[Len(sent)])
    BY <2>1, FrontIs
  <2>3. sent[Len(sent)] \in Mark
    BY <2>2
  <2>4. \E mark \in Mark : own'[F] = Append(InPipe(r), mark)
    BY <1>1, <2>1, <2>2, <2>3
  <2>. QED  BY <1>3, <1>4, <2>4 DEF BearsOut, F
<1>8. CASE runner[r].state = "log"
  <2>1. own'[F] = sent /\ InPipe(r) = sent
    BY <1>1, <1>5, <1>8 DEF InPipe, F
  <2>. QED  BY <1>4, <2>1 DEF BearsOut, F
<1>9. CASE runner[r].state = "open"
  <2>1. InPipe(r) = <<>>
    BY <1>5, <1>6, <1>9 DEF OnTheWay, InPipe
  <2>. QED  BY <1>3, <1>4, <2>1 DEF BearsOut
<1>10. runner[r].state \in {"open", "log", "pipe"}
  BY <1>1 DEF Typed, RunnerValue, IsOut
<1>. QED  BY <1>7, <1>8, <1>9, <1>10

LEMMA KeptStep ==
  ASSUME Typed, Unbegun, Ours, Marked, Kept, [Next]_vars
  PROVE  Kept'
<1>. USE DEF judge, disk, past
<1>0. \A c : FileOf(c)' = FileOf(c)
  BY NamesStay
<1>1. CASE started' = 0
  BY <1>1 DEF Kept
<1>2. CASE ContestRefused \/ SandboxRefused \/ LogMissing \/ NoRoom \/ Finish \/ Killed \/ Interrupted
  <2>1. started' = 0
    BY <1>2 DEF ContestRefused, SandboxRefused, LogMissing, NoRoom, Finish, Killed, Interrupted, Return, Forget
  <2>. QED  BY <1>1, <2>1
<1>3. CASE Begin \/ LoadContest \/ AskSandbox \/ OpenLog \/ LogsOpen \/ MakeRoom \/ Enlist \/ RunJobs
  <2>1. started' = 0
    BY <1>3 DEF Begin, LoadContest, AskSandbox, OpenLog, LogsOpen, MakeRoom, Enlist, RunJobs, Unbegun
  <2>. QED  BY <1>1, <2>1
<1>4. started \in Nat /\ DOMAIN marks \subseteq 1 .. started /\ runs \in Nat
      /\ \A q \in DOMAIN runner : q[1] \in Nat /\ q[2] \in Nat /\ q = <<q[1], q[2]>>
  <2>1. started \in Nat /\ DOMAIN marks \subseteq 1 .. started /\ runs \in Nat
    BY DEF Typed
  <2>. QED  BY <2>1, RunnerIsPair
<1>5. CASE StartJob
  <2>1. PICK new, value :
          /\ new = <<runs, started + 1>> /\ value = [cell |-> table[started + 1], marks |-> <<>>, state |-> "open"]
          /\ runner' = With(runner, new, value)
          /\ pc = "jobs" /\ started' = started + 1 /\ UNCHANGED <<runs, marks, table, own, cut>>
          /\ shared \subseteq shared'
          /\ InHand(FileOf(table[started + 1])) # {} => FileOf(table[started + 1]) \in shared'
    BY <1>5 DEF StartJob
  <2>2. /\ \A q \in DOMAIN runner' : (q = new /\ runner'[q] = value) \/ (q \in DOMAIN runner /\ q # new /\ runner'[q] = runner[q])
    <3>1. new \notin DOMAIN runner
      BY <1>4, <2>1 DEF Ours, Own
    <3>. QED  BY <2>1, <3>1 DEF With
  <2>3. new[1] = runs /\ new[2] = started + 1 /\ value.state = "open" /\ value.cell = table[started + 1]
    BY <2>1
  <2>4. ASSUME NEW j \in 1 .. started', FileOf(table[j]) \notin shared'
        PROVE  /\ \A q \in DOMAIN runner' :
                    IsOut(q)' /\ FileOf(runner'[q].cell) = FileOf(table[j]) => q[1] = runs /\ j <= q[2]
               /\ (\A i \in j + 1 .. started' : FileOf(table[i]) # FileOf(table[j])) =>
                    /\ j \in DOMAIN marks => BearsOut(own[FileOf(table[j])], marks[j], j \in cut)
                    /\ \A q \in DOMAIN runner' :
                         q = <<runs, j>> /\ runner'[q].state # "open" => BearsOut(own[FileOf(table[j])], runner'[q].marks, j \in cut)
    <3>1. CASE j \in 1 .. started
      <4>1. FileOf(table[j]) \notin shared
        BY <2>1, <2>4
      <4>2. \A q \in DOMAIN runner : IsOut(q) /\ FileOf(runner[q].cell) = FileOf(table[j]) => q[1] = runs /\ j <= q[2]
        BY <3>1, <4>1 DEF Kept
      <4>3. \A q \in DOMAIN runner' :
              IsOut(q)' /\ FileOf(runner'[q].cell) = FileOf(table[j]) => q[1] = runs /\ j <= q[2]
        <5>. SUFFICES ASSUME NEW q \in DOMAIN runner', IsOut(q)', FileOf(runner'[q].cell) = FileOf(table[j])
                      PROVE  q[1] = runs /\ j <= q[2]
          OBVIOUS
        <5>1. CASE q = new
          BY <1>4, <2>3, <3>1, <5>1
        <5>2. CASE q \in DOMAIN runner /\ runner'[q] = runner[q]
          BY <4>2, <5>2 DEF IsOut
        <5>. QED  BY <2>2, <5>1, <5>2
      <4>4. ASSUME \A i \in j + 1 .. started' : FileOf(table[i]) # FileOf(table[j]) PROVE LastStarted(j)
        BY <1>4, <2>1, <4>4 DEF LastStarted
      <4>5. <<runs, j>> # new
        BY <1>4, <2>3, <3>1
      <4>6. LastStarted(j) =>
               /\ j \in DOMAIN marks => BearsOut(own[FileOf(table[j])], marks[j], j \in cut)
               /\ \A q \in DOMAIN runner :
                    q = <<runs, j>> /\ runner[q].state # "open" => BearsOut(own[FileOf(table[j])], runner[q].marks, j \in cut)
        BY <3>1, <4>1 DEF Kept
      <4>. QED  BY <2>2, <4>3, <4>4, <4>5, <4>6
    <3>2. CASE j = started + 1
      <4>1. InHand(FileOf(table[j])) = {}
        BY <2>1, <2>4, <3>2
      <4>2. \A q \in DOMAIN runner' :
              IsOut(q)' /\ FileOf(runner'[q].cell) = FileOf(table[j]) => q[1] = runs /\ j <= q[2]
        BY <1>4, <2>1, <2>2, <2>3, <3>2, <4>1 DEF IsOut, InHand
      <4>3. j \notin DOMAIN marks
        BY <1>4, <3>2
      <4>4. \A q \in DOMAIN runner' : q = <<runs, j>> => runner'[q].state = "open"
        BY <2>1, <2>2, <2>3, <3>2
      <4>5. \A q \in DOMAIN runner' :
              q = <<runs, j>> /\ runner'[q].state # "open" => BearsOut(own[FileOf(table[j])], runner'[q].marks, j \in cut)
        BY <4>4, Zenon
      <4>. QED  BY <4>2, <4>3, <4>5
    <3>. QED  BY <1>4, <2>1, <2>4, <3>1, <3>2
  <2>5. PICK t, early : t = table /\ t = table' /\ early = cut /\ early = cut'
    BY <2>1
  <2>. QED  BY <1>0, <2>1, <2>4, <2>5 DEF Kept, LastStarted
<1>6. CASE Collect
  <2>1. PICK r \in DOMAIN runner :
          /\ r[1] = runs /\ ~IsOut(r) /\ marks' = With(marks, r[2], runner[r].marks)
          /\ runner' = Restrict(runner, DOMAIN runner \ {r})
          /\ UNCHANGED <<runs, started, table, own, shared, cut>>
    BY <1>6 DEF Collect, Out
  <2>2. \A q \in DOMAIN runner' : q \in DOMAIN runner /\ runner'[q] = runner[q]
    BY <2>1 DEF Restrict
  <2>3. r = <<runs, r[2]>> /\ runner[r].state # "open"
    BY <1>4, <2>1 DEF IsOut
  <2>4. marks'[r[2]] = runner[r].marks /\ \A j \in DOMAIN marks' : j = r[2] \/ (j \in DOMAIN marks /\ marks'[j] = marks[j])
    BY <2>1 DEF With
  <2>5. ASSUME NEW j \in 1 .. started, FileOf(table[j]) \notin shared
        PROVE  /\ \A q \in DOMAIN runner' :
                    IsOut(q)' /\ FileOf(runner'[q].cell) = FileOf(table[j]) => q[1] = runs /\ j <= q[2]
               /\ (\A i \in j + 1 .. started : FileOf(table[i]) # FileOf(table[j])) =>
                    /\ j \in DOMAIN marks' => BearsOut(own[FileOf(table[j])], marks'[j], j \in cut)
                    /\ \A q \in DOMAIN runner' :
                         q = <<runs, j>> /\ runner'[q].state # "open" => BearsOut(own[FileOf(table[j])], runner'[q].marks, j \in cut)
    <3>1. \A q \in DOMAIN runner : IsOut(q) /\ FileOf(runner[q].cell) = FileOf(table[j]) => q[1] = runs /\ j <= q[2]
      BY <2>5 DEF Kept
    <3>2. ASSUME \A i \in j + 1 .. started : FileOf(table[i]) # FileOf(table[j])
          PROVE  /\ j \in DOMAIN marks => BearsOut(own[FileOf(table[j])], marks[j], j \in cut)
                 /\ \A q \in DOMAIN runner :
                      q = <<runs, j>> /\ runner[q].state # "open" => BearsOut(own[FileOf(table[j])], runner[q].marks, j \in cut)
      BY <2>5, <3>2 DEF Kept, LastStarted
    <3>3. \A q \in DOMAIN runner' :
              IsOut(q)' /\ FileOf(runner'[q].cell) = FileOf(table[j]) => q[1] = runs /\ j <= q[2]
      BY <2>2, <3>1 DEF IsOut
    <3>. QED  BY <2>2, <2>3, <2>4, <3>2, <3>3
  <2>6. ASSUME NEW j \in 1 .. started', FileOf(table'[j]) \notin shared'
        PROVE  /\ \A q \in DOMAIN runner' :
                    IsOut(q)' /\ FileOf(runner'[q].cell) = FileOf(table'[j]) => q[1] = runs' /\ j <= q[2]
               /\ (\A i \in j + 1 .. started' : FileOf(table'[i]) # FileOf(table'[j])) =>
                    /\ j \in DOMAIN marks' => BearsOut(own'[FileOf(table'[j])], marks'[j], j \in cut')
                    /\ \A q \in DOMAIN runner' :
                         q = <<runs', j>> /\ runner'[q].state # "open" => BearsOut(own'[FileOf(table'[j])], runner'[q].marks, j \in cut')
    BY <2>1, <2>5, <2>6
  <2>. QED  BY <1>0, <2>6 DEF Kept, LastStarted
<1>7. ASSUME UNCHANGED <<runs, started, marks, table, own, shared, cut, runner>> PROVE Kept'
  <2>1. PICK t, s, u, R, early : early = cut /\ early = cut' /\ t = table /\ t = table' /\ s = started /\ s = started' /\ u = runs /\ u = runs' /\ R = runner /\ R = runner'
    BY <1>7
  <2>. QED  BY <1>0, <1>7, <2>1 DEF Kept, LastStarted, IsOut
<1>8. CASE JobsDone \/ GiveUp \/ WriteResults \/ WriteScores \/ WriteTrace
  BY <1>7, <1>8 DEF JobsDone, GiveUp, WriteResults, WriteScores, WriteTrace
<1>9. CASE UNCHANGED vars
  BY <1>7, <1>9 DEF vars
<1>10. ASSUME NEW r \in DOMAIN runner, RunnerStep(r) \/ RunnerDies(r), started > 0 PROVE Kept'
  <2>1. UNCHANGED <<runs, pc, started, marks, table, shared>> /\ IsOut(r)
        /\ \A q \in DOMAIN runner' :
             q \in DOMAIN runner /\ runner'[q].cell = runner[q].cell /\ (q # r => runner'[q] = runner[q])
    BY <1>10, OneRunner
  <2>2. pc \in {"jobs", "report"}
    BY <1>10 DEF Unbegun
  <2>3. PICK c \in Cell : c = runner[r].cell
    BY DEF Typed, RunnerValue
  <2>4. PICK F \in Submission : F = FileOf(c)
    BY <2>3, DeservedType DEF Typed
  <2>5. \A s \in Submission : s # F => own'[s] = own[s]
    <3>1. CASE RunnerStep(r)
      BY <2>3, <2>4, <3>1, LogOfRunner
    <3>2. CASE RunnerDies(r)
      BY <3>2 DEF RunnerDies
    <3>. QED  BY <1>10, <3>1, <3>2
  <2>6. ASSUME r \in DOMAIN runner', runner'[r].state # "open",
               runner[r].state # "open" => own[F] = runner[r].marks
        PROVE  BearsOut(own'[F], runner'[r].marks, r[1] = runs /\ r[2] \in cut')
    <3>1. CASE RunnerStep(r)
      <4>1. \/ runner'[r].state # "open" /\ own'[F] = runner'[r].marks
            \/ /\ runner[r].state # "open"
               /\ own'[F] = own[F] /\ runner'[r].marks = runner[r].marks
            \/ runner[r].state # "open" /\ own[F] # runner[r].marks
        BY <2>3, <2>4, <2>6, <3>1, LogOfRunner
      <4>. QED  BY <2>6, <4>1 DEF BearsOut
    <3>2. CASE RunnerDies(r)
      BY <2>3, <2>4, <2>6, <3>2, LogOfTheDead
    <3>. QED  BY <1>10, <3>1, <3>2
  <2>9. \A j \in 1 .. started : j # r[2] \/ r[1] # runs => (j \in cut' <=> j \in cut)
    <3>1. cut' = cut \/ (r[1] = runs /\ cut' = cut \cup {r[2]})
      BY <1>10, OneRunner
    <3>. QED  BY <3>1
  <2>10. r[1] = runs => r[2] \notin cut
    BY <2>1 DEF Ours, Early
  <2>7. ASSUME NEW j \in 1 .. started, FileOf(table[j]) \notin shared
        PROVE  /\ \A q \in DOMAIN runner' :
                    IsOut(q)' /\ FileOf(runner'[q].cell) = FileOf(table[j]) => q[1] = runs /\ j <= q[2]
               /\ (\A i \in j + 1 .. started : FileOf(table[i]) # FileOf(table[j])) =>
                    /\ j \in DOMAIN marks => BearsOut(own'[FileOf(table[j])], marks[j], j \in cut')
                    /\ \A q \in DOMAIN runner' :
                         q = <<runs, j>> /\ runner'[q].state # "open" => BearsOut(own'[FileOf(table[j])], runner'[q].marks, j \in cut')
    <3>1. \A q \in DOMAIN runner : IsOut(q) /\ FileOf(runner[q].cell) = FileOf(table[j]) => q[1] = runs /\ j <= q[2]
      BY <2>7 DEF Kept
    <3>2. ASSUME \A i \in j + 1 .. started : FileOf(table[i]) # FileOf(table[j])
          PROVE  /\ j \in DOMAIN marks => BearsOut(own[FileOf(table[j])], marks[j], j \in cut)
                 /\ \A q \in DOMAIN runner :
                      q = <<runs, j>> /\ runner[q].state # "open" => BearsOut(own[FileOf(table[j])], runner[q].marks, j \in cut)
      BY <2>7, <3>2 DEF Kept, LastStarted
    <3>3. \A q \in DOMAIN runner' :
              IsOut(q)' /\ FileOf(runner'[q].cell) = FileOf(table[j]) => q[1] = runs /\ j <= q[2]
      BY <2>1, <3>1 DEF IsOut
    <3>4. FileOf(table[j]) \in Submission
      <4>1. table[j] \in Cell
        BY <2>7 DEF Typed
      <4>. QED  BY <4>1, DeservedType DEF Typed
    <3>5. \A q \in DOMAIN runner : q = <<runs, j>> => runner[q].cell = table[j] /\ j \notin DOMAIN marks
      <4>. SUFFICES ASSUME NEW q \in DOMAIN runner, q = <<runs, j>> PROVE runner[q].cell = table[j] /\ j \notin DOMAIN marks
        OBVIOUS
      <4>1. q[1] = runs /\ q[2] = j
        OBVIOUS
      <4>. QED  BY <2>2, <4>1 DEF Ours, Own
    <3>6. ASSUME \A i \in j + 1 .. started : FileOf(table[i]) # FileOf(table[j])
          PROVE  /\ j \in DOMAIN marks => BearsOut(own'[FileOf(table[j])], marks[j], j \in cut')
                 /\ \A q \in DOMAIN runner' :
                      q = <<runs, j>> /\ runner'[q].state # "open" => BearsOut(own'[FileOf(table[j])], runner'[q].marks, j \in cut')
      <4>1. CASE FileOf(table[j]) # F
        <5>1. own'[FileOf(table[j])] = own[FileOf(table[j])]
          BY <2>5, <3>4, <4>1
        <5>2. r # <<runs, j>>
          BY <2>3, <2>4, <3>5, <4>1
        <5>3. j \in cut' <=> j \in cut
          BY <1>4, <2>9, <5>2
        <5>4. \A text, sent : BearsOut(text, sent, j \in cut') <=> BearsOut(text, sent, j \in cut)
          BY <5>3 DEF BearsOut
        <5>. QED  BY <2>1, <3>2, <3>6, <5>1, <5>2, <5>4
      <4>2. CASE FileOf(table[j]) = F
        <5>1. r[1] = runs /\ j <= r[2]
          BY <2>1, <2>3, <2>4, <3>1, <4>2
        <5>2. r[2] <= started /\ table[r[2]] = c
          BY <2>2, <2>3, <5>1 DEF Ours, Own
        <5>3. r[2] = j
          BY <1>4, <2>4, <3>6, <4>2, <5>1, <5>2
        <5>4. r = <<runs, j>>
          BY <1>4, <5>1, <5>3
        <5>5. j \notin DOMAIN marks
          BY <3>5, <5>4
        <5>6. runner[r].state # "open" => own[F] = runner[r].marks
          <6>1. runner[r].state # "open" => BearsOut(own[F], runner[r].marks, j \in cut)
            BY <3>2, <3>6, <4>2, <5>4
          <6>2. j \notin cut
            BY <2>10, <5>1, <5>3
          <6>. QED  BY <6>1, <6>2 DEF BearsOut
        <5>7. r \in DOMAIN runner' /\ runner'[r].state # "open" =>
                BearsOut(own'[F], runner'[r].marks, r[1] = runs /\ r[2] \in cut')
          BY <2>6, <5>6
        <5>8. \A text, sent : BearsOut(text, sent, r[1] = runs /\ r[2] \in cut') <=> BearsOut(text, sent, j \in cut')
          BY <5>1, <5>3 DEF BearsOut
        <5>. QED  BY <4>2, <5>4, <5>5, <5>7, <5>8
      <4>. QED  BY <4>1, <4>2
    <3>. QED  BY <3>3, <3>6
  <2>8. PICK t, m : t = table /\ t = table' /\ m = marks /\ m = marks'
    BY <2>1
  <2>. QED  BY <1>0, <2>1, <2>7, <2>8 DEF Kept, LastStarted
<1>11. ASSUME NEW r \in DOMAIN runner, RunnerStep(r) \/ RunnerDies(r) PROVE Kept'
  <2>1. CASE started > 0
    BY <1>10, <1>11, <2>1
  <2>2. CASE ~(started > 0)
    <3>1. started' = started
      BY <1>11, OneRunner
    <3>. QED  BY <1>1, <1>4, <2>2, <3>1
  <2>. QED  BY <2>1, <2>2
<1>. QED
  BY <1>2, <1>3, <1>5, <1>6, <1>8, <1>9, <1>11 DEF Next, JudgeStep, Over

(***************************************************************************)
(* The cells of the scoreboard, and where the logs tell of them.           *)
(***************************************************************************)
LEMMA Later ==
  ASSUME NEW W \in Nat \ {0}, NEW u \in Nat, NEW v \in Nat, u < v, NEW c \in 0 .. W - 1, NEW d \in 0 .. W - 1
  PROVE  u * W + c + 1 < v * W + d + 1
<1>1. PICK k \in Nat : v = u + 1 + k
  <2>1. v - u - 1 \in Nat /\ v = u + 1 + (v - u - 1)
    OBVIOUS
  <2>. QED  BY <2>1
<1>2. v * W = u * W + W + k * W /\ k * W \in Nat /\ u * W \in Nat
  BY <1>1
<1>3. \A x, y \in Nat : x + c + 1 < x + W + y + d + 1
  OBVIOUS
<1>. QED  BY <1>2, <1>3

LEMMA Grid ==
  /\ \A u \in Nat, c \in 0 .. Totals : Index(u, c) \in Nat \ {0}
  /\ \A u \in Nat, c \in 0 .. Totals, v \in Nat, d \in 0 .. Totals :
       /\ Index(u, c) = Index(v, d) => u = v /\ c = d
       /\ Index(u, c) < Index(v, d) <=> u < v \/ (u = v /\ c < d)
  /\ \A u \in Nat, c \in 0 .. Totals : Index(u, c + 1) = Index(u, c) + 1
  /\ \A u \in Nat : Index(u + 1, 0) = Index(u, Totals) + 1
<1>1. PICK W \in Nat \ {0} : W = Width /\ Totals = W - 1
  BY Sizes
<1>2. \A u \in Nat : u * W \in Nat /\ (u + 1) * W = u * W + W
  OBVIOUS
<1>3. \A u \in Nat, c \in 0 .. Totals : Index(u, c) = u * W + c + 1 /\ Index(u, c + 1) = u * W + c + 1 + 1
  BY <1>1, <1>2 DEF Index
<1>4. \A u \in Nat : Index(u + 1, 0) = u * W + W + 1
  BY <1>1, <1>2 DEF Index
<1>5. \A u \in Nat, c \in 0 .. Totals, v \in Nat, d \in 0 .. Totals : u < v => Index(u, c) < Index(v, d)
  <2>. TAKE u \in Nat, c \in 0 .. Totals, v \in Nat, d \in 0 .. Totals
  <2>1. c \in 0 .. W - 1 /\ d \in 0 .. W - 1
    BY <1>1
  <2>2. u < v => u * W + c + 1 < v * W + d + 1
    BY <2>1, Later
  <2>. QED  BY <1>3, <2>2
<1>6. \A u \in Nat, c \in 0 .. Totals, d \in 0 .. Totals : Index(u, c) < Index(u, d) <=> c < d
  BY <1>1, <1>2, <1>3
<1>7. \A u \in Nat, c \in 0 .. Totals : Index(u, c) \in Nat \ {0}
  <2>. TAKE u \in Nat, c \in 0 .. Totals
  <2>1. PICK x \in Nat : x = u * W
    BY <1>2
  <2>2. c \in Nat
    BY <1>1
  <2>3. Index(u, c) = x + c + 1
    BY <1>3, <2>1
  <2>. QED  BY <2>1, <2>2, <2>3
<1>8. ASSUME NEW u \in Nat, NEW c \in 0 .. Totals, NEW v \in Nat, NEW d \in 0 .. Totals
      PROVE  /\ Index(u, c) = Index(v, d) => u = v /\ c = d
             /\ Index(u, c) < Index(v, d) <=> u < v \/ (u = v /\ c < d)
  <2>1. /\ u < v => Index(u, c) < Index(v, d)
        /\ v < u => Index(v, d) < Index(u, c)
        /\ u = v => (Index(u, c) < Index(v, d) <=> c < d) /\ (Index(v, d) < Index(u, c) <=> d < c)
        /\ Index(u, c) \in Nat /\ Index(v, d) \in Nat
    BY <1>5, <1>6, <1>7
  <2>2. c \in Nat /\ d \in Nat
    BY <1>1
  <2>. QED  BY <2>1, <2>2
<1>9. \A u \in Nat, c \in 0 .. Totals : Index(u, c + 1) = Index(u, c) + 1
  BY <1>3
<1>10. \A u \in Nat : Index(u + 1, 0) = Index(u, Totals) + 1
  BY <1>1, <1>2, <1>3, <1>4
<1>. QED  BY <1>7, <1>8, <1>9, <1>10

(* The tables go from one place to the next without leaving one out.       *)
LEMMA AdvanceByOne ==
  ASSUME Typed, Advance, row <= UsersCount
  PROVE  Index(row', column') = Index(row, column) + 1
<1>1. row \in Nat /\ column \in 0 .. Totals /\ Totals \in Nat
  BY Sizes DEF Typed
<1>2. CASE column < Totals
  BY <1>1, <1>2, Grid DEF Advance
<1>3. CASE ~(column < Totals)
  BY <1>1, <1>3, Grid DEF Advance
<1>. QED  BY <1>2, <1>3

(* A row's scores, and the sum of the first of them.                       *)
LEMMA ToldType ==
  ASSUME Typed, NEW c
  PROVE  Told(c).mark \in Mark \cup {Nul} /\ Told(c).score \in Nat
<1>1. CellOf(JobOf(c)).mark \in Mark \cup {Nul} /\ CellOf(JobOf(c)).score \in Nat
  BY CellType
<1>. QED  BY <1>1 DEF Told, AbsentCell, Mark

LEMMA RowSums ==
  ASSUME Typed, NEW u
  PROVE  /\ Scores(u) \in [Problem -> Int]
         /\ \A n \in Int : n <= 0 => SumOver(Scores(u), 1 .. n) = 0
         /\ \A n \in Problem : SumOver(Scores(u), 1 .. n) = SumOver(Scores(u), 1 .. n - 1) + Told(<<u, n>>).score
         /\ \A n \in 0 .. ProblemsCount : SumOver(Scores(u), 1 .. n) \in Int
<1>1. Scores(u) \in [Problem -> Int] /\ \A n \in Problem : Scores(u)[n] = Told(<<u, n>>).score
  BY ToldType DEF Scores
<1>2. PICK f \in [Problem -> Int] : f = Scores(u)
  BY <1>1
<1>3. \A n \in Int : n <= 0 => SumOver(f, 1 .. n) = 0
  <2>1. \A n \in Int : n <= 0 => 1 .. n = {}
    OBVIOUS
  <2>. QED  BY <2>1, SumEmpty
<1>4. ASSUME NEW n \in Problem PROVE SumOver(f, 1 .. n) = SumOver(f, 1 .. n - 1) + f[n] /\ SumOver(f, 1 .. n) \in Int
  <2>1. 1 .. n - 1 \in SUBSET Problem /\ n \in Problem \ (1 .. n - 1) /\ 1 .. n = (1 .. n - 1) \cup {n}
    BY <1>4, Sizes
  <2>2. SumOver(f, 1 .. n - 1) \in Int /\ SumOver(f, (1 .. n - 1) \cup {n}) = SumOver(f, 1 .. n - 1) + f[n]
    <3>. DEFINE T == 1 .. n - 1
    <3>1. T \in SUBSET Problem /\ n \in Problem \ T /\ IsFiniteSet(Problem)
      BY <2>1, Sizes
    <3>. HIDE DEF T
    <3>2. SumOver(f, T) \in Int /\ SumOver(f, T \cup {n}) = SumOver(f, T) + f[n]
      BY <3>1, SumAdd
    <3>. QED  BY <3>2 DEF T
  <2>3. f[n] \in Int
    BY <1>4
  <2>4. SumOver(f, 1 .. n) = SumOver(f, 1 .. n - 1) + f[n]
    BY <2>1, <2>2
  <2>. QED  BY <2>2, <2>3, <2>4
<1>5. ASSUME NEW n \in 0 .. ProblemsCount PROVE SumOver(f, 1 .. n) \in Int
  <2>1. n = 0 \/ n \in Problem
    BY <1>5, Sizes
  <2>. QED  BY <1>3, <1>4, <2>1
<1>. QED  BY <1>1, <1>2, <1>3, <1>4, <1>5

(* While the logs are written, what they are to say does not change.       *)
LEMMA TellingStays ==
  ASSUME UNCHANGED <<name, present, table, marks>>
  PROVE  /\ \A c : Told(c)' = Told(c)
         /\ \A u, c : ResultOf(u, c)' = ResultOf(u, c) /\ ScoreOf(u, c)' = ScoreOf(u, c)
         /\ \A u : Scores(u)' = Scores(u)
         /\ \A j : CellOf(j)' = CellOf(j) /\ Entry(j)' = Entry(j)
<1>1. \A j : CellOf(j)' = CellOf(j)
  BY DEF CellOf
<1>2. \A j : Sent(j)' = Sent(j)
  BY DEF Sent
<1>3. \A j : Entry(j)' = Entry(j)
  BY <1>1, <1>2 DEF Entry
<1>4. \A c : JobOf(c)' = JobOf(c)
  BY DEF JobOf
<1>5. \A c : Told(c)' = Told(c)
  BY <1>4 DEF Told, CellOf
<1>6. \A u : Scores(u)' = Scores(u)
  BY <1>5 DEF Scores
<1>7. \A u, c : ResultOf(u, c)' = ResultOf(u, c) /\ ScoreOf(u, c)' = ScoreOf(u, c)
  BY <1>5, <1>6 DEF ResultOf, ScoreOf, Line
<1>. QED  BY <1>1, <1>3, <1>5, <1>6, <1>7

(* What main shows of the cell it is at is what there is to tell of it.    *)
LEMMA HereIsTold ==
  ASSUME Typed, Listed, Cursors, pc = "report", IsCell
  PROVE  Shown = Told(<<row, column>>) /\ (~IsJob => Told(<<row, column>>) = AbsentCell)
<1>1. CASE IsJob
  <2>1. JobOf(<<row, column>>) = at
    BY <1>1, AtIsHere DEF JobOf
  <2>. QED  BY <1>1, <2>1 DEF Shown, Told, IsJob
<1>2. CASE ~IsJob
  BY <1>2 DEF Shown, Told, IsJob
<1>. QED  BY <1>1, <1>2

LEMMA PieceIsLine ==
  ASSUME Typed, Listed, Cursors, Reported, pc = "report", row <= UsersCount, pen \notin DOMAIN UpTo, NEW value
  PROVE  Piece(value) = Line(row, column, value)
<1>1. row \in Nat /\ column \in 0 .. Totals /\ Totals = ProblemsCount + 1 /\ Problem = 1 .. ProblemsCount
      /\ ProblemsCount \in Nat
  BY Sizes DEF Typed
<1>2. total = SumOver(Scores(row), 1 .. column - 1)
  BY DEF Reported, Summed
<1>3. CASE row = 0
  <2>1. ~(row > 0) /\ ~IsCell
    BY <1>1, <1>3 DEF IsCell
  <2>. QED  BY <1>3, <2>1 DEF Piece, WriteName, Line
<1>4. CASE row > 0 /\ column = 0
  <2>1. row # 0 /\ column # Totals /\ ~IsCell
    BY <1>1, <1>4 DEF IsCell
  <2>. QED  BY <1>4, <2>1 DEF Piece, WriteName, Line
<1>5. CASE row > 0 /\ column \in Problem
  BY <1>1, <1>5 DEF Piece, WriteName, Line, IsCell
<1>6. CASE row > 0 /\ column = Totals
  <2>1. 1 .. column - 1 = Problem
    BY <1>1, <1>6
  <2>2. column # 0 /\ column \notin Problem
    BY <1>1, <1>6
  <2>. QED  BY <1>1, <1>2, <1>6, <2>1, <2>2 DEF Piece, WriteName, Line, IsCell
<1>7. row > 0 => column = 0 \/ column \in Problem \/ column = Totals
  BY <1>1
<1>. QED  BY <1>1, <1>3, <1>4, <1>5, <1>6, <1>7

LEMMA Appended ==
  ASSUME NEW S, NEW text \in Seq(S), NEW value
  PROVE  /\ Len(Append(text, value)) = Len(text) + 1 /\ Len(text) \in Nat
         /\ \A i \in 1 .. Len(text) : Append(text, value)[i] = text[i]
         /\ Append(text, value)[Len(text) + 1] = value
<1>. DEFINE T == S \cup {value}
<1>1. S \subseteq T /\ value \in T
  OBVIOUS
<1>. HIDE DEF T
<1>2. text \in Seq(T)
  BY <1>1, SeqMonotonic
<1>3. Len(text) \in Nat
  OBVIOUS
<1>. QED  BY <1>1, <1>2, <1>3, AppendProperties

(* One more piece of a table, at the cell it is about.                     *)
Tells(text, says) ==
  \A u \in 0 .. UsersCount, c \in 0 .. Totals : Index(u, c) <= Len(text) => text[Index(u, c)] = says[<<u, c>>]

LEMMA OneMorePiece ==
  ASSUME NEW S, NEW text \in Seq(S), NEW says, Tells(text, says),
         NEW u \in 0 .. UsersCount, NEW c \in 0 .. Totals, Len(text) = Index(u, c) - 1,
         NEW value, value = says[<<u, c>>]
  PROVE  Tells(Append(text, value), says) /\ Len(Append(text, value)) = Index(u, c)
<1>1. /\ Len(Append(text, value)) = Len(text) + 1 /\ Len(text) \in Nat
      /\ \A i \in 1 .. Len(text) : Append(text, value)[i] = text[i]
      /\ Append(text, value)[Len(text) + 1] = value
  BY Appended
<1>2. Index(u, c) \in Nat /\ 0 .. UsersCount \subseteq Nat
  BY Grid, Sizes
<1>3. ASSUME NEW v \in 0 .. UsersCount, NEW d \in 0 .. Totals, Index(v, d) <= Index(u, c)
      PROVE  Append(text, value)[Index(v, d)] = says[<<v, d>>]
  <2>1. Index(v, d) \in Nat \ {0}
    BY <1>2, Grid
  <2>2. CASE Index(v, d) = Index(u, c)
    <3>1. v = u /\ d = c
      <4>1. u \in Nat /\ v \in Nat
        BY <1>2
      <4>2. ~(Index(u, c) < Index(v, d)) /\ ~(Index(v, d) < Index(u, c))
        BY <1>2, <2>1, <2>2
      <4>3. ~(u < v \/ (u = v /\ c < d)) /\ ~(v < u \/ (v = u /\ d < c))
        BY <4>1, <4>2, Grid
      <4>4. c \in Nat /\ d \in Nat
        BY Sizes
      <4>. QED  BY <4>1, <4>3, <4>4
    <3>. QED  BY <1>1, <1>2, <3>1
  <2>3. CASE Index(v, d) # Index(u, c)
    BY <1>1, <1>2, <1>3, <2>1, <2>3 DEF Tells
  <2>. QED  BY <2>2, <2>3
<1>4. Len(Append(text, value)) = Index(u, c)
  BY <1>1, <1>2
<1>. QED  BY <1>3, <1>4 DEF Tells

LEMMA ReportedInit == Init => Reported
  BY DEF Init, Reported

(* What the three logs have, told apart from what they are to say.         *)
HasReported(f, r, c, p, a, t, results, scores, entries, row_scores) ==
  /\ Len(f.results) = Index(r, c) - (IF p = "results" THEN 1 ELSE 0)
  /\ Len(f.scores)  = Index(r, c) - (IF p \in DOMAIN UpTo THEN 0 ELSE 1)
  /\ Len(f.trace) = IF p \in DOMAIN Before THEN a ELSE a - 1
  /\ Tells(f.results, results) /\ Tells(f.scores, scores)
  /\ \A i \in 1 .. a - 1 : f.trace[i] = entries[i]
  /\ p \in DOMAIN Before => f.trace[a] = Begun(entries[a], Before[p])
  /\ t = SumOver(row_scores[r], 1 .. (IF p \in DOMAIN UpTo THEN c ELSE c - 1))

LEMMA ReportedIs ==
  ASSUME pc = "report", Typed,
         NEW results, \A u \in 0 .. UsersCount, c \in 0 .. Totals : results[<<u, c>>] = ResultOf(u, c),
         NEW scores, \A u \in 0 .. UsersCount, c \in 0 .. Totals : scores[<<u, c>>] = ScoreOf(u, c),
         NEW entries, \A i \in DOMAIN table : entries[i] = Entry(i),
         NEW sums, \A u \in 0 .. UsersCount + 1 : sums[u] = Scores(u),
         at <= Len(table) + 1, pen \in DOMAIN Before => at \in DOMAIN table
  PROVE  Reported <=> HasReported(file, row, column, pen, at, total, results, scores, entries, sums)
<1>1. \A i \in 1 .. at - 1 : i \in DOMAIN table
  BY DEF Typed
<1>2. row \in 0 .. UsersCount + 1
  BY DEF Typed
<1>3. (\A u \in 0 .. UsersCount, c \in 0 .. Totals :
         /\ Index(u, c) <= Len(file.results) => file.results[Index(u, c)] = ResultOf(u, c)
         /\ Index(u, c) <= Len(file.scores)  => file.scores[Index(u, c)]  = ScoreOf(u, c))
      <=> Tells(file.results, results) /\ Tells(file.scores, scores)
  BY DEF Tells
<1>4. (\A i \in 1 .. at - 1 : file.trace[i] = Entry(i)) <=> \A i \in 1 .. at - 1 : file.trace[i] = entries[i]
  BY <1>1
<1>5. (\A u \in {row} : total = SumOver(Scores(u), 1 .. Summed))
      <=> total = SumOver(sums[row], 1 .. (IF pen \in DOMAIN UpTo THEN column ELSE column - 1))
  BY <1>2 DEF Summed
<1>6. pen \in DOMAIN Before => entries[at] = Entry(at)
  OBVIOUS
<1>. QED  BY <1>3, <1>4, <1>5, <1>6 DEF Reported, HasReported

LEMMA ReportedStep ==
  ASSUME Typed, Typed', Unbegun, Emptied, Listed, Cursors, Cursors', Reported, [Next]_vars
  PROVE  Reported'
<1>. USE DEF judge, disk, past
<1>1. CASE pc' # "report"
  BY <1>1 DEF Reported
<1>2. CASE ContestRefused \/ SandboxRefused \/ LogMissing \/ NoRoom \/ Finish \/ Killed \/ Interrupted
  <2>1. pc' = "shell"
    BY <1>2 DEF ContestRefused, SandboxRefused, LogMissing, NoRoom, Finish, Killed, Interrupted, Return
  <2>. QED  BY <1>1, <2>1
<1>3. CASE Begin \/ LoadContest \/ AskSandbox \/ OpenLog \/ LogsOpen \/ MakeRoom \/ Enlist \/ RunJobs
           \/ StartJob \/ Collect
  <2>1. pc' # "report"
    BY <1>3 DEF Begin, LoadContest, AskSandbox, OpenLog, LogsOpen, MakeRoom, Enlist, RunJobs, StartJob, Collect
  <2>. QED  BY <1>1, <2>1
<1>. DEFINE grid == (0 .. UsersCount) \X (0 .. Totals)
<1>41. PICK results : \A u \in 0 .. UsersCount, c \in 0 .. Totals : results[<<u, c>>] = ResultOf(u, c)
  <2>1. \A u \in 0 .. UsersCount, c \in 0 .. Totals : [x \in grid |-> ResultOf(x[1], x[2])][<<u, c>>] = ResultOf(u, c)
    OBVIOUS
  <2>. QED  BY <2>1
<1>42. PICK scores : \A u \in 0 .. UsersCount, c \in 0 .. Totals : scores[<<u, c>>] = ScoreOf(u, c)
  <2>1. \A u \in 0 .. UsersCount, c \in 0 .. Totals : [x \in grid |-> ScoreOf(x[1], x[2])][<<u, c>>] = ScoreOf(u, c)
    OBVIOUS
  <2>. QED  BY <2>1
<1>43. PICK entries : \A i \in DOMAIN table : entries[i] = Entry(i)
  <2>1. \A i \in DOMAIN table : [k \in DOMAIN table |-> Entry(k)][i] = Entry(i)
    OBVIOUS
  <2>. QED  BY <2>1
<1>44. PICK sums : \A u \in 0 .. UsersCount + 1 : sums[u] = Scores(u)
  <2>1. \A u \in 0 .. UsersCount + 1 : [v \in 0 .. UsersCount + 1 |-> Scores(v)][u] = Scores(u)
    OBVIOUS
  <2>. QED  BY <2>1
<1>. HIDE DEF grid
<1>4. /\ \A u \in 0 .. UsersCount, c \in 0 .. Totals : results[<<u, c>>] = ResultOf(u, c)
      /\ \A u \in 0 .. UsersCount, c \in 0 .. Totals : scores[<<u, c>>] = ScoreOf(u, c)
      /\ \A i \in DOMAIN table : entries[i] = Entry(i)
      /\ \A u \in 0 .. UsersCount + 1 : sums[u] = Scores(u)
  BY <1>41, <1>42, <1>43, <1>44
<1>5. ASSUME UNCHANGED <<name, present, table, marks>>, pc' = "report",
             pen' \in DOMAIN Before => at' \in DOMAIN table,
             HasReported(file', row', column', pen', at', total', results, scores, entries, sums)
      PROVE  Reported'
  <2>1. /\ \A u \in 0 .. UsersCount, c \in 0 .. Totals : results[<<u, c>>] = ResultOf(u, c)'
        /\ \A u \in 0 .. UsersCount, c \in 0 .. Totals : scores[<<u, c>>] = ScoreOf(u, c)'
        /\ \A u \in 0 .. UsersCount + 1 : sums[u] = Scores(u)'
    BY <1>4, <1>5, TellingStays
  <2>2. \A i \in DOMAIN table' : entries[i] = Entry(i)'
    BY <1>4, <1>5, TellingStays
  <2>3. at' <= Len(table') + 1
    BY <1>5 DEF Cursors
  <2>4. \A i \in 1 .. at' - 1 : i \in DOMAIN table'
    <3>1. at' \in Nat /\ table' \in Seq(Cell)
      BY DEF Typed
    <3>2. DOMAIN table' = 1 .. Len(table') /\ Len(table') \in Nat
      BY <3>1
    <3>3. \A n, a \in Nat : a <= n + 1 => \A i \in 1 .. a - 1 : i \in 1 .. n
      OBVIOUS
    <3>. QED  BY <2>3, <3>1, <3>2, <3>3
  <2>5. row' \in 0 .. UsersCount + 1
    BY DEF Typed
  <2>6. \A u \in 0 .. UsersCount, c \in 0 .. Totals :
         /\ Index(u, c) <= Len(file'.results) => file'.results[Index(u, c)] = ResultOf(u, c)'
         /\ Index(u, c) <= Len(file'.scores)  => file'.scores[Index(u, c)]  = ScoreOf(u, c)'
    BY <1>5, <2>1 DEF Tells, HasReported
  <2>7. \A i \in 1 .. at' - 1 : file'.trace[i] = Entry(i)'
    BY <1>5, <2>2, <2>4 DEF HasReported
  <2>8. \A u \in {row'} : total' = SumOver(Scores(u)', 1 .. Summed')
    BY <1>5, <2>1, <2>5 DEF HasReported, Summed
  <2>9. pen' \in DOMAIN Before => file'.trace[at'] = Begun(Entry(at)', Before[pen'])
    BY <1>5, <2>2 DEF HasReported
  <2>. QED  BY <1>5, <2>6, <2>7, <2>8, <2>9 DEF Reported, HasReported
<1>14. ASSUME pc = "report", pen \in DOMAIN UpTo PROVE IsJob /\ at \in DOMAIN table
  BY <1>14, AtIsHere DEF Cursors
<1>15. DOMAIN Before \subseteq DOMAIN UpTo /\ pen \in {"results", "scores"} \cup DOMAIN UpTo
  BY Pens DEF Typed
<1>6. ASSUME UNCHANGED <<pc, name, present, table, marks, file, row, column, pen, at, total>> PROVE Reported'
  <2>1. SUFFICES ASSUME pc = "report" PROVE Reported'
    BY <1>1, <1>6
  <2>2. at <= Len(table) + 1 /\ (pen \in DOMAIN Before => at \in DOMAIN table)
    BY <1>14, <1>15, <2>1 DEF Cursors
  <2>3. HasReported(file, row, column, pen, at, total, results, scores, entries, sums)
    BY <1>4, <2>1, <2>2, ReportedIs
  <2>4. HasReported(file', row', column', pen', at', total', results, scores, entries, sums)
    BY <1>6, <2>3
  <2>. QED  BY <1>5, <1>6, <2>1, <2>2, <2>4
<1>7. ASSUME NEW r \in DOMAIN runner, RunnerStep(r) \/ RunnerDies(r) PROVE Reported'
  BY <1>6, <1>7, OneRunner
<1>8. CASE UNCHANGED vars
  BY <1>6, <1>8 DEF vars
<1>9. CASE JobsDone \/ GiveUp
  <2>1. /\ pc = "jobs" /\ UNCHANGED <<name, present, table, marks>> /\ pc' = "report"
        /\ row' = 0 /\ column' = 0 /\ pen' = "results" /\ at' = 1 /\ total' = 0 /\ file' = file
    BY <1>9 DEF JobsDone, GiveUp, Unbegun
  <2>2. file.results = <<>> /\ file.scores = <<>> /\ file.trace = <<>>
    BY <2>1 DEF Emptied
  <2>3. Index(0, 0) = 1
    BY Sizes DEF Index
  <2>4. Tells(<<>>, results) /\ Tells(<<>>, scores)
    <3>1. \A u \in 0 .. UsersCount, c \in 0 .. Totals : Index(u, c) \in Nat \ {0}
      <4>1. 0 .. UsersCount \subseteq Nat
        BY Sizes
      <4>. QED  BY <4>1, Grid
    <3>2. Len(<<>>) = 0
      OBVIOUS
    <3>. QED  BY <3>1, <3>2 DEF Tells
  <2>5. SumOver(sums[0], 1 .. 0 - 1) = 0
    <3>1. sums[0] = Scores(0)
      BY <1>4, Sizes
    <3>. QED  BY <3>1, RowSums
  <2>7. "results" \notin DOMAIN UpTo /\ "results" \notin DOMAIN Before
    BY Pens
  <2>6. HasReported(file, 0, 0, "results", 1, 0, results, scores, entries, sums)
    BY <2>2, <2>3, <2>4, <2>5, <2>7 DEF HasReported
  <2>. QED  BY <1>5, <2>1, <2>6, <2>7
<1>10. ASSUME pc = "report", row <= UsersCount
       PROVE  /\ HasReported(file, row, column, pen, at, total, results, scores, entries, sums)
              /\ row \in 0 .. UsersCount /\ column \in 0 .. Totals /\ Totals \in Nat /\ at \in Nat
              /\ file.results \in Seq(LogValue) /\ file.scores \in Seq(LogValue) /\ file.trace \in Seq(TraceEntry)
              /\ DOMAIN file = {"results", "trace", "scores"}
              /\ Index(row, column) \in Nat
  <2>1. at <= Len(table) + 1 /\ (pen \in DOMAIN Before => at \in DOMAIN table)
    BY <1>10, <1>14, <1>15 DEF Cursors
  <2>2. row \in 0 .. UsersCount /\ column \in 0 .. Totals
    BY <1>10, Sizes DEF Typed
  <2>3. row \in Nat
    BY <2>2
  <2>4. Index(row, column) \in Nat
    BY <2>2, <2>3, Grid
  <2>. QED  BY <1>4, <1>10, <2>1, <2>2, <2>4, ReportedIs, Sizes DEF Typed
<1>16. /\ "results" \notin DOMAIN UpTo /\ "results" \notin DOMAIN Before
       /\ "scores" \notin DOMAIN UpTo /\ "scores" \notin DOMAIN Before
       /\ "who" \in DOMAIN UpTo /\ "who" \notin DOMAIN Before
  BY Pens
<1>11. CASE WriteResults
  <2>1. /\ pc = "report" /\ row <= UsersCount /\ pen = "results" /\ pen' = "scores"
        /\ file' = [file EXCEPT !.results = Append(@, Piece(WrCell(Shown.mark)))]
        /\ UNCHANGED <<name, pc, present, table, marks, row, column, at, total>>
    BY <1>11 DEF WriteResults
  <2>2. HasReported(file, row, column, "results", at, total, results, scores, entries, sums)
    BY <1>10, <2>1
  <2>3. Piece(WrCell(Shown.mark)) = results[<<row, column>>]
    <3>1. Piece(WrCell(Shown.mark)) = Line(row, column, WrCell(Shown.mark))
      BY <1>16, <2>1, PieceIsLine
    <3>2. Line(row, column, WrCell(Shown.mark)) = ResultOf(row, column)
      <4>1. CASE row # 0 /\ column \in Problem
        <5>1. IsCell
          BY <1>10, <2>1, <4>1 DEF IsCell
        <5>. QED  BY <2>1, <5>1, HereIsTold DEF ResultOf, WrCell
      <4>2. CASE row = 0
        BY <4>2 DEF ResultOf, Line
      <4>3. CASE row # 0 /\ column \notin Problem
        BY <4>3 DEF ResultOf, Line
      <4>. QED  BY <4>1, <4>2, <4>3
    <3>. QED  BY <1>4, <1>10, <2>1, <3>1, <3>2
  <2>4. PICK value : value = Piece(WrCell(Shown.mark))
    OBVIOUS
  <2>5. /\ file'.results = Append(file.results, value)
        /\ file'.scores = file.scores /\ file'.trace = file.trace
    BY <1>10, <2>1, <2>4
  <2>6. Tells(Append(file.results, value), results) /\ Len(Append(file.results, value)) = Index(row, column)
    <3>1. Tells(file.results, results) /\ Len(file.results) = Index(row, column) - 1
      BY <2>2 DEF HasReported
    <3>. QED  BY <1>10, <2>1, <2>3, <2>4, <3>1, OneMorePiece
  <2>7. HasReported(file', row, column, "scores", at, total, results, scores, entries, sums)
    BY <1>10, <1>16, <2>1, <2>2, <2>5, <2>6 DEF HasReported
  <2>. QED  BY <1>5, <1>16, <2>1, <2>7
<1>12. CASE WriteScores
  <2>1. /\ pc = "report" /\ row <= UsersCount /\ pen = "scores" /\ total' = NextTotal
        /\ file' = [file EXCEPT !.scores = Append(@, Piece(WrNumber(Shown.score)))]
        /\ UNCHANGED <<name, pc, present, table, marks, at>>
        /\ IF IsJob THEN pen' = "who" /\ UNCHANGED <<row, column>> ELSE pen' = "results" /\ Advance
    BY <1>12 DEF WriteScores, Typed
  <2>2. HasReported(file, row, column, "scores", at, total, results, scores, entries, sums)
    BY <1>10, <2>1
  <2>3. Piece(WrNumber(Shown.score)) = scores[<<row, column>>]
    <3>1. Piece(WrNumber(Shown.score)) = Line(row, column, WrNumber(Shown.score))
      BY <1>16, <2>1, PieceIsLine
    <3>2. Line(row, column, WrNumber(Shown.score)) = ScoreOf(row, column)
      <4>1. CASE row # 0 /\ column \in Problem
        <5>1. IsCell
          BY <1>10, <2>1, <4>1 DEF IsCell
        <5>. QED  BY <2>1, <5>1, HereIsTold DEF ScoreOf, WrNumber
      <4>2. CASE row = 0
        BY <4>2 DEF ScoreOf, Line
      <4>3. CASE row # 0 /\ column \notin Problem
        BY <4>3 DEF ScoreOf, Line
      <4>. QED  BY <4>1, <4>2, <4>3
    <3>. QED  BY <1>4, <1>10, <2>1, <3>1, <3>2
  <2>4. PICK value : value = Piece(WrNumber(Shown.score))
    OBVIOUS
  <2>5. /\ file'.scores = Append(file.scores, value)
        /\ file'.results = file.results /\ file'.trace = file.trace
    BY <1>10, <2>1, <2>4
  <2>6. Tells(Append(file.scores, value), scores) /\ Len(Append(file.scores, value)) = Index(row, column)
    <3>1. Tells(file.scores, scores) /\ Len(file.scores) = Index(row, column) - 1
      BY <1>16, <2>2 DEF HasReported
    <3>. QED  BY <1>10, <2>1, <2>3, <2>4, <3>1, OneMorePiece
  <2>7. sums[row] = Scores(row) /\ row \in 0 .. UsersCount + 1
    BY <1>4 DEF Typed
  <2>8. total = SumOver(Scores(row), 1 .. column - 1)
    BY <1>16, <2>2, <2>7 DEF HasReported
  <2>9. CASE IsJob
    <3>1. /\ pen' = "who" /\ row' = row /\ column' = column /\ column \in Problem
          /\ Shown = Told(<<row, column>>)
      BY <2>1, <2>9, HereIsTold DEF IsJob, IsCell
    <3>2. total' = total + Shown.score
      <4>1. column # Totals
        BY <3>1, Sizes
      <4>. QED  BY <2>1, <2>9, <4>1 DEF NextTotal
    <3>3. total' = SumOver(sums[row], 1 .. column)
      BY <2>7, <2>8, <3>1, <3>2, RowSums
    <3>4. HasReported(file', row, column, "who", at, total', results, scores, entries, sums)
      BY <1>10, <1>16, <2>1, <2>2, <2>5, <2>6, <3>3 DEF HasReported
    <3>. QED  BY <1>5, <1>16, <2>1, <3>1, <3>4
  <2>10. CASE ~IsJob
    <3>1. pen' = "results" /\ Advance /\ Index(row', column') = Index(row, column) + 1
      BY <2>1, <2>10, AdvanceByOne
    <3>2. total' = SumOver(sums[row'], 1 .. column' - 1)
      <4>1. CASE column = Totals
        <5>1. total' = 0 /\ column' = 0
          BY <1>10, <2>1, <3>1, <4>1 DEF NextTotal, Advance
        <5>2. PICK v \in 0 .. UsersCount + 1 : v = row'
          BY DEF Typed
        <5>3. sums[v] = Scores(v)
          BY <1>4
        <5>. QED  BY <5>1, <5>2, <5>3, RowSums
      <4>2. CASE column # Totals
        <5>1. total' = total /\ column' = column + 1 /\ row' = row
          BY <1>10, <2>1, <2>10, <3>1, <4>2 DEF NextTotal, Advance
        <5>2. SumOver(Scores(row), 1 .. column) = SumOver(Scores(row), 1 .. column - 1)
          <6>1. CASE column = 0
            BY <6>1, RowSums
          <6>2. CASE column \in Problem
            <7>1. Told(<<row, column>>).score = 0
              <8>1. CASE row = 0
                <9>1. row \notin present
                  <10>1. 0 \notin User /\ present \subseteq User
                    BY Sizes DEF Typed
                  <10>. QED  BY <8>1, <10>1
                <9>. QED  BY <9>1 DEF Told, AbsentCell
              <8>2. CASE row # 0
                <9>1. IsCell
                  BY <1>10, <2>1, <6>2, <8>2 DEF IsCell
                <9>2. Told(<<row, column>>) = AbsentCell
                  BY <2>1, <2>10, <9>1, HereIsTold
                <9>. QED  BY <9>2 DEF AbsentCell
              <8>. QED  BY <8>1, <8>2
            <7>2. SumOver(Scores(row), 1 .. column) = SumOver(Scores(row), 1 .. column - 1) + 0
              BY <6>2, <7>1, RowSums
            <7>3. SumOver(Scores(row), 1 .. column - 1) \in Int
              <8>1. column - 1 \in 0 .. ProblemsCount
                BY <6>2, Sizes
              <8>. QED  BY <8>1, RowSums
            <7>. QED  BY <7>2, <7>3
          <6>3. column = 0 \/ column \in Problem
            <7>1. column \in 0 .. ProblemsCount + 1 /\ column # ProblemsCount + 1 /\ ProblemsCount \in Nat
              BY <1>10, <2>1, <4>2, Sizes
            <7>. QED  BY <7>1, Sizes
          <6>. QED  BY <6>1, <6>2, <6>3
        <5>3. column' - 1 = column
          BY <1>10, <2>1, <5>1
        <5>. QED  BY <2>7, <2>8, <5>1, <5>2, <5>3
      <4>. QED  BY <4>1, <4>2
    <3>3. HasReported(file', row', column', "results", at, total', results, scores, entries, sums)
      <4>1. /\ Len(file.results) = Index(row, column)
            /\ Len(file.trace) = at - 1 /\ Tells(file.results, results)
            /\ \A i \in 1 .. at - 1 : file.trace[i] = entries[i]
        BY <1>10, <1>16, <2>1, <2>2 DEF HasReported
      <4>2. Index(row', column') - 1 = Index(row, column)
        BY <1>10, <2>1, <3>1
      <4>. QED  BY <1>16, <2>5, <2>6, <3>2, <4>1, <4>2 DEF HasReported
    <3>. QED  BY <1>5, <1>16, <2>1, <3>1, <3>3
  <2>. QED  BY <2>9, <2>10
<1>13. CASE WriteTrace
  <2>1. /\ pc = "report" /\ pen \in DOMAIN UpTo /\ pen' = NextPen[pen]
        /\ file' = [file EXCEPT !.trace = Append(IF pen = "who" THEN @ ELSE Front(@), Begun(Entry(at), pen))]
        /\ IF pen = "scored" THEN at' = at + 1 /\ Advance ELSE UNCHANGED <<at, row, column>>
        /\ UNCHANGED <<name, pc, present, table, marks, total>>
    BY <1>13 DEF WriteTrace
  <2>2. IsJob /\ row <= UsersCount /\ column \in Problem /\ at \in DOMAIN table /\ at \in Nat \ {0}
    BY <1>14, <1>16, <2>1 DEF Typed, IsJob, IsCell
  <2>3. HasReported(file, row, column, pen, at, total, results, scores, entries, sums)
    BY <1>10, <2>1, <2>2
  <2>4. PICK entry \in WholeEntry : entry = Entry(at)
    BY <2>2, EntryType
  <2>5. entries[at] = entry
    BY <1>4, <2>2, <2>4
  <2>6. PICK value : value = Begun(entry, pen)
    OBVIOUS
  <2>7. PICK base : base = IF pen = "who" THEN file.trace ELSE Front(file.trace)
    OBVIOUS
  <2>8. /\ file'.trace = Append(base, value)
        /\ file'.results = file.results /\ file'.scores = file.scores
    BY <1>10, <2>1, <2>2, <2>4, <2>6, <2>7
  <2>9. Len(file.trace) = (IF pen = "who" THEN at - 1 ELSE at) /\ \A i \in 1 .. at - 1 : file.trace[i] = entries[i]
    <3>1. pen \in DOMAIN Before <=> pen # "who"
      BY <2>1, Pens
    <3>. QED  BY <2>3, <3>1 DEF HasReported
  <2>10. base \in Seq(TraceEntry) /\ Len(base) = at - 1 /\ \A i \in 1 .. at - 1 : base[i] = entries[i]
    <3>1. CASE pen = "who"
      BY <1>10, <2>1, <2>2, <2>7, <2>9, <3>1
    <3>2. CASE pen # "who"
      <4>1. PICK text \in Seq(TraceEntry) : text = file.trace
        BY <1>10, <2>1, <2>2
      <4>2. Len(text) = at /\ text # <<>>
        <5>1. Len(<<>>) = 0
          OBVIOUS
        <5>. QED  BY <2>2, <2>9, <3>2, <4>1, <5>1
      <4>3. /\ Front(text) \in Seq(TraceEntry) /\ Len(Front(text)) = at - 1
            /\ \A i \in DOMAIN Front(text) : Front(text)[i] = text[i]
        BY <4>2, FrontIs
      <4>4. DOMAIN Front(text) = 1 .. at - 1
        BY <4>3
      <4>. QED  BY <2>7, <2>9, <3>2, <4>1, <4>3, <4>4
    <3>. QED  BY <3>1, <3>2
  <2>11. /\ Len(file'.trace) = at /\ \A i \in 1 .. at - 1 : file'.trace[i] = entries[i]
         /\ file'.trace[at] = value
    <3>1. /\ Len(file'.trace) = Len(base) + 1
          /\ \A i \in 1 .. Len(base) : file'.trace[i] = base[i]
          /\ file'.trace[Len(base) + 1] = value
      BY <2>8, <2>10, Appended
    <3>2. Len(base) + 1 = at /\ Len(base) = at - 1
      BY <2>2, <2>10
    <3>. QED  BY <2>10, <3>1, <3>2
  <2>12. CASE pen = "scored"
    <3>1. pen' = "results" /\ at' = at + 1 /\ Advance
      BY <2>1, <2>12, Pens
    <3>2. Index(row', column') = Index(row, column) + 1 /\ row' = row /\ column' = column + 1
      <4>1. column < Totals
        BY <2>2, Sizes
      <4>. QED  BY <2>2, <3>1, <4>1, AdvanceByOne DEF Advance
    <3>3. value = entry
      BY <2>4, <2>6, <2>12, Pens
    <3>4. Len(file'.trace) = at' - 1
      BY <2>2, <2>11, <3>1
    <3>5. ASSUME NEW i \in 1 .. at' - 1 PROVE file'.trace[i] = entries[i]
      <4>1. CASE i = at
        BY <2>5, <2>11, <3>3, <4>1
      <4>2. CASE i # at
        <5>1. i \in 1 .. at - 1
          BY <2>2, <3>1, <4>2
        <5>. QED  BY <2>11, <5>1
      <4>. QED  BY <4>1, <4>2
    <3>6. column' - 1 = column
      BY <1>10, <2>1, <2>2, <3>2
    <3>7. HasReported(file', row', column', "results", at', total', results, scores, entries, sums)
      BY <1>10, <1>16, <2>1, <2>2, <2>3, <2>8, <2>12, <3>2, <3>4, <3>5, <3>6 DEF HasReported
    <3>. QED  BY <1>5, <1>16, <2>1, <3>1, <3>7
  <2>13. CASE pen # "scored"
    <3>1. UNCHANGED <<at, row, column>> /\ pen' \in DOMAIN Before /\ Before[pen'] = pen
      BY <2>1, <2>13, Pens
    <3>2. file'.trace[at] = Begun(entries[at], Before[pen'])
      BY <2>5, <2>6, <2>11, <3>1
    <3>3. HasReported(file', row, column, pen', at, total, results, scores, entries, sums)
      BY <1>15, <1>16, <2>1, <2>3, <2>8, <2>11, <3>1, <3>2 DEF HasReported
    <3>. QED  BY <1>5, <2>1, <2>2, <3>1, <3>3
  <2>. QED  BY <2>12, <2>13
<1>. QED
  BY <1>2, <1>3, <1>7, <1>8, <1>9, <1>11, <1>12, <1>13 DEF Next, JudgeStep, Over

(***************************************************************************)
(* The inductive invariant, and what the runs check of it.                 *)
(***************************************************************************)
Inv ==
  /\ Typed /\ Unbegun /\ Emptied /\ Listed /\ Cursors /\ Reported
  /\ Ours /\ Marked /\ Gathered /\ Kept

LEMMA InvInit == Init => Inv
  BY TypedInit, UnbegunInit, EmptiedInit, ListedInit, CursorsInit, ReportedInit,
     OursInit, MarkedInit, GatheredInit, KeptInit DEF Inv

LEMMA InvStep == Inv /\ [Next]_vars => Inv'
<1>. SUFFICES ASSUME Inv, [Next]_vars PROVE Inv'
  OBVIOUS
<1>1. Typed /\ Unbegun /\ Emptied /\ Listed /\ Cursors /\ Reported /\ Ours /\ Marked /\ Gathered /\ Kept
  BY DEF Inv
<1>2. Typed'
  BY <1>1, TypedStep
<1>3. Unbegun' /\ Emptied' /\ Listed'
  BY <1>1, UnbegunStep, EmptiedStep, ListedStep
<1>4. Cursors'
  BY <1>1, CursorsStep
<1>5. Reported'
  BY <1>1, <1>2, <1>4, ReportedStep
<1>6. Ours' /\ Marked'
  BY <1>1, OursStep, MarkedStep
<1>7. Gathered' /\ Kept'
  BY <1>1, GatheredStep, KeptStep
<1>. QED  BY <1>2, <1>3, <1>4, <1>5, <1>6, <1>7 DEF Inv

(* What is proved above of one step holds in every run.                    *)
THEOREM InvHolds == Spec => []Inv
  BY InvInit, InvStep, PTL DEF Spec

(* The values of every variable, for any number of judges, users, problems *)
(* and workers: among them that main's own counter never passes the end of *)
(* the table of jobs.                                                      *)
LEMMA TypeOKHolds == Inv => TypeOK
<1>. SUFFICES ASSUME Inv PROVE TypeOK
  OBVIOUS
<1>. USE DEF Inv
<1>1. opened \in SeqOf(BOOLEAN, 3)
  <2>1. opened \in Seq(BOOLEAN) /\ Len(opened) \in 0 .. 3
    <3>1. opened \in Seq(BOOLEAN) /\ Len(opened) <= 3
      BY Zenon DEF Typed
    <3>2. Len(opened) \in Nat
      BY <3>1, LenProperties
    <3>3. Len(opened) <= 3
      BY Zenon, <3>1
    <3>4. Len(opened) \in 0 .. 3
      <4>1. \A n \in Nat : n <= 3 => n \in 0 .. 3
        OBVIOUS
      <4>. QED  BY Zenon, <3>2, <3>3, <4>1
    <3>. QED  BY Zenon, <3>1, <3>4
  <2>2. opened \in [1 .. Len(opened) -> BOOLEAN]
    BY <2>1, LenProperties
  <2>. QED  BY <2>1, <2>2 DEF SeqOf
<1>2. ToSet(table) \subseteq Cell
  BY DEF Typed, ToSet
<1>3. \A r \in DOMAIN runner : runner[r].state \in {"open", "log", "pipe", "gone"}
  BY DEF Typed, RunnerValue
<1>4. \A s \in Submission : \A k \in DOMAIN own[s] : own[s][k] \in Mark \cup {Nul}
  <2>1. \A s \in Submission : own[s] \in Seq(Mark \cup {Nul})
    BY DEF Typed
  <2>. QED  BY <2>1
<1>5. at \in 1 .. Len(table) + 1
  BY DEF Typed, Unbegun, Cursors
<1>6. available \in BOOLEAN /\ failed \in BOOLEAN
  BY Zenon DEF Typed
<1>7. cut \subseteq 1 .. started
  BY DEF Ours
<1>. QED  BY <1>1, <1>2, <1>3, <1>4, <1>5, <1>6, <1>7 DEF Typed, TypeOK

(* Every variable keeps to its type, however many judges, runners, users   *)
(* and problems there are.                                                 *)
THEOREM Types == Spec => []TypeOK
  BY InvHolds, TypeOKHolds, PTL

(* No judge touches the logs of the one before it while it has not got its *)
(* contest, or where the contest asks for a sandbox that is not there.     *)
LEMMA SparedStep == Inv /\ [Next]_vars => (file' # file => pc # "load" /\ ~(wish = "on" /\ ~available))
<1>. SUFFICES ASSUME Inv, [Next]_vars, file' # file PROVE pc # "load" /\ ~(wish = "on" /\ ~available)
  OBVIOUS
<1>. USE DEF judge, disk, past
<1>1. pc \in {"open", "report"}
  <2>1. ASSUME NEW r \in DOMAIN runner, RunnerStep(r) \/ RunnerDies(r) PROVE FALSE
    <3>1. file' = file
      BY <2>1, OneRunner DEF Inv
    <3>. QED  BY <3>1
  <2>. QED
    BY <2>1 DEF Next, JudgeStep, Over, vars, Begin, LoadContest, ContestRefused, AskSandbox, SandboxRefused,
         OpenLog, LogsOpen, LogMissing, NoRoom, MakeRoom, Enlist, RunJobs, StartJob, Collect, JobsDone, GiveUp,
         WriteResults, WriteScores, WriteTrace, Finish, Killed, Interrupted, Return
<1>2. Acceptable
  BY <1>1 DEF Inv, Emptied
<1>. QED  BY <1>1, <1>2 DEF Acceptable

(* A refused judge has not touched the logs of the one before it.          *)
THEOREM RefusalSpares == Spec => RefusalSparesTheLogs
<1>1. Inv /\ [Next]_vars => [file' # file => pc # "load" /\ ~(wish = "on" /\ ~available)]_vars
  BY SparedStep
<1>. QED  BY InvHolds, <1>1, PTL DEF Spec, RefusalSparesTheLogs

(* Of numbers that are bounded one is the greatest.                        *)
LEMMA GreatestNatural ==
  ASSUME NEW n \in Nat, NEW S \in SUBSET (1 .. n), S # {}
  PROVE  Max(S) \in S /\ \A y \in S : y <= Max(S)
<1>. DEFINE T == {n - y : y \in S}
<1>1. T \in SUBSET Nat /\ T # {}
  <2>1. \A y \in S : n - y \in Nat
    OBVIOUS
  <2>2. PICK y : y \in S
    OBVIOUS
  <2>. QED  BY <2>1, <2>2
<1>2. Min(T) \in T /\ \A y \in T : Min(T) <= y
  <2>. HIDE DEF T
  <2>. QED  BY <1>1, LeastNatural
<1>3. PICK x \in S : Min(T) = n - x
  BY <1>2
<1>4. \A y \in S : n - x <= n - y
  BY <1>2, <1>3
<1>5. \A y \in S : y <= x
  BY <1>4
<1>6. \E m \in S : \A y \in S : m >= y
  BY <1>5
<1>7. Max(S) \in S /\ \A y \in S : Max(S) >= y
  BY <1>6 DEF Max
<1>. QED  BY <1>7

(* When the scoreboard is done, the log of a submission that nobody else   *)
(* had in hand holds the marks its score was made of, and one more at most *)
(* if its runner ended early.                                              *)
LEMMA LogsKept == Inv => LogsAreTheMarks
<1>. SUFFICES ASSUME Inv, Written, ~failed, NEW s \in Submission, s \notin shared,
                     NEW i \in DOMAIN table, FileOf(table[i]) = s
              PROVE  BearsOut(own[s], marks[LastOn(s)], LastOn(s) \in cut)
  BY DEF LogsAreTheMarks
<1>. USE DEF Inv
<1>1. pc = "report" /\ DOMAIN marks = DOMAIN table
  BY DEF Written, Gathered
<1>2. DOMAIN table = 1 .. Len(table) /\ Len(table) \in Nat /\ started \in 0 .. Len(table) /\ DOMAIN marks \subseteq 1 .. started
  BY DEF Typed
<1>. DEFINE S == {k \in DOMAIN table : FileOf(table[k]) = s}
<1>3. S \in SUBSET (1 .. Len(table)) /\ S # {}
  BY <1>2
<1>4. Max(S) \in S /\ \A y \in S : y <= Max(S)
  <2>. HIDE DEF S
  <2>. QED  BY <1>2, <1>3, GreatestNatural
<1>5. PICK j \in DOMAIN table : j = LastOn(s) /\ FileOf(table[j]) = s /\ \A k \in DOMAIN table : FileOf(table[k]) = s => k <= j
  <2>1. Max(S) = LastOn(s)
    BY DEF LastOn
  <2>. QED  BY <1>4, <2>1
<1>6. LastStarted(j) /\ j \in 1 .. started
  BY <1>1, <1>2, <1>5 DEF LastStarted
<1>. QED  BY <1>1, <1>5, <1>6 DEF Kept

(* The submission logs bear out the scoreboard of a run that ended well,   *)
(* those of runners that ended early as far as these came.                 *)
THEOREM LogsHoldTheMarks == Spec => []LogsAreTheMarks
  BY InvHolds, LogsKept, PTL

(* What is told of a submission in the table is what came back of it, and  *)
(* there is one job for it.                                                *)
LEMMA OneJob ==
  ASSUME Typed, Listed, NEW j \in DOMAIN table
  PROVE  JobOf(table[j]) = j /\ table[j][1] \in present /\ Told(table[j]) = CellOf(j)
<1>1. DOMAIN table \subseteq Nat /\ \A i \in DOMAIN table : table[i][1] \in Nat /\ table[i][2] \in Nat
  <2>1. \A i \in DOMAIN table : table[i] \in Cell
    BY DEF Typed
  <2>2. \A c \in Cell : c[1] \in Nat /\ c[2] \in Nat
    BY CellParts, Sizes
  <2>3. DOMAIN table \subseteq Nat
    BY DEF Typed
  <2>. QED  BY <2>1, <2>2, <2>3
<1>2. ASSUME NEW i \in DOMAIN table, table[i] = table[j] PROVE i = j
  <2>1. ~Precedes(table[j], table[j])
    BY <1>1 DEF Precedes
  <2>. QED  BY <1>1, <1>2, <2>1 DEF Listed
<1>3. JobOf(table[j]) = j
  BY <1>2 DEF JobOf
<1>4. table[j][1] \in present
  BY DEF Listed
<1>. QED  BY <1>3, <1>4 DEF Told

(* At the end the tables have every line and the trace every job.          *)
LEMMA AtTheEnd ==
  ASSUME Inv, Written
  PROVE  /\ pc = "report" /\ row = UsersCount + 1 /\ column = 0 /\ pen = "results" /\ at = Len(table) + 1
         /\ Len(file.results) = (UsersCount + 1) * Width /\ Len(file.scores) = (UsersCount + 1) * Width
         /\ Index(row, column) = (UsersCount + 1) * Width + 1
         /\ (UsersCount + 1) * Width \in Nat
<1>. USE DEF Inv
<1>1. pc = "report" /\ row = UsersCount + 1 /\ UsersCount \in Nat
  <2>1. pc = "report" /\ row > UsersCount
    BY DEF Written
  <2>2. row \in 0 .. UsersCount + 1
    BY DEF Typed
  <2>. QED  BY <2>1, <2>2, Sizes
<1>2. column = 0
  BY <1>1 DEF Cursors
<1>3. pen = "results"
  BY <1>1 DEF Typed
<1>4. PICK n \in Nat : n = (UsersCount + 1) * Width
  <2>1. \A x, y \in Nat : x * y \in Nat
    OBVIOUS
  <2>. QED  BY <2>1, Sizes
<1>5. Index(row, column) = n + 1
  BY <1>1, <1>2, <1>4 DEF Index
<1>8. pen \notin DOMAIN UpTo /\ pen \notin DOMAIN Before
  BY <1>3, Pens
<1>6. Len(file.results) = n /\ Len(file.scores) = n
  BY <1>1, <1>3, <1>5, <1>4, <1>8 DEF Reported
<1>7. at = Len(table) + 1
  <2>1. \A c \in Cell : Precedes(c, <<UsersCount + 1, 0>>)
    BY CellParts, Sizes DEF Precedes
  <2>2. DOMAIN table = 1 .. Len(table) /\ Len(table) \in Nat /\ at \in Nat /\ \A i \in DOMAIN table : table[i] \in Cell
    BY DEF Typed
  <2>3. at <= Len(table) + 1 /\ \A i \in DOMAIN table : i < at
    BY <1>1, <1>2, <2>1, <2>2 DEF Cursors
  <2>4. Len(table) < at
    <3>1. Len(table) \in DOMAIN table \/ Len(table) = 0
      BY <2>2
    <3>2. at # 0
      BY DEF Typed
    <3>. QED  BY <2>2, <2>3, <3>1, <3>2
  <2>. QED  BY <2>2, <2>3, <2>4
<1>. QED  BY <1>1, <1>2, <1>3, <1>4, <1>5, <1>6, <1>7

(* The line of a submission in the two tables.                             *)
LEMMA LineOf ==
  ASSUME Inv, pc = "report", NEW c \in Cell
  PROVE  /\ Position(c) = Index(c[1], c[2]) /\ Position(c) \in Nat \ {0}
         /\ Position(c) <= Len(file.results) => file.results[Position(c)] = <<"mark", Told(c).mark>>
         /\ Position(c) <= Len(file.scores)  => file.scores[Position(c)] = <<"score", Told(c).score>>
<1>1. PICK u \in User, p \in Problem : c = <<u, p>>
  BY CellParts
<1>2. u \in 0 .. UsersCount /\ u \in Nat /\ p \in 0 .. Totals /\ u # 0 /\ p # 0
  BY Sizes
<1>3. Position(c) = Index(u, p) /\ Index(u, p) \in Nat \ {0}
  BY <1>1, <1>2, Grid DEF Position, Index
<1>4. ResultOf(u, p) = <<"mark", Told(c).mark>> /\ ScoreOf(u, p) = <<"score", Told(c).score>>
  BY <1>1, <1>2 DEF ResultOf, ScoreOf, Line
<1>. QED  BY <1>1, <1>2, <1>3, <1>4 DEF Inv, Reported

(* The student who is not there has what a lone X would earn.              *)
LEMMA UnbuiltIsAbsent ==
  ASSUME NEW p \in Problem
  PROVE  MarkedCell(p, <<NotBuilt>>) = AbsentCell
<1>1. {i \in DOMAIN <<NotBuilt>> : <<NotBuilt>>[i] = "+"} = {}
  BY DEF NotBuilt
<1>2. Passed(<<NotBuilt>>) = 0
  BY <1>1, FS_EmptySet DEF Passed
<1>3. Points[p] \in Nat /\ Tests[p] \in Nat \ {0}
  BY ContestAssumption
<1>4. Points[p] * 0 = 0 /\ 0 \div Tests[p] = 0
  BY <1>3
<1>5. Score(Points[p], Passed(<<NotBuilt>>), Tests[p]) = 0
  BY <1>2, <1>3, <1>4 DEF Score
<1>6. Summarise(<<NotBuilt>>) = NotBuilt
  BY DEF Summarise
<1>. QED  BY <1>5, <1>6 DEF MarkedCell, AbsentCell

(* A run that has not failed leaves a scoreboard that is whole and says    *)
(* what the submissions deserve, or the first marks of it where a runner   *)
(* ended early.                                                            *)
LEMMA ScoreboardWhole == Inv => WholeScoreboard
<1>. SUFFICES ASSUME Inv, Written, ~failed PROVE WholeScoreboard
  BY DEF WholeScoreboard
<1>. USE DEF Inv
<1>1. /\ pc = "report" /\ at = Len(table) + 1
      /\ Len(file.results) = (UsersCount + 1) * Width /\ Len(file.scores) = (UsersCount + 1) * Width
      /\ (UsersCount + 1) * Width \in Nat /\ pen = "results"
  BY AtTheEnd
<1>2. [i \in DOMAIN file.trace |-> file.trace[i].who] = table
  <2>1. table \in Seq(Cell) /\ file.trace \in Seq(TraceEntry) /\ Len(table) \in Nat
    BY DEF Typed
  <2>2. Len(file.trace) = Len(table) /\ \A i \in 1 .. Len(table) : file.trace[i] = Entry(i)
    <3>1. pen \notin DOMAIN Before
      BY <1>1, Pens
    <3>. QED  BY <1>1, <2>1, <3>1 DEF Reported
  <2>3. DOMAIN file.trace = DOMAIN table /\ \A i \in DOMAIN table : file.trace[i].who = table[i]
    <3>1. DOMAIN file.trace = 1 .. Len(table) /\ DOMAIN table = 1 .. Len(table)
      BY <2>1, <2>2
    <3>2. \A i : Entry(i).who = table[i]
      BY DEF Entry
    <3>. QED  BY <2>2, <3>1, <3>2
  <2>. QED  BY <2>1, <2>3
<1>3. ASSUME NEW c \in Cell, FileOf(c) \notin shared
      PROVE  IF c[1] \notin present THEN Shows(c, <<NotBuilt>>)
             ELSE IF c \in CellsCut THEN \E n \in 1 .. Len(Deserved(c)) : Shows(c, SubSeq(Deserved(c), 1, n - 1))
             ELSE Shows(c, Deserved(c))
  <2>1. Position(c) <= (UsersCount + 1) * Width
    <3>1. Position(c) = Index(c[1], c[2]) /\ Position(c) \in Nat
      BY <1>1, LineOf
    <3>2. c[1] \in Nat /\ c[1] < UsersCount + 1 /\ c[2] \in 0 .. Totals /\ 0 \in 0 .. Totals /\ UsersCount + 1 \in Nat
      BY CellParts, Sizes
    <3>3. Index(c[1], c[2]) < Index(UsersCount + 1, 0)
      BY <3>2, Grid
    <3>4. Index(UsersCount + 1, 0) = (UsersCount + 1) * Width + 1
      BY AtTheEnd
    <3>. QED  BY <1>1, <3>1, <3>3, <3>4
  <2>2. file.results[Position(c)] = <<"mark", Told(c).mark>> /\ file.scores[Position(c)] = <<"score", Told(c).score>>
    BY <1>1, <2>1, LineOf
  <2>3. CASE c[1] \in present
    <3>1. PICK j \in DOMAIN table : table[j] = c
      BY <2>3, CellParts DEF Listed
    <3>2. Told(c) = CellOf(j)
      BY <3>1, OneJob
    <3>3. j \in DOMAIN marks /\ CellOf(j) = MarkedCell(c[2], marks[j])
      BY <1>1, <3>1 DEF CellOf, Gathered
    <3>4. Shows(c, marks[j])
      BY <2>2, <3>2, <3>3 DEF Shows
    <3>5. AsDue(marks[j], Ended(j \in cut), Deserved(c))
      BY <1>3, <3>1, <3>3 DEF Gathered
    <3>6. CASE j \in cut
      <4>1. PICK sent \in Seq(Mark), due \in Seq(Mark) : sent = marks[j] /\ due = Deserved(c)
        BY <3>3, DeservedType DEF Typed
      <4>2. Len(sent) < Len(due) /\ \A i \in DOMAIN sent : sent[i] = due[i]
        BY <3>5, <3>6, <4>1 DEF AsDue, Ended
      <4>3. PICK n \in 1 .. Len(due) : n = Len(sent) + 1
        BY <4>2
      <4>4. sent = SubSeq(due, 1, n - 1)
        <5>1. n - 1 = Len(sent) /\ Len(sent) \in Nat /\ DOMAIN sent = 1 .. Len(sent) /\ Len(due) \in Nat
          BY <4>3
        <5>2. SubSeq(due, 1, Len(sent)) = [i \in 1 .. Len(sent) |-> due[i]]
          BY <5>1
        <5>3. sent = [i \in 1 .. Len(sent) |-> sent[i]]
          OBVIOUS
        <5>. QED  BY <4>2, <5>1, <5>2, <5>3
      <4>5. c \in CellsCut
        BY <3>1, <3>6 DEF CellsCut
      <4>. QED  BY <2>3, <3>4, <4>1, <4>3, <4>4, <4>5
    <3>7. CASE j \notin cut
      <4>1. marks[j] = Deserved(c)
        BY <3>5, <3>7 DEF AsDue, Ended
      <4>2. ASSUME c \in CellsCut PROVE FALSE
        <5>1. PICK i \in cut : table[i] = c
          BY <4>2 DEF CellsCut
        <5>2. i \in DOMAIN table
          BY DEF Ours, Typed
        <5>. QED  BY <3>1, <3>7, <5>1, <5>2, OneJob
      <4>. QED  BY <2>3, <3>4, <4>1, <4>2
    <3>. QED  BY <3>6, <3>7
  <2>4. CASE c[1] \notin present
    <3>1. c[2] \in Problem
      BY CellParts
    <3>2. MarkedCell(c[2], <<NotBuilt>>) = AbsentCell
      BY <3>1, UnbuiltIsAbsent
    <3>3. Told(c) = AbsentCell
      BY <2>4 DEF Told
    <3>. QED  BY <2>2, <2>4, <3>2, <3>3 DEF Shows
  <2>. QED  BY <2>3, <2>4
<1>. QED  BY <1>1, <1>2, <1>3 DEF WholeScoreboard

(* A run that ends well leaves a whole scoreboard that says what the       *)
(* submissions deserve, whatever is going on in the same directory, and of *)
(* those whose runners ended early what the first of their marks earn.     *)
THEOREM WholeScoreboards == Spec => []WholeScoreboard
  BY InvHolds, ScoreboardWhole, PTL

(***************************************************************************)
(* The logs tell the same.                                                 *)
(***************************************************************************)
LEMMA GridOnto ==
  ASSUME NEW k \in Nat \ {0}
  PROVE  \E u \in Nat, c \in 0 .. Totals : k = Index(u, c)
<1>1. PICK W \in Nat \ {0} : W = Width /\ Totals = W - 1
  BY Sizes
<1>2. PICK m \in Nat : k = m + 1
  <2>1. k - 1 \in Nat /\ k = (k - 1) + 1
    OBVIOUS
  <2>. QED  BY <2>1
<1>3. m \div W \in Nat /\ m % W \in 0 .. W - 1 /\ m = W * (m \div W) + (m % W)
  OBVIOUS
<1>4. PICK u \in Nat, c \in 0 .. W - 1 : m = W * u + c
  BY <1>3
<1>5. W * u = u * W /\ u * W \in Nat
  OBVIOUS
<1>6. Index(u, c) = u * W + c + 1
  BY <1>1 DEF Index
<1>7. k = Index(u, c)
  BY <1>2, <1>4, <1>5, <1>6
<1>. QED  BY <1>1, <1>7

(* A line of scores.log is one of the table's, and results.log has it too. *)
LEMMA LinesOf ==
  ASSUME Inv, pc = "report", NEW k \in DOMAIN file.scores
  PROVE  \E u \in 0 .. UsersCount, c \in 0 .. Totals :
           /\ k = Index(u, c)
           /\ file.scores[k] = ScoreOf(u, c) /\ file.results[k] = ResultOf(u, c)
           /\ k <= Index(row, column)
<1>. USE DEF Inv
<1>1. file.scores \in Seq(LogValue) /\ row \in 0 .. UsersCount + 1 /\ column \in 0 .. Totals /\ row \in Nat
  BY Sizes DEF Typed
<1>2. k \in Nat \ {0} /\ k <= Len(file.scores) /\ Len(file.scores) \in Nat
  BY <1>1
<1>3. PICK u \in Nat, c \in 0 .. Totals : k = Index(u, c)
  BY <1>2, GridOnto
<1>4. PICK n \in Nat : n = Index(row, column)
  BY <1>1, Grid
<1>5. /\ Len(file.results) = n - (IF pen = "results" THEN 1 ELSE 0)
      /\ Len(file.scores)  = n - (IF pen \in DOMAIN UpTo THEN 0 ELSE 1)
  BY <1>4 DEF Reported
<1>6. k <= n /\ k <= Len(file.results) /\ (pen \notin DOMAIN UpTo => k < n)
  <2>1. pen \in DOMAIN UpTo => pen # "results"
    BY Pens
  <2>. QED  BY <1>2, <1>4, <1>5, <2>1
<1>7. u \in 0 .. UsersCount
  <2>1. SUFFICES ASSUME u > UsersCount PROVE FALSE
    BY Sizes
  <2>2. UsersCount \in Nat /\ 0 \in 0 .. Totals
    BY Sizes
  <2>3. k < n => u < row \/ (u = row /\ c < column)
    BY <1>1, <1>3, <1>4, Grid
  <2>4. row = UsersCount + 1 => column = 0 /\ pen \notin DOMAIN UpTo
    <3>1. row = UsersCount + 1 => ~(row <= UsersCount)
      BY <2>2
    <3>. QED  BY <3>1, Pens DEF Cursors, Typed
  <2>5. row \in Nat /\ row <= UsersCount + 1 /\ column \in Nat /\ c \in Nat
    BY <1>1, <2>2, Sizes
  <2>6. k # n => k < n
    BY <1>2, <1>4, <1>6
  <2>7. k = n => u = row /\ c = column
    <3>1. \A v \in Nat, d \in 0 .. Totals : Index(u, c) = Index(v, d) => u = v /\ c = d
      BY Grid
    <3>. QED  BY <1>1, <1>3, <1>4, <3>1
  <2>. QED  BY <1>6, <2>1, <2>2, <2>3, <2>4, <2>5, <2>6, <2>7
<1>8. file.scores[k] = ScoreOf(u, c) /\ file.results[k] = ResultOf(u, c)
  BY <1>2, <1>3, <1>6, <1>7 DEF Reported
<1>. QED  BY <1>3, <1>4, <1>6, <1>7, <1>8

(* Points come of a test that was passed.                                  *)
LEMMA PointsOfAPass ==
  ASSUME Typed, NEW c, Told(c).score > 0
  PROVE  /\ Told(c).mark \in TestMark
         /\ c[1] \in present
<1>1. c[1] \in present /\ Told(c) = CellOf(JobOf(c))
  BY DEF Told, AbsentCell
<1>2. PICK j : j = JobOf(c)
  OBVIOUS
<1>3. j \in DOMAIN marks /\ Told(c) = MarkedCell(table[j][2], marks[j])
  BY <1>1, <1>2 DEF CellOf, LostCell
<1>4. table[j] \in Cell /\ marks[j] \in Seq(Mark)
  BY <1>3 DEF Typed
<1>5. PICK p \in Problem, m \in Seq(Mark) : p = table[j][2] /\ m = marks[j]
  BY <1>4, CellParts
<1>6. Score(Points[p], Passed(m), Tests[p]) > 0 /\ Told(c).mark = Summarise(m)
  BY <1>3, <1>5 DEF MarkedCell
<1>7. \E i \in DOMAIN m : m[i] = "+"
  <2>1. SUFFICES ASSUME \A i \in DOMAIN m : m[i] # "+" PROVE FALSE
    OBVIOUS
  <2>2. {i \in DOMAIN m : m[i] = "+"} = {}
    BY <2>1
  <2>3. Passed(m) = 0
    BY <2>2, FS_EmptySet DEF Passed
  <2>4. Points[p] \in Nat /\ Tests[p] \in Nat \ {0}
    BY ContestAssumption
  <2>5. Points[p] * 0 = 0 /\ 0 \div Tests[p] = 0
    BY <2>4
  <2>. QED  BY <1>6, <2>3, <2>4, <2>5 DEF Score
<1>8. m # <<>> /\ m # <<NotBuilt>>
  <2>1. \A i \in DOMAIN <<NotBuilt>> : <<NotBuilt>>[i] # "+"
    BY DEF NotBuilt
  <2>2. DOMAIN <<>> = {}
    OBVIOUS
  <2>. QED  BY <1>7, <2>1, <2>2
<1>9. Summarise(m) \in TestMark
  BY <1>8 DEF Summarise, TestMark
<1>. QED  BY <1>1, <1>6, <1>9

(* The mark of a submission fits what the trace counts of it.              *)
LEMMA MarkFitsCounts ==
  ASSUME Typed, NEW j \in DOMAIN table
  PROVE  CellOf(j).mark \in Tabled(Entry(j))
<1>1. Entry(j).says = Account(Sent(j), CellOf(j).mark)
  BY DEF Entry
<1>2. CASE j \notin DOMAIN marks
  <2>1. Sent(j) = <<>> /\ CellOf(j).mark = Nul
    BY <1>2 DEF Sent, CellOf, LostCell
  <2>2. Entry(j).says = <<"no result">>
    BY <1>1, <2>1 DEF Account
  <2>3. <<"no result">> # <<"not built">>
    OBVIOUS
  <2>. QED  BY <2>1, <2>2, <2>3 DEF Tabled
<1>3. CASE j \in DOMAIN marks
  <2>1. PICK m \in Seq(Mark) : m = marks[j]
    BY <1>3 DEF Typed
  <2>2. Sent(j) = m /\ CellOf(j).mark = Summarise(m)
    BY <1>3, <2>1 DEF Sent, CellOf, MarkedCell
  <2>3. CASE m = <<>>
    <3>1. Entry(j).says = <<"no result">> /\ CellOf(j).mark = "X"
      BY <1>1, <2>2, <2>3 DEF Account, Summarise, NotBuilt
    <3>2. <<"no result">> # <<"not built">>
      OBVIOUS
    <3>. QED  BY <3>1, <3>2 DEF Tabled
  <2>4. CASE m # <<>> /\ Summarise(m) = NotBuilt
    <3>1. Entry(j).says = <<"not built">> /\ CellOf(j).mark = "X"
      BY <1>1, <2>2, <2>4 DEF Account, NotBuilt
    <3>. QED  BY <3>1 DEF Tabled
  <2>5. CASE m # <<>> /\ Summarise(m) # NotBuilt
    <3>1. Entry(j).says = Counts(m) /\ Counts(m) = <<"tests", Passed(m), Len(m) - Passed(m)>>
      BY <1>1, <2>2, <2>5 DEF Account, Counts, Passed
    <3>2. Passed(m) \in Nat /\ Len(m) \in Nat
      BY PassedBounds
    <3>3. PICK a \in Nat, b \in Int : Entry(j).says = <<"tests", a, b>> /\ (b = 0 <=> Passed(m) = Len(m))
      BY <3>1, <3>2
    <3>4. <<"tests", a, b>> # <<"not built">> /\ <<"tests", a, b>> # <<"no result">> /\ <<"tests", a, b>>[3] = b
      OBVIOUS
    <3>5. Tabled(Entry(j)) = IF b = 0 THEN {"+"} ELSE {"-", "x"}
      BY <3>3, <3>4 DEF Tabled
    <3>6. b = 0 <=> \A i \in DOMAIN m : m[i] = "+"
      BY <3>3, AllPassed
    <3>7. Summarise(m) \in IF b = 0 THEN {"+"} ELSE {"-", "x"}
      BY <2>5, <3>6 DEF Summarise
    <3>. QED  BY <2>2, <3>5, <3>7
  <2>. QED  BY <2>3, <2>4, <2>5
<1>. QED  BY <1>2, <1>3

(* The total that a row of scores.log ends in is the sum of its scores.    *)
LEMMA RowAddsUp ==
  ASSUME Inv, pc = "report", NEW u \in User, Index(u, Totals) \in DOMAIN file.scores
  PROVE  RowSum(Index(u, Totals)) = SumOver(Scores(u), Problem)
<1>. USE DEF Inv
<1>1. PICK k \in Nat, n \in Nat, a \in Nat :
        /\ k = Index(u, Totals) /\ n = ProblemsCount /\ a = Index(u, 0)
        /\ k = a + n + 1
  <2>1. u \in Nat /\ 0 \in 0 .. Totals /\ Totals \in 0 .. Totals /\ Totals = ProblemsCount + 1 /\ ProblemsCount \in Nat
    BY Sizes
  <2>2. Index(u, Totals) \in Nat /\ Index(u, 0) \in Nat
    BY <2>1, Grid
  <2>3. PICK x \in Nat : x = u * Width
    <3>1. \A y, z \in Nat : y * z \in Nat
      OBVIOUS
    <3>. QED  BY <2>1, <3>1, Sizes
  <2>4. Index(u, Totals) = Index(u, 0) + ProblemsCount + 1
    BY <2>1, <2>3 DEF Index
  <2>. QED  BY <2>1, <2>2, <2>4
<1>2. Problem = 1 .. n /\ Scores(u) \in [1 .. n -> Int]
  BY <1>1, RowSums, Sizes
<1>3. PICK f \in [1 .. n -> Int] : f = Scores(u)
  BY <1>2
<1>4. \A p \in 1 .. n : file.scores[a + p][2] = f[p]
  <2>. TAKE p \in 1 .. n
  <2>1. <<u, p>> \in Cell /\ p \in Problem
    BY <1>2 DEF Cell
  <2>2. Position(<<u, p>>) = a + p
    <3>1. PICK x \in Nat : x = u * Width
      <4>1. \A y, z \in Nat : y * z \in Nat
        OBVIOUS
      <4>. QED  BY <4>1, Sizes
    <3>. QED  BY <1>1, <3>1 DEF Index, Position
  <2>3. a + p <= Len(file.scores)
    <3>1. k \in 1 .. Len(file.scores) /\ Len(file.scores) \in Nat
      <4>1. file.scores \in Seq(LogValue)
        BY DEF Typed
      <4>. QED  BY <1>1, <4>1
    <3>. QED  BY <1>1, <3>1
  <2>4. file.scores[a + p] = <<"score", Told(<<u, p>>).score>>
    BY <2>1, <2>2, <2>3, LineOf
  <2>. QED  BY <1>3, <2>1, <2>4 DEF Scores
<1>. DEFINE S == k - ProblemsCount .. k - 1
<1>5. S = a + 1 .. a + n
  BY <1>1
<1>6. PICK g \in [a + 1 .. a + n -> Int] : \A i \in S : g[i] = file.scores[i][2]
  <2>1. \A i \in a + 1 .. a + n : file.scores[i][2] \in Int
    <3>. TAKE i \in a + 1 .. a + n
    <3>1. i - a \in 1 .. n /\ i = a + (i - a)
      OBVIOUS
    <3>. QED  BY <1>3, <1>4, <3>1
  <2>2. [i \in a + 1 .. a + n |-> file.scores[i][2]] \in [a + 1 .. a + n -> Int]
    BY <2>1
  <2>. QED  BY <1>5, <2>2
<1>7. \A p \in 1 .. n : g[a + p] = f[p]
  <2>. TAKE p \in 1 .. n
  <2>1. a + p \in S
    <3>1. a + p \in a + 1 .. a + n
      BY <1>1
    <3>. QED  BY <1>5, <3>1
  <2>. QED  BY <1>4, <1>6, <2>1
<1>8. SumOver(g, a + 1 .. a + n) = SumOver(f, 1 .. n)
  <2>1. IsFiniteSet(1 .. n)
    BY FS_Interval
  <2>2. IsFiniteSet(a + 1 .. a + n)
    <3>1. a + 1 \in Int /\ a + n \in Int
      OBVIOUS
    <3>. QED  BY <3>1, FS_Interval
  <2>3. IsShifted(g, a + 1 .. a + n, a, f, 1 .. n, n)
    BY <1>7, <2>1, <2>2, Zenon DEF IsShifted
  <2>. QED  BY <2>3, ShiftedSum
<1>9. IsFiniteSet(S)
  BY <1>1, <1>5, FS_Interval
<1>10. RowSum(k) = MapThenSumSet(LAMBDA i : file.scores[i][2], S)
  BY DEF RowSum
<1>. DEFINE IsTotal(h) ==
       h = [s \in SUBSET S |->
              IF s = {} THEN 0 ELSE file.scores[CHOOSE x \in s : TRUE][2] + h[s \ {CHOOSE x \in s : TRUE}]]
<1>11. MapThenSumSet(LAMBDA i : file.scores[i][2], S) = (CHOOSE h : IsTotal(h))[S]
  BY DEF MapThenSumSet, MapThenFoldSet
<1>. HIDE DEF S
<1>12. ASSUME NEW s \in SUBSET S, s # {} PROVE file.scores[CHOOSE x \in s : TRUE][2] = g[Pick(s)]
  BY <1>6, <1>12, PickOne DEF Pick
<1>13. ASSUME NEW h PROVE IsSum(h, g, S) <=> IsTotal(h)
  <2>1. \A s \in SUBSET S :
          (IF s = {} THEN 0 ELSE g[Pick(s)] + h[s \ {Pick(s)}])
          = (IF s = {} THEN 0 ELSE file.scores[CHOOSE x \in s : TRUE][2] + h[s \ {CHOOSE x \in s : TRUE}])
    BY <1>12 DEF Pick
  <2>2. [s \in SUBSET S |-> IF s = {} THEN 0 ELSE g[Pick(s)] + h[s \ {Pick(s)}]]
        = [s \in SUBSET S |->
             IF s = {} THEN 0 ELSE file.scores[CHOOSE x \in s : TRUE][2] + h[s \ {CHOOSE x \in s : TRUE}]]
    BY <2>1, Zenon
  <2>. QED  BY <2>2 DEF IsSum
<1>14. PICK h : IsSum(h, g, S)
  BY <1>9, SumExists
<1>. HIDE DEF IsTotal
<1>15. \E t : IsTotal(t)
  BY <1>13, <1>14
<1>16. PICK t : IsSum(t, g, S) /\ RowSum(k) = t[S]
  BY <1>10, <1>11, <1>13, <1>15
<1>17. RowSum(k) = SumOver(g, S)
  BY <1>9, <1>16, SumIs
<1>. QED  BY <1>1, <1>2, <1>3, <1>5, <1>8, <1>17

(* The two tables say the same of a line, as far as both have come.        *)
LEMMA TablesTellTheSame ==
  ASSUME Inv, pc = "report"
  PROVE  TablesAgree
<1>1. Len(file.results) - Len(file.scores) \in {0, 1}
  <2>1. PICK n \in Nat : n = Index(row, column)
    <3>1. row \in Nat /\ column \in 0 .. Totals
      BY Sizes DEF Inv, Typed
    <3>. QED  BY <3>1, Grid
  <2>2. /\ Len(file.results) = n - (IF pen = "results" THEN 1 ELSE 0)
        /\ Len(file.scores)  = n - (IF pen \in DOMAIN UpTo THEN 0 ELSE 1)
    BY <2>1 DEF Inv, Reported
  <2>3. CASE pen = "results"
    <3>1. Len(file.results) = n - 1 /\ Len(file.scores) = n - 1
      BY <2>2, <2>3, Pens
    <3>. QED  BY <3>1
  <2>4. CASE pen = "scores"
    <3>1. Len(file.results) = n /\ Len(file.scores) = n - 1
      BY <2>2, <2>4, Pens
    <3>. QED  BY <3>1
  <2>5. CASE pen \in DOMAIN UpTo
    <3>1. Len(file.results) = n /\ Len(file.scores) = n
      BY <2>2, <2>5, Pens
    <3>. QED  BY <3>1
  <2>. QED  BY <2>3, <2>4, <2>5 DEF Inv, Typed
<1>2. ASSUME NEW k \in DOMAIN file.scores
      PROVE  IF Scored(k) THEN /\ file.results[k][1] = "mark"
                               /\ file.scores[k][2] > 0 => file.results[k][2] \in TestMark
                          ELSE file.results[k] = file.scores[k]
  <2>1. PICK u \in 0 .. UsersCount, c \in 0 .. Totals : file.scores[k] = ScoreOf(u, c) /\ file.results[k] = ResultOf(u, c)
    BY LinesOf
  <2>2. CASE u # 0 /\ c # 0 /\ c \in Problem
    <3>1. ScoreOf(u, c) = <<"score", Told(<<u, c>>).score>> /\ ResultOf(u, c) = <<"mark", Told(<<u, c>>).mark>>
      BY <2>2 DEF ScoreOf, ResultOf, Line
    <3>2. Scored(k) /\ file.results[k][1] = "mark"
      BY <2>1, <3>1 DEF Scored
    <3>3. file.scores[k][2] > 0 => file.results[k][2] \in TestMark
      <4>1. Told(<<u, c>>).score > 0 => Told(<<u, c>>).mark \in TestMark
        BY PointsOfAPass DEF Inv
      <4>. QED  BY <2>1, <3>1, <4>1
    <3>. QED  BY <3>2, <3>3
  <2>3. CASE ~(u # 0 /\ c # 0 /\ c \in Problem)
    <3>1. ScoreOf(u, c) = ResultOf(u, c) /\ ScoreOf(u, c)[1] # "score"
      BY <2>3 DEF ScoreOf, ResultOf, Line
    <3>. QED  BY <2>1, <3>1 DEF Scored
  <2>. QED  BY <2>2, <2>3
<1>. QED  BY <1>1, <1>2 DEF TablesAgree

LEMMA TotalsTellTheSame ==
  ASSUME Inv, pc = "report"
  PROVE  RowsAddUp
<1>. SUFFICES ASSUME NEW k \in DOMAIN file.scores, file.scores[k][1] = "total" PROVE file.scores[k][2] = RowSum(k)
  BY DEF RowsAddUp
<1>1. PICK u \in 0 .. UsersCount, c \in 0 .. Totals : k = Index(u, c) /\ file.scores[k] = ScoreOf(u, c)
  BY LinesOf
<1>2. u # 0 /\ c = Totals /\ ScoreOf(u, c) = <<"total", SumOver(Scores(u), Problem)>>
  <2>1. u # 0 /\ c # 0 /\ c \notin Problem
    BY <1>1 DEF ScoreOf, Line
  <2>2. c = Totals
    BY <2>1, Sizes
  <2>. QED  BY <2>1, <2>2 DEF ScoreOf, Line
<1>3. u \in User
  BY <1>2, Sizes
<1>4. RowSum(k) = SumOver(Scores(u), Problem)
  BY <1>1, <1>2, <1>3, RowAddsUp
<1>. QED  BY <1>1, <1>2, <1>4

(* A submission in the trace is in both tables.                            *)
LEMMA TracedIsTabled ==
  ASSUME Inv, pc = "report", NEW i \in DOMAIN file.trace
  PROVE  /\ i \in DOMAIN table /\ file.trace[i].who = table[i]
         /\ \A x \in DOMAIN file.trace[i] : file.trace[i][x] = Entry(i)[x]
         /\ Position(table[i]) <= Len(file.scores) /\ Position(table[i]) <= Len(file.results)
         /\ file.scores[Position(table[i])] = <<"score", CellOf(i).score>>
         /\ file.results[Position(table[i])] = <<"mark", CellOf(i).mark>>
<1>. USE DEF Inv
<1>1. /\ i \in DOMAIN table /\ file.trace[i].who = table[i] /\ table[i] \in Cell
      /\ \A x \in DOMAIN file.trace[i] : file.trace[i][x] = Entry(i)[x]
      /\ i < at \/ (i = at /\ pen \in DOMAIN UpTo)
  <2>1. /\ file.trace \in Seq(TraceEntry) /\ at \in Nat /\ table \in Seq(Cell) /\ at <= Len(table) + 1
        /\ Len(file.trace) = IF pen \in DOMAIN Before THEN at ELSE at - 1
    BY DEF Typed, Cursors, Reported
  <2>2. Entry(i).who = table[i]
    BY DEF Entry
  <2>3. CASE i < at
    <3>1. i \in 1 .. at - 1 /\ i \in DOMAIN table
      BY <2>1, <2>3
    <3>2. file.trace[i] = Entry(i)
      BY <3>1 DEF Reported
    <3>. QED  BY <2>1, <2>2, <2>3, <3>1, <3>2
  <2>4. CASE ~(i < at)
    <3>1. i = at /\ pen \in DOMAIN Before
      <4>1. DOMAIN file.trace = 1 .. Len(file.trace)
        BY <2>1
      <4>. QED  BY <2>1, <2>4, <4>1
    <3>2. pen \in DOMAIN UpTo /\ Before[pen] \in DOMAIN UpTo
      BY <3>1, Pens
    <3>3. i \in DOMAIN table
      BY <3>1, <3>2, AtIsHere DEF Cursors
    <3>4. file.trace[i] = Begun(Entry(i), Before[pen])
      BY <3>1 DEF Reported
    <3>5. /\ DOMAIN file.trace[i] = UpTo[Before[pen]] /\ "who" \in DOMAIN file.trace[i]
          /\ \A x \in DOMAIN file.trace[i] : file.trace[i][x] = Entry(i)[x]
      BY <3>2, <3>4, Pens
    <3>. QED  BY <2>1, <2>2, <3>1, <3>2, <3>3, <3>5
  <2>. QED  BY <2>3, <2>4
<1>2. PICK c \in Cell : c = table[i]
  BY <1>1
<1>3. Position(c) = Index(c[1], c[2]) /\ Position(c) \in Nat
  BY LineOf
<1>4. ASSUME i < at PROVE Position(c) < Index(row, column)
  <2>1. Precedes(c, <<row, column>>)
    BY <1>1, <1>2, <1>4 DEF Cursors
  <2>2. PICK u \in Nat, p \in 0 .. Totals : u = c[1] /\ p = c[2]
    <3>1. c[1] \in User /\ c[2] \in Problem
      BY CellParts
    <3>2. User \subseteq Nat /\ Problem \subseteq 0 .. Totals
      BY Sizes
    <3>. QED  BY <3>1, <3>2
  <2>3. row \in Nat /\ column \in 0 .. Totals
    BY Sizes DEF Typed
  <2>4. u < row \/ (u = row /\ p < column)
    BY <2>1, <2>2 DEF Precedes
  <2>5. \A v \in Nat, d \in 0 .. Totals : u < v \/ (u = v /\ p < d) => Index(u, p) < Index(v, d)
    <3>1. u \in Nat /\ p \in 0 .. Totals
      BY <2>2
    <3>. QED  BY <3>1, Grid
  <2>. QED  BY <1>3, <2>2, <2>3, <2>4, <2>5
<1>8. ASSUME i = at, pen \in DOMAIN UpTo PROVE Position(c) = Index(row, column)
  <2>1. c = <<row, column>>
    BY <1>1, <1>2, <1>8, AtIsHere DEF Cursors
  <2>. QED  BY <1>3, <2>1
<1>5. Position(c) <= Len(file.scores) /\ Position(c) <= Len(file.results)
  <2>1. PICK n \in Nat : n = Index(row, column)
    <3>1. row \in Nat /\ column \in 0 .. Totals
      BY Sizes DEF Typed
    <3>. QED  BY <3>1, Grid
  <2>2. /\ Len(file.results) = n - (IF pen = "results" THEN 1 ELSE 0)
        /\ Len(file.scores)  = n - (IF pen \in DOMAIN UpTo THEN 0 ELSE 1)
    BY <2>1 DEF Reported
  <2>3. pen \in DOMAIN UpTo => pen # "results"
    BY Pens
  <2>4. CASE i < at
    BY <1>3, <1>4, <2>1, <2>2, <2>4
  <2>5. CASE i = at /\ pen \in DOMAIN UpTo
    BY <1>3, <1>8, <2>1, <2>2, <2>3, <2>5
  <2>. QED  BY <1>1, <2>4, <2>5
<1>6. Told(c) = CellOf(i)
  BY <1>1, <1>2, OneJob
<1>7. file.results[Position(c)] = <<"mark", Told(c).mark>> /\ file.scores[Position(c)] = <<"score", Told(c).score>>
  BY <1>5, LineOf
<1>. QED  BY <1>1, <1>2, <1>5, <1>6, <1>7

LEMMA TraceTellsTheScores ==
  ASSUME Inv, pc = "report"
  PROVE  TraceHasTheScores
<1>1. ASSUME NEW i \in DOMAIN file.trace
      PROVE  LET k == Position(file.trace[i].who)
             IN  k <= Len(file.scores) /\ Scored(k) /\ (Holds(i, "scored") => file.scores[k][2] = file.trace[i].scored)
  <2>1. Entry(i).scored = CellOf(i).score
    BY DEF Entry
  <2>2. Holds(i, "scored") => file.trace[i].scored = Entry(i).scored
    BY TracedIsTabled DEF Holds
  <2>3. PICK k : k = Position(table[i])
    OBVIOUS
  <2>4. /\ Position(file.trace[i].who) = k /\ k <= Len(file.scores)
        /\ file.scores[k] = <<"score", CellOf(i).score>>
    BY <2>3, TracedIsTabled
  <2>5. Scored(k) /\ file.scores[k][2] = CellOf(i).score
    BY <2>4 DEF Scored
  <2>. QED  BY <2>1, <2>2, <2>4, <2>5
<1>2. ASSUME NEW k \in 1 .. Len(file.scores) - 1, Scored(k), file.scores[k][2] > 0
      PROVE  \E i \in DOMAIN file.trace : Position(file.trace[i].who) = k /\ Holds(i, "scored")
  <2>1. file.scores \in Seq(LogValue) /\ file.trace \in Seq(TraceEntry) /\ table \in Seq(Cell) /\ at \in Nat
        /\ row \in Nat /\ column \in 0 .. Totals
    BY Sizes DEF Inv, Typed
  <2>2. k \in DOMAIN file.scores /\ k < Len(file.scores) /\ Len(file.scores) \in Nat /\ k \in Nat
    BY <2>1
  <2>3. PICK u \in 0 .. UsersCount, c \in 0 .. Totals : k = Index(u, c) /\ file.scores[k] = ScoreOf(u, c)
    BY <2>2, LinesOf
  <2>4. u # 0 /\ c \in Problem /\ ScoreOf(u, c) = <<"score", Told(<<u, c>>).score>>
    BY <1>2, <2>3 DEF Scored, ScoreOf, Line
  <2>5. u \in present /\ u \in Nat
    <3>1. Told(<<u, c>>).score > 0
      BY <1>2, <2>3, <2>4
    <3>2. <<u, c>>[1] \in present
      BY <3>1, PointsOfAPass DEF Inv
    <3>. QED  BY <3>2, Sizes
  <2>6. PICK j \in DOMAIN table : table[j] = <<u, c>>
    BY <2>4, <2>5 DEF Inv, Listed
  <2>7. k < Index(row, column)
    <3>1. PICK n \in Nat : n = Index(row, column)
      BY <2>1, Grid
    <3>2. Len(file.scores) <= n
      BY <3>1 DEF Inv, Reported
    <3>. QED  BY <2>2, <3>1, <3>2
  <2>8. Precedes(table[j], <<row, column>>)
    <3>1. u < row \/ (u = row /\ c < column)
      BY <2>1, <2>3, <2>5, <2>7, Grid
    <3>. QED  BY <2>6, <3>1 DEF Precedes
  <2>9. j < at /\ j \in Nat \ {0}
    <3>1. j < at
      BY <2>6, <2>8 DEF Inv, Cursors
    <3>2. DOMAIN table \subseteq Nat \ {0}
      <4>1. DOMAIN table = 1 .. Len(table) /\ Len(table) \in Nat
        BY <2>1
      <4>. QED  BY <4>1
    <3>. QED  BY <2>6, <3>1, <3>2
  <2>10. j \in DOMAIN file.trace
    <3>1. at - 1 <= Len(file.trace) /\ Len(file.trace) \in Nat
      <4>1. Len(file.trace) = at \/ Len(file.trace) = at - 1
        BY <2>1 DEF Inv, Reported
      <4>. QED  BY <2>1, <4>1
    <3>. QED  BY <2>1, <2>9, <3>1
  <2>11. Position(table[j]) = k
    BY <2>3, <2>6 DEF Position, Index
  <2>12. Holds(j, "scored")
    <3>1. file.trace[j] = Entry(j)
      BY <2>1, <2>9 DEF Inv, Reported
    <3>2. "scored" \in DOMAIN Entry(j)
      BY DEF Entry
    <3>. QED  BY <3>1, <3>2 DEF Holds
  <2>. QED  BY <2>10, <2>11, <2>12, TracedIsTabled
<1>. QED  BY <1>1, <1>2 DEF TraceHasTheScores

LEMMA TraceTellsTheMarks ==
  ASSUME Inv, pc = "report"
  PROVE  TraceFitsTheMarks
<1>. SUFFICES ASSUME NEW i \in DOMAIN file.trace, Holds(i, "says")
              PROVE  file.results[Position(file.trace[i].who)][2] \in Tabled(file.trace[i])
  BY DEF TraceFitsTheMarks
<1>1. /\ i \in DOMAIN table /\ file.trace[i].says = Entry(i).says /\ file.trace[i].who = table[i]
      /\ file.results[Position(table[i])] = <<"mark", CellOf(i).mark>>
  BY TracedIsTabled DEF Holds
<1>2. CellOf(i).mark \in Tabled(Entry(i))
  BY <1>1, MarkFitsCounts DEF Inv
<1>3. Tabled(file.trace[i]) = Tabled(Entry(i))
  BY <1>1 DEF Tabled
<1>. QED  BY <1>1, <1>2, <1>3

LEMMA LogsTell == Inv => (pc = "report" => LogsTellTheSame)
  BY TablesTellTheSame, TotalsTellTheSame, TraceTellsTheScores, TraceTellsTheMarks DEF LogsTellTheSame

(* The scores of a row stay what they are while scores.log does.           *)
LEMMA SumsStay ==
  ASSUME file'.scores = file.scores, NEW k
  PROVE  RowSum(k)' = RowSum(k)
<1>1. PICK scores : scores = file.scores /\ scores = file'.scores
  OBVIOUS
<1>. DEFINE S == k - ProblemsCount .. k - 1
            IsTotal(h) ==
              h = [s \in SUBSET S |->
                     IF s = {} THEN 0 ELSE scores[CHOOSE x \in s : TRUE][2] + h[s \ {CHOOSE x \in s : TRUE}]]
<1>2. RowSum(k) = (CHOOSE h : IsTotal(h))[S]
  BY <1>1 DEF RowSum, MapThenSumSet, MapThenFoldSet
<1>3. RowSum(k)' = (CHOOSE h : IsTotal(h))[S]
  BY <1>1 DEF RowSum, MapThenSumSet, MapThenFoldSet
<1>. QED  BY <1>2, <1>3

(* A log that is emptied says nothing the others could contradict.         *)
LEMMA EmptiedTellsTheSame ==
  ASSUME Typed, LogsTellTheSame, NEW f \in {"results", "trace", "scores"}, file' = [file EXCEPT ![f] = <<>>]
  PROVE  LogsTellTheSame'
<1>1. file \in [results : Seq(LogValue), trace : Seq(TraceEntry), scores : Seq(LogValue)]
  BY DEF Typed
<1>2. CASE f = "scores"
  <2>1. file'.scores = <<>> /\ file'.results = file.results /\ file'.trace = file.trace
    BY <1>1, <1>2
  <2>2. DOMAIN <<>> = {}
    OBVIOUS
  <2>3. TablesAgree' /\ RowsAddUp' /\ TraceHasTheScores'
    BY <2>1, <2>2 DEF TablesAgree, RowsAddUp, TraceHasTheScores
  <2>4. TraceFitsTheMarks'
    BY <2>1 DEF LogsTellTheSame, TraceFitsTheMarks, Holds
  <2>. QED  BY <2>3, <2>4 DEF LogsTellTheSame
<1>3. CASE f # "scores"
  <2>1. file'.scores = file.scores
    BY <1>1, <1>3
  <2>2. RowsAddUp'
    BY <2>1, SumsStay DEF LogsTellTheSame, RowsAddUp
  <2>3. CASE f = "results"
    <3>1. file'.results = <<>> /\ file'.trace = file.trace
      BY <1>1, <2>3
    <3>2. TablesAgree' /\ TraceFitsTheMarks'
      BY <3>1 DEF TablesAgree, TraceFitsTheMarks
    <3>3. TraceHasTheScores'
      BY <2>1, <3>1 DEF LogsTellTheSame, TraceHasTheScores, Scored, Holds
    <3>. QED  BY <2>2, <3>2, <3>3 DEF LogsTellTheSame
  <2>4. CASE f = "trace"
    <3>1. file'.trace = <<>> /\ file'.results = file.results
      BY <1>1, <2>4
    <3>2. TraceHasTheScores' /\ TraceFitsTheMarks'
      BY <3>1 DEF TraceHasTheScores, TraceFitsTheMarks
    <3>3. TablesAgree'
      BY <2>1, <3>1 DEF LogsTellTheSame, TablesAgree, Scored
    <3>. QED  BY <2>2, <3>2, <3>3 DEF LogsTellTheSame
  <2>. QED  BY <1>3, <2>3, <2>4
<1>. QED  BY <1>2, <1>3

LEMMA SameFileTellsTheSame ==
  ASSUME LogsTellTheSame, file' = file
  PROVE  LogsTellTheSame'
<1>1. RowsAddUp'
  BY SumsStay DEF LogsTellTheSame, RowsAddUp
<1>2. TablesAgree' /\ TraceHasTheScores' /\ TraceFitsTheMarks'
  BY DEF LogsTellTheSame, TablesAgree, TraceHasTheScores, TraceFitsTheMarks, Scored, Holds
<1>. QED  BY <1>1, <1>2 DEF LogsTellTheSame

LEMMA LogsTellInit == Init => LogsTellTheSame
<1>1. DOMAIN <<>> = {}
  OBVIOUS
<1>. QED  BY <1>1 DEF Init, LogsTellTheSame, TablesAgree, RowsAddUp, TraceHasTheScores, TraceFitsTheMarks

LEMMA LogsTellStep ==
  ASSUME Inv, Inv', LogsTellTheSame, [Next]_vars
  PROVE  LogsTellTheSame'
<1>. USE DEF judge, disk, past
<1>1. CASE file' = file
  BY <1>1, SameFileTellsTheSame
<1>2. CASE file' # file
  <2>1. ASSUME NEW r \in DOMAIN runner, RunnerStep(r) \/ RunnerDies(r) PROVE FALSE
    <3>1. file' = file
      BY <2>1, OneRunner DEF Inv
    <3>. QED  BY <1>2, <3>1
  <2>2. OpenLog \/ WriteResults \/ WriteScores \/ WriteTrace
    BY <1>2, <2>1 DEF Next, JudgeStep, Over, vars, Begin, LoadContest, ContestRefused, AskSandbox, SandboxRefused,
         LogsOpen, LogMissing, NoRoom, MakeRoom, Enlist, RunJobs, StartJob, Collect, JobsDone, GiveUp,
         Finish, Killed, Interrupted, Return
  <2>3. CASE OpenLog
    <3>1. Len(opened') \in {1, 2, 3} /\ file' = [file EXCEPT ![LogFile[Len(opened')]] = <<>>]
      <4>1. opened \in Seq(BOOLEAN) /\ Len(opened) < 3
        BY <2>3 DEF OpenLog, LogFile, Inv, Typed
      <4>2. \E could \in BOOLEAN : opened' = Append(opened, could)
        BY <2>3 DEF OpenLog
      <4>3. Len(opened') \in {1, 2, 3}
        BY <4>1, <4>2
      <4>. QED  BY <1>2, <2>3, <4>3 DEF OpenLog
    <3>2. LogFile[Len(opened')] \in {"results", "trace", "scores"}
      <4>1. \A n \in {1, 2, 3} : LogFile[n] \in {"results", "trace", "scores"}
        <5>1. LogFile[1] = "results" /\ LogFile[2] = "trace" /\ LogFile[3] = "scores"
          BY DEF LogFile
        <5>. QED  BY <5>1
      <4>. QED  BY <3>1, <4>1
    <3>. QED  BY <3>1, <3>2, EmptiedTellsTheSame DEF Inv
  <2>4. CASE ~OpenLog
    <3>1. pc' = "report"
      BY <2>2, <2>4 DEF WriteResults, WriteScores, WriteTrace
    <3>2. (Inv => (pc = "report" => LogsTellTheSame))'
      BY LogsTell, PTL
    <3>. QED  BY <3>1, <3>2
  <2>. QED  BY <2>3, <2>4
<1>. QED  BY <1>1, <1>2

(* results.log, scores.log and results2.log never contradict one another,  *)
(* whichever of them a judge has emptied or left unfinished.               *)
THEOREM LogsAgree == Spec => []LogsTellTheSame
<1>1. Init => LogsTellTheSame
  BY LogsTellInit
<1>2. Inv /\ Inv' /\ LogsTellTheSame /\ [Next]_vars => LogsTellTheSame'
  BY LogsTellStep
<1>. QED  BY <1>1, <1>2, InvHolds, PTL DEF Spec
=============================================================================
