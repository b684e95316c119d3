------------------------------- MODULE Judge -------------------------------
(***************************************************************************)
(* One marking run of judge.c, from the table of jobs to the last row of   *)
(* the scoreboard: main lists the submissions, run_jobs keeps up to        *)
(* Workers runners going and collects each one that waitpid reports, and   *)
(* main writes the scoreboard in the order of the configuration.           *)
(*                                                                         *)
(* The runners are processes of the system.  They are modelled by what the *)
(* judge can see of them: the bytes they put into their pipe and that they *)
(* end.  Process ids are handed out again once waited for, as the system   *)
(* does, and the judge may have inherited children it never started.       *)
(***************************************************************************)
EXTENDS Contest, SequencesExt

CONSTANTS
  Workers,        \* slots of run_jobs
  Pid,            \* process ids of the system
  Inherited,      \* the pids of children the judge did not start
  PipeRoom        \* bytes a pipe takes before its writer has to wait

Slot  == 1 .. Workers
JobId == 1 .. UsersCount * ProblemsCount
NoJob == 0      \* the -1 of a free slot: jobs are counted from 1 here

ASSUME JudgeAssumption ==
  /\ Workers \in Nat \ {0}          \* workers_wanted turns 0 into the processors
  /\ Inherited \subseteq Pid
  /\ NoJob \notin Pid               \* fork gives its caller no pid 0

(* There is a pid for every worker.  Where the system is out of them, fork *)
(* fails, which is the "start" of Faults.                                  *)
ASSUME PidAssumption ==
  IsFiniteSet(Pid) /\ Cardinality(Pid) >= Workers + Cardinality(Inherited)

VARIABLES
  pc,        \* where the judge is: "enlist", "fill", "wait", "report", "done"
  user, problem, at, total,        \* the cursors and the sum of main's loops
  present,   \* present[u]: u's directory was there
  jobs,      \* the table: jobs[j] is <<user, problem>>
  result,    \* result[j]: the marks collect stored, for the jobs collected
  slots,     \* slots[s]: the pid and the job of slot s
  next, done, running, failed,     \* the counters and the flag of run_jobs
  proc,      \* proc[pid]: "free", "live" or "zombie", and the job it runs
  pipe,      \* pipe[j]: the bytes in the pipe between job j's runner and the judge
  open,      \* the jobs whose pipe the judge holds the read end of
  board,     \* board[<<u, p>>]: the cell written for u and p, once it is
  totals     \* totals[u]: the total written at the end of u's row, once it is

cursors == <<user, problem, at, total>>
tables  == <<present, jobs>>
queue   == <<slots, next, done, running>>
system  == <<proc, pipe, open>>
output  == <<board, totals>>
vars    == <<pc, failed, result, cursors, tables, queue, system, output>>

Free == [state |-> "free", job |-> NoJob]

Init ==
  /\ pc = "enlist"
  /\ user = 1 /\ problem = 1 /\ at = 0 /\ total = 0
  /\ present = [u \in User |-> FALSE]
  /\ jobs = <<>>
  /\ result = <<>>
  /\ slots = [s \in Slot |-> [pid |-> NoJob, job |-> NoJob]]
  /\ next = 0 /\ done = 0 /\ running = 0 /\ failed = FALSE
  /\ proc = [pid \in Pid |-> IF pid \in Inherited
                             THEN [state |-> "live", job |-> NoJob] ELSE Free]
  /\ pipe = [j \in JobId |-> <<>>]
  /\ open = {}
  /\ board = <<>> /\ totals = <<>>

----------------------------------------------------------------------------
(* main: the table of jobs *)

ReversedRow(u) == [p \in 1 .. ProblemsCount |-> <<u, ProblemsCount + 1 - p>>]
Row(u) == [p \in 1 .. ProblemsCount |-> <<u, p>>]

(* The next student of the configuration: a directory that is there puts a *)
(* job for each problem into the table, one that is not leaves a row of X. *)
Enlist ==
  /\ pc = "enlist" /\ user <= UsersCount
  /\ \E here \in BOOLEAN :
       /\ present' = [present EXCEPT ![user] = here]
       /\ jobs' = IF here THEN jobs \o Row(user) ELSE jobs
  /\ user' = user + 1
  /\ UNCHANGED <<pc, failed, result, problem, at, total, queue, system, output>>

(* The table is complete: run_jobs begins, and the user counter of main's  *)
(* last loop, which is a variable of its own in the code, starts again.    *)
RunJobs ==
  /\ pc = "enlist" /\ user > UsersCount
  /\ pc' = "fill" /\ user' = 1
  /\ UNCHANGED <<failed, result, problem, at, total, tables, queue, system, output>>

----------------------------------------------------------------------------
(* run_jobs and start_job *)

Occupied == {s \in Slot : slots[s].job # NoJob}

LastButOne == next < Len(jobs) /\ running + 1 < Workers
FillMore   == next < Len(jobs) /\ running < Workers

ReusesFirst == 1
FreeSlot    == Min(Slot \ Occupied)

(* start_job succeeds: a pipe, a fork, and the first free slot is taken. *)
StartJob ==
  /\ pc = "fill" /\ FillMore
  /\ \E pid \in Pid :
       /\ proc[pid] = Free
       /\ proc' = [proc EXCEPT ![pid] = [state |-> "live", job |-> next + 1]]
       /\ slots' = [slots EXCEPT ![FreeSlot] = [pid |-> pid, job |-> next + 1]]
  /\ open' = open \cup {next + 1}
  /\ next' = next + 1
  /\ running' = running + 1
  /\ UNCHANGED <<pc, failed, result, done, cursors, tables, pipe, output>>

AlwaysWaits  == "wait"
AfterFilling == IF running = 0 THEN "report" ELSE "wait"

(* pipe or fork fails: what was opened is closed, nothing more is started. *)
StartFails ==
  /\ pc = "fill" /\ FillMore
  /\ "start" \in Faults
  /\ failed' = TRUE
  /\ pc' = AfterFilling
  /\ UNCHANGED <<result, cursors, tables, queue, system, output>>

(* Every slot is taken, or every job is started. *)
StopFilling ==
  /\ pc = "fill" /\ ~FillMore
  /\ pc' = AfterFilling
  /\ UNCHANGED <<failed, result, cursors, tables, queue, system, output>>

----------------------------------------------------------------------------
(* run_jobs and collect *)

(* The bytes up to the newline, or all of them when the writer never got   *)
(* as far as writing one.                                                  *)
Collected(bytes) ==
  LET ends == {i \in DOMAIN bytes : bytes[i] = Newline}
  IN  IF ends = {} THEN bytes ELSE SubSeq(bytes, 1, Min(ends) - 1)

AnyBusySlot(pid) == Occupied
Owner(pid) == {s \in Occupied : slots[s].pid = pid}

NotReleased(s) == slots
Released(s) == [slots EXCEPT ![s].job = NoJob]

LeftOpen(j) == open
Closed(j) == open \ {j}

Peeked(pid) == proc
Reaped(pid) == [proc EXCEPT ![pid] = Free]

OneShort(n) == n + 1 < Len(jobs)
MoreToDo(n) == n < Len(jobs)

(* waitpid reports a child that has ended.  The slot that holds its pid    *)
(* gives up its job; a child no slot holds is forgotten.  The loop goes on *)
(* while jobs are left and nothing has failed.                             *)
Reap ==
  /\ pc = "wait"
  /\ \E pid \in Pid :
       /\ proc[pid].state = "zombie"
       /\ proc' = Reaped(pid)
       /\ IF Owner(pid) = {}
          THEN UNCHANGED <<result, slots, open, done, running>>
          ELSE LET s == Min(Owner(pid))
                   j == slots[s].job
               IN  /\ result' = With(result, j, Collected(pipe[j]))
                   /\ slots' = Released(s)
                   /\ open' = Closed(j)
                   /\ done' = done + 1
                   /\ running' = running - 1
  /\ pc' = IF MoreToDo(done') /\ ~failed THEN "fill" ELSE "report"
  /\ UNCHANGED <<failed, next, pipe, cursors, tables, output>>

(* waitpid itself fails, as it does when the judge has no child at all: the *)
(* loop is left, with whatever runners there are still out.                *)
WaitFails ==
  /\ pc = "wait"
  /\ "wait" \in Faults \/ \A pid \in Pid : proc[pid] = Free
  /\ failed' = TRUE
  /\ pc' = "report"
  /\ UNCHANGED <<result, cursors, tables, queue, system, output>>

----------------------------------------------------------------------------
(* main: scores and scoreboard *)

CellOf(j) == IF j \in DOMAIN result
             THEN MarkedCell(jobs[j][2], result[j]) ELSE LostCell

(* The counter of jobs taken off the table: an absent student has none.    *)
EveryCell == at + 1
NextJob   == IF present[user] THEN at + 1 ELSE at

(* The cell under (user, problem): the jobs are taken off the table in the *)
(* order they were put there, skipping nobody's but an absent student's.   *)
WriteCell ==
  /\ pc = "report" /\ user <= UsersCount /\ problem <= ProblemsCount
  /\ IF present[user]
     THEN /\ board' = With(board, <<user, problem>>, CellOf(at + 1))
          /\ total' = total + CellOf(at + 1).score
     ELSE /\ board' = With(board, <<user, problem>>, AbsentCell)
          /\ total' = total
  /\ at' = NextJob
  /\ problem' = problem + 1
  /\ UNCHANGED <<pc, failed, result, user, tables, queue, system, totals>>

FreshTotal == 0

EndRow ==
  /\ pc = "report" /\ user <= UsersCount /\ problem > ProblemsCount
  /\ totals' = With(totals, user, total)
  /\ total' = FreshTotal
  /\ user' = user + 1
  /\ problem' = 1
  /\ UNCHANGED <<pc, failed, result, at, tables, queue, system, board>>

(* The judge frees what it holds and returns: its status is -1 if failed,  *)
(* and the read ends it still holds go with it.                            *)
Finish ==
  /\ pc = "report" /\ user > UsersCount
  /\ pc' = "done"
  /\ UNCHANGED <<failed, result, cursors, tables, queue, system, output>>

----------------------------------------------------------------------------
(* The runners *)

VerdictOf(j) == Verdict[jobs[j][1]][jobs[j][2]]
Written(j)   == Append(VerdictOf(j), Newline)

(* The runner puts its next mark, or the newline, into the pipe. *)
RunnerWrites(pid) ==
  /\ proc[pid].state = "live" /\ proc[pid].job # NoJob
  /\ LET j == proc[pid].job
         n == Len(pipe[j])
     IN  /\ n < Len(Written(j)) /\ n < PipeRoom
         /\ pipe' = [pipe EXCEPT ![j] = Append(@, Written(j)[n + 1])]
  /\ UNCHANGED <<pc, failed, result, cursors, tables, queue, proc, open, output>>

Ends(pid) == proc' = [proc EXCEPT ![pid].state = "zombie"]

(* The runner has written its newline and returns from main. *)
RunnerExits(pid) ==
  /\ proc[pid].state = "live" /\ proc[pid].job # NoJob
  /\ pipe[proc[pid].job] = Written(proc[pid].job)
  /\ Ends(pid)
  /\ UNCHANGED <<pc, failed, result, cursors, tables, queue, pipe, open, output>>

(* The runner ends early: it cannot be started, cannot write its log,      *)
(* returns before the first test, or is killed; and once the judge has     *)
(* returned, a write into a pipe nobody reads any more ends it.            *)
RunnerDies(pid) ==
  /\ "runner" \in Faults \/ pc = "done"
  /\ proc[pid].state = "live" /\ proc[pid].job # NoJob
  /\ Ends(pid)
  /\ UNCHANGED <<pc, failed, result, cursors, tables, queue, pipe, open, output>>

(* A child the judge inherited ends. *)
InheritedEnds(pid) ==
  /\ proc[pid].state = "live" /\ proc[pid].job = NoJob
  /\ Ends(pid)
  /\ UNCHANGED <<pc, failed, result, cursors, tables, queue, pipe, open, output>>

----------------------------------------------------------------------------
JudgeStep ==
  \/ Enlist \/ RunJobs
  \/ StartJob \/ StartFails \/ StopFilling
  \/ Reap \/ WaitFails
  \/ WriteCell \/ EndRow \/ Finish

RunnerStep(pid) == RunnerWrites(pid) \/ RunnerExits(pid)

(* The judge has returned: nothing more happens to its state. *)
Halted == pc = "done" /\ UNCHANGED vars

Next ==
  \/ JudgeStep
  \/ \E pid \in Pid : RunnerStep(pid) \/ RunnerDies(pid) \/ InheritedEnds(pid)
  \/ Halted

(* The judge is one thread that always goes on when it can, and a runner   *)
(* that is alive gets to run: the system schedules both.  Nothing is       *)
(* promised of a fault, nor of the children the judge inherited.           *)
Fairness == WF_vars(JudgeStep) /\ \A pid \in Pid : WF_vars(RunnerStep(pid))

Spec == Init /\ [][Next]_vars /\ Fairness

----------------------------------------------------------------------------
(* Properties *)

SlotValue == [pid : Pid \cup {NoJob}, job : JobId \cup {NoJob}]
Process   == [state : {"free", "live", "zombie"}, job : JobId \cup {NoJob}]
CellValue == [mark : Mark \cup {Nul}, score : Nat]

(* The values every variable keeps to: the cursors of main and of run_jobs *)
(* stay inside the table and the scoreboard, no more runners are out than  *)
(* there are slots (so that the search for a free one stays inside them),  *)
(* and the slots hold pids and jobs.                                       *)
TypeOK ==
  /\ pc \in {"enlist", "fill", "wait", "report", "done"}
  /\ user \in 1 .. UsersCount + 1 /\ problem \in 1 .. ProblemsCount + 1
  /\ at \in 0 .. Len(jobs) /\ total \in Nat
  /\ present \in [User -> BOOLEAN]
  /\ jobs \in Seq(Cell)
  /\ DOMAIN result \subseteq JobId /\ result \in [DOMAIN result -> Seq(Mark)]
  /\ slots \in [Slot -> SlotValue]
  /\ next \in 0 .. Len(jobs) /\ done \in 0 .. Len(jobs) /\ running \in 0 .. Workers
  /\ failed \in BOOLEAN
  /\ proc \in [Pid -> Process]
  /\ pipe \in [JobId -> Seq(Mark \cup {Newline})]
  /\ open \subseteq JobId
  /\ DOMAIN board \subseteq Cell /\ board \in [DOMAIN board -> CellValue]
  /\ DOMAIN totals \subseteq User /\ totals \in [DOMAIN totals -> Nat]

(* run_jobs never loses sight of a runner: a busy slot holds the pid of a  *)
(* child that runs the job of that slot (so that waitpid cannot report     *)
(* that pid for anything else), no job is in two slots, and every child    *)
(* that runs a job is in a slot.                                           *)
SlotsHoldChildren ==
  /\ \A s \in Occupied : slots[s].pid \in Pid /\ proc[slots[s].pid].job = slots[s].job
  /\ \A s, t \in Occupied : slots[s].job = slots[t].job => s = t
  /\ \A pid \in Pid : proc[pid].job # NoJob => Owner(pid) # {}

(* The three counters of run_jobs agree with its slots and with what has   *)
(* been collected: each job that was started is in a slot or collected,    *)
(* never both, and the judge holds the pipes of exactly those in a slot.   *)
InSlots == {slots[s].job : s \in Occupied}

JobsAccountedFor ==
  /\ running = Cardinality(Occupied)
  /\ done = Cardinality(DOMAIN result)
  /\ next = done + running
  /\ InSlots \cup DOMAIN result = 1 .. next
  /\ InSlots \cap DOMAIN result = {}
  /\ open = InSlots

(* The judge only waits with every worker busy or nothing left to start,   *)
(* unless a start has failed: -j workers are used (run_jobs' inner loop).  *)
KeepsWorkersBusy ==
  pc = "wait" /\ ~failed => running = Min({Workers, Len(jobs) - done})

(* waitpid is only called while a runner of the judge's own is out, so it  *)
(* neither fails for want of a child nor waits for one nobody started.     *)
WaitsForSomebody ==
  pc = "wait" => \E pid \in Pid : proc[pid].job # NoJob

(* What collect stores for a job is what that job's own runner wrote:      *)
(* all of it, or the first marks of it where runners may die.              *)
OwnMarks ==
  \A j \in DOMAIN result :
    /\ IsPrefix(result[j], VerdictOf(j))
    /\ "runner" \in Faults \/ result[j] = VerdictOf(j)

(* The scoreboard once it is written, where runners do not die.  It says   *)
(* the same whatever order the jobs finished in and however many workers   *)
(* there were; in a run that failed, a cell is either that or lost.        *)
TrueCell(c) == MarkedCell(c[2], Verdict[c[1]][c[2]])

CellsAreTheVerdicts ==
  pc = "done" /\ "runner" \notin Faults =>
    /\ DOMAIN board = Cell
    /\ \A c \in Cell : IF present[c[1]]
                       THEN \/ board[c] = TrueCell(c)
                            \/ failed /\ board[c] = LostCell
                       ELSE board[c] = AbsentCell

(* A run that has not failed leaves nothing behind: every job of the table *)
(* is collected, no runner is unwaited for, no pipe is left open.          *)
CleanExit ==
  pc \in {"report", "done"} /\ ~failed =>
    /\ DOMAIN result = DOMAIN jobs
    /\ \A pid \in Pid : proc[pid].job = NoJob
    /\ open = {}

(* The judge returns: no order of runners ending, and no child it did not  *)
(* start, keeps run_jobs waiting for ever.                                 *)
Termination == <>(pc = "done")

(* The judge keeps the promise of module Marking: the order in which the   *)
(* jobs finish shows neither in the scoreboard nor in the order of it.     *)
LookedAt  == {u \in User : pc # "enlist" \/ u < user}
Collects  == {jobs[j] : j \in DOMAIN result}
IndexOf(c) == CHOOSE j \in DOMAIN result : jobs[j] = c

Promise == INSTANCE Marking WITH
  present <- [u \in LookedAt |-> present[u]],
  marks   <- [c \in Collects |-> result[IndexOf(c)]]

KeepsPromise == Promise!Spec

----------------------------------------------------------------------------
(* What the documents say of the scoreboard *)

(* README.md: + means that every test passed.                              *)
PlusMeansAllPassed ==
  \A c \in DOMAIN board :
    board[c].mark = "+" =>
      /\ Verdict[c[1]][c[2]] = [i \in 1 .. Tests[c[2]] |-> "+"]
      /\ board[c].score = Points[c[2]]
=============================================================================
