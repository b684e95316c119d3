---------------------------- MODULE JudgeProofs ----------------------------
(***************************************************************************)
(* What run_jobs keeps true for every contest, number of workers and order *)
(* of events.  The inductive invariant is built in four layers, each with  *)
(* its own lemmas for Init and for a step: Typed (values and cursors),     *)
(* SlotsAgree (slots, counters and children), Pool (what the program       *)
(* counter says of them) and Pipes (what has been written and collected).  *)
(* On them rest what the scoreboard says, and that the judge keeps the     *)
(* promise of module Marking.                                              *)
(***************************************************************************)
EXTENDS Judge, MarksProofs, SequenceTheorems

(***************************************************************************)
(* Types.  Values is TypeOK without the bounds on the cursors, which rest  *)
(* on everything below (TypeCorrect).  Values alone is not inductive: that *)
(* next + 1 is a job of the table needs the table to be no longer than the *)
(* scoreboard has cells, and the cell of a job needs the job to be in it.  *)
(***************************************************************************)
Values ==
  /\ pc \in {"enlist", "fill", "wait", "report", "done"}
  /\ user \in 1 .. UsersCount + 1 /\ problem \in 1 .. ProblemsCount + 1
  /\ at \in Nat /\ total \in Nat
  /\ present \in [User -> BOOLEAN]
  /\ jobs \in Seq(Cell)
  /\ DOMAIN result \subseteq JobId /\ result \in [DOMAIN result -> Seq(Mark)]
  /\ slots \in [Slot -> SlotValue]
  /\ next \in Nat /\ done \in Nat /\ running \in Int
  /\ failed \in BOOLEAN
  /\ proc \in [Pid -> Process]
  /\ pipe \in [JobId -> Seq(Mark \cup {Newline})]
  /\ open \subseteq JobId
  /\ DOMAIN board \subseteq Cell /\ board \in [DOMAIN board -> CellValue]
  /\ DOMAIN totals \subseteq User /\ totals \in [DOMAIN totals -> Nat]

Indices ==
  /\ next <= Len(jobs) /\ Len(jobs) <= UsersCount * ProblemsCount
  /\ pc = "enlist" => next = 0 /\ Len(jobs) <= (user - 1) * ProblemsCount
  /\ DOMAIN result \subseteq 1 .. next
  /\ \A s \in Slot : slots[s].job <= next
  /\ \A pid \in Pid : proc[pid].job <= next

Typed == Values /\ Indices

LEMMA CountAssumption ==
  /\ UsersCount \in Nat /\ ProblemsCount \in Nat
  /\ UsersCount * ProblemsCount \in Nat
BY ContestAssumption

(* What a runner means to write: marks and a newline.                      *)
LEMMA WrittenType ==
  ASSUME Typed, NEW j \in JobId, j <= Len(jobs)
  PROVE  /\ jobs[j] \in Cell
         /\ VerdictOf(j) \in Seq(Mark)
         /\ Written(j) \in Seq(Mark \cup {Newline})
<1>1. jobs[j] \in Cell
  BY DEF Typed, Values, JobId
<1>2. jobs[j][1] \in User /\ jobs[j][2] \in Problem
  BY <1>1 DEF Cell
<1>3. VerdictOf(j) = <<NotBuilt>> \/ VerdictOf(j) \in Seq(TestMark)
  BY <1>2, VerdictAssumption DEF VerdictOf
<1>4. <<NotBuilt>> \in Seq(Mark)
  BY DEF Mark
<1>5. Seq(TestMark) \subseteq Seq(Mark)
  BY SeqMonotonic DEF Mark
<1>6. VerdictOf(j) \in Seq(Mark)
  BY <1>3, <1>4, <1>5
<1>7. VerdictOf(j) \in Seq(Mark \cup {Newline})
  BY <1>6, SeqMonotonic
<1>. QED  BY <1>1, <1>6, <1>7 DEF Written

(* What collect takes out of a pipe are marks.                             *)
LEMMA CollectedType ==
  ASSUME NEW bytes \in Seq(Mark \cup {Newline})
  PROVE  Collected(bytes) \in Seq(Mark)
<1>. DEFINE ends == {i \in DOMAIN bytes : bytes[i] = Newline}
<1>1. CASE ends = {}
  <2>1. \A i \in 1 .. Len(bytes) : bytes[i] \in Mark
    BY <1>1
  <2>. QED  BY <1>1, <2>1 DEF Collected
<1>2. CASE ends # {}
  <2>1. ends \in SUBSET Nat
    OBVIOUS
  <2>2. Min(ends) \in ends /\ \A i \in ends : Min(ends) <= i
    BY <1>2, <2>1, LeastNatural
  <2>3. Min(ends) \in 1 .. Len(bytes)
    BY <2>2
  <2>4. ASSUME NEW i \in 1 .. Min(ends) - 1 PROVE bytes[i] \in Mark
    <3>1. i \in DOMAIN bytes /\ ~(Min(ends) <= i)
      BY <2>3
    <3>2. i \notin ends
      BY <2>2, <3>1
    <3>. QED  BY <3>1, <3>2
  <2>5. Collected(bytes) = SubSeq(bytes, 1, Min(ends) - 1)
    BY <1>2 DEF Collected
  <2>6. SubSeq(bytes, 1, Min(ends) - 1) = [i \in 1 .. Min(ends) - 1 |-> bytes[i]]
    BY <2>3
  <2>7. Min(ends) - 1 \in Nat
    BY <2>3
  <2>8. [i \in 1 .. Min(ends) - 1 |-> bytes[i]] \in [1 .. Min(ends) - 1 -> Mark]
    BY <2>4
  <2>. QED  BY <2>5, <2>6, <2>7, <2>8
<1>. QED  BY <1>1, <1>2

(* A cell of the scoreboard is a mark, or NUL, and a score.                *)
LEMMA CellType ==
  ASSUME Typed, NEW j
  PROVE  CellOf(j) \in CellValue
<1>1. CASE j \notin DOMAIN result
  BY <1>1 DEF CellOf, LostCell, CellValue
<1>2. CASE j \in DOMAIN result
  <2>1. jobs[j] \in Cell
    BY <1>2 DEF Typed, Values, Indices, JobId
  <2>2. PICK p \in Problem : p = jobs[j][2]
    BY <2>1 DEF Cell
  <2>3. Points[p] \in Nat /\ Tests[p] \in Nat \ {0}
    BY ContestAssumption
  <2>4. result[j] \in Seq(Mark)
    BY <1>2 DEF Typed, Values
  <2>5. Passed(result[j]) \in Nat
    BY <2>4, PassedBounds
  <2>6. Points[p] * Passed(result[j]) \in Nat
    BY <2>3, <2>5
  <2>7. Score(Points[p], Passed(result[j]), Tests[p]) \in Nat
    BY <2>3, <2>6 DEF Score
  <2>. QED  BY <1>2, <2>2, <2>7, SummariseType DEF CellOf, MarkedCell, CellValue
<1>. QED  BY <1>1, <1>2

LEMMA TypedInit == Init => Typed
<1>. SUFFICES ASSUME Init PROVE Typed
  OBVIOUS
<1>1. 0 <= UsersCount * ProblemsCount
  BY CountAssumption
<1>2. Values
  <2>1. 1 \in 1 .. UsersCount + 1 /\ 1 \in 1 .. ProblemsCount + 1
    BY CountAssumption
  <2>2. /\ present \in [User -> BOOLEAN]
        /\ slots \in [Slot -> SlotValue]
    BY DEF Init, SlotValue
  <2>3. proc \in [Pid -> Process]
    BY DEF Init, Free, Process
  <2>4. pipe \in [JobId -> Seq(Mark \cup {Newline})]
    BY DEF Init
  <2>5. DOMAIN <<>> = {} /\ \A S : <<>> \in [{} -> S]
    OBVIOUS
  <2>6. DOMAIN result \subseteq JobId /\ result \in [DOMAIN result -> Seq(Mark)]
    BY <2>5 DEF Init
  <2>7. DOMAIN board \subseteq Cell /\ board \in [DOMAIN board -> CellValue]
    BY <2>5 DEF Init
  <2>8. DOMAIN totals \subseteq User /\ totals \in [DOMAIN totals -> Nat]
    BY <2>5 DEF Init
  <2>9. jobs \in Seq(Cell) /\ open \subseteq JobId
    BY DEF Init
  <2>10. /\ pc \in {"enlist", "fill", "wait", "report", "done"}
         /\ user \in 1 .. UsersCount + 1 /\ problem \in 1 .. ProblemsCount + 1
         /\ at \in Nat /\ total \in Nat
         /\ next \in Nat /\ done \in Nat /\ running \in Int
    BY <2>1 DEF Init
  <2>11. failed \in BOOLEAN
    BY Zenon DEF Init
  <2>. QED  BY <2>2, <2>3, <2>4, <2>6, <2>7, <2>8, <2>9, <2>10, <2>11 DEF Values
<1>3. Indices
  BY CountAssumption, <1>1 DEF Init, Indices, Free, NoJob
<1>. QED  BY <1>2, <1>3 DEF Typed

LEMMA TypedStep ==
  ASSUME Typed, [Next]_vars
  PROVE  Typed'
<1>. USE DEF cursors, tables, queue, system, output
<1>1. Values /\ Indices
  BY DEF Typed
<1>2. CASE Enlist
  <2>1. PICK here \in BOOLEAN :
          /\ present' = [present EXCEPT ![user] = here]
          /\ jobs' = IF here THEN jobs \o Row(user) ELSE jobs
    BY <1>2 DEF Enlist
  <2>2. user \in User
    BY <1>1, <1>2 DEF Enlist, Values, User
  <2>3. Row(user) \in Seq(Cell) /\ Len(Row(user)) = ProblemsCount
    BY <2>2, CountAssumption DEF Row, Cell, Problem
  <2>4. jobs' \in Seq(Cell) /\ Len(jobs') <= Len(jobs) + ProblemsCount /\ Len(jobs) <= Len(jobs')
    <3>1. jobs \in Seq(Cell) /\ ProblemsCount \in Nat
      BY <1>1, CountAssumption DEF Values
    <3>2. Len(jobs \o Row(user)) = Len(jobs) + ProblemsCount /\ jobs \o Row(user) \in Seq(Cell)
      BY <2>3, <3>1
    <3>. QED  BY <2>1, <3>1, <3>2
  <2>5. Values'
    <3>1. present' \in [User -> BOOLEAN]
      BY <1>1, <2>1, <2>2 DEF Values
    <3>2. user' \in 1 .. UsersCount + 1
      BY <1>2, <2>2, CountAssumption DEF Enlist, User
    <3>. QED  BY <1>1, <1>2, <2>4, <3>1, <3>2 DEF Enlist, Values
  <2>6. Len(jobs') <= user * ProblemsCount
    <3>1. Len(jobs) <= (user - 1) * ProblemsCount
      BY <1>1, <1>2 DEF Indices, Enlist
    <3>2. (user - 1) * ProblemsCount + ProblemsCount = user * ProblemsCount
      <4>1. \A n \in Nat : n * ProblemsCount + ProblemsCount = (n + 1) * ProblemsCount
        BY CountAssumption
      <4>2. user - 1 \in Nat /\ (user - 1) + 1 = user
        BY <2>2 DEF User
      <4>. QED  BY <4>1, <4>2
    <3>3. Len(jobs) \in Nat /\ Len(jobs') \in Nat
      BY <1>1, <2>4 DEF Values
    <3>4. user - 1 \in Nat /\ \A n \in Nat : n * ProblemsCount \in Nat
      BY <2>2, CountAssumption DEF User
    <3>5. (user - 1) * ProblemsCount \in Nat
      BY <3>4
    <3>. QED  BY <2>4, <3>1, <3>2, <3>3, <3>5, CountAssumption
  <2>7. user * ProblemsCount <= UsersCount * ProblemsCount
    BY <2>2, CountAssumption DEF User
  <2>8. Len(jobs') \in Nat /\ user * ProblemsCount \in Nat
    BY <2>2, <2>4, CountAssumption DEF User
  <2>9. user' - 1 = user
    BY <1>2, <2>2 DEF Enlist, User
  <2>10. Indices'
    <3>1. next' = 0 /\ 0 <= Len(jobs')
      BY <1>1, <1>2, <2>8 DEF Enlist, Indices
    <3>2. Len(jobs') <= UsersCount * ProblemsCount /\ Len(jobs') <= (user' - 1) * ProblemsCount
      BY <2>6, <2>7, <2>8, <2>9, CountAssumption
    <3>. QED  BY <1>1, <1>2, <3>1, <3>2 DEF Enlist, Indices
  <2>. QED  BY <2>5, <2>10 DEF Typed
<1>3. CASE RunJobs
  <2>1. Values'
    <3>1. pc' = "fill" /\ user' \in 1 .. UsersCount + 1
      BY <1>3, CountAssumption DEF RunJobs
    <3>. QED  BY <1>1, <1>3, <3>1 DEF RunJobs, Values
  <2>2. Indices'
    BY <1>1, <1>3 DEF RunJobs, Indices
  <2>. QED  BY <2>1, <2>2 DEF Typed
<1>4. CASE StartJob
  <2>1. PICK pid \in Pid :
          /\ proc' = [proc EXCEPT ![pid] = [state |-> "live", job |-> next + 1]]
          /\ slots' = [slots EXCEPT ![FreeSlot] = [pid |-> pid, job |-> next + 1]]
    BY <1>4 DEF StartJob
  <2>2. next \in Nat /\ next + 1 \in JobId /\ next + 1 <= Len(jobs)
    <3>1. next \in Nat /\ Len(jobs) \in Nat /\ next < Len(jobs)
      BY <1>1, <1>4 DEF StartJob, FillMore, Values
    <3>2. Len(jobs) <= UsersCount * ProblemsCount
      BY <1>1 DEF Indices
    <3>. QED  BY <3>1, <3>2, CountAssumption DEF JobId
  <2>3. /\ [state |-> "live", job |-> next + 1] \in Process
        /\ [pid |-> pid, job |-> next + 1] \in SlotValue
    BY <2>2 DEF Process, SlotValue
  <2>4. Values'
    <3>1. proc' \in [Pid -> Process] /\ slots' \in [Slot -> SlotValue]
      BY <1>1, <2>1, <2>3 DEF Values
    <3>2. open' \subseteq JobId /\ next' \in Nat /\ running' \in Int
      BY <1>1, <1>4, <2>2 DEF StartJob, Values
    <3>. QED  BY <1>1, <1>4, <3>1, <3>2 DEF StartJob, Values
  <2>5. \A s \in Slot : slots'[s].job <= next + 1
    BY <1>1, <2>1, <2>2 DEF Indices, Values, SlotValue, JobId, NoJob
  <2>6. ASSUME NEW q \in Pid PROVE proc'[q].job <= next + 1
    <3>1. proc[q].job <= next /\ proc[q].job \in Int
      BY <1>1 DEF Indices, Values, Process, JobId, NoJob
    <3>2. proc'[q] = IF q = pid THEN [state |-> "live", job |-> next + 1] ELSE proc[q]
      BY <1>1, <2>1 DEF Values
    <3>. QED  BY <2>2, <3>1, <3>2
  <2>7. Indices'
    BY <1>1, <1>4, <2>2, <2>5, <2>6 DEF StartJob, Indices
  <2>. QED  BY <2>4, <2>7 DEF Typed
<1>5. CASE StartFails
  BY <1>1, <1>5 DEF StartFails, AfterFilling, Typed, Values, Indices
<1>6. CASE StopFilling
  BY <1>1, <1>6 DEF StopFilling, AfterFilling, Typed, Values, Indices
<1>7. CASE Reap
  <2>1. PICK pid \in Pid :
          /\ proc' = Reaped(pid)
          /\ IF Owner(pid) = {}
             THEN UNCHANGED <<result, slots, open, done, running>>
             ELSE LET s == Min(Owner(pid))
                      j == slots[s].job
                  IN  /\ result' = With(result, j, Collected(pipe[j]))
                      /\ slots' = Released(s)
                      /\ open' = Closed(j)
                      /\ done' = done + 1
                      /\ running' = running - 1
    BY <1>7 DEF Reap
  <2>2. /\ proc' \in [Pid -> Process]
        /\ \A q \in Pid : proc'[q].job <= next
    BY <1>1, <2>1 DEF Values, Indices, Reaped, Free, Process, NoJob
  <2>3. CASE Owner(pid) = {}
    BY <1>1, <1>7, <2>1, <2>2, <2>3 DEF Reap, MoreToDo, Typed, Values, Indices
  <2>4. CASE Owner(pid) # {}
    <3>. DEFINE s == Min(Owner(pid))
                j == slots[s].job
    <3>1. s \in Slot /\ j # NoJob
      BY <2>4, LeastNatural DEF Owner, Occupied, Slot
    <3>2. j \in JobId /\ j \in 1 .. next
      BY <1>1, <3>1 DEF Values, Indices, SlotValue, JobId, NoJob
    <3>3. Collected(pipe[j]) \in Seq(Mark)
      BY <1>1, <3>2, CollectedType DEF Values
    <3>4. /\ result' = With(result, j, Collected(pipe[j]))
          /\ slots' = Released(s)
          /\ open' = Closed(j)
          /\ done' = done + 1
          /\ running' = running - 1
      BY <2>1, <2>4
    <3>. HIDE DEF s, j
    <3>5. DOMAIN result' \subseteq JobId /\ result' \in [DOMAIN result' -> Seq(Mark)]
      BY <1>1, <3>2, <3>3, <3>4 DEF With, Values
    <3>6. /\ slots' \in [Slot -> SlotValue]
          /\ \A t \in Slot : slots'[t].job <= next
      <4>1. slots' = [slots EXCEPT ![s] = [slots[s] EXCEPT !.job = NoJob]]
        BY <3>4 DEF Released
      <4>2. [slots[s] EXCEPT !.job = NoJob] \in SlotValue
        BY <1>1, <3>1 DEF Values, SlotValue
      <4>3. slots' \in [Slot -> SlotValue]
        BY <1>1, <4>1, <4>2 DEF Values
      <4>4. ASSUME NEW t \in Slot PROVE slots'[t].job <= next
        <5>1. CASE t = s
          <6>1. slots'[t].job = NoJob
            BY <1>1, <3>1, <4>1, <5>1 DEF Values, SlotValue
          <6>. QED  BY <1>1, <6>1 DEF Values, NoJob
        <5>2. CASE t # s
          BY <1>1, <4>1, <5>2 DEF Values, Indices
        <5>. QED  BY <5>1, <5>2
      <4>. QED  BY <4>3, <4>4
    <3>7. Values'
      <4>1. open' \subseteq JobId /\ done' \in Nat /\ running' \in Int
        BY <1>1, <3>4 DEF Closed, Values
      <4>2. pc' \in {"fill", "report"}
        BY <1>7 DEF Reap
      <4>. QED  BY <1>1, <1>7, <2>2, <3>5, <3>6, <4>1, <4>2 DEF Reap, Values
    <3>8. Indices'
      BY <1>1, <1>7, <2>2, <3>2, <3>4, <3>6 DEF Reap, MoreToDo, With, Indices
    <3>. QED  BY <3>7, <3>8 DEF Typed
  <2>. QED  BY <2>3, <2>4
<1>8. CASE WaitFails
  BY <1>1, <1>8 DEF WaitFails, Typed, Values, Indices
<1>9. CASE WriteCell
  <2>1. CellOf(at + 1) \in CellValue
    BY CellType
  <2>2. AbsentCell \in CellValue
    BY DEF AbsentCell, CellValue, NotBuilt, Mark
  <2>3. Values'
    <3>1. <<user, problem>> \in Cell
      BY <1>1, <1>9 DEF WriteCell, Values, Cell, User, Problem
    <3>2. PICK c \in CellValue : board' = With(board, <<user, problem>>, c)
      BY <1>9, <2>1, <2>2 DEF WriteCell
    <3>3. DOMAIN board' \subseteq Cell /\ board' \in [DOMAIN board' -> CellValue]
      BY <1>1, <3>1, <3>2 DEF With, Values
    <3>4. total' \in Nat /\ at' \in Nat
      <4>1. total \in Nat /\ at \in Nat
        BY <1>1 DEF Values
      <4>2. CellOf(at + 1).score \in Nat
        BY <2>1 DEF CellValue
      <4>3. \/ total' = total + CellOf(at + 1).score /\ at' = at + 1
            \/ total' = total /\ at' = at
        BY <1>9 DEF WriteCell, NextJob
      <4>. QED  BY <4>1, <4>2, <4>3
    <3>5. problem' \in 1 .. ProblemsCount + 1
      <4>1. problem \in 1 .. ProblemsCount + 1 /\ problem <= ProblemsCount /\ problem' = problem + 1
        BY <1>1, <1>9 DEF WriteCell, Values
      <4>. QED  BY <4>1, CountAssumption
    <3>. QED  BY <1>1, <1>9, <3>3, <3>4, <3>5 DEF WriteCell, Values
  <2>4. Indices'
    BY <1>1, <1>9 DEF WriteCell, Indices
  <2>. QED  BY <2>3, <2>4 DEF Typed
<1>10. CASE EndRow
  <2>1. user \in User /\ user' \in 1 .. UsersCount + 1
    BY <1>1, <1>10, CountAssumption DEF EndRow, Values, User
  <2>2. DOMAIN totals' \subseteq User /\ totals' \in [DOMAIN totals' -> Nat]
    BY <1>1, <1>10, <2>1 DEF EndRow, With, Values
  <2>3. Values'
    <3>1. problem' \in 1 .. ProblemsCount + 1 /\ total' \in Nat
      BY <1>10, CountAssumption DEF EndRow, FreshTotal
    <3>. QED  BY <1>1, <1>10, <2>1, <2>2, <3>1 DEF EndRow, Values
  <2>4. Indices'
    BY <1>1, <1>10 DEF EndRow, Indices
  <2>. QED  BY <2>3, <2>4 DEF Typed
<1>11. CASE Finish
  BY <1>1, <1>11 DEF Finish, Typed, Values, Indices
<1>12. ASSUME NEW pid \in Pid, RunnerWrites(pid) PROVE Typed'
  <2>. DEFINE j == proc[pid].job
  <2>1. j \in JobId /\ j <= Len(jobs)
    BY <1>1, <1>12 DEF RunnerWrites, Values, Indices, Process, JobId
  <2>2. pipe[j] \in Seq(Mark \cup {Newline}) /\ Written(j) \in Seq(Mark \cup {Newline})
    BY <1>1, <2>1, WrittenType DEF Values
  <2>3. Written(j)[Len(pipe[j]) + 1] \in Mark \cup {Newline}
    BY <1>12, <2>2 DEF RunnerWrites
  <2>4. pipe' = [pipe EXCEPT ![j] = Append(pipe[j], Written(j)[Len(pipe[j]) + 1])]
    BY <1>12 DEF RunnerWrites
  <2>5. pipe' \in [JobId -> Seq(Mark \cup {Newline})]
    BY <1>1, <2>1, <2>2, <2>3, <2>4 DEF Values
  <2>. QED  BY <1>1, <1>12, <2>5 DEF RunnerWrites, Typed, Values, Indices
<1>13. ASSUME NEW pid \in Pid, Ends(pid), UNCHANGED <<pc, failed, result, cursors, tables, queue, pipe, open, output>>
       PROVE  Typed'
  BY <1>1, <1>13 DEF Ends, Typed, Values, Indices, Process
<1>14. CASE UNCHANGED vars
  BY <1>1, <1>14 DEF vars, Typed, Values, Indices
<1>. QED
  BY <1>2, <1>3, <1>4, <1>5, <1>6, <1>7, <1>8, <1>9, <1>10, <1>11, <1>12, <1>13, <1>14
     DEF Next, JudgeStep, RunnerStep, RunnerExits, RunnerDies, InheritedEnds, Halted

(***************************************************************************)
(* The slots.  SlotsHoldChildren and the counters (JobsAccountedFor but    *)
(* for the pipes, which are in the next layer) need each other: a slot is  *)
(* free for the next job because running counts the busy ones, and a job   *)
(* just collected was in one slot only because no two slots share a job.   *)
(***************************************************************************)
CountersAgree ==
  /\ running = Cardinality(Occupied)
  /\ done = Cardinality(DOMAIN result)
  /\ next = done + running
  /\ InSlots \cup DOMAIN result = 1 .. next
  /\ InSlots \cap DOMAIN result = {}

SlotsAgree == SlotsHoldChildren /\ CountersAgree

LEMMA OccupiedFinite ==
  ASSUME Typed
  PROVE  /\ IsFiniteSet(Occupied) /\ Cardinality(Occupied) \in Nat
         /\ Cardinality(Occupied) <= Workers
         /\ Cardinality(Occupied) = Workers <=> Occupied = Slot
<1>1. Workers \in Nat
  BY JudgeAssumption
<1>2. IsFiniteSet(Slot) /\ Cardinality(Slot) = Workers
  BY <1>1, FS_Interval DEF Slot
<1>3. Occupied \in SUBSET Slot
  BY DEF Occupied
<1>4. /\ IsFiniteSet(Occupied) /\ Cardinality(Occupied) <= Workers
      /\ Cardinality(Slot) = Cardinality(Occupied) => Slot = Occupied
  BY <1>2, <1>3, FS_Subset
<1>. QED  BY <1>2, <1>4, FS_CardinalityType

(* While fewer runners are out than there are workers, a slot is free.     *)
LEMMA FreeSlotIsFree ==
  ASSUME Typed, CountersAgree, running < Workers
  PROVE  FreeSlot \in Slot \ Occupied
<1>1. Slot \ Occupied # {}
  <2>1. Occupied # Slot
    BY OccupiedFinite DEF CountersAgree
  <2>. QED  BY <2>1 DEF Occupied
<1>2. Slot \ Occupied \in SUBSET Nat
  BY DEF Slot
<1>. QED  BY <1>1, <1>2, LeastNatural DEF FreeSlot

LEMMA SlotsInit == Init => SlotsAgree
<1>. SUFFICES ASSUME Init PROVE SlotsAgree
  OBVIOUS
<1>1. Occupied = {}
  BY DEF Init, Occupied
<1>2. \A pid \in Pid : proc[pid].job = NoJob
  BY DEF Init, Free
<1>3. InSlots = {} /\ DOMAIN result = {} /\ 1 .. next = {}
  BY <1>1 DEF Init, InSlots
<1>4. SlotsHoldChildren
  BY <1>1, <1>2 DEF SlotsHoldChildren
<1>5. CountersAgree
  BY <1>1, <1>3, FS_EmptySet DEF CountersAgree, Init
<1>. QED  BY <1>4, <1>5 DEF SlotsAgree

(* The steps that leave slots, jobs of processes and counters alone.       *)
LEMMA SlotsUntouched ==
  ASSUME SlotsAgree, UNCHANGED <<slots, result, next, done, running>>,
         \A pid \in Pid : proc'[pid].job = proc[pid].job
  PROVE  SlotsAgree'
<1>1. Occupied' = Occupied /\ InSlots' = InSlots
  BY DEF Occupied, InSlots
<1>2. \A pid : Owner(pid)' = Owner(pid)
  BY <1>1 DEF Owner
<1>3. SlotsHoldChildren'
  BY <1>1, <1>2 DEF SlotsAgree, SlotsHoldChildren
<1>4. CountersAgree'
  BY <1>1 DEF SlotsAgree, CountersAgree
<1>. QED  BY <1>3, <1>4 DEF SlotsAgree

(* A job goes into a free slot with a pid that no slot holds.              *)
LEMMA SlotsStartJob ==
  ASSUME Typed, SlotsAgree, StartJob
  PROVE  SlotsAgree'
<1>. DEFINE f == FreeSlot
            n == next + 1
<1>1. PICK pid \in Pid :
        /\ proc[pid] = Free
        /\ proc' = [proc EXCEPT ![pid] = [state |-> "live", job |-> n]]
        /\ slots' = [slots EXCEPT ![f] = [pid |-> pid, job |-> n]]
  BY DEF StartJob
<1>2. f \in Slot \ Occupied
  BY FreeSlotIsFree DEF StartJob, FillMore, SlotsAgree
<1>3. next \in Nat /\ done \in Nat /\ running \in Int
  BY DEF Typed, Values
<1>4. n \in Nat /\ n # NoJob
  BY <1>3 DEF NoJob
<1>5. UNCHANGED <<result, done>> /\ next' = n /\ running' = running + 1
  BY DEF StartJob
<1>. HIDE DEF f, n
<1>6. \A s \in Slot : slots'[s] = IF s = f THEN [pid |-> pid, job |-> n] ELSE slots[s]
  BY <1>1, <1>2 DEF Typed, Values
<1>7. \A q \in Pid : proc'[q] = IF q = pid THEN [state |-> "live", job |-> n] ELSE proc[q]
  BY <1>1 DEF Typed, Values
<1>8. Occupied' = Occupied \cup {f}
  BY <1>2, <1>4, <1>6 DEF Occupied
<1>9. \A s \in Occupied : s # f /\ slots'[s] = slots[s] /\ slots[s].pid # pid
  <2>1. \A s \in Occupied : s \in Slot /\ s # f /\ slots[s].job # NoJob
    BY <1>2 DEF Occupied
  <2>2. \A s \in Occupied : proc[slots[s].pid].job = slots[s].job
    BY DEF SlotsAgree, SlotsHoldChildren
  <2>3. proc[pid].job = NoJob
    BY <1>1 DEF Free
  <2>. QED  BY <1>6, <2>1, <2>2, <2>3
<1>10. slots'[f].pid = pid /\ slots'[f].job = n
  BY <1>2, <1>6
<1>11. n \notin InSlots /\ n \notin DOMAIN result
  BY <1>3 DEF SlotsAgree, CountersAgree, n
<1>12. InSlots' = InSlots \cup {n}
  <2>1. InSlots' = {slots'[s].job : s \in Occupied'}
    BY DEF InSlots
  <2>. QED  BY <1>8, <1>9, <1>10, <2>1 DEF InSlots
<1>13. SlotsHoldChildren'
  <2>1. ASSUME NEW s \in Occupied' PROVE slots'[s].pid \in Pid /\ proc'[slots'[s].pid].job = slots'[s].job
    <3>1. CASE s = f
      BY <1>7, <1>10, <3>1
    <3>2. CASE s \in Occupied
      <4>1. slots[s].pid \in Pid /\ proc[slots[s].pid].job = slots[s].job
        BY <3>2 DEF SlotsAgree, SlotsHoldChildren
      <4>. QED  BY <1>7, <1>9, <3>2, <4>1
    <3>. QED  BY <1>8, <3>1, <3>2
  <2>2. ASSUME NEW s \in Occupied', NEW t \in Occupied', slots'[s].job = slots'[t].job
        PROVE  s = t
    <3>1. \A r \in Occupied : slots'[r].job \in InSlots
      BY <1>9 DEF InSlots
    <3>2. (s \in Occupied /\ t \in Occupied) \/ (s = f /\ t = f)
      <4>1. CASE s = f /\ t \in Occupied
        BY <1>10, <1>11, <2>2, <3>1, <4>1
      <4>2. CASE s \in Occupied /\ t = f
        BY <1>10, <1>11, <2>2, <3>1, <4>2
      <4>3. s \in Occupied \cup {f} /\ t \in Occupied \cup {f}
        BY <1>8
      <4>. QED  BY <4>1, <4>2, <4>3
    <3>. QED  BY <1>9, <2>2, <3>2 DEF SlotsAgree, SlotsHoldChildren
  <2>3. ASSUME NEW q \in Pid, proc'[q].job # NoJob PROVE Owner(q)' # {}
    <3>1. CASE q = pid
      BY <1>8, <1>10, <3>1 DEF Owner
    <3>2. CASE q # pid
      <4>1. PICK s \in Occupied : slots[s].pid = q
        BY <1>7, <2>3, <3>2 DEF Owner, SlotsAgree, SlotsHoldChildren
      <4>. QED  BY <1>8, <1>9, <4>1 DEF Owner
    <3>. QED  BY <3>1, <3>2
  <2>. QED  BY <2>1, <2>2, <2>3 DEF SlotsHoldChildren
<1>14. CountersAgree'
  <2>1. Cardinality(Occupied') = Cardinality(Occupied) + 1
    BY <1>2, <1>8, OccupiedFinite, FS_AddElement
  <2>2. 1 .. n = (1 .. next) \cup {n}
    BY <1>3 DEF n
  <2>3. /\ running' = Cardinality(Occupied') /\ done' = Cardinality(DOMAIN result')
        /\ next' = done' + running'
    BY <1>3, <1>5, <2>1 DEF SlotsAgree, CountersAgree, n
  <2>4. InSlots' \cup DOMAIN result' = 1 .. next' /\ InSlots' \cap DOMAIN result' = {}
    BY <1>5, <1>11, <1>12, <2>2 DEF SlotsAgree, CountersAgree
  <2>. QED  BY <2>3, <2>4 DEF CountersAgree
<1>. QED  BY <1>13, <1>14 DEF SlotsAgree

(* What collecting the runner pid from slot s does, as far as slots and    *)
(* jobs are concerned.                                                     *)
Collecting(pid, s) ==
  /\ s \in Occupied /\ slots[s].pid = pid
  /\ proc[pid].state = "zombie" /\ proc[pid].job = slots[s].job
  /\ LET j == slots[s].job
     IN  /\ result' = With(result, j, Collected(pipe[j]))
         /\ open' = Closed(j)
         /\ \A t \in Occupied \ {s} :
              slots'[t] = slots[t] /\ slots[t].pid # pid /\ slots[t].job # j
         /\ InSlots = InSlots' \cup {j} /\ j \notin InSlots'
  /\ Occupied' = Occupied \ {s}
  /\ done' = done + 1 /\ running' = running - 1

(* waitpid reports a child: if a slot holds its pid, that slot is collected *)
(* and given up; if none does, it was no runner, and nothing moves.        *)
LEMMA ReapCases ==
  ASSUME Typed, SlotsAgree, Reap
  PROVE  \E pid \in Pid :
           /\ proc' = Reaped(pid)
           /\ \/ UNCHANGED <<result, slots, open, done, running>> /\ proc[pid].job = NoJob
              \/ \E s \in Slot : Collecting(pid, s)
<1>1. PICK pid \in Pid :
        /\ proc[pid].state = "zombie"
        /\ proc' = Reaped(pid)
        /\ IF Owner(pid) = {}
           THEN UNCHANGED <<result, slots, open, done, running>>
           ELSE LET s == Min(Owner(pid))
                    j == slots[s].job
                IN  /\ result' = With(result, j, Collected(pipe[j]))
                    /\ slots' = Released(s)
                    /\ open' = Closed(j)
                    /\ done' = done + 1
                    /\ running' = running - 1
  BY DEF Reap
<1>2. CASE Owner(pid) = {}
  <2>1. proc[pid].job = NoJob
    BY <1>2 DEF SlotsAgree, SlotsHoldChildren
  <2>. QED  BY <1>1, <1>2, <2>1
<1>3. CASE Owner(pid) # {}
  <2>. DEFINE s == Min(Owner(pid))
              j == slots[s].job
  <2>1. s \in Occupied /\ slots[s].pid = pid
    <3>1. Owner(pid) \in SUBSET Nat
      BY DEF Owner, Occupied, Slot
    <3>2. s \in Owner(pid)
      BY <1>3, <3>1, LeastNatural
    <3>. QED  BY <3>2 DEF Owner
  <2>2. /\ result' = With(result, j, Collected(pipe[j]))
        /\ slots' = Released(s) /\ open' = Closed(j)
        /\ done' = done + 1 /\ running' = running - 1
    BY <1>1, <1>3
  <2>. HIDE DEF s
  <2>3. s \in Slot /\ j # NoJob
    BY <2>1 DEF Occupied
  <2>4. proc[pid].job = j
    BY <2>1 DEF SlotsAgree, SlotsHoldChildren
  <2>5. /\ \A t \in Slot \ {s} : slots'[t] = slots[t]
        /\ slots'[s].job = NoJob
    BY <2>2, <2>3 DEF Released, Typed, Values, SlotValue
  <2>6. Occupied' = Occupied \ {s}
    BY <2>3, <2>5 DEF Occupied
  <2>7. \A t \in Occupied \ {s} : slots'[t] = slots[t] /\ slots[t].pid # pid /\ slots[t].job # j
    <3>1. \A t \in Occupied : t \in Slot /\ proc[slots[t].pid].job = slots[t].job
      BY DEF SlotsAgree, SlotsHoldChildren, Occupied
    <3>2. \A t \in Occupied \ {s} : slots[t].job # j
      BY <2>1 DEF SlotsAgree, SlotsHoldChildren
    <3>. QED  BY <2>1, <2>5, <3>1, <3>2
  <2>8. InSlots = InSlots' \cup {j} /\ j \notin InSlots'
    <3>1. InSlots' = {slots'[t].job : t \in Occupied'}
      BY DEF InSlots
    <3>2. InSlots' = {slots[t].job : t \in Occupied \ {s}}
      BY <2>6, <2>7, <3>1
    <3>. QED  BY <2>1, <2>7, <3>2 DEF InSlots
  <2>9. Collecting(pid, s)
    BY <1>1, <2>1, <2>2, <2>4, <2>6, <2>7, <2>8 DEF Collecting
  <2>. QED  BY <1>1, <2>3, <2>9
<1>. QED  BY <1>2, <1>3

LEMMA SlotsReap ==
  ASSUME Typed, SlotsAgree, Reap
  PROVE  SlotsAgree'
<1>1. PICK pid \in Pid :
        /\ proc' = Reaped(pid)
        /\ \/ UNCHANGED <<result, slots, open, done, running>> /\ proc[pid].job = NoJob
           \/ \E s \in Slot : Collecting(pid, s)
  BY ReapCases
<1>2. next' = next
  BY DEF Reap, queue
<1>3. \A q \in Pid : proc'[q] = IF q = pid THEN Free ELSE proc[q]
  BY <1>1 DEF Reaped, Typed, Values
<1>4. CASE UNCHANGED <<result, slots, open, done, running>> /\ proc[pid].job = NoJob
  <2>1. \A q \in Pid : proc'[q].job = proc[q].job
    BY <1>3, <1>4 DEF Free
  <2>. QED  BY <1>2, <1>4, <2>1, SlotsUntouched
<1>5. ASSUME NEW s \in Slot, Collecting(pid, s) PROVE SlotsAgree'
  <2>. DEFINE j == slots[s].job
  <2>1. /\ s \in Occupied /\ slots[s].pid = pid
        /\ Occupied' = Occupied \ {s}
        /\ \A t \in Occupied' : slots'[t] = slots[t] /\ slots[t].pid # pid
        /\ InSlots = InSlots' \cup {j} /\ j \notin InSlots'
        /\ done' = done + 1 /\ running' = running - 1
    BY <1>5 DEF Collecting
  <2>2. DOMAIN result' = DOMAIN result \cup {j}
    BY <1>5 DEF Collecting, With
  <2>. HIDE DEF j
  <2>3. SlotsHoldChildren'
    <3>1. ASSUME NEW t \in Occupied' PROVE slots'[t].pid \in Pid /\ proc'[slots'[t].pid].job = slots'[t].job
      BY <1>3, <2>1 DEF SlotsAgree, SlotsHoldChildren
    <3>2. \A t, u \in Occupied' : slots'[t].job = slots'[u].job => t = u
      BY <2>1 DEF SlotsAgree, SlotsHoldChildren
    <3>3. ASSUME NEW q \in Pid, proc'[q].job # NoJob PROVE Owner(q)' # {}
      <4>1. q # pid /\ proc[q].job # NoJob
        BY <1>3, <3>3 DEF Free
      <4>2. PICK t \in Occupied : slots[t].pid = q
        BY <4>1 DEF Owner, SlotsAgree, SlotsHoldChildren
      <4>. QED  BY <2>1, <4>1, <4>2 DEF Owner
    <3>. QED  BY <3>1, <3>2, <3>3 DEF SlotsHoldChildren
  <2>4. CountersAgree'
    <3>1. /\ running = Cardinality(Occupied) /\ done = Cardinality(DOMAIN result)
          /\ next = done + running
          /\ InSlots \cup DOMAIN result = 1 .. next
          /\ InSlots \cap DOMAIN result = {}
      BY DEF SlotsAgree, CountersAgree
    <3>2. Cardinality(Occupied') = Cardinality(Occupied) - 1
      BY <2>1, OccupiedFinite, FS_RemoveElement
    <3>3. IsFiniteSet(DOMAIN result)
      <4>1. next \in Int
        BY DEF Typed, Values
      <4>2. IsFiniteSet(1 .. next)
        BY <4>1, FS_Interval
      <4>. QED  BY <3>1, <4>2, FS_Subset
    <3>4. j \notin DOMAIN result
      BY <2>1, <3>1
    <3>5. Cardinality(DOMAIN result') = Cardinality(DOMAIN result) + 1
      BY <2>2, <3>3, <3>4, FS_AddElement
    <3>6. running \in Int /\ done \in Nat
      BY DEF Typed, Values
    <3>7. InSlots' \cup DOMAIN result' = 1 .. next' /\ InSlots' \cap DOMAIN result' = {}
      BY <1>2, <2>1, <2>2, <3>1, <3>4
    <3>. QED  BY <1>2, <2>1, <3>1, <3>2, <3>5, <3>6, <3>7 DEF CountersAgree
  <2>. QED  BY <2>3, <2>4 DEF SlotsAgree
<1>. QED  BY <1>1, <1>4, <1>5

LEMMA SlotsStep ==
  ASSUME Typed, SlotsAgree, [Next]_vars
  PROVE  SlotsAgree'
<1>. USE DEF cursors, tables, queue, system, output
<1>1. ASSUME UNCHANGED <<queue, result, proc>> PROVE SlotsAgree'
  BY <1>1, SlotsUntouched
<1>2. CASE StartJob
  BY <1>2, SlotsStartJob
<1>3. CASE Reap
  BY <1>3, SlotsReap
<1>4. ASSUME NEW pid \in Pid, Ends(pid), UNCHANGED <<queue, result>> PROVE SlotsAgree'
  <2>1. \A q \in Pid : proc'[q].job = proc[q].job
    BY <1>4 DEF Ends, Typed, Values, Process
  <2>. QED  BY <1>4, <2>1, SlotsUntouched
<1>5. CASE Enlist \/ RunJobs \/ StartFails \/ StopFilling \/ WaitFails
  BY <1>1, <1>5 DEF Enlist, RunJobs, StartFails, StopFilling, WaitFails
<1>6. CASE WriteCell \/ EndRow \/ Finish
  BY <1>1, <1>6 DEF WriteCell, EndRow, Finish
<1>7. ASSUME NEW pid \in Pid, RunnerWrites(pid) PROVE SlotsAgree'
  BY <1>1, <1>7 DEF RunnerWrites
<1>8. CASE UNCHANGED vars
  BY <1>1, <1>8 DEF vars
<1>. QED
  BY <1>2, <1>3, <1>4, <1>5, <1>6, <1>7, <1>8
     DEF Next, JudgeStep, RunnerStep, RunnerExits, RunnerDies, InheritedEnds, Halted

(***************************************************************************)
(* The pool.  What AfterFilling and MoreToDo decide: when the judge waits, *)
(* and when it is through.                                                 *)
(***************************************************************************)
Pool ==
  /\ pc = "wait" => running # 0
  /\ pc = "wait" /\ ~failed => running = Workers \/ next = Len(jobs)
  /\ pc \in {"report", "done"} /\ ~failed => done = Len(jobs)
  /\ open = InSlots

LEMMA PoolInit == Init => Pool
BY DEF Init, Pool, InSlots, Occupied

(* The counters as numbers, with what the slots say of them.               *)
LEMMA Counters ==
  ASSUME Typed, SlotsAgree
  PROVE  /\ next \in Nat /\ done \in Nat /\ running \in Nat /\ Len(jobs) \in Nat
         /\ next = done + running /\ next <= Len(jobs) /\ running <= Workers
         /\ Workers \in Nat \ {0}
         /\ running = 0 <=> Occupied = {}
<1>1. next \in Nat /\ done \in Nat /\ Len(jobs) \in Nat /\ next <= Len(jobs)
  BY DEF Typed, Values, Indices
<1>2. running = Cardinality(Occupied) /\ next = done + running
  BY DEF SlotsAgree, CountersAgree
<1>. QED  BY <1>1, <1>2, OccupiedFinite, FS_EmptySet, JudgeAssumption

(* Slots do not change but in StartJob and Reap, so InSlots does not.      *)
LEMMA PoolUntouched ==
  ASSUME Pool, UNCHANGED <<pc, failed, slots, next, done, running, open, jobs>>
  PROVE  Pool'
<1>1. InSlots' = InSlots
  BY DEF InSlots, Occupied
<1>. QED  BY <1>1 DEF Pool

LEMMA PoolStep ==
  ASSUME Typed, SlotsAgree, Pool, [Next]_vars
  PROVE  Pool'
<1>. USE DEF cursors, tables, queue, system, output
<1>1. failed \in BOOLEAN /\ open = InSlots
  BY DEF Typed, Values, Pool
<1>2. ASSUME UNCHANGED <<pc, failed, queue, open, jobs>> PROVE Pool'
  BY <1>2, PoolUntouched
<1>3. ASSUME UNCHANGED slots PROVE InSlots' = InSlots
  BY <1>3 DEF InSlots, Occupied
<1>4. CASE Enlist \/ RunJobs
  <2>1. InSlots' = InSlots /\ open' = open
    BY <1>3, <1>4 DEF Enlist, RunJobs
  <2>2. pc' \in {"enlist", "fill"}
    BY <1>4 DEF Enlist, RunJobs
  <2>. QED  BY <1>1, <2>1, <2>2 DEF Pool
<1>5. CASE StartJob
  <2>1. pc' = "fill" /\ open' = open \cup {next + 1}
    BY <1>5 DEF StartJob
  <2>2. InSlots' = InSlots \cup {next + 1}
    <3>1. FreeSlot \in Slot \ Occupied
      BY <1>5, FreeSlotIsFree DEF StartJob, FillMore, SlotsAgree
    <3>2. PICK pid \in Pid : slots' = [slots EXCEPT ![FreeSlot] = [pid |-> pid, job |-> next + 1]]
      BY <1>5 DEF StartJob
    <3>3. \A s \in Slot : slots'[s].job = IF s = FreeSlot THEN next + 1 ELSE slots[s].job
      BY <3>1, <3>2 DEF Typed, Values
    <3>4. next + 1 # NoJob
      BY Counters DEF NoJob
    <3>5. Occupied' = Occupied \cup {FreeSlot}
      BY <3>1, <3>3, <3>4 DEF Occupied
    <3>6. InSlots' = {slots'[s].job : s \in Occupied'}
      BY DEF InSlots
    <3>7. \A s \in Occupied : slots'[s].job = slots[s].job
      BY <3>1, <3>3 DEF Occupied
    <3>. QED  BY <3>1, <3>3, <3>5, <3>6, <3>7 DEF InSlots
  <2>. QED  BY <1>1, <2>1, <2>2 DEF Pool
<1>6. CASE StartFails
  <2>1. /\ failed' = TRUE /\ open' = open /\ running' = running
        /\ pc' = IF running = 0 THEN "report" ELSE "wait"
    BY <1>6 DEF StartFails, AfterFilling
  <2>2. InSlots' = InSlots
    BY <1>3, <1>6 DEF StartFails
  <2>. QED  BY <1>1, <2>1, <2>2 DEF Pool
<1>7. CASE StopFilling
  <2>1. /\ failed' = failed /\ open' = open /\ running' = running /\ next' = next
        /\ done' = done /\ jobs' = jobs
        /\ pc' = IF running = 0 THEN "report" ELSE "wait"
    BY <1>7 DEF StopFilling, AfterFilling
  <2>2. InSlots' = InSlots
    BY <1>3, <1>7 DEF StopFilling
  <2>3. ~(next < Len(jobs) /\ running < Workers)
    BY <1>7 DEF StopFilling, FillMore
  <2>4. running = Workers \/ next = Len(jobs)
    BY <2>3, Counters
  <2>5. running = 0 => done = Len(jobs)
    BY <2>4, Counters
  <2>. QED  BY <1>1, <2>1, <2>2, <2>4, <2>5 DEF Pool
<1>8. CASE Reap
  <2>1. jobs' = jobs /\ failed' = failed
    BY <1>8 DEF Reap
  <2>2. pc' = IF done' < Len(jobs) /\ ~failed THEN "fill" ELSE "report"
    BY <1>8 DEF Reap, MoreToDo
  <2>3. PICK pid \in Pid :
          \/ UNCHANGED <<result, slots, open, done, running>>
          \/ \E s \in Slot : Collecting(pid, s)
    BY <1>8, ReapCases
  <2>4. CASE UNCHANGED <<result, slots, open, done, running>>
    <3>1. InSlots' = InSlots
      BY <1>3, <2>4
    <3>. QED  BY <1>1, <2>1, <2>2, <2>4, <3>1, Counters DEF Pool
  <2>5. ASSUME NEW s \in Slot, Collecting(pid, s) PROVE Pool'
    <3>1. open' = InSlots'
      BY <1>1, <2>5 DEF Collecting, Closed
    <3>2. done' = done + 1 /\ Occupied # {}
      BY <2>5 DEF Collecting
    <3>3. done' <= Len(jobs) /\ done' \in Nat
      BY <3>2, Counters
    <3>. QED  BY <1>1, <2>1, <2>2, <3>1, <3>3, Counters DEF Pool
  <2>. QED  BY <2>3, <2>4, <2>5
<1>9. CASE WaitFails
  <2>1. failed' = TRUE /\ pc' = "report" /\ open' = open
    BY <1>9 DEF WaitFails
  <2>2. InSlots' = InSlots
    BY <1>3, <1>9 DEF WaitFails
  <2>. QED  BY <1>1, <2>1, <2>2 DEF Pool
<1>10. CASE Finish
  <2>1. pc = "report" /\ pc' = "done" /\ UNCHANGED <<failed, open, done, jobs>>
    BY <1>10 DEF Finish
  <2>2. InSlots' = InSlots
    BY <1>3, <1>10 DEF Finish
  <2>. QED  BY <1>1, <2>1, <2>2 DEF Pool
<1>11. CASE WriteCell \/ EndRow
  BY <1>2, <1>11 DEF WriteCell, EndRow
<1>12. ASSUME NEW pid \in Pid, RunnerStep(pid) \/ RunnerDies(pid) \/ InheritedEnds(pid)
       PROVE  Pool'
  BY <1>2, <1>12 DEF RunnerStep, RunnerWrites, RunnerExits, RunnerDies, InheritedEnds
<1>13. CASE UNCHANGED vars
  BY <1>2, <1>13 DEF vars
<1>. QED
  BY <1>4, <1>5, <1>6, <1>7, <1>8, <1>9, <1>10, <1>11, <1>12, <1>13 DEF Next, JudgeStep, Halted

(***************************************************************************)
(* The pipes.  Each holds the beginning of what the runner of that job     *)
(* means to write, and all of it once the runner has ended by itself; so   *)
(* what is collected is a beginning of the submission's marks, or all.     *)
(***************************************************************************)
Begins(bytes, whole) ==
  Len(bytes) <= Len(whole) /\ \A i \in 1 .. Len(bytes) : bytes[i] = whole[i]

Complete(pid) ==
  proc[pid].state = "zombie" /\ proc[pid].job # NoJob =>
    pipe[proc[pid].job] = Written(proc[pid].job)

Pipes ==
  /\ \A j \in JobId : j > next => pipe[j] = <<>>
  /\ \A j \in 1 .. next : Begins(pipe[j], Written(j))
  /\ "runner" \in Faults \/ pc = "done" \/ \A pid \in Pid : Complete(pid)
  /\ OwnMarks

(* Reading up to the newline gives back the marks that were written before *)
(* it, as many of them as were.                                            *)
LEMMA CollectedBegins ==
  ASSUME NEW marks \in Seq(Mark), NEW bytes \in Seq(Mark \cup {Newline}),
         Begins(bytes, Append(marks, Newline))
  PROVE  /\ IsPrefix(Collected(bytes), marks)
         /\ bytes = Append(marks, Newline) => Collected(bytes) = marks
<1>. DEFINE ends == {i \in DOMAIN bytes : bytes[i] = Newline}
            n == Len(marks)
<1>1. n \in Nat /\ Len(bytes) \in Nat /\ Len(bytes) <= n + 1
  BY DEF Begins
<1>2. \A i \in 1 .. Len(bytes) : bytes[i] = IF i <= n THEN marks[i] ELSE Newline
  BY <1>1 DEF Begins
<1>3. \A i \in 1 .. n : marks[i] # Newline
  BY DEF Mark, TestMark, NotBuilt, Newline
<1>4. CASE Len(bytes) <= n
  <2>1. ends = {}
    BY <1>1, <1>2, <1>3, <1>4
  <2>2. Collected(bytes) = bytes
    BY <2>1 DEF Collected
  <2>3. SubSeq(bytes, 1, Len(bytes)) = SubSeq(marks, 1, Len(bytes))
    BY <1>1, <1>2, <1>4
  <2>4. bytes # Append(marks, Newline)
    BY <1>1, <1>4
  <2>. QED  BY <1>4, <2>2, <2>3, <2>4 DEF IsPrefix
<1>5. CASE Len(bytes) = n + 1
  <2>1. ends = {n + 1}
    BY <1>1, <1>2, <1>3, <1>5
  <2>2. Min(ends) = n + 1
    <3>1. ends \in SUBSET Nat /\ ends # {}
      BY <1>1, <2>1
    <3>2. Min(ends) \in ends
      BY <3>1, LeastNatural
    <3>. QED  BY <2>1, <3>2
  <2>3. Collected(bytes) = SubSeq(bytes, 1, n)
    <3>1. Collected(bytes) = SubSeq(bytes, 1, Min(ends) - 1)
      BY <2>1 DEF Collected
    <3>. HIDE DEF ends
    <3>. QED  BY <1>1, <2>2, <3>1
  <2>4. SubSeq(bytes, 1, n) = marks
    BY <1>1, <1>2, <1>5
  <2>5. IsPrefix(marks, marks)
    BY DEF IsPrefix
  <2>. QED  BY <2>3, <2>4, <2>5
<1>. QED  BY <1>1, <1>4, <1>5

LEMMA PipesInit == Init => Pipes
<1>. SUFFICES ASSUME Init PROVE Pipes
  OBVIOUS
<1>1. next = 0 /\ DOMAIN result = {} /\ \A j \in JobId : pipe[j] = <<>>
  BY DEF Init
<1>2. \A pid \in Pid : proc[pid].state # "zombie"
  BY DEF Init, Free
<1>. QED  BY <1>1, <1>2 DEF Pipes, Complete, OwnMarks

(* Steps that touch neither pipes nor results nor the jobs started, and    *)
(* end no runner's process before the judge has returned.                  *)
LEMMA PipesUntouched ==
  ASSUME Typed, Pipes, UNCHANGED <<pipe, result, next>>,
         next = 0 \/ jobs' = jobs,
         \/ pc' = "done"
         \/ /\ pc # "done"
            /\ \A pid \in Pid : proc'[pid].state = "zombie" => proc'[pid] = proc[pid]
  PROVE  Pipes'
<1>1. ASSUME NEW j \in 1 .. next
      PROVE  Written(j)' = Written(j) /\ VerdictOf(j)' = VerdictOf(j)
  <2>1. jobs' = jobs
    BY <1>1 DEF Typed, Values
  <2>. QED  BY <2>1 DEF Written, VerdictOf
<1>2. DOMAIN result \subseteq 1 .. next
  BY DEF Typed, Indices
<1>3. OwnMarks'
  BY <1>1, <1>2 DEF Pipes, OwnMarks
<1>4. (\A j \in JobId : j > next => pipe[j] = <<>>)'
  BY DEF Pipes
<1>5. (\A j \in 1 .. next : Begins(pipe[j], Written(j)))'
  BY <1>1 DEF Pipes
<1>6. CASE pc' = "done"
  BY <1>3, <1>4, <1>5, <1>6 DEF Pipes
<1>7. CASE pc' # "done" /\ "runner" \notin Faults
  <2>1. ASSUME NEW pid \in Pid PROVE Complete(pid)'
    <3>. SUFFICES ASSUME proc'[pid].state = "zombie", proc'[pid].job # NoJob
                  PROVE  (pipe[proc[pid].job] = Written(proc[pid].job))'
      BY DEF Complete
    <3>1. pc # "done" /\ proc'[pid] = proc[pid]
      BY <1>7
    <3>2. proc[pid].job \in 1 .. next
      BY <3>1 DEF Typed, Values, Indices, Process, JobId, NoJob
    <3>3. pipe[proc[pid].job] = Written(proc[pid].job)
      BY <1>7, <3>1 DEF Pipes, Complete
    <3>4. jobs' = jobs
      BY <3>2 DEF Typed, Values
    <3>. QED  BY <3>1, <3>3, <3>4 DEF Written, VerdictOf
  <2>. QED  BY <1>3, <1>4, <1>5, <2>1 DEF Pipes
<1>8. CASE "runner" \in Faults
  BY <1>3, <1>4, <1>5, <1>8 DEF Pipes
<1>. QED  BY <1>6, <1>7, <1>8

LEMMA PipesStep ==
  ASSUME Typed, SlotsAgree, Pipes, [Next]_vars
  PROVE  Pipes'
<1>. USE DEF cursors, tables, queue, system, output
<1>1. ASSUME UNCHANGED <<pipe, result, next, jobs, proc>>, pc' = "done" \/ pc # "done"
      PROVE  Pipes'
  BY <1>1, PipesUntouched
<1>2. CASE Enlist
  <2>1. next = 0 /\ pc # "done"
    BY <1>2 DEF Enlist, Typed, Indices
  <2>. QED  BY <1>2, <2>1, PipesUntouched DEF Enlist
<1>3. CASE RunJobs \/ StartFails \/ StopFilling \/ WaitFails \/ WriteCell \/ EndRow \/ Finish
  BY <1>1, <1>3 DEF RunJobs, StartFails, StopFilling, WaitFails, WriteCell, EndRow, Finish
<1>4. CASE StartJob
  <2>1. PICK pid \in Pid : proc' = [proc EXCEPT ![pid] = [state |-> "live", job |-> next + 1]]
    BY <1>4 DEF StartJob
  <2>2. UNCHANGED <<pipe, result, jobs, pc>> /\ next' = next + 1 /\ pc # "done"
    BY <1>4 DEF StartJob
  <2>3. next \in Nat /\ next + 1 \in JobId
    <3>1. /\ next \in Nat /\ Len(jobs) <= UsersCount * ProblemsCount
          /\ Len(jobs) \in Nat
      BY DEF Typed, Values, Indices
    <3>2. next < Len(jobs)
      BY <1>4 DEF StartJob, FillMore
    <3>. QED  BY <3>1, <3>2, CountAssumption DEF JobId
  <2>4. \A j : Written(j)' = Written(j) /\ VerdictOf(j)' = VerdictOf(j)
    BY <2>2 DEF Written, VerdictOf
  <2>5. Begins(<<>>, Written(next + 1))
    <3>1. next + 1 <= Len(jobs)
      BY <1>4, <2>3 DEF StartJob, FillMore, Typed, Values
    <3>2. Len(Written(next + 1)) \in Nat
      BY <2>3, <3>1, WrittenType
    <3>. QED  BY <3>2 DEF Begins
  <2>6. (\A j \in JobId : j > next => pipe[j] = <<>>)'
    BY <2>2, <2>3 DEF Pipes, JobId
  <2>7. (\A j \in 1 .. next : Begins(pipe[j], Written(j)))'
    <3>1. pipe[next + 1] = <<>>
      BY <2>3 DEF Pipes
    <3>2. \A j \in 1 .. next + 1 : j \in 1 .. next \/ j = next + 1
      BY <2>3
    <3>. QED  BY <2>2, <2>4, <2>5, <3>1, <3>2 DEF Pipes
  <2>8. OwnMarks'
    BY <2>2, <2>4 DEF Pipes, OwnMarks
  <2>9. \A q \in Pid : proc'[q].state = "zombie" => proc'[q] = proc[q]
    BY <2>1 DEF Typed, Values
  <2>10. \A q \in Pid : Complete(q) => Complete(q)'
    BY <2>2, <2>4, <2>9 DEF Complete
  <2>. QED  BY <2>2, <2>6, <2>7, <2>8, <2>10 DEF Pipes
<1>5. CASE Reap
  <2>1. PICK pid \in Pid :
          /\ proc' = Reaped(pid)
          /\ \/ UNCHANGED <<result, slots, open, done, running>> /\ proc[pid].job = NoJob
             \/ \E s \in Slot : Collecting(pid, s)
    BY <1>5, ReapCases
  <2>2. UNCHANGED <<pipe, jobs, next>> /\ pc # "done"
    BY <1>5 DEF Reap
  <2>3. \A q \in Pid : proc'[q].state = "zombie" => proc'[q] = proc[q]
    BY <2>1 DEF Reaped, Free, Typed, Values
  <2>4. CASE UNCHANGED result
    BY <2>2, <2>3, <2>4, PipesUntouched
  <2>5. ASSUME NEW s \in Slot, Collecting(pid, s) PROVE Pipes'
    <3>. DEFINE j == slots[s].job
    <3>1. /\ result' = With(result, j, Collected(pipe[j]))
          /\ proc[pid].state = "zombie" /\ proc[pid].job = j /\ j # NoJob
      BY <2>5 DEF Collecting, Occupied
    <3>2. j \in JobId /\ j \in 1 .. next /\ j <= Len(jobs)
      BY <3>1 DEF Typed, Values, Indices, Process, JobId, NoJob
    <3>. HIDE DEF j
    <3>3. Begins(pipe[j], Append(VerdictOf(j), Newline))
      BY <3>2 DEF Pipes, Written
    <3>4. VerdictOf(j) \in Seq(Mark) /\ pipe[j] \in Seq(Mark \cup {Newline})
      BY <3>2, WrittenType DEF Typed, Values
    <3>5. "runner" \in Faults \/ pipe[j] = Append(VerdictOf(j), Newline)
      BY <2>2, <3>1 DEF Pipes, Complete, Written
    <3>6. /\ IsPrefix(Collected(pipe[j]), VerdictOf(j))
          /\ "runner" \in Faults \/ Collected(pipe[j]) = VerdictOf(j)
      BY <3>3, <3>4, <3>5, CollectedBegins
    <3>7. \A i : Written(i)' = Written(i) /\ VerdictOf(i)' = VerdictOf(i)
      BY <2>2 DEF Written, VerdictOf
    <3>8. OwnMarks'
      BY <3>1, <3>6, <3>7 DEF Pipes, OwnMarks, With
    <3>9. \A q \in Pid : Complete(q) => Complete(q)'
      BY <2>2, <2>3, <3>7 DEF Complete
    <3>. QED  BY <2>2, <3>7, <3>8, <3>9 DEF Pipes
  <2>. QED  BY <2>1, <2>4, <2>5
<1>6. ASSUME NEW pid \in Pid, RunnerWrites(pid) PROVE Pipes'
  <2>. DEFINE j == proc[pid].job
              w == Written(j)[Len(pipe[j]) + 1]
  <2>1. j \in JobId /\ j \in 1 .. next /\ j <= Len(jobs)
    BY <1>6 DEF RunnerWrites, Typed, Values, Indices, Process, JobId, NoJob
  <2>2. /\ Len(pipe[j]) < Len(Written(j))
        /\ pipe' = [pipe EXCEPT ![j] = Append(pipe[j], w)]
        /\ UNCHANGED <<pc, result, next, jobs, proc>>
    BY <1>6 DEF RunnerWrites
  <2>3. \A i : Written(i)' = Written(i) /\ VerdictOf(i)' = VerdictOf(i)
    BY <2>2 DEF Written, VerdictOf
  <2>4. /\ pipe[j] \in Seq(Mark \cup {Newline}) /\ Written(j) \in Seq(Mark \cup {Newline})
        /\ Begins(pipe[j], Written(j))
    BY <2>1, WrittenType DEF Typed, Values, Pipes
  <2>5. Begins(Append(pipe[j], w), Written(j))
    BY <2>2, <2>4 DEF Begins
  <2>6. \A i \in JobId : pipe'[i] = IF i = j THEN Append(pipe[j], w) ELSE pipe[i]
    BY <2>1, <2>2 DEF Typed, Values
  <2>7. next \in Nat /\ \A i \in 1 .. next : i \in JobId
    <3>1. next \in Nat /\ next <= Len(jobs) /\ Len(jobs) <= UsersCount * ProblemsCount
      BY DEF Typed, Values, Indices
    <3>2. Len(jobs) \in Nat
      BY DEF Typed, Values
    <3>. QED  BY <3>1, <3>2, CountAssumption DEF JobId
  <2>. HIDE DEF j, w
  <2>8. (\A i \in JobId : i > next => pipe[i] = <<>>)'
    BY <2>1, <2>2, <2>6, <2>7 DEF Pipes
  <2>9. (\A i \in 1 .. next : Begins(pipe[i], Written(i)))'
    BY <2>2, <2>3, <2>5, <2>6, <2>7 DEF Pipes
  <2>10. OwnMarks'
    BY <2>2, <2>3 DEF Pipes, OwnMarks
  <2>11. ASSUME NEW q \in Pid, Complete(q) PROVE Complete(q)'
    <3>. SUFFICES ASSUME proc[q].state = "zombie", proc[q].job # NoJob
                  PROVE  pipe'[proc[q].job] = Written(proc[q].job)
      BY <2>2, <2>3 DEF Complete
    <3>1. pipe[proc[q].job] = Written(proc[q].job)
      BY <2>11 DEF Complete
    <3>2. proc[q].job # j
      BY <2>2, <2>4, <3>1
    <3>3. proc[q].job \in JobId
      BY DEF Typed, Values, Process, NoJob
    <3>. QED  BY <2>6, <3>1, <3>2, <3>3
  <2>. QED  BY <2>2, <2>8, <2>9, <2>10, <2>11 DEF Pipes
<1>7. ASSUME NEW pid \in Pid, RunnerExits(pid) PROVE Pipes'
  <2>1. /\ UNCHANGED <<pc, pipe, result, next, jobs>>
        /\ proc' = [proc EXCEPT ![pid].state = "zombie"]
        /\ pipe[proc[pid].job] = Written(proc[pid].job)
    BY <1>7 DEF RunnerExits, Ends
  <2>2. \A j : Written(j)' = Written(j) /\ VerdictOf(j)' = VerdictOf(j)
    BY <2>1 DEF Written, VerdictOf
  <2>3. OwnMarks'
    BY <2>1, <2>2 DEF Pipes, OwnMarks
  <2>4. \A q \in Pid : /\ proc'[q].job = proc[q].job
                       /\ proc'[q].state = IF q = pid THEN "zombie" ELSE proc[q].state
    BY <2>1 DEF Typed, Values, Process
  <2>. QED  BY <2>1, <2>2, <2>3, <2>4 DEF Pipes, Complete
<1>8. ASSUME NEW pid \in Pid, RunnerDies(pid) \/ InheritedEnds(pid) PROVE Pipes'
  <2>1. /\ UNCHANGED <<pc, pipe, result, next, jobs>>
        /\ proc' = [proc EXCEPT ![pid].state = "zombie"]
        /\ "runner" \in Faults \/ pc = "done" \/ proc[pid].job = NoJob
    BY <1>8 DEF RunnerDies, InheritedEnds, Ends
  <2>2. \A j : Written(j)' = Written(j) /\ VerdictOf(j)' = VerdictOf(j)
    BY <2>1 DEF Written, VerdictOf
  <2>3. OwnMarks'
    BY <2>1, <2>2 DEF Pipes, OwnMarks
  <2>4. \A q \in Pid : /\ proc'[q].job = proc[q].job
                       /\ proc'[q].state = IF q = pid THEN "zombie" ELSE proc[q].state
    BY <2>1 DEF Typed, Values, Process
  <2>. QED  BY <2>1, <2>2, <2>3, <2>4 DEF Pipes, Complete
<1>9. CASE UNCHANGED vars
  BY <1>1, <1>9 DEF vars
<1>. QED
  BY <1>2, <1>3, <1>4, <1>5, <1>6, <1>7, <1>8, <1>9 DEF Next, JudgeStep, RunnerStep, Halted

(* No runner is lost sight of, in every run.                               *)
THEOREM NoRunnerLost == Spec => []SlotsHoldChildren
<1>1. Init => Typed /\ SlotsAgree
  BY TypedInit, SlotsInit
<1>2. Typed /\ SlotsAgree /\ [Next]_vars => Typed' /\ SlotsAgree'
  BY TypedStep, SlotsStep
<1>3. SlotsAgree => SlotsHoldChildren
  BY DEF SlotsAgree
<1>. QED  BY <1>1, <1>2, <1>3, PTL DEF Spec

(* The counters of run_jobs agree with its slots, its results and the      *)
(* pipes it holds, in every run.                                           *)
THEOREM EveryJobAccountedFor == Spec => []JobsAccountedFor
<1>1. Init => Typed /\ SlotsAgree /\ Pool
  BY TypedInit, SlotsInit, PoolInit
<1>2. Typed /\ SlotsAgree /\ Pool /\ [Next]_vars => Typed' /\ SlotsAgree' /\ Pool'
  BY TypedStep, SlotsStep, PoolStep
<1>3. SlotsAgree /\ Pool => JobsAccountedFor
  BY DEF SlotsAgree, Pool, CountersAgree, JobsAccountedFor
<1>. QED  BY <1>1, <1>2, <1>3, PTL DEF Spec

(* Workers are kept busy, in every run.                                    *)
THEOREM WorkersAreBusy == Spec => []KeepsWorkersBusy
<1>1. Init => Typed /\ SlotsAgree /\ Pool
  BY TypedInit, SlotsInit, PoolInit
<1>2. Typed /\ SlotsAgree /\ Pool /\ [Next]_vars => Typed' /\ SlotsAgree' /\ Pool'
  BY TypedStep, SlotsStep, PoolStep
<1>3. Typed /\ SlotsAgree /\ Pool => KeepsWorkersBusy
  <2>. SUFFICES ASSUME Typed, SlotsAgree, Pool, pc = "wait", ~failed
                PROVE  running = Min({Workers, Len(jobs) - done})
    BY DEF KeepsWorkersBusy
  <2>1. running = Workers \/ next = Len(jobs)
    BY DEF Pool
  <2>. DEFINE S == {Workers, Len(jobs) - done}
  <2>2. S \in SUBSET Nat /\ S # {}
    BY Counters
  <2>3. Min(S) \in S /\ \A n \in S : Min(S) <= n
    BY <2>2, LeastNatural
  <2>. QED  BY <2>1, <2>3, Counters
<1>. QED  BY <1>1, <1>2, <1>3, PTL DEF Spec

(* The judge never waits with no runner out, in every run.                 *)
THEOREM SomebodyToWaitFor == Spec => []WaitsForSomebody
<1>1. Init => Typed /\ SlotsAgree /\ Pool
  BY TypedInit, SlotsInit, PoolInit
<1>2. Typed /\ SlotsAgree /\ Pool /\ [Next]_vars => Typed' /\ SlotsAgree' /\ Pool'
  BY TypedStep, SlotsStep, PoolStep
<1>3. Typed /\ SlotsAgree /\ Pool => WaitsForSomebody
  <2>. SUFFICES ASSUME Typed, SlotsAgree, Pool, pc = "wait"
                PROVE  \E pid \in Pid : proc[pid].job # NoJob
    BY DEF WaitsForSomebody
  <2>1. PICK s \in Occupied : TRUE
    BY Counters DEF Pool
  <2>2. slots[s].job # NoJob
    BY <2>1 DEF Occupied
  <2>. QED  BY <2>1, <2>2 DEF SlotsAgree, SlotsHoldChildren
<1>. QED  BY <1>1, <1>2, <1>3, PTL DEF Spec

LEMMA CleanlyOut ==
  ASSUME Typed, SlotsAgree, Pool
  PROVE  CleanExit
<1>. SUFFICES ASSUME pc \in {"report", "done"}, ~failed
              PROVE  /\ DOMAIN result = DOMAIN jobs
                     /\ \A pid \in Pid : proc[pid].job = NoJob
                     /\ open = {}
  BY DEF CleanExit
<1>1. done = Len(jobs)
  BY DEF Pool
<1>2. Occupied = {} /\ next = Len(jobs)
  BY <1>1, Counters
<1>3. InSlots = {} /\ \A pid : Owner(pid) = {}
  BY <1>2 DEF InSlots, Owner
<1>4. DOMAIN result = 1 .. Len(jobs)
  BY <1>2, <1>3 DEF SlotsAgree, CountersAgree
<1>5. DOMAIN jobs = 1 .. Len(jobs)
  BY DEF Typed, Values
<1>. QED  BY <1>3, <1>4, <1>5 DEF Pool, SlotsAgree, SlotsHoldChildren

(* A run that has not failed has collected the whole table and left        *)
(* neither a child nor a pipe behind, in every run.                        *)
THEOREM ExitsClean == Spec => []CleanExit
<1>1. Init => Typed /\ SlotsAgree /\ Pool
  BY TypedInit, SlotsInit, PoolInit
<1>2. Typed /\ SlotsAgree /\ Pool /\ [Next]_vars => Typed' /\ SlotsAgree' /\ Pool'
  BY TypedStep, SlotsStep, PoolStep
<1>3. Typed /\ SlotsAgree /\ Pool => CleanExit
  BY CleanlyOut
<1>. QED  BY <1>1, <1>2, <1>3, PTL DEF Spec

(* What is collected for a job is what its own runner wrote, in every run. *)
THEOREM MarksAreTheRunnersOwn == Spec => []OwnMarks
<1>1. Init => Typed /\ SlotsAgree /\ Pipes
  BY TypedInit, SlotsInit, PipesInit
<1>2. Typed /\ SlotsAgree /\ Pipes /\ [Next]_vars => Typed' /\ SlotsAgree' /\ Pipes'
  BY TypedStep, SlotsStep, PipesStep
<1>3. Pipes => OwnMarks
  BY DEF Pipes
<1>. QED  BY <1>1, <1>2, <1>3, PTL DEF Spec
----------------------------------------------------------------------------

(***************************************************************************)
(* The scoreboard says what the submissions earned.  main takes the jobs   *)
(* off the table with a counter of its own (at), so the proof is about     *)
(* where in the table the job of a cell is: after the rows of all the      *)
(* students before it who have a directory.                                *)
(***************************************************************************)

Enlisted  == IF pc = "enlist" THEN user - 1 ELSE UsersCount
RowsOf(S) == Cardinality(S) * ProblemsCount
Before(u) == {v \in 1 .. u - 1 : present[v]}
Base(u)   == RowsOf(Before(u))

(* Every submission of a student looked at has its place in the table.     *)
Table ==
  /\ Len(jobs) = Base(Enlisted + 1)
  /\ \A u \in 1 .. Enlisted, p \in Problem :
       present[u] => Base(u) + p \in DOMAIN jobs /\ jobs[Base(u) + p] = <<u, p>>

Expected(u, p) == IF present[u] THEN CellOf(Base(u) + p) ELSE AbsentCell

(* The cells above and to the left of the cursors are written, and the job *)
(* the counter is at is that of the cell the cursors are at.               *)
Board ==
  /\ pc \in {"enlist", "fill", "wait"} => board = <<>> /\ at = 0 /\ problem = 1
  /\ pc \in {"fill", "wait"} => user = 1
  /\ pc \in {"report", "done"} =>
       /\ at = Base(user) + (IF user \in User /\ present[user] THEN problem - 1 ELSE 0)
       /\ DOMAIN board = {c \in Cell : c[1] < user \/ (c[1] = user /\ c[2] < problem)}
       /\ \A u \in User, p \in Problem :
            <<u, p>> \in DOMAIN board => board[<<u, p>>] = Expected(u, p)
  /\ pc = "done" => user > UsersCount

(* One more student is ProblemsCount more rows.                            *)
LEMMA OneRowMore ==
  ASSUME NEW n \in Nat, NEW S \in SUBSET (1 .. n), NEW u, u \notin S
  PROVE  RowsOf(S) \in Nat /\ RowsOf(S \cup {u}) = RowsOf(S) + ProblemsCount
<1>1. IsFiniteSet(S)
  <2>1. IsFiniteSet(1 .. n)
    BY FS_Interval
  <2>. QED  BY <2>1, FS_Subset
<1>2. Cardinality(S) \in Nat /\ Cardinality(S \cup {u}) = Cardinality(S) + 1
  BY <1>1, FS_CardinalityType, FS_AddElement
<1>3. \A k \in Nat : k * ProblemsCount \in Nat /\ (k + 1) * ProblemsCount = k * ProblemsCount + ProblemsCount
  BY CountAssumption
<1>. QED  BY <1>2, <1>3 DEF RowsOf

(* The rows before a student's take up a natural number of places, none    *)
(* before the first, and ProblemsCount more after one who is there.        *)
LEMMA BaseNext ==
  ASSUME NEW u \in Nat \ {0}, present[u] \in BOOLEAN
  PROVE  /\ Base(u) \in Nat
         /\ Base(u + 1) = IF present[u] THEN Base(u) + ProblemsCount ELSE Base(u)
<1>1. Before(u) \in SUBSET (1 .. u) /\ u \notin Before(u)
  BY DEF Before
<1>2. RowsOf(Before(u)) \in Nat /\ RowsOf(Before(u) \cup {u}) = RowsOf(Before(u)) + ProblemsCount
  BY <1>1, OneRowMore
<1>3. Before(u + 1) = IF present[u] THEN Before(u) \cup {u} ELSE Before(u)
  BY DEF Before
<1>. QED  BY <1>2, <1>3 DEF Base

LEMMA BaseOne == Base(1) = 0
<1>1. Before(1) = {}
  BY DEF Before
<1>2. Cardinality(Before(1)) = 0
  BY <1>1, FS_EmptySet
<1>. QED  BY <1>2, CountAssumption DEF Base, RowsOf

LEMMA TableInit == Init => Table
<1>. SUFFICES ASSUME Init PROVE Table
  OBVIOUS
<1>1. Enlisted = 0 /\ Len(jobs) = 0
  BY DEF Init, Enlisted
<1>2. Enlisted + 1 = 1 /\ 1 .. Enlisted = {}
  BY <1>1
<1>. QED  BY <1>1, <1>2, BaseOne DEF Table

LEMMA TableStep ==
  ASSUME Typed, Table, [Next]_vars
  PROVE  Table'
<1>. USE DEF cursors, tables, queue, system, output
<1>1. ASSUME UNCHANGED <<jobs, present>>, Enlisted' = Enlisted PROVE Table'
  <2>1. \A u : Base(u)' = Base(u)
    BY <1>1 DEF Base, Before
  <2>. QED  BY <1>1, <2>1 DEF Table
<1>2. CASE Enlist
  <2>0. user \in User
    BY <1>2 DEF Enlist, Typed, Values, User
  <2>1. PICK me \in User, here \in BOOLEAN :
          /\ me = user /\ user' = me + 1
          /\ pc = "enlist" /\ pc' = "enlist"
          /\ present' = [present EXCEPT ![me] = here]
          /\ jobs' = IF here THEN jobs \o Row(me) ELSE jobs
    BY <1>2, <2>0 DEF Enlist
  <2>2. /\ me \in Nat \ {0} /\ me + 1 - 1 = me /\ me - 1 + 1 = me
        /\ present \in [User -> BOOLEAN] /\ jobs \in Seq(Cell)
    BY <2>1 DEF Typed, Values, User
  <2>3. Enlisted = me - 1 /\ Enlisted' = me
    BY <2>1, <2>2 DEF Enlisted
  <2>4. present'[me] = here /\ \A v \in 1 .. me - 1 : present'[v] = present[v]
    BY <2>1, <2>2 DEF User
  <2>5. ASSUME NEW u \in 1 .. me PROVE Base(u)' = Base(u)
    <3>1. Before(u)' = Before(u)
      BY <2>2, <2>4 DEF Before
    <3>. QED  BY <3>1 DEF Base
  <2>6. Len(jobs) = Base(me) /\ Base(me) \in Nat
    <3>1. Len(jobs) \in Nat
      BY <2>2
    <3>. QED  BY <2>2, <2>3, <3>1 DEF Table
  <2>7. Base(me + 1)' = IF here THEN Len(jobs) + ProblemsCount ELSE Len(jobs)
    <3>1. Before(me + 1)' = IF here THEN Before(me) \cup {me} ELSE Before(me)
      BY <2>2, <2>4 DEF Before
    <3>2. Before(me) \in SUBSET (1 .. me) /\ me \notin Before(me)
      BY <2>2 DEF Before
    <3>3. RowsOf(Before(me) \cup {me}) = RowsOf(Before(me)) + ProblemsCount
      BY <2>2, <3>2, OneRowMore
    <3>4. Base(me + 1)' = RowsOf(Before(me + 1)')
      BY DEF Base, RowsOf
    <3>. QED  BY <2>6, <3>1, <3>3, <3>4 DEF Base
  <2>8. Row(me) \in Seq(Cell) /\ Len(Row(me)) = ProblemsCount /\ \A p \in Problem : Row(me)[p] = <<me, p>>
    BY <2>1, CountAssumption DEF Row, Cell, Problem
  <2>9. /\ Len(jobs') = IF here THEN Len(jobs) + ProblemsCount ELSE Len(jobs)
        /\ \A j \in 1 .. Len(jobs) : j \in DOMAIN jobs' /\ jobs'[j] = jobs[j]
        /\ here => \A p \in Problem : /\ Len(jobs) + p \in DOMAIN jobs'
                                      /\ jobs'[Len(jobs) + p] = <<me, p>>
    <3>1. CASE ~here
      BY <2>1, <2>2, <3>1
    <3>2. CASE here
      <4>1. jobs' = jobs \o Row(me) /\ jobs \in Seq(Cell) /\ Row(me) \in Seq(Cell)
        BY <2>1, <2>2, <2>8, <3>2
      <4>2. Len(jobs) \in Nat /\ Len(jobs') = Len(jobs) + Len(Row(me))
        BY <4>1
      <4>3. \A j \in 1 .. Len(jobs) : j \in DOMAIN jobs' /\ jobs'[j] = jobs[j]
        BY <4>1
      <4>4. \A p \in 1 .. Len(Row(me)) : Len(jobs) + p \in DOMAIN jobs' /\ jobs'[Len(jobs) + p] = Row(me)[p]
        BY <4>1
      <4>. QED  BY <2>8, <3>2, <4>2, <4>3, <4>4 DEF Problem
    <3>. QED  BY <3>1, <3>2
  <2>10. ASSUME NEW u \in 1 .. me, NEW p \in Problem, present'[u]
         PROVE  Base(u)' + p \in DOMAIN jobs' /\ jobs'[Base(u)' + p] = <<u, p>>
    <3>1. CASE u = me
      BY <2>4, <2>5, <2>6, <2>9, <2>10, <3>1
    <3>2. CASE u # me
      <4>1. u \in 1 .. me - 1 /\ present[u]
        BY <2>2, <2>4, <2>10, <3>2
      <4>2. Base(u) + p \in DOMAIN jobs /\ jobs[Base(u) + p] = <<u, p>>
        BY <2>3, <4>1 DEF Table
      <4>3. DOMAIN jobs = 1 .. Len(jobs)
        BY <2>2
      <4>. QED  BY <2>5, <2>9, <4>2, <4>3
    <3>. QED  BY <3>1, <3>2
  <2>11. Len(jobs') = Base(me + 1)'
    BY <2>7, <2>9
  <2>. QED  BY <2>2, <2>3, <2>10, <2>11 DEF Table
<1>3. CASE RunJobs
  <2>1. Enlisted' = Enlisted
    <3>1. user \in 1 .. UsersCount + 1 /\ UsersCount \in Nat
      BY CountAssumption DEF Typed, Values
    <3>2. pc = "enlist" /\ pc' # "enlist" /\ user > UsersCount
      BY <1>3 DEF RunJobs
    <3>. QED  BY <3>1, <3>2 DEF Enlisted
  <2>. QED  BY <1>1, <1>3, <2>1 DEF RunJobs
<1>4. CASE StartJob \/ StartFails \/ StopFilling \/ Reap \/ WaitFails \/ WriteCell \/ EndRow \/ Finish
  <2>1. pc # "enlist" /\ pc' # "enlist"
    BY <1>4 DEF StartJob, StartFails, StopFilling, AfterFilling, Reap, WaitFails, WriteCell, EndRow, Finish
  <2>2. UNCHANGED <<jobs, present>>
    BY <1>4 DEF StartJob, StartFails, StopFilling, Reap, WaitFails, WriteCell, EndRow, Finish
  <2>. QED  BY <1>1, <2>1, <2>2 DEF Enlisted
<1>5. ASSUME NEW pid \in Pid, RunnerStep(pid) \/ RunnerDies(pid) \/ InheritedEnds(pid)
      PROVE  Table'
  <2>1. UNCHANGED <<jobs, present, pc, user>>
    BY <1>5 DEF RunnerStep, RunnerWrites, RunnerExits, RunnerDies, InheritedEnds
  <2>. QED  BY <1>1, <2>1 DEF Enlisted
<1>6. CASE UNCHANGED vars
  BY <1>1, <1>6 DEF vars, Enlisted
<1>. QED
  BY <1>2, <1>3, <1>4, <1>5, <1>6 DEF Next, JudgeStep, Halted

LEMMA BoardInit == Init => Board
  BY DEF Init, Board

(* The first row of an empty scoreboard is where main's last loop begins.  *)
LEMMA BoardBegins ==
  ASSUME Typed, Board, [Next]_vars, pc \in {"fill", "wait"}, pc' # "done",
         UNCHANGED <<cursors, tables, board>>
  PROVE  Board'
<1>1. /\ board' = <<>> /\ at' = 0 /\ problem' = 1 /\ user' = 1
      /\ pc' # "done"
  BY DEF Board, cursors
<1>2. Base(1)' = 0
  <2>1. Before(1)' = {}
    BY DEF Before
  <2>2. Base(1)' = RowsOf(Before(1)')
    BY DEF Base, RowsOf
  <2>3. RowsOf({}) = 0
    BY FS_EmptySet, CountAssumption DEF RowsOf
  <2>. QED  BY <2>1, <2>2, <2>3
<1>3. Base(user)' = 0
  BY <1>1, <1>2 DEF Base, Before
<1>4. DOMAIN board' = {} /\ {c \in Cell : c[1] < 1 \/ (c[1] = 1 /\ c[2] < 1)} = {}
  <2>1. \A c \in Cell : c[1] \in User /\ c[2] \in Problem
    BY DEF Cell
  <2>. QED  BY <1>1, <2>1 DEF User, Problem
<1>. QED  BY <1>1, <1>3, <1>4 DEF Board

LEMMA BoardStep ==
  ASSUME Typed, Table, Board, [Next]_vars
  PROVE  Board'
<1>. USE DEF cursors, tables, queue, system, output
<1>1. ASSUME UNCHANGED <<pc, result, cursors, tables, board>> PROVE Board'
  <2>1. \A u : Base(u)' = Base(u)
    BY <1>1 DEF Base, Before
  <2>2. Base(user)' = Base(user)
    BY <1>1 DEF Base, Before
  <2>3. \A u, p : Expected(u, p)' = Expected(u, p)
    BY <1>1, <2>1 DEF Expected, CellOf
  <2>. QED  BY <1>1, <2>1, <2>2, <2>3 DEF Board
<1>2. CASE Enlist \/ RunJobs
  BY <1>2 DEF Enlist, RunJobs, Board
<1>3. CASE StartJob \/ StartFails \/ StopFilling \/ Reap \/ WaitFails
  <2>1. /\ pc \in {"fill", "wait"} /\ pc' # "done"
        /\ UNCHANGED <<cursors, tables, board>>
    BY <1>3 DEF StartJob, StartFails, StopFilling, AfterFilling, Reap, WaitFails
  <2>. QED  BY <2>1, BoardBegins
<1>4. CASE WriteCell
  <2>1. PICK me \in User, q \in Problem :
          /\ me = user /\ q = problem /\ user' = me /\ problem' = q + 1
          /\ pc = "report" /\ pc' = "report"
          /\ UNCHANGED <<result, tables>>
          /\ board' = With(board, <<me, q>>, IF present[me] THEN CellOf(at + 1) ELSE AbsentCell)
          /\ at' = IF present[me] THEN at + 1 ELSE at
    <3>1. user \in User /\ problem \in Problem
      BY <1>4 DEF WriteCell, Typed, Values, User, Problem
    <3>. QED  BY <1>4, <3>1 DEF WriteCell, NextJob
  <2>2. \A u : Base(u)' = Base(u)
    BY <2>1 DEF Base, Before
  <2>3. Base(user)' = Base(me) /\ Base(user) = Base(me)
    BY <2>1 DEF Base, Before
  <2>4. \A u, p : Expected(u, p)' = Expected(u, p)
    BY <2>1, <2>2 DEF Expected, CellOf
  <2>5. me \in Nat \ {0} /\ q \in Nat \ {0} /\ at \in Nat /\ present[me] \in BOOLEAN
    BY <2>1 DEF User, Problem, Typed, Values
  <2>6. Base(me) \in Nat
    BY <2>5, BaseNext
  <2>7. at = Base(me) + (IF present[me] THEN q - 1 ELSE 0)
    BY <2>1, <2>3 DEF Board
  <2>8. board' = With(board, <<me, q>>, Expected(me, q))
    BY <2>1, <2>5, <2>6, <2>7 DEF Expected
  <2>9. at' = Base(user)' + (IF user' \in User /\ present'[user'] THEN problem' - 1 ELSE 0)
    BY <2>1, <2>3, <2>5, <2>6, <2>7
  <2>10. DOMAIN board = {c \in Cell : c[1] < me \/ (c[1] = me /\ c[2] < q)}
    BY <2>1 DEF Board
  <2>11. DOMAIN board' = {c \in Cell : c[1] < me \/ (c[1] = me /\ c[2] < q + 1)}
    <3>1. DOMAIN board' = DOMAIN board \cup {<<me, q>>}
      BY <2>8 DEF With
    <3>2. \A c \in Cell : c[1] \in Nat /\ c[2] \in Nat /\ c = <<c[1], c[2]>>
      BY DEF Cell, User, Problem
    <3>3. <<me, q>> \in Cell
      BY <2>1 DEF Cell
    <3>4. \A c \in Cell : c[1] = me /\ c[2] < q + 1 <=> (c[1] = me /\ c[2] < q) \/ c = <<me, q>>
      BY <2>5, <3>2
    <3>. QED  BY <2>10, <3>1, <3>3, <3>4
  <2>12. ASSUME NEW u \in User, NEW p \in Problem, <<u, p>> \in DOMAIN board'
         PROVE  board'[<<u, p>>] = Expected(u, p)'
    <3>1. CASE <<u, p>> = <<me, q>>
      BY <2>4, <2>8, <3>1 DEF With
    <3>2. CASE <<u, p>> # <<me, q>>
      <4>1. <<u, p>> \in DOMAIN board /\ board'[<<u, p>>] = board[<<u, p>>]
        BY <2>8, <2>12, <3>2 DEF With
      <4>. QED  BY <2>1, <2>4, <4>1 DEF Board
    <3>. QED  BY <3>1, <3>2
  <2>. QED  BY <2>1, <2>9, <2>11, <2>12 DEF Board
<1>5. CASE EndRow
  <2>1. PICK me \in User :
          /\ me = user /\ user' = me + 1 /\ problem' = 1
          /\ pc = "report" /\ pc' = "report"
          /\ problem = ProblemsCount + 1
          /\ UNCHANGED <<result, tables, at, board>>
    <3>1. user \in User /\ problem = ProblemsCount + 1
      BY <1>5, CountAssumption DEF EndRow, Typed, Values, User
    <3>. QED  BY <1>5, <3>1 DEF EndRow
  <2>2. \A u : Base(u)' = Base(u)
    BY <2>1 DEF Base, Before
  <2>3. Base(user)' = Base(me + 1) /\ Base(user) = Base(me)
    BY <2>1 DEF Base, Before
  <2>4. \A u, p : Expected(u, p)' = Expected(u, p)
    BY <2>1, <2>2 DEF Expected, CellOf
  <2>5. me \in Nat \ {0} /\ present[me] \in BOOLEAN
    BY <2>1 DEF User, Typed, Values
  <2>6. Base(me) \in Nat /\ Base(me + 1) = IF present[me] THEN Base(me) + ProblemsCount ELSE Base(me)
    BY <2>5, BaseNext
  <2>7. at' = Base(user)' + (IF user' \in User /\ present'[user'] THEN problem' - 1 ELSE 0)
    <3>1. at = Base(me) + (IF present[me] THEN ProblemsCount ELSE 0)
      BY <2>1, <2>3, CountAssumption DEF Board
    <3>2. at' = Base(user)' /\ Base(user)' \in Nat
      BY <2>1, <2>3, <2>6, <3>1, CountAssumption
    <3>. QED  BY <2>1, <3>2
  <2>8. DOMAIN board' = {c \in Cell : c[1] < me + 1 \/ (c[1] = me + 1 /\ c[2] < 1)}
    <3>1. DOMAIN board = {c \in Cell : c[1] < me \/ (c[1] = me /\ c[2] < ProblemsCount + 1)}
      BY <2>1 DEF Board
    <3>2. \A c \in Cell : c[1] \in Nat /\ c[2] \in 1 .. ProblemsCount
      BY DEF Cell, User, Problem
    <3>3. \A c \in Cell : (c[1] < me \/ (c[1] = me /\ c[2] < ProblemsCount + 1))
                           <=> (c[1] < me + 1 \/ (c[1] = me + 1 /\ c[2] < 1))
      BY <2>5, <3>2, CountAssumption
    <3>. QED  BY <2>1, <3>1, <3>3
  <2>. QED  BY <2>1, <2>4, <2>7, <2>8 DEF Board
<1>6. CASE Finish
  <2>1. /\ pc = "report" /\ pc' = "done" /\ user > UsersCount
        /\ UNCHANGED <<result, cursors, tables, board>>
    BY <1>6 DEF Finish
  <2>2. Base(user)' = Base(user) /\ \A u : Base(u)' = Base(u)
    BY <2>1 DEF Base, Before
  <2>3. \A u, p : Expected(u, p)' = Expected(u, p)
    BY <2>1, <2>2 DEF Expected, CellOf
  <2>. QED  BY <2>1, <2>2, <2>3 DEF Board
<1>7. ASSUME NEW pid \in Pid, RunnerStep(pid) \/ RunnerDies(pid) \/ InheritedEnds(pid)
      PROVE  Board'
  BY <1>1, <1>7 DEF RunnerStep, RunnerWrites, RunnerExits, RunnerDies, InheritedEnds
<1>8. CASE UNCHANGED vars
  BY <1>1, <1>8 DEF vars
<1>. QED
  BY <1>2, <1>3, <1>4, <1>5, <1>6, <1>7, <1>8 DEF Next, JudgeStep, Halted

(***************************************************************************)
(* The cursors.  The counters bound next, done and running; the counter of *)
(* jobs taken off the table is within it because the rows of the students  *)
(* at or before the one it is at are.                                      *)
(***************************************************************************)
LEMMA BaseGrows ==
  ASSUME Typed, NEW u \in 1 .. UsersCount + 1, NEW v \in 1 .. UsersCount + 1, u <= v
  PROVE  Base(u) \in Nat /\ Base(v) \in Nat /\ Base(u) <= Base(v)
<1>0. UsersCount \in Nat /\ ProblemsCount \in Nat
  BY CountAssumption
<1>1. IsFiniteSet(1 .. UsersCount)
  BY <1>0, FS_Interval
<1>2. Before(u) \subseteq Before(v) /\ Before(v) \subseteq 1 .. UsersCount
  BY <1>0 DEF Before
<1>3. IsFiniteSet(Before(v)) /\ IsFiniteSet(Before(u))
  BY <1>1, <1>2, FS_Subset
<1>4. /\ Cardinality(Before(u)) \in Nat /\ Cardinality(Before(v)) \in Nat
      /\ Cardinality(Before(u)) <= Cardinality(Before(v))
  BY <1>2, <1>3, FS_Subset, FS_CardinalityType
<1>5. \A m, n \in Nat : m <= n => /\ m * ProblemsCount \in Nat /\ n * ProblemsCount \in Nat
                                 /\ m * ProblemsCount <= n * ProblemsCount
  BY <1>0
<1>. QED  BY <1>4, <1>5 DEF Base, RowsOf

LEMMA AtInside ==
  ASSUME Typed, Table, Board
  PROVE  at \in 0 .. Len(jobs)
<1>0. /\ UsersCount \in Nat /\ ProblemsCount \in Nat /\ Len(jobs) \in Nat
      /\ user \in 1 .. UsersCount + 1 /\ problem \in 1 .. ProblemsCount + 1
      /\ pc \in {"enlist", "fill", "wait", "report", "done"}
  BY CountAssumption DEF Typed, Values
<1>1. CASE pc \in {"enlist", "fill", "wait"}
  BY <1>0, <1>1 DEF Board
<1>2. CASE pc \in {"report", "done"}
  <2>1. at = Base(user) + (IF user \in User /\ present[user] THEN problem - 1 ELSE 0)
    BY <1>2 DEF Board
  <2>2. Len(jobs) = Base(UsersCount + 1)
    BY <1>2 DEF Table, Enlisted
  <2>3. UsersCount + 1 \in 1 .. UsersCount + 1
    BY <1>0
  <2>4. Base(user) \in Nat /\ Base(UsersCount + 1) \in Nat /\ Base(user) <= Base(UsersCount + 1)
    BY <1>0, <2>3, BaseGrows
  <2>5. CASE ~(user \in User /\ present[user])
    BY <2>1, <2>2, <2>4, <2>5
  <2>6. CASE user \in User /\ present[user]
    <3>1. user \in Nat \ {0} /\ user + 1 \in 1 .. UsersCount + 1
      BY <1>0, <2>6 DEF User
    <3>2. Base(user + 1) = Base(user) + ProblemsCount
      BY <2>6, <3>1, BaseNext
    <3>3. Base(user + 1) <= Base(UsersCount + 1)
      BY <1>0, <2>3, <3>1, BaseGrows
    <3>4. at = Base(user) + (problem - 1)
      BY <2>1, <2>6
    <3>. QED  BY <1>0, <2>2, <2>4, <3>2, <3>3, <3>4
  <2>. QED  BY <2>5, <2>6
<1>. QED  BY <1>0, <1>1, <1>2

(* The types hold in every run: no cursor leaves its table, no more        *)
(* runners are out than there are slots.                                   *)
THEOREM TypeCorrect == Spec => []TypeOK
<1>. DEFINE Inv == Typed /\ SlotsAgree /\ Table /\ Board
<1>1. Init => Inv
  BY TypedInit, SlotsInit, TableInit, BoardInit
<1>2. Inv /\ [Next]_vars => Inv'
  BY TypedStep, SlotsStep, TableStep, BoardStep
<1>3. Inv => TypeOK
  <2>. SUFFICES ASSUME Inv PROVE TypeOK
    OBVIOUS
  <2>1. /\ next \in 0 .. Len(jobs) /\ done \in 0 .. Len(jobs)
        /\ running \in 0 .. Workers
    BY Counters
  <2>2. at \in 0 .. Len(jobs)
    BY AtInside
  <2>3. Values
    BY DEF Typed
  <2>. QED  BY <2>1, <2>2, <2>3 DEF TypeOK, Values
<1>. QED  BY <1>1, <1>2, <1>3, PTL DEF Spec

(* The scoreboard says what the submissions earned, in every run.          *)
THEOREM BoardIsTheVerdicts == Spec => []CellsAreTheVerdicts
<1>. DEFINE Inv == Typed /\ SlotsAgree /\ Pool /\ Pipes /\ Table /\ Board
<1>1. Init => Inv
  BY TypedInit, SlotsInit, PoolInit, PipesInit, TableInit, BoardInit
<1>2. Inv /\ [Next]_vars => Inv'
  BY TypedStep, SlotsStep, PoolStep, PipesStep, TableStep, BoardStep
<1>3. Inv => CellsAreTheVerdicts
  <2>. SUFFICES ASSUME Inv, pc = "done", "runner" \notin Faults
                PROVE  /\ DOMAIN board = Cell
                       /\ \A c \in Cell : IF present[c[1]]
                                          THEN \/ board[c] = TrueCell(c)
                                               \/ failed /\ board[c] = LostCell
                                          ELSE board[c] = AbsentCell
    BY DEF CellsAreTheVerdicts
  <2>1. DOMAIN board = Cell
    <3>1. user > UsersCount /\ user \in Nat
      BY CountAssumption DEF Board, Typed, Values
    <3>2. \A c \in Cell : c[1] < user
      BY <3>1, CountAssumption DEF Cell, User
    <3>. QED  BY <3>2 DEF Board
  <2>2. ASSUME NEW u \in User, NEW p \in Problem
        PROVE  IF present[u] THEN \/ board[<<u, p>>] = TrueCell(<<u, p>>)
                                  \/ failed /\ board[<<u, p>>] = LostCell
                             ELSE board[<<u, p>>] = AbsentCell
    <3>. DEFINE j == Base(u) + p
    <3>1. board[<<u, p>>] = Expected(u, p)
      BY <2>1 DEF Board, Cell
    <3>2. CASE ~present[u]
      BY <3>1, <3>2 DEF Expected
    <3>3. CASE present[u]
      <4>1. Enlisted = UsersCount
        BY DEF Enlisted
      <4>2. j \in DOMAIN jobs /\ jobs[j] = <<u, p>>
        BY <3>3, <4>1 DEF Table, User
      <4>3. board[<<u, p>>] = CellOf(j)
        BY <3>1, <3>3 DEF Expected
      <4>. HIDE DEF j
      <4>4. CASE j \in DOMAIN result
        <5>1. result[j] = VerdictOf(j)
          BY <4>4 DEF Pipes, OwnMarks
        <5>. QED  BY <3>3, <4>2, <4>3, <4>4, <5>1 DEF CellOf, VerdictOf, TrueCell
      <4>5. CASE j \notin DOMAIN result
        <5>1. failed
          BY <4>2, <4>5, CleanlyOut DEF CleanExit
        <5>. QED  BY <3>3, <4>3, <4>5, <5>1 DEF CellOf
      <4>. QED  BY <4>4, <4>5
    <3>. QED  BY <3>2, <3>3
  <2>. QED  BY <2>1, <2>2 DEF Cell
<1>4. QED  BY <1>1, <1>2, <1>3, PTL DEF Spec

(***************************************************************************)
(* That the judge marks as module Marking has it.  Two more things have to *)
(* be known for that: the place of a job in the table says whose it is, so *)
(* that no two jobs are of one cell, and the total that main adds up while *)
(* it writes a row is the sum of what it has written of that row.          *)
(***************************************************************************)
Lookup ==
  \A j \in DOMAIN jobs :
    \E u \in 1 .. Enlisted, p \in Problem :
      present[u] /\ jobs[j] = <<u, p>> /\ j = Base(u) + p

Scores(u) == [p \in Problem |-> Expected(u, p).score]

Sums ==
  /\ pc \in {"enlist", "fill", "wait"} => totals = <<>> /\ total = 0
  /\ pc \in {"report", "done"} =>
       /\ DOMAIN totals = 1 .. user - 1
       /\ total = SumOver(Scores(user), 1 .. problem - 1)

LEMMA LookupInit == Init => Lookup
  BY DEF Init, Lookup

LEMMA LookupStep ==
  ASSUME Typed, Table, Lookup, [Next]_vars
  PROVE  Lookup'
<1>. USE DEF cursors, tables, queue, system, output
<1>1. ASSUME UNCHANGED <<jobs, present>>, Enlisted' = Enlisted PROVE Lookup'
  <2>1. \A u : Base(u)' = Base(u)
    BY <1>1 DEF Base, Before
  <2>. QED  BY <1>1, <2>1 DEF Lookup
<1>2. CASE Enlist
  <2>0. user \in User
    BY <1>2 DEF Enlist, Typed, Values, User
  <2>1. PICK me \in User, here \in BOOLEAN :
          /\ me = user /\ user' = me + 1
          /\ pc = "enlist" /\ pc' = "enlist"
          /\ present' = [present EXCEPT ![me] = here]
          /\ jobs' = IF here THEN jobs \o Row(me) ELSE jobs
    BY <1>2, <2>0 DEF Enlist
  <2>2. /\ me \in Nat \ {0} /\ me + 1 - 1 = me /\ me - 1 + 1 = me
        /\ present \in [User -> BOOLEAN] /\ jobs \in Seq(Cell)
    BY <2>1 DEF Typed, Values, User
  <2>3. Enlisted = me - 1 /\ Enlisted' = me
    BY <2>1, <2>2 DEF Enlisted
  <2>4. present'[me] = here /\ \A v \in 1 .. me - 1 : present'[v] = present[v]
    BY <2>1, <2>2 DEF User
  <2>5. ASSUME NEW u \in 1 .. me PROVE Base(u)' = Base(u)
    <3>1. Before(u)' = Before(u)
      BY <2>2, <2>4 DEF Before
    <3>. QED  BY <3>1 DEF Base
  <2>6. ASSUME NEW j \in DOMAIN jobs
        PROVE  \E u \in 1 .. me, p \in Problem :
                 present'[u] /\ jobs[j] = <<u, p>> /\ j = Base(u)' + p
    <3>1. PICK u \in 1 .. me - 1, p \in Problem :
            present[u] /\ jobs[j] = <<u, p>> /\ j = Base(u) + p
      BY <2>3 DEF Lookup
    <3>2. u \in 1 .. me
      BY <2>2, <3>1
    <3>. QED  BY <2>4, <2>5, <3>1, <3>2
  <2>7. CASE ~here
    BY <2>1, <2>3, <2>6, <2>7 DEF Lookup
  <2>8. CASE here
    <3>1. Row(me) \in Seq(Cell) /\ Len(Row(me)) = ProblemsCount /\ \A p \in Problem : Row(me)[p] = <<me, p>>
      BY <2>1, CountAssumption DEF Row, Cell, Problem
    <3>2. jobs' = jobs \o Row(me) /\ Len(jobs) \in Nat /\ DOMAIN jobs = 1 .. Len(jobs)
      BY <2>1, <2>2, <2>8
    <3>3. ASSUME NEW j \in DOMAIN jobs'
          PROVE  \/ j \in DOMAIN jobs /\ jobs'[j] = jobs[j]
                 \/ \E p \in Problem : j = Len(jobs) + p /\ jobs'[j] = <<me, p>>
      <4>0. jobs' \in Seq(Cell)
        BY <2>2, <3>1, <3>2
      <4>1. Len(jobs') = Len(jobs) + ProblemsCount
        <5>1. Len(jobs \o Row(me)) = Len(jobs) + Len(Row(me))
          <6>1. jobs \in Seq(Cell) /\ Row(me) \in Seq(Cell)
            BY <2>2, <3>1
          <6>. QED  BY <6>1
        <5>. QED  BY <3>1, <3>2, <5>1
      <4>5. DOMAIN jobs' = 1 .. Len(jobs')
        BY <4>0
      <4>2. CASE j <= Len(jobs)
        BY <2>2, <3>1, <3>2, <4>1, <4>2, <4>5
      <4>3. CASE j > Len(jobs)
        <5>1. j - Len(jobs) \in Problem /\ j = Len(jobs) + (j - Len(jobs))
          BY <3>2, <4>1, <4>3, <4>5, CountAssumption DEF Problem
        <5>2. jobs'[j] = Row(me)[j - Len(jobs)]
          BY <2>2, <3>1, <3>2, <4>1, <4>3, <4>5
        <5>. QED  BY <3>1, <5>1, <5>2
      <4>. QED  BY <3>2, <4>1, <4>2, <4>3
    <3>4. Base(me)' = Len(jobs)
      BY <2>2, <2>3, <2>5 DEF Table
    <3>5. present'[me] /\ me \in 1 .. me
      BY <2>2, <2>4, <2>8
    <3>6. ASSUME NEW j \in DOMAIN jobs'
          PROVE  \E u \in 1 .. me, p \in Problem :
                   present'[u] /\ jobs'[j] = <<u, p>> /\ j = Base(u)' + p
      BY <2>6, <3>3, <3>4, <3>5
    <3>. QED  BY <2>3, <3>6 DEF Lookup
  <2>. QED  BY <2>7, <2>8
<1>3. CASE RunJobs
  <2>1. Enlisted' = Enlisted
    <3>1. user \in 1 .. UsersCount + 1 /\ UsersCount \in Nat
      BY CountAssumption DEF Typed, Values
    <3>2. pc = "enlist" /\ pc' # "enlist" /\ user > UsersCount
      BY <1>3 DEF RunJobs
    <3>. QED  BY <3>1, <3>2 DEF Enlisted
  <2>. QED  BY <1>1, <1>3, <2>1 DEF RunJobs
<1>4. CASE StartJob \/ StartFails \/ StopFilling \/ Reap \/ WaitFails \/ WriteCell \/ EndRow \/ Finish
  <2>1. pc # "enlist" /\ pc' # "enlist"
    BY <1>4 DEF StartJob, StartFails, StopFilling, AfterFilling, Reap, WaitFails, WriteCell, EndRow, Finish
  <2>2. UNCHANGED <<jobs, present>>
    BY <1>4 DEF StartJob, StartFails, StopFilling, Reap, WaitFails, WriteCell, EndRow, Finish
  <2>. QED  BY <1>1, <2>1, <2>2 DEF Enlisted
<1>5. ASSUME NEW pid \in Pid, RunnerStep(pid) \/ RunnerDies(pid) \/ InheritedEnds(pid)
      PROVE  Lookup'
  <2>1. UNCHANGED <<jobs, present, pc, user>>
    BY <1>5 DEF RunnerStep, RunnerWrites, RunnerExits, RunnerDies, InheritedEnds
  <2>. QED  BY <1>1, <2>1 DEF Enlisted
<1>6. CASE UNCHANGED vars
  BY <1>1, <1>6 DEF vars, Enlisted
<1>. QED
  BY <1>2, <1>3, <1>4, <1>5, <1>6 DEF Next, JudgeStep, Halted

(* A score of the scoreboard is a number.                                  *)
LEMMA ScoresType == ASSUME Typed, NEW u PROVE Scores(u) \in [Problem -> Int]
<1>1. AbsentCell.score \in Nat /\ \A j : CellOf(j).score \in Nat
  BY CellType DEF AbsentCell, CellValue
<1>. QED  BY <1>1 DEF Scores, Expected

LEMMA SumsInit == Init => Sums
  BY DEF Init, Sums

LEMMA SumsStep ==
  ASSUME Typed, Table, Board, Sums, [Next]_vars
  PROVE  Sums'
<1>. USE DEF cursors, tables, queue, system, output
<1>1. ASSUME UNCHANGED <<pc, result, cursors, tables, totals>> PROVE Sums'
  <2>1. \A u : Base(u)' = Base(u)
    BY <1>1 DEF Base, Before
  <2>2. \A u, p : Expected(u, p)' = Expected(u, p)
    BY <1>1, <2>1 DEF Expected, CellOf
  <2>3. Scores(user)' = Scores(user)
    BY <1>1, <2>2 DEF Scores
  <2>. QED  BY <1>1, <2>3 DEF Sums
<1>2. CASE Enlist \/ RunJobs
  BY <1>2 DEF Enlist, RunJobs, Sums
<1>3. CASE StartJob \/ StartFails \/ StopFilling \/ Reap \/ WaitFails
  <2>1. /\ pc \in {"fill", "wait"} /\ pc' \in {"fill", "wait", "report"}
        /\ UNCHANGED <<cursors, totals>>
    BY <1>3 DEF StartJob, StartFails, StopFilling, AfterFilling, Reap, WaitFails
  <2>2. user = 1 /\ problem = 1 /\ totals = <<>> /\ total = 0
    BY <2>1 DEF Board, Sums
  <2>3. 1 .. user' - 1 = {} /\ 1 .. problem' - 1 = {}
    BY <2>1, <2>2
  <2>. QED  BY <2>1, <2>2, <2>3, SumEmpty DEF Sums
<1>4. CASE WriteCell
  <2>1. PICK me \in User, q \in Problem :
          /\ me = user /\ q = problem /\ user' = me /\ problem' = q + 1
          /\ pc = "report" /\ pc' = "report"
          /\ UNCHANGED <<result, tables, totals>>
          /\ total' = IF present[me] THEN total + CellOf(at + 1).score ELSE total
    <3>1. user \in User /\ problem \in Problem
      BY <1>4 DEF WriteCell, Typed, Values, User, Problem
    <3>. QED  BY <1>4, <3>1 DEF WriteCell
  <2>2. \A u : Base(u)' = Base(u)
    BY <2>1 DEF Base, Before
  <2>3. \A u, p : Expected(u, p)' = Expected(u, p)
    BY <2>1, <2>2 DEF Expected, CellOf
  <2>4. Scores(user)' = Scores(me) /\ Scores(user) = Scores(me)
    BY <2>1, <2>3 DEF Scores
  <2>5. at + 1 = Base(me) + q \/ ~present[me]
    <3>1. Base(user) = Base(me)
      BY <2>1 DEF Base, Before
    <3>2. me \in Nat \ {0} /\ q \in Nat \ {0} /\ present[me] \in BOOLEAN
      BY <2>1 DEF User, Problem, Typed, Values
    <3>3. Base(me) \in Nat
      BY <3>2, BaseNext
    <3>. QED  BY <2>1, <3>1, <3>2, <3>3 DEF Board
  <2>6. Scores(me)[q] = IF present[me] THEN CellOf(at + 1).score ELSE 0
    BY <2>5 DEF Scores, Expected, AbsentCell
  <2>7. IsFiniteSet(Problem) /\ Scores(me) \in [Problem -> Int]
    BY FS_Interval, CountAssumption, ScoresType DEF Problem
  <2>8. 1 .. q - 1 \in SUBSET Problem /\ q \in Problem \ (1 .. q - 1) /\ 1 .. q = (1 .. q - 1) \cup {q}
    BY <2>1, CountAssumption DEF Problem
  <2>9. SumOver(Scores(me), 1 .. q - 1) \in Int /\ SumOver(Scores(me), 1 .. q) = SumOver(Scores(me), 1 .. q - 1) + Scores(me)[q]
    <3>1. PICK f \in [Problem -> Int] : f = Scores(me)
      BY <2>7
    <3>2. SumOver(f, 1 .. q - 1) \in Int /\ SumOver(f, (1 .. q - 1) \cup {q}) = SumOver(f, 1 .. q - 1) + f[q]
      <4>. DEFINE T == 1 .. q - 1
      <4>1. T \in SUBSET Problem /\ q \in Problem \ T /\ IsFiniteSet(Problem)
        BY <2>7, <2>8
      <4>. HIDE DEF T
      <4>2. SumOver(f, T) \in Int /\ SumOver(f, T \cup {q}) = SumOver(f, T) + f[q]
        BY <4>1, SumAdd
      <4>. QED  BY <4>2 DEF T
    <3>. QED  BY <2>8, <3>1, <3>2
  <2>10. total = SumOver(Scores(me), 1 .. q - 1)
    BY <2>1, <2>4 DEF Sums
  <2>11. total' = SumOver(Scores(me), 1 .. q)
    BY <2>1, <2>6, <2>9, <2>10
  <2>12. 1 .. problem' - 1 = 1 .. q
    BY <2>1 DEF Problem
  <2>. QED  BY <2>1, <2>4, <2>11, <2>12 DEF Sums
<1>5. CASE EndRow
  <2>1. PICK me \in User :
          /\ me = user /\ user' = me + 1 /\ problem' = 1
          /\ pc = "report" /\ pc' = "report" /\ total' = 0
          /\ totals' = With(totals, me, total)
    <3>1. user \in User
      BY <1>5, CountAssumption DEF EndRow, Typed, Values, User
    <3>. QED  BY <1>5, <3>1 DEF EndRow, FreshTotal
  <2>2. 1 .. problem' - 1 = {} /\ 1 .. user' - 1 = (1 .. user - 1) \cup {me}
    BY <2>1 DEF User
  <2>3. DOMAIN totals' = 1 .. user' - 1
    BY <2>1, <2>2 DEF Sums, With
  <2>. QED  BY <2>1, <2>2, <2>3, SumEmpty DEF Sums
<1>6. CASE Finish
  <2>1. /\ pc = "report" /\ pc' = "done"
        /\ UNCHANGED <<result, cursors, tables, totals>>
    BY <1>6 DEF Finish
  <2>2. \A u : Base(u)' = Base(u)
    BY <2>1 DEF Base, Before
  <2>3. \A u, p : Expected(u, p)' = Expected(u, p)
    BY <2>1, <2>2 DEF Expected, CellOf
  <2>4. Scores(user)' = Scores(user)
    BY <2>1, <2>3 DEF Scores
  <2>. QED  BY <2>1, <2>4 DEF Sums
<1>7. ASSUME NEW pid \in Pid, RunnerStep(pid) \/ RunnerDies(pid) \/ InheritedEnds(pid)
      PROVE  Sums'
  BY <1>1, <1>7 DEF RunnerStep, RunnerWrites, RunnerExits, RunnerDies, InheritedEnds
<1>8. CASE UNCHANGED vars
  BY <1>1, <1>8 DEF vars
<1>. QED
  BY <1>2, <1>3, <1>4, <1>5, <1>6, <1>7, <1>8 DEF Next, JudgeStep, Halted

(* A job is found by the submission it is for.                             *)
LEMMA Places ==
  ASSUME Typed, Lookup
  PROVE  /\ DOMAIN jobs = 1 .. Len(jobs) /\ Len(jobs) \in Nat
         /\ \A i, j \in DOMAIN jobs : jobs[i] = jobs[j] => i = j
         /\ \A j \in DOMAIN jobs : jobs[j] \in Cell /\ present[jobs[j][1]]
<1>1. DOMAIN jobs = 1 .. Len(jobs) /\ Len(jobs) \in Nat /\ \A j \in DOMAIN jobs : jobs[j] \in Cell
  BY DEF Typed, Values
<1>2. ASSUME NEW i \in DOMAIN jobs, NEW j \in DOMAIN jobs, jobs[i] = jobs[j]
      PROVE  i = j
  <2>1. PICK u \in 1 .. Enlisted, p \in Problem : jobs[i] = <<u, p>> /\ i = Base(u) + p
    BY DEF Lookup
  <2>2. PICK v \in 1 .. Enlisted, q \in Problem : jobs[j] = <<v, q>> /\ j = Base(v) + q
    BY DEF Lookup
  <2>3. <<u, p>> = <<v, q>>
    BY <1>2, <2>1, <2>2
  <2>4. u = v /\ p = q
    BY <2>3
  <2>. QED  BY <2>1, <2>2, <2>4
<1>3. \A j \in DOMAIN jobs : present[jobs[j][1]]
  BY DEF Lookup
<1>. QED  BY <1>1, <1>2, <1>3

LEMMA ResultsAreJobs ==
  ASSUME Typed, SlotsAgree
  PROVE  DOMAIN result \subseteq DOMAIN jobs /\ InSlots \subseteq DOMAIN jobs
<1>1. next \in Nat /\ Len(jobs) \in Nat /\ next <= Len(jobs)
  BY Counters
<1>2. DOMAIN jobs = 1 .. Len(jobs)
  BY DEF Typed, Values
<1>3. InSlots \cup DOMAIN result = 1 .. next
  BY DEF SlotsAgree, CountersAgree
<1>. QED  BY <1>1, <1>2, <1>3

(* What the judge has of a submission is the result of its job.            *)
LEMMA FoundAgain ==
  ASSUME Typed, SlotsAgree, Lookup, NEW j \in DOMAIN jobs
  PROVE  /\ jobs[j] \in Collects <=> j \in DOMAIN result
         /\ j \in DOMAIN result => IndexOf(jobs[j]) = j
<1>1. \A i \in DOMAIN result : jobs[i] = jobs[j] => i = j
  BY Places, ResultsAreJobs
<1>. QED  BY <1>1 DEF Collects, IndexOf

(* The two modules make the same cell of the same marks.                   *)
LEMMA SameCells ==
  /\ Promise!LostCell = LostCell /\ Promise!AbsentCell = AbsentCell
  /\ Promise!User = User /\ Promise!Problem = Problem /\ Promise!Cell = Cell
BY DEF Promise!LostCell, LostCell, Promise!AbsentCell, AbsentCell,
       Promise!User, User, Promise!Problem, Problem, Promise!Cell, Cell,
       Promise!NotBuilt, NotBuilt, Promise!Nul, Nul

LEMMA SameMarkedCell == ASSUME NEW p, NEW m PROVE Promise!MarkedCell(p, m) = MarkedCell(p, m)
<1>1. Promise!Summarise(m) = Summarise(m)
  BY DEF Promise!Summarise, Summarise, Promise!NotBuilt, NotBuilt
<1>2. Promise!Passed(m) = Passed(m)
  BY DEF Promise!Passed, Passed, Promise!Cardinality, Cardinality
<1>3. Promise!Score(Points[p], Passed(m), Tests[p]) = Score(Points[p], Passed(m), Tests[p])
  BY DEF Promise!Score, Score
<1>. QED  BY <1>1, <1>2, <1>3 DEF Promise!MarkedCell, MarkedCell

LEMMA SameWith == \A f, x, v : Promise!With(f, x, v) = With(f, x, v)
BY DEF Promise!With, With

(* The judge begins as the promise does, and moves as it does or shows     *)
(* nothing.                                                                *)
LEMMA MapInit == Init => Promise!Init
<1>. SUFFICES ASSUME Init PROVE Promise!Init
  OBVIOUS
<1>1. LookedAt = {}
  BY DEF Init, LookedAt, User
<1>2. Collects = {}
  BY DEF Init, Collects
<1>. QED  BY <1>1, <1>2 DEF Init, Promise!Init

LEMMA MapStutter ==
  ASSUME UNCHANGED <<present, jobs, result, failed, board, totals>>, LookedAt' = LookedAt
  PROVE  UNCHANGED Promise!vars
<1>1. [u \in LookedAt |-> present[u]]' = [u \in LookedAt |-> present[u]]
  OBVIOUS
<1>2. [c \in Collects |-> result[IndexOf(c)]]' = [c \in Collects |-> result[IndexOf(c)]]
  BY DEF Collects, IndexOf
<1>. QED  BY <1>1, <1>2 DEF Promise!vars

(* Everybody has been looked at when the jobs begin.                       *)
LEMMA AllLookedAt ==
  ASSUME pc # "enlist"
  PROVE  LookedAt = User /\ Promise!Enlisted /\ Promise!Submitted = {c \in Cell : present[c[1]]}
<1>1. LookedAt = User
  BY DEF LookedAt
<1>2. \A c \in Cell : c[1] \in User
  BY DEF Cell
<1>. QED  BY <1>1, <1>2, SameCells DEF Promise!Enlisted, Promise!Submitted

(* A run that has failed starts nothing more.                              *)
Unfailed == pc \in {"enlist", "fill"} => ~failed

LEMMA UnfailedInit == Init => Unfailed
  BY DEF Init, Unfailed

LEMMA UnfailedStep == ASSUME Typed, Unfailed, [Next]_vars PROVE Unfailed'
<1>. USE DEF cursors, tables, queue, system, output
<1>1. ASSUME NEW pid \in Pid, RunnerStep(pid) \/ RunnerDies(pid) \/ InheritedEnds(pid)
      PROVE  Unfailed'
  BY <1>1 DEF RunnerStep, RunnerWrites, RunnerExits, RunnerDies, InheritedEnds, Unfailed
<1>2. CASE JudgeStep
  BY <1>2 DEF JudgeStep, Enlist, RunJobs, StartJob, StartFails, StopFilling, AfterFilling, Reap,
              WaitFails, WriteCell, EndRow, Finish, Unfailed
<1>3. CASE UNCHANGED vars
  BY <1>3 DEF vars, Unfailed
<1>. QED  BY <1>1, <1>2, <1>3 DEF Next, Halted

LEMMA MapEnlist ==
  ASSUME Typed, SlotsAgree, Enlist
  PROVE  Promise!Next
<1>. USE DEF cursors, tables, queue, system, output
<1>1. user \in User /\ pc = "enlist" /\ pc' = "enlist"
  BY DEF Enlist, Typed, Values, User
<1>2. PICK me \in User, here \in BOOLEAN :
        me = user /\ user' = me + 1 /\ present' = [present EXCEPT ![me] = here]
  BY <1>1 DEF Enlist
<1>3. LookedAt = 1 .. me - 1 /\ LookedAt' = 1 .. me
  BY <1>1, <1>2, CountAssumption DEF LookedAt, User
<1>4. me \in Nat \ {0} /\ 1 .. me = (1 .. me - 1) \cup {me} /\ me \notin 1 .. me - 1
  BY <1>2 DEF User
<1>5. present'[me] = here /\ \A v \in 1 .. me - 1 : present'[v] = present[v]
  BY <1>2, <1>4 DEF Typed, Values
<1>6. [u \in LookedAt |-> present[u]]' = With([u \in LookedAt |-> present[u]], me, here)
  BY <1>3, <1>4, <1>5 DEF With
<1>7. Collects = {} /\ Collects' = {}
  <2>1. InSlots \cup DOMAIN result = 1 .. 0
    BY <1>1 DEF SlotsAgree, CountersAgree, Typed, Indices
  <2>2. DOMAIN result = {}
    <3>1. 1 .. 0 = {}
      OBVIOUS
    <3>. QED  BY <2>1, <3>1
  <2>3. DOMAIN result' = {}
    BY <2>2 DEF Enlist
  <2>. QED  BY <2>2, <2>3 DEF Collects
<1>8. [c \in Collects |-> result[IndexOf(c)]]' = [c \in Collects |-> result[IndexOf(c)]]
  BY <1>7
<1>9. Promise!Enlist(me)
  BY <1>2, <1>3, <1>6, <1>8, SameWith DEF Enlist, Promise!Enlist
<1>. QED  BY <1>2, <1>9, SameCells DEF Promise!Next, Promise!Progress

LEMMA MapReap ==
  ASSUME Typed, SlotsAgree, Pipes, Board, Lookup, Sums, Reap, OwnMarks', Values'
  PROVE  [Promise!Next]_(Promise!vars)
<1>. USE DEF cursors, tables, queue, system, output
<1>1. /\ pc = "wait" /\ pc' # "enlist"
      /\ UNCHANGED <<present, jobs, failed, board, totals>>
  BY DEF Reap, MoreToDo
<1>2. LookedAt' = LookedAt
  BY <1>1 DEF LookedAt
<1>3. PICK pid \in Pid :
        \/ UNCHANGED result
        \/ \E s \in Slot : Collecting(pid, s)
  BY ReapCases
<1>4. CASE UNCHANGED result
  BY <1>1, <1>2, <1>4, MapStutter
<1>5. ASSUME NEW s \in Slot, Collecting(pid, s) PROVE Promise!Next
  <2>1. PICK j \in DOMAIN jobs :
          /\ j \notin DOMAIN result
          /\ result' = With(result, j, Collected(pipe[j]))
    <3>1. slots[s].job \in InSlots
      BY <1>5 DEF Collecting, InSlots
    <3>2. slots[s].job \in DOMAIN jobs /\ slots[s].job \notin DOMAIN result
      BY <3>1, ResultsAreJobs DEF SlotsAgree, CountersAgree
    <3>. QED  BY <1>5, <3>2 DEF Collecting
  <2>2. PICK c \in Cell : c = jobs[j]
    BY <2>1, Places
  <2>3. present[c[1]] /\ c \notin Collects
    BY <2>1, <2>2, Places, FoundAgain
  <2>. DEFINE marks == result'[j]
  <2>4. DOMAIN result' = DOMAIN result \cup {j}
    BY <2>1 DEF With
  <2>5. marks \in Seq(Mark) /\ IsPrefix(marks, VerdictOf(j)) /\ ("runner" \in Faults \/ marks = VerdictOf(j))
    <3>1. VerdictOf(j)' = VerdictOf(j)
      BY <1>1 DEF VerdictOf
    <3>. QED  BY <2>4, <3>1 DEF OwnMarks, Values
  <2>6. VerdictOf(j) = Verdict[c[1]][c[2]] /\ VerdictOf(j) \in Seq(Mark)
    <3>1. j \in JobId /\ j <= Len(jobs)
      BY CountAssumption, Places DEF JobId, Typed, Indices
    <3>. QED  BY <2>2, <3>1, WrittenType DEF VerdictOf
  <2>7. PICK n \in 0 .. Len(Verdict[c[1]][c[2]]) :
          /\ marks = SubSeq(Verdict[c[1]][c[2]], 1, n)
          /\ "runner" \in Faults \/ n = Len(Verdict[c[1]][c[2]])
    <3>1. marks = SubSeq(marks, 1, Len(marks)) /\ Len(marks) \in Nat
      BY <2>5
    <3>2. Len(marks) <= Len(VerdictOf(j)) /\ marks = SubSeq(VerdictOf(j), 1, Len(marks))
      BY <2>5, <3>1 DEF IsPrefix
    <3>3. Len(marks) \in 0 .. Len(VerdictOf(j))
      BY <2>6, <3>1, <3>2
    <3>. HIDE DEF marks
    <3>. QED  BY <2>5, <2>6, <3>2, <3>3
  <2>8. Collects' = Collects \cup {c}
    BY <1>1, <2>2, <2>4 DEF Collects
  <2>9. \A i \in DOMAIN result' : \A d : jobs[i] = d => IndexOf(d)' = i
    <3>1. DOMAIN result' \subseteq DOMAIN jobs
      BY <2>1, <2>4, ResultsAreJobs
    <3>2. \A i, k \in DOMAIN result' : jobs'[i] = jobs'[k] => i = k
      BY <1>1, <3>1, Places
    <3>. QED  BY <1>1, <3>2 DEF IndexOf
  <2>10. \A i \in DOMAIN result : IndexOf(jobs[i]) = i /\ jobs[i] # c
    BY <2>1, <2>2, ResultsAreJobs, FoundAgain
  <2>11. [d \in Collects |-> result[IndexOf(d)]]' = With([d \in Collects |-> result[IndexOf(d)]], c, marks)
    <3>1. \A d \in Collects : result'[IndexOf(d)'] = result[IndexOf(d)] /\ d # c
      <4>. SUFFICES ASSUME NEW d \in Collects
                    PROVE  result'[IndexOf(d)'] = result[IndexOf(d)] /\ d # c
        OBVIOUS
      <4>1. PICK i \in DOMAIN result : jobs[i] = d
        BY DEF Collects
      <4>. QED  BY <2>1, <2>4, <2>9, <2>10, <4>1 DEF With
    <3>2. IndexOf(c)' = j
      BY <1>1, <2>2, <2>4, <2>9
    <3>. QED  BY <2>8, <3>1, <3>2 DEF With
  <2>12. Promise!Unwritten
    BY <1>1 DEF Promise!Unwritten, Board, Sums
  <2>13. [u \in LookedAt |-> present[u]]' = [u \in LookedAt |-> present[u]]
    BY <1>1, <1>2
  <2>14. c \in Promise!Submitted
    BY <1>1, <2>3, AllLookedAt
  <2>. HIDE DEF marks
  <2>15. Promise!Mark1(c)
    BY <1>1, <2>3, <2>7, <2>11, <2>12, <2>13, <2>14, SameWith DEF Promise!Mark1
  <2>. QED  BY <2>15, SameCells DEF Promise!Next, Promise!Progress
<1>. QED  BY <1>3, <1>4, <1>5

(* A fault of the judge's own: there is something to mark when it strikes. *)
LEMMA MapFail ==
  ASSUME Typed, Lookup, Board, Sums, pc \in {"fill", "wait"}, pc' # "enlist", DOMAIN jobs # {},
         Faults \cap {"start", "wait"} # {}, ~failed, failed',
         UNCHANGED <<present, jobs, result, board, totals>>
  PROVE  Promise!Next
<1>1. LookedAt' = LookedAt
  BY DEF LookedAt
<1>2. [u \in LookedAt |-> present[u]]' = [u \in LookedAt |-> present[u]]
  BY <1>1
<1>3. [c \in Collects |-> result[IndexOf(c)]]' = [c \in Collects |-> result[IndexOf(c)]]
  BY DEF Collects, IndexOf
<1>4. Promise!Submitted # {} /\ Promise!Enlisted
  BY Places, AllLookedAt
<1>5. Promise!Unwritten
  BY DEF Promise!Unwritten, Board, Sums
<1>6. failed' = TRUE
  BY DEF Typed, Values
<1>. QED  BY <1>2, <1>3, <1>4, <1>5, <1>6 DEF Promise!Fail, Promise!Next

LEMMA MapStartFails ==
  ASSUME Typed, Lookup, Board, Sums, Unfailed, StartFails, Values'
  PROVE  Promise!Next
<1>. USE DEF cursors, tables, queue, system, output
<1>1. Len(jobs) \in Nat \ {0}
  <2>1. next \in Nat /\ next < Len(jobs) /\ Len(jobs) \in Nat
    BY DEF StartFails, FillMore, Typed, Values
  <2>. QED  BY <2>1
<1>2. DOMAIN jobs # {}
  BY <1>1, Places
<1>3. pc = "fill" /\ pc' # "enlist" /\ ~failed
  BY DEF StartFails, AfterFilling, Unfailed
<1>. QED  BY <1>2, <1>3, MapFail DEF StartFails

LEMMA MapWaitFails ==
  ASSUME Typed, SlotsAgree, Pool, Lookup, Board, Sums, WaitFails
  PROVE  [Promise!Next]_(Promise!vars)
<1>. USE DEF cursors, tables, queue, system, output
<1>1. pc = "wait" /\ pc' = "report" /\ failed' = TRUE /\ UNCHANGED <<present, jobs, result, board, totals>>
  BY DEF WaitFails
<1>2. LookedAt' = LookedAt
  BY <1>1 DEF LookedAt
<1>3. PICK s \in Occupied : TRUE
  BY <1>1, Counters DEF Pool
<1>4. slots[s].job # NoJob
  BY <1>3 DEF Occupied
<1>5. DOMAIN jobs # {}
  <2>1. slots[s].job \in InSlots
    BY <1>3 DEF InSlots
  <2>. QED  BY <2>1, ResultsAreJobs
<1>6. \E pid \in Pid : proc[pid] # Free
  <2>1. slots[s].pid \in Pid /\ proc[slots[s].pid].job = slots[s].job
    BY <1>3 DEF SlotsAgree, SlotsHoldChildren
  <2>. QED  BY <1>4, <2>1 DEF Free
<1>7. Faults \cap {"start", "wait"} # {}
  BY <1>6 DEF WaitFails
<1>8. CASE failed
  <2>1. failed = TRUE
    BY <1>8 DEF Typed, Values
  <2>. QED  BY <1>1, <1>2, <2>1, MapStutter
<1>9. CASE ~failed
  BY <1>1, <1>5, <1>7, <1>9, MapFail
<1>. QED  BY <1>8, <1>9

(* When the scoreboard is written, everything is marked or the run failed. *)
LEMMA AllSettled ==
  ASSUME Typed, SlotsAgree, Pool, Table, Lookup, pc = "report"
  PROVE  Promise!Settled
<1>1. Promise!Enlisted /\ Promise!Submitted = {c \in Cell : present[c[1]]}
  BY AllLookedAt
<1>2. ASSUME ~failed, NEW c \in Cell, present[c[1]] PROVE c \in Collects
  <2>1. DOMAIN result = DOMAIN jobs
    BY <1>2, CleanlyOut DEF CleanExit
  <2>2. PICK u \in User, p \in Problem : c = <<u, p>>
    BY DEF Cell
  <2>3. Base(u) + p \in DOMAIN jobs /\ jobs[Base(u) + p] = c
    BY <1>2, <2>2 DEF Table, Enlisted, User
  <2>. QED  BY <2>1, <2>3 DEF Collects
<1>. QED  BY <1>1, <1>2 DEF Promise!Settled

LEMMA MapWriteCell ==
  ASSUME Typed, SlotsAgree, Pool, Table, Board, Lookup, Sums, WriteCell
  PROVE  Promise!Next
<1>. USE DEF cursors, tables, queue, system, output
<1>1. PICK me \in User, q \in Problem :
        /\ me = user /\ q = problem
        /\ pc = "report" /\ pc' = "report"
        /\ UNCHANGED <<result, tables, failed, totals>>
        /\ board' = With(board, <<me, q>>, IF present[me] THEN CellOf(at + 1) ELSE AbsentCell)
  <2>1. user \in User /\ problem \in Problem
    BY DEF WriteCell, Typed, Values, User, Problem
  <2>. QED  BY <2>1 DEF WriteCell
<1>2. LookedAt' = LookedAt /\ LookedAt = User
  BY <1>1 DEF LookedAt
<1>3. [u \in LookedAt |-> present[u]]' = [u \in LookedAt |-> present[u]]
  BY <1>1, <1>2
<1>4. [c \in Collects |-> result[IndexOf(c)]]' = [c \in Collects |-> result[IndexOf(c)]]
  BY <1>1 DEF Collects, IndexOf
<1>5. DOMAIN totals = 1 .. me - 1
  BY <1>1 DEF Sums
<1>6. DOMAIN board \cap Promise!RowOf(me) = {me} \X (1 .. q - 1)
  <2>1. DOMAIN board = {c \in Cell : c[1] < me \/ (c[1] = me /\ c[2] < q)}
    BY <1>1 DEF Board
  <2>2. \A c \in Cell : c[1] \in Nat /\ c[2] \in Nat \ {0} /\ c = <<c[1], c[2]>>
    BY DEF Cell, User, Problem
  <2>3. me \in Nat /\ q \in 1 .. ProblemsCount /\ Problem = 1 .. ProblemsCount
    BY <1>1 DEF User, Problem
  <2>4. \A p \in Problem : <<me, p>> \in Cell
    BY <1>1 DEF Cell
  <2>5. Promise!RowOf(me) = {me} \X Problem
    BY SameCells DEF Promise!RowOf
  <2>6. \A p : <<me, p>> \in DOMAIN board /\ p \in Problem <=> p \in 1 .. q - 1
    BY <2>1, <2>2, <2>3, <2>4, CountAssumption
  <2>. QED  BY <2>5, <2>6
<1>7. Promise!CellOf(<<me, q>>) = IF present[me] THEN CellOf(at + 1) ELSE AbsentCell
  <2>1. CASE ~present[me]
    BY <1>1, <1>2, <2>1, SameCells DEF Promise!CellOf
  <2>2. CASE present[me]
    <3>. DEFINE j == Base(me) + q
    <3>1. Base(user) = Base(me)
      BY <1>1 DEF Base, Before
    <3>2. me \in Nat \ {0} /\ q \in Nat \ {0} /\ present[me] \in BOOLEAN
      BY <1>1 DEF User, Problem, Typed, Values
    <3>3. at + 1 = j
      <4>1. Base(me) \in Nat
        BY <3>2, BaseNext
      <4>2. at = Base(me) + (q - 1)
        BY <1>1, <2>2, <3>1 DEF Board
      <4>. QED  BY <3>2, <4>1, <4>2
    <3>4. j \in DOMAIN jobs /\ jobs[j] = <<me, q>>
      BY <1>1, <2>2 DEF Table, Enlisted, User
    <3>. HIDE DEF j
    <3>5. /\ <<me, q>> \in Collects <=> j \in DOMAIN result
          /\ j \in DOMAIN result => IndexOf(<<me, q>>) = j
      BY <3>4, FoundAgain
    <3>6. CASE j \in DOMAIN result
      <4>1. Promise!CellOf(<<me, q>>) = MarkedCell(q, result[j])
        BY <1>2, <2>2, <3>5, <3>6, SameMarkedCell DEF Promise!CellOf
      <4>. QED  BY <2>2, <3>3, <3>4, <3>6, <4>1 DEF CellOf
    <3>7. CASE j \notin DOMAIN result
      BY <1>2, <2>2, <3>3, <3>5, <3>7, SameCells DEF CellOf, Promise!CellOf
    <3>. QED  BY <3>6, <3>7
  <2>. QED  BY <2>1, <2>2
<1>8. Promise!Settled
  BY <1>1, AllSettled
<1>9. Promise!Write(<<me, q>>)
  BY <1>1, <1>3, <1>4, <1>5, <1>6, <1>7, <1>8, SameWith DEF Promise!Write
<1>10. <<me, q>> \in Promise!Cell
  BY <1>1, SameCells DEF Cell
<1>. QED  BY <1>9, <1>10 DEF Promise!Next, Promise!Progress

(* The sum of a row as module Marking has it is the sum of its scores.     *)
LEMMA SameTotal ==
  ASSUME NEW u, NEW f \in [Problem -> Int], \A p \in Problem : board[<<u, p>>].score = f[p]
  PROVE  Promise!RowTotal(u) = SumOver(f, Problem)
<1>. DEFINE IsTotal(g) ==
       g = [s \in SUBSET Problem |->
              IF s = {} THEN 0 ELSE board[<<u, CHOOSE x \in s : TRUE>>].score + g[s \ {CHOOSE x \in s : TRUE}]]
<1>1. IsFiniteSet(Problem)
  BY FS_Interval, CountAssumption DEF Problem
<1>2. ASSUME NEW s \in SUBSET Problem, s # {} PROVE board[<<u, CHOOSE x \in s : TRUE>>].score = f[Pick(s)]
  BY <1>2, PickOne DEF Pick
<1>3. ASSUME NEW g PROVE IsSum(g, f, Problem) <=> IsTotal(g)
  <2>1. \A s \in SUBSET Problem :
          (IF s = {} THEN 0 ELSE f[Pick(s)] + g[s \ {Pick(s)}])
          = (IF s = {} THEN 0 ELSE board[<<u, CHOOSE x \in s : TRUE>>].score + g[s \ {CHOOSE x \in s : TRUE}])
    BY <1>2 DEF Pick
  <2>2. [s \in SUBSET Problem |-> IF s = {} THEN 0 ELSE f[Pick(s)] + g[s \ {Pick(s)}]]
        = [s \in SUBSET Problem |->
             IF s = {} THEN 0 ELSE board[<<u, CHOOSE x \in s : TRUE>>].score + g[s \ {CHOOSE x \in s : TRUE}]]
    BY <2>1, Zenon
  <2>. QED  BY <2>2 DEF IsSum
<1>4. PICK g : IsSum(g, f, Problem)
  BY <1>1, SumExists
<1>5. \E h : IsTotal(h)
  <2>. HIDE DEF IsTotal
  <2>. QED  BY <1>3, <1>4
<1>6. Promise!RowTotal(u) = (CHOOSE h : IsTotal(h))[Problem]
  BY DEF Promise!RowTotal, Promise!MapThenSumSet, Promise!MapThenFoldSet, Promise!Problem, Problem
<1>7. PICK h : IsSum(h, f, Problem) /\ Promise!RowTotal(u) = h[Problem]
  <2>. HIDE DEF IsTotal
  <2>. QED  BY <1>3, <1>5, <1>6
<1>. QED  BY <1>1, <1>7, SumIs

LEMMA MapEndRow ==
  ASSUME Typed, SlotsAgree, Pool, Table, Board, Lookup, Sums, EndRow
  PROVE  Promise!Next
<1>. USE DEF cursors, tables, queue, system, output
<1>1. PICK me \in User :
        /\ me = user /\ problem = ProblemsCount + 1
        /\ pc = "report" /\ pc' = "report"
        /\ UNCHANGED <<result, tables, failed, board>>
        /\ totals' = With(totals, me, total)
  <2>1. user \in User /\ problem = ProblemsCount + 1
    BY CountAssumption DEF EndRow, Typed, Values, User
  <2>. QED  BY <2>1 DEF EndRow
<1>2. LookedAt' = LookedAt
  BY <1>1 DEF LookedAt
<1>3. [u \in LookedAt |-> present[u]]' = [u \in LookedAt |-> present[u]]
  BY <1>1, <1>2
<1>4. [c \in Collects |-> result[IndexOf(c)]]' = [c \in Collects |-> result[IndexOf(c)]]
  BY <1>1 DEF Collects, IndexOf
<1>5. DOMAIN totals = 1 .. me - 1
  BY <1>1 DEF Sums
<1>6. \A p \in Problem : <<me, p>> \in DOMAIN board /\ board[<<me, p>>] = Expected(me, p)
  <2>1. \A p \in Problem : <<me, p>> \in Cell /\ p < ProblemsCount + 1
    BY <1>1, CountAssumption DEF Cell, Problem
  <2>2. DOMAIN board = {c \in Cell : c[1] < me \/ (c[1] = me /\ c[2] < ProblemsCount + 1)}
    BY <1>1 DEF Board
  <2>. QED  BY <1>1, <2>1, <2>2 DEF Board
<1>7. Promise!RowOf(me) \subseteq DOMAIN board
  BY <1>6, SameCells DEF Promise!RowOf
<1>8. total = Promise!RowTotal(me)
  <2>1. PICK f \in [Problem -> Int] : f = Scores(me)
    BY ScoresType
  <2>2. \A p \in Problem : board[<<me, p>>].score = f[p]
    BY <1>6, <2>1 DEF Scores
  <2>3. Promise!RowTotal(me) = SumOver(f, Problem)
    BY <2>2, SameTotal
  <2>4. Scores(user) = Scores(me) /\ 1 .. problem - 1 = Problem
    BY <1>1, CountAssumption DEF Problem
  <2>5. total = SumOver(Scores(me), Problem)
    BY <1>1, <2>4 DEF Sums
  <2>. QED  BY <2>1, <2>3, <2>5
<1>9. Promise!Settled
  BY <1>1, AllSettled
<1>10. Promise!CloseRow(me)
  BY <1>1, <1>3, <1>4, <1>5, <1>7, <1>8, <1>9, SameWith DEF Promise!CloseRow
<1>. QED  BY <1>1, <1>10, SameCells DEF Promise!Next, Promise!Progress

Known ==
  /\ Typed /\ SlotsAgree /\ Pool /\ Pipes
  /\ Table /\ Board /\ Lookup /\ Sums /\ Unfailed

LEMMA KnownHolds == Spec => []Known
<1>1. Init => Known
  BY TypedInit, SlotsInit, PoolInit, PipesInit, TableInit, BoardInit, LookupInit, SumsInit, UnfailedInit
     DEF Known
<1>2. Known /\ [Next]_vars => Known'
  BY TypedStep, SlotsStep, PoolStep, PipesStep, TableStep, BoardStep, LookupStep, SumsStep, UnfailedStep
     DEF Known
<1>. QED  BY <1>1, <1>2, PTL DEF Spec

(* Every step of the judge is one of module Marking, or shows nothing.     *)
LEMMA MapStep ==
  ASSUME Known, Known', [Next]_vars
  PROVE  [Promise!Next]_(Promise!vars)
<1>. USE DEF cursors, tables, queue, system, output
<1>1. CASE Enlist
  BY <1>1, MapEnlist DEF Known
<1>2. CASE RunJobs
  <2>1. LookedAt' = LookedAt
    <3>1. pc = "enlist" /\ pc' = "fill" /\ user \in 1 .. UsersCount + 1 /\ user > UsersCount
      BY <1>2 DEF RunJobs, Known, Typed, Values
    <3>2. \A u \in User : u < user
      BY <3>1, CountAssumption DEF User
    <3>. QED  BY <3>1, <3>2 DEF LookedAt
  <2>. QED  BY <1>2, <2>1, MapStutter DEF RunJobs
<1>3. CASE StartFails
  BY <1>3, MapStartFails DEF Known, Typed
<1>4. CASE Reap
  BY <1>4, MapReap DEF Known, Typed, Pipes
<1>5. CASE WaitFails
  BY <1>5, MapWaitFails DEF Known
<1>6. CASE WriteCell
  BY <1>6, MapWriteCell DEF Known
<1>7. CASE EndRow
  BY <1>7, MapEndRow DEF Known
<1>8. CASE StartJob \/ StopFilling \/ Finish
  <2>1. /\ pc # "enlist" /\ pc' # "enlist"
        /\ UNCHANGED <<present, jobs, result, failed, board, totals>>
    BY <1>8 DEF StartJob, StopFilling, AfterFilling, Finish
  <2>2. LookedAt' = LookedAt
    BY <2>1 DEF LookedAt
  <2>. QED  BY <2>1, <2>2, MapStutter
<1>9. ASSUME UNCHANGED <<pc, failed, result, cursors, tables, output>>
      PROVE  [Promise!Next]_(Promise!vars)
  <2>1. LookedAt' = LookedAt
    BY <1>9 DEF LookedAt
  <2>. QED  BY <1>9, <2>1, MapStutter
<1>10. ASSUME NEW pid \in Pid, RunnerStep(pid) \/ RunnerDies(pid) \/ InheritedEnds(pid)
       PROVE  [Promise!Next]_(Promise!vars)
  BY <1>9, <1>10 DEF RunnerStep, RunnerWrites, RunnerExits, RunnerDies, InheritedEnds
<1>11. CASE UNCHANGED vars
  BY <1>9, <1>11 DEF vars
<1>. QED
  BY <1>1, <1>2, <1>3, <1>4, <1>5, <1>6, <1>7, <1>8, <1>10, <1>11 DEF Next, JudgeStep, Halted

(* The judge marks as module Marking has it, in every run: what shows of a *)
(* run of run_jobs and of main's last loop is a run of the promise.        *)
THEOREM JudgeMarks == Spec => Promise!Safety
<1>1. Init => Promise!Init
  BY MapInit
<1>2. Known /\ Known' /\ [Next]_vars => [Promise!Next]_(Promise!vars)
  BY MapStep
<1>. QED  BY KnownHolds, <1>1, <1>2, PTL DEF Spec, Promise!Safety
=============================================================================
