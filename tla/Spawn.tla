------------------------------- MODULE Spawn --------------------------------
(***************************************************************************)
(* spawn of test.c, called over and over by one runner: a command of the   *)
(* runner's own without a limit (seconds = 0: compile, checker), or the    *)
(* submission with one.  The child has its processor time limited by the   *)
(* system (RLIMIT_CPU) and its wall time by an alarm of the runner, whose  *)
(* handler may run between any two steps of spawn.                         *)
(*                                                                         *)
(* Time goes in seconds.  In each of them the child does or does not get   *)
(* the processor, as the load of the machine has it.                       *)
(***************************************************************************)
EXTENDS Integers

CONSTANTS
  Limits,       \* the seconds spawn may be called with, 0 for none
  Need,         \* the seconds of processor a child may need to end by itself
  MaxCalls      \* bound: how often spawn is called

Blocks == -1    \* needs something that never comes, and no processor
NoPid  == 0     \* the child of call n has the pid n
Off    == 0

ASSUME SpawnAssumption ==
  /\ Limits \subseteq Nat
  /\ Need \subseteq Nat
  /\ MaxCalls \in Nat

VARIABLES
  pc,        \* "idle", or in spawn: "forked", "waiting", "reaped", "disarmed"
  calls,     \* how often spawn has forked a child, which is the child's pid
  seconds,   \* the limit of this call
  child, killed,     \* what the handler reads and what it sets
  timer,     \* the seconds until the alarm rings, Off while it is not set
  pending,   \* the alarm has rung and the handler has not run yet
  task,      \* the child: what it needs, its exit status and if it minds SIGXCPU
  life,      \* the child: "none", "running", "exited", "signalled"
  cpu,       \* the seconds of processor the child has had
  waited,    \* the seconds since this call armed its alarm (history)
  returned   \* what the last call returned, -2 before the first

runner  == <<pc, calls, seconds>>
signals == <<child, killed, timer, pending>>
process == <<task, life, cpu>>
vars    == <<runner, signals, process, waited, returned>>

Task == [need : Need \cup {Blocks}, status : {0, 1}, heeds : BOOLEAN]

WallLimit(s) == 2 * s + 2

Init ==
  /\ pc = "idle" /\ calls = 0 /\ seconds = 0
  /\ child = NoPid /\ killed = FALSE /\ timer = Off /\ pending = FALSE
  /\ task = [need |-> Blocks, status |-> 0, heeds |-> TRUE]
  /\ life = "none" /\ cpu = 0
  /\ waited = 0 /\ returned = -2

----------------------------------------------------------------------------
(* spawn.  The handler comes before the next step of the runner once the   *)
(* alarm has rung: a step is only taken with no signal pending.            *)

(* fork succeeds: the child limits itself and executes the command, which  *)
(* fails for the 126 and 127 of a directory or program that is not there.  *)
Fork ==
  /\ pc = "idle" /\ calls < MaxCalls /\ ~pending
  /\ \E s \in Limits, t \in Task :
       /\ seconds' = s
       /\ task' = t
  /\ life' = "running" /\ cpu' = 0
  /\ calls' = calls + 1
  /\ pc' = "forked"
  /\ waited' = 0
  /\ UNCHANGED <<signals, returned>>

(* No child: the caller takes the -1 for a refusal like any other. *)
ForkFails ==
  /\ pc = "idle" /\ calls < MaxCalls /\ ~pending
  /\ returned' = -1
  /\ UNCHANGED <<runner, signals, process, waited>>

ArmedAlways(s, t) == WallLimit(s)
NeverArmed(s, t)  == t
Armed(s, t)       == IF s > 0 THEN WallLimit(s) ELSE t

KeptFlag(flag) == flag
Cleared(flag)  == FALSE

(* The runner, back from fork, notes its child and sets the alarm. *)
Arm ==
  /\ pc = "forked" /\ ~pending
  /\ child' = calls
  /\ killed' = Cleared(killed)
  /\ timer' = Armed(seconds, timer)
  /\ pc' = "waiting"
  /\ UNCHANGED <<calls, seconds, pending, process, waited, returned>>

(* waitpid: it goes on after a signal (SA_RESTART) until the child is gone. *)
Wait ==
  /\ pc = "waiting" /\ ~pending
  /\ life \in {"exited", "signalled"}
  /\ pc' = "reaped"
  /\ UNCHANGED <<calls, seconds, signals, process, waited, returned>>

LeftRunning(t) == t
Disarmed(t)    == Off

Disarm ==
  /\ pc = "reaped" /\ ~pending
  /\ timer' = Disarmed(timer)
  /\ pc' = "disarmed"
  /\ UNCHANGED <<calls, seconds, child, killed, pending, process, waited, returned>>

StatusOnly(dead) == IF life = "signalled" \/ task.status = 0 THEN 0 ELSE 1
Outcome(dead)    == IF dead \/ life = "signalled" \/ task.status # 0 THEN 1 ELSE 0

Return ==
  /\ pc = "disarmed" /\ ~pending
  /\ child' = NoPid
  /\ returned' = Outcome(killed)
  /\ pc' = "idle"
  /\ UNCHANGED <<calls, seconds, killed, timer, pending, process, waited>>

----------------------------------------------------------------------------
(* handler *)

(* SIGALRM: the child is killed, which does nothing to one that has ended. *)
Handler ==
  /\ pending
  /\ pending' = FALSE
  /\ IF child # NoPid
     THEN /\ killed' = TRUE
          /\ life' = IF child = calls /\ life = "running" THEN "signalled" ELSE life
     ELSE UNCHANGED <<killed, life>>
  /\ UNCHANGED <<runner, child, timer, task, cpu, waited, returned>>

----------------------------------------------------------------------------
(* The child and the clock *)

(* The child has had all the processor it needs and exits. *)
ChildExits ==
  /\ life = "running" /\ cpu = task.need
  /\ life' = "exited"
  /\ UNCHANGED <<runner, signals, task, cpu, waited, returned>>

CanCompute == life = "running" /\ task.need > cpu

(* RLIMIT_CPU: SIGXCPU at the soft limit, SIGKILL a second later. *)
OverLimit(used) == seconds > 0 /\ (IF task.heeds THEN used >= seconds ELSE used > seconds)

Tick ==
  /\ timer # Off \/ CanCompute
  /\ \E scheduled \in BOOLEAN :
       /\ scheduled => CanCompute
       /\ scheduled \/ timer # Off
       /\ cpu' = IF scheduled THEN cpu + 1 ELSE cpu
       /\ life' = IF scheduled /\ OverLimit(cpu') THEN "signalled" ELSE life
  /\ timer' = IF timer # Off THEN timer - 1 ELSE Off
  /\ pending' = (pending \/ timer = 1)
  /\ waited' = IF pc \in {"waiting", "reaped"} /\ timer # Off THEN waited + 1 ELSE waited
  /\ UNCHANGED <<runner, child, killed, task, returned>>

----------------------------------------------------------------------------
SpawnStep == Fork \/ ForkFails \/ Arm \/ Wait \/ Disarm \/ Return
InSpawn   == Arm \/ Wait \/ Disarm \/ Return

(* The runner makes no more calls, or waits for ever for a command of its  *)
(* own that blocks: nothing limits the time of a compile or a checker.     *)
Finished == pc = "idle" /\ calls = MaxCalls /\ UNCHANGED vars
Hangs    == pc = "waiting" /\ seconds = 0 /\ task.need = Blocks /\ UNCHANGED vars

Next == SpawnStep \/ Handler \/ ChildExits \/ Tick \/ Finished \/ Hangs

(* The runner and its handler get to run, the clock goes on, and a child   *)
(* that is done exits.  That a child ever gets the processor is not asked. *)
Fairness == WF_vars(InSpawn) /\ WF_vars(Handler) /\ WF_vars(ChildExits) /\ WF_vars(Tick)

Spec == Init /\ [][Next]_vars /\ Fairness

----------------------------------------------------------------------------
(* Properties *)

TypeOK ==
  /\ pc \in {"idle", "forked", "waiting", "reaped", "disarmed"}
  /\ calls \in 0 .. MaxCalls /\ seconds \in Limits \cup {0}
  /\ child \in {NoPid, calls} /\ killed \in BOOLEAN
  /\ timer \in 0 .. WallLimit(seconds) /\ pending \in BOOLEAN
  /\ task \in Task /\ life \in {"none", "running", "exited", "signalled"}
  /\ cpu \in Nat /\ waited \in 0 .. WallLimit(seconds)
  /\ returned \in {-2, -1, 0, 1}

(* Between two calls no alarm is set, none has rung and the handler has no *)
(* child to aim at: the alarm of one call can never hit the next one.      *)
NothingCarriesOver ==
  pc \in {"idle", "forked"} => timer = Off /\ ~pending /\ child = NoPid

(* The handler only ever condemns a submission, and one whose own alarm    *)
(* has run its full time: commands without a limit are never cut off.      *)
KillsAreTimely ==
  killed /\ pc # "forked" => seconds > 0 /\ waited = WallLimit(seconds)

(* A call that returns 0 had a child that exited with 0, before it had its *)
(* seconds of processor, or in the one more it gets by ignoring SIGXCPU.   *)
Within(s, used) == s = 0 \/ used < s \/ (used = s /\ ~task.heeds)

ZeroIsEarned ==
  pc = "idle" /\ returned = 0 =>
    life = "exited" /\ task.status = 0 /\ Within(seconds, cpu)

(* A call that returns 1 has a reason: the child's own status, its limit   *)
(* of processor time, or the alarm of this very call.                      *)
RefusalHasAReason ==
  pc = "idle" /\ returned = 1 =>
    \/ life = "exited" /\ task.status # 0
    \/ seconds > 0 /\ cpu >= seconds
    \/ seconds > 0 /\ waited = WallLimit(seconds)

(* A call with a limit returns, whatever the child does and however little *)
(* of the processor it gets.                                               *)
LimitedCallsReturn == pc = "forked" /\ seconds > 0 ~> pc = "idle"

----------------------------------------------------------------------------
(* What the documents say *)

(* README.md: the limit is processor time, so that a loaded machine does   *)
(* not turn a correct submission into a timeout: one that would exit with  *)
(* 0 within its seconds is not cut off while it still waits for its share. *)
LoadIsNoTimeout ==
  pc = "idle" /\ returned = 1 /\ life = "signalled" /\ seconds > 0 =>
    ~(task.status = 0 /\ task.need \in cpu + 1 .. seconds - 1)
=============================================================================
