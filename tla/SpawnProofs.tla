---------------------------- MODULE SpawnProofs -----------------------------
(***************************************************************************)
(* What spawn and its handler keep true for every limit, every child and   *)
(* every moment at which the alarm may ring.                               *)
(***************************************************************************)
EXTENDS Spawn, TLAPS

(* While a call waits, its alarm and the time it has waited add up to its  *)
(* full time, and the alarm can only have rung when that is over.          *)
Clock ==
  /\ pc \in {"idle", "forked", "disarmed"} => timer = Off /\ ~pending
  /\ pc = "forked" => waited = 0
  /\ pc \in {"waiting", "reaped"} =>
       IF seconds > 0 THEN timer + waited = WallLimit(seconds) ELSE timer = Off
  /\ pending => seconds > 0 /\ timer = Off
  /\ killed /\ pc # "forked" => seconds > 0 /\ waited = WallLimit(seconds)

(* The handler aims at the child of this call from Arm to Return.          *)
Aim ==
  child = IF pc \in {"idle", "forked"} THEN NoPid ELSE calls

(* How the child stands, and what the last call made of it.                *)
Child ==
  /\ pc \in {"reaped", "disarmed"} => life \in {"exited", "signalled"}
  /\ life \in {"running", "exited"} => Within(seconds, cpu)
  /\ life = "signalled" => (seconds > 0 /\ cpu >= seconds) \/ (killed /\ pc # "forked")
  /\ pc = "idle" => life # "running"
  /\ pc = "idle" /\ returned = 0 => life = "exited" /\ task.status = 0
  /\ pc = "idle" /\ returned = 1 => killed \/ life = "signalled" \/ (life = "exited" /\ task.status # 0)

Inv == TypeOK /\ Clock /\ Aim /\ Child

LEMMA WallLimits == \A s \in Limits \cup {0} : s \in Nat /\ WallLimit(s) \in Nat /\ WallLimit(s) > 0
BY SpawnAssumption DEF WallLimit

LEMMA InvInit == Init => Inv
<1>. SUFFICES ASSUME Init PROVE Inv
  OBVIOUS
<1>1. TypeOK
  <2>1. task \in Task
    BY DEF Init, Task
  <2>2. killed \in BOOLEAN /\ pending \in BOOLEAN
    BY Zenon DEF Init
  <2>. QED  BY <2>1, <2>2, WallLimits, SpawnAssumption DEF Init, TypeOK, NoPid, Off
<1>2. Clock /\ Aim /\ Child
  BY DEF Init, Clock, Aim, Child
<1>. QED  BY <1>1, <1>2 DEF Inv

LEMMA InvStep ==
  ASSUME Inv, [Next]_vars
  PROVE  Inv'
<1>. USE DEF runner, signals, process, Within, WallLimit, Off, NoPid
<1>1. /\ TypeOK /\ Clock /\ Aim /\ Child
      /\ MaxCalls \in Nat /\ Limits \subseteq Nat
  BY SpawnAssumption DEF Inv
<1>2. CASE Fork
  <2>1. PICK s \in Limits, t \in Task : seconds' = s /\ task' = t
    BY <1>2 DEF Fork
  <2>2. /\ pc = "idle" /\ pc' = "forked" /\ calls < MaxCalls /\ calls' = calls + 1
        /\ life' = "running" /\ cpu' = 0 /\ waited' = 0
        /\ UNCHANGED <<child, killed, timer, pending, returned>>
    BY <1>2 DEF Fork
  <2>3. s \in Nat /\ WallLimit(s) \in Nat
    BY <2>1, WallLimits
  <2>4. TypeOK'
    BY <1>1, <2>1, <2>2, <2>3 DEF TypeOK, Clock, Aim, Off
  <2>5. Clock' /\ Aim'
    BY <1>1, <2>2 DEF Clock, Aim
  <2>6. Child'
    BY <1>1, <2>1, <2>2, <2>3 DEF Child, Within
  <2>. QED  BY <2>4, <2>5, <2>6 DEF Inv
<1>3. CASE ForkFails
  <2>1. UNCHANGED <<pc, calls, seconds, child, killed, timer, pending, task, life, cpu, waited>> /\ returned' = -1
    BY <1>3 DEF ForkFails
  <2>. QED  BY <1>1, <2>1 DEF Inv, TypeOK, Clock, Aim, Child
<1>4. CASE Arm
  <2>1. /\ pc = "forked" /\ pc' = "waiting" /\ child' = calls /\ killed' = FALSE
        /\ timer' = IF seconds > 0 THEN WallLimit(seconds) ELSE timer
        /\ UNCHANGED <<calls, seconds, pending, task, life, cpu, waited, returned>>
    BY <1>4 DEF Arm, Cleared, Armed
  <2>2. seconds \in Nat /\ WallLimit(seconds) \in Nat
    BY <1>1, WallLimits DEF TypeOK
  <2>3. killed' \in BOOLEAN
    BY <2>1, Zenon
  <2>4. TypeOK'
    BY <1>1, <2>1, <2>2, <2>3 DEF TypeOK
  <2>5. Clock' /\ Aim' /\ Child'
    BY <1>1, <2>1, <2>2 DEF TypeOK, Clock, Aim, Child
  <2>. QED  BY <2>4, <2>5 DEF Inv
<1>5. CASE Wait
  <2>1. /\ pc = "waiting" /\ pc' = "reaped" /\ life \in {"exited", "signalled"}
        /\ UNCHANGED <<calls, seconds, child, killed, timer, pending, task, life, cpu, waited, returned>>
    BY <1>5 DEF Wait
  <2>2. seconds \in Nat /\ WallLimit(seconds) \in Nat
    BY <1>1, WallLimits DEF TypeOK
  <2>3. killed' \in BOOLEAN /\ pending' \in BOOLEAN
    BY <1>1, <2>1, Zenon DEF TypeOK
  <2>4. TypeOK'
    BY <1>1, <2>1, <2>2, <2>3 DEF TypeOK, Clock, Aim
  <2>5. Clock' /\ Aim'
    BY <1>1, <2>1, <2>2, <2>3 DEF TypeOK, Clock, Aim
  <2>6. Child'
    BY <1>1, <2>1, <2>2, <2>3 DEF TypeOK, Clock, Aim, Child
  <2>. QED  BY <2>4, <2>5, <2>6 DEF Inv
<1>6. CASE Disarm
  <2>1. /\ pc = "reaped" /\ pc' = "disarmed" /\ timer' = 0 /\ ~pending
        /\ UNCHANGED <<calls, seconds, child, killed, pending, task, life, cpu, waited, returned>>
    BY <1>6 DEF Disarm, Disarmed
  <2>2. seconds \in Nat /\ WallLimit(seconds) \in Nat
    BY <1>1, WallLimits DEF TypeOK
  <2>3. killed' \in BOOLEAN /\ pending' \in BOOLEAN
    BY <1>1, <2>1, Zenon DEF TypeOK
  <2>4. TypeOK'
    BY <1>1, <2>1, <2>2, <2>3 DEF TypeOK, Clock, Aim
  <2>5. Clock' /\ Aim'
    BY <1>1, <2>1, <2>2, <2>3 DEF TypeOK, Clock, Aim
  <2>6. Child'
    BY <1>1, <2>1, <2>2, <2>3 DEF TypeOK, Clock, Aim, Child
  <2>. QED  BY <2>4, <2>5, <2>6 DEF Inv
<1>7. CASE Return
  <2>1. /\ pc = "disarmed" /\ pc' = "idle" /\ ~pending /\ child' = 0 /\ returned' = Outcome(killed)
        /\ UNCHANGED <<calls, seconds, killed, timer, pending, task, life, cpu, waited>>
    BY <1>7 DEF Return
  <2>2. seconds \in Nat /\ WallLimit(seconds) \in Nat
    BY <1>1, WallLimits DEF TypeOK
  <2>3. killed' \in BOOLEAN /\ pending' \in BOOLEAN
    BY <1>1, <2>1, Zenon DEF TypeOK
  <2>4. TypeOK'
    BY <1>1, <2>1, <2>2, <2>3 DEF TypeOK, Clock, Aim, Outcome
  <2>5. Clock' /\ Aim'
    BY <1>1, <2>1, <2>2, <2>3 DEF TypeOK, Clock, Aim, Outcome
  <2>6. Child'
    BY <1>1, <2>1, <2>2, <2>3 DEF TypeOK, Clock, Aim, Child, Outcome
  <2>. QED  BY <2>4, <2>5, <2>6 DEF Inv
<1>8. CASE Handler
  <2>1. /\ pending /\ pending' = FALSE
        /\ IF child # 0
           THEN /\ killed' = TRUE
                /\ life' = IF child = calls /\ life = "running" THEN "signalled" ELSE life
           ELSE UNCHANGED <<killed, life>>
        /\ UNCHANGED <<pc, calls, seconds, child, timer, task, cpu, waited, returned>>
    BY <1>8 DEF Handler
  <2>2. seconds \in Nat /\ WallLimit(seconds) \in Nat
    BY <1>1, WallLimits DEF TypeOK
  <2>3. killed' \in BOOLEAN /\ pending' \in BOOLEAN
    BY <1>1, <2>1, Zenon DEF TypeOK
  <2>4. TypeOK'
    BY <1>1, <2>1, <2>2, <2>3 DEF TypeOK, Clock, Aim
  <2>5. Clock' /\ Aim'
    BY <1>1, <2>1, <2>2, <2>3 DEF TypeOK, Clock, Aim
  <2>6. Child'
    BY <1>1, <2>1, <2>2, <2>3 DEF TypeOK, Clock, Aim, Child
  <2>. QED  BY <2>4, <2>5, <2>6 DEF Inv
<1>9. CASE ChildExits
  <2>1. /\ life = "running" /\ life' = "exited"
        /\ UNCHANGED <<pc, calls, seconds, child, killed, timer, pending, task, cpu, waited, returned>>
    BY <1>9 DEF ChildExits
  <2>2. seconds \in Nat /\ WallLimit(seconds) \in Nat
    BY <1>1, WallLimits DEF TypeOK
  <2>3. killed' \in BOOLEAN /\ pending' \in BOOLEAN
    BY <1>1, <2>1, Zenon DEF TypeOK
  <2>4. TypeOK'
    BY <1>1, <2>1, <2>2, <2>3 DEF TypeOK, Clock, Aim
  <2>5. Clock' /\ Aim'
    BY <1>1, <2>1, <2>2, <2>3 DEF TypeOK, Clock, Aim
  <2>6. Child'
    BY <1>1, <2>1, <2>2, <2>3 DEF TypeOK, Clock, Aim, Child
  <2>. QED  BY <2>4, <2>5, <2>6 DEF Inv
<1>10. CASE Tick
  <2>1. /\ \/ cpu' = cpu /\ life' = life
           \/ life = "running" /\ cpu' = cpu + 1 /\ life' = IF OverLimit(cpu') THEN "signalled" ELSE life
        /\ timer' = IF timer # 0 THEN timer - 1 ELSE 0
        /\ pending' = (pending \/ timer = 1)
        /\ waited' = IF pc \in {"waiting", "reaped"} /\ timer # 0 THEN waited + 1 ELSE waited
        /\ UNCHANGED <<pc, calls, seconds, child, killed, task, returned>>
    BY <1>10 DEF Tick, CanCompute
  <2>2. seconds \in Nat /\ WallLimit(seconds) \in Nat
    BY <1>1, WallLimits DEF TypeOK
  <2>3. killed' \in BOOLEAN /\ pending' \in BOOLEAN
    BY <1>1, <2>1, Zenon DEF TypeOK
  <2>4. TypeOK'
    BY <1>1, <2>1, <2>2, <2>3 DEF TypeOK, Clock, Aim
  <2>5. Clock' /\ Aim'
    BY <1>1, <2>1, <2>2, <2>3 DEF TypeOK, Clock, Aim
  <2>6. Child'
    BY <1>1, <2>1, <2>2, <2>3 DEF TypeOK, Clock, Aim, Child, OverLimit
  <2>. QED  BY <2>4, <2>5, <2>6 DEF Inv
<1>11. CASE UNCHANGED vars
  BY <1>1, <1>11 DEF vars, Inv, TypeOK, Clock, Aim, Child, Within, WallLimit
<1>. QED
  BY <1>2, <1>3, <1>4, <1>5, <1>6, <1>7, <1>8, <1>9, <1>10, <1>11 DEF Next, SpawnStep, Finished, Hangs

(* The values of spawn's variables, in every run.                          *)
THEOREM TypeCorrect == Spec => []TypeOK
<1>1. Inv => TypeOK
  BY DEF Inv
<1>. QED  BY InvInit, InvStep, <1>1, PTL DEF Spec

(* No alarm outlives its call, in every run.                               *)
THEOREM CallsAreApart == Spec => []NothingCarriesOver
<1>1. Inv => NothingCarriesOver
  BY DEF Inv, Clock, Aim, NothingCarriesOver
<1>. QED  BY InvInit, InvStep, <1>1, PTL DEF Spec

(* The handler condemns nothing before its time, in every run.             *)
THEOREM TimelyKills == Spec => []KillsAreTimely
<1>1. Inv => KillsAreTimely
  BY DEF Inv, Clock, KillsAreTimely
<1>. QED  BY InvInit, InvStep, <1>1, PTL DEF Spec

(* What passes has exited with 0 within its limit, in every run.           *)
THEOREM EarnedZeros == Spec => []ZeroIsEarned
<1>1. Inv => ZeroIsEarned
  BY DEF Inv, Child, ZeroIsEarned
<1>. QED  BY InvInit, InvStep, <1>1, PTL DEF Spec

(* What is refused has been refused for a reason, in every run.            *)
THEOREM RefusalsAreJustified == Spec => []RefusalHasAReason
<1>1. Inv => RefusalHasAReason
  BY DEF Inv, Clock, Child, RefusalHasAReason
<1>. QED  BY InvInit, InvStep, <1>1, PTL DEF Spec
=============================================================================
