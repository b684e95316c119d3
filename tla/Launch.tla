------------------------------- MODULE Launch -------------------------------
(***************************************************************************)
(* The command line of the judge: [-j workers] [contest directory], read   *)
(* from left to right by main of judge.c.  An argument is what it says to  *)
(* the judge: whether it begins with -j, and what is behind that.          *)
(***************************************************************************)
EXTENDS Integers, FiniteSetsExt, SequencesExt

CONSTANTS
  Text,           \* what may be behind -j, or be an argument of its own
  Atoi,           \* Atoi[t]: the number atoi reads at the beginning of t
  MaxArguments    \* arguments on the command line

ASSUME LaunchAssumption == "" \in Text /\ Atoi \in [Text -> Int] /\ Atoi[""] = 0

VARIABLES
  options,   \* the arguments behind the judge's own name
  arg,       \* i of the loop over them
  cpus,      \* what sysconf says of the machine: its processors, or -1
  dir, workers, named,
  launch     \* "reading", "usage" or "go"

avars == <<options, arg, cpus, dir, workers, named, launch>>

Default == "../contest"

LaunchInit ==
  /\ options \in UNION {[1 .. n -> [flag : BOOLEAN, rest : Text]] : n \in 0 .. MaxArguments}
  /\ cpus \in {-1, 3}
  /\ arg = 1 /\ dir = Default /\ workers = 1 /\ named = FALSE
  /\ launch = "reading"

(* workers_wanted: a worker for each processor where none are asked for.   *)
NoneIsNone(n)    == IF n < 0 THEN -1 ELSE n
WorkersWanted(n) ==
  IF n < 0 THEN -1 ELSE IF n > 0 THEN n ELSE IF cpus > 0 THEN cpus ELSE 1

(* atoi of a whole argument: one that begins with -j has no number there.  *)
Number(argument) == IF argument.flag THEN 0 ELSE Atoi[argument.rest]

Bare(argument) == argument.flag /\ argument.rest = ""

ReadOption ==
  /\ launch = "reading" /\ arg <= Len(options)
  /\ LET argument == options[arg]
         detached == Bare(argument) /\ arg < Len(options)
     IN  /\ workers' = CASE detached      -> WorkersWanted(Number(options[arg + 1]))
                         [] argument.flag /\ ~detached -> WorkersWanted(Atoi[argument.rest])
                         [] ~argument.flag -> IF named THEN -1 ELSE workers
         /\ dir' = IF argument.flag \/ named THEN dir ELSE argument.rest
         /\ named' = (named \/ ~argument.flag)
         /\ arg' = IF detached THEN arg + 2 ELSE arg + 1
  /\ launch' = IF workers' < 0 THEN "usage" ELSE "reading"
  /\ UNCHANGED <<options, cpus>>

LoadContest ==
  /\ launch = "reading" /\ arg > Len(options)
  /\ launch' = "go"
  /\ UNCHANGED <<options, arg, cpus, dir, workers, named>>

LaunchNext == ReadOption \/ LoadContest

----------------------------------------------------------------------------
(* Properties *)

(* An argument is the number of the one before it when that is a -j which  *)
(* is not itself a number: behind an odd number of them in a row.          *)
BareBefore(k) == Max({0} \cup {m \in 1 .. k - 1 : \A d \in 1 .. m : Bare(options[k - d])})
IsNumber(k)   == BareBefore(k) % 2 = 1

Asked(k) == IF options[k].rest = "" /\ k < Len(options) THEN Number(options[k + 1])
                                                        ELSE Atoi[options[k].rest]
Flags    == {k \in DOMAIN options : options[k].flag /\ ~IsNumber(k)}
Operands == {k \in DOMAIN options : ~options[k].flag /\ ~IsNumber(k)}
Wanted   == IF Flags = {} THEN 1 ELSE Asked(Max(Flags))

(* The judge goes by its usage line: it marks the one directory that is    *)
(* named, with as many workers as the last -j asks for and one for each    *)
(* processor at -j 0 (README.md), never with none; and it refuses a second *)
(* directory and a number below zero, wherever they stand, and nothing     *)
(* else.                                                                   *)
OptionsAreMeant ==
  LET refused == Cardinality(Operands) > 1 \/ \E k \in Flags : Asked(k) < 0
  IN  /\ launch = "usage" => refused
      /\ launch = "go" =>
           /\ ~refused
           /\ dir = IF Operands = {} THEN Default ELSE options[Max(Operands)].rest
           /\ workers = IF Wanted > 0 THEN Wanted ELSE IF cpus > 0 THEN cpus ELSE 1
=============================================================================
