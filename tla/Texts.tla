------------------------------- MODULE Texts -------------------------------
(***************************************************************************)
(* The texts a contest is described by, one at a time: contest_load reads  *)
(* contest.json where there is one and the .cfg files where there is none, *)
(* and takes the command lines apart that it finds there.  The strings of  *)
(* contest.json, which JsonReader takes whole, are read on their own.  The *)
(* command line of the judge, which says where they are, is one more text. *)
(***************************************************************************)
EXTENDS CfgReader, JsonReader, JsonString, Commands, Launch

VARIABLE reader    \* what is being read: "cfg", "json", "string", "command"
                   \* or "options"

tvars == <<reader, cvars, jvars, svars, lvars, avars>>

NoString == [pieces |-> <<>>, closed |-> TRUE]
APath    == CHOOSE path \in Path : TRUE

(* What is not being read stays as it is without a text.                   *)
Init ==
  /\ reader \in {"cfg", "json", "string", "command", "options"}
  /\ reader = "cfg" \/ (source = <<>> /\ kind = "file")
  /\ reader = "json" \/ unit = End
  /\ reader = "string" \/ quoted = NoString
  /\ reader = "command" \/ (command = <<>> /\ src = APath /\ bin = APath)
  /\ reader = "options" \/ (options = <<>> /\ cpus = -1)
  /\ CfgInit /\ JsonInit /\ StringInit /\ CommandInit /\ LaunchInit

ReadCfg      == reader = "cfg" /\ CfgNext /\ UNCHANGED <<reader, jvars, svars, lvars, avars>>
ReadJson     == reader = "json" /\ JsonNext /\ UNCHANGED <<reader, cvars, svars, lvars, avars>>
ReadString   == reader = "string" /\ StringNext /\ UNCHANGED <<reader, cvars, jvars, lvars, avars>>
SplitCommand == reader = "command" /\ CommandNext /\ UNCHANGED <<reader, cvars, jvars, svars, avars>>
ReadOptions  == reader = "options" /\ LaunchNext /\ UNCHANGED <<reader, cvars, jvars, svars, lvars>>

Done ==
  /\ CASE reader = "cfg" -> Over
       [] reader = "json" -> place \in {"accepted", "refused"}
       [] reader = "string" -> parsed # "no"
       [] reader = "command" -> phase \in {"ready", "none", "crashed"}
       [] reader = "options" -> launch # "reading"
  /\ UNCHANGED tvars

Next == ReadCfg \/ ReadJson \/ ReadString \/ SplitCommand \/ ReadOptions \/ Done

(* A reader is one thread that goes on while it can.                       *)
Spec ==
  /\ Init /\ [][Next]_tvars
  /\ WF_tvars(reader = "cfg" /\ CfgStep /\ UNCHANGED <<reader, jvars, svars, lvars, avars>>)

(* Every .cfg file is read to its end, whatever is in it; a directory in   *)
(* the place of one is not.                                                *)
FileIsRead == reader = "cfg" /\ kind = "file" ~> Over
=============================================================================
