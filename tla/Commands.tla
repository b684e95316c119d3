------------------------------ MODULE Commands ------------------------------
(***************************************************************************)
(* The command lines of a language: argv_split of config.c takes one apart *)
(* at its blanks when the contest is loaded, and the runner's argv_expand  *)
(* puts the paths of a submission into a copy of its words.  A line is a   *)
(* row of units: a blank, a placeholder, anything else.                    *)
(***************************************************************************)
EXTENDS Places, SequencesExt

CONSTANTS
  CommandLine,    \* the command lines looked at
  Path            \* the paths {src} and {bin} stand for

Gap == {" ", "\t"}

ASSUME CommandAssumption ==
  /\ \A text \in CommandLine : text \in Seq(STRING)
  /\ \A path \in Path : path \in Seq(STRING) /\ path # <<>>

VARIABLES
  command,   \* the line
  p,         \* what is still to be split of it
  src, bin,  \* the paths
  argv,      \* its words
  expanded,  \* the words with the paths in them
  starved,   \* memory has run out, which it does once at most
  phase      \* "split", "expand", "ready", "none", "crashed"

lvars == <<command, p, src, bin, argv, expanded, starved, phase>>

NoWord == <<>>    \* the NULL of a word there was no room for, which ends the words

CommandInit ==
  /\ command \in CommandLine /\ p = command
  /\ src \in Path /\ bin \in Path
  /\ argv = <<>> /\ expanded = <<>>
  /\ starved = FALSE /\ phase = "split"

----------------------------------------------------------------------------
(* argv_split *)

Solid   == {i \in DOMAIN p : p[i] \notin Gap}
Start   == Min(Solid)
Gaps    == {i \in Start .. Len(p) : p[i] \in Gap}
WordEnd == IF Gaps = {} THEN Len(p) + 1 ELSE Min(Gaps)

TakenWord == SubSeq(p, Start, WordEnd - 1)

SplitWord ==
  /\ phase = "split" /\ Solid # {}
  /\ argv' = Append(argv, TakenWord)
  /\ p' = SubSeq(p, WordEnd, Len(p))
  /\ UNCHANGED <<command, src, bin, expanded, starved, phase>>

(* There is no room for one more word and the line is given up, or there   *)
(* is room for a pointer and none for the word it is to point to.          *)
NoRoomToSplit ==
  /\ phase = "split" /\ Solid # {} /\ ~starved
  /\ starved' = TRUE
  /\ \/ phase' = "none" /\ argv' = <<>> /\ UNCHANGED p
     \/ argv' = Append(argv, NoWord) /\ p' = SubSeq(p, WordEnd, Len(p)) /\ UNCHANGED phase
  /\ UNCHANGED <<command, src, bin, expanded>>

(* A line without a word is NULL, and no command.                          *)
EndOfLine ==
  /\ phase = "split" /\ Solid = {}
  /\ phase' = IF argv = <<>> THEN "none" ELSE "expand"
  /\ UNCHANGED <<command, p, src, bin, argv, expanded, starved>>

----------------------------------------------------------------------------
(* argv_expand and str_replace *)

ReplaceFirst(s, what, with) ==
  LET at == {i \in DOMAIN s : s[i] = what}
  IN  IF at = {} THEN s
      ELSE SubSeq(s, 1, Min(at) - 1) \o with \o SubSeq(s, Min(at) + 1, Len(s))
StrReplace(s, what, with) ==
  FlattenSeq([i \in DOMAIN s |-> IF s[i] = what THEN with ELSE <<s[i]>>])

(* A placeholder is five bytes, any other unit one.                        *)
StrLen(s) == Len(s) + 4 * Cardinality({i \in DOMAIN s : s[i] \in {"{src}", "{bin}"}})

Size(s, what, with) ==
  StrLen(s) + 1 + Cardinality({i \in DOMAIN s : s[i] = what}) * (StrLen(with) - StrLen(<<what>>))

(* The words of an argv, which end at the first NULL.                      *)
Seen(words) ==
  LET nulls == {i \in DOMAIN words : words[i] = NoWord}
  IN  IF nulls = {} THEN words ELSE SubSeq(words, 1, Min(nulls) - 1)

Counted == Len(Seen(argv))

Once == StrReplace(argv[Len(expanded) + 1], "{src}", src)

ExpandWord ==
  /\ phase = "expand" /\ Len(expanded) < Counted
  /\ expanded' = Append(expanded, StrReplace(Once, "{bin}", bin))
  /\ UNCHANGED <<command, p, src, bin, argv, starved, phase>>

(* There is no room for the words at all; the first replacement finds none *)
(* and its NULL is read by the second; or the second finds none, which     *)
(* ends the words there.                                                   *)
NoRoomToExpand ==
  /\ phase = "expand" /\ Len(expanded) < Counted /\ ~starved
  /\ starved' = TRUE
  /\ \/ phase' = "none" /\ expanded = <<>> /\ UNCHANGED expanded
     \/ phase' = "crashed" /\ UNCHANGED expanded
     \/ expanded' = Append(expanded, NoWord) /\ UNCHANGED phase
  /\ UNCHANGED <<command, p, src, bin, argv>>

Ready ==
  /\ phase = "expand" /\ Len(expanded) = Counted
  /\ phase' = "ready"
  /\ UNCHANGED <<command, p, src, bin, argv, expanded, starved>>

CommandNext ==
  SplitWord \/ NoRoomToSplit \/ EndOfLine \/ ExpandWord \/ NoRoomToExpand \/ Ready

----------------------------------------------------------------------------
(* Properties *)

(* What the line says: a word wherever one begins behind a blank, with the *)
(* placeholders in it standing for the paths.                              *)
Begins == {i \in DOMAIN command : command[i] \notin Gap /\ (i = 1 \/ command[i - 1] \in Gap)}
WordAt(i) ==
  LET after == {k \in i .. Len(command) : command[k] \in Gap}
  IN  SubSeq(command, i, IF after = {} THEN Len(command) ELSE Min(after) - 1)
Meant(unit) == IF unit = "{src}" THEN src ELSE IF unit = "{bin}" THEN bin ELSE <<unit>>
MeantWord(word) == FlattenSeq([k \in DOMAIN word |-> Meant(word[k])])
Arguments       == InOrder(Begins, [i \in Begins |-> MeantWord(WordAt(i))])

(* The arguments a program is started with are the words of its line, each *)
(* placeholder replaced wherever it stands; a path with a blank in it does *)
(* not become two arguments, and one that looks like a placeholder stays a *)
(* path, unless it is that of the source and looks like {bin}, which is    *)
(* replaced second.  Out of memory, arguments may be missing at the end.   *)
(* str_replace counts before it copies: its buffer holds what it writes,   *)
(* to the byte, for either replacement.                                    *)
ArgumentsAreMeant ==
  /\ phase = "ready" /\ ~Contains(src, "{bin}") =>
       IF starved THEN IsPrefix(Seen(expanded), Arguments) ELSE expanded = Arguments
  /\ phase = "expand" /\ Len(expanded) < Counted =>
       /\ Size(argv[Len(expanded) + 1], "{src}", src) = StrLen(Once) + 1
       /\ Size(Once, "{bin}", bin) = StrLen(StrReplace(Once, "{bin}", bin)) + 1
=============================================================================
