------------------------------- MODULE Config -------------------------------
(***************************************************************************)
(* contest_load of config.c: a contest is described by a handful of .cfg   *)
(* files, or by a contest.json that wins over them.  The same description  *)
(* is loaded twice here, first as .cfg files and then with a contest.json  *)
(* beside them that is meant to say the same.                              *)
(*                                                                         *)
(* A value that may be missing is the set of what is there: {} or {v}.     *)
(* Text is what can be told apart: a command line is blank or is not.      *)
(***************************************************************************)
EXTENDS Integers, SequencesExt

CONSTANTS
  Description,   \* the descriptions of a contest looked at
  Name,          \* names of students; the empty one may be among them
  Program,       \* the programs there are in the contest directory,
  Directory,     \* and the directories in it
  Dotted         \* the extensions that have a dot in them

NoName  == "no name"          \* a number without a name, an element that is no string
Empty   == ""                 \* the text after the = of a line, or between the quotes
Spaces  == " "
BuiltIn == {"checker_byte", "checker_int"}
Wish    == {"on", "off", "auto"}

Optional(value, S) == value \subseteq S /\ \A v, w \in value : v = w
Or(value, default) == IF value = {} THEN default ELSE CHOOSE v \in value : TRUE

(* What is written down of one problem, and of one language.               *)
IsSheet(sheet) ==
  /\ Optional(sheet.letter, Nat) /\ Optional(sheet.checker, STRING)
  /\ Optional(sheet.tests, Int) /\ Optional(sheet.points, Int)
  /\ Optional(sheet.time, Int) /\ Optional(sheet.memory, Int)

IsEntry(entry) ==
  entry.ext \in STRING /\ Optional(entry.compile, STRING) /\ Optional(entry.run, STRING)

IsList(list) == list \in Seq({list[i] : i \in DOMAIN list})

(* miscount is what users= and problems= of the .cfg files are off by.     *)
ASSUME ConfigAssumption ==
  /\ NoName \notin Name /\ Dotted \subseteq STRING
  /\ \A d \in Description :
       /\ Optional(d.users, Seq(Name \cup {NoName}))
       /\ \A sheets \in d.problems :
            IsList(sheets) /\ \A i \in DOMAIN sheets : IsSheet(sheets[i])
       /\ \A table \in d.languages :
            /\ IsList(table)
            /\ \A i \in DOMAIN table : IsEntry(table[i])
            /\ \A i, j \in DOMAIN table : table[i].ext = table[j].ext => i = j
       /\ Optional(d.sandbox, STRING)
       /\ d.miscount \in [users : Int, problems : Int]

VARIABLES
  written,   \* the description
  form,      \* what it is written as: "cfg" or "json"
  pc,        \* the part that is loaded next, "loaded" or "refused"
  at,        \* the problem or language that is read next
  contest,   \* the contest as far as it is loaded
  said,      \* whether it has been said why the contest is refused
  first      \* what came of the .cfg files

vars == <<written, form, pc, at, contest, said, first>>

(* calloc, and the one setting that does not start as zero.                *)
Blank   == [users |-> <<>>, users_count |-> 0, problems |-> <<>>, problems_count |-> 0,
            languages |-> <<>>, sandbox |-> "auto"]

(* The part that follows each: the .cfg files come in one order, the       *)
(* members of contest.json are looked up in another.                       *)
AfterCfg  == [users |-> "problems", problems |-> "languages",
              languages |-> "sandbox", sandbox |-> "loaded"]
AfterJson == [sandbox |-> "users", users |-> "problems",
              problems |-> "languages", languages |-> "loaded"]
Following == IF form = "cfg" THEN AfterCfg[pc] ELSE AfterJson[pc]

Init ==
  /\ written \in Description
  /\ form = "cfg" /\ pc = "users" /\ at = 1
  /\ contest = Blank /\ said = FALSE /\ first = Blank

----------------------------------------------------------------------------
(* A part is done with, or the contest is freed and refused.               *)

Loaded(c) ==
  /\ contest' = c
  /\ pc' = Following /\ at' = 1
  /\ UNCHANGED <<written, form, said, first>>

OneMore(c) ==
  /\ contest' = c
  /\ at' = at + 1
  /\ UNCHANGED <<written, form, pc, said, first>>

(* contest_free: nothing of what was loaded is held on to.                  *)
Freed == Blank

Refuse(aloud) ==
  /\ contest' = Freed /\ said' = aloud
  /\ pc' = "refused"
  /\ UNCHANGED <<written, form, at, first>>

----------------------------------------------------------------------------
(* users *)

Unnamed(rows, n, none) == \E i \in 1 .. n : i \notin DOMAIN rows \/ rows[i] \in none

(* Below -1 the size calloc is asked for wraps around to one there never   *)
(* is, and load_users returns without a word.                              *)
ImpossibleCount(n) == n < -1

(* user.cfg: users= says how many there are, and each has a number and a   *)
(* name behind its =.                                                      *)
CfgUsers ==
  /\ pc = "users" /\ form = "cfg"
  /\ LET rows == Or(written.users, <<>>)
         n    == Len(rows) + written.miscount.users
     IN  IF written.users = {}
         THEN Refuse(TRUE)
         ELSE IF ImpossibleCount(n)
              THEN Refuse(FALSE)
              ELSE IF Unnamed(rows, n, {NoName, Empty})
                   THEN Refuse(TRUE)
                   ELSE Loaded([contest EXCEPT !.users = SubSeq(rows, 1, n), !.users_count = n])

(* contest.json: an array of names, of which "" is one.  That "problems"   *)
(* is an array is seen first.                                              *)
JsonUsers ==
  /\ pc = "users" /\ form = "json"
  /\ LET rows == Or(written.users, <<>>)
     IN  IF written.users = {} \/ written.problems = {} \/ Unnamed(rows, Len(rows), {NoName})
         THEN Refuse(TRUE)
         ELSE Loaded([contest EXCEPT !.users = rows, !.users_count = Len(rows)])

----------------------------------------------------------------------------
(* problems *)

(* A line with nothing behind its = has no value, as if it were not there. *)
Value(text) == text \ {Empty}

(* Without a number of its own the first problem is A, which is 1 here.    *)
CfgProblem(sheet, i) ==
  [letter |-> i, tests |-> Or(sheet.tests, 0),
   checker |-> Or(Value(sheet.checker), "checker_byte"),
   seconds |-> Or(sheet.time, 2), memory |-> Or(sheet.memory, 0) * 1024 * 1024,
   points |-> Or(sheet.points, 100)]

NoTimeLimit(sheet, i) == [CfgProblem(sheet, i) EXCEPT !.seconds = Or(sheet.time, 0)]
JsonProblem(sheet, i) == [CfgProblem(sheet, i) EXCEPT !.letter = Or(sheet.letter, i),
                                                      !.checker = Or(sheet.checker, "checker_byte")]

(* What access(path, X_OK) finds under the contest directory: the programs *)
(* in it, and directories too, of which the empty name is the contest's.   *)
Found == Program \cup Directory \cup {Empty}

AnyChecker(checker)    == TRUE
CheckerExists(checker) == checker \in BuiltIn \cup Found

Accepts(problem) == problem.tests > 0 /\ CheckerExists(problem.checker)

ReadProblem(sheet, i) == IF form = "cfg" THEN CfgProblem(sheet, i) ELSE JsonProblem(sheet, i)

With(problem, n) == [contest EXCEPT !.problems = Append(@, problem), !.problems_count = n]

(* The next of n problems, or none is left.                                *)
NextProblem(sheets, n) ==
  IF at > n
  THEN Loaded([contest EXCEPT !.problems_count = n])
  ELSE IF at \notin DOMAIN sheets \/ ~Accepts(ReadProblem(sheets[at], at))
       THEN Refuse(TRUE)
       ELSE OneMore(With(ReadProblem(sheets[at], at), n))

(* tests/problem.cfg says how many there are, each has a problem.cfg.      *)
CfgProblems ==
  /\ pc = "problems" /\ form = "cfg"
  /\ IF written.problems = {}
     THEN Refuse(TRUE)
     ELSE LET sheets == Or(written.problems, <<>>)
          IN  NextProblem(sheets, Len(sheets) + written.miscount.problems)

JsonProblems ==
  /\ pc = "problems" /\ form = "json"
  /\ LET sheets == Or(written.problems, <<>>)
     IN  NextProblem(sheets, Len(sheets))

----------------------------------------------------------------------------
(* languages *)

(* A command line is split at its spaces: a blank one has no words at all. *)
Words(line) == IF line \in {Empty, Spaces} THEN <<>> ELSE <<line>>

Language(ext, compile, run) ==
  [ext |-> ext, compile |-> {Words(line) : line \in compile}, run |-> Words(run)]

(* language_add says nothing when there is nothing to run or to compile.   *)
HasCommands(lang) == lang.run # <<>> /\ <<>> \notin lang.compile

LanguageAdd(ext, compile, run) ==
  LET lang == Language(ext, compile, run)
  IN  IF HasCommands(lang)
      THEN OneMore([contest EXCEPT !.languages = Append(@, lang)])
      ELSE Refuse(FALSE)

(* No table at all: C the way this judge always built it.                  *)
C == Language("c", {"gcc {src} -o {bin}"}, "{bin}")

(* The table is read to its end: it has to have had a language in it.      *)
EndOfTable == IF contest.languages = <<>> THEN Refuse(TRUE) ELSE Loaded(contest)

(* lang.cfg: it is the .run line that declares a language, and the first   *)
(* dot of its key that ends the extension: one with a dot is passed over.  *)
CfgLanguages ==
  /\ pc = "languages" /\ form = "cfg"
  /\ IF written.languages = {}
     THEN Loaded([contest EXCEPT !.languages = <<C>>])
     ELSE LET table == Or(written.languages, <<>>)
          IN  IF at > Len(table)
              THEN EndOfTable
              ELSE IF Value(table[at].run) = {} \/ table[at].ext \in Dotted
                   THEN OneMore(contest)
                   ELSE LanguageAdd(table[at].ext, Value(table[at].compile), Or(table[at].run, Empty))

JsonLanguages ==
  /\ pc = "languages" /\ form = "json"
  /\ IF written.languages = {}
     THEN Loaded([contest EXCEPT !.languages = <<C>>])
     ELSE LET table == Or(written.languages, <<>>)
          IN  IF at > Len(table)
              THEN EndOfTable
              ELSE IF table[at].run = {}
                   THEN Refuse(TRUE)
                   ELSE LanguageAdd(table[at].ext, table[at].compile, Or(table[at].run, Empty))

----------------------------------------------------------------------------
(* sandbox: contest.cfg, which may be missing, or a string of contest.json *)

Given(text) == IF form = "cfg" THEN Value(text) ELSE text
SandboxWish == Given(written.sandbox)

ReadSandboxWish ==
  /\ pc = "sandbox"
  /\ LET wish == Or(SandboxWish, "auto")
     IN  IF wish \in Wish THEN Loaded([contest EXCEPT !.sandbox = wish]) ELSE Refuse(TRUE)

----------------------------------------------------------------------------
(* The description is now there as a contest.json as well. *)
WriteJson ==
  /\ pc \in {"loaded", "refused"} /\ form = "cfg"
  /\ form' = "json" /\ pc' = "sandbox" /\ at' = 1
  /\ first' = contest
  /\ contest' = Blank /\ said' = FALSE
  /\ UNCHANGED written

Returned == pc \in {"loaded", "refused"} /\ form = "json" /\ UNCHANGED vars

Next ==
  \/ CfgUsers \/ JsonUsers
  \/ CfgProblems \/ JsonProblems
  \/ CfgLanguages \/ JsonLanguages
  \/ ReadSandboxWish
  \/ WriteJson \/ Returned

Spec == Init /\ [][Next]_vars

----------------------------------------------------------------------------
(* Properties *)

(* A contest that is loaded is one the judge and the runner can go by, as  *)
(* far as loading looks: as many names and problems as its counts say,     *)
(* where they do not say fewer than none; a test for each problem, and     *)
(* something to be found under the name of its checker; and at least one   *)
(* language, each with something to run.  Names from user.cfg are not      *)
(* empty.                                                                  *)
Counted(things, count) == Len(things) = IF count < 0 THEN 0 ELSE count

LoadedIsUsable ==
  pc = "loaded" =>
    /\ contest.users \in Seq(Name) /\ Counted(contest.users, contest.users_count)
    /\ form = "cfg" => \A i \in DOMAIN contest.users : contest.users[i] # Empty
    /\ Counted(contest.problems, contest.problems_count)
    /\ \A i \in DOMAIN contest.problems :
         contest.problems[i].tests > 0 /\ contest.problems[i].checker \in BuiltIn \cup Found
    /\ contest.languages # <<>>
    /\ \A i \in DOMAIN contest.languages :
         contest.languages[i].run # <<>> /\ <<>> \notin contest.languages[i].compile

(* One that is refused is refused with a word why, but for a command line  *)
(* with no words in it and a count of students no memory could hold.       *)
BlankCommand ==
  \E table \in written.languages : \E i \in DOMAIN table :
    \E line \in Given(table[i].run) \cup Given(table[i].compile) : Words(line) = <<>>

ImpossibleUsers ==
  form = "cfg" /\ ImpossibleCount(Len(Or(written.users, <<>>)) + written.miscount.users)

RefusedAloud == pc = "refused" /\ ~said => BlankCommand \/ ImpossibleUsers

(* contest_load returns something the judge can go by, or has said why it  *)
(* does not.                                                               *)
UsableOrToldWhy == LoadedIsUsable /\ RefusedAloud

(* contest.json says the same things as the .cfg files: one description is *)
(* refused in both forms or gives the same contest in both, the defaults   *)
(* included.  Where the two cannot say the same it is left out: counts     *)
(* that are off, letters out of order, extensions with a dot, commands     *)
(* that are missing, and empty text, which is a value only in JSON.  (What *)
(* a line cannot hold, a newline for one, is in no description.)           *)
SayableInBoth(d) ==
  /\ d.miscount = [users |-> 0, problems |-> 0]
  /\ \A rows \in d.users : \A i \in DOMAIN rows : rows[i] # Empty
  /\ \A sheets \in d.problems : \A i \in DOMAIN sheets :
       sheets[i].letter \subseteq {i} /\ Empty \notin sheets[i].checker
  /\ \A table \in d.languages : \A i \in DOMAIN table :
       /\ table[i].ext \notin Dotted
       /\ table[i].run # {} /\ Empty \notin table[i].run \cup table[i].compile
  /\ Empty \notin d.sandbox

SameEitherWay ==
  pc \in {"loaded", "refused"} /\ form = "json" /\ SayableInBoth(written) => contest = first
=============================================================================
