---------------------------- MODULE ConfigProofs ----------------------------
(***************************************************************************)
(* That contest_load gives the judge a contest it can go by, whatever is   *)
(* written down, and the same one from contest.json as from .cfg files     *)
(* that say the same.                                                      *)
(***************************************************************************)
EXTENDS Config, TLAPS

Rows   == Or(written.users, <<>>)
Sheets == Or(written.problems, <<>>)
Table  == Or(written.languages, <<>>)

(* A value that may be missing is one of its set, or the default.          *)
LEMMA OneOf ==
  ASSUME NEW value, NEW default
  PROVE  /\ value = {} => Or(value, default) = default
         /\ value # {} => Or(value, default) \in value
<1>1. CASE value = {}
  BY <1>1 DEF Or
<1>2. ASSUME NEW x \in value PROVE Or(value, default) \in value
  <2>1. value # {}
    BY <1>2
  <2>2. (CHOOSE v \in value : TRUE) \in value
    BY <1>2
  <2>. QED  BY <2>1, <2>2 DEF Or
<1>. QED  BY <1>1, <1>2

LEMMA Lists ==
  ASSUME written \in Description
  PROVE  /\ Rows \in Seq(Name \cup {NoName})
         /\ Len(Sheets) \in Nat /\ DOMAIN Sheets = 1 .. Len(Sheets)
         /\ \A i \in DOMAIN Sheets : IsSheet(Sheets[i])
         /\ Len(Table) \in Nat /\ DOMAIN Table = 1 .. Len(Table)
         /\ \A i \in DOMAIN Table : IsEntry(Table[i])
         /\ Optional(written.sandbox, STRING)
         /\ written.miscount.users \in Int /\ written.miscount.problems \in Int
<1>1. Rows \in Seq(Name \cup {NoName})
  <2>1. written.users \subseteq Seq(Name \cup {NoName})
    BY ConfigAssumption DEF Optional
  <2>2. Rows = <<>> \/ Rows \in written.users
    BY OneOf DEF Rows
  <2>3. <<>> \in Seq(Name \cup {NoName})
    OBVIOUS
  <2>. QED  BY <2>1, <2>2, <2>3, Zenon
<1>2. Sheets = <<>> \/ Sheets \in written.problems
  BY OneOf DEF Sheets
<1>3. Table = <<>> \/ Table \in written.languages
  BY OneOf DEF Table
<1>4. IsList(<<>>) /\ \A s : IsList(s) => Len(s) \in Nat /\ DOMAIN s = 1 .. Len(s)
  BY DEF IsList
<1>5. IsList(Sheets) /\ \A i \in DOMAIN Sheets : IsSheet(Sheets[i])
  BY <1>2, <1>4, ConfigAssumption
<1>6. IsList(Table) /\ \A i \in DOMAIN Table : IsEntry(Table[i])
  BY <1>3, <1>4, ConfigAssumption
<1>7. /\ Optional(written.sandbox, STRING)
      /\ written.miscount.users \in Int /\ written.miscount.problems \in Int
  BY ConfigAssumption
<1>. QED  BY <1>1, <1>4, <1>5, <1>6, <1>7

(***************************************************************************)
(* What is loaded can be used.  Everything that is put into the contest is *)
(* fit to be there when it is put there; the counts are right once the     *)
(* part they count is done with.                                           *)
(***************************************************************************)
Text == STRING \cup Wish \cup BuiltIn \cup Program \cup {"c", "gcc {src} -o {bin}", "{bin}"}

AProblem ==
  {p \in [letter : Nat, tests : Int, checker : Text, seconds : Int, memory : Int, points : Int] :
     Accepts(p)}
ALanguage ==
  {l \in [ext : Text, compile : SUBSET Seq(Text), run : Seq(Text)] : HasCommands(l)}
AContest ==
  [users : Seq(Name), users_count : Int, problems : Seq(AProblem), problems_count : Int,
   languages : Seq(ALanguage), sandbox : Text]

TypeOK ==
  /\ written \in Description
  /\ form \in {"cfg", "json"}
  /\ pc \in {"users", "problems", "languages", "sandbox", "loaded", "refused"}
  /\ at \in Nat \ {0}
  /\ contest \in AContest /\ first \in AContest
  /\ said \in BOOLEAN

(* The parts that are done with when the next one is read.                 *)
QuietRefusal  == BlankCommand \/ ImpossibleUsers
UsersPast     == pc \in {"problems", "languages", "loaded"} \/ (form = "cfg" /\ pc = "sandbox")
ProblemsPast  == pc \in {"languages", "loaded"} \/ (form = "cfg" /\ pc = "sandbox")
LanguagesPast == pc = "loaded" \/ (form = "cfg" /\ pc = "sandbox")

(* How many problems the loop over them goes through.                      *)
Told == IF form = "cfg" THEN Len(Sheets) + written.miscount.problems ELSE Len(Sheets)

Usable ==
  /\ TypeOK
  /\ UsersPast => Counted(contest.users, contest.users_count)
  /\ form = "cfg" => \A i \in DOMAIN contest.users : contest.users[i] # Empty
  /\ pc = "refused" /\ ~said => QuietRefusal
  /\ pc = "problems" => Len(contest.problems) = at - 1 /\ (at = 1 \/ at - 1 <= Told)
  /\ ~ProblemsPast /\ pc # "problems" => contest.problems = <<>>
  /\ ProblemsPast => Counted(contest.problems, contest.problems_count)
  /\ LanguagesPast => contest.languages # <<>>

LEMMA BlankType == Blank \in AContest /\ Blank.problems = <<>>
<1>1. Blank \in AContest
  <2>1. \A S : <<>> \in Seq(S)
    OBVIOUS
  <2>2. 0 \in Int /\ "auto" \in Text
    BY DEF Text, Wish
  <2>. QED  BY <2>1, <2>2, Zenon DEF Blank, AContest
<1>. QED  BY <1>1 DEF Blank

LEMMA UsableInit == Init => Usable
<1>. SUFFICES ASSUME Init PROVE Usable
  OBVIOUS
<1>1. Blank \in AContest /\ Blank.problems = <<>>
  BY BlankType
<1>3. TypeOK
  <2>1. said \in BOOLEAN
    BY Zenon DEF Init
  <2>. QED  BY <1>1, <2>1 DEF Init, TypeOK
<1>4. \A i \in DOMAIN Blank.users : Blank.users[i] # Empty
  BY DEF Blank
<1>. QED  BY <1>1, <1>3, <1>4 DEF Init, Usable, UsersPast, ProblemsPast, LanguagesPast

(* The order of the parts.                                                 *)
LEMMA Order ==
  /\ pc = "users" => Following = "problems"
  /\ pc = "problems" => Following = "languages"
  /\ pc = "languages" => Following = IF form = "cfg" THEN "sandbox" ELSE "loaded"
  /\ pc = "sandbox" => Following = IF form = "cfg" THEN "loaded" ELSE "users"
BY DEF Following, AfterCfg, AfterJson

(* What is read of a problem, and of a language, is what the contest holds *)
(* of one once it is found fit.                                            *)
LEMMA ProblemType ==
  ASSUME NEW sheet, IsSheet(sheet), NEW i \in Nat
  PROVE  ReadProblem(sheet, i) \in
           [letter : Nat, tests : Int, checker : Text, seconds : Int, memory : Int, points : Int]
<1>1. /\ Or(sheet.tests, 0) \in Int /\ Or(sheet.time, 2) \in Int
      /\ Or(sheet.memory, 0) \in Int /\ Or(sheet.points, 100) \in Int
  <2>1. ASSUME NEW value, value \subseteq Int, NEW n \in Int PROVE Or(value, n) \in Int
    BY <2>1, OneOf
  <2>. QED  BY <2>1 DEF IsSheet, Optional
<1>2. Or(sheet.letter, i) \in Nat
  <2>1. sheet.letter \subseteq Nat
    BY DEF IsSheet, Optional
  <2>. QED  BY <2>1, OneOf
<1>3. Or(sheet.checker, "checker_byte") \in Text
  <2>1. sheet.checker \subseteq STRING
    BY DEF IsSheet, Optional
  <2>2. "checker_byte" \in Text /\ STRING \subseteq Text
    BY DEF Text, BuiltIn
  <2>. QED  BY <2>1, <2>2, OneOf
<1>4. Or(Value(sheet.checker), "checker_byte") \in Text
  <2>1. Value(sheet.checker) \subseteq STRING
    BY DEF IsSheet, Optional, Value
  <2>2. "checker_byte" \in Text /\ STRING \subseteq Text
    BY DEF Text, BuiltIn
  <2>3. \/ Or(Value(sheet.checker), "checker_byte") = "checker_byte"
        \/ Or(Value(sheet.checker), "checker_byte") \in Value(sheet.checker)
    BY OneOf, Zenon
  <2>. QED  BY <2>1, <2>2, <2>3
<1>. DEFINE P == [letter : Nat, tests : Int, checker : Text, seconds : Int, memory : Int, points : Int]
            c == Or(sheet.checker, "checker_byte")
            l == Or(sheet.letter, i)
<1>5. Or(sheet.memory, 0) * 1024 * 1024 \in Int
  BY <1>1
<1>6. CfgProblem(sheet, i) \in P
  <2>. DEFINE t == Or(sheet.tests, 0)
              b == Or(Value(sheet.checker), "checker_byte")
              s == Or(sheet.time, 2)
              m == Or(sheet.memory, 0) * 1024 * 1024
              o == Or(sheet.points, 100)
  <2>1. t \in Int /\ b \in Text /\ s \in Int /\ m \in Int /\ o \in Int
    BY <1>1, <1>4, <1>5
  <2>2. CfgProblem(sheet, i) =
          [letter |-> i, tests |-> t, checker |-> b, seconds |-> s, memory |-> m, points |-> o]
    BY DEF CfgProblem
  <2>. HIDE DEF t, b, s, m, o
  <2>. QED  BY <2>1, <2>2, SMT
<1>7. JsonProblem(sheet, i) = [CfgProblem(sheet, i) EXCEPT !.letter = l, !.checker = c]
  BY Zenon DEF JsonProblem
<1>8. \A p \in P : [p EXCEPT !.letter = l, !.checker = c] \in P
  <2>. HIDE DEF c, l
  <2>1. c \in Text /\ l \in Nat
    BY <1>2, <1>3 DEF c, l
  <2>. QED  BY <2>1
<1>9. JsonProblem(sheet, i) \in P
  BY <1>6, <1>7, <1>8, Zenon
<1>. QED  BY <1>6, <1>9, Zenon DEF ReadProblem

LEMMA LanguageType ==
  ASSUME NEW ext \in Text, NEW compile \in SUBSET Text, NEW run \in Text
  PROVE  Language(ext, compile, run) \in [ext : Text, compile : SUBSET Seq(Text), run : Seq(Text)]
<1>1. \A line \in Text : Words(line) \in Seq(Text)
  BY DEF Words
<1>. QED  BY <1>1 DEF Language

LEMMA OnlyC == C \in ALanguage
<1>1. C \in [ext : Text, compile : SUBSET Seq(Text), run : Seq(Text)]
  BY LanguageType DEF C, Text
<1>2. HasCommands(C)
  BY DEF C, Language, HasCommands, Words, Empty, Spaces
<1>. QED  BY <1>1, <1>2 DEF ALanguage

LEMMA UsableStep ==
  ASSUME Usable, [Next]_vars
  PROVE  Usable'
<1>. USE DEF UsersPast, ProblemsPast, LanguagesPast
<1>1. TypeOK /\ (form = "cfg" => \A i \in DOMAIN contest.users : contest.users[i] # Empty)
  BY DEF Usable
<1>2. ASSUME NEW aloud \in BOOLEAN, Refuse(aloud), aloud = TRUE \/ QuietRefusal PROVE Usable'
  <2>1. /\ contest' = Blank /\ Blank \in AContest /\ pc' = "refused"
        /\ said' = aloud /\ UNCHANGED <<written, form>>
        /\ \A i \in DOMAIN Blank.users : Blank.users[i] # Empty
    BY <1>2, BlankType DEF Freed, Refuse, Blank
  <2>2. said' \in BOOLEAN
    BY <1>2, Zenon DEF Freed, Refuse
  <2>3. TypeOK'
    BY <1>1, <1>2, <2>1, <2>2 DEF Freed, Refuse, TypeOK
  <2>4. ~said' => QuietRefusal'
    <3>1. QuietRefusal' = QuietRefusal
      BY <2>1 DEF QuietRefusal, BlankCommand, ImpossibleUsers, Given
    <3>. QED  BY <1>2, <2>1, <3>1
  <2>. QED  BY <2>1, <2>3, <2>4, BlankType DEF Usable
<1>3. ASSUME NEW c \in AContest, Loaded(c), pc \in {"users", "problems", "languages", "sandbox"}
      PROVE TypeOK'
  BY <1>1, <1>3, Order DEF Loaded, TypeOK
<1>4. ASSUME NEW c \in AContest, OneMore(c) PROVE TypeOK'
  BY <1>1, <1>4 DEF OneMore, TypeOK
<1>5. ASSUME NEW names \in Seq(Name), NEW n \in Int, Counted(names, n), pc = "users",
             form = "cfg" => \A i \in DOMAIN names : names[i] # Empty,
             Loaded([contest EXCEPT !.users = names, !.users_count = n])
      PROVE  Usable'
  <2>. DEFINE c == [contest EXCEPT !.users = names, !.users_count = n]
  <2>1. c \in AContest /\ c.users = names /\ c.users_count = n /\ c.problems = contest.problems
    BY <1>1 DEF TypeOK, AContest
  <2>2. Loaded(c)
    BY <1>5
  <2>. HIDE DEF c
  <2>3. TypeOK' /\ contest' = c /\ pc' = "problems" /\ at' = 1 /\ form' = form
    BY <1>3, <1>5, <2>1, <2>2, Order DEF Loaded
  <2>4. contest.problems = <<>>
    BY <1>5 DEF Usable
  <2>. QED  BY <1>5, <2>1, <2>3, <2>4 DEF Usable
<1>6. CASE CfgUsers
  <2>. DEFINE n == Len(Rows) + written.miscount.users
  <2>1. Rows \in Seq(Name \cup {NoName}) /\ n \in Int
    BY <1>1, Lists DEF TypeOK
  <2>2. CASE written.users = {}
    BY <1>2, <1>6, <2>2 DEF CfgUsers
  <2>3. CASE written.users # {} /\ ImpossibleCount(n)
    <3>1. QuietRefusal
      BY <1>6, <2>3 DEF CfgUsers, QuietRefusal, ImpossibleUsers, Rows
    <3>2. Refuse(FALSE)
      BY <1>6, <2>3 DEF CfgUsers, Rows
    <3>. QED  BY <1>2, <3>1, <3>2
  <2>4. CASE written.users # {} /\ ~ImpossibleCount(n) /\ Unnamed(Rows, n, {NoName, Empty})
    BY <1>2, <1>6, <2>4 DEF CfgUsers, Rows
  <2>5. CASE written.users # {} /\ ~ImpossibleCount(n) /\ ~Unnamed(Rows, n, {NoName, Empty})
    <3>1. \A i \in 1 .. n : i \in DOMAIN Rows /\ Rows[i] # NoName /\ Rows[i] # Empty
      BY <2>5 DEF Unnamed
    <3>2. SubSeq(Rows, 1, n) \in Seq(Name) /\ Counted(SubSeq(Rows, 1, n), n)
      BY <2>1, <3>1 DEF Counted
    <3>3. \A i \in DOMAIN SubSeq(Rows, 1, n) : SubSeq(Rows, 1, n)[i] # Empty
      BY <2>1, <3>1
    <3>4. pc = "users" /\ Loaded([contest EXCEPT !.users = SubSeq(Rows, 1, n), !.users_count = n])
      BY <1>6, <2>5 DEF CfgUsers, Rows
    <3>. HIDE DEF n
    <3>. QED  BY <1>5, <2>1, <3>2, <3>3, <3>4
  <2>. QED  BY <2>2, <2>3, <2>4, <2>5
<1>7. CASE JsonUsers
  <2>1. Rows \in Seq(Name \cup {NoName})
    BY <1>1, Lists DEF TypeOK
  <2>2. CASE written.users = {} \/ written.problems = {} \/ Unnamed(Rows, Len(Rows), {NoName})
    BY <1>2, <1>7, <2>2 DEF JsonUsers, Rows
  <2>3. CASE ~(written.users = {} \/ written.problems = {} \/ Unnamed(Rows, Len(Rows), {NoName}))
    <3>1. \A i \in 1 .. Len(Rows) : Rows[i] # NoName
      BY <2>3 DEF Unnamed
    <3>2. Rows \in Seq(Name) /\ Len(Rows) \in Int /\ Counted(Rows, Len(Rows))
      BY <2>1, <3>1 DEF Counted
    <3>3. /\ pc = "users" /\ form = "json"
          /\ Loaded([contest EXCEPT !.users = Rows, !.users_count = Len(Rows)])
      BY <1>7, <2>3 DEF JsonUsers, Rows
    <3>. QED  BY <1>5, <3>2, <3>3
  <2>. QED  BY <2>2, <2>3
<1>8. ASSUME pc = "problems", NextProblem(Sheets, Told) PROVE Usable'
  <2>1. /\ Told \in Int /\ DOMAIN Sheets = 1 .. Len(Sheets)
        /\ \A i \in DOMAIN Sheets : IsSheet(Sheets[i])
    BY <1>1, Lists DEF TypeOK, Told
  <2>2. at \in Nat \ {0} /\ Len(contest.problems) = at - 1 /\ (at = 1 \/ at - 1 <= Told)
        /\ contest.problems \in Seq(AProblem) /\ Counted(contest.users, contest.users_count)
    BY <1>1, <1>8 DEF Usable, TypeOK, AContest
  <2>3. CASE at > Told
    <3>. DEFINE c == [contest EXCEPT !.problems_count = Told]
    <3>1. /\ c \in AContest /\ c.users = contest.users /\ c.users_count = contest.users_count
          /\ c.problems = contest.problems /\ c.problems_count = Told
      BY <1>1, <2>1 DEF TypeOK, AContest
    <3>2. Loaded(c)
      BY <1>8, <2>3 DEF NextProblem
    <3>. HIDE DEF c
    <3>3. TypeOK' /\ contest' = c /\ pc' = "languages" /\ form' = form
      BY <1>3, <1>8, <3>1, <3>2, Order DEF Loaded
    <3>4. Counted(contest.problems, Told)
      BY <2>1, <2>2, <2>3 DEF Counted
    <3>. QED  BY <1>1, <2>2, <3>1, <3>3, <3>4 DEF Usable
  <2>4. CASE ~(at > Told) /\ (at \notin DOMAIN Sheets \/ ~Accepts(ReadProblem(Sheets[at], at)))
    BY <1>2, <1>8, <2>4 DEF NextProblem
  <2>5. CASE ~(at > Told) /\ at \in DOMAIN Sheets /\ Accepts(ReadProblem(Sheets[at], at))
    <3>. DEFINE p == ReadProblem(Sheets[at], at)
                c == With(p, Told)
    <3>1. p \in AProblem
      BY <2>1, <2>2, <2>5, ProblemType DEF AProblem
    <3>2. OneMore(c)
      BY <1>8, <2>5 DEF NextProblem
    <3>. HIDE DEF p
    <3>3. /\ c \in AContest /\ c.users = contest.users /\ c.users_count = contest.users_count
          /\ c.problems = Append(contest.problems, p)
      <4>1. Append(contest.problems, p) \in Seq(AProblem)
        BY <2>2, <3>1
      <4>2. c = [contest EXCEPT !.problems = Append(contest.problems, p), !.problems_count = Told]
        BY <1>1 DEF With, TypeOK, AContest
      <4>. HIDE DEF c
      <4>. QED  BY <1>1, <2>1, <4>1, <4>2 DEF TypeOK, AContest
    <3>. HIDE DEF c
    <3>4. TypeOK' /\ contest' = c /\ at' = at + 1 /\ UNCHANGED <<pc, form, written>>
      BY <1>4, <3>2, <3>3 DEF OneMore
    <3>5. Told' = Told
      BY <3>4 DEF Told, Sheets
    <3>6. Len(c.problems) = at /\ at <= Told
      BY <2>1, <2>2, <2>5, <3>1, <3>3
    <3>. QED  BY <1>1, <1>8, <2>2, <3>3, <3>4, <3>5, <3>6 DEF Usable
  <2>. QED  BY <2>3, <2>4, <2>5
<1>9. CASE CfgProblems
  <2>1. CASE written.problems = {}
    BY <1>2, <1>9, <2>1 DEF CfgProblems
  <2>2. CASE written.problems # {}
    <3>1. NextProblem(Sheets, Told) /\ pc = "problems"
      BY <1>9, <2>2 DEF CfgProblems, Sheets, Told
    <3>. QED  BY <1>8, <3>1
  <2>. QED  BY <2>1, <2>2
<1>10. CASE JsonProblems
  <2>1. NextProblem(Sheets, Told) /\ pc = "problems"
    BY <1>10 DEF JsonProblems, Sheets, Told
  <2>. QED  BY <1>8, <2>1
<1>11. ASSUME NEW lang \in ALanguage, pc = "languages",
              \/ OneMore([contest EXCEPT !.languages = Append(@, lang)])
              \/ Loaded([contest EXCEPT !.languages = <<lang>>])
       PROVE  Usable'
  <2>1. PICK langs \in Seq(ALanguage) \ {<<>>} :
          \/ OneMore([contest EXCEPT !.languages = langs])
          \/ Loaded([contest EXCEPT !.languages = langs])
    <3>1. contest.languages \in Seq(ALanguage)
      BY <1>1 DEF TypeOK, AContest
    <3>2. /\ Append(contest.languages, lang) \in Seq(ALanguage) \ {<<>>}
          /\ <<lang>> \in Seq(ALanguage) \ {<<>>}
      BY <3>1
    <3>. QED  BY <1>11, <3>2
  <2>. DEFINE c == [contest EXCEPT !.languages = langs]
  <2>2. /\ c \in AContest /\ c.users = contest.users /\ c.users_count = contest.users_count
        /\ c.problems = contest.problems /\ c.problems_count = contest.problems_count
        /\ c.languages = langs
    BY <1>1 DEF TypeOK, AContest
  <2>3. OneMore(c) \/ Loaded(c)
    BY <2>1
  <2>. HIDE DEF c
  <2>4. /\ TypeOK' /\ contest' = c /\ UNCHANGED form
        /\ pc' = "languages" \/ pc' = IF form = "cfg" THEN "sandbox" ELSE "loaded"
    BY <1>1, <1>3, <1>4, <1>11, <2>2, <2>3, Order DEF OneMore, Loaded, TypeOK
  <2>. QED  BY <1>11, <2>1, <2>2, <2>4 DEF Usable
<1>12. ASSUME NEW ext \in Text, NEW compile \in SUBSET Text, NEW run \in Text,
              pc = "languages", LanguageAdd(ext, compile, run),
              HasCommands(Language(ext, compile, run)) \/ BlankCommand
       PROVE  Usable'
  <2>. DEFINE lang == Language(ext, compile, run)
  <2>1. CASE HasCommands(lang)
    <3>1. lang \in ALanguage
      BY <2>1, LanguageType DEF ALanguage
    <3>2. OneMore([contest EXCEPT !.languages = Append(@, lang)])
      BY <1>12, <2>1 DEF LanguageAdd
    <3>. HIDE DEF lang
    <3>. QED  BY <1>11, <1>12, <3>1, <3>2
  <2>2. CASE ~HasCommands(lang)
    BY <1>2, <1>12, <2>2 DEF LanguageAdd, QuietRefusal
  <2>. QED  BY <2>1, <2>2
<1>13. ASSUME pc = "languages", EndOfTable PROVE Usable'
  <2>1. CASE contest.languages = <<>>
    BY <1>2, <1>13, <2>1 DEF EndOfTable
  <2>2. CASE contest.languages # <<>>
    <3>1. Loaded(contest) /\ contest \in AContest
      BY <1>1, <1>13, <2>2 DEF EndOfTable, TypeOK
    <3>2. /\ TypeOK' /\ UNCHANGED <<contest, form>>
          /\ pc' = IF form = "cfg" THEN "sandbox" ELSE "loaded"
      BY <1>3, <1>13, <3>1, Order DEF Loaded
    <3>. QED  BY <1>13, <2>2, <3>2 DEF Usable
  <2>. QED  BY <2>1, <2>2
<1>14. ASSUME NEW i \in DOMAIN Table
       PROVE  /\ Table[i].ext \in Text /\ Table[i].compile \in SUBSET Text
              /\ Value(Table[i].compile) \in SUBSET Text
              /\ Table[i].run # {} => Or(Table[i].run, Empty) \in Text
  <2>1. Table[i].ext \in STRING /\ Table[i].compile \subseteq STRING /\ Table[i].run \subseteq STRING
    BY <1>1, <1>14, Lists DEF TypeOK, IsEntry, Optional
  <2>2. STRING \subseteq Text
    BY DEF Text
  <2>. QED  BY <2>1, <2>2, OneOf DEF Value
<1>15. at \notin DOMAIN Table => at > Len(Table)
  BY <1>1, Lists DEF TypeOK
<1>21. ASSUME NEW i \in DOMAIN Table, Given(Table[i].run) # {}
       PROVE  \/ HasCommands(Language(Table[i].ext, Given(Table[i].compile), Or(Table[i].run, Empty)))
              \/ BlankCommand
  <2>. DEFINE lang == Language(Table[i].ext, Given(Table[i].compile), Or(Table[i].run, Empty))
  <2>1. written.languages # {}
    BY <1>21 DEF Table, Or
  <2>2. Table \in written.languages
    BY <2>1, OneOf DEF Table
  <2>3. Or(Table[i].run, Empty) \in Given(Table[i].run)
    <3>1. PICK r \in Table[i].run : TRUE
      BY <1>21 DEF Given, Value
    <3>2. Optional(Table[i].run, STRING)
      BY <1>1, <1>21, Lists DEF TypeOK, IsEntry
    <3>3. Or(Table[i].run, Empty) \in Table[i].run
      BY <3>1, OneOf
    <3>4. \A v \in Table[i].run : v = Or(Table[i].run, Empty)
      BY <3>2, <3>3 DEF Optional
    <3>. QED  BY <1>21, <3>4 DEF Given, Value
  <2>4. ASSUME ~HasCommands(lang)
        PROVE  \E line \in Given(Table[i].run) \cup Given(Table[i].compile) : Words(line) = <<>>
    <3>1. lang.run = Words(Or(Table[i].run, Empty))
          /\ lang.compile = {Words(line) : line \in Given(Table[i].compile)}
      BY DEF Language
    <3>2. lang.run = <<>> \/ <<>> \in lang.compile
      BY <2>4 DEF HasCommands
    <3>. QED  BY <2>3, <3>1, <3>2
  <2>. QED  BY <1>21, <2>2, <2>4 DEF BlankCommand
<1>16. CASE CfgLanguages
  <2>1. CASE written.languages = {}
    BY <1>11, <1>16, <2>1, OnlyC DEF CfgLanguages
  <2>2. CASE written.languages # {} /\ at > Len(Table)
    BY <1>13, <1>16, <2>2 DEF CfgLanguages, Table
  <2>3. CASE /\ written.languages # {} /\ ~(at > Len(Table))
             /\ Value(Table[at].run) = {} \/ Table[at].ext \in Dotted
    <3>1. OneMore(contest) /\ pc = "languages" /\ contest \in AContest
      BY <1>1, <1>16, <2>3 DEF CfgLanguages, Table, TypeOK
    <3>2. TypeOK' /\ UNCHANGED <<contest, form, pc>>
      BY <1>4, <3>1 DEF OneMore
    <3>. QED  BY <3>1, <3>2 DEF Usable
  <2>4. CASE /\ written.languages # {} /\ ~(at > Len(Table))
             /\ ~(Value(Table[at].run) = {} \/ Table[at].ext \in Dotted)
    <3>1. /\ pc = "languages" /\ form = "cfg"
          /\ LanguageAdd(Table[at].ext, Value(Table[at].compile), Or(Table[at].run, Empty))
      BY <1>16, <2>4 DEF CfgLanguages, Table
    <3>2. at \in DOMAIN Table /\ Table[at].run # {}
      BY <1>15, <2>4 DEF Value
    <3>3. /\ Given(Table[at].run) # {}
          /\ Given(Table[at].compile) = Value(Table[at].compile)
      BY <2>4, <3>1 DEF Given
    <3>. QED  BY <1>12, <1>14, <1>21, <3>1, <3>2, <3>3
  <2>. QED  BY <2>1, <2>2, <2>3, <2>4
<1>17. CASE JsonLanguages
  <2>1. CASE written.languages = {}
    BY <1>11, <1>17, <2>1, OnlyC DEF JsonLanguages
  <2>2. CASE written.languages # {} /\ at > Len(Table)
    BY <1>13, <1>17, <2>2 DEF JsonLanguages, Table
  <2>3. CASE written.languages # {} /\ ~(at > Len(Table)) /\ Table[at].run = {}
    BY <1>2, <1>17, <2>3 DEF JsonLanguages, Table
  <2>4. CASE written.languages # {} /\ ~(at > Len(Table)) /\ Table[at].run # {}
    <3>1. /\ pc = "languages" /\ form = "json"
          /\ LanguageAdd(Table[at].ext, Table[at].compile, Or(Table[at].run, Empty))
      BY <1>17, <2>4 DEF JsonLanguages, Table
    <3>2. at \in DOMAIN Table
      BY <1>15, <2>4
    <3>3. /\ Given(Table[at].run) # {}
          /\ Given(Table[at].compile) = Table[at].compile
      BY <2>4, <3>1 DEF Given
    <3>. QED  BY <1>12, <1>14, <1>21, <2>4, <3>1, <3>2, <3>3
  <2>. QED  BY <2>1, <2>2, <2>3, <2>4
<1>18. CASE ReadSandboxWish
  <2>. DEFINE wish == Or(SandboxWish, "auto")
              c    == [contest EXCEPT !.sandbox = wish]
  <2>1. CASE wish \notin Wish
    BY <1>2, <1>18, <2>1 DEF ReadSandboxWish
  <2>2. CASE wish \in Wish
    <3>1. wish \in Text
      BY <2>2 DEF Text
    <3>2. pc = "sandbox" /\ Loaded(c)
      BY <1>18, <2>2 DEF ReadSandboxWish
    <3>. HIDE DEF wish
    <3>3. /\ c \in AContest /\ c.users = contest.users /\ c.users_count = contest.users_count
          /\ c.problems = contest.problems /\ c.problems_count = contest.problems_count
          /\ c.languages = contest.languages
      BY <1>1, <3>1 DEF TypeOK, AContest
    <3>. HIDE DEF c
    <3>4. /\ TypeOK' /\ contest' = c /\ UNCHANGED form
          /\ pc' = IF form = "cfg" THEN "loaded" ELSE "users"
      BY <1>1, <1>3, <3>2, <3>3, Order DEF Loaded, TypeOK
    <3>. QED  BY <3>2, <3>3, <3>4 DEF Usable
  <2>. QED  BY <2>1, <2>2
<1>19. CASE WriteJson
  <2>1. TypeOK'
    <3>1. said' \in BOOLEAN
      BY <1>19, Zenon DEF WriteJson
    <3>. QED  BY <1>1, <1>19, <3>1, BlankType DEF WriteJson, TypeOK
  <2>. QED  BY <1>19, <2>1, BlankType DEF WriteJson, Usable
<1>20. CASE UNCHANGED vars
  BY <1>20 DEF vars, Usable, TypeOK, Told, Sheets, QuietRefusal, BlankCommand, ImpossibleUsers, Given
<1>. QED
  BY <1>6, <1>7, <1>9, <1>10, <1>16, <1>17, <1>18, <1>19, <1>20 DEF Next, Returned

(* A contest that is loaded can be used as far as loading looks, and one   *)
(* that is not is refused with a word, whatever was written down.          *)
THEOREM LoadedCanBeUsed == Spec => []UsableOrToldWhy
<1>1. Usable => UsableOrToldWhy
  BY DEF Usable, TypeOK, AContest, AProblem, ALanguage, Accepts, CheckerExists, HasCommands, LoadedIsUsable,
         RefusedAloud, UsableOrToldWhy, QuietRefusal, UsersPast, ProblemsPast, LanguagesPast
<1>. QED  BY UsableInit, UsableStep, <1>1, PTL DEF Spec

(***************************************************************************)
(* The same contest either way.  What a description that both forms can    *)
(* say comes to is written down in one piece, with what makes it good; the *)
(* parts of the contest are then found to be those of it as they are read, *)
(* in either order.                                                        *)
(***************************************************************************)
ProblemOf(i)  == CfgProblem(Sheets[i], i)
LanguageOf(i) == Language(Table[i].ext, Table[i].compile, Or(Table[i].run, Empty))
Wished        == Or(written.sandbox, "auto")

FirstProblems(n)  == [i \in 1 .. n |-> ProblemOf(i)]
FirstLanguages(n) == [i \in 1 .. n |-> LanguageOf(i)]
AllLanguages      == IF written.languages = {} THEN <<C>> ELSE FirstLanguages(Len(Table))

UsersGood       == written.users # {} /\ ~Unnamed(Rows, Len(Rows), {NoName})
GoodProblems(n) == \A i \in 1 .. n : Accepts(ProblemOf(i))
ProblemsGood    == written.problems # {} /\ GoodProblems(Len(Sheets))
GoodLanguages(n) == \A i \in 1 .. n : HasCommands(LanguageOf(i))
LanguagesGood   == written.languages # {} => Len(Table) > 0 /\ GoodLanguages(Len(Table))
SandboxGood     == Wished \in Wish

Good  == UsersGood /\ ProblemsGood /\ LanguagesGood /\ SandboxGood
Whole == [users |-> Rows, users_count |-> Len(Rows),
          problems |-> FirstProblems(Len(Sheets)), problems_count |-> Len(Sheets),
          languages |-> AllLanguages, sandbox |-> Wished]
Outcome == IF Good THEN Whole ELSE Blank

SandboxPast == pc = "loaded" \/ (form = "json" /\ pc \in {"users", "problems", "languages"})

(* Each part of the contest, before, while and after it is read.           *)
UsersAsRead ==
  IF UsersPast THEN UsersGood /\ contest.users = Rows /\ contest.users_count = Len(Rows)
  ELSE contest.users = <<>> /\ contest.users_count = 0

ProblemsAsRead ==
  /\ pc = "problems" =>
       /\ at <= Len(Sheets) + 1
       /\ GoodProblems(at - 1) /\ contest.problems = FirstProblems(at - 1)
       /\ at > 1 => contest.problems_count = Len(Sheets) /\ written.problems # {}
       /\ form = "json" => written.problems # {}
  /\ ProblemsPast =>
       ProblemsGood /\ contest.problems = FirstProblems(Len(Sheets)) /\ contest.problems_count = Len(Sheets)
  /\ pc # "problems" /\ ~ProblemsPast => contest.problems = <<>> /\ contest.problems_count = 0

LanguagesAsRead ==
  /\ pc = "languages" =>
       /\ at <= Len(Table) + 1
       /\ GoodLanguages(at - 1) /\ contest.languages = FirstLanguages(at - 1)
  /\ LanguagesPast => LanguagesGood /\ contest.languages = AllLanguages
  /\ pc # "languages" /\ ~LanguagesPast => contest.languages = <<>>

SandboxAsRead ==
  IF SandboxPast THEN SandboxGood /\ contest.sandbox = Wished
  ELSE contest.sandbox = "auto"

AsRead ==
  SayableInBoth(written) =>
    /\ UsersAsRead /\ ProblemsAsRead /\ LanguagesAsRead /\ SandboxAsRead
    /\ pc = "refused" => ~Good /\ contest = Blank
    /\ form = "json" => first = Outcome

(* Where both forms can say it, they say the same of each part.            *)
LEMMA BothSay ==
  ASSUME written \in Description, SayableInBoth(written)
  PROVE  /\ written.miscount.users = 0 /\ written.miscount.problems = 0
         /\ Told = Len(Sheets)
         /\ \A i \in DOMAIN Sheets : ReadProblem(Sheets[i], i) = ProblemOf(i)
         /\ \A i \in DOMAIN Table :
              /\ Value(Table[i].run) = Table[i].run /\ Table[i].run # {}
              /\ Value(Table[i].compile) = Table[i].compile
         /\ \A i \in DOMAIN Table : Table[i].ext \notin Dotted
         /\ Unnamed(Rows, Len(Rows), {NoName, Empty}) <=> Unnamed(Rows, Len(Rows), {NoName})
         /\ ~ImpossibleCount(Len(Rows))
         /\ SandboxWish = written.sandbox
<1>1. written.miscount = [users |-> 0, problems |-> 0]
  BY DEF SayableInBoth
<1>2. Told = Len(Sheets)
  BY <1>1, Lists DEF Told
<1>3. ASSUME NEW i \in DOMAIN Sheets PROVE ReadProblem(Sheets[i], i) = ProblemOf(i)
  <2>1. written.problems # {}
    BY <1>3 DEF Sheets, Or
  <2>2. Sheets \in written.problems
    BY <2>1, OneOf DEF Sheets
  <2>3. Sheets[i].letter \subseteq {i} /\ Empty \notin Sheets[i].checker
    BY <2>2 DEF SayableInBoth
  <2>4. Or(Sheets[i].letter, i) = i
    BY <2>3, OneOf
  <2>5. Value(Sheets[i].checker) = Sheets[i].checker
    BY <2>3 DEF Value
  <2>6. ReadProblem(Sheets[i], i) = [ProblemOf(i) EXCEPT !.letter = i, !.checker = ProblemOf(i).checker]
        \/ ReadProblem(Sheets[i], i) = ProblemOf(i)
    <3>1. ProblemOf(i).checker = Or(Sheets[i].checker, "checker_byte")
      BY <2>5 DEF ProblemOf, CfgProblem
    <3>. QED  BY <2>4, <3>1, Zenon DEF ReadProblem, JsonProblem, ProblemOf
  <2>7. ProblemOf(i).letter = i
    BY DEF ProblemOf, CfgProblem
  <2>8. \A p : p = [letter |-> p.letter, tests |-> p.tests, checker |-> p.checker,
                              seconds |-> p.seconds, memory |-> p.memory, points |-> p.points]
                  => p = [p EXCEPT !.letter = p.letter, !.checker = p.checker]
    OBVIOUS
  <2>9. LET p == ProblemOf(i)
        IN  p = [letter |-> p.letter, tests |-> p.tests, checker |-> p.checker,
                 seconds |-> p.seconds, memory |-> p.memory, points |-> p.points]
    <3>. DEFINE t == Or(Sheets[i].tests, 0)
                c == Or(Value(Sheets[i].checker), "checker_byte")
                s == Or(Sheets[i].time, 2)
                m == Or(Sheets[i].memory, 0) * 1024 * 1024
                o == Or(Sheets[i].points, 100)
    <3>1. ProblemOf(i) = [letter |-> i, tests |-> t, checker |-> c,
                          seconds |-> s, memory |-> m, points |-> o]
      BY Zenon DEF ProblemOf, CfgProblem
    <3>. HIDE DEF t, c, s, m, o
    <3>. QED  BY <3>1
  <2>. QED  BY <2>6, <2>7, <2>8, <2>9, Zenon
<1>4. ASSUME NEW i \in DOMAIN Table
      PROVE  /\ Value(Table[i].run) = Table[i].run /\ Table[i].run # {}
             /\ Value(Table[i].compile) = Table[i].compile
             /\ Table[i].ext \notin Dotted
  <2>1. written.languages # {}
    BY <1>4 DEF Table, Or
  <2>2. Table \in written.languages
    BY <2>1, OneOf DEF Table
  <2>. QED  BY <2>2 DEF SayableInBoth, Value
<1>5. SandboxWish = written.sandbox
  <2>1. Value(written.sandbox) = written.sandbox
    BY DEF SayableInBoth, Value
  <2>. QED  BY <2>1 DEF SandboxWish, Given
<1>6. Unnamed(Rows, Len(Rows), {NoName, Empty}) <=> Unnamed(Rows, Len(Rows), {NoName})
  <2>1. Rows = <<>> \/ Rows \in written.users
    BY OneOf DEF Rows
  <2>2. \A i \in DOMAIN Rows : Rows[i] # Empty
    BY <2>1 DEF SayableInBoth
  <2>. QED  BY <2>2 DEF Unnamed
<1>7. ~ImpossibleCount(Len(Rows))
  BY Lists DEF ImpossibleCount
<1>. QED  BY <1>1, <1>2, <1>3, <1>4, <1>5, <1>6, <1>7

(* None, one more, and all of a list that is read from its first on.       *)
LEMMA FirstNone ==
  /\ FirstProblems(0) = <<>> /\ GoodProblems(0)
  /\ FirstLanguages(0) = <<>> /\ GoodLanguages(0)
<1>1. 1 .. 0 = {}
  OBVIOUS
<1>. QED  BY <1>1 DEF FirstProblems, GoodProblems, FirstLanguages, GoodLanguages

LEMMA FirstOneMore ==
  ASSUME NEW n \in Nat
  PROVE  /\ FirstProblems(n + 1) = Append(FirstProblems(n), ProblemOf(n + 1))
         /\ GoodProblems(n) /\ Accepts(ProblemOf(n + 1)) => GoodProblems(n + 1)
         /\ FirstLanguages(n + 1) = Append(FirstLanguages(n), LanguageOf(n + 1))
         /\ GoodLanguages(n) /\ HasCommands(LanguageOf(n + 1)) => GoodLanguages(n + 1)
<1>1. 1 .. n + 1 = 1 .. n \cup {n + 1}
  OBVIOUS
<1>. QED  BY <1>1 DEF FirstProblems, GoodProblems, FirstLanguages, GoodLanguages

(* What is written down does not change, nor what it comes to.             *)
LEMMA StaysWritten ==
  ASSUME [Next]_vars
  PROVE  /\ UNCHANGED <<written, Rows, Sheets, Table, Wished, AllLanguages, Whole, Outcome>>
         /\ UsersGood' = UsersGood /\ ProblemsGood' = ProblemsGood
         /\ LanguagesGood' = LanguagesGood /\ SandboxGood' = SandboxGood /\ Good' = Good
         /\ \A i : ProblemOf(i)' = ProblemOf(i) /\ LanguageOf(i)' = LanguageOf(i)
<1>1. written' = written
  BY DEF Next, CfgUsers, JsonUsers, CfgProblems, JsonProblems, NextProblem, CfgLanguages, JsonLanguages,
         LanguageAdd, EndOfTable, ReadSandboxWish, WriteJson, Returned, Freed, Refuse, Loaded, OneMore, vars
<1>2. UNCHANGED <<Rows, Sheets, Table, Wished>>
  BY <1>1 DEF Rows, Sheets, Table, Wished
<1>3. \A i : ProblemOf(i)' = ProblemOf(i) /\ LanguageOf(i)' = LanguageOf(i)
  BY <1>2 DEF ProblemOf, LanguageOf
<1>4. AllLanguages' = AllLanguages
  BY <1>1, <1>2, <1>3 DEF AllLanguages, FirstLanguages
<1>5. Whole' = Whole
  BY <1>2, <1>3, <1>4 DEF Whole, FirstProblems
<1>6. UsersGood' = UsersGood /\ SandboxGood' = SandboxGood
  BY <1>1, <1>2 DEF UsersGood, SandboxGood
<1>7. ProblemsGood' = ProblemsGood
  BY <1>1, <1>2, <1>3 DEF ProblemsGood, GoodProblems
<1>8. LanguagesGood' = LanguagesGood
  BY <1>1, <1>2, <1>3 DEF LanguagesGood, GoodLanguages
<1>9. Good' = Good
  BY <1>6, <1>7, <1>8 DEF Good
<1>10. Outcome' = Outcome
  BY <1>5, <1>9 DEF Outcome
<1>. QED
  BY <1>1, <1>2, <1>3, <1>4, <1>5, <1>6, <1>7, <1>8, <1>9, <1>10

LEMMA AsReadInit == Init => AsRead
<1>. SUFFICES ASSUME Init PROVE AsRead
  OBVIOUS
<1>. QED
  BY DEF Init, AsRead, UsersAsRead, ProblemsAsRead, LanguagesAsRead, SandboxAsRead, Blank,
         UsersPast, ProblemsPast, LanguagesPast, SandboxPast

LEMMA AsReadStep ==
  ASSUME Usable, AsRead, [Next]_vars
  PROVE  AsRead'
<1>. USE DEF UsersPast, ProblemsPast, LanguagesPast, SandboxPast
<1>1. TypeOK
  BY DEF Usable
<1>2. written' = written /\ (SayableInBoth(written)' <=> SayableInBoth(written))
  BY StaysWritten DEF SayableInBoth
<1>. SUFFICES ASSUME SayableInBoth(written)
              PROVE  /\ UsersAsRead' /\ ProblemsAsRead' /\ LanguagesAsRead' /\ SandboxAsRead'
                     /\ pc' = "refused" => ~Good' /\ contest' = Blank
                     /\ form' = "json" => first' = Outcome'
  BY <1>2 DEF AsRead
<1>. DEFINE Goal == /\ UsersAsRead' /\ ProblemsAsRead' /\ LanguagesAsRead' /\ SandboxAsRead'
                    /\ pc' = "refused" => ~Good' /\ contest' = Blank
                    /\ form' = "json" => first' = Outcome'
<1>3. /\ UsersAsRead /\ ProblemsAsRead /\ LanguagesAsRead /\ SandboxAsRead
      /\ pc = "refused" => ~Good /\ contest = Blank
      /\ form = "json" => first = Outcome
  BY DEF AsRead
<1>4. written \in Description
  BY <1>1 DEF TypeOK
<1>5. ASSUME NEW aloud, Refuse(aloud), ~Good PROVE Goal
  <2>1. pc' = "refused" /\ contest' = Blank /\ UNCHANGED <<first, form>>
    BY <1>5 DEF Freed, Refuse
  <2>. QED  BY <1>3, <1>5, <2>1, StaysWritten
               DEF UsersAsRead, ProblemsAsRead, LanguagesAsRead, SandboxAsRead, Blank
<1>6. ASSUME NEW k \in Nat, at' = k + 1
      PROVE  /\ GoodProblems(at - 1)' = GoodProblems(k) /\ FirstProblems(at - 1)' = FirstProblems(k)
             /\ GoodLanguages(at - 1)' = GoodLanguages(k) /\ FirstLanguages(at - 1)' = FirstLanguages(k)
  <2>1. (at - 1)' = k
    BY <1>6
  <2>2. GoodProblems(at - 1)' = GoodProblems(k)
    BY <2>1, StaysWritten DEF GoodProblems
  <2>3. GoodLanguages(at - 1)' = GoodLanguages(k)
    BY <2>1, StaysWritten DEF GoodLanguages
  <2>4. FirstProblems(at - 1)' = FirstProblems(k) /\ FirstLanguages(at - 1)' = FirstLanguages(k)
    BY <2>1, StaysWritten DEF FirstProblems, FirstLanguages
  <2>. QED  BY <2>2, <2>3, <2>4
<1>7. GoodProblems(Len(Sheets))' = GoodProblems(Len(Sheets)) /\ FirstProblems(Len(Sheets))' = FirstProblems(Len(Sheets))
  BY StaysWritten DEF GoodProblems, FirstProblems
<1>8. ASSUME contest'.users = contest.users, contest'.users_count = contest.users_count,
             UsersPast' <=> UsersPast
      PROVE  UsersAsRead'
  <2>1. Rows' = Rows /\ UsersGood' = UsersGood
    BY StaysWritten
  <2>. HIDE DEF UsersPast
  <2>. QED  BY <1>3, <1>8, <2>1 DEF UsersAsRead
<1>9. ASSUME contest'.sandbox = contest.sandbox, SandboxPast' <=> SandboxPast PROVE SandboxAsRead'
  <2>1. Wished' = Wished /\ SandboxGood' = SandboxGood
    BY StaysWritten
  <2>. HIDE DEF SandboxPast
  <2>. QED  BY <1>3, <1>9, <2>1 DEF SandboxAsRead
<1>10. ASSUME pc = "users", UsersGood, form = "json" => written.problems # {},
             Loaded([contest EXCEPT !.users = Rows, !.users_count = Len(Rows)])
      PROVE  Goal
  <2>1. /\ pc' = "problems" /\ at' = 0 + 1 /\ UNCHANGED <<form, first>>
        /\ contest'.users = Rows /\ contest'.users_count = Len(Rows)
        /\ contest'.problems = contest.problems /\ contest'.problems_count = contest.problems_count
        /\ contest'.languages = contest.languages /\ contest'.sandbox = contest.sandbox
    BY <1>1, <1>10, Order DEF Loaded, TypeOK, AContest
  <2>2. UsersAsRead'
    BY <1>10, <2>1, StaysWritten DEF UsersAsRead
  <2>3. ProblemsAsRead'
    <3>1. GoodProblems(at - 1)' /\ FirstProblems(at - 1)' = <<>>
      BY <1>6, <2>1, FirstNone
    <3>2. Len(Sheets) \in Nat /\ Sheets' = Sheets
      BY <1>4, Lists, StaysWritten
    <3>. QED  BY <1>2, <1>3, <1>10, <2>1, <3>1, <3>2 DEF ProblemsAsRead
  <2>4. LanguagesAsRead' /\ SandboxAsRead'
    BY <1>3, <1>10, <1>9, <2>1 DEF LanguagesAsRead
  <2>. QED  BY <1>3, <2>1, <2>2, <2>3, <2>4, StaysWritten
<1>11. CASE CfgUsers \/ JsonUsers
  <2>1. /\ Rows \in Seq(Name \cup {NoName}) /\ SubSeq(Rows, 1, Len(Rows)) = Rows
        /\ Len(Rows) + written.miscount.users = Len(Rows)
    BY <1>4, Lists, BothSay
  <2>2. pc = "users"
    BY <1>11 DEF CfgUsers, JsonUsers
  <2>3. CASE ~UsersGood \/ (form = "json" /\ written.problems = {})
    <3>1. ~Good
      BY <2>3 DEF Good, ProblemsGood
    <3>2. Refuse(TRUE)
      BY <1>4, <1>11, <2>1, <2>3, BothSay DEF CfgUsers, JsonUsers, UsersGood, Rows
    <3>. QED  BY <1>5, <3>1, <3>2
  <2>4. CASE UsersGood /\ (form = "json" => written.problems # {})
    <3>1. Loaded([contest EXCEPT !.users = Rows, !.users_count = Len(Rows)])
      BY <1>4, <1>11, <2>1, <2>4, BothSay DEF CfgUsers, JsonUsers, UsersGood, Rows
    <3>. QED  BY <1>10, <2>2, <2>4, <3>1
  <2>. QED  BY <2>3, <2>4
<1>12. ASSUME pc = "problems", written.problems # {}, NextProblem(Sheets, Len(Sheets)) PROVE Goal
  <2>1. /\ Len(Sheets) \in Nat /\ at \in Nat \ {0} /\ at <= Len(Sheets) + 1
        /\ DOMAIN Sheets = 1 .. Len(Sheets)
        /\ GoodProblems(at - 1) /\ contest.problems = FirstProblems(at - 1)
    BY <1>1, <1>3, <1>4, <1>12, Lists DEF TypeOK, ProblemsAsRead
  <2>2. CASE at > Len(Sheets)
    <3>1. Loaded([contest EXCEPT !.problems_count = Len(Sheets)])
      BY <1>12, <2>2 DEF NextProblem
    <3>2. /\ pc' = "languages" /\ at' = 0 + 1 /\ UNCHANGED <<form, first>>
          /\ contest'.users = contest.users /\ contest'.users_count = contest.users_count
          /\ contest'.problems = contest.problems /\ contest'.problems_count = Len(Sheets)
          /\ contest'.languages = contest.languages /\ contest'.sandbox = contest.sandbox
      BY <1>1, <1>12, <3>1, Order DEF Loaded, TypeOK, AContest
    <3>3. at - 1 = Len(Sheets)
      BY <2>1, <2>2
    <3>4. ProblemsGood /\ contest.problems = FirstProblems(Len(Sheets))
      BY <1>12, <2>1, <3>3 DEF ProblemsGood
    <3>5. ProblemsAsRead'
      BY <1>7, <3>2, <3>4, StaysWritten DEF ProblemsAsRead
    <3>6. LanguagesAsRead'
      <4>1. GoodLanguages(at - 1)' /\ FirstLanguages(at - 1)' = <<>>
        BY <1>6, <3>2, FirstNone
      <4>2. Len(Table) \in Nat /\ Table' = Table
        BY <1>4, Lists, StaysWritten
      <4>. QED  BY <1>3, <1>12, <3>2, <4>1, <4>2 DEF LanguagesAsRead
    <3>7. UsersAsRead'
      BY <1>8, <1>12, <3>2
    <3>8. SandboxAsRead'
      BY <1>12, <1>9, <3>2
    <3>. QED  BY <1>3, <3>2, <3>5, <3>6, <3>7, <3>8, StaysWritten
  <2>3. CASE ~(at > Len(Sheets))
    <3>1. at \in DOMAIN Sheets /\ ReadProblem(Sheets[at], at) = ProblemOf(at)
      BY <1>4, <2>1, <2>3, BothSay
    <3>2. CASE ~Accepts(ProblemOf(at))
      <4>1. ~Good
        BY <2>1, <3>1, <3>2 DEF Good, ProblemsGood, GoodProblems
      <4>2. Refuse(TRUE)
        BY <1>12, <2>3, <3>1, <3>2 DEF NextProblem
      <4>. QED  BY <1>5, <4>1, <4>2
    <3>3. CASE Accepts(ProblemOf(at))
      <4>1. OneMore(With(ProblemOf(at), Len(Sheets)))
        BY <1>12, <2>3, <3>1, <3>3 DEF NextProblem
      <4>2. /\ pc' = "problems" /\ at' = at + 1 /\ UNCHANGED <<form, first>>
            /\ contest'.users = contest.users /\ contest'.users_count = contest.users_count
            /\ contest'.problems = Append(contest.problems, ProblemOf(at))
            /\ contest'.problems_count = Len(Sheets)
            /\ contest'.languages = contest.languages /\ contest'.sandbox = contest.sandbox
        BY <1>1, <1>12, <4>1 DEF OneMore, With, TypeOK, AContest
      <4>3. GoodProblems(at) /\ contest'.problems = FirstProblems(at)
        <5>1. at - 1 \in Nat /\ (at - 1) + 1 = at
          BY <2>1
        <5>. QED  BY <2>1, <3>3, <4>2, <5>1, FirstOneMore
      <4>4. GoodProblems(at - 1)' /\ FirstProblems(at - 1)' = FirstProblems(at)
        BY <1>6, <2>1, <4>2, <4>3
      <4>5. ProblemsAsRead'
        <5>1. at' <= Len(Sheets) + 1 /\ Sheets' = Sheets
          BY <2>1, <2>3, <4>2, StaysWritten
        <5>. QED  BY <1>2, <1>12, <4>2, <4>3, <4>4, <5>1 DEF ProblemsAsRead
      <4>6. UsersAsRead' /\ SandboxAsRead'
        BY <1>8, <1>9, <1>12, <4>2
      <4>7. LanguagesAsRead'
        BY <1>3, <1>12, <4>2 DEF LanguagesAsRead
      <4>. QED  BY <1>3, <4>2, <4>5, <4>6, <4>7, StaysWritten
    <3>. QED  BY <3>2, <3>3
  <2>. QED  BY <2>2, <2>3
<1>13. CASE CfgProblems \/ JsonProblems
  <2>1. pc = "problems" /\ Len(Sheets) + written.miscount.problems = Len(Sheets)
    <3>1. written.miscount.problems = 0 /\ Len(Sheets) \in Nat
      BY <1>4, Lists, BothSay
    <3>2. pc = "problems"
      BY <1>13 DEF CfgProblems, JsonProblems
    <3>. QED  BY <3>1, <3>2
  <2>2. CASE written.problems = {}
    <3>1. ~Good
      BY <2>2 DEF Good, ProblemsGood
    <3>2. form = "cfg"
      BY <1>1, <1>3, <2>1, <2>2 DEF ProblemsAsRead, TypeOK
    <3>3. Refuse(TRUE)
      BY <1>13, <2>2, <3>2 DEF CfgProblems, JsonProblems
    <3>. QED  BY <1>5, <3>1, <3>3
  <2>3. CASE written.problems # {}
    <3>1. NextProblem(Sheets, Len(Sheets))
      BY <1>13, <2>1, <2>3 DEF CfgProblems, JsonProblems, Sheets
    <3>. QED  BY <1>12, <2>1, <2>3, <3>1
  <2>. QED  BY <2>2, <2>3
<1>14. ASSUME pc = "languages", LanguagesGood, NEW c, c = [contest EXCEPT !.languages = AllLanguages], Loaded(c)
       PROVE  Goal
  <2>1. /\ pc' = (IF form = "cfg" THEN "sandbox" ELSE "loaded") /\ UNCHANGED <<form, first>>
        /\ contest'.users = contest.users /\ contest'.users_count = contest.users_count
        /\ contest'.problems = contest.problems /\ contest'.problems_count = contest.problems_count
        /\ contest'.languages = AllLanguages /\ contest'.sandbox = contest.sandbox
    BY <1>1, <1>14, Order DEF Loaded, TypeOK, AContest
  <2>2. UsersAsRead'
    BY <1>8, <1>14, <2>1
  <2>3. ProblemsAsRead'
    BY <1>3, <1>7, <1>14, <2>1, StaysWritten DEF ProblemsAsRead
  <2>4. LanguagesAsRead'
    BY <1>14, <2>1, StaysWritten DEF LanguagesAsRead
  <2>5. SandboxAsRead'
    <3>1. form \in {"cfg", "json"}
      BY <1>1 DEF TypeOK
    <3>. QED  BY <1>9, <1>14, <2>1, <3>1
  <2>. QED  BY <1>3, <2>1, <2>2, <2>3, <2>4, <2>5, StaysWritten
<1>15. ASSUME pc = "languages", written.languages # {}, at > Len(Table), EndOfTable PROVE Goal
  <2>1. /\ Len(Table) \in Nat /\ at - 1 = Len(Table)
        /\ GoodLanguages(Len(Table)) /\ contest.languages = FirstLanguages(Len(Table))
    <3>1. /\ Len(Table) \in Nat /\ at \in Nat \ {0} /\ at <= Len(Table) + 1
          /\ GoodLanguages(at - 1) /\ contest.languages = FirstLanguages(at - 1)
      BY <1>1, <1>3, <1>4, <1>15, Lists DEF TypeOK, LanguagesAsRead
    <3>2. at - 1 = Len(Table)
      BY <1>15, <3>1
    <3>. QED  BY <3>1, <3>2
  <2>2. CASE Len(Table) = 0
    <3>1. ~Good /\ contest.languages = <<>>
      BY <1>15, <2>1, <2>2, FirstNone DEF Good, LanguagesGood
    <3>2. Refuse(TRUE)
      BY <1>15, <3>1 DEF EndOfTable
    <3>. QED  BY <1>5, <3>1, <3>2
  <2>3. CASE Len(Table) > 0
    <3>1. 1 \in DOMAIN FirstLanguages(Len(Table))
      BY <2>1, <2>3 DEF FirstLanguages
    <3>2. contest.languages # <<>>
      BY <2>1, <3>1
    <3>3. Loaded(contest)
      BY <1>15, <3>2 DEF EndOfTable
    <3>4. LanguagesGood /\ AllLanguages = contest.languages
      BY <1>15, <2>1, <2>3 DEF LanguagesGood, AllLanguages
    <3>5. contest = [contest EXCEPT !.languages = AllLanguages]
      BY <1>1, <3>4 DEF TypeOK, AContest
    <3>. QED  BY <1>14, <1>15, <3>3, <3>4, <3>5
  <2>. QED  BY <2>1, <2>2, <2>3
<1>16. ASSUME pc = "languages", written.languages # {}, at \in DOMAIN Table,
              LanguageAdd(Table[at].ext, Table[at].compile, Or(Table[at].run, Empty))
       PROVE  Goal
  <2>1. /\ Len(Table) \in Nat /\ at \in Nat \ {0} /\ at <= Len(Table)
        /\ GoodLanguages(at - 1) /\ contest.languages = FirstLanguages(at - 1)
    BY <1>1, <1>3, <1>4, <1>16, Lists DEF TypeOK, LanguagesAsRead
  <2>2. CASE ~HasCommands(LanguageOf(at))
    <3>1. ~Good
      BY <1>16, <2>1, <2>2 DEF Good, LanguagesGood, GoodLanguages
    <3>2. Refuse(FALSE)
      BY <1>16, <2>2 DEF LanguageAdd, LanguageOf
    <3>. QED  BY <1>5, <3>1, <3>2
  <2>3. CASE HasCommands(LanguageOf(at))
    <3>1. OneMore([contest EXCEPT !.languages = Append(@, LanguageOf(at))])
      BY <1>16, <2>3 DEF LanguageAdd, LanguageOf
    <3>2. /\ pc' = "languages" /\ at' = at + 1 /\ UNCHANGED <<form, first>>
          /\ contest'.users = contest.users /\ contest'.users_count = contest.users_count
          /\ contest'.problems = contest.problems /\ contest'.problems_count = contest.problems_count
          /\ contest'.languages = Append(contest.languages, LanguageOf(at))
          /\ contest'.sandbox = contest.sandbox
      BY <1>1, <1>16, <3>1 DEF OneMore, TypeOK, AContest
    <3>3. GoodLanguages(at) /\ contest'.languages = FirstLanguages(at)
      <4>1. at - 1 \in Nat /\ (at - 1) + 1 = at
        BY <2>1
      <4>. QED  BY <2>1, <2>3, <3>2, <4>1, FirstOneMore
    <3>4. GoodLanguages(at - 1)' /\ FirstLanguages(at - 1)' = FirstLanguages(at)
      BY <1>6, <2>1, <3>2, <3>3
    <3>5. LanguagesAsRead'
      <4>1. at' <= Len(Table) + 1 /\ Table' = Table
        BY <2>1, <3>2, StaysWritten
      <4>. QED  BY <3>2, <3>3, <3>4, <4>1 DEF LanguagesAsRead
    <3>6. UsersAsRead'
      BY <1>8, <1>16, <3>2
    <3>7. ProblemsAsRead'
      BY <1>3, <1>7, <1>16, <3>2, StaysWritten DEF ProblemsAsRead
    <3>8. SandboxAsRead'
      BY <1>9, <1>16, <3>2
    <3>. QED  BY <1>3, <3>2, <3>5, <3>6, <3>7, <3>8, StaysWritten
  <2>. QED  BY <2>2, <2>3
<1>17. CASE CfgLanguages \/ JsonLanguages
  <2>1. pc = "languages"
    BY <1>17 DEF CfgLanguages, JsonLanguages
  <2>2. CASE written.languages = {}
    <3>1. LanguagesGood /\ AllLanguages = <<C>>
      BY <2>2 DEF LanguagesGood, AllLanguages
    <3>2. Loaded([contest EXCEPT !.languages = <<C>>])
      BY <1>17, <2>2 DEF CfgLanguages, JsonLanguages
    <3>. QED  BY <1>14, <2>1, <3>1, <3>2
  <2>3. CASE written.languages # {} /\ at > Len(Table)
    <3>1. EndOfTable
      BY <1>17, <2>3 DEF CfgLanguages, JsonLanguages, Table
    <3>. QED  BY <1>15, <2>1, <2>3, <3>1
  <2>4. CASE written.languages # {} /\ ~(at > Len(Table))
    <3>1. at \in DOMAIN Table
      BY <1>1, <1>4, <2>4, Lists DEF TypeOK
    <3>2. /\ Value(Table[at].run) = Table[at].run /\ Table[at].run # {}
          /\ Value(Table[at].compile) = Table[at].compile
          /\ Table[at].ext \notin Dotted
      BY <1>4, <3>1, BothSay
    <3>3. LanguageAdd(Table[at].ext, Table[at].compile, Or(Table[at].run, Empty))
      BY <1>17, <2>4, <3>2 DEF CfgLanguages, JsonLanguages, Table
    <3>. QED  BY <1>16, <2>1, <2>4, <3>1, <3>3
  <2>. QED  BY <2>2, <2>3, <2>4
<1>18. CASE ReadSandboxWish
  <2>1. pc = "sandbox" /\ Or(SandboxWish, "auto") = Wished
    BY <1>4, <1>18, BothSay DEF ReadSandboxWish, Wished
  <2>2. CASE ~SandboxGood
    <3>1. ~Good /\ Refuse(TRUE)
      BY <1>18, <2>1, <2>2 DEF Good, SandboxGood, ReadSandboxWish
    <3>. QED  BY <1>5, <3>1
  <2>3. CASE SandboxGood
    <3>1. Loaded([contest EXCEPT !.sandbox = Wished])
      BY <1>18, <2>1, <2>3 DEF SandboxGood, ReadSandboxWish
    <3>2. /\ pc' = (IF form = "cfg" THEN "loaded" ELSE "users") /\ UNCHANGED <<form, first>>
          /\ contest'.users = contest.users /\ contest'.users_count = contest.users_count
          /\ contest'.problems = contest.problems /\ contest'.problems_count = contest.problems_count
          /\ contest'.languages = contest.languages /\ contest'.sandbox = Wished
      BY <1>1, <2>1, <3>1, Order DEF Loaded, TypeOK, AContest
    <3>3. UsersAsRead'
      BY <1>3, <2>1, <3>2, StaysWritten DEF UsersAsRead
    <3>4. ProblemsAsRead'
      BY <1>3, <1>7, <2>1, <3>2, StaysWritten DEF ProblemsAsRead
    <3>5. LanguagesAsRead'
      BY <1>3, <2>1, <3>2, StaysWritten DEF LanguagesAsRead
    <3>6. SandboxAsRead'
      <4>1. Wished' = Wished /\ SandboxGood'
        BY <2>3, StaysWritten
      <4>2. SandboxPast'
        BY <1>1, <3>2 DEF TypeOK
      <4>. HIDE DEF SandboxPast
      <4>. QED  BY <3>2, <4>1, <4>2 DEF SandboxAsRead
    <3>. QED  BY <1>3, <3>2, <3>3, <3>4, <3>5, <3>6, StaysWritten
  <2>. QED  BY <2>2, <2>3
<1>19. ASSUME pc = "loaded" PROVE Good /\ contest = Whole
  <2>1. /\ UsersGood /\ contest.users = Rows /\ contest.users_count = Len(Rows)
        /\ ProblemsGood /\ contest.problems = FirstProblems(Len(Sheets)) /\ contest.problems_count = Len(Sheets)
        /\ LanguagesGood /\ contest.languages = AllLanguages
    BY <1>3, <1>19 DEF UsersAsRead, ProblemsAsRead, LanguagesAsRead
  <2>2. SandboxGood /\ contest.sandbox = Wished
    BY <1>3, <1>19 DEF SandboxAsRead
  <2>3. contest \in AContest
    BY <1>1 DEF TypeOK
  <2>. QED  BY <2>1, <2>2, <2>3 DEF Good, Whole, AContest
<1>20. CASE WriteJson
  <2>1. contest = Outcome
    BY <1>3, <1>19, <1>20 DEF WriteJson, Outcome
  <2>2. pc' = "sandbox" /\ form' = "json" /\ contest' = Blank /\ first' = Outcome'
    BY <1>20, <2>1, StaysWritten DEF WriteJson
  <2>. QED  BY <2>2 DEF UsersAsRead, ProblemsAsRead, LanguagesAsRead, SandboxAsRead, Blank
<1>21. CASE UNCHANGED vars
  <2>1. UNCHANGED <<pc, form, at, contest, first>>
    BY <1>21 DEF vars
  <2>2. UsersAsRead'
    BY <1>3, <2>1, StaysWritten DEF UsersAsRead
  <2>3. at - 1 \in Nat /\ at' = (at - 1) + 1
    BY <1>1, <2>1 DEF TypeOK
  <2>4. ProblemsAsRead'
    BY <1>2, <1>3, <1>6, <1>7, <2>1, <2>3, StaysWritten DEF ProblemsAsRead
  <2>5. LanguagesAsRead'
    BY <1>3, <1>6, <2>1, <2>3, StaysWritten DEF LanguagesAsRead
  <2>6. SandboxAsRead'
    BY <1>9, <2>1
  <2>. QED  BY <1>3, <2>1, <2>2, <2>4, <2>5, <2>6, StaysWritten
<1>. QED
  BY <1>11, <1>13, <1>17, <1>18, <1>20, <1>21 DEF Next, Returned

(* contest.json says the same things as the .cfg files, whatever it says.  *)
THEOREM SameContestEitherWay == Spec => []SameEitherWay
<1>1. ASSUME Usable, AsRead PROVE SameEitherWay
  <2>. SUFFICES ASSUME pc \in {"loaded", "refused"}, form = "json", SayableInBoth(written)
                PROVE  contest = first
    BY DEF SameEitherWay
  <2>1. first = Outcome
    BY <1>1 DEF AsRead
  <2>2. CASE pc = "refused"
    BY <1>1, <2>1, <2>2 DEF AsRead, Outcome
  <2>3. CASE pc = "loaded"
    <3>1. /\ UsersGood /\ contest.users = Rows /\ contest.users_count = Len(Rows)
          /\ ProblemsGood /\ contest.problems = FirstProblems(Len(Sheets)) /\ contest.problems_count = Len(Sheets)
          /\ LanguagesGood /\ contest.languages = AllLanguages
      BY <1>1, <2>3 DEF AsRead, UsersAsRead, ProblemsAsRead, LanguagesAsRead, UsersPast, ProblemsPast, LanguagesPast
    <3>2. SandboxGood /\ contest.sandbox = Wished
      BY <1>1, <2>3 DEF AsRead, SandboxAsRead, SandboxPast
    <3>3. contest \in AContest
      BY <1>1 DEF Usable, TypeOK
    <3>4. Good /\ contest = Whole
      BY <3>1, <3>2, <3>3 DEF Good, Whole, AContest
    <3>. QED  BY <2>1, <3>4 DEF Outcome
  <2>. QED  BY <2>2, <2>3
<1>2. Usable /\ AsRead /\ [Next]_vars => Usable' /\ AsRead'
  BY UsableStep, AsReadStep
<1>. QED  BY UsableInit, AsReadInit, <1>1, <1>2, PTL DEF Spec
=============================================================================
