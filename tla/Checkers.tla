------------------------------ MODULE Checkers ------------------------------
(***************************************************************************)
(* The two comparisons compiled into the runner (test.c): checker_byte     *)
(* goes word by word, checker_int byte by byte past the spaces.  Both read *)
(* the output and the answer side by side, once, from front to back.       *)
(***************************************************************************)
EXTENDS Places, SequencesExt

CONSTANTS
  Letter,      \* the bytes that are neither a space, a line break nor NUL
  MaxOutput,   \* the longest output and the longest answer looked at
  MaxAnswer

Space     == "space"
LineBreak == "line break"
Zero      == "zero"           \* a NUL byte in the middle of a file
Blank     == {Space, LineBreak}
Byte      == Letter \cup Blank \cup {Zero}

EndOfFile == "eof"            \* the -1 of next_byte
Undecided == "none"

ASSUME CheckersAssumption ==
  /\ MaxOutput \in Nat /\ MaxAnswer \in Nat
  /\ Letter \cap {Space, LineBreak, Zero, EndOfFile} = {}

VARIABLES
  checker,           \* problem->checker
  output, answer,    \* the two files
  outAt, ansAt,      \* how much of each has been read
  mark               \* what the checker returned, Undecided until it does

vars == <<checker, output, answer, outAt, ansAt, mark>>

Init ==
  /\ checker \in {"checker_byte", "checker_int"}
  /\ output \in BoundedSeq(Byte, MaxOutput)
  /\ answer \in BoundedSeq(Byte, MaxAnswer)
  /\ outAt = 0 /\ ansAt = 0
  /\ mark = Undecided

----------------------------------------------------------------------------
(* checker_byte *)

(* What strcmp sees of a word: the bytes before the first NUL. *)
CString(word) ==
  LET zeros == {i \in DOMAIN word : word[i] = Zero}
  IN  IF zeros = {} THEN word ELSE SubSeq(word, 1, Min(zeros) - 1)

(* The next word of a file of which `at' bytes have been read.  A word that *)
(* the end of the file cuts off loses its last byte: the loop is left       *)
(* before i is counted up, and the terminating NUL is put over that byte.   *)
GetWord(file, at) ==
  LET starts == {i \in at + 1 .. Len(file) : file[i] \notin Blank}
      ends   == {i \in Min(starts) .. Len(file) : file[i] \in Blank}
  IN  IF starts = {}
      THEN [found |-> FALSE, word |-> <<>>, at |-> Len(file)]
      ELSE IF ends = {}
           THEN [found |-> TRUE, at |-> Len(file),
                 word  |-> SubSeq(file, Min(starts), Len(file) - 1)]
           ELSE [found |-> TRUE, at |-> Min(ends),
                 word  |-> SubSeq(file, Min(starts), Min(ends) - 1)]

(* One of the two files has no word left: + unless the other one has. *)
OutputDecides(out, ans) == IF out.found THEN "-" ELSE "+"
AtTheEnd(out, ans)      == IF out.found \/ ans.found THEN "-" ELSE "+"

CompareWords ==
  /\ checker = "checker_byte" /\ mark = Undecided
  /\ LET out == GetWord(output, outAt)
         ans == GetWord(answer, ansAt)
     IN  /\ outAt' = out.at /\ ansAt' = ans.at
         /\ mark' = IF out.found /\ ans.found
                    THEN IF CString(out.word) = CString(ans.word) THEN Undecided ELSE "-"
                    ELSE AtTheEnd(out, ans)
  /\ UNCHANGED <<checker, output, answer>>

----------------------------------------------------------------------------
(* checker_int *)

SkipsBreaks(file, at) ==
  LET rest == {i \in at + 1 .. Len(file) : file[i] \notin Blank}
  IN  IF rest = {} THEN [byte |-> EndOfFile, at |-> Len(file)]
                   ELSE [byte |-> file[Min(rest)], at |-> Min(rest)]

(* The next byte of a file that is not a space. *)
NextByte(file, at) ==
  LET rest == {i \in at + 1 .. Len(file) : file[i] # Space}
  IN  IF rest = {} THEN [byte |-> EndOfFile, at |-> Len(file)]
                   ELSE [byte |-> file[Min(rest)], at |-> Min(rest)]

(* Both files gave the same byte: + if that is the end of both. *)
OnEqual(byte) == IF byte = EndOfFile THEN "+" ELSE Undecided

CompareBytes ==
  /\ checker = "checker_int" /\ mark = Undecided
  /\ LET expected == NextByte(answer, ansAt)
         got      == NextByte(output, outAt)
     IN  /\ outAt' = got.at /\ ansAt' = expected.at
         /\ mark' = IF expected.byte # got.byte THEN "-" ELSE OnEqual(expected.byte)
  /\ UNCHANGED <<checker, output, answer>>

----------------------------------------------------------------------------
Compare == CompareWords \/ CompareBytes

Returned == mark # Undecided /\ UNCHANGED vars

Next == Compare \/ Returned

Spec == Init /\ [][Next]_vars

----------------------------------------------------------------------------
(* Properties *)

(* The words of a file, said without reading it: its longest runs of bytes *)
(* that are not blank.                                                     *)
Begins(file) == {i \in DOMAIN file : file[i] \notin Blank /\ (i > 1 => file[i - 1] \in Blank)}

WordEnd(file, i) ==
  CHOOSE j \in i .. Len(file) :
    (\A k \in i .. j : file[k] \notin Blank) /\ (j < Len(file) => file[j + 1] \in Blank)

Words(file) == InOrder(Begins(file), [i \in Begins(file) |-> SubSeq(file, i, WordEnd(file, i))])

(* The words checker_byte gets to see: one that no blank follows has lost  *)
(* its last byte, and a NUL ends a word early.                             *)
SeenEnd(file, i) == IF WordEnd(file, i) = Len(file) THEN Len(file) - 1 ELSE WordEnd(file, i)
SeenWords(file)  == [i \in Begins(file) |-> CString(SubSeq(file, i, SeenEnd(file, i)))]
Seen(file)       == InOrder(Begins(file), SeenWords(file))

(* checker_byte accepts an output when the words it sees are, one by one,  *)
(* the words it sees of the answer, and only then: how many blanks stand   *)
(* before a word or behind the one that ends it makes no difference, but   *)
(* whether one stands behind the last does, as Seen has it.                *)
WordsDecide ==
  checker = "checker_byte" /\ mark # Undecided =>
    (mark = "+" <=> Seen(output) = Seen(answer))

(* checker_int accepts an output when it is the answer but for the spaces, *)
(* and only then: an output that is a prefix of the answer is wrong.       *)
Solid(file)    == {i \in DOMAIN file : file[i] # Space}
Squeezed(file) == InOrder(Solid(file), file)

BytesDecide ==
  checker = "checker_int" /\ mark # Undecided =>
    (mark = "+" <=> Squeezed(output) = Squeezed(answer))

(* README.md: checker_byte compares word by word, so that extra spaces and *)
(* line breaks do not matter.  Said of files of text, without NULs.        *)
IsText(file) == \A i \in DOMAIN file : file[i] # Zero

BlanksDoNotMatter ==
  checker = "checker_byte" /\ mark # Undecided /\ IsText(output) /\ IsText(answer) =>
    (mark = "+" <=> Words(output) = Words(answer))
=============================================================================
