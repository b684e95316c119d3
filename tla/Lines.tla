------------------------------- MODULE Lines --------------------------------
(***************************************************************************)
(* Five of the submissions in contest/code that work on lines of letters:  *)
(* problem I prints each word of a line backwards, problem A compares two  *)
(* lines whatever the case of their letters.  Three of them read memory    *)
(* they never wrote, and what they do is for what was there to say.        *)
(***************************************************************************)
EXTENDS Integers, SequencesExt

CONSTANTS
  MaxLine     \* bytes of a line at most

Gap      == " "
Null     == "nul"            \* the byte '\0', and the pointer NULL
Junk     == "?"              \* any other byte, and any other pointer
Lower    == [b \in {"a", "A", "b"} |-> IF b = "b" THEN 2 ELSE 1]    \* tolower, in the order of ASCII
LineOf(bytes) == UNION {[1 .. n -> bytes] : n \in 0 .. MaxLine}
Reversers == {"Koshkarov/I", "Murzabayev/I", "Zhanmukanbetova/I"}
Comparers == {"Selevenko/A", "Koshkarov/A"}

ASSUME LinesAssumption == MaxLine \in Nat

VARIABLES
  program,    \* whose submission runs
  line, line2,    \* what it is given, a line each; the second for problem A
  ended,      \* the second line ends in a line break too
  left,       \* what it has not read of the line, or "\n" included when there is more
  sentence,   \* what it keeps in memory of what it has read
  luck,       \* what was in the memory it does not write
  printed,    \* what it has printed
  outcome     \* "no", "returned" or "crashed"

lvars == <<program, line, line2, ended, left, sentence, luck, printed, outcome>>

LinesInit ==
  /\ \/ program \in Reversers /\ line \in LineOf({"a", "b", Gap}) /\ line2 = <<>>
     \/ program \in Comparers /\ line \in LineOf(DOMAIN Lower) /\ line2 \in LineOf(DOMAIN Lower)
  /\ ended \in BOOLEAN /\ (ended \/ (program = "Koshkarov/A" /\ line2 # <<>>))
  /\ left = line
  /\ sentence = <<>> /\ luck \in {Null, Junk}
  /\ printed = <<>> /\ outcome = "no"

Runs(who) == program = who /\ outcome = "no"

(* The word at the front of what is left, and whether a blank ends it.     *)
GapsAt   == {i \in DOMAIN left : left[i] = Gap}
NextWord == SubSeq(left, 1, IF GapsAt = {} THEN Len(left) ELSE Min(GapsAt) - 1)
Behind   == SubSeq(left, Len(NextWord) + 2, Len(left))

Crash ==
  /\ outcome' = "crashed"
  /\ UNCHANGED <<program, line, line2, ended, left, sentence, luck, printed>>

----------------------------------------------------------------------------
(* Koshkarov/I: the whole line is put together first.                      *)

KeepWord ==
  /\ Runs("Koshkarov/I") /\ left # <<>>
  /\ sentence' = sentence \o Reverse(NextWord) \o (IF GapsAt = {} THEN <<>> ELSE <<Gap>>)
  /\ left' = Behind
  /\ UNCHANGED <<program, line, line2, ended, luck, printed, outcome>>

(* The terminator goes one byte too far, and to a NULL where nothing was   *)
(* read; the byte before it was never written.                             *)
Finished(cells) == cells \o <<luck, Null>>

PrintSentence ==
  /\ Runs("Koshkarov/I") /\ left = <<>>
  /\ IF line = <<>>
     THEN Crash
     ELSE LET cells == Finished(sentence)
              stop  == Min({i \in DOMAIN cells : cells[i] = Null})
          IN  /\ printed' = SubSeq(cells, 1, stop - 1)
              /\ outcome' = "returned"
              /\ UNCHANGED <<program, line, line2, ended, left, sentence, luck>>

----------------------------------------------------------------------------
(* Murzabayev/I: each word is printed as soon as it ends.                  *)

Forwards(word)  == word
Backwards(word) == Reverse(word)

PrintWord ==
  /\ Runs("Murzabayev/I")
  /\ printed' = printed \o Backwards(NextWord) \o (IF GapsAt = {} THEN <<>> ELSE <<Gap>>)
  /\ left' = Behind
  /\ outcome' = IF GapsAt = {} THEN "returned" ELSE "no"
  /\ UNCHANGED <<program, line, line2, ended, sentence, luck>>

----------------------------------------------------------------------------
(* Zhanmukanbetova/I: the pointer the first realloc is given was never     *)
(* set; and the last word is followed by a blank as well.                  *)

PrintWordAndBlank ==
  /\ Runs("Zhanmukanbetova/I")
  /\ IF luck = Junk
     THEN Crash
     ELSE /\ printed' = printed \o Reverse(NextWord) \o <<Gap>>
          /\ left' = Behind
          /\ outcome' = IF GapsAt = {} THEN "returned" ELSE "no"
          /\ UNCHANGED <<program, line, line2, ended, sentence, luck>>

----------------------------------------------------------------------------
(* problem A: -1, 0 or 1, as the second line comes before the first, is    *)
(* the same, or comes after it                                             *)

Folded(text) == [i \in DOMAIN text |-> Lower[text[i]]]

(* strcmp of two texts, the bytes of which stop at the first zero.         *)
Strcmp(s, t) ==
  LET n     == Max({Len(s), Len(t)}) + 1
      At(u, i) == IF i <= Len(u) THEN u[i] ELSE 0
      differ == {i \in 1 .. n : At(s, i) # At(t, i)}
  IN  IF differ = {} THEN 0 ELSE IF At(s, Min(differ)) < At(t, Min(differ)) THEN -1 ELSE 1

(* Selevenko/A terminates its second buffer only.                          *)
AnyByte == {1, 2, 9}
Unended(text) == IF luck = Null THEN {text} ELSE {Append(text, b) : b \in AnyByte}

CompareBuffers ==
  /\ Runs("Selevenko/A")
  /\ \E first \in Unended(Folded(line)) : printed' = <<Strcmp(Folded(line2), first)>>
  /\ outcome' = "returned"
  /\ UNCHANGED <<program, line, line2, ended, left, sentence, luck>>

(* Koshkarov/A goes on while neither line is over, line breaks and all: a  *)
(* line break comes before every letter.                                   *)
Break == 0 - 1
Whole(text, broken) == IF broken THEN Append(text, Break) ELSE text

SameLength(s, t) == {i \in DOMAIN s : Len(s) = Len(t) /\ s[i] # t[i]}
Differ(s, t)     == {i \in DOMAIN s \cap DOMAIN t : s[i] # t[i]}
CmpStr(s, t)     == IF Differ(s, t) = {} THEN 0
                    ELSE IF s[Min(Differ(s, t))] < t[Min(Differ(s, t))] THEN 1 ELSE -1

CompareLines ==
  /\ Runs("Koshkarov/A")
  /\ printed' = <<CmpStr(Whole(Folded(line), TRUE), Whole(Folded(line2), ended))>>
  /\ outcome' = "returned"
  /\ UNCHANGED <<program, line, line2, ended, left, sentence, luck>>

----------------------------------------------------------------------------
LinesNext ==
  KeepWord \/ PrintSentence \/ PrintWord \/ PrintWordAndBlank \/ CompareBuffers \/ CompareLines

----------------------------------------------------------------------------
(* Properties *)

(* A line with its words turned round where they stand: a blank stays, and *)
(* a letter changes place with the one as far from the other end.          *)
From(i) == Min({k \in 1 .. i : \A m \in k .. i : line[m] # Gap})
To(i)   == Max({k \in i .. Len(line) : \A m \in i .. k : line[m] # Gap})
Turned  == [i \in DOMAIN line |-> IF line[i] = Gap THEN Gap ELSE line[From(i) + To(i) - i]]

(* Murzabayev/I is right on every line, Zhanmukanbetova/I but for a blank  *)
(* that the checker does not see, unless the pointer was not NULL by luck  *)
(* (README.md:302-305 has it among the submissions that crash), and        *)
(* Koshkarov/I but for the one byte it never writes (README.md:324-328).   *)
WordsAreTurned ==
  /\ program = "Murzabayev/I" => (outcome = "no" \/ printed = Turned) /\ outcome # "crashed"
  /\ program = "Zhanmukanbetova/I" =>
       /\ outcome = "returned" => printed = Append(Turned, Gap)
       /\ outcome = "crashed" => luck = Junk
  /\ program = "Koshkarov/I" =>
       /\ outcome = "returned" => printed = Turned \o (IF luck = Null THEN <<>> ELSE <<luck>>)
       /\ outcome = "crashed" => line = <<>>

(* Selevenko/A is right unless the first line is all of the beginning of   *)
(* the second, where it is luck; Koshkarov/A is right unless the second    *)
(* line has no line break and is the beginning of the first.               *)
Rank(s, t) ==
  IF s = t THEN 0
  ELSE IF IsPrefix(s, t) \/ (~IsPrefix(t, s) /\ LET k == CHOOSE k \in DOMAIN s \cap DOMAIN t :
                                                     SubSeq(s, 1, k - 1) = SubSeq(t, 1, k - 1) /\ s[k] # t[k]
                                                IN  s[k] < t[k])
       THEN -1 ELSE 1

LinesAreCompared ==
  program \in Comparers /\ outcome = "returned" =>
    \/ printed = <<Rank(Folded(line2), Folded(line))>>
    \/ program = "Selevenko/A" /\ luck = Junk /\ IsPrefix(Folded(line), Folded(line2))
    \/ program = "Koshkarov/A" /\ ~ended /\ IsPrefix(Folded(line2), Folded(line))
=============================================================================
