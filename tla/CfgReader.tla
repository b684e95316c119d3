----------------------------- MODULE CfgReader -----------------------------
(***************************************************************************)
(* get_cfgs of reader_cfg.c: a .cfg file is read into rows of words, a row *)
(* for each line, split at the first = of the line.  get_cfgs, get_list    *)
(* and get_word share one byte, *end, that says how the last word stopped, *)
(* and a NULL row ends the rows for whoever walks them.                    *)
(***************************************************************************)
EXTENDS Places, SequencesExt

CONSTANT CfgText    \* the texts of a .cfg file looked at

Break  == "\n"
Equals == "="
AtEnd  == "|"            \* get_word has met the end of the file
Fresh  == "8"            \* get_list has read nothing of the line
Space  == " "
NoRow  == << <<>> >>     \* NULL: no row has an empty word in it

ASSUME CfgTextAssumption == \A text \in CfgText : text \in Seq(STRING)

VARIABLES
  source,   \* the text of the file
  rest,     \* what is still to be read of it
  kind,     \* what was opened: "file" or "directory"
  end,      \* the byte they share
  row,      \* get_list's words so far
  rows,     \* get_cfgs' rows so far
  short,    \* memory has run out, which it does once at most
  stage     \* "open", "row", "word"; "returned", "refused", "crashed"

cvars == <<source, rest, kind, end, row, rows, short, stage>>

CfgInit ==
  /\ source \in CfgText /\ rest = source
  /\ kind \in {"file", "directory"}
  /\ end = "" /\ row = <<>> /\ rows = <<>>
  /\ short = FALSE /\ stage = "open"

----------------------------------------------------------------------------
(* get_cfgs *)

Open ==
  /\ stage = "open"
  /\ stage' \in {"row", "refused"}
  /\ UNCHANGED <<source, rest, kind, end, row, rows, short>>

NextRow ==
  /\ stage = "row" /\ end # AtEnd
  /\ end' = Fresh /\ row' = <<>> /\ stage' = "word"
  /\ UNCHANGED <<source, rest, kind, rows, short>>

(* The rows are freed, unless there are none yet: cfgs is NULL still when  *)
(* its end is written to.                                                  *)
NoRoomForRow ==
  /\ stage = "row" /\ end # AtEnd /\ ~short
  /\ short' = TRUE
  /\ stage' = IF rows = <<>> THEN "crashed" ELSE "refused"
  /\ UNCHANGED <<source, rest, kind, end, row, rows>>

Return ==
  /\ stage = "row" /\ end = AtEnd
  /\ stage' = "returned"
  /\ UNCHANGED <<source, rest, kind, end, row, rows, short>>

----------------------------------------------------------------------------
(* get_list and get_word *)

AnyEquals == {Break, Equals}
Stops     == IF row = <<>> THEN {Break, Equals} ELSE {Break}

StopAt == {i \in DOMAIN rest : rest[i] \in Stops}
Word   == SubSeq(rest, 1, IF StopAt = {} THEN Len(rest) ELSE Min(StopAt) - 1)
Beyond == SubSeq(rest, Len(Word) + 2, Len(rest))
Stop   == IF StopAt = {} THEN AtEnd ELSE rest[Min(StopAt)]

(* A word of no bytes is NULL, and ends its row rather than be part of it. *)
Words == IF Word = <<>> THEN row ELSE Append(row, Word)

(* How *end is left for get_cfgs, and for the next word.                   *)
Left == IF Stop = AtEnd THEN AtEnd ELSE Space

(* read fails on a directory, and -1 is not the 0 of the end of a file.    *)
OrAtEnd == kind = "directory" \/ rest = <<>>
Failing == kind = "directory"

ReadWord ==
  /\ stage = "word" /\ ~Failing
  /\ rest' = Beyond /\ end' = Left
  /\ IF Stop \in {AtEnd, Break}
     THEN rows' = Append(rows, Words) /\ stage' = "row" /\ UNCHANGED row
     ELSE IF Word = <<>>
          THEN rows' = Append(rows, NoRow) /\ stage' = "row" /\ UNCHANGED row
          ELSE row' = Words /\ UNCHANGED <<rows, stage>>
  /\ UNCHANGED <<source, kind, short>>

(* The row is given up, and what is left of its line is read as another.   *)
NoRoomForWord ==
  /\ stage = "word" /\ ~short
  /\ short' = TRUE
  /\ rows' = Append(rows, NoRow) /\ stage' = "row"
  /\ UNCHANGED <<source, rest, kind, end, row>>

(* A byte is put into a word that was given no room.                       *)
NoRoomForByte ==
  /\ stage = "word" /\ (Failing \/ Word # <<>>) /\ ~short
  /\ short' = TRUE /\ stage' = "crashed"
  /\ UNCHANGED <<source, rest, kind, end, row, rows>>

(* The byte that was there before joins the word, over and over.           *)
ReadFails == stage = "word" /\ Failing /\ UNCHANGED cvars

----------------------------------------------------------------------------
Over == stage \in {"returned", "refused", "crashed"}

CfgStep == Open \/ NextRow \/ Return \/ ReadWord \/ ReadFails

CfgNext == CfgStep \/ NoRoomForRow \/ NoRoomForWord \/ NoRoomForByte

----------------------------------------------------------------------------
(* Properties *)

(* What there is to be seen: cfg_lookup, the loops of config.c and         *)
(* free_cfgs all stop at the first NULL.                                   *)
Nulls   == {i \in DOMAIN rows : rows[i] = NoRow}
Visible == IF Nulls = {} THEN rows ELSE SubSeq(rows, 1, Min(Nulls) - 1)

(* The lines of a text, each from where it starts to a line break or the   *)
(* end, and the row that a line is.                                        *)
FirstOr(places, none) == IF places = {} THEN none ELSE Min(places)

Starts(text)    == {1} \cup {i + 1 : i \in {j \in DOMAIN text : text[j] = Break}}
LineAt(text, i) ==
  SubSeq(text, i, FirstOr({j \in i .. Len(text) : text[j] = Break}, Len(text) + 1) - 1)
Lines(text)     == InOrder(Starts(text), [i \in Starts(text) |-> LineAt(text, i)])

FirstEquals(line) == FirstOr({i \in DOMAIN line : line[i] = Equals}, Len(line) + 1)
Key(line)   == SubSeq(line, 1, FirstEquals(line) - 1)
Value(line) == SubSeq(line, FirstEquals(line) + 1, Len(line))
RowOf(line) ==
  IF line = <<>> THEN <<>>
  ELSE IF Value(line) = <<>> THEN <<Key(line)>> ELSE <<Key(line), Value(line)>>

Keyless(line) == line # <<>> /\ Head(line) = Equals

RowsOf(lines) ==
  [n \in 1 .. FirstOr({m \in DOMAIN lines : Keyless(lines[m])}, Len(lines) + 1) - 1 |->
     RowOf(lines[n])]

(* One row per line, split at the first = (reader_cfg.h:4-5), up to a line *)
(* that begins with =: from there on the file might as well not be there,  *)
(* and nobody is told.  Where memory runs out it ends sooner still, but a  *)
(* row that can be seen is always a line of the file, in its place.        *)
LinesAreRows ==
  stage = "returned" =>
    IF short THEN IsPrefix(Visible, RowsOf(Lines(source))) ELSE Visible = RowsOf(Lines(source))

=============================================================================
