----------------------------- MODULE JsonString -----------------------------
(***************************************************************************)
(* parse_string of reader_json.c: what stands between two quotes, copied   *)
(* into a buffer as long as the rest of the text, with the escapes undone  *)
(* and \u in UTF-8.  The text is cut into pieces: a byte that stands for   *)
(* itself, an escape, a \u with the number behind it.                      *)
(***************************************************************************)
EXTENDS Places, SequencesExt

CONSTANT Quoted    \* what stands between the quotes, and whether it is closed

Below(n) == {code \in Nat : code < n}
Piece == [kind : {"byte", "escape"}, code : Below(256)]
         \cup [kind : {"u", "unknown", "badhex"}, code : Below(65536)]

ASSUME QuotedAssumption == \A q \in Quoted : q.pieces \in Seq(Piece) /\ q.closed \in BOOLEAN

VARIABLES
  quoted,   \* the text from the first quote on
  left,     \* the pieces still to be read
  out,      \* the bytes written
  parsed    \* "no", "yes" or "refused"

svars == <<quoted, left, out, parsed>>

StringInit ==
  /\ quoted \in Quoted /\ left = quoted.pieces
  /\ out = <<>> /\ parsed = "no"

----------------------------------------------------------------------------
(* The bytes of a piece, and the room malloc(strlen(p) + 1) gives: the      *)
(* closing quote is not written, and leaves it to the NUL.                 *)
Width(piece) ==
  CASE piece.kind = "byte" -> 1 [] piece.kind = "u" -> 6 [] OTHER -> 2
Bytes(pieces) == SumOver([i \in DOMAIN pieces |-> Width(pieces[i])], DOMAIN pieces)

Room == Bytes(quoted.pieces) + (IF quoted.closed THEN 1 ELSE 0) + 1

High(code) == code \in 55296 .. 56319     \* 0xD800 to 0xDBFF
Low(code)  == code \in 56320 .. 57343     \* 0xDC00 to 0xDFFF

LowBits(code, n) == 128 + ((code \div n) % 64)

PutUtf8(code) ==
  IF code < 128 THEN <<code>>
  ELSE IF code < 2048 THEN <<192 + code \div 64, LowBits(code, 1)>>
  ELSE IF code < 65536 THEN <<224 + code \div 4096, LowBits(code, 64), LowBits(code, 1)>>
  ELSE <<240 + code \div 262144, LowBits(code, 4096), LowBits(code, 64), LowBits(code, 1)>>

Unjoined(high, low) == (high - 55296) * 1024 + (low - 56320)
Joined(high, low)   == 65536 + (high - 55296) * 1024 + (low - 56320)

Reading(kinds) == parsed = "no" /\ left # <<>> /\ Head(left).kind \in kinds

(* The byte itself, or the one an escape such as \n stands for.            *)
OneByte ==
  /\ Reading({"byte", "escape"})
  /\ out' = Append(out, Head(left).code)
  /\ left' = Tail(left)
  /\ UNCHANGED <<quoted, parsed>>

(* A high surrogate with another \u right behind it has to be one of two.  *)
HighHalf(pieces) == High(pieces[1].code) /\ Len(pieces) > 1 /\ pieces[2].kind \in {"u", "badhex"}

CodeUnit ==
  /\ Reading({"u"}) /\ ~HighHalf(left)
  /\ out' = out \o PutUtf8(Head(left).code)
  /\ left' = Tail(left)
  /\ UNCHANGED <<quoted, parsed>>

Pair ==
  /\ Reading({"u"}) /\ HighHalf(left)
  /\ left[2].kind = "u" /\ Low(left[2].code)
  /\ out' = out \o PutUtf8(Joined(left[1].code, left[2].code))
  /\ left' = SubSeq(left, 3, Len(left))
  /\ UNCHANGED <<quoted, parsed>>

RefuseString ==
  /\ \/ Reading({"unknown", "badhex"})
     \/ Reading({"u"}) /\ HighHalf(left) /\ ~(left[2].kind = "u" /\ Low(left[2].code))
     \/ parsed = "no" /\ left = <<>> /\ ~quoted.closed
  /\ parsed' = "refused"
  /\ UNCHANGED <<quoted, left, out>>

CloseString ==
  /\ parsed = "no" /\ left = <<>> /\ quoted.closed
  /\ parsed' = "yes"
  /\ UNCHANGED <<quoted, left, out>>

StringNext == OneByte \/ CodeUnit \/ Pair \/ RefuseString \/ CloseString

----------------------------------------------------------------------------
(* Properties *)

(* The characters the text says, each at its piece: \u is a unit of UTF-16, *)
(* a high half with a low one behind it makes one character, a half of its *)
(* own stays one.                                                          *)
Paired(pieces, i) ==
  /\ i \in 1 .. Len(pieces) - 1 /\ pieces[i].kind = "u" /\ pieces[i + 1].kind = "u"
  /\ High(pieces[i].code) /\ Low(pieces[i + 1].code)
Characters(pieces) == {i \in DOMAIN pieces : ~Paired(pieces, i - 1)}
CodePoint(pieces, i) ==
  IF Paired(pieces, i) THEN 65536 + (pieces[i].code % 1024) * 1024 + (pieces[i + 1].code % 1024)
  ELSE pieces[i].code

(* UTF-8 has as few bytes for a code point as hold it: the first says how  *)
(* many there are, and each of the others has six bits.                    *)
Utf8Length(code) ==
  IF code < 128 THEN 1 ELSE IF code < 2048 THEN 2 ELSE IF code < 65536 THEN 3 ELSE 4
Leads == <<0 .. 127, 192 .. 223, 224 .. 239, 240 .. 247>>
Decoded(bytes) ==
  LET bits(k) == bytes[k] - 128
  IN  IF Len(bytes) = 1 THEN bytes[1]
      ELSE IF Len(bytes) = 2 THEN (bytes[1] - 192) * 64 + bits(2)
      ELSE IF Len(bytes) = 3 THEN (bytes[1] - 224) * 4096 + bits(2) * 64 + bits(3)
      ELSE (bytes[1] - 240) * 262144 + bits(2) * 4096 + bits(3) * 64 + bits(4)
IsUtf8(bytes, code) ==
  /\ Len(bytes) = Utf8Length(code) /\ Decoded(bytes) = code
  /\ bytes[1] \in Leads[Len(bytes)] /\ \A k \in 2 .. Len(bytes) : bytes[k] \in 128 .. 191

(* Where the bytes of a character stand, behind those of all before it,    *)
(* and what they have to be.                                               *)
Length(pieces, i) == IF pieces[i].kind = "u" THEN Utf8Length(CodePoint(pieces, i)) ELSE 1
Before(pieces, i) ==
  SumOver([j \in Characters(pieces) |-> Length(pieces, j)], {j \in Characters(pieces) : j < i})
Own(bytes, pieces, i) == SubSeq(bytes, Before(pieces, i) + 1, Before(pieces, i) + Length(pieces, i))
Says(bytes, pieces, i) ==
  IF pieces[i].kind = "u" THEN IsUtf8(bytes, CodePoint(pieces, i)) ELSE bytes = <<pieces[i].code>>

SoundAt(pieces, i) ==
  /\ pieces[i].kind \notin {"unknown", "badhex"}
  /\ pieces[i].kind = "u" /\ High(pieces[i].code) =>
       i = Len(pieces) \/ pieces[i + 1].kind \notin {"u", "badhex"} \/ Paired(pieces, i)
Sound(pieces) == \A i \in DOMAIN pieces : SoundAt(pieces, i)

(* The string is in UTF-8 what its text says, character by character, and  *)
(* is refused only for an escape that is none, a half that is followed by  *)
(* something else in \u, or a quote that is missing.  On the way there the *)
(* bytes written, and the NUL behind them, fit into the buffer: no escape  *)
(* ever grows, as the comment at reader_json.c:123 has it.                 *)
SaysWhatItMeans ==
  /\ Len(out) + Bytes(left) <= Bytes(quoted.pieces)
  /\ parsed = "yes" =>
       /\ quoted.closed /\ Sound(quoted.pieces)
       /\ Len(out) = Before(quoted.pieces, Len(quoted.pieces) + 1) /\ Len(out) + 1 <= Room
       /\ \A i \in Characters(quoted.pieces) : Says(Own(out, quoted.pieces, i), quoted.pieces, i)
  /\ parsed = "refused" => ~(quoted.closed /\ Sound(quoted.pieces))
=============================================================================
