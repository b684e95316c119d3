----------------------------- MODULE JsonReader -----------------------------
(***************************************************************************)
(* json_parse_file of reader_json.c: parse_value, parse_object and         *)
(* parse_array call each other as deep as the text is nested, which is the *)
(* stack here.  The text is made up while it is read, a unit at a time: a  *)
(* bracket, a string, a scalar, something that is none of them, the end.   *)
(***************************************************************************)
EXTENDS Integers, SequencesExt

CONSTANTS
  Str,          \* strings parse_string takes
  Scalar,       \* what parse_value takes for true, false, null or a number
  MaxLength,    \* units of a text at most: then it ends
  MaxBlanks     \* blanks among them at most

Bad    == "bad"      \* a string parse_string refuses
Other  == "other"    \* no beginning of a value
End    == "end"      \* the end of the text, or a NUL in it
Blanks == " "
Unit   == {"{", "}", "[", "]", ":", ",", Blanks, Bad, Other, End} \cup Str \cup Scalar

ASSUME JsonAssumption == MaxLength \in Nat /\ MaxBlanks \in Nat

VARIABLES
  read,     \* the units before the cursor
  unit,     \* the unit at the cursor
  stack,    \* the objects and arrays that are not closed yet, with the name to come
  root,     \* the value of the text, once it is complete
  live,     \* blocks of memory held
  spent,    \* there was no memory, or no file
  place     \* where the parser is: see the actions; "accepted", "refused"

jvars == <<read, unit, stack, root, live, spent, place>>

New(type, text) == [type |-> type, text |-> text, items |-> <<>>, keys |-> <<>>]
Null == New("none", "")

JsonInit ==
  /\ read = <<>> /\ unit \in Unit
  /\ stack = <<>> /\ root = Null
  /\ live = 0 /\ spent = FALSE
  /\ place = "open"

----------------------------------------------------------------------------
(* Memory *)

TextBlock == 1

(* What json_free finds: the node, its string, its two arrays, the names   *)
(* and the members.                                                        *)
RECURSIVE Blocks(_)
Blocks(json) ==
  IF json.type \in {"string", "scalar", "none"}
  THEN (CASE json.type = "string" -> 2 [] json.type = "scalar" -> 1 [] OTHER -> 0)
  ELSE 1 + (IF json.items = <<>> THEN 0 ELSE 1) + (IF json.keys = <<>> THEN 0 ELSE 1)
         + Len(json.keys) + FoldLeft(LAMBDA sum, item : sum + Blocks(item), 0, json.items)

NodeOnly(frame) == Blocks(frame.json)
Held(frame)     == Blocks(frame.json) + Cardinality(frame.name)

----------------------------------------------------------------------------
(* The text *)

Tokens == SelectSeq(read, LAMBDA u : u # Blanks)

Advance ==
  /\ read' = Append(read, unit)
  /\ unit' \in IF Len(read) + 1 < MaxLength THEN Unit ELSE {End}
  /\ unit' = Blanks => Len(read') - Len(Tokens') < MaxBlanks

(* The file is read whole, or there is none, or no room for it.            *)
OpenJson ==
  /\ place = "open"
  /\ \/ place' = "value" /\ live' = TextBlock /\ UNCHANGED spent
     \/ place' = "refused" /\ spent' = TRUE /\ UNCHANGED live
  /\ UNCHANGED <<read, unit, stack, root>>

Skips == {"value", "first", "name", "colon", "more", "tail"}

SkipSpace ==
  /\ place \in Skips /\ unit = Blanks
  /\ Advance
  /\ UNCHANGED <<stack, root, live, spent, place>>

----------------------------------------------------------------------------
(* Values *)

Top    == Last(stack)
Closer == IF Top.json.type = "object" THEN "}" ELSE "]"

Appended(json, name, item) ==
  [json EXCEPT !.items = Append(@, item), !.keys = @ \o SetToSeq(name)]

NewArrays(json) ==
  IF json.items # <<>> THEN 0 ELSE IF json.type = "object" THEN 2 ELSE 1

(* A value is complete: it goes into what it is part of.                   *)
Complete(json, above, held) ==
  IF above = <<>>
  THEN root' = json /\ place' = "tail" /\ stack' = above /\ live' = held
  ELSE LET frame  == Last(above)
           parent == Appended(frame.json, frame.name, json)
       IN  /\ stack' = Append(Front(above), [json |-> parent, name |-> {}])
           /\ live' = held + NewArrays(frame.json)
           /\ place' = "more" /\ UNCHANGED root

ReadScalar ==
  /\ place = "value" /\ unit \in Str \cup Scalar
  /\ LET json == New(IF unit \in Str THEN "string" ELSE "scalar", unit)
     IN  Complete(json, stack, live + Blocks(json))
  /\ Advance /\ UNCHANGED spent

Enter ==
  /\ place = "value" /\ unit \in {"{", "["}
  /\ stack' = Append(stack, [json |-> New(IF unit = "{" THEN "object" ELSE "array", ""), name |-> {}])
  /\ live' = live + 1
  /\ place' = "first"
  /\ Advance /\ UNCHANGED <<root, spent>>

ClosesAgain == "first"
NextMember  == IF Top.json.type = "object" THEN "name" ELSE "value"

Begin ==
  /\ place = "first" /\ unit \notin {Closer, Blanks}
  /\ place' = IF Top.json.type = "object" THEN "name" ELSE "value"
  /\ UNCHANGED <<read, unit, stack, root, live, spent>>

ReadName ==
  /\ place = "name" /\ unit \in Str
  /\ stack' = [stack EXCEPT ![Len(stack)].name = {unit}]
  /\ live' = live + 1
  /\ place' = "colon"
  /\ Advance /\ UNCHANGED <<root, spent>>

Colon ==
  /\ place = "colon" /\ unit = ":"
  /\ place' = "value"
  /\ Advance /\ UNCHANGED <<stack, root, live, spent>>

Comma ==
  /\ place = "more" /\ unit = ","
  /\ place' = NextMember
  /\ Advance /\ UNCHANGED <<stack, root, live, spent>>

Leave ==
  /\ place \in {"first", "more"} /\ unit = Closer
  /\ Complete(Top.json, Front(stack), live)
  /\ Advance /\ UNCHANGED spent

Accept ==
  /\ place = "tail" /\ unit = End
  /\ place' = "accepted"
  /\ live' = live - TextBlock
  /\ UNCHANGED <<read, unit, stack, root, spent>>

----------------------------------------------------------------------------
(* Giving up: every function frees what it holds and returns NULL to the   *)
(* one that called it, which does the same.                                *)
GiveUp ==
  /\ place' = "refused"
  /\ stack' = <<>> /\ root' = Null
  /\ live' = live - TextBlock - Blocks(root)
                  - FoldLeft(LAMBDA sum, frame : sum + Held(frame), 0, stack)
  /\ UNCHANGED <<read, unit>>

Values   == {"{", "["} \cup Str \cup Scalar
Expected == CASE place = "value" -> Values [] place = "name" -> Str [] place = "colon" -> {":"}
              [] place = "more" -> {",", Closer} [] place = "tail" -> {End} [] OTHER -> Unit

Fail ==
  /\ place \notin {"open", "accepted", "refused"}
  /\ unit \notin Expected /\ ~(unit = Blanks /\ place \in Skips)
  /\ GiveUp /\ UNCHANGED spent

(* A node, a string, or room for one more member cannot be had.            *)
NoRoom ==
  /\ \/ place = "value" /\ unit \in Values
     \/ place = "name" /\ unit \in Str
     \/ place \in {"first", "more"} /\ unit = Closer /\ Len(stack) > 1
  /\ GiveUp /\ spent' = TRUE

JsonNext ==
  \/ OpenJson \/ SkipSpace \/ ReadScalar \/ Enter \/ Begin \/ ReadName \/ Colon \/ Comma
  \/ Leave \/ Accept \/ Fail \/ NoRoom

----------------------------------------------------------------------------
(* Properties *)

(* Whatever is refused, and wherever memory runs out, is freed to the last *)
(* block; what is accepted holds what json_free will find, and no more.    *)
NothingLeaks ==
  /\ place = "refused" => live = 0
  /\ place = "accepted" => live = Blocks(root)

(* The grammar: what a value, the members of an object and the elements of *)
(* an array of n units are, without blanks.                                *)
Joins(A, B) == {a \o b : a \in A, b \in B}
Chain(one, more) == Joins(Joins(one, {<<",">>}), more)

Grammar[s \in {"value", "elements", "members"}, n \in 0 .. MaxLength] ==
  CASE s = "value" ->
         IF n = 1 THEN {<<u>> : u \in Str \cup Scalar}
         ELSE IF n < 2 THEN {}
         ELSE Joins(Joins({<<"[">>}, IF n = 2 THEN {<<>>} ELSE Grammar["elements", n - 2]), {<<"]">>})
              \cup Joins(Joins({<<"{">>}, IF n = 2 THEN {<<>>} ELSE Grammar["members", n - 2]), {<<"}">>})
    [] s = "elements" ->
         Grammar["value", n]
           \cup UNION {Chain(Grammar["value", k], Grammar["elements", n - k - 1]) : k \in 1 .. n - 1}
    [] s = "members" ->
         LET Member(k) == {<<name, ":">> \o v : name \in Str, v \in Grammar["value", k - 2]}
         IN  (IF n < 3 THEN {} ELSE Member(n))
               \cup UNION {Chain(Member(k), Grammar["members", n - k - 1]) : k \in 3 .. n - 1}

Documents == UNION {Grammar["value", n] : n \in 0 .. MaxLength}
Begun     == UNION {{SubSeq(d, 1, n) : n \in DOMAIN d} : d \in Documents}

RECURSIVE Printed(_)
Printed(json) ==
  IF json.type \in {"string", "scalar"} THEN <<json.text>>
  ELSE LET Member(i) == (IF json.type = "object" THEN <<json.keys[i], ":">> ELSE <<>>)
                          \o Printed(json.items[i])
           Members == FoldLeft(LAMBDA all, i : all \o (IF i = 1 THEN <<>> ELSE <<",">>) \o Member(i),
                               <<>>, [i \in DOMAIN json.items |-> i])
       IN  IF json.type = "object" THEN <<"{">> \o Members \o <<"}">> ELSE <<"[">> \o Members \o <<"]">>

(* json_get: of members with the same name the first one written counts,   *)
(* as the first line with a key does in a .cfg file.                       *)
Named(json, key)   == {i \in DOMAIN json.keys : json.keys[i] = key}
JsonGet(json, key) == json.items[Min(Named(json, key))]

Depth(i) == Cardinality({j \in 1 .. i : Tokens[j] \in {"{", "["}})
            - Cardinality({j \in 1 .. i : Tokens[j] \in {"}", "]"}})
NameAt(key) == {i \in 1 .. Len(Tokens) - 1 :
                  Tokens[i] = key /\ Tokens[i + 1] = ":" /\ Depth(i) = 1}

FirstCounts ==
  \A key \in Str : NameAt(key) # {} =>
    IsPrefix(Printed(JsonGet(root, key)), SubSeq(Tokens, Min(NameAt(key)) + 2, Len(Tokens)))

(* A text is accepted only if the grammar has it, with nothing behind it;  *)
(* its members keep the order they were written in (reader_json.h:13), and *)
(* of two with one name json_get finds the first.  While there is memory,  *)
(* a text is refused only for a unit that no document goes on with: the    *)
(* parser takes the whole grammar and nothing else.                        *)
TakesTheGrammar ==
  /\ place = "accepted" =>
       /\ Tokens \in Documents /\ Printed(root) = Tokens
       /\ root.type = "object" => FirstCounts
  /\ place = "refused" /\ ~spent => unit # Blanks /\ Append(Tokens, unit) \notin Begun
=============================================================================
