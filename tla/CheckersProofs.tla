--------------------------- MODULE CheckersProofs ---------------------------
(***************************************************************************)
(* Answers and what is held against them.  The two comparisons accept      *)
(* exactly what their definitions over whole files accept, for files of    *)
(* every length over any bytes; and two of the submissions whose answers   *)
(* they compare answer what their problem asks for, for lines of every     *)
(* length.                                                                 *)
(*                                                                         *)
(* Both comparisons read two files side by side and stop where one has     *)
(* something else than the other.  That much is the same for words and for *)
(* bytes: there are places in either file, with something at each; a turn  *)
(* of the loop goes on to the next place in both.                          *)
(***************************************************************************)
EXTENDS Checkers, Lines, TLAPS, FiniteSetTheorems, MarksProofs

(* The places up to a of S and up to b of T are as many, and have the same *)
(* things at them.                                                         *)
SameSoFar(S, f, a, T, g, b) ==
  /\ CountTo(S, a) = CountTo(T, b)
  /\ \A n \in 1 .. CountTo(S, a) : f[Nth(S, n)] = g[Nth(T, n)]

(* Both files have the same at their next places: they are the same so far, *)
(* and otherwise they differ.                                              *)
LEMMA BothHaveMore ==
  ASSUME NEW S, NEW f, NEW a, NEW m, NEW y, GoesOn(S, a, m, y),
         NEW T, NEW g, NEW b, NEW k, NEW z, GoesOn(T, b, k, z),
         SameSoFar(S, f, a, T, g, b)
  PROVE  /\ f[m] = g[k] => SameSoFar(S, f, y, T, g, z)
         /\ f[m] # g[k] => InOrder(S, f) # InOrder(T, g)
<1>. USE DEF GoesOn
<1>. DEFINE n == CountTo(S, a)
<1>1. /\ n \in Nat /\ n = CountTo(T, b)
      /\ CountTo(S, y) = n + 1 /\ CountTo(T, z) = n + 1
      /\ CountTo(S, m) = n + 1 /\ CountTo(T, k) = n + 1
  BY CountFacts, OneMorePlace DEF SameSoFar
<1>2. Nth(S, n + 1) = m /\ Nth(T, n + 1) = k
  BY <1>1, NthIs DEF IsNext
<1>3. ASSUME f[m] = g[k] PROVE SameSoFar(S, f, y, T, g, z)
  <2>1. ASSUME NEW i \in 1 .. n + 1 PROVE f[Nth(S, i)] = g[Nth(T, i)]
    <3>1. i \in 1 .. n \/ i = n + 1
      BY <1>1
    <3>. QED  BY <1>2, <1>3, <3>1 DEF SameSoFar
  <2>. QED  BY <1>1, <2>1 DEF SameSoFar
<1>4. ASSUME f[m] # g[k] PROVE InOrder(S, f) # InOrder(T, g)
  <2>1. m \in Nat /\ k \in Nat
    BY DEF IsNext, IsPlaces
  <2>2. n + 1 \in 1 .. Cardinality(S) /\ n + 1 \in 1 .. Cardinality(T)
    BY <1>1, <2>1, CountFacts
  <2>3. InOrder(S, f)[n + 1] = f[m] /\ InOrder(T, g)[n + 1] = g[k]
    BY <1>2, <2>2 DEF InOrder
  <2>. QED  BY <1>4, <2>3
<1>. QED  BY <1>3, <1>4

(* One file has another place and the other has none.                      *)
LEMMA OneHasMore ==
  ASSUME NEW S, NEW f, NEW a \in Nat, NEW m, NEW y \in Nat, IsPlaces(S), IsNext(S, a, m, y),
         NEW T, NEW g, NEW b \in Nat, IsPlaces(T), \A i \in T : i <= b,
         CountTo(S, a) = CountTo(T, b)
  PROVE  InOrder(S, f) # InOrder(T, g)
<1>1. Cardinality(S) \in Nat /\ Cardinality(T) \in Nat /\ CountTo(T, b) = Cardinality(T)
  BY CountFacts
<1>2. m \in Nat
  BY DEF IsNext, IsPlaces
<1>3. CountTo(S, m) \in 0 .. Cardinality(S) /\ CountTo(S, m) = Cardinality(T) + 1
  BY <1>1, <1>2, CountFacts, OneMorePlace
<1>4. 1 .. Cardinality(S) # 1 .. Cardinality(T)
  <2>1. Cardinality(T) + 1 \in 1 .. Cardinality(S) /\ Cardinality(T) + 1 \notin 1 .. Cardinality(T)
    BY <1>1, <1>3
  <2>. QED  BY <2>1
<1>5. DOMAIN InOrder(S, f) = 1 .. Cardinality(S) /\ DOMAIN InOrder(T, g) = 1 .. Cardinality(T)
  BY DEF InOrder
<1>. QED  BY <1>4, <1>5

(* Both are at their ends.                                                 *)
LEMMA NoneHasMore ==
  ASSUME NEW S, NEW f, NEW a \in Nat, IsPlaces(S), \A i \in S : i <= a,
         NEW T, NEW g, NEW b \in Nat, IsPlaces(T), \A i \in T : i <= b,
         SameSoFar(S, f, a, T, g, b)
  PROVE  InOrder(S, f) = InOrder(T, g)
<1>1. CountTo(S, a) = Cardinality(S) /\ CountTo(T, b) = Cardinality(T)
  BY CountFacts
<1>. QED  BY <1>1 DEF SameSoFar, InOrder

----------------------------------------------------------------------------
(* The two readers *)

LEMMA PlacesOfFiles ==
  ASSUME NEW file \in Seq(Byte)
  PROVE  /\ DOMAIN file = 1 .. Len(file) /\ Len(file) \in Nat
         /\ IsPlaces(Begins(file)) /\ IsPlaces(Solid(file))
         /\ \A i \in Begins(file) \cup Solid(file) : i \in 1 .. Len(file)
<1>1. DOMAIN file = 1 .. Len(file) /\ Len(file) \in Nat
  OBVIOUS
<1>2. IsFiniteSet(1 .. Len(file))
  BY <1>1, FS_Interval
<1>3. Begins(file) \subseteq 1 .. Len(file) /\ Solid(file) \subseteq 1 .. Len(file)
  BY <1>1 DEF Begins, Solid
<1>4. IsFiniteSet(Begins(file)) /\ IsFiniteSet(Solid(file))
  BY <1>2, <1>3, FS_Subset
<1>5. 1 .. Len(file) \subseteq Nat \ {0}
  BY <1>1
<1>. QED  BY <1>1, <1>3, <1>4, <1>5 DEF IsPlaces

(* get_word is called at the front of a file, behind the blank that ended  *)
(* the last word, or at the end.                                           *)
AtBlank(file, at) == at = 0 \/ at = Len(file) \/ file[at] \in Blank

(* There is one way for a word to end.                                     *)
LEMMA WordEndIs ==
  ASSUME NEW file \in Seq(Byte), NEW i \in 1 .. Len(file), NEW j \in i .. Len(file),
         \A k \in i .. j : file[k] \notin Blank, j < Len(file) => file[j + 1] \in Blank
  PROVE  WordEnd(file, i) = j
<1>1. ASSUME NEW e \in i .. Len(file), \A k \in i .. e : file[k] \notin Blank,
             e < Len(file) => file[e + 1] \in Blank
      PROVE  e = j
  <2>1. e \in Nat /\ j \in Nat /\ i \in Nat /\ Len(file) \in Nat
    OBVIOUS
  <2>2. CASE e < j
    <3>1. e + 1 \in i .. j /\ e < Len(file)
      BY <2>1, <2>2
    <3>. QED  BY <1>1, <3>1
  <2>3. CASE j < e
    <3>1. j + 1 \in i .. e /\ j < Len(file)
      BY <2>1, <2>3
    <3>. QED  BY <1>1, <3>1
  <2>. QED  BY <2>1, <2>2, <2>3
<1>. QED  BY <1>1 DEF WordEnd

LEMMA GetWordReads ==
  ASSUME NEW file \in Seq(Byte), NEW at \in 0 .. Len(file), AtBlank(file, at)
  PROVE  /\ GetWord(file, at).found \in BOOLEAN
         /\ GetWord(file, at).at \in 0 .. Len(file)
         /\ AtBlank(file, GetWord(file, at).at)
         /\ ~GetWord(file, at).found => \A i \in Begins(file) : i <= at
         /\ GetWord(file, at).found =>
              \E m : /\ IsNext(Begins(file), at, m, GetWord(file, at).at)
                     /\ CString(GetWord(file, at).word) = SeenWords(file)[m]
<1>. DEFINE starts == {i \in at + 1 .. Len(file) : file[i] \notin Blank}
            m      == Min(starts)
            ends   == {i \in m .. Len(file) : file[i] \in Blank}
<1>1. Len(file) \in Nat /\ DOMAIN file = 1 .. Len(file) /\ at \in Nat /\ at <= Len(file)
  OBVIOUS
<1>2. ASSUME NEW i \in Begins(file) PROVE i \in Nat /\ i \in 1 .. Len(file) /\ file[i] \notin Blank
  BY <1>1 DEF Begins
<1>3. CASE starts = {}
  <2>1. GetWord(file, at) = [found |-> FALSE, word |-> <<>>, at |-> Len(file)]
    BY <1>3 DEF GetWord
  <2>2. ASSUME NEW i \in Begins(file) PROVE i <= at
    <3>1. SUFFICES ASSUME at < i PROVE FALSE
      BY <1>1, <1>2
    <3>2. i \in starts
      BY <1>1, <1>2, <3>1
    <3>. QED  BY <1>3, <3>2
  <2>3. Len(file) \in 0 .. Len(file)
    BY <1>1
  <2>4. AtBlank(file, Len(file))
    BY DEF AtBlank
  <2>. QED  BY <2>1, <2>2, <2>3, <2>4
<1>4. CASE starts # {}
  <2>1. starts \in SUBSET Nat
    BY <1>1
  <2>2. m \in starts /\ \A i \in starts : m <= i
    <3>. HIDE DEF starts
    <3>. QED  BY <1>4, <2>1, LeastNatural
  <2>. HIDE DEF m
  <2>3. m \in Nat /\ at < m /\ m \in 1 .. Len(file) /\ file[m] \notin Blank
    BY <1>1, <2>2
  <2>4. ASSUME m > 1 PROVE file[m - 1] \in Blank
    <3>1. m - 1 \in Nat /\ m - 1 >= 1 /\ m - 1 <= Len(file) /\ at <= m - 1
      BY <1>1, <2>3, <2>4
    <3>2. CASE at = m - 1
      BY <1>1, <2>3, <2>4, <3>1, <3>2 DEF AtBlank
    <3>3. CASE at < m - 1
      <4>1. m - 1 \in at + 1 .. Len(file) /\ ~(m <= m - 1)
        BY <1>1, <2>3, <3>1, <3>3
      <4>. QED  BY <2>2, <4>1
    <3>. QED  BY <1>1, <3>1, <3>2, <3>3
  <2>5. m \in Begins(file)
    BY <1>1, <2>3, <2>4 DEF Begins
  <2>6. ASSUME NEW i \in Begins(file) PROVE i <= at \/ m <= i
    <3>1. SUFFICES ASSUME at < i PROVE m <= i
      BY <1>1, <1>2
    <3>2. i \in starts
      BY <1>1, <1>2, <3>1
    <3>. QED  BY <2>2, <3>2
  <2>7. CASE ends = {}
    <3>1. GetWord(file, at) = [found |-> TRUE, at |-> Len(file), word |-> SubSeq(file, m, Len(file) - 1)]
      BY <1>4, <2>7 DEF GetWord, m
    <3>2. \A k \in m .. Len(file) : file[k] \notin Blank
      BY <2>7
    <3>3. WordEnd(file, m) = Len(file)
      <4>1. Len(file) \in m .. Len(file) /\ ~(Len(file) < Len(file))
        BY <1>1, <2>3
      <4>. QED  BY <2>3, <3>2, <4>1, WordEndIs
    <3>4. CString(GetWord(file, at).word) = SeenWords(file)[m]
      BY <2>5, <3>1, <3>3 DEF SeenWords, SeenEnd
    <3>5. ASSUME NEW i \in Begins(file) PROVE i <= m
      <4>1. SUFFICES ASSUME m < i PROVE FALSE
        BY <1>2, <2>3
      <4>2. i - 1 \in m .. Len(file) /\ i > 1
        BY <1>1, <1>2, <2>3, <4>1
      <4>3. file[i - 1] \in Blank
        BY <4>2 DEF Begins
      <4>. QED  BY <3>2, <4>2, <4>3
    <3>6. IsNext(Begins(file), at, m, Len(file))
      BY <1>1, <2>3, <2>5, <2>6, <3>5 DEF IsNext
    <3>7. Len(file) \in 0 .. Len(file)
      BY <1>1
    <3>8. AtBlank(file, Len(file))
      BY DEF AtBlank
    <3>. QED  BY <3>1, <3>4, <3>6, <3>7, <3>8
  <2>8. CASE ends # {}
    <3>. DEFINE z == Min(ends)
    <3>1. ends \in SUBSET Nat
      BY <1>1, <2>3
    <3>2. z \in ends /\ \A i \in ends : z <= i
      <4>. HIDE DEF ends
      <4>. QED  BY <2>8, <3>1, LeastNatural
    <3>3. GetWord(file, at) = [found |-> TRUE, at |-> z, word |-> SubSeq(file, m, z - 1)]
      BY <1>4, <2>8 DEF GetWord, m
    <3>. HIDE DEF z
    <3>4. z \in Nat /\ m < z /\ z <= Len(file) /\ file[z] \in Blank
      <4>1. z \in Nat /\ m <= z /\ z <= Len(file) /\ file[z] \in Blank
        BY <1>1, <2>3, <3>2
      <4>2. z # m
        BY <2>3, <4>1
      <4>. QED  BY <2>3, <4>1, <4>2
    <3>5. ASSUME NEW k \in m .. z - 1 PROVE file[k] \notin Blank
      <4>1. k \in m .. Len(file) /\ ~(z <= k)
        BY <1>1, <2>3, <3>4
      <4>. QED  BY <3>2, <4>1
    <3>6. WordEnd(file, m) = z - 1 /\ z - 1 # Len(file)
      <4>1. z - 1 \in m .. Len(file) /\ (z - 1) + 1 = z /\ z - 1 # Len(file)
        BY <1>1, <2>3, <3>4
      <4>. QED  BY <2>3, <3>4, <3>5, <4>1, WordEndIs
    <3>7. CString(GetWord(file, at).word) = SeenWords(file)[m]
      BY <2>5, <3>3, <3>6 DEF SeenWords, SeenEnd
    <3>8. ASSUME NEW i \in Begins(file) PROVE i <= m \/ z < i
      <4>1. SUFFICES ASSUME m < i, i <= z PROVE FALSE
        BY <1>2, <2>3, <3>4
      <4>2. i # z
        BY <1>2, <3>4
      <4>3. i - 1 \in m .. z - 1 /\ i > 1
        BY <1>2, <2>3, <3>4, <4>1, <4>2
      <4>4. file[i - 1] \in Blank
        BY <4>3 DEF Begins
      <4>. QED  BY <3>5, <4>3, <4>4
    <3>9. IsNext(Begins(file), at, m, z)
      BY <2>3, <2>5, <2>6, <3>4, <3>8 DEF IsNext
    <3>10. z \in 0 .. Len(file)
      BY <1>1, <3>4
    <3>11. AtBlank(file, z)
      BY <3>4 DEF AtBlank
    <3>. QED  BY <3>3, <3>7, <3>9, <3>10, <3>11
  <2>. QED  BY <2>7, <2>8
<1>. QED  BY <1>3, <1>4

LEMMA NextByteReads ==
  ASSUME NEW file \in Seq(Byte), NEW at \in 0 .. Len(file)
  PROVE  /\ NextByte(file, at).at \in 0 .. Len(file)
         /\ NextByte(file, at).byte = EndOfFile => \A i \in Solid(file) : i <= at
         /\ NextByte(file, at).byte # EndOfFile =>
              \E m : /\ IsNext(Solid(file), at, m, NextByte(file, at).at)
                     /\ NextByte(file, at).byte = file[m]
<1>. DEFINE rest == {i \in at + 1 .. Len(file) : file[i] # Space}
            m    == Min(rest)
<1>1. Len(file) \in Nat /\ DOMAIN file = 1 .. Len(file) /\ at \in Nat /\ at <= Len(file)
  OBVIOUS
<1>2. ASSUME NEW i \in Solid(file) PROVE i \in Nat /\ i \in 1 .. Len(file) /\ file[i] # Space
  BY <1>1 DEF Solid
<1>3. CASE rest = {}
  <2>1. NextByte(file, at) = [byte |-> EndOfFile, at |-> Len(file)]
    BY <1>3 DEF NextByte
  <2>2. ASSUME NEW i \in Solid(file) PROVE i <= at
    <3>1. SUFFICES ASSUME at < i PROVE FALSE
      BY <1>1, <1>2
    <3>2. i \in rest
      BY <1>1, <1>2, <3>1
    <3>. QED  BY <1>3, <3>2
  <2>. QED  BY <1>1, <2>1, <2>2
<1>4. CASE rest # {}
  <2>1. rest \in SUBSET Nat
    BY <1>1
  <2>2. m \in rest /\ \A i \in rest : m <= i
    <3>. HIDE DEF rest
    <3>. QED  BY <1>4, <2>1, LeastNatural
  <2>3. NextByte(file, at) = [byte |-> file[m], at |-> m]
    BY <1>4 DEF NextByte
  <2>. HIDE DEF m
  <2>4. m \in Nat /\ at < m /\ m \in 1 .. Len(file) /\ file[m] # Space
    BY <1>1, <2>2
  <2>5. m \in Solid(file) /\ file[m] # EndOfFile
    <3>1. file[m] \in Byte
      BY <2>4
    <3>2. EndOfFile \notin Byte
      BY CheckersAssumption DEF Byte, Blank, EndOfFile, Space, LineBreak, Zero
    <3>. QED  BY <1>1, <2>4, <3>1, <3>2 DEF Solid
  <2>6. ASSUME NEW i \in Solid(file) PROVE i <= at \/ m <= i
    <3>1. SUFFICES ASSUME at < i PROVE m <= i
      BY <1>1, <1>2
    <3>2. i \in rest
      BY <1>1, <1>2, <3>1
    <3>. QED  BY <2>2, <3>2
  <2>7. IsNext(Solid(file), at, m, m)
    <3>1. \A i \in Solid(file) : i <= m \/ m < i
      BY <1>2, <2>4
    <3>. QED  BY <2>4, <2>5, <2>6, <3>1 DEF IsNext
  <2>. QED  BY <1>1, <2>3, <2>4, <2>5, <2>7
<1>. QED  BY <1>3, <1>4

----------------------------------------------------------------------------
(* The inductive invariant: the two files agree in all that has been read  *)
(* of them, until the checker returns, and what it returns is right.       *)

Typed ==
  /\ checker \in {"checker_byte", "checker_int"}
  /\ output \in Seq(Byte) /\ answer \in Seq(Byte)
  /\ outAt \in 0 .. Len(output) /\ ansAt \in 0 .. Len(answer)
  /\ mark \in {Undecided, "+", "-"}

WordsSoFar ==
  checker = "checker_byte" /\ mark = Undecided =>
    /\ AtBlank(output, outAt) /\ AtBlank(answer, ansAt)
    /\ SameSoFar(Begins(output), SeenWords(output), outAt, Begins(answer), SeenWords(answer), ansAt)

BytesSoFar ==
  checker = "checker_int" /\ mark = Undecided =>
    SameSoFar(Solid(output), output, outAt, Solid(answer), answer, ansAt)

Inv == Typed /\ WordsSoFar /\ BytesSoFar /\ WordsDecide /\ BytesDecide

(* One turn of checker_byte, over two files of which a and b bytes are     *)
(* read: the mark is right, or there is none and the files still agree.    *)
LEMMA OneMoreWord ==
  ASSUME NEW file \in Seq(Byte), NEW other \in Seq(Byte),
         NEW a \in 0 .. Len(file), NEW b \in 0 .. Len(other), AtBlank(file, a), AtBlank(other, b),
         SameSoFar(Begins(file), SeenWords(file), a, Begins(other), SeenWords(other), b),
         NEW out, out = GetWord(file, a), NEW ans, ans = GetWord(other, b),
         NEW said, said = IF out.found /\ ans.found
                          THEN IF CString(out.word) = CString(ans.word) THEN Undecided ELSE "-"
                          ELSE AtTheEnd(out, ans)
  PROVE  /\ said \in {Undecided, "+", "-"}
         /\ said = Undecided =>
              SameSoFar(Begins(file), SeenWords(file), out.at, Begins(other), SeenWords(other), ans.at)
         /\ said # Undecided => (said = "+" <=> Seen(file) = Seen(other))
<1>. DEFINE S == Begins(file)
            T == Begins(other)
<1>1. /\ IsPlaces(S) /\ IsPlaces(T) /\ Len(file) \in Nat /\ Len(other) \in Nat
      /\ a \in Nat /\ b \in Nat
  BY PlacesOfFiles
<1>2. /\ out.found \in BOOLEAN /\ out.at \in Nat
      /\ ~out.found => \A i \in S : i <= a
      /\ out.found => \E m : IsNext(S, a, m, out.at) /\ CString(out.word) = SeenWords(file)[m]
  <2>1. out.at \in 0 .. Len(file)
    BY GetWordReads
  <2>. QED  BY <1>1, <2>1, GetWordReads
<1>3. /\ ans.found \in BOOLEAN /\ ans.at \in Nat
      /\ ~ans.found => \A i \in T : i <= b
      /\ ans.found => \E k : IsNext(T, b, k, ans.at) /\ CString(ans.word) = SeenWords(other)[k]
  <2>1. ans.at \in 0 .. Len(other)
    BY GetWordReads
  <2>. QED  BY <1>1, <2>1, GetWordReads
<1>4. Seen(file) = InOrder(S, SeenWords(file)) /\ Seen(other) = InOrder(T, SeenWords(other))
  BY DEF Seen
<1>5. /\ SameSoFar(S, SeenWords(file), a, T, SeenWords(other), b)
      /\ CountTo(S, a) = CountTo(T, b)
  BY DEF SameSoFar
<1>6. CASE out.found /\ ans.found
  <2>1. PICK m : IsNext(S, a, m, out.at) /\ CString(out.word) = SeenWords(file)[m]
    BY <1>2, <1>6
  <2>2. PICK k : IsNext(T, b, k, ans.at) /\ CString(ans.word) = SeenWords(other)[k]
    BY <1>3, <1>6
  <2>3. /\ SeenWords(file)[m] = SeenWords(other)[k] =>
             SameSoFar(S, SeenWords(file), out.at, T, SeenWords(other), ans.at)
        /\ SeenWords(file)[m] # SeenWords(other)[k] =>
             InOrder(S, SeenWords(file)) # InOrder(T, SeenWords(other))
    <3>. DEFINE f == SeenWords(file)
                g == SeenWords(other)
    <3>1. SameSoFar(S, f, a, T, g, b)
      BY <1>5
    <3>2. GoesOn(S, a, m, out.at) /\ GoesOn(T, b, k, ans.at)
      BY <1>1, <1>2, <1>3, <2>1, <2>2 DEF GoesOn
    <3>. HIDE DEF S, T, f, g
    <3>3. /\ f[m] = g[k] => SameSoFar(S, f, out.at, T, g, ans.at)
          /\ f[m] # g[k] => InOrder(S, f) # InOrder(T, g)
      BY <3>1, <3>2, BothHaveMore
    <3>. QED  BY <3>3 DEF f, g
  <2>. QED  BY <1>4, <1>6, <2>1, <2>2, <2>3 DEF Undecided
<1>7. CASE out.found /\ ~ans.found
  <2>1. PICK m : IsNext(S, a, m, out.at)
    BY <1>2, <1>7
  <2>2. InOrder(S, SeenWords(file)) # InOrder(T, SeenWords(other))
    <3>. HIDE DEF S, T
    <3>. QED  BY <1>1, <1>2, <1>3, <1>5, <1>7, <2>1, OneHasMore
  <2>. QED  BY <1>4, <1>7, <2>2 DEF AtTheEnd, Undecided
<1>8. CASE ~out.found /\ ans.found
  <2>1. PICK k : IsNext(T, b, k, ans.at)
    BY <1>3, <1>8
  <2>2. InOrder(T, SeenWords(other)) # InOrder(S, SeenWords(file))
    <3>. HIDE DEF S, T
    <3>. QED  BY <1>1, <1>2, <1>3, <1>5, <1>8, <2>1, OneHasMore
  <2>. QED  BY <1>4, <1>8, <2>2 DEF AtTheEnd, Undecided
<1>9. CASE ~out.found /\ ~ans.found
  <2>1. InOrder(S, SeenWords(file)) = InOrder(T, SeenWords(other))
    <3>. HIDE DEF S, T
    <3>. QED  BY <1>1, <1>2, <1>3, <1>5, <1>9, NoneHasMore
  <2>. QED  BY <1>4, <1>9, <2>1 DEF AtTheEnd, Undecided
<1>. QED  BY <1>2, <1>3, <1>6, <1>7, <1>8, <1>9

(* One turn of checker_int.                                                *)
LEMMA OneMoreByte ==
  ASSUME NEW file \in Seq(Byte), NEW other \in Seq(Byte),
         NEW a \in 0 .. Len(file), NEW b \in 0 .. Len(other),
         SameSoFar(Solid(file), file, a, Solid(other), other, b),
         NEW got, got = NextByte(file, a), NEW expected, expected = NextByte(other, b),
         NEW said, said = IF expected.byte # got.byte THEN "-" ELSE OnEqual(expected.byte)
  PROVE  /\ said \in {Undecided, "+", "-"}
         /\ said = Undecided => SameSoFar(Solid(file), file, got.at, Solid(other), other, expected.at)
         /\ said # Undecided => (said = "+" <=> Squeezed(file) = Squeezed(other))
<1>. DEFINE S == Solid(file)
            T == Solid(other)
<1>1. /\ IsPlaces(S) /\ IsPlaces(T) /\ Len(file) \in Nat /\ Len(other) \in Nat
      /\ a \in Nat /\ b \in Nat
  BY PlacesOfFiles
<1>2. /\ got.at \in Nat
      /\ got.byte = EndOfFile => \A i \in S : i <= a
      /\ got.byte # EndOfFile => \E m : IsNext(S, a, m, got.at) /\ got.byte = file[m]
  <2>1. got.at \in 0 .. Len(file)
    BY NextByteReads
  <2>2. got.byte = EndOfFile => \A i \in S : i <= a
    BY NextByteReads
  <2>3. got.byte # EndOfFile => \E m : IsNext(S, a, m, got.at) /\ got.byte = file[m]
    <3>. HIDE DEF S
    <3>. QED  BY NextByteReads DEF S
  <2>. QED  BY <1>1, <2>1, <2>2, <2>3
<1>3. /\ expected.at \in Nat
      /\ expected.byte = EndOfFile => \A i \in T : i <= b
      /\ expected.byte # EndOfFile => \E k : IsNext(T, b, k, expected.at) /\ expected.byte = other[k]
  <2>1. expected.at \in 0 .. Len(other)
    BY NextByteReads
  <2>. QED  BY <1>1, <2>1, NextByteReads
<1>4. Squeezed(file) = InOrder(S, file) /\ Squeezed(other) = InOrder(T, other)
  BY DEF Squeezed
<1>5. SameSoFar(S, file, a, T, other, b) /\ CountTo(S, a) = CountTo(T, b)
  BY DEF SameSoFar
<1>6. CASE got.byte # EndOfFile /\ expected.byte # EndOfFile
  <2>1. PICK m : IsNext(S, a, m, got.at) /\ got.byte = file[m]
    BY <1>2, <1>6
  <2>2. PICK k : IsNext(T, b, k, expected.at) /\ expected.byte = other[k]
    BY <1>3, <1>6
  <2>3. /\ file[m] = other[k] => SameSoFar(S, file, got.at, T, other, expected.at)
        /\ file[m] # other[k] => InOrder(S, file) # InOrder(T, other)
    <3>. HIDE DEF S, T
    <3>1. GoesOn(S, a, m, got.at) /\ GoesOn(T, b, k, expected.at)
      BY <1>1, <1>2, <1>3, <2>1, <2>2 DEF GoesOn
    <3>2. SameSoFar(S, file, a, T, other, b)
      BY <1>5
    <3>. QED  BY <3>1, <3>2, BothHaveMore
  <2>. QED  BY <1>4, <1>6, <2>1, <2>2, <2>3 DEF OnEqual, Undecided
<1>7. CASE got.byte # EndOfFile /\ expected.byte = EndOfFile
  <2>1. PICK m : IsNext(S, a, m, got.at)
    BY <1>2, <1>7
  <2>2. InOrder(S, file) # InOrder(T, other)
    <3>. HIDE DEF S, T
    <3>. QED  BY <1>1, <1>2, <1>3, <1>5, <1>7, <2>1, OneHasMore
  <2>. QED  BY <1>4, <1>7, <2>2 DEF Undecided
<1>8. CASE got.byte = EndOfFile /\ expected.byte # EndOfFile
  <2>1. PICK k : IsNext(T, b, k, expected.at)
    BY <1>3, <1>8
  <2>2. InOrder(T, other) # InOrder(S, file)
    <3>. HIDE DEF S, T
    <3>. QED  BY <1>1, <1>2, <1>3, <1>5, <1>8, <2>1, OneHasMore
  <2>. QED  BY <1>4, <1>8, <2>2 DEF Undecided
<1>9. CASE got.byte = EndOfFile /\ expected.byte = EndOfFile
  <2>1. InOrder(S, file) = InOrder(T, other)
    <3>. HIDE DEF S, T
    <3>. QED  BY <1>1, <1>2, <1>3, <1>5, <1>9, NoneHasMore
  <2>. QED  BY <1>4, <1>9, <2>1 DEF OnEqual, Undecided
<1>. QED  BY <1>6, <1>7, <1>8, <1>9

LEMMA InvStarts == Init => Inv
<1>. SUFFICES ASSUME Init PROVE Inv
  OBVIOUS
<1>1. output \in Seq(Byte) /\ answer \in Seq(Byte)
  BY DEF Init, BoundedSeq, SeqOf
<1>2. Typed
  BY <1>1 DEF Init, Typed
<1>3. ASSUME NEW S, IsPlaces(S) PROVE CountTo(S, 0) = 0
  BY <1>3, CountFacts
<1>4. WordsSoFar
  <2>1. CountTo(Begins(output), 0) = 0 /\ CountTo(Begins(answer), 0) = 0
    BY <1>1, <1>3, PlacesOfFiles
  <2>. QED  BY <2>1 DEF Init, WordsSoFar, SameSoFar, AtBlank
<1>5. BytesSoFar
  <2>1. CountTo(Solid(output), 0) = 0 /\ CountTo(Solid(answer), 0) = 0
    BY <1>1, <1>3, PlacesOfFiles
  <2>. QED  BY <2>1 DEF Init, BytesSoFar, SameSoFar
<1>. QED  BY <1>2, <1>4, <1>5 DEF Init, Inv, WordsDecide, BytesDecide

LEMMA InvStays == Inv /\ [Next]_vars => Inv'
<1>. SUFFICES ASSUME Inv, [Next]_vars PROVE Inv'
  OBVIOUS
<1>. USE DEF Inv
<1>1. CASE CompareWords
  <2>1. PICK out : out = GetWord(output, outAt)
    OBVIOUS
  <2>2. PICK ans : ans = GetWord(answer, ansAt)
    OBVIOUS
  <2>3. PICK said : said = IF out.found /\ ans.found
                           THEN IF CString(out.word) = CString(ans.word) THEN Undecided ELSE "-"
                           ELSE AtTheEnd(out, ans)
    OBVIOUS
  <2>4. /\ outAt' = out.at /\ ansAt' = ans.at /\ mark' = said
        /\ checker' = checker /\ output' = output /\ answer' = answer
        /\ checker = "checker_byte" /\ mark = Undecided
    BY <1>1, <2>1, <2>2, <2>3 DEF CompareWords
  <2>5. /\ output \in Seq(Byte) /\ answer \in Seq(Byte)
        /\ outAt \in 0 .. Len(output) /\ ansAt \in 0 .. Len(answer)
        /\ AtBlank(output, outAt) /\ AtBlank(answer, ansAt)
        /\ SameSoFar(Begins(output), SeenWords(output), outAt, Begins(answer), SeenWords(answer), ansAt)
    BY <2>4 DEF Typed, WordsSoFar
  <2>6. /\ out.at \in 0 .. Len(output) /\ AtBlank(output, out.at)
        /\ ans.at \in 0 .. Len(answer) /\ AtBlank(answer, ans.at)
    BY <2>1, <2>2, <2>5, GetWordReads
  <2>7. /\ said \in {Undecided, "+", "-"}
        /\ said = Undecided =>
             SameSoFar(Begins(output), SeenWords(output), out.at, Begins(answer), SeenWords(answer), ans.at)
        /\ said # Undecided => (said = "+" <=> Seen(output) = Seen(answer))
    BY <2>1, <2>2, <2>3, <2>5, OneMoreWord
  <2>8. Typed'
    BY <2>4, <2>5, <2>6, <2>7 DEF Typed
  <2>9. WordsSoFar' /\ WordsDecide'
    BY <2>4, <2>6, <2>7 DEF WordsSoFar, WordsDecide
  <2>10. BytesSoFar' /\ BytesDecide'
    BY <2>4 DEF BytesSoFar, BytesDecide
  <2>. QED  BY <2>8, <2>9, <2>10
<1>2. CASE CompareBytes
  <2>1. PICK got : got = NextByte(output, outAt)
    OBVIOUS
  <2>2. PICK expected : expected = NextByte(answer, ansAt)
    OBVIOUS
  <2>3. PICK said : said = IF expected.byte # got.byte THEN "-" ELSE OnEqual(expected.byte)
    OBVIOUS
  <2>4. /\ outAt' = got.at /\ ansAt' = expected.at /\ mark' = said
        /\ checker' = checker /\ output' = output /\ answer' = answer
        /\ checker = "checker_int" /\ mark = Undecided
    BY <1>2, <2>1, <2>2, <2>3 DEF CompareBytes
  <2>5. /\ output \in Seq(Byte) /\ answer \in Seq(Byte)
        /\ outAt \in 0 .. Len(output) /\ ansAt \in 0 .. Len(answer)
        /\ SameSoFar(Solid(output), output, outAt, Solid(answer), answer, ansAt)
    BY <2>4 DEF Typed, BytesSoFar
  <2>6. got.at \in 0 .. Len(output) /\ expected.at \in 0 .. Len(answer)
    BY <2>1, <2>2, <2>5, NextByteReads
  <2>7. /\ said \in {Undecided, "+", "-"}
        /\ said = Undecided => SameSoFar(Solid(output), output, got.at, Solid(answer), answer, expected.at)
        /\ said # Undecided => (said = "+" <=> Squeezed(output) = Squeezed(answer))
    BY <2>1, <2>2, <2>3, <2>5, OneMoreByte
  <2>8. Typed'
    BY <2>4, <2>5, <2>6, <2>7 DEF Typed
  <2>9. BytesSoFar' /\ BytesDecide'
    BY <2>4, <2>7 DEF BytesSoFar, BytesDecide
  <2>10. WordsSoFar' /\ WordsDecide'
    BY <2>4 DEF WordsSoFar, WordsDecide
  <2>. QED  BY <2>8, <2>9, <2>10
<1>3. CASE UNCHANGED vars
  BY <1>3 DEF vars, Typed, WordsSoFar, BytesSoFar, WordsDecide, BytesDecide
<1>. QED  BY <1>1, <1>2, <1>3 DEF Next, Compare, Returned

LEMMA InvHolds == Spec => []Inv
  BY InvStarts, InvStays, PTL DEF Spec

(* checker_byte accepts an output exactly if the words it sees of it are   *)
(* those it sees of the answer, in files of every length.                  *)
THEOREM WordsAreCompared == Spec => []WordsDecide
<1>1. Inv => WordsDecide
  BY DEF Inv
<1>. QED  BY <1>1, InvHolds, PTL

(* checker_int accepts an output exactly if it is the answer but for the   *)
(* spaces in either.                                                       *)
THEOREM BytesAreCompared == Spec => []BytesDecide
<1>1. Inv => BytesDecide
  BY DEF Inv
<1>. QED  BY <1>1, InvHolds, PTL
----------------------------------------------------------------------------
(***************************************************************************)
(* The submissions that work on lines.  Problem I: a line is read word by  *)
(* word, and what is printed is the beginning of the line turned round.    *)
(***************************************************************************)
LineByte == {"a", "b", Gap}

LEMMA LineIs ==
  ASSUME NEW S, NEW text \in LineOf(S)
  PROVE  text \in Seq(S)
<1>1. PICK n \in 0 .. MaxLine : text \in [1 .. n -> S]
  BY DEF LineOf
<1>. QED  BY <1>1, LinesAssumption

(* The places z to e - 1 are a word, from a blank or the beginning to a    *)
(* blank or the end; there may be nothing of it.                           *)
IsWord(z, e) ==
  /\ line \in Seq(LineByte) /\ z \in 1 .. Len(line) + 1 /\ e \in z .. Len(line) + 1
  /\ z \in {1, Len(line) + 1} \/ line[z - 1] = Gap
  /\ \A i \in z .. e - 1 : line[i] # Gap
  /\ e = Len(line) + 1 \/ line[e] = Gap

LEMMA FromIs ==
  ASSUME NEW z, NEW e, IsWord(z, e), NEW i \in z .. e - 1
  PROVE  From(i) = z
<1>. DEFINE Kin == {k \in 1 .. i : \A m \in k .. i : line[m] # Gap}
<1>1. z \in Nat \ {0} /\ e \in Nat /\ e <= Len(line) + 1 /\ Len(line) \in Nat
  BY DEF IsWord
<1>2. z \in Kin
  BY <1>1 DEF IsWord
<1>3. ASSUME NEW k \in Kin PROVE z <= k
  <2>. SUFFICES ASSUME k < z PROVE FALSE
    BY <1>1
  <2>1. z - 1 \in k .. i /\ z \notin {1, Len(line) + 1}
    BY <1>1
  <2>2. line[z - 1] # Gap
    BY <2>1
  <2>. QED  BY <2>1, <2>2 DEF IsWord
<1>. HIDE DEF Kin
<1>4. Kin \in SUBSET Nat
  BY DEF Kin
<1>5. Min(Kin) \in Kin /\ Min(Kin) <= z
  BY <1>2, <1>4, LeastNatural
<1>6. Min(Kin) = z
  <2>1. PICK least \in Nat : least = Min(Kin) /\ least \in Kin /\ least <= z
    BY <1>4, <1>5
  <2>2. z <= least
    BY <1>3, <2>1
  <2>. QED  BY <1>1, <2>1, <2>2
<1>. QED  BY <1>6 DEF From, Kin

LEMMA ToIs ==
  ASSUME NEW z, NEW e, IsWord(z, e), NEW i \in z .. e - 1
  PROVE  To(i) = e - 1
<1>. DEFINE Kin == {k \in i .. Len(line) : \A m \in i .. k : line[m] # Gap}
<1>1. z \in Nat \ {0} /\ e \in Nat /\ e <= Len(line) + 1 /\ Len(line) \in Nat
  BY DEF IsWord
<1>2. e - 1 \in Kin
  BY <1>1 DEF IsWord
<1>3. ASSUME NEW k \in Kin PROVE k <= e - 1
  <2>. SUFFICES ASSUME e <= k PROVE FALSE
    BY <1>1
  <2>1. e \in i .. k /\ e # Len(line) + 1
    BY <1>1
  <2>2. line[e] # Gap
    BY <2>1
  <2>. QED  BY <2>1, <2>2 DEF IsWord
<1>. HIDE DEF Kin
<1>4. Kin \in SUBSET Int
  BY DEF Kin
<1>5. Max(Kin) = e - 1
  BY <1>2, <1>3, <1>4, GreatestIs
<1>. QED  BY <1>5 DEF To, Kin

LEMMA WordTurned ==
  ASSUME line \in Seq(LineByte), NEW z, NEW e, IsWord(z, e)
  PROVE  /\ \A i \in z .. e - 1 : Turned[i] = line[z + e - 1 - i]
         /\ e # Len(line) + 1 => Turned[e] = Gap
<1>1. z \in Nat \ {0} /\ e \in Nat /\ z <= e /\ e <= Len(line) + 1 /\ Len(line) \in Nat
  BY DEF IsWord
<1>2. ASSUME NEW i \in z .. e - 1 PROVE Turned[i] = line[z + e - 1 - i]
  <2>1. i \in DOMAIN line /\ line[i] # Gap
    BY <1>1 DEF IsWord
  <2>2. Turned[i] = line[From(i) + To(i) - i]
    BY <2>1 DEF Turned
  <2>3. From(i) + To(i) - i = z + e - 1 - i
    BY <1>1, FromIs, ToIs
  <2>. QED  BY <2>2, <2>3
<1>3. ASSUME e # Len(line) + 1 PROVE Turned[e] = Gap
  <2>1. e \in DOMAIN line /\ line[e] = Gap
    BY <1>1, <1>3 DEF IsWord
  <2>. QED  BY <2>1 DEF Turned
<1>. QED  BY <1>2, <1>3

TurnedByte == LineByte \cup {Turned[i] : i \in 1 .. Len(line)}

LEMMA TurnedIs ==
  ASSUME line \in Seq(LineByte)
  PROVE  /\ Turned \in Seq(TurnedByte) /\ Len(Turned) = Len(line)
         /\ \A s \in Seq(LineByte) : s \in Seq(TurnedByte)
<1>1. Len(line) \in Nat /\ DOMAIN line = 1 .. Len(line)
  BY LenProperties
<1>2. Turned = [i \in 1 .. Len(line) |-> Turned[i]]
  BY <1>1 DEF Turned
<1>3. \A s \in Seq(LineByte) : s \in Seq(TurnedByte)
  BY SeqMonotonic DEF TurnedByte
<1>. DEFINE turned(i) == Turned[i]
<1>4. \A i \in 1 .. Len(line) : turned(i) \in TurnedByte
  BY DEF TurnedByte
<1>. HIDE DEF turned
<1>5. /\ [i \in 1 .. Len(line) |-> turned(i)] \in Seq(TurnedByte)
      /\ Len([i \in 1 .. Len(line) |-> turned(i)]) = Len(line)
  BY <1>1, <1>4
<1>. QED  BY <1>2, <1>3, <1>5 DEF turned

(* A word backwards is what the line turned round has at its place.        *)
LEMMA BackwardsIs ==
  ASSUME line \in Seq(LineByte), NEW z, NEW e, IsWord(z, e)
  PROVE  /\ Reverse(SubSeq(line, z, e - 1)) = SubSeq(Turned, z, e - 1)
         /\ Reverse(SubSeq(line, z, e - 1)) \in Seq(LineByte)
<1>1. z \in Nat \ {0} /\ e \in Nat /\ z <= e /\ e <= Len(line) + 1 /\ Len(line) \in Nat
  BY DEF IsWord
<1>. DEFINE word == SubSeq(line, z, e - 1)
            part == SubSeq(Turned, z, e - 1)
<1>2. /\ word \in Seq(LineByte) /\ Len(word) = e - z
      /\ \A i \in 1 .. e - z : word[i] = line[z + i - 1]
  <2>1. IsPart(LineByte, line, z, e - 1) /\ e - 1 + 1 - z = e - z
    BY <1>1 DEF IsPart
  <2>2. PartFacts(LineByte, line, z, e - 1)
    BY <2>1, PartIs, Zenon
  <2>. QED  BY <2>1, <2>2 DEF PartFacts
<1>3. /\ part \in Seq(TurnedByte) /\ Len(part) = e - z
      /\ \A i \in 1 .. e - z : part[i] = Turned[z + i - 1]
  <2>1. IsPart(TurnedByte, Turned, z, e - 1) /\ e - 1 + 1 - z = e - z
    <3>1. Turned \in Seq(TurnedByte) /\ Len(Turned) = Len(line)
      BY TurnedIs
    <3>. QED  BY <1>1, <3>1 DEF IsPart
  <2>2. PartFacts(TurnedByte, Turned, z, e - 1)
    BY <2>1, PartIs, Zenon
  <2>. QED  BY <2>1, <2>2 DEF PartFacts
<1>. DEFINE back == [i \in 1 .. e - z |-> word[e - z - i + 1]]
<1>. HIDE DEF word, part
<1>4. Reverse(word) = back
  BY <1>2 DEF Reverse
<1>5. back \in Seq(LineByte) /\ Len(back) = e - z
  BY <1>1, <1>2
<1>6. ASSUME NEW i \in 1 .. e - z PROVE back[i] = part[i]
  <2>1. e - z - i + 1 \in 1 .. e - z /\ z + (e - z - i + 1) - 1 = e - i
    BY <1>1
  <2>2. back[i] = line[e - i]
    BY <1>2, <2>1
  <2>3. z + i - 1 \in z .. e - 1 /\ z + e - 1 - (z + i - 1) = e - i
    BY <1>1
  <2>4. Turned[z + i - 1] = line[e - i]
    BY <2>3, WordTurned
  <2>. QED  BY <1>3, <2>2, <2>4
<1>7. back \in Seq(TurnedByte)
  BY <1>5, TurnedIs
<1>8. back = part
  <2>. HIDE DEF back
  <2>. QED  BY <1>3, <1>5, <1>6, <1>7, SeqEqual
<1>. QED  BY <1>4, <1>5, <1>8 DEF word, part

(* The text printed is the line turned round up to z, and what has not     *)
(* been read is the line from z on.                                        *)
IsDone(text, z) ==
  /\ line \in Seq(LineByte) /\ z \in 1 .. Len(line) + 1
  /\ left = SubSeq(line, z, Len(line))
  /\ z \in {1, Len(line) + 1} \/ line[z - 1] = Gap
  /\ text \in Seq(LineByte) /\ text = SubSeq(Turned, 1, z - 1)

(* Where the next word ends.                                               *)
LEMMA NextWordIs ==
  ASSUME NEW text, NEW z, IsDone(text, z)
  PROVE  \E e : /\ IsWord(z, e) /\ NextWord = SubSeq(line, z, e - 1)
                /\ GapsAt = {} => e = Len(line) + 1 /\ Behind = <<>>
                /\ GapsAt # {} => e # Len(line) + 1 /\ Behind = SubSeq(line, e + 1, Len(line))
<1>1. PICK n \in Nat : n = Len(line)
  BY LenProperties DEF IsDone
<1>2. line \in Seq(LineByte) /\ z \in 1 .. n + 1 /\ left = SubSeq(line, z, n)
  BY <1>1 DEF IsDone
<1>3. /\ left \in Seq(LineByte) /\ Len(left) = n + 1 - z
      /\ \A i \in 1 .. n + 1 - z : left[i] = line[z + i - 1]
  <2>1. IsPart(LineByte, line, z, n)
    BY <1>1, <1>2 DEF IsPart
  <2>2. PartFacts(LineByte, line, z, n)
    BY <2>1, PartIs, Zenon
  <2>. QED  BY <1>2, <2>2 DEF PartFacts
<1>4. GapsAt = {i \in 1 .. n + 1 - z : left[i] = Gap}
  BY <1>3 DEF GapsAt
<1>5. z \in {1, Len(line) + 1} \/ line[z - 1] = Gap
  BY DEF IsDone
<1>6. CASE GapsAt = {}
  <2>1. NextWord = left
    <3>1. NextWord = SubSeq(left, 1, Len(left))
      BY <1>6 DEF NextWord
    <3>. QED  BY <1>3, <3>1, SubSeqFull, Zenon
  <2>2. IsWord(z, n + 1)
    <3>1. ASSUME NEW i \in z .. n + 1 - 1 PROVE line[i] # Gap
      <4>1. i - z + 1 \in 1 .. n + 1 - z /\ z + (i - z + 1) - 1 = i
        BY <1>1, <1>2
      <4>2. left[i - z + 1] = line[i]
        BY <1>3, <4>1
      <4>. QED  BY <1>4, <1>6, <4>1, <4>2
    <3>. QED  BY <1>1, <1>2, <1>5, <3>1 DEF IsWord
  <2>3. Behind = <<>>
    <3>1. Behind = SubSeq(left, Len(left) + 2, Len(left))
      BY <2>1 DEF Behind
    <3>2. Len(left) \in Int /\ Len(left) + 2 \in Int /\ Len(left) < Len(left) + 2
      BY <1>3
    <3>. QED  BY <3>1, <3>2, SubSeqEmpty, Zenon
  <2>4. NextWord = SubSeq(line, z, (n + 1) - 1)
    BY <1>1, <1>2, <2>1
  <2>. QED  BY <1>1, <1>6, <2>2, <2>3, <2>4
<1>7. CASE GapsAt # {}
  <2>1. PICK g \in 1 .. n + 1 - z : g = Min(GapsAt) /\ left[g] = Gap /\ \A i \in GapsAt : g <= i
    <3>1. GapsAt \in SUBSET Nat
      BY <1>4
    <3>2. Min(GapsAt) \in GapsAt /\ \A i \in GapsAt : Min(GapsAt) <= i
      BY <1>7, <3>1, LeastNatural
    <3>. QED  BY <1>4, <3>2
  <2>. DEFINE e == z + g - 1
  <2>2. e \in z .. n /\ e \in Nat /\ g \in Nat \ {0} /\ z \in Nat \ {0}
    BY <1>2, <2>1
  <2>3. /\ IsPart(LineByte, line, z, n)
        /\ 1 \in 1 .. n + 2 - z /\ g - 1 \in 1 - 1 .. n + 1 - z
        /\ g + 1 \in 1 .. n + 2 - z /\ n + 1 - z \in (g + 1) - 1 .. n + 1 - z
    BY <1>1, <1>2, <2>1 DEF IsPart
  <2>4. NextWord = SubSeq(line, z, e - 1) /\ Len(NextWord) = g - 1
    <3>1. NextWord = SubSeq(left, 1, g - 1)
      BY <1>7, <2>1 DEF NextWord
    <3>2. InnerFact(line, z, n, 1, g - 1)
      BY <2>3, PartOfPart, Zenon DEF IsInner
    <3>3. z + 1 - 1 = z /\ z + (g - 1) - 1 = e - 1
      BY <2>2
    <3>4. NextWord = SubSeq(line, z, e - 1)
      BY <1>2, <3>1, <3>2, <3>3 DEF InnerFact
    <3>5. Len(SubSeq(line, z, e - 1)) = g - 1
      <4>1. IsPart(LineByte, line, z, e - 1) /\ e - 1 + 1 - z = g - 1
        BY <1>1, <1>2, <2>2 DEF IsPart
      <4>2. PartFacts(LineByte, line, z, e - 1)
        BY <4>1, PartIs, Zenon
      <4>. QED  BY <4>1, <4>2 DEF PartFacts
    <3>. QED  BY <3>4, <3>5
  <2>5. Behind = SubSeq(line, e + 1, n)
    <3>1. Behind = SubSeq(left, g + 1, n + 1 - z)
      <4>1. (g - 1) + 2 = g + 1
        BY <2>2
      <4>. QED  BY <1>3, <2>4, <4>1 DEF Behind
    <3>2. InnerFact(line, z, n, g + 1, n + 1 - z)
      BY <2>3, PartOfPart, Zenon DEF IsInner
    <3>3. z + (g + 1) - 1 = e + 1 /\ z + (n + 1 - z) - 1 = n
      BY <1>1, <2>2
    <3>. QED  BY <1>2, <3>1, <3>2, <3>3 DEF InnerFact
  <2>6. IsWord(z, e)
    <3>1. ASSUME NEW i \in z .. e - 1 PROVE line[i] # Gap
      <4>1. i - z + 1 \in 1 .. n + 1 - z /\ z + (i - z + 1) - 1 = i /\ ~(g <= i - z + 1)
        BY <2>2
      <4>2. left[i - z + 1] = line[i]
        BY <1>3, <4>1
      <4>. QED  BY <1>4, <2>1, <4>1, <4>2
    <3>2. line[e] = Gap
      BY <1>3, <2>1
    <3>3. e \in z .. Len(line) + 1
      BY <1>1, <2>2
    <3>. HIDE DEF e
    <3>. QED  BY <1>1, <1>2, <1>5, <3>1, <3>2, <3>3 DEF IsWord
  <2>7. e # n + 1
    BY <2>2
  <2>. QED  BY <1>1, <1>7, <2>4, <2>5, <2>6, <2>7
<1>. QED  BY <1>6, <1>7

(* One word more.                                                          *)
LEMMA WordDone ==
  ASSUME NEW text, NEW z, IsDone(text, z)
  PROVE  /\ text \o Reverse(NextWord) \in Seq(LineByte)
         /\ GapsAt = {} => text \o Reverse(NextWord) = Turned /\ Behind = <<>>
         /\ GapsAt # {} =>
              \E y : /\ y \in 1 .. Len(line) + 1 /\ Behind = SubSeq(line, y, Len(line))
                     /\ line[y - 1] = Gap
                     /\ (text \o Reverse(NextWord)) \o <<Gap>> \in Seq(LineByte)
                     /\ (text \o Reverse(NextWord)) \o <<Gap>> = SubSeq(Turned, 1, y - 1)
<1>1. PICK e : /\ IsWord(z, e) /\ NextWord = SubSeq(line, z, e - 1)
               /\ GapsAt = {} => e = Len(line) + 1 /\ Behind = <<>>
               /\ GapsAt # {} => e # Len(line) + 1 /\ Behind = SubSeq(line, e + 1, Len(line))
  BY NextWordIs
<1>2. PICK n \in Nat : n = Len(line) /\ n = Len(Turned) /\ Turned \in Seq(TurnedByte)
  BY LenProperties, TurnedIs DEF IsDone
<1>3. /\ line \in Seq(LineByte) /\ z \in 1 .. n + 1 /\ e \in z .. n + 1
      /\ text \in Seq(LineByte) /\ text = SubSeq(Turned, 1, z - 1)
  BY <1>1, <1>2 DEF IsDone, IsWord
<1>. DEFINE back == Reverse(NextWord)
<1>4. back = SubSeq(Turned, z, e - 1) /\ back \in Seq(LineByte)
  BY <1>1, <1>3, BackwardsIs
<1>. HIDE DEF back
<1>5. text \o back \in Seq(LineByte)
  BY <1>3, <1>4, ConcatProperties, Zenon
<1>6. text \o back = SubSeq(Turned, 1, e - 1)
  <2>1. 1 \in 1 .. Len(Turned) + 1 /\ z - 1 \in 1 - 1 .. Len(Turned) /\ e - 1 \in z - 1 .. Len(Turned)
        /\ (z - 1) + 1 = z
    BY <1>2, <1>3
  <2>2. SubSeq(Turned, 1, z - 1) \o SubSeq(Turned, (z - 1) + 1, e - 1) = SubSeq(Turned, 1, e - 1)
    BY <1>2, <2>1, ConcatAdjacentSubSeq, Zenon
  <2>. QED  BY <1>3, <1>4, <2>1, <2>2
<1>7. ASSUME GapsAt = {} PROVE text \o back = Turned /\ Behind = <<>>
  <2>1. e - 1 = n
    BY <1>1, <1>2, <1>7
  <2>2. SubSeq(Turned, 1, n) = Turned
    BY <1>2, SubSeqFull, Zenon
  <2>. QED  BY <1>1, <1>6, <1>7, <2>1, <2>2
<1>8. ASSUME GapsAt # {}
      PROVE  \E y : /\ y \in 1 .. Len(line) + 1 /\ Behind = SubSeq(line, y, Len(line))
                    /\ line[y - 1] = Gap
                    /\ (text \o back) \o <<Gap>> \in Seq(LineByte)
                    /\ (text \o back) \o <<Gap>> = SubSeq(Turned, 1, y - 1)
  <2>1. e \in 1 .. n /\ (e + 1) - 1 = e /\ e + 1 \in 1 .. n + 1
    BY <1>1, <1>2, <1>3, <1>8
  <2>2. line[e] = Gap /\ Turned[e] = Gap
    BY <1>1, <1>3, <1>8, WordTurned DEF IsWord
  <2>3. SubSeq(Turned, 1, e) = SubSeq(Turned, 1, e - 1) \o <<Turned[e]>>
    <3>1. 1 \in 1 .. Len(Turned) /\ e \in 1 .. Len(Turned)
      BY <1>2, <2>1
    <3>. QED  BY <1>2, <3>1, SubSeqRecursiveSecond
  <2>4. (text \o back) \o <<Gap>> = SubSeq(Turned, 1, (e + 1) - 1)
    BY <1>6, <2>1, <2>2, <2>3
  <2>5. (text \o back) \o <<Gap>> \in Seq(LineByte)
    <3>1. <<Gap>> \in Seq(LineByte)
      BY DEF LineByte
    <3>. QED  BY <1>5, <3>1, ConcatProperties, Zenon
  <2>. QED  BY <1>1, <1>2, <1>8, <2>1, <2>2, <2>4, <2>5
<1>. QED  BY <1>5, <1>7, <1>8 DEF back

(* What has been put together so far: printed, or, by Koshkarov/I, kept.   *)
Kept == IF program = "Koshkarov/I" THEN sentence ELSE printed

WordsInv ==
  /\ program \in Reversers /\ outcome = "no" => \E z : IsDone(Kept, z)
  /\ luck \in {Null, Junk}
  /\ WordsAreTurned

LEMMA WordsInvInit == LinesInit => WordsInv
<1>. SUFFICES ASSUME LinesInit PROVE WordsInv
  OBVIOUS
<1>1. /\ left = line /\ sentence = <<>> /\ printed = <<>> /\ outcome = "no"
      /\ luck \in {Null, Junk}
  BY DEF LinesInit
<1>2. ASSUME program \in Reversers PROVE IsDone(Kept, 1)
  <2>1. line \in Seq(LineByte)
    <3>1. line \in LineOf(LineByte)
      BY <1>2 DEF LinesInit, Reversers, Comparers, LineByte
    <3>. QED  BY <3>1, LineIs
  <2>2. Kept = <<>> /\ <<>> \in Seq(LineByte)
    BY <1>1 DEF Kept
  <2>3. SubSeq(Turned, 1, 1 - 1) = <<>>
    BY SubSeqEmpty
  <2>4. left = SubSeq(line, 1, Len(line)) /\ 1 \in 1 .. Len(line) + 1
    <3>1. SubSeq(line, 1, Len(line)) = line /\ Len(line) \in Nat
      BY <2>1, SubSeqFull, LenProperties, Zenon
    <3>. QED  BY <1>1, <3>1
  <2>. QED  BY <2>1, <2>2, <2>3, <2>4 DEF IsDone
<1>3. WordsAreTurned
  BY <1>1 DEF WordsAreTurned
<1>. QED  BY <1>1, <1>2, <1>3 DEF WordsInv

LEMMA TurnedStays == line' = line => Turned' = Turned
BY DEF Turned, From, To

(* A step that has read a word with a blank behind it.                     *)
LEMMA BlankRead ==
  ASSUME NEW text, NEW z, IsDone(text, z), GapsAt # {}, line' = line, left' = Behind,
         NEW more, more = (text \o Reverse(NextWord)) \o <<Gap>>
  PROVE  \E y : IsDone(more, y)'
<1>1. PICK y : /\ y \in 1 .. Len(line) + 1 /\ Behind = SubSeq(line, y, Len(line))
               /\ line[y - 1] = Gap
               /\ (text \o Reverse(NextWord)) \o <<Gap>> \in Seq(LineByte)
               /\ (text \o Reverse(NextWord)) \o <<Gap>> = SubSeq(Turned, 1, y - 1)
  BY WordDone
<1>2. IsDone(more, y)'
  BY <1>1, TurnedStays DEF IsDone
<1>. QED  BY <1>2

(* A step that has read the last word, with nothing behind it.             *)
LEMMA LastRead ==
  ASSUME NEW text, NEW z, IsDone(text, z), GapsAt = {}, line' = line, left' = Behind,
         NEW more, more = text \o Reverse(NextWord)
  PROVE  more = Turned /\ \E y : IsDone(more, y)'
<1>1. /\ more \in Seq(LineByte) /\ more = Turned /\ Behind = <<>> /\ line \in Seq(LineByte)
  BY WordDone DEF IsDone
<1>2. PICK n \in Nat : n = Len(line) /\ n = Len(Turned) /\ Turned \in Seq(TurnedByte)
  BY <1>1, LenProperties, TurnedIs
<1>3. SubSeq(Turned, 1, (n + 1) - 1) = Turned
  <2>1. (n + 1) - 1 = n
    BY <1>2
  <2>. QED  BY <1>2, <2>1, SubSeqFull
<1>4. SubSeq(line, n + 1, n) = <<>>
  <2>1. n \in Int /\ n + 1 \in Int /\ n < n + 1
    BY <1>2
  <2>. QED  BY <2>1, SubSeqEmpty, Zenon
<1>5. IsDone(more, n + 1)'
  <2>1. n + 1 \in 1 .. n + 1
    BY <1>2
  <2>. QED  BY <1>1, <1>2, <1>3, <1>4, <2>1, TurnedStays DEF IsDone
<1>. QED  BY <1>1, <1>5

(* What stands where in one text behind another.                           *)
IsBehind(T, s, t, n, m) ==
  /\ s \o t \in Seq(T) /\ Len(s \o t) = n + m
  /\ \A i \in 1 .. n : (s \o t)[i] = s[i]
  /\ \A i \in 1 .. m : (s \o t)[n + i] = t[i]

LEMMA BehindIs ==
  ASSUME NEW T, NEW s \in Seq(T), NEW t \in Seq(T), NEW n, NEW m, n = Len(s), m = Len(t)
  PROVE  IsBehind(T, s, t, n, m)
<1>1. n \in Nat /\ m \in Nat
  BY LenProperties
<1>2. /\ s \o t \in Seq(T) /\ Len(s \o t) = n + m
      /\ \A i \in 1 .. n + m : (s \o t)[i] = IF i <= n THEN s[i] ELSE t[i - n]
  <2>1. /\ s \o t \in Seq(T) /\ Len(s \o t) = Len(s) + Len(t)
        /\ \A i \in 1 .. Len(s) + Len(t) :
             (s \o t)[i] = IF i <= Len(s) THEN s[i] ELSE t[i - Len(s)]
    BY ConcatProperties, Zenon
  <2>. QED  BY <2>1
<1>3. ASSUME NEW i \in 1 .. m PROVE (s \o t)[n + i] = t[i]
  <2>1. n + i \in 1 .. n + m /\ ~(n + i <= n) /\ (n + i) - n = i
    BY <1>1
  <2>. QED  BY <1>2, <2>1
<1>4. ASSUME NEW i \in 1 .. n PROVE (s \o t)[i] = s[i]
  <2>1. i \in 1 .. n + m /\ i <= n
    BY <1>1
  <2>. QED  BY <1>2, <2>1
<1>. QED  BY <1>2, <1>3, <1>4 DEF IsBehind

(* The byte that Koshkarov/I does not write is printed, or ends the text.  *)
LEMMA UnwrittenByte ==
  ASSUME NEW text \in Seq(LineByte), luck \in {Null, Junk}
  PROVE  SubSeq(Finished(text), 1, Min({i \in DOMAIN Finished(text) : Finished(text)[i] = Null}) - 1)
         = text \o (IF luck = Null THEN <<>> ELSE <<luck>>)
<1>. DEFINE T == LineByte \cup {Null, Junk}
            cells == Finished(text)
            nulls == {i \in DOMAIN cells : cells[i] = Null}
<1>1. text \in Seq(T) /\ <<luck, Null>> \in Seq(T) /\ Len(<<luck, Null>>) = 2
      /\ <<luck, Null>>[1] = luck /\ <<luck, Null>>[2] = Null
  BY SeqMonotonic
<1>2. PICK n \in Nat : n = Len(text)
  BY LenProperties
<1>3. /\ cells \in Seq(T) /\ Len(cells) = n + 2 /\ DOMAIN cells = 1 .. n + 2
      /\ \A i \in 1 .. n : cells[i] = text[i]
      /\ cells[n + 1] = luck /\ cells[n + 2] = Null
  <2>. DEFINE two == <<luck, Null>>
  <2>1. cells = text \o two
    BY DEF Finished
  <2>2. two \in Seq(T) /\ Len(two) = 2 /\ two[1] = luck /\ two[2] = Null
    BY <1>1
  <2>. HIDE DEF two, T, cells
  <2>3. IsBehind(T, text, two, n, 2)
    BY <1>1, <1>2, <2>2, BehindIs, Zenon
  <2>4. /\ cells \in Seq(T) /\ Len(cells) = n + 2
        /\ \A i \in 1 .. n : cells[i] = text[i]
        /\ \A i \in 1 .. 2 : cells[n + i] = two[i]
    BY <2>1, <2>3, Zenon DEF IsBehind
  <2>5. cells[n + 1] = luck /\ cells[n + 2] = Null
    BY <2>2, <2>4
  <2>6. DOMAIN cells = 1 .. n + 2
    BY <2>4
  <2>. QED  BY <2>4, <2>5, <2>6
<1>4. \A i \in 1 .. n : cells[i] # Null
  <2>. TAKE i \in 1 .. n
  <2>1. text[i] \in LineByte
    BY <1>2, ElementOfSeq, Zenon
  <2>. QED  BY <1>3, <2>1 DEF LineByte, Null, Gap
<1>. HIDE DEF cells, T
<1>5. nulls \in SUBSET Nat /\ n + 2 \in nulls /\ \A i \in nulls : i \in n + 1 .. n + 2
  BY <1>2, <1>3, <1>4
<1>6. Min(nulls) \in nulls /\ \A i \in nulls : Min(nulls) <= i
  BY <1>5, LeastNatural
<1>7. CASE luck = Null
  <2>1. Min(nulls) - 1 = n
    <3>1. n + 1 \in nulls
      BY <1>2, <1>3, <1>7
    <3>2. PICK least \in Nat : least = Min(nulls) /\ least <= n + 1 /\ least \in n + 1 .. n + 2
      BY <1>5, <1>6, <3>1
    <3>. HIDE DEF nulls
    <3>. QED  BY <1>2, <3>2
  <2>2. SubSeq(cells, 1, n) = text
    BY <1>1, <1>2, <1>3, SeqEqual
  <2>3. text \o <<>> = text
    BY ConcatEmptySeq, Zenon
  <2>. QED  BY <1>7, <2>1, <2>2, <2>3 DEF cells
<1>8. CASE luck # Null
  <2>1. Min(nulls) - 1 = n + 1
    BY <1>2, <1>3, <1>5, <1>6, <1>8
  <2>2. SubSeq(cells, 1, n + 1) = text \o <<luck>>
    <3>. DEFINE most == SubSeq(cells, 1, n + 1)
                all  == text \o <<luck>>
    <3>1. <<luck>> \in Seq(T) /\ Len(<<luck>>) = 1 /\ <<luck>>[1] = luck
      BY DEF T
    <3>2. /\ all \in Seq(T) /\ Len(all) = n + 1
          /\ \A i \in 1 .. n + 1 : all[i] = IF i <= n THEN text[i] ELSE luck
      <4>. DEFINE one == <<luck>>
      <4>. HIDE DEF one
      <4>1. one \in Seq(T) /\ Len(one) = 1 /\ one[1] = luck
        BY <3>1 DEF one
      <4>2. IsBehind(T, text, one, n, 1)
        BY <1>1, <1>2, <4>1, BehindIs, Zenon
      <4>3. /\ text \o one \in Seq(T) /\ Len(text \o one) = n + 1
            /\ \A i \in 1 .. n : (text \o one)[i] = text[i]
            /\ \A i \in 1 .. 1 : (text \o one)[n + i] = one[i]
        BY <4>2, Zenon DEF IsBehind
      <4>4. (text \o one)[n + 1] = luck
        BY <4>1, <4>3
      <4>5. \A i \in 1 .. n + 1 : IF i <= n THEN i \in 1 .. n ELSE i = n + 1
        BY <1>2
      <4>. QED  BY <4>3, <4>4, <4>5 DEF one
    <3>3. /\ most \in Seq(T) /\ Len(most) = n + 1
          /\ \A i \in 1 .. n + 1 : most[i] = cells[i]
      BY <1>2, <1>3
    <3>4. \A i \in 1 .. n + 1 : most[i] = all[i]
      <4>1. \A i \in 1 .. n + 1 : i <= n \/ i = n + 1
        BY <1>2
      <4>2. \A i \in 1 .. n + 1 : cells[i] = IF i <= n THEN text[i] ELSE luck
        BY <1>2, <1>3, <4>1
      <4>. HIDE DEF most, all
      <4>. QED  BY <3>2, <3>3, <4>2
    <3>. HIDE DEF most, all
    <3>5. most = all
      BY <3>2, <3>3, <3>4, SeqEqual
    <3>. QED  BY <3>5 DEF most, all
  <2>. QED  BY <1>8, <2>1, <2>2 DEF cells
<1>. QED  BY <1>7, <1>8

(* A line of which nothing is left has been turned round.                  *)
LEMMA AllDone ==
  ASSUME NEW text, NEW z, IsDone(text, z), left = <<>>
  PROVE  text = Turned /\ text \in Seq(LineByte)
<1>1. PICK n \in Nat : n = Len(line) /\ n = Len(Turned) /\ Turned \in Seq(TurnedByte)
  BY LenProperties, TurnedIs DEF IsDone
<1>2. IsPart(LineByte, line, z, n)
  BY <1>1 DEF IsDone, IsPart
<1>3. PartFacts(LineByte, line, z, n)
  BY <1>2, PartIs, Zenon
<1>4. n = z - 1
  BY <1>1, <1>3 DEF IsDone, PartFacts
<1>5. SubSeq(Turned, 1, n) = Turned
  BY <1>1, SubSeqFull, Zenon
<1>. QED  BY <1>4, <1>5 DEF IsDone

(* Each of the three turns of a loop reads one word.                       *)
LEMMA WordStep ==
  ASSUME WordsInv, program \in Reversers, outcome = "no", line' = line, left' = Behind,
         NEW gap, gap = (IF GapsAt = {} THEN <<>> ELSE <<Gap>>),
         NEW more, more = (Kept \o Reverse(NextWord)) \o gap
  PROVE  /\ \E y : IsDone(more, y)'
         /\ GapsAt = {} => more = Turned /\ Kept \o Reverse(NextWord) = Turned
<1>1. PICK z : IsDone(Kept, z)
  BY DEF WordsInv
<1>2. CASE GapsAt = {}
  <2>1. Kept \o Reverse(NextWord) \in Seq(LineByte)
    BY <1>1, WordDone
  <2>2. more = Kept \o Reverse(NextWord)
    BY <1>2, <2>1, ConcatEmptySeq
  <2>. QED  BY <1>1, <1>2, <2>2, LastRead
<1>3. CASE GapsAt # {}
  BY <1>1, <1>3, BlankRead
<1>. QED  BY <1>2, <1>3

LEMMA WordsInvStep == WordsInv /\ [LinesNext]_lvars => WordsInv'
<1>. SUFFICES ASSUME WordsInv, [LinesNext]_lvars PROVE WordsInv'
  OBVIOUS
<1>. DEFINE gap == IF GapsAt = {} THEN <<>> ELSE <<Gap>>
<1>1. CASE KeepWord
  <2>1. /\ program = "Koshkarov/I" /\ outcome = "no" /\ outcome' = outcome /\ program' = program
        /\ sentence' = (sentence \o Reverse(NextWord)) \o gap
        /\ line' = line /\ left' = Behind /\ luck' = luck
    BY <1>1 DEF KeepWord, Runs
  <2>2. program \in Reversers /\ Kept = sentence /\ Kept' = sentence'
    BY <2>1 DEF Kept, Reversers
  <2>3. \E y : IsDone(Kept, y)'
    BY <2>1, <2>2, WordStep
  <2>. QED  BY <2>1, <2>3 DEF WordsInv, WordsAreTurned
<1>2. CASE PrintSentence
  <2>1. /\ program = "Koshkarov/I" /\ outcome = "no" /\ program' = program /\ left = <<>>
        /\ line' = line /\ luck' = luck
    BY <1>2 DEF PrintSentence, Runs, Crash
  <2>2. CASE line = <<>>
    BY <1>2, <2>1, <2>2 DEF PrintSentence, Crash, WordsInv, WordsAreTurned
  <2>3. CASE line # <<>>
    <3>1. outcome' = "returned"
      BY <1>2, <2>3 DEF PrintSentence
    <3>2. sentence = Turned /\ sentence \in Seq(LineByte)
      <4>1. program \in Reversers /\ Kept = sentence
        BY <2>1 DEF Kept, Reversers
      <4>. QED  BY <2>1, <4>1, AllDone DEF WordsInv
    <3>3. printed' = SubSeq(Finished(sentence), 1,
                       Min({i \in DOMAIN Finished(sentence) : Finished(sentence)[i] = Null}) - 1)
      BY <1>2, <2>3 DEF PrintSentence
    <3>4. printed' = Turned \o (IF luck = Null THEN <<>> ELSE <<luck>>)
      <4>1. luck \in {Null, Junk}
        BY DEF WordsInv
      <4>. QED  BY <3>2, <3>3, <4>1, UnwrittenByte
    <3>5. Turned' = Turned
      BY <2>1, TurnedStays
    <3>. QED  BY <2>1, <3>1, <3>4, <3>5 DEF WordsInv, WordsAreTurned
  <2>. QED  BY <2>2, <2>3
<1>3. CASE PrintWord
  <2>1. /\ program = "Murzabayev/I" /\ outcome = "no" /\ program' = program
        /\ printed' = (printed \o Reverse(NextWord)) \o gap
        /\ outcome' = IF GapsAt = {} THEN "returned" ELSE "no"
        /\ line' = line /\ left' = Behind /\ luck' = luck
    BY <1>3 DEF PrintWord, Runs, Backwards
  <2>2. program \in Reversers /\ Kept = printed /\ Kept' = printed'
    BY <2>1 DEF Kept, Reversers
  <2>3. (\E y : IsDone(Kept, y)') /\ (GapsAt = {} => printed' = Turned)
    <3>1. PICK more : more = (Kept \o Reverse(NextWord)) \o gap
      OBVIOUS
    <3>2. (\E y : IsDone(more, y)') /\ (GapsAt = {} => more = Turned)
      BY <2>1, <2>2, <3>1, WordStep
    <3>. QED  BY <2>1, <2>2, <3>1, <3>2
  <2>4. Turned' = Turned
    BY <2>1, TurnedStays
  <2>. QED  BY <2>1, <2>3, <2>4 DEF WordsInv, WordsAreTurned
<1>4. CASE PrintWordAndBlank
  <2>1. /\ program = "Zhanmukanbetova/I" /\ outcome = "no" /\ program' = program
        /\ line' = line /\ luck' = luck
    BY <1>4 DEF PrintWordAndBlank, Runs, Crash
  <2>2. CASE luck = Junk
    BY <1>4, <2>1, <2>2 DEF PrintWordAndBlank, Crash, WordsInv, WordsAreTurned
  <2>3. CASE luck # Junk
    <3>1. /\ printed' = (printed \o Reverse(NextWord)) \o <<Gap>> /\ left' = Behind
          /\ outcome' = IF GapsAt = {} THEN "returned" ELSE "no"
      BY <1>4, <2>3 DEF PrintWordAndBlank
    <3>2. program \in Reversers /\ Kept = printed /\ Kept' = printed'
      BY <2>1 DEF Kept, Reversers
    <3>3. PICK more : more = (Kept \o Reverse(NextWord)) \o gap
      OBVIOUS
    <3>4. /\ \E y : IsDone(more, y)'
          /\ GapsAt = {} => Kept \o Reverse(NextWord) = Turned
      BY <2>1, <3>1, <3>2, <3>3, WordStep
    <3>5. Turned' = Turned
      BY <2>1, TurnedStays
    <3>6. CASE GapsAt = {}
      <4>1. printed' = Turned \o <<Gap>>
        BY <3>1, <3>2, <3>4, <3>6
      <4>2. Turned \o <<Gap>> = Append(Turned, Gap)
        <5>1. line \in Seq(LineByte)
          BY <2>1, <3>2 DEF WordsInv, IsDone
        <5>2. Turned \in Seq(TurnedByte) /\ Gap \in TurnedByte
          BY <5>1, TurnedIs DEF TurnedByte, LineByte
        <5>. QED  BY <5>2, AppendIsConcat
      <4>. QED  BY <2>1, <3>1, <3>5, <3>6, <4>1, <4>2 DEF WordsInv, WordsAreTurned
    <3>7. CASE GapsAt # {}
      <4>1. \E y : IsDone(Kept, y)'
        BY <3>1, <3>2, <3>3, <3>4, <3>7
      <4>. QED  BY <2>1, <3>1, <3>7, <4>1 DEF WordsInv, WordsAreTurned
    <3>. QED  BY <3>6, <3>7
  <2>. QED  BY <2>2, <2>3
<1>5. CASE CompareBuffers \/ CompareLines
  <2>1. program \in Comparers /\ program' = program /\ luck' = luck
    BY <1>5 DEF CompareBuffers, CompareLines, Runs, Comparers
  <2>2. program \notin Reversers /\ program' \notin {"Murzabayev/I", "Zhanmukanbetova/I", "Koshkarov/I"}
    BY <2>1 DEF Comparers, Reversers
  <2>. QED  BY <2>1, <2>2 DEF WordsInv, WordsAreTurned
<1>6. CASE UNCHANGED lvars
  <2>1. UNCHANGED <<program, line, left, sentence, luck, printed, outcome>>
    BY <1>6 DEF lvars
  <2>2. Turned' = Turned /\ Kept' = Kept
    BY <2>1, TurnedStays DEF Kept
  <2>3. \A z : IsDone(Kept, z)' <=> IsDone(Kept, z)
    BY <2>1, <2>2 DEF IsDone
  <2>4. WordsAreTurned'
    BY <2>1, <2>2 DEF WordsInv, WordsAreTurned
  <2>. QED  BY <2>1, <2>3, <2>4 DEF WordsInv
<1>. QED  BY <1>1, <1>2, <1>3, <1>4, <1>5, <1>6 DEF LinesNext

(* The three submissions to problem I turn every word of the line round,   *)
(* for lines of any length; Zhanmukanbetova/I puts a blank behind, and     *)
(* Koshkarov/I the byte it has not written.                                *)
THEOREM WordsTurnRound == LinesInit /\ [][LinesNext]_lvars => []WordsAreTurned
<1>1. WordsInv /\ [LinesNext]_lvars => WordsInv'
  BY WordsInvStep
<1>2. WordsInv => WordsAreTurned
  BY DEF WordsInv
<1>. QED  BY <1>1, <1>2, WordsInvInit, PTL
----------------------------------------------------------------------------
(***************************************************************************)
(* Problem A: which of two lines comes first is for the first place at     *)
(* which they differ to say, one of them being over counted as a zero.     *)
(***************************************************************************)
Positive == Nat \ {0}

Cell(s, i) == IF i <= Len(s) THEN s[i] ELSE 0

FirstDiffers(s, t, k) ==
  /\ k \in Positive /\ (k <= Len(s) \/ k <= Len(t))
  /\ Cell(s, k) # Cell(t, k)
  /\ \A i \in 1 .. k - 1 : i <= Len(s) /\ i <= Len(t) /\ s[i] = t[i]

Order(s, t, k) == IF Cell(s, k) < Cell(t, k) THEN -1 ELSE 1

LEMMA TheyDiffer ==
  ASSUME NEW s \in Seq(Positive), NEW t \in Seq(Positive), s # t
  PROVE  \E k : FirstDiffers(s, t, k)
<1>1. PICK m \in Nat, n \in Nat : m = Len(s) /\ n = Len(t)
  BY LenProperties
<1>2. /\ \A i \in 1 .. m : s[i] \in Positive
      /\ \A i \in 1 .. n : t[i] \in Positive
  BY <1>1, ElementOfSeq
<1>. DEFINE D == {i \in Positive : Cell(s, i) # Cell(t, i) /\ (i <= m \/ i <= n)}
<1>3. D # {}
  <2>1. CASE m < n
    <3>1. m + 1 \in 1 .. n /\ ~(m + 1 <= m)
      BY <2>1
    <3>2. Cell(s, m + 1) = 0 /\ Cell(t, m + 1) \in Positive
      BY <1>1, <1>2, <3>1 DEF Cell
    <3>. QED  BY <3>1, <3>2 DEF Positive
  <2>2. CASE n < m
    <3>1. n + 1 \in 1 .. m /\ ~(n + 1 <= n)
      BY <2>2
    <3>2. Cell(t, n + 1) = 0 /\ Cell(s, n + 1) \in Positive
      BY <1>1, <1>2, <3>1 DEF Cell
    <3>. QED  BY <3>1, <3>2 DEF Positive
  <2>3. CASE m = n
    <3>1. PICK i \in 1 .. m : s[i] # t[i]
      BY <1>1, <2>3, SeqEqual
    <3>2. Cell(s, i) = s[i] /\ Cell(t, i) = t[i] /\ i \in Positive /\ i <= m
      BY <1>1, <2>3 DEF Cell, Positive
    <3>3. i \in D
      BY <3>1, <3>2
    <3>. QED  BY <3>3, Zenon
  <2>. QED  BY <2>1, <2>2, <2>3
<1>4. PICK k \in D : \A i \in D : k <= i
  <2>1. D \in SUBSET Nat
    BY DEF Positive
  <2>. HIDE DEF D
  <2>. QED  BY <1>3, <2>1, LeastNatural
<1>5. ASSUME NEW i \in 1 .. k - 1 PROVE i <= m /\ i <= n /\ s[i] = t[i]
  <2>1. i \in Positive /\ ~(k <= i) /\ (i <= m \/ i <= n)
    BY <1>4 DEF Positive
  <2>2. Cell(s, i) = Cell(t, i)
    BY <1>4, <2>1
  <2>3. i <= m /\ i <= n
    BY <1>1, <1>2, <2>1, <2>2 DEF Cell, Positive
  <2>. QED  BY <1>1, <2>2, <2>3 DEF Cell
<1>. QED  BY <1>1, <1>4, <1>5 DEF FirstDiffers

(* Two texts begin alike up to a place.                                    *)
LEMMA SameFront ==
  ASSUME NEW T, NEW s \in Seq(T), NEW t \in Seq(T), NEW j \in Nat, j <= Len(s), j <= Len(t)
  PROVE  SubSeq(s, 1, j) = SubSeq(t, 1, j) <=> \A i \in 1 .. j : s[i] = t[i]
<1>. DEFINE u == SubSeq(s, 1, j)
            v == SubSeq(t, 1, j)
<1>1. /\ u \in Seq(T) /\ Len(u) = j
      /\ \A i \in 1 .. j : u[i] = s[i]
  BY LenProperties
<1>2. /\ v \in Seq(T) /\ Len(v) = j
      /\ \A i \in 1 .. j : v[i] = t[i]
  BY LenProperties
<1>. HIDE DEF u, v
<1>3. ASSUME \A i \in 1 .. j : s[i] = t[i] PROVE u = v
  BY <1>1, <1>2, <1>3, SeqEqual
<1>4. ASSUME u = v PROVE \A i \in 1 .. j : s[i] = t[i]
  BY <1>1, <1>2, <1>4
<1>. QED  BY <1>3, <1>4 DEF u, v

LEMMA RankIs ==
  ASSUME NEW s \in Seq(Positive), NEW t \in Seq(Positive), NEW k, FirstDiffers(s, t, k)
  PROVE  Rank(s, t) = Order(s, t, k)
<1>1. PICK m \in Nat, n \in Nat : m = Len(s) /\ n = Len(t) /\ DOMAIN s = 1 .. m /\ DOMAIN t = 1 .. n
  BY LenProperties
<1>2. /\ \A i \in 1 .. m : s[i] \in Positive
      /\ \A i \in 1 .. n : t[i] \in Positive
  BY <1>1, ElementOfSeq
<1>3. /\ k \in Positive /\ k \in Nat /\ (k <= m \/ k <= n)
      /\ Cell(s, k) # Cell(t, k)
      /\ \A i \in 1 .. k - 1 : i <= m /\ i <= n /\ s[i] = t[i]
  BY <1>1 DEF FirstDiffers, Positive
<1>4. k - 1 <= m /\ k - 1 <= n
  <2>1. k = 1 \/ k - 1 \in 1 .. k - 1
    BY <1>3 DEF Positive
  <2>. QED  BY <1>3, <2>1
<1>5. s # t
  BY <1>3
<1>6. ASSUME k > m PROVE IsPrefix(s, t) /\ Order(s, t, k) = -1
  <2>1. m = k - 1 /\ k <= n
    BY <1>3, <1>4, <1>6
  <2>2. SubSeq(s, 1, m) = SubSeq(t, 1, m)
    BY <1>1, <1>3, <2>1, SameFront
  <2>3. Cell(s, k) = 0 /\ Cell(t, k) \in Positive
    BY <1>1, <1>2, <1>3, <1>6, <2>1 DEF Cell, Positive
  <2>4. IsPrefix(s, t)
    <3>1. m <= n
      BY <1>3, <2>1
    <3>2. Len(s) <= Len(t) /\ SubSeq(s, 1, Len(s)) = SubSeq(t, 1, Len(s))
      BY <1>1, <2>2, <3>1
    <3>. QED  BY <3>2, Zenon DEF IsPrefix
  <2>5. Order(s, t, k) = -1
    <3>1. Cell(s, k) < Cell(t, k)
      BY <2>3 DEF Positive
    <3>. QED  BY <3>1 DEF Order
  <2>. QED  BY <2>4, <2>5
<1>7. ASSUME k > n PROVE IsPrefix(t, s) /\ ~IsPrefix(s, t) /\ Order(s, t, k) = 1
  <2>1. n = k - 1 /\ k <= m
    BY <1>3, <1>4, <1>7
  <2>2. SubSeq(t, 1, n) = SubSeq(s, 1, n)
    BY <1>1, <1>3, <2>1, SameFront
  <2>3. Cell(t, k) = 0 /\ Cell(s, k) \in Positive
    BY <1>1, <1>2, <1>3, <1>7, <2>1 DEF Cell, Positive
  <2>4. IsPrefix(t, s) /\ ~IsPrefix(s, t)
    BY <1>1, <1>3, <2>1, <2>2 DEF IsPrefix
  <2>5. Order(s, t, k) = 1
    <3>1. ~(Cell(s, k) < Cell(t, k))
      BY <2>3 DEF Positive
    <3>. QED  BY <3>1 DEF Order
  <2>. QED  BY <2>4, <2>5
<1>8. ASSUME k <= m, k <= n
      PROVE  /\ ~IsPrefix(s, t) /\ ~IsPrefix(t, s)
             /\ \A j \in DOMAIN s \cap DOMAIN t :
                  SubSeq(s, 1, j - 1) = SubSeq(t, 1, j - 1) /\ s[j] # t[j] <=> j = k
             /\ Order(s, t, k) = IF s[k] < t[k] THEN -1 ELSE 1
  <2>1. s[k] # t[k] /\ Cell(s, k) = s[k] /\ Cell(t, k) = t[k] /\ k \in 1 .. m /\ k \in 1 .. n
    BY <1>1, <1>3, <1>8 DEF Cell, Positive
  <2>2. ~IsPrefix(s, t)
    BY <1>1, <2>1, SameFront DEF IsPrefix
  <2>3. ~IsPrefix(t, s)
    BY <1>1, <2>1, SameFront DEF IsPrefix
  <2>4. ASSUME NEW j \in DOMAIN s \cap DOMAIN t
        PROVE  SubSeq(s, 1, j - 1) = SubSeq(t, 1, j - 1) /\ s[j] # t[j] <=> j = k
    <3>1. j \in 1 .. m /\ j \in 1 .. n /\ j - 1 \in Nat /\ j - 1 <= m /\ j - 1 <= n
      BY <1>1
    <3>2. SubSeq(s, 1, j - 1) = SubSeq(t, 1, j - 1) <=> \A i \in 1 .. j - 1 : s[i] = t[i]
      BY <1>1, <3>1, SameFront
    <3>3. j < k => s[j] = t[j]
      BY <1>3, <3>1
    <3>4. j > k => k \in 1 .. j - 1
      BY <2>1, <3>1
    <3>. QED  BY <1>3, <2>1, <3>1, <3>2, <3>3, <3>4
  <2>. QED  BY <2>1, <2>2, <2>3, <2>4 DEF Order
<1>9. CASE k > m
  BY <1>5, <1>6, <1>9 DEF Rank
<1>10. CASE k > n
  BY <1>5, <1>7, <1>10 DEF Rank
<1>11. CASE k <= m /\ k <= n
  <2>1. k \in DOMAIN s \cap DOMAIN t
    BY <1>1, <1>3, <1>11 DEF Positive
  <2>2. (CHOOSE j \in DOMAIN s \cap DOMAIN t :
           SubSeq(s, 1, j - 1) = SubSeq(t, 1, j - 1) /\ s[j] # t[j]) = k
    BY <1>8, <1>11, <2>1
  <2>. QED  BY <1>5, <1>8, <1>11, <2>2 DEF Rank
<1>. QED  BY <1>1, <1>3, <1>9, <1>10, <1>11

LEMMA RankSame == ASSUME NEW s PROVE Rank(s, s) = 0
BY DEF Rank

LEMMA GreaterOfTwo == ASSUME NEW m \in Nat, NEW n \in Nat PROVE Max({m, n}) \in Nat /\ Max({m, n}) >= m /\ Max({m, n}) >= n
<1>1. CASE m <= n
  <2>1. Max({m, n}) = n
    BY <1>1, GreatestIs
  <2>. QED  BY <1>1, <2>1
<1>2. CASE n <= m
  <2>1. Max({m, n}) = m
    BY <1>2, GreatestIs
  <2>. QED  BY <1>2, <2>1
<1>. QED  BY <1>1, <1>2

LEMMA StrcmpIs ==
  ASSUME NEW s \in Seq(Positive), NEW t \in Seq(Positive)
  PROVE  /\ s = t => Strcmp(s, t) = 0
         /\ \A k : FirstDiffers(s, t, k) => Strcmp(s, t) = Order(s, t, k)
<1>. DEFINE longest == Max({Len(s), Len(t)})
            differ  == {i \in 1 .. longest + 1 : Cell(s, i) # Cell(t, i)}
<1>1. PICK m \in Nat, n \in Nat : m = Len(s) /\ n = Len(t)
  BY LenProperties
<1>2. longest \in Nat /\ longest >= m /\ longest >= n
  BY <1>1, GreaterOfTwo
<1>. HIDE DEF longest
<1>3. Strcmp(s, t) = IF differ = {} THEN 0
                     ELSE IF Cell(s, Min(differ)) < Cell(t, Min(differ)) THEN -1 ELSE 1
  BY DEF Strcmp, Cell, longest
<1>4. ASSUME s = t PROVE Strcmp(s, t) = 0
  <2>1. differ = {}
    BY <1>4
  <2>. QED  BY <1>3, <2>1
<1>5. ASSUME NEW k, FirstDiffers(s, t, k) PROVE Strcmp(s, t) = Order(s, t, k)
  <2>1. k \in differ /\ k \in Nat
    BY <1>1, <1>2, <1>5 DEF FirstDiffers, Positive
  <2>2. ASSUME NEW i \in differ PROVE k <= i
    <3>. SUFFICES ASSUME i < k PROVE FALSE
      BY <2>1
    <3>1. i \in 1 .. k - 1
      BY <2>1
    <3>2. Cell(s, i) = Cell(t, i)
      BY <1>5, <3>1 DEF FirstDiffers, Cell
    <3>. QED  BY <3>2
  <2>3. differ \in SUBSET Nat
    OBVIOUS
  <2>. HIDE DEF differ
  <2>4. Min(differ) = k
    <3>1. PICK least \in Nat : least = Min(differ) /\ least \in differ /\ least <= k
      BY <2>1, <2>3, LeastNatural
    <3>2. k <= least
      BY <2>2, <3>1
    <3>. QED  BY <2>1, <3>1, <3>2
  <2>. QED  BY <1>3, <2>1, <2>4 DEF Order
<1>. QED  BY <1>4, <1>5

LEMMA CmpStrIs ==
  ASSUME NEW s \in Seq(Int), NEW t \in Seq(Int)
  PROVE  /\ s = t => CmpStr(s, t) = 0
         /\ \A k \in DOMAIN s \cap DOMAIN t :
              s[k] # t[k] /\ (\A i \in 1 .. k - 1 : s[i] = t[i]) =>
                CmpStr(s, t) = IF s[k] < t[k] THEN 1 ELSE -1
<1>1. PICK m \in Nat, n \in Nat : m = Len(s) /\ n = Len(t) /\ DOMAIN s = 1 .. m /\ DOMAIN t = 1 .. n
  BY LenProperties
<1>. DEFINE differ == Differ(s, t)
<1>2. differ = {i \in DOMAIN s \cap DOMAIN t : s[i] # t[i]}
  BY DEF Differ
<1>3. CmpStr(s, t) = IF differ = {} THEN 0 ELSE IF s[Min(differ)] < t[Min(differ)] THEN 1 ELSE -1
  BY DEF CmpStr
<1>. HIDE DEF differ
<1>4. ASSUME s = t PROVE CmpStr(s, t) = 0
  <2>1. differ = {}
    BY <1>2, <1>4
  <2>. QED  BY <1>3, <2>1
<1>5. ASSUME NEW k \in DOMAIN s \cap DOMAIN t, s[k] # t[k], \A i \in 1 .. k - 1 : s[i] = t[i]
      PROVE  CmpStr(s, t) = IF s[k] < t[k] THEN 1 ELSE -1
  <2>1. k \in differ /\ k \in Nat
    BY <1>1, <1>2, <1>5
  <2>2. ASSUME NEW i \in differ PROVE k <= i
    <3>. SUFFICES ASSUME i < k PROVE FALSE
      BY <1>1, <1>2, <2>1
    <3>1. i \in 1 .. k - 1
      BY <1>1, <1>2, <2>1
    <3>. QED  BY <1>2, <1>5, <3>1
  <2>3. differ \in SUBSET Nat
    BY <1>1, <1>2
  <2>4. Min(differ) = k
    <3>1. PICK least \in Nat : least = Min(differ) /\ least \in differ /\ least <= k
      BY <2>1, <2>3, LeastNatural
    <3>2. k <= least
      BY <2>2, <3>1
    <3>. QED  BY <2>1, <3>1, <3>2
  <2>. QED  BY <1>3, <2>1, <2>4
<1>. QED  BY <1>4, <1>5

LEMMA FoldedIs ==
  ASSUME NEW text \in Seq(DOMAIN Lower)
  PROVE  Folded(text) \in Seq(Positive) /\ Folded(text) \in Seq(Int)
<1>1. \A b \in DOMAIN Lower : Lower[b] \in Positive
  BY DEF Lower, Positive
<1>2. Len(text) \in Nat /\ DOMAIN text = 1 .. Len(text) /\ \A i \in 1 .. Len(text) : text[i] \in DOMAIN Lower
  BY LenProperties, ElementOfSeq
<1>3. Folded(text) = [i \in 1 .. Len(text) |-> Lower[text[i]]]
  BY <1>2 DEF Folded
<1>4. Folded(text) \in Seq(Positive)
  BY <1>1, <1>2, <1>3
<1>5. Positive \subseteq Int
  BY DEF Positive
<1>. QED  BY <1>4, <1>5, SeqMonotonic

(* What is put behind a text changes none of it.                           *)
LEMMA PutBehind ==
  ASSUME NEW T, NEW s \in Seq(T), NEW b \in T
  PROVE  /\ Append(s, b) \in Seq(T) /\ Len(Append(s, b)) = Len(s) + 1
         /\ \A i \in 1 .. Len(s) : Append(s, b)[i] = s[i]
         /\ Append(s, b)[Len(s) + 1] = b
  OBVIOUS

(* A text of which the first stops before it differs is all of the         *)
(* beginning of the second.                                                *)
LEMMA DiffersWithin ==
  ASSUME NEW s \in Seq(Positive), NEW t \in Seq(Positive), NEW k, FirstDiffers(s, t, k)
  PROVE  /\ ~IsPrefix(s, t) => k <= Len(s)
         /\ ~IsPrefix(t, s) => k <= Len(t)
<1>1. PICK m \in Nat, n \in Nat : m = Len(s) /\ n = Len(t)
  BY LenProperties
<1>2. /\ k \in Nat /\ k # 0
      /\ \A i \in 1 .. k - 1 : i <= m /\ i <= n /\ s[i] = t[i]
  BY <1>1 DEF FirstDiffers, Positive
<1>3. k - 1 <= m /\ k - 1 <= n
  <2>1. k = 1 \/ k - 1 \in 1 .. k - 1
    BY <1>2
  <2>. QED  BY <1>2, <2>1
<1>4. ASSUME ~(k <= m) PROVE IsPrefix(s, t)
  <2>1. m = k - 1 /\ m <= n
    BY <1>2, <1>3, <1>4
  <2>2. SubSeq(s, 1, m) = SubSeq(t, 1, m)
    BY <1>1, <1>2, <2>1, SameFront
  <2>3. Len(s) <= Len(t) /\ SubSeq(s, 1, Len(s)) = SubSeq(t, 1, Len(s))
    BY <1>1, <2>1, <2>2
  <2>. QED  BY <2>3, Zenon DEF IsPrefix
<1>5. ASSUME ~(k <= n) PROVE IsPrefix(t, s)
  <2>1. n = k - 1 /\ n <= m
    BY <1>2, <1>3, <1>5
  <2>2. SubSeq(t, 1, n) = SubSeq(s, 1, n)
    BY <1>1, <1>2, <2>1, SameFront
  <2>3. Len(t) <= Len(s) /\ SubSeq(t, 1, Len(t)) = SubSeq(s, 1, Len(t))
    BY <1>1, <2>1, <2>2
  <2>. QED  BY <2>3, Zenon DEF IsPrefix
<1>. QED  BY <1>1, <1>4, <1>5

LEMMA PrefixOfItself == ASSUME NEW T, NEW s \in Seq(T) PROVE IsPrefix(s, s)
<1>1. Len(s) <= Len(s)
  OBVIOUS
<1>. QED  BY <1>1, Zenon DEF IsPrefix

(* strcmp with what happens to stand behind the first line.                *)
LEMMA BuffersCompared ==
  ASSUME NEW s \in Seq(Positive), NEW t \in Seq(Positive), ~IsPrefix(t, s), NEW b \in Positive
  PROVE  Strcmp(s, Append(t, b)) = Rank(s, t)
<1>1. s # t
  BY PrefixOfItself
<1>2. PICK k : FirstDiffers(s, t, k)
  BY <1>1, TheyDiffer
<1>3. PICK n \in Nat : n = Len(t) /\ k <= n /\ k \in Positive
  BY <1>2, LenProperties, DiffersWithin DEF FirstDiffers
<1>. DEFINE u == Append(t, b)
<1>4. u \in Seq(Positive) /\ Len(u) = n + 1 /\ \A i \in 1 .. n : u[i] = t[i]
  BY <1>3, PutBehind
<1>. HIDE DEF u
<1>5. Cell(u, k) = Cell(t, k)
  BY <1>3, <1>4 DEF Cell, Positive
<1>6. FirstDiffers(s, u, k)
  <2>1. k <= Len(u)
    BY <1>3, <1>4 DEF Positive
  <2>2. ASSUME NEW i \in 1 .. k - 1 PROVE i <= Len(s) /\ i <= Len(u) /\ s[i] = u[i]
    <3>1. i <= Len(s) /\ s[i] = t[i] /\ i \in 1 .. n
      BY <1>2, <1>3 DEF FirstDiffers, Positive
    <3>. QED  BY <1>4, <3>1
  <2>. QED  BY <1>2, <1>3, <1>5, <2>1, <2>2 DEF FirstDiffers
<1>7. Strcmp(s, u) = Order(s, u, k) /\ Rank(s, t) = Order(s, t, k)
  BY <1>2, <1>4, <1>6, StrcmpIs, RankIs
<1>. QED  BY <1>5, <1>7 DEF Order, u

(* The comparison of two lines with their line breaks; the second may have *)
(* none.                                                                   *)
LEMMA LinesCompared ==
  ASSUME NEW s \in Seq(Positive), NEW t \in Seq(Positive), NEW broken \in BOOLEAN,
         broken \/ ~IsPrefix(t, s)
  PROVE  CmpStr(Whole(s, TRUE), Whole(t, broken)) = Rank(t, s)
<1>. DEFINE u == Append(s, Break)
            v == IF broken THEN Append(t, Break) ELSE t
<1>1. PICK m \in Nat, n \in Nat : m = Len(s) /\ n = Len(t)
  BY LenProperties
<1>2. s \in Seq(Int) /\ t \in Seq(Int) /\ Break \in Int /\ Break < 0
  <2>1. Positive \subseteq Int
    BY DEF Positive
  <2>2. Seq(Positive) \subseteq Seq(Int)
    BY <2>1, SeqMonotonic, Zenon
  <2>3. Break \in Int /\ Break < 0
    BY DEF Break
  <2>. QED  BY <2>2, <2>3
<1>3. /\ u \in Seq(Int) /\ Len(u) = m + 1 /\ DOMAIN u = 1 .. m + 1
      /\ \A i \in 1 .. m : u[i] = s[i]
      /\ u[m + 1] = Break
  BY <1>1, <1>2, PutBehind
<1>4. /\ v \in Seq(Int) /\ DOMAIN v = 1 .. Len(v)
      /\ Len(v) = IF broken THEN n + 1 ELSE n
      /\ \A i \in 1 .. n : v[i] = t[i]
      /\ broken => v[n + 1] = Break
  <2>1. CASE broken
    BY <1>1, <1>2, <2>1, PutBehind
  <2>2. CASE ~broken
    BY <1>1, <1>2, <2>2
  <2>. QED  BY <2>1, <2>2
<1>5. Whole(s, TRUE) = u /\ Whole(t, broken) = v
  BY DEF Whole
<1>. HIDE DEF u, v
<1>6. CASE s = t
  <2>1. broken
    BY <1>6, PrefixOfItself
  <2>2. u = v
    BY <1>6, <2>1 DEF u, v
  <2>. QED  BY <1>3, <1>4, <1>5, <1>6, <2>2, CmpStrIs, RankSame
<1>7. CASE s # t
  <2>1. PICK k : FirstDiffers(t, s, k)
    BY <1>7, TheyDiffer
  <2>2. /\ k \in Nat /\ k # 0 /\ (k <= m \/ k <= n)
        /\ \A i \in 1 .. k - 1 : i <= m /\ i <= n /\ s[i] = t[i]
    BY <1>1, <2>1 DEF FirstDiffers, Positive
  <2>3. k - 1 <= m /\ k - 1 <= n
    <3>1. k = 1 \/ k - 1 \in 1 .. k - 1
      BY <2>2
    <3>. QED  BY <2>2, <3>1
  <2>4. ~broken => k <= n
    BY <1>1, <2>1, DiffersWithin
  <2>5. k \in 1 .. m + 1 /\ k \in 1 .. Len(v) /\ k \in DOMAIN u \cap DOMAIN v
    BY <1>3, <1>4, <2>2, <2>3, <2>4
  <2>6. \A i \in 1 .. k - 1 : u[i] = v[i]
    BY <1>3, <1>4, <2>2
  <2>7. /\ \A i \in 1 .. m : s[i] \in Positive
        /\ \A i \in 1 .. n : t[i] \in Positive
    BY <1>1, ElementOfSeq
  <2>8. u[k] # v[k] /\ (IF u[k] < v[k] THEN 1 ELSE -1) = Order(t, s, k)
    <3>1. CASE k <= m /\ k <= n
      <4>1. u[k] = s[k] /\ v[k] = t[k] /\ Cell(s, k) = s[k] /\ Cell(t, k) = t[k]
        BY <1>1, <1>3, <1>4, <2>2, <3>1 DEF Cell
      <4>2. PICK x \in Nat, y \in Nat : x = s[k] /\ y = t[k] /\ x # y
        BY <2>1, <2>2, <2>7, <3>1, <4>1 DEF FirstDiffers, Positive
      <4>. QED  BY <4>1, <4>2 DEF Order
    <3>2. CASE ~(k <= m)
      <4>1. k = m + 1 /\ k <= n
        BY <2>2, <2>3, <3>2
      <4>2. u[k] = Break /\ v[k] = t[k] /\ Cell(s, k) = 0 /\ Cell(t, k) = t[k]
        BY <1>1, <1>3, <1>4, <2>2, <4>1 DEF Cell
      <4>3. PICK y \in Nat : y = t[k] /\ y > 0
        BY <2>2, <2>7, <4>1 DEF Positive
      <4>. QED  BY <1>2, <4>2, <4>3 DEF Order
    <3>3. CASE ~(k <= n)
      <4>1. k = n + 1 /\ k <= m /\ broken
        BY <2>2, <2>3, <2>4, <3>3
      <4>2. u[k] = s[k] /\ v[k] = Break /\ Cell(s, k) = s[k] /\ Cell(t, k) = 0
        BY <1>1, <1>3, <1>4, <2>2, <4>1 DEF Cell
      <4>3. PICK x \in Nat : x = s[k] /\ x > 0
        BY <2>2, <2>7, <4>1 DEF Positive
      <4>. QED  BY <1>2, <4>2, <4>3 DEF Order
    <3>. QED  BY <3>1, <3>2, <3>3
  <2>9. CmpStr(u, v) = IF u[k] < v[k] THEN 1 ELSE -1
    BY <1>3, <1>4, <2>5, <2>6, <2>8, CmpStrIs
  <2>10. Rank(t, s) = Order(t, s, k)
    BY <2>1, RankIs
  <2>. QED  BY <1>5, <2>8, <2>9, <2>10
<1>. QED  BY <1>6, <1>7

LinesInv ==
  /\ program \in Comparers => line \in Seq(DOMAIN Lower) /\ line2 \in Seq(DOMAIN Lower)
  /\ luck \in {Null, Junk} /\ ended \in BOOLEAN
  /\ LinesAreCompared

LEMMA LinesInvInit == LinesInit => LinesInv
<1>. SUFFICES ASSUME LinesInit PROVE LinesInv
  OBVIOUS
<1>1. outcome = "no" /\ luck \in {Null, Junk} /\ ended \in BOOLEAN
  BY DEF LinesInit
<1>2. ASSUME program \in Comparers PROVE line \in Seq(DOMAIN Lower) /\ line2 \in Seq(DOMAIN Lower)
  <2>1. line \in LineOf(DOMAIN Lower) /\ line2 \in LineOf(DOMAIN Lower)
    BY <1>2 DEF LinesInit, Reversers, Comparers
  <2>. QED  BY <2>1, LineIs
<1>. QED  BY <1>1, <1>2 DEF LinesInv, LinesAreCompared

LEMMA LinesInvStep == LinesInv /\ [LinesNext]_lvars => LinesInv'
<1>. SUFFICES ASSUME LinesInv, [LinesNext]_lvars PROVE LinesInv'
  OBVIOUS
<1>1. CASE CompareBuffers
  <2>1. /\ program = "Selevenko/A" /\ outcome' = "returned"
        /\ UNCHANGED <<program, line, line2, ended, luck>>
    BY <1>1 DEF CompareBuffers, Runs
  <2>2. PICK first \in Unended(Folded(line)) : printed' = <<Strcmp(Folded(line2), first)>>
    BY <1>1 DEF CompareBuffers
  <2>3. Folded(line) \in Seq(Positive) /\ Folded(line2) \in Seq(Positive)
    BY <2>1, FoldedIs DEF LinesInv, Comparers
  <2>4. CASE luck = Null
    <3>1. first = Folded(line)
      BY <2>2, <2>4 DEF Unended
    <3>2. Strcmp(Folded(line2), Folded(line)) = Rank(Folded(line2), Folded(line))
      <4>1. CASE Folded(line2) = Folded(line)
        BY <2>3, <4>1, StrcmpIs, RankSame
      <4>2. CASE Folded(line2) # Folded(line)
        <5>1. PICK k : FirstDiffers(Folded(line2), Folded(line), k)
          BY <2>3, <4>2, TheyDiffer
        <5>. QED  BY <2>3, <5>1, StrcmpIs, RankIs
      <4>. QED  BY <4>1, <4>2
    <3>. QED  BY <2>1, <2>2, <3>1, <3>2 DEF LinesInv, LinesAreCompared, Folded
  <2>5. CASE luck # Null
    <3>1. luck = Junk
      BY <2>5 DEF LinesInv
    <3>2. PICK b \in AnyByte : first = Append(Folded(line), b)
      BY <2>2, <2>5 DEF Unended
    <3>3. b \in Positive
      BY DEF AnyByte, Positive
    <3>4. ~IsPrefix(Folded(line), Folded(line2)) =>
            Strcmp(Folded(line2), first) = Rank(Folded(line2), Folded(line))
      BY <2>3, <3>2, <3>3, BuffersCompared
    <3>. QED  BY <2>1, <2>2, <3>1, <3>4 DEF LinesInv, LinesAreCompared, Folded
  <2>. QED  BY <2>4, <2>5
<1>2. CASE CompareLines
  <2>1. /\ program = "Koshkarov/A" /\ outcome' = "returned"
        /\ printed' = <<CmpStr(Whole(Folded(line), TRUE), Whole(Folded(line2), ended))>>
        /\ UNCHANGED <<program, line, line2, ended, luck>>
    BY <1>2 DEF CompareLines, Runs
  <2>2. Folded(line) \in Seq(Positive) /\ Folded(line2) \in Seq(Positive) /\ ended \in BOOLEAN
    BY <2>1, FoldedIs, Zenon DEF LinesInv, Comparers
  <2>3. ended \/ ~IsPrefix(Folded(line2), Folded(line)) =>
          CmpStr(Whole(Folded(line), TRUE), Whole(Folded(line2), ended)) = Rank(Folded(line2), Folded(line))
    BY <2>2, LinesCompared
  <2>. QED  BY <2>1, <2>3 DEF LinesInv, LinesAreCompared, Folded
<1>3. CASE KeepWord \/ PrintSentence \/ PrintWord \/ PrintWordAndBlank
  <2>1. program \in Reversers /\ UNCHANGED <<program, ended, luck>>
    BY <1>3 DEF KeepWord, PrintSentence, PrintWord, PrintWordAndBlank, Runs, Crash, Reversers
  <2>2. program \notin Comparers
    BY <2>1 DEF Comparers, Reversers
  <2>. QED  BY <2>1, <2>2 DEF LinesInv, LinesAreCompared
<1>4. CASE UNCHANGED lvars
  BY <1>4 DEF LinesInv, LinesAreCompared, lvars, Folded
<1>. QED  BY <1>1, <1>2, <1>3, <1>4 DEF LinesNext

(* The two submissions to problem A say which of two lines comes first,    *)
(* for lines of any length; Selevenko/A unless the first is the beginning  *)
(* of the second and what stands behind it is junk, Koshkarov/A unless the *)
(* second is the beginning of the first and has no line break.             *)
THEOREM LinesAreRanked == LinesInit /\ [][LinesNext]_lvars => []LinesAreCompared
<1>1. LinesInv /\ [LinesNext]_lvars => LinesInv'
  BY LinesInvStep
<1>2. LinesInv => LinesAreCompared
  BY DEF LinesInv
<1>. QED  BY <1>1, <1>2, LinesInvInit, PTL
=============================================================================
