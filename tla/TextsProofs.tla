---------------------------- MODULE TextsProofs ----------------------------
(***************************************************************************)
(* Every text a contest is described by is taken for what it says, however *)
(* long it is: each reader is set against a definition that looks at the   *)
(* whole text at once.                                                     *)
(***************************************************************************)
EXTENDS Launch, CfgReader, Commands, JsonString, MarksProofs, SequenceTheorems

----------------------------------------------------------------------------
(* The first place of a kind in a text.                                    *)

LEMMA FirstOrIs ==
  ASSUME NEW S \in SUBSET Nat, NEW none
  PROVE  /\ S = {} => FirstOr(S, none) = none
         /\ S # {} => FirstOr(S, none) \in S /\ \A y \in S : FirstOr(S, none) <= y
<1>1. S # {} => FirstOr(S, none) \in S /\ \A y \in S : FirstOr(S, none) <= y
  BY LeastNatural DEF FirstOr
<1>. QED  BY <1>1 DEF FirstOr

LEMMA FirstOrFound ==
  ASSUME NEW S \in SUBSET Nat, NEW none, NEW x \in S, \A y \in S : x <= y
  PROVE  FirstOr(S, none) = x
<1>. DEFINE first == FirstOr(S, none)
<1>1. first \in S /\ first <= x
  BY FirstOrIs
<1>. HIDE DEF first
<1>2. first \in Nat /\ x \in Nat /\ x <= first
  BY <1>1
<1>. QED  BY <1>1, <1>2 DEF first

----------------------------------------------------------------------------
(* What a sequence of sequences comes to in a row.                         *)

(* What holds of no units, and of one more when of some, holds of all.     *)
LEMMA SequencesAll ==
  ASSUME NEW T, NEW S, <<>> \in S,
         \A s \in Seq(T), u \in T : s \in S => Append(s, u) \in S
  PROVE  Seq(T) \subseteq S
<1>. DEFINE Done == {n \in Nat : \A s \in Seq(T) : Len(s) = n => s \in S}
<1>1. 0 \in Done
  OBVIOUS
<1>2. ASSUME NEW n \in Nat, n \in Done PROVE n + 1 \in Done
  <2>1. ASSUME NEW s \in Seq(T), Len(s) = n + 1 PROVE s \in S
    <3>1. s # <<>>
      BY <1>2, <2>1
    <3>2. PICK r \in Seq(T), u \in T : s = Append(r, u)
      BY <3>1, SequenceEmptyOrAppend
    <3>3. Len(r) = n
      BY <2>1, <3>2
    <3>. QED  BY <1>2, <3>2, <3>3
  <2>. QED  BY <1>2, <2>1
<1>. HIDE DEF Done
<1>3. Nat \subseteq Done
  BY <1>1, <1>2, InductiveSet
<1>4. ASSUME NEW s \in Seq(T) PROVE s \in S
  <2>1. Len(s) \in Done
    BY <1>3
  <2>. QED  BY <2>1 DEF Done
<1>. QED  BY <1>4

(* The function FlattenSeq recurses with.                                  *)
FlatStep(g, ss, n) == [i \in 1 .. n |-> IF i = 1 THEN ss[i] ELSE g[i - 1] \o ss[i]]

LEMMA FlatExists == \A ss : \A n \in Nat : \E g : g = FlatStep(g, ss, n)
<1>. TAKE ss
<1>. DEFINE Done == {n \in Nat : \E g : g = FlatStep(g, ss, n)}
<1>1. 0 \in Done
  <2>. DEFINE g == [i \in 1 .. 0 |-> 0]
  <2>1. g = FlatStep(g, ss, 0)
    BY DEF FlatStep
  <2>. QED  BY <2>1
<1>2. ASSUME NEW n \in Nat, n \in Done PROVE n + 1 \in Done
  <2>1. PICK g : g = FlatStep(g, ss, n)
    BY <1>2
  <2>. DEFINE h == [i \in 1 .. n + 1 |-> IF i = 1 THEN ss[i] ELSE g[i - 1] \o ss[i]]
  <2>2. ASSUME NEW i \in 1 .. n PROVE h[i] = g[i]
    <3>1. g[i] = IF i = 1 THEN ss[i] ELSE g[i - 1] \o ss[i]
      BY <2>1 DEF FlatStep
    <3>. QED  BY <3>1
  <2>3. ASSUME NEW i \in 1 .. n + 1, i # 1 PROVE h[i - 1] = g[i - 1]
    <3>1. i - 1 \in 1 .. n
      BY <2>3
    <3>. QED  BY <2>2, <3>1
  <2>4. h = FlatStep(h, ss, n + 1)
    <3>1. ASSUME NEW i \in 1 .. n + 1
          PROVE  h[i] = IF i = 1 THEN ss[i] ELSE h[i - 1] \o ss[i]
      <4>. HIDE DEF h
      <4>1. h[i] = IF i = 1 THEN ss[i] ELSE g[i - 1] \o ss[i]
        BY DEF h
      <4>. QED  BY <2>3, <4>1
    <3>2. h = [i \in 1 .. n + 1 |-> h[i]]
      OBVIOUS
    <3>. HIDE DEF h
    <3>. QED  BY <3>1, <3>2 DEF FlatStep
  <2>. HIDE DEF h
  <2>. QED  BY <2>4
<1>. HIDE DEF Done
<1>3. Nat \subseteq Done
  BY <1>1, <1>2, InductiveSet
<1>. QED  BY <1>3 DEF Done

FlatSame(g, ss, n, h, tt, m) ==
  /\ n \in Nat /\ m \in Nat /\ n <= m /\ \A i \in 1 .. n : ss[i] = tt[i]
  /\ g = FlatStep(g, ss, n) /\ h = FlatStep(h, tt, m)

LEMMA FlatUnique ==
  ASSUME NEW g, NEW ss, NEW n, NEW h, NEW tt, NEW m, FlatSame(g, ss, n, h, tt, m)
  PROVE  \A i \in 1 .. n : g[i] = h[i]
<1>. DEFINE Same == {k \in Nat : k \in 1 .. n => g[k] = h[k]}
<1>1. /\ n \in Nat /\ m \in Nat /\ n <= m /\ \A i \in 1 .. n : ss[i] = tt[i]
      /\ g = FlatStep(g, ss, n) /\ h = FlatStep(h, tt, m)
  BY DEF FlatSame
<1>2. \A i \in 1 .. n : g[i] = IF i = 1 THEN ss[i] ELSE g[i - 1] \o ss[i]
  BY <1>1 DEF FlatStep
<1>3. \A i \in 1 .. m : h[i] = IF i = 1 THEN tt[i] ELSE h[i - 1] \o tt[i]
  BY <1>1 DEF FlatStep
<1>4. 0 \in Same
  OBVIOUS
<1>5. ASSUME NEW k \in Nat, k \in Same PROVE k + 1 \in Same
  <2>. SUFFICES ASSUME k + 1 \in 1 .. n PROVE g[k + 1] = h[k + 1]
    OBVIOUS
  <2>1. k + 1 \in 1 .. m /\ ss[k + 1] = tt[k + 1] /\ (k + 1) - 1 = k
    BY <1>1
  <2>2. CASE k = 0
    BY <1>2, <1>3, <2>1, <2>2
  <2>3. CASE k # 0
    <3>1. k \in 1 .. n
      BY <1>1, <2>3
    <3>2. g[k] = h[k]
      BY <1>5, <3>1
    <3>3. k + 1 # 1
      BY <2>3
    <3>4. g[k + 1] = g[k] \o ss[k + 1]
      BY <1>2, <2>1, <3>3
    <3>5. h[k + 1] = h[k] \o tt[k + 1]
      BY <1>3, <2>1, <3>3
    <3>. QED  BY <2>1, <3>2, <3>4, <3>5
  <2>. QED  BY <2>2, <2>3
<1>. HIDE DEF Same
<1>6. Nat \subseteq Same
  BY <1>4, <1>5, InductiveSet
<1>7. ASSUME NEW i \in 1 .. n PROVE g[i] = h[i]
  <2>1. i \in Same
    BY <1>1, <1>6
  <2>. QED  BY <2>1 DEF Same
<1>. QED  BY <1>7

LEMMA FlatIs ==
  ASSUME NEW ss, NEW n \in Nat \ {0}, Len(ss) = n, NEW g, g = FlatStep(g, ss, n)
  PROVE  FlattenSeq(ss) = g[n]
<1>1. FlattenSeq(ss) = LET h == CHOOSE h : h = FlatStep(h, ss, n) IN h[n]
  BY DEF FlattenSeq, FlatStep
<1>. DEFINE h == CHOOSE h : h = FlatStep(h, ss, n)
<1>2. h = FlatStep(h, ss, n)
  BY FlatExists
<1>. HIDE DEF h
<1>3. FlatSame(g, ss, n, h, ss, n)
  BY <1>2 DEF FlatSame
<1>4. g[n] = h[n]
  BY <1>3, FlatUnique
<1>. QED  BY <1>1, <1>4 DEF h

LEMMA FlatEmpty == FlattenSeq(<<>>) = <<>>
<1>1. Len(<<>>) = 0
  OBVIOUS
<1>. QED  BY <1>1 DEF FlattenSeq

LEMMA FlatAppend ==
  ASSUME NEW T, NEW ss \in Seq(Seq(T)), NEW x \in Seq(T)
  PROVE  FlattenSeq(Append(ss, x)) = FlattenSeq(ss) \o x
<1>. DEFINE tt == Append(ss, x)
            n  == Len(ss)
<1>1. n \in Nat /\ Len(tt) = n + 1 /\ tt[n + 1] = x /\ \A i \in 1 .. n : ss[i] = tt[i]
  OBVIOUS
<1>2. PICK h : h = FlatStep(h, tt, n + 1)
  <2>1. n + 1 \in Nat
    BY <1>1
  <2>. QED  BY <2>1, FlatExists
<1>3. \A i \in 1 .. n + 1 : h[i] = IF i = 1 THEN tt[i] ELSE h[i - 1] \o tt[i]
  BY <1>2 DEF FlatStep
<1>. HIDE DEF tt, n
<1>4. FlattenSeq(tt) = h[n + 1]
  BY <1>1, <1>2, FlatIs
<1>5. CASE n = 0
  <2>1. ss = <<>>
    BY <1>5 DEF n
  <2>2. h[n + 1] = x
    BY <1>1, <1>3, <1>5
  <2>3. <<>> \o x = x
    BY ConcatEmptySeq
  <2>. QED  BY <1>4, <2>1, <2>2, <2>3, FlatEmpty DEF tt
<1>6. CASE n # 0
  <2>1. PICK g : g = FlatStep(g, ss, n)
    BY <1>1, FlatExists
  <2>2. FlattenSeq(ss) = g[n]
    BY <1>1, <1>6, <2>1, FlatIs DEF n
  <2>3. FlatSame(g, ss, n, h, tt, n + 1)
    BY <1>1, <1>2, <2>1 DEF FlatSame
  <2>4. n \in 1 .. n /\ n + 1 \in 1 .. n + 1 /\ n + 1 # 1 /\ (n + 1) - 1 = n
    BY <1>1, <1>6
  <2>5. g[n] = h[n]
    BY <2>3, <2>4, FlatUnique
  <2>6. h[n + 1] = h[n] \o tt[n + 1]
    BY <1>3, <2>4
  <2>. QED  BY <1>1, <1>4, <2>2, <2>5, <2>6 DEF tt
<1>. QED  BY <1>5, <1>6

LEMMA OneUnit == \A T : \A u \in T : <<u>> \in Seq(T)
OBVIOUS

LEMMA OneMoreUnit == \A T : \A s \in Seq(T) : \A u \in T : Append(s, u) \in Seq(T)
OBVIOUS

Grouped(a, b, c) == (a \o b) \o c = a \o (b \o c)

LEMMA Associative == \A T : \A a, b, c \in Seq(T) : Grouped(a, b, c)
BY ConcatAssociative DEF Grouped

(* What a text comes to when every unit of it is turned into what f says.  *)
Turned(f, s) == FlattenSeq([i \in DOMAIN s |-> f[s[i]]])

LEMMA TurnedEmpty == ASSUME NEW f PROVE Turned(f, <<>>) = <<>>
<1>1. DOMAIN <<>> = {}
  OBVIOUS
<1>2. [i \in {} |-> f[<<>>[i]]] = <<>>
  OBVIOUS
<1>. QED  BY <1>1, <1>2, FlatEmpty DEF Turned

LEMMA TurnedAppend ==
  ASSUME NEW T, NEW f \in [T -> Seq(T)], NEW s \in Seq(T), NEW u \in T
  PROVE  Turned(f, Append(s, u)) = Turned(f, s) \o f[u]
<1>. DEFINE t  == Append(s, u)
            ss == [i \in DOMAIN s |-> f[s[i]]]
            tt == [i \in DOMAIN t |-> f[t[i]]]
<1>1. /\ Len(s) \in Nat /\ DOMAIN s = 1 .. Len(s)
      /\ DOMAIN t = 1 .. Len(s) + 1 /\ t[Len(s) + 1] = u
      /\ \A i \in 1 .. Len(s) : t[i] = s[i] /\ s[i] \in T
  OBVIOUS
<1>2. ss \in Seq(Seq(T)) /\ Len(ss) = Len(s)
  BY <1>1
<1>3. tt = Append(ss, f[u])
  <2>1. Append(ss, f[u]) \in Seq(Seq(T)) /\ Len(Append(ss, f[u])) = Len(s) + 1
    BY <1>2
  <2>2. ASSUME NEW i \in 1 .. Len(s) + 1 PROVE Append(ss, f[u])[i] = tt[i]
    <3>1. CASE i = Len(s) + 1
      <4>1. tt[i] = f[u]
        BY <1>1, <3>1
      <4>2. Append(ss, f[u])[i] = f[u]
        <5>. HIDE DEF ss
        <5>. QED  BY <1>2, <3>1
      <4>. QED  BY <4>1, <4>2
    <3>2. CASE i # Len(s) + 1
      <4>1. i \in 1 .. Len(s)
        BY <1>1, <3>2
      <4>2. tt[i] = f[s[i]] /\ ss[i] = f[s[i]]
        BY <1>1, <4>1
      <4>3. Append(ss, f[u])[i] = ss[i]
        <5>. HIDE DEF ss
        <5>. QED  BY <1>2, <4>1
      <4>. QED  BY <4>2, <4>3
    <3>. QED  BY <3>1, <3>2
  <2>3. tt \in Seq(Seq(T)) /\ Len(tt) = Len(s) + 1
    <3>1. \A i \in 1 .. Len(s) + 1 : f[t[i]] \in Seq(T)
      BY <1>1
    <3>. HIDE DEF t
    <3>. QED  BY <1>1, <3>1
  <2>. HIDE DEF tt, ss
  <2>. QED  BY <2>1, <2>2, <2>3, SeqEqual
<1>. HIDE DEF ss
<1>4. FlattenSeq(Append(ss, f[u])) = FlattenSeq(ss) \o f[u]
  BY <1>2, FlatAppend
<1>. QED  BY <1>3, <1>4 DEF Turned, ss

LEMMA TurnedType ==
  ASSUME NEW T, NEW f \in [T -> Seq(T)], NEW s \in Seq(T)
  PROVE  Turned(f, s) \in Seq(T)
<1>. DEFINE S == {r \in Seq(T) : Turned(f, r) \in Seq(T)}
<1>1. <<>> \in S
  <2>1. Turned(f, <<>>) \in Seq(T) /\ <<>> \in Seq(T)
    <3>1. <<>> \in Seq(T)
      OBVIOUS
    <3>. QED  BY <3>1, TurnedEmpty, Zenon
  <2>. QED  BY <2>1, Zenon
<1>2. ASSUME NEW r \in Seq(T), NEW u \in T, r \in S PROVE Append(r, u) \in S
  <2>1. Turned(f, Append(r, u)) = Turned(f, r) \o f[u]
    BY TurnedAppend
  <2>2. Turned(f, r) \in Seq(T) /\ f[u] \in Seq(T)
    BY <1>2
  <2>3. Turned(f, r) \o f[u] \in Seq(T)
    BY <2>2, ConcatProperties, Zenon
  <2>4. Append(r, u) \in Seq(T)
    OBVIOUS
  <2>. QED  BY <2>1, <2>3, <2>4, Zenon
<1>. HIDE DEF S
<1>3. Seq(T) \subseteq S
  BY <1>1, <1>2, SequencesAll
<1>. QED  BY <1>3 DEF S

LEMMA TurnedConcat ==
  ASSUME NEW T, NEW f \in [T -> Seq(T)], NEW s \in Seq(T), NEW t \in Seq(T)
  PROVE  Turned(f, s \o t) = Turned(f, s) \o Turned(f, t)
<1>. DEFINE S == {r \in Seq(T) : Turned(f, s \o r) = Turned(f, s) \o Turned(f, r)}
<1>1. <<>> \in S
  <2>1. s \o <<>> = s
    BY ConcatEmptySeq, Zenon
  <2>2. Turned(f, s) \o <<>> = Turned(f, s)
    <3>1. Turned(f, s) \in Seq(T)
      BY TurnedType, Zenon
    <3>. QED  BY <3>1, ConcatEmptySeq, Zenon
  <2>3. Turned(f, s \o <<>>) = Turned(f, s) \o Turned(f, <<>>)
    BY <2>1, <2>2, TurnedEmpty, Zenon
  <2>4. <<>> \in Seq(T)
    OBVIOUS
  <2>. QED  BY <2>3, <2>4, Zenon
<1>2. ASSUME NEW r \in Seq(T), NEW u \in T, r \in S PROVE Append(r, u) \in S
  <2>1. s \o Append(r, u) = Append(s \o r, u)
    OBVIOUS
  <2>2. Turned(f, Append(s \o r, u)) = Turned(f, s \o r) \o f[u]
    <3>1. s \o r \in Seq(T)
      BY ConcatProperties, Zenon
    <3>. QED  BY <3>1, TurnedAppend, Zenon
  <2>3. Turned(f, Append(r, u)) = Turned(f, r) \o f[u]
    BY TurnedAppend, Zenon
  <2>4. (Turned(f, s) \o Turned(f, r)) \o f[u] = Turned(f, s) \o (Turned(f, r) \o f[u])
    <3>1. Turned(f, s) \in Seq(T) /\ Turned(f, r) \in Seq(T)
      BY TurnedType, Zenon
    <3>2. f[u] \in Seq(T)
      OBVIOUS
    <3>3. Grouped(Turned(f, s), Turned(f, r), f[u])
      BY <3>1, <3>2, Associative, Zenon
    <3>. QED  BY <3>3 DEF Grouped
  <2>5. Turned(f, s \o r) = Turned(f, s) \o Turned(f, r)
    BY <1>2, Zenon
  <2>6. Turned(f, s \o Append(r, u)) = Turned(f, s) \o Turned(f, Append(r, u))
    BY <2>1, <2>2, <2>3, <2>4, <2>5, Zenon
  <2>7. Append(r, u) \in Seq(T)
    OBVIOUS
  <2>. QED  BY <2>6, <2>7, Zenon
<1>. HIDE DEF S
<1>3. Seq(T) \subseteq S
  BY <1>1, <1>2, SequencesAll
<1>. QED  BY <1>3 DEF S

LEMMA TurnedOne ==
  ASSUME NEW T, NEW f \in [T -> Seq(T)], NEW u \in T
  PROVE  Turned(f, <<u>>) = f[u]
<1>1. Append(<<>>, u) = <<u>> /\ <<>> \in Seq(T)
  OBVIOUS
<1>2. Turned(f, Append(<<>>, u)) = Turned(f, <<>>) \o f[u]
  BY <1>1, TurnedAppend
<1>3. <<>> \o f[u] = f[u]
  BY ConcatEmptySeq
<1>. QED  BY <1>1, <1>2, <1>3, TurnedEmpty

(* Turning twice comes to turning once, if it does for every unit.         *)
Composes(T, f, g, h) ==
  /\ f \in [T -> Seq(T)] /\ g \in [T -> Seq(T)] /\ h \in [T -> Seq(T)]
  /\ \A u \in T : Turned(g, f[u]) = h[u]

ComeTo(f, g, h, s) == Turned(g, Turned(f, s)) = Turned(h, s)

LEMMA TurnedTwice ==
  \A T, f, g, h : Composes(T, f, g, h) => \A s \in Seq(T) : ComeTo(f, g, h, s)
<1>. SUFFICES ASSUME NEW T, NEW f, NEW g, NEW h, Composes(T, f, g, h), NEW s \in Seq(T)
              PROVE  Turned(g, Turned(f, s)) = Turned(h, s)
  BY Zenon DEF ComeTo
<1>0. /\ f \in [T -> Seq(T)] /\ g \in [T -> Seq(T)] /\ h \in [T -> Seq(T)]
      /\ \A u \in T : Turned(g, f[u]) = h[u]
  BY DEF Composes
<1>. DEFINE S == {r \in Seq(T) : Turned(g, Turned(f, r)) = Turned(h, r)}
<1>1. <<>> \in S
  <2>1. Turned(f, <<>>) = <<>> /\ Turned(g, <<>>) = <<>> /\ Turned(h, <<>>) = <<>>
    BY TurnedEmpty
  <2>2. <<>> \in Seq(T)
    OBVIOUS
  <2>. QED  BY <2>1, <2>2
<1>2. ASSUME NEW r \in Seq(T), NEW u \in T, r \in S PROVE Append(r, u) \in S
  <2>1. Turned(f, Append(r, u)) = Turned(f, r) \o f[u]
    BY <1>0, TurnedAppend, Zenon
  <2>2. Turned(g, Turned(f, r) \o f[u]) = Turned(g, Turned(f, r)) \o Turned(g, f[u])
    <3>1. Turned(f, r) \in Seq(T)
      BY <1>0, TurnedType, Zenon
    <3>2. f[u] \in Seq(T)
      BY <1>0
    <3>3. \A r1, r2 \in Seq(T) : Turned(g, r1 \o r2) = Turned(g, r1) \o Turned(g, r2)
      BY <1>0, TurnedConcat, Zenon
    <3>. QED  BY <3>1, <3>2, <3>3, Zenon
  <2>3. Turned(h, Append(r, u)) = Turned(h, r) \o h[u]
    BY <1>0, TurnedAppend, Zenon
  <2>4. Turned(g, Turned(f, r)) = Turned(h, r) /\ Turned(g, f[u]) = h[u]
    BY <1>0, <1>2, Zenon
  <2>5. Turned(g, Turned(f, Append(r, u))) = Turned(h, Append(r, u))
    BY <2>1, <2>2, <2>3, <2>4, Zenon
  <2>6. Append(r, u) \in Seq(T)
    OBVIOUS
  <2>. QED  BY <2>5, <2>6, Zenon
<1>. HIDE DEF S
<1>3. Seq(T) \subseteq S
  BY <1>1, <1>2, SequencesAll
<1>. QED  BY <1>3 DEF S

LEMMA TurnedKept ==
  ASSUME NEW T, NEW f \in [T -> Seq(T)], NEW s \in Seq(T), \A i \in 1 .. Len(s) : f[s[i]] = <<s[i]>>
  PROVE  Turned(f, s) = s
<1>. DEFINE S == {r \in Seq(T) : (\A i \in 1 .. Len(r) : f[r[i]] = <<r[i]>>) => Turned(f, r) = r}
<1>1. <<>> \in S
  BY TurnedEmpty
<1>2. ASSUME NEW r \in Seq(T), NEW u \in T, r \in S PROVE Append(r, u) \in S
  <2>. DEFINE t == Append(r, u)
  <2>1. Len(r) \in Nat /\ Len(t) = Len(r) + 1 /\ t[Len(r) + 1] = u /\ \A i \in 1 .. Len(r) : t[i] = r[i]
    OBVIOUS
  <2>0. t \in Seq(T)
    OBVIOUS
  <2>2. ASSUME \A i \in 1 .. Len(t) : f[t[i]] = <<t[i]>> PROVE Turned(f, t) = t
    <3>. HIDE DEF t
    <3>1. Len(r) + 1 \in 1 .. Len(t) /\ \A i \in 1 .. Len(r) : i \in 1 .. Len(t)
      BY <2>1
    <3>2. f[u] = <<u>>
      BY <2>1, <2>2, <3>1
    <3>3. ASSUME NEW i \in 1 .. Len(r) PROVE f[r[i]] = <<r[i]>>
      BY <2>1, <2>2, <3>1
    <3>4. Turned(f, r) = r
      BY <1>2, <3>3, Zenon
    <3>5. Turned(f, t) = Turned(f, r) \o f[u]
      BY TurnedAppend, Zenon DEF t
    <3>6. t = r \o <<u>>
      BY AppendIsConcat, Zenon DEF t
    <3>. QED  BY <3>2, <3>4, <3>5, <3>6, Zenon
  <2>. QED  BY <2>0, <2>2, Zenon
<1>. HIDE DEF S
<1>3. Seq(T) \subseteq S
  BY <1>1, <1>2, SequencesAll
<1>. QED  BY <1>3 DEF S

----------------------------------------------------------------------------
(* How many units of a text are of some kind.                              *)
CountIn(s, U) == Cardinality({i \in DOMAIN s : s[i] \in U})

LEMMA CountType ==
  ASSUME NEW T, NEW s \in Seq(T), NEW U
  PROVE  IsFiniteSet({i \in DOMAIN s : s[i] \in U}) /\ CountIn(s, U) \in Nat
<1>. DEFINE A == {i \in DOMAIN s : s[i] \in U}
<1>1. Len(s) \in Nat /\ A \subseteq 1 .. Len(s)
  OBVIOUS
<1>2. IsFiniteSet(1 .. Len(s))
  BY <1>1, FS_Interval
<1>3. IsFiniteSet(A)
  BY <1>1, <1>2, FS_Subset
<1>. HIDE DEF A
<1>4. Cardinality(A) \in Nat
  BY <1>3, FS_CardinalityType
<1>. QED  BY <1>3, <1>4 DEF A, CountIn

LEMMA CountAppend ==
  ASSUME NEW T, NEW s \in Seq(T), NEW u \in T, NEW U
  PROVE  CountIn(Append(s, u), U) = CountIn(s, U) + (IF u \in U THEN 1 ELSE 0)
<1>. DEFINE t == Append(s, u)
            A == {i \in DOMAIN s : s[i] \in U}
            B == {i \in DOMAIN t : t[i] \in U}
<1>1. /\ Len(s) \in Nat /\ DOMAIN s = 1 .. Len(s)
      /\ DOMAIN t = 1 .. Len(s) + 1 /\ t[Len(s) + 1] = u
      /\ \A i \in 1 .. Len(s) : t[i] = s[i]
  OBVIOUS
<1>2. IsFiniteSet(A) /\ Len(s) + 1 \notin A
  <2>1. A \subseteq 1 .. Len(s)
    BY <1>1
  <2>2. IsFiniteSet(A)
    BY CountType
  <2>. QED  BY <1>1, <2>1, <2>2
<1>3. CASE u \in U
  <2>1. B = A \cup {Len(s) + 1}
    <3>. HIDE DEF t
    <3>. QED  BY <1>1, <1>3
  <2>. HIDE DEF A, B
  <2>2. Cardinality(A \cup {Len(s) + 1}) = Cardinality(A) + 1 /\ Cardinality(A) \in Nat
    BY <1>2, FS_AddElement, FS_CardinalityType
  <2>. QED  BY <1>3, <2>1, <2>2 DEF CountIn, A, B
<1>4. CASE u \notin U
  <2>1. B = A
    <3>. HIDE DEF t
    <3>. QED  BY <1>1, <1>4
  <2>. HIDE DEF A, B
  <2>2. Cardinality(A) \in Nat
    BY <1>2, FS_CardinalityType
  <2>3. CountIn(s, U) = Cardinality(A) /\ CountIn(t, U) = Cardinality(B)
    BY DEF CountIn, A, B
  <2>. QED  BY <1>4, <2>1, <2>2, <2>3
<1>. QED  BY <1>3, <1>4

LEMMA CountEmpty == ASSUME NEW U PROVE CountIn(<<>>, U) = 0
<1>1. {i \in DOMAIN <<>> : <<>>[i] \in U} = {}
  OBVIOUS
<1>2. Cardinality({}) = 0
  BY FS_EmptySet
<1>. QED  BY <1>1, <1>2 DEF CountIn

LEMMA CountOne == ASSUME NEW u, NEW U PROVE CountIn(<<u>>, U) = IF u \in U THEN 1 ELSE 0
<1>. DEFINE T == {u}
<1>1. Append(<<>>, u) = <<u>> /\ <<>> \in Seq(T) /\ u \in T
  OBVIOUS
<1>. HIDE DEF T
<1>2. CountIn(Append(<<>>, u), U) = CountIn(<<>>, U) + (IF u \in U THEN 1 ELSE 0)
  BY <1>1, CountAppend
<1>. QED  BY <1>1, <1>2, CountEmpty

LEMMA CountConcat ==
  ASSUME NEW T, NEW s \in Seq(T), NEW t \in Seq(T), NEW U
  PROVE  CountIn(s \o t, U) = CountIn(s, U) + CountIn(t, U)
<1>. DEFINE S == {r \in Seq(T) : CountIn(s \o r, U) = CountIn(s, U) + CountIn(r, U)}
<1>0. ASSUME NEW r \in Seq(T) PROVE CountIn(r, U) \in Nat
  BY CountType
<1>1. <<>> \in S
  <2>1. s \o <<>> = s
    BY ConcatEmptySeq, Zenon
  <2>2. CountIn(s, U) = CountIn(s, U) + CountIn(<<>>, U)
    BY <1>0, CountEmpty
  <2>3. <<>> \in Seq(T)
    OBVIOUS
  <2>. QED  BY <2>1, <2>2, <2>3, Zenon
<1>2. ASSUME NEW r \in Seq(T), NEW u \in T, r \in S PROVE Append(r, u) \in S
  <2>1. s \o Append(r, u) = Append(s \o r, u) /\ s \o r \in Seq(T) /\ Append(r, u) \in Seq(T)
    OBVIOUS
  <2>. DEFINE one == IF u \in U THEN 1 ELSE 0
  <2>2. CountIn(Append(s \o r, u), U) = CountIn(s \o r, U) + one
    BY <2>1, CountAppend, Zenon
  <2>3. CountIn(Append(r, u), U) = CountIn(r, U) + one
    BY CountAppend, Zenon
  <2>4. CountIn(s \o r, U) = CountIn(s, U) + CountIn(r, U)
    BY <1>2, Zenon
  <2>5. one \in Nat /\ CountIn(s, U) \in Nat /\ CountIn(r, U) \in Nat
    BY <1>0
  <2>. HIDE DEF one
  <2>6. CountIn(Append(s \o r, u), U) = CountIn(s, U) + CountIn(Append(r, u), U)
    BY <2>2, <2>3, <2>4, <2>5
  <2>. QED  BY <2>1, <2>6, Zenon
<1>. HIDE DEF S
<1>3. Seq(T) \subseteq S
  BY <1>1, <1>2, SequencesAll
<1>. QED  BY <1>3 DEF S

----------------------------------------------------------------------------
(***************************************************************************)
(* The judge's own arguments.  Which of them are numbers of a -j before    *)
(* them is defined by counting backwards; main goes forwards, and never    *)
(* looks at one that is.                                                   *)
(***************************************************************************)
AnArgument == [flag : BOOLEAN, rest : Text]

LEMMA BareBeforeIs ==
  ASSUME options \in Seq(AnArgument), NEW k \in 1 .. Len(options) + 1,
         NEW m \in 0 .. k - 1, \A d \in 1 .. m : Bare(options[k - d]),
         m = k - 1 \/ ~Bare(options[k - (m + 1)])
  PROVE  BareBefore(k) = m
<1>. DEFINE S == {0} \cup {n \in 1 .. k - 1 : \A d \in 1 .. n : Bare(options[k - d])}
<1>1. m \in S /\ S \in SUBSET Int
  OBVIOUS
<1>2. ASSUME NEW n \in S PROVE n <= m
  <2>. SUFFICES ASSUME n > m PROVE FALSE
    BY <1>1
  <2>1. n \in 1 .. k - 1 /\ m + 1 \in 1 .. n /\ \A d \in 1 .. n : Bare(options[k - d])
    OBVIOUS
  <2>2. m # k - 1
    BY <2>1
  <2>3. Bare(options[k - (m + 1)])
    BY <2>1, Zenon
  <2>. QED  BY <2>2, <2>3
<1>. HIDE DEF S
<1>3. Max(S) = m
  BY <1>1, <1>2, GreatestIs
<1>. QED  BY <1>3 DEF BareBefore, S

(* How far back the -j go is there to be found.                            *)
LEMMA BareBeforeExists ==
  ASSUME options \in Seq(AnArgument), NEW k \in 1 .. Len(options) + 1
  PROVE  \E m \in 0 .. k - 1 : /\ \A d \in 1 .. m : Bare(options[k - d])
                               /\ m = k - 1 \/ ~Bare(options[k - (m + 1)])
<1>. DEFINE Ends == {m \in Nat : m = k - 1 \/ ~Bare(options[k - (m + 1)])}
<1>1. Ends \in SUBSET Nat /\ k - 1 \in Ends
  OBVIOUS
<1>. DEFINE m == Min(Ends)
<1>2. m \in Ends /\ \A n \in Ends : m <= n
  BY <1>1, LeastNatural
<1>3. m \in 0 .. k - 1
  BY <1>1, <1>2
<1>4. ASSUME NEW d \in 1 .. m PROVE Bare(options[k - d])
  <2>1. d - 1 \in Nat /\ ~(m <= d - 1) /\ d - 1 # k - 1
    BY <1>3
  <2>2. d - 1 \notin Ends
    BY <1>2, <2>1
  <2>3. k - ((d - 1) + 1) = k - d
    OBVIOUS
  <2>. QED  BY <2>1, <2>2, <2>3
<1>5. m = k - 1 \/ ~Bare(options[k - (m + 1)])
  BY <1>2
<1>. HIDE DEF m
<1>. QED  BY <1>3, <1>4, <1>5

(* The first argument is no number; the next one is exactly behind a -j    *)
(* that is none.                                                           *)
LEMMA NumbersForward ==
  ASSUME options \in Seq(AnArgument)
  PROVE  /\ ~IsNumber(1)
         /\ \A k \in 1 .. Len(options) : IsNumber(k + 1) <=> Bare(options[k]) /\ ~IsNumber(k)
<1>1. BareBefore(1) = 0
  <2>1. 1 \in 1 .. Len(options) + 1 /\ 0 \in 0 .. 1 - 1 /\ 0 = 1 - 1
    OBVIOUS
  <2>. QED  BY <2>1, BareBeforeIs
<1>2. ASSUME NEW k \in 1 .. Len(options)
      PROVE  IsNumber(k + 1) <=> Bare(options[k]) /\ ~IsNumber(k)
  <2>1. PICK m \in 0 .. k - 1 : /\ \A d \in 1 .. m : Bare(options[k - d])
                                /\ m = k - 1 \/ ~Bare(options[k - (m + 1)])
    <3>1. k \in 1 .. Len(options) + 1
      OBVIOUS
    <3>. QED  BY <3>1, BareBeforeExists
  <2>2. BareBefore(k) = m
    BY <2>1, BareBeforeIs
  <2>3. CASE Bare(options[k])
    <3>1. m + 1 \in 0 .. (k + 1) - 1 /\ k + 1 \in 1 .. Len(options) + 1
      OBVIOUS
    <3>2. ASSUME NEW d \in 1 .. m + 1 PROVE Bare(options[(k + 1) - d])
      <4>1. CASE d = 1
        BY <2>3, <4>1
      <4>2. CASE d # 1
        <5>1. d - 1 \in 1 .. m /\ k - (d - 1) = (k + 1) - d
          BY <4>2
        <5>. QED  BY <2>1, <5>1
      <4>. QED  BY <4>1, <4>2
    <3>3. m + 1 = (k + 1) - 1 \/ ~Bare(options[(k + 1) - ((m + 1) + 1)])
      <4>1. (k + 1) - ((m + 1) + 1) = k - (m + 1)
        OBVIOUS
      <4>. QED  BY <2>1, <4>1
    <3>4. BareBefore(k + 1) = m + 1
      BY <3>1, <3>2, <3>3, BareBeforeIs
    <3>. QED  BY <2>2, <2>3, <3>4 DEF IsNumber
  <2>4. CASE ~Bare(options[k])
    <3>1. 0 \in 0 .. (k + 1) - 1 /\ k + 1 \in 1 .. Len(options) + 1 /\ (k + 1) - (0 + 1) = k
      OBVIOUS
    <3>2. BareBefore(k + 1) = 0
      BY <2>4, <3>1, BareBeforeIs
    <3>. QED  BY <2>4, <3>2 DEF IsNumber
  <2>. QED  BY <2>3, <2>4
<1>. QED  BY <1>1, <1>2 DEF IsNumber

(* What main has been told by the arguments it has looked at.              *)
FlagsSeen    == {k \in Flags : k < arg}
OperandsSeen == {k \in Operands : k < arg}
WantedSoFar  == IF FlagsSeen = {} THEN 1 ELSE Asked(Max(FlagsSeen))
WorkersFor(n) == IF n > 0 THEN n ELSE IF cpus > 0 THEN cpus ELSE 1

OptionsTyped ==
  /\ options \in Seq(AnArgument) /\ cpus \in {-1, 3}
  /\ arg \in 1 .. Len(options) + 1
  /\ workers \in Int /\ named \in BOOLEAN
  /\ launch \in {"reading", "usage", "go"}

ReadSoFar ==
  launch \in {"reading", "go"} =>
    /\ arg <= Len(options) => ~IsNumber(arg)
    /\ \A k \in FlagsSeen : Asked(k) >= 0
    /\ workers = WorkersFor(WantedSoFar)
    /\ named <=> OperandsSeen # {}
    /\ \A j, k \in OperandsSeen : j = k
    /\ dir = IF OperandsSeen = {} THEN Default ELSE options[Max(OperandsSeen)].rest

Refused ==
  launch = "usage" =>
    \/ \E j, k \in Operands : j # k
    \/ \E k \in Flags : Asked(k) < 0

OptionsRead == 
  /\ OptionsTyped /\ ReadSoFar /\ Refused
  /\ launch = "go" => arg > Len(options)

LEMMA OptionsInit == LaunchInit => OptionsRead
<1>. SUFFICES ASSUME LaunchInit PROVE OptionsRead
  OBVIOUS
<1>1. OptionsTyped
  <2>1. PICK n \in 0 .. MaxArguments : options \in [1 .. n -> AnArgument]
    BY DEF LaunchInit, AnArgument
  <2>2. options \in Seq(AnArgument)
    <3>1. n \in Nat
      OBVIOUS
    <3>. QED  BY <2>1, <3>1
  <2>3. Len(options) \in Nat
    BY <2>2
  <2>4. cpus \in {-1, 3} /\ arg = 1 /\ workers = 1 /\ named = FALSE /\ launch = "reading"
    BY DEF LaunchInit
  <2>5. arg \in 1 .. Len(options) + 1
    BY <2>3, <2>4
  <2>6. named \in BOOLEAN
    BY <2>4, Zenon
  <2>7. workers \in Int /\ launch \in {"reading", "usage", "go"}
    BY <2>4
  <2>. QED  BY <2>2, <2>4, <2>5, <2>6, <2>7, Zenon DEF OptionsTyped
<1>2. options \in Seq(AnArgument) /\ arg = 1
  BY <1>1 DEF LaunchInit, OptionsTyped
<1>3. FlagsSeen = {} /\ OperandsSeen = {}
  BY <1>2 DEF FlagsSeen, OperandsSeen, Flags, Operands
<1>4. ~IsNumber(1)
  BY <1>2, NumbersForward
<1>5. WantedSoFar = 1 /\ WorkersFor(1) = 1
  BY <1>3 DEF WantedSoFar, WorkersFor
<1>6. ReadSoFar
  BY <1>2, <1>3, <1>4, <1>5 DEF LaunchInit, ReadSoFar
<1>. QED  BY <1>1, <1>6 DEF LaunchInit, OptionsRead, Refused

(* A -j asks for the number main reads then.                               *)
LEMMA AskedIs ==
  ASSUME OptionsTyped, arg <= Len(options), options[arg].flag
  PROVE  /\ Asked(arg) = IF Bare(options[arg]) /\ arg < Len(options)
                         THEN Number(options[arg + 1]) ELSE Atoi[options[arg].rest]
         /\ Asked(arg) \in Int
<1>1. /\ \A k \in DOMAIN options : options[k] \in AnArgument
      /\ DOMAIN options = 1 .. Len(options) /\ Len(options) \in Nat /\ arg \in 1 .. Len(options)
  BY DEF OptionsTyped
<1>2. \A k \in DOMAIN options : Atoi[options[k].rest] \in Int /\ Number(options[k]) \in Int
  BY <1>1, LaunchAssumption DEF AnArgument, Number
<1>3. arg < Len(options) => arg + 1 \in DOMAIN options
  BY <1>1
<1>4. Asked(arg) \in Int
  BY <1>1, <1>2, <1>3 DEF Asked
<1>. QED  BY <1>1, <1>4 DEF Asked, Bare

(* What an argument says does not change while main reads.                 *)
LEMMA OptionsUntouched ==
  ASSUME UNCHANGED <<options, cpus>>
  PROVE  /\ Flags' = Flags /\ Operands' = Operands
         /\ \A k : Asked(k)' = Asked(k) /\ IsNumber(k)' = IsNumber(k)
         /\ \A n : WorkersFor(n)' = WorkersFor(n) /\ WorkersWanted(n)' = WorkersWanted(n)
<1>1. \A k : IsNumber(k)' = IsNumber(k)
  BY DEF IsNumber, BareBefore, Bare
<1>2. \A k : Asked(k)' = Asked(k)
  BY DEF Asked, Number
<1>3. Flags' = Flags /\ Operands' = Operands
  BY <1>1 DEF Flags, Operands
<1>. QED  BY <1>1, <1>2, <1>3 DEF WorkersFor, WorkersWanted

LEMMA OptionsTypedStep ==
  ASSUME OptionsTyped, ReadOption
  PROVE  OptionsTyped'
<1>1. /\ options' = options /\ cpus' = cpus
      /\ arg \in 1 .. Len(options) /\ Len(options) \in Nat
  BY DEF OptionsTyped, ReadOption
<1>2. arg' \in 1 .. Len(options) + 1
  <2>1. arg' = arg + 1 \/ (arg' = arg + 2 /\ arg < Len(options))
    BY DEF ReadOption
  <2>. QED  BY <1>1, <2>1
<1>3. workers' \in Int
  <2>1. \A k \in 1 .. Len(options) : options[k] \in AnArgument
    BY DEF OptionsTyped
  <2>2. \A k \in 1 .. Len(options) : Atoi[options[k].rest] \in Int /\ Number(options[k]) \in Int
    BY <2>1, LaunchAssumption DEF AnArgument, Number
  <2>3. \A n \in Int : WorkersWanted(n) \in Int
    BY DEF OptionsTyped, WorkersWanted
  <2>4. options[arg].flag \in BOOLEAN
    BY <1>1, <2>1 DEF AnArgument
  <2>5. CASE Bare(options[arg]) /\ arg < Len(options)
    <3>1. workers' = WorkersWanted(Number(options[arg + 1]))
      BY <2>5 DEF ReadOption, Bare
    <3>2. arg + 1 \in 1 .. Len(options)
      BY <1>1, <2>5
    <3>. QED  BY <2>2, <2>3, <3>1, <3>2
  <2>6. CASE options[arg].flag /\ ~(Bare(options[arg]) /\ arg < Len(options))
    <3>1. workers' = WorkersWanted(Atoi[options[arg].rest])
      BY <2>6 DEF ReadOption
    <3>. QED  BY <1>1, <2>2, <2>3, <3>1
  <2>7. CASE ~options[arg].flag
    <3>1. workers' = IF named THEN -1 ELSE workers
      BY <2>7 DEF ReadOption, Bare
    <3>. QED  BY <3>1 DEF OptionsTyped
  <2>. QED  BY <2>4, <2>5, <2>6, <2>7 DEF Bare
<1>4. named' \in BOOLEAN
  <2>1. named' = (named \/ ~options[arg].flag)
    BY DEF ReadOption
  <2>. QED  BY <2>1, Zenon
<1>5. launch' \in {"reading", "usage", "go"}
  BY DEF ReadOption
<1>. QED  BY <1>1, <1>2, <1>3, <1>4, <1>5 DEF OptionsTyped

(* A -j with its number, or without one: one more -j has been seen.        *)
LEMMA FlagRead ==
  ASSUME OptionsRead, ReadOption, options[arg].flag
  PROVE  ReadSoFar' /\ Refused'
<1>. DEFINE detached == Bare(options[arg]) /\ arg < Len(options)
            last     == IF detached THEN arg + 1 ELSE arg
<1>1. /\ OptionsTyped /\ ReadSoFar /\ launch = "reading"
      /\ options \in Seq(AnArgument) /\ Len(options) \in Nat
      /\ arg \in 1 .. Len(options) /\ UNCHANGED <<options, cpus>>
  BY DEF OptionsRead, OptionsTyped, ReadOption
<1>2. /\ arg' = last + 1 /\ named' = named /\ dir' = dir
      /\ launch' = IF workers' < 0 THEN "usage" ELSE "reading"
  <2>1. options[arg].flag \in BOOLEAN /\ arg \in Int
    BY <1>1 DEF AnArgument
  <2>2. named' = named
    BY <1>1 DEF ReadOption, OptionsTyped
  <2>. QED  BY <2>1, <2>2 DEF ReadOption
<1>3. workers' = WorkersWanted(Asked(arg)) /\ Asked(arg) \in Int
  <2>1. workers' = IF detached THEN WorkersWanted(Number(options[arg + 1]))
                               ELSE WorkersWanted(Atoi[options[arg].rest])
    BY DEF ReadOption
  <2>. QED  BY <1>1, <2>1, AskedIs
<1>4. ~IsNumber(arg) /\ (last + 1 <= Len(options) => ~IsNumber(last + 1))
  <2>1. ~IsNumber(arg)
    BY <1>1 DEF ReadSoFar
  <2>2. \A k \in 1 .. Len(options) : IsNumber(k + 1) <=> Bare(options[k]) /\ ~IsNumber(k)
    BY <1>1, NumbersForward
  <2>3. CASE detached
    <3>1. IsNumber(arg + 1) /\ arg + 1 \in 1 .. Len(options)
      BY <1>1, <2>1, <2>2, <2>3
    <3>2. ~IsNumber((arg + 1) + 1)
      BY <2>2, <3>1
    <3>. QED  BY <2>1, <2>3, <3>2
  <2>4. CASE ~detached
    <3>1. arg < Len(options) => ~Bare(options[arg])
      BY <2>4
    <3>. QED  BY <1>1, <2>1, <2>2, <2>4, <3>1
  <2>. QED  BY <2>3, <2>4
<1>5. ASSUME NEW k \in DOMAIN options, ~IsNumber(k) PROVE k < last + 1 <=> k < arg \/ k = arg
  <2>1. k \in 1 .. Len(options)
    BY <1>1
  <2>2. detached => IsNumber(arg + 1)
    BY <1>1, <1>4, NumbersForward
  <2>. QED  BY <1>1, <1>5, <2>1, <2>2
<1>6. FlagsSeen' = FlagsSeen \cup {arg} /\ OperandsSeen' = OperandsSeen /\ arg \in Flags
  <2>1. arg \in Flags /\ arg \notin Operands
    BY <1>1, <1>4 DEF Flags, Operands
  <2>2. \A k \in Flags : k \in DOMAIN options /\ ~IsNumber(k)
    BY DEF Flags
  <2>3. \A k \in Operands : k \in DOMAIN options /\ ~IsNumber(k)
    BY DEF Operands
  <2>4. Flags' = Flags /\ Operands' = Operands
    BY <1>1, OptionsUntouched
  <2>. HIDE DEF last
  <2>. QED  BY <1>2, <1>5, <2>1, <2>2, <2>3, <2>4 DEF FlagsSeen, OperandsSeen
<1>7. Max(FlagsSeen') = arg
  <2>1. FlagsSeen' \in SUBSET Int /\ arg \in FlagsSeen' /\ \A k \in FlagsSeen' : k <= arg
    BY <1>1, <1>6 DEF FlagsSeen, Flags
  <2>. QED  BY <2>1, GreatestIs
<1>8. \A k : Asked(k)' = Asked(k) /\ IsNumber(k)' = IsNumber(k)
  BY <1>1, OptionsUntouched
<1>9. CASE Asked(arg) < 0
  <2>1. launch' = "usage"
    BY <1>2, <1>3, <1>9 DEF WorkersWanted
  <2>2. Flags' = Flags
    BY <1>1, OptionsUntouched
  <2>3. \E k \in Flags' : Asked(k)' < 0
    <3>1. PICK a : a = arg
      OBVIOUS
    <3>2. a \in Flags' /\ Asked(a)' < 0
      BY <1>6, <1>8, <1>9, <2>2, <3>1
    <3>. QED  BY <3>2
  <2>. QED  BY <2>1, <2>3 DEF ReadSoFar, Refused
<1>10. CASE Asked(arg) >= 0
  <2>1. workers' = WorkersFor(Asked(arg)) /\ workers' > 0
    BY <1>1, <1>3, <1>10 DEF WorkersWanted, WorkersFor, OptionsTyped
  <2>2. launch' = "reading"
    <3>1. ~(workers' < 0)
      <4>1. workers' \in Int
        BY <1>1, OptionsTypedStep DEF OptionsTyped
      <4>. QED  BY <2>1, <4>1
    <3>. QED  BY <1>2, <3>1
  <2>3. WantedSoFar' = Asked(arg) /\ \A n : WorkersFor(n)' = WorkersFor(n)
    BY <1>1, <1>6, <1>7, <1>8, OptionsUntouched DEF WantedSoFar
  <2>4. \A k \in FlagsSeen' : Asked(k)' >= 0
    BY <1>1, <1>6, <1>8, <1>10 DEF ReadSoFar
  <2>5. arg' <= Len(options') => ~IsNumber(arg)'
    BY <1>1, <1>2, <1>4, <1>8
  <2>. QED  BY <1>1, <1>2, <1>6, <2>1, <2>2, <2>3, <2>4, <2>5 DEF ReadSoFar, Refused
<1>. QED  BY <1>3, <1>9, <1>10

(* The name of a directory, or one name too many.                          *)
LEMMA OperandRead ==
  ASSUME OptionsRead, ReadOption, ~options[arg].flag
  PROVE  ReadSoFar' /\ Refused'
<1>1. /\ OptionsTyped /\ ReadSoFar /\ launch = "reading"
      /\ options \in Seq(AnArgument) /\ Len(options) \in Nat
      /\ arg \in 1 .. Len(options) /\ UNCHANGED <<options, cpus>>
  BY DEF OptionsRead, OptionsTyped, ReadOption
<1>2. /\ arg' = arg + 1
      /\ named' = TRUE
      /\ dir' = IF named THEN dir ELSE options[arg].rest
      /\ workers' = IF named THEN -1 ELSE workers
      /\ launch' = IF workers' < 0 THEN "usage" ELSE "reading"
  BY DEF ReadOption, Bare
<1>3. ~IsNumber(arg) /\ (arg + 1 <= Len(options) => ~IsNumber(arg + 1))
  <2>1. ~IsNumber(arg)
    BY <1>1 DEF ReadSoFar
  <2>. QED  BY <1>1, <2>1, NumbersForward DEF Bare
<1>4. FlagsSeen' = FlagsSeen /\ OperandsSeen' = OperandsSeen \cup {arg} /\ arg \in Operands
  <2>1. arg \in Operands /\ arg \notin Flags
    BY <1>1, <1>3 DEF Flags, Operands
  <2>2. \A k \in DOMAIN options : k < arg + 1 <=> k < arg \/ k = arg
    BY <1>1
  <2>3. Flags \subseteq DOMAIN options /\ Operands \subseteq DOMAIN options
    BY DEF Flags, Operands
  <2>4. Flags' = Flags /\ Operands' = Operands
    BY <1>1, OptionsUntouched
  <2>. QED  BY <1>2, <2>1, <2>2, <2>3, <2>4 DEF FlagsSeen, OperandsSeen
<1>5. Operands' = Operands /\ \A k : Asked(k)' = Asked(k) /\ IsNumber(k)' = IsNumber(k)
  BY <1>1, OptionsUntouched
<1>6. CASE named
  <2>1. launch' = "usage"
    BY <1>2, <1>6
  <2>2. PICK j \in OperandsSeen : TRUE
    BY <1>1, <1>6 DEF ReadSoFar
  <2>3. j \in Operands /\ j # arg
    BY <1>1 DEF OperandsSeen
  <2>4. PICK a : a = arg
    OBVIOUS
  <2>5. j \in Operands' /\ a \in Operands' /\ j # a
    BY <1>4, <1>5, <2>3, <2>4
  <2>6. \E i, k \in Operands' : i # k
    BY <2>5, Zenon
  <2>. QED  BY <2>1, <2>6 DEF ReadSoFar, Refused
<1>7. CASE ~named
  <2>1. OperandsSeen = {} /\ OperandsSeen' = {arg}
    BY <1>1, <1>4, <1>7 DEF ReadSoFar
  <2>2. workers' = workers /\ workers > 0
    <3>1. workers' = workers /\ workers = WorkersFor(WantedSoFar)
      BY <1>1, <1>2, <1>7 DEF ReadSoFar
    <3>2. workers \in Int /\ cpus \in {-1, 3}
      BY <1>1 DEF OptionsTyped
    <3>. QED  BY <3>1, <3>2 DEF WorkersFor
  <2>3. launch' = "reading"
    <3>1. ~(workers < 0)
      BY <1>1, <2>2 DEF OptionsTyped
    <3>. QED  BY <1>2, <2>2, <3>1
  <2>4. WantedSoFar' = WantedSoFar /\ \A n : WorkersFor(n)' = WorkersFor(n)
    <3>1. PICK k : k = Max(FlagsSeen)
      OBVIOUS
    <3>. QED  BY <1>1, <1>4, <1>5, <3>1, OptionsUntouched DEF WantedSoFar
  <2>5. Max(OperandsSeen') = arg
    <3>1. OperandsSeen' \in SUBSET Int /\ arg \in OperandsSeen' /\ \A k \in OperandsSeen' : k <= arg
      BY <1>1, <2>1
    <3>. QED  BY <3>1, GreatestIs
  <2>6. dir' = options'[Max(OperandsSeen')].rest
    BY <1>1, <1>2, <1>7, <2>5
  <2>7. arg' <= Len(options') => ~IsNumber(arg)'
    BY <1>1, <1>2, <1>3, <1>5
  <2>8. \A k \in FlagsSeen' : Asked(k)' >= 0
    BY <1>1, <1>4, <1>5 DEF ReadSoFar
  <2>9. workers' = WorkersFor(WantedSoFar)'
    BY <1>1, <2>2, <2>4 DEF ReadSoFar
  <2>10. \A j, k \in OperandsSeen' : j = k
    BY <2>1
  <2>. QED  BY <1>2, <2>1, <2>3, <2>6, <2>7, <2>8, <2>9, <2>10 DEF ReadSoFar, Refused
<1>. QED  BY <1>6, <1>7

LEMMA OptionsStep == OptionsRead /\ [LaunchNext]_avars => OptionsRead'
<1>. SUFFICES ASSUME OptionsRead, [LaunchNext]_avars PROVE OptionsRead'
  OBVIOUS
<1>1. CASE ReadOption
  <2>1. OptionsTyped'
    BY <1>1, OptionsTypedStep DEF OptionsRead
  <2>2. ReadSoFar' /\ Refused'
    BY <1>1, FlagRead, OperandRead
  <2>3. launch' # "go"
    BY <1>1 DEF ReadOption
  <2>. QED  BY <2>1, <2>2, <2>3 DEF OptionsRead
<1>2. CASE LoadContest \/ UNCHANGED avars
  <2>1. /\ UNCHANGED <<options, arg, cpus, dir, workers, named>>
        /\ launch' = launch \/ (launch = "reading" /\ launch' = "go" /\ arg > Len(options))
    BY <1>2 DEF LoadContest, avars
  <2>2. OptionsTyped'
    BY <2>1 DEF OptionsRead, OptionsTyped
  <2>3. Flags' = Flags /\ Operands' = Operands /\ FlagsSeen' = FlagsSeen /\ OperandsSeen' = OperandsSeen
    BY <2>1, OptionsUntouched DEF FlagsSeen, OperandsSeen
  <2>4. /\ \A k : Asked(k)' = Asked(k) /\ IsNumber(k)' = IsNumber(k)
        /\ \A n : WorkersFor(n)' = WorkersFor(n)
    BY <2>1, OptionsUntouched
  <2>5. WantedSoFar' = WantedSoFar
    <3>1. PICK k : k = Max(FlagsSeen)
      OBVIOUS
    <3>. QED  BY <2>3, <2>4, <3>1 DEF WantedSoFar
  <2>6. ReadSoFar'
    <3>1. PICK a, n : a = arg /\ n = WantedSoFar
      OBVIOUS
    <3>2. IsNumber(arg)' = IsNumber(arg) /\ WorkersFor(WantedSoFar)' = WorkersFor(WantedSoFar)
      BY <2>1, <2>4, <2>5, <3>1
    <3>. QED  BY <2>1, <2>3, <2>4, <3>2 DEF OptionsRead, ReadSoFar
  <2>7. Refused'
    BY <2>1, <2>3, <2>4 DEF OptionsRead, Refused
  <2>. QED  BY <2>1, <2>2, <2>6, <2>7 DEF OptionsRead
<1>. QED  BY <1>1, <1>2 DEF LaunchNext

(* What the usage line promises (main of judge.c): for every command line  *)
(* the judge marks the one directory that is named, with as many workers   *)
(* as the last -j asks for and never with none, and refuses a second       *)
(* directory and a number below zero, and nothing else.                    *)
THEOREM OptionsAreTakenAsMeant == LaunchInit /\ [][LaunchNext]_avars => []OptionsAreMeant
<1>1. ASSUME OptionsRead PROVE OptionsAreMeant
  <2>1. OptionsTyped /\ options \in Seq(AnArgument) /\ Len(options) \in Nat /\ DOMAIN options = 1 .. Len(options)
    BY <1>1 DEF OptionsRead, OptionsTyped
  <2>2. IsFiniteSet(Operands)
    <3>1. IsFiniteSet(1 .. Len(options)) /\ Operands \subseteq 1 .. Len(options)
      BY <2>1, FS_Interval DEF Operands
    <3>. QED  BY <3>1, FS_Subset
  <2>3. ASSUME NEW j \in Operands, NEW k \in Operands, j # k PROVE Cardinality(Operands) > 1
    <3>1. {j, k} \subseteq Operands
      OBVIOUS
    <3>2. Cardinality({j, k}) = 2
      <4>1. IsFiniteSet({j}) /\ Cardinality({j}) = 1 /\ k \notin {j} /\ {j} \cup {k} = {j, k}
        BY <2>3, FS_Singleton
      <4>. QED  BY <4>1, FS_AddElement
    <3>3. Cardinality({j, k}) <= Cardinality(Operands) /\ Cardinality(Operands) \in Nat
      BY <2>2, <3>1, FS_Subset, FS_CardinalityType
    <3>. QED  BY <3>2, <3>3
  <2>4. ASSUME launch = "go"
        PROVE  FlagsSeen = Flags /\ OperandsSeen = Operands
    <3>1. \A k \in DOMAIN options : k < arg
      BY <1>1, <2>1, <2>4 DEF OptionsRead, OptionsTyped
    <3>. QED  BY <3>1 DEF FlagsSeen, OperandsSeen, Flags, Operands
  <2>5. ASSUME launch = "go"
        PROVE  /\ ~(Cardinality(Operands) > 1) /\ ~(\E k \in Flags : Asked(k) < 0)
               /\ dir = IF Operands = {} THEN Default ELSE options[Max(Operands)].rest
               /\ workers = IF Wanted > 0 THEN Wanted ELSE IF cpus > 0 THEN cpus ELSE 1
    <3>1. ReadSoFar /\ FlagsSeen = Flags /\ OperandsSeen = Operands
      BY <1>1, <2>4, <2>5 DEF OptionsRead
    <3>2. \A j, k \in Operands : j = k
      BY <2>5, <3>1 DEF ReadSoFar
    <3>3. Cardinality(Operands) <= 1
      <4>1. CASE Operands = {}
        BY <4>1, FS_EmptySet
      <4>2. CASE Operands # {}
        <5>1. PICK k \in Operands : TRUE
          BY <4>2
        <5>2. Operands = {k}
          BY <3>2, <5>1
        <5>3. Cardinality({k}) = 1
          BY FS_Singleton
        <5>. QED  BY <5>2, <5>3
      <4>. QED  BY <4>1, <4>2
    <3>4. ~(\E k \in Flags : Asked(k) < 0)
      <4>. SUFFICES ASSUME NEW k \in Flags, Asked(k) < 0 PROVE FALSE
        OBVIOUS
      <4>1. Asked(k) >= 0
        BY <2>5, <3>1 DEF ReadSoFar
      <4>2. Asked(k) \in Int
        <5>1. \A i \in DOMAIN options : Atoi[options[i].rest] \in Int /\ Number(options[i]) \in Int
          <6>. TAKE i \in DOMAIN options
          <6>1. options[i] \in AnArgument
            BY <2>1
          <6>2. options[i].rest \in Text
            BY <6>1 DEF AnArgument
          <6>. QED  BY <6>2, LaunchAssumption DEF Number
        <5>2. k \in 1 .. Len(options) /\ (k < Len(options) => k + 1 \in 1 .. Len(options))
          BY <2>1 DEF Flags
        <5>. QED  BY <2>1, <5>1, <5>2 DEF Asked
      <4>. QED  BY <4>1, <4>2
    <3>5. Wanted = WantedSoFar /\ workers = WorkersFor(WantedSoFar)
      BY <2>5, <3>1 DEF ReadSoFar, Wanted, WantedSoFar
    <3>6. dir = IF Operands = {} THEN Default ELSE options[Max(Operands)].rest
      BY <2>5, <3>1 DEF ReadSoFar
    <3>7. ~(Cardinality(Operands) > 1)
      BY <2>2, <3>3, FS_CardinalityType
    <3>. QED  BY <3>4, <3>5, <3>6, <3>7 DEF WorkersFor
  <2>6. ASSUME launch = "usage"
        PROVE  Cardinality(Operands) > 1 \/ \E k \in Flags : Asked(k) < 0
    BY <1>1, <2>3, <2>6 DEF OptionsRead, Refused
  <2>. QED  BY <2>5, <2>6 DEF OptionsAreMeant
<1>. QED  BY <1>1, OptionsInit, OptionsStep, PTL

----------------------------------------------------------------------------
(***************************************************************************)
(* The .cfg files. A reader goes from one line break to the next; the      *)
(* lines are where it stops, and the rows are counted with them.           *)
(***************************************************************************)
(* Lines and their rows.                                                   *)

(* The line that starts at b ends before e.                                *)
IsLine(text, b, e) ==
  /\ text \in Seq(STRING) /\ b \in 1 .. Len(text) + 1 /\ e \in b .. Len(text) + 1
  /\ \A j \in b .. e - 1 : text[j] # Break
  /\ e <= Len(text) => text[e] = Break

LEMMA LineAtIs ==
  ASSUME NEW text, NEW b, NEW e, IsLine(text, b, e)
  PROVE  /\ LineAt(text, b) = SubSeq(text, b, e - 1)
         /\ IsPart(STRING, text, b, e - 1)
<1>1. /\ text \in Seq(STRING) /\ Len(text) \in Nat /\ b \in Nat \ {0} /\ e \in Nat
      /\ b <= e /\ b <= Len(text) + 1 /\ e <= Len(text) + 1
  BY DEF IsLine
<1>. DEFINE breaks == {j \in b .. Len(text) : text[j] = Break}
<1>2. breaks \in SUBSET Nat
  BY <1>1
<1>3. FirstOr(breaks, Len(text) + 1) = e
  <2>1. \A j \in breaks : e <= j
    <3>. SUFFICES ASSUME NEW j \in b .. Len(text), text[j] = Break, j < e PROVE FALSE
      BY <1>1
    <3>1. j \in b .. e - 1
      BY <1>1
    <3>. QED  BY <3>1 DEF IsLine
  <2>2. CASE e <= Len(text)
    <3>1. e \in breaks
      BY <1>1, <2>2 DEF IsLine
    <3>. HIDE DEF breaks
    <3>. QED  BY <1>2, <2>1, <3>1, FirstOrFound
  <2>3. CASE e = Len(text) + 1
    <3>1. breaks = {}
      BY <1>1, <2>1, <2>3
    <3>. HIDE DEF breaks
    <3>. QED  BY <2>3, <3>1 DEF FirstOr
  <2>. QED  BY <1>1, <2>2, <2>3
<1>4. IsPart(STRING, text, b, e - 1)
  BY <1>1 DEF IsPart
<1>. HIDE DEF breaks
<1>5. LineAt(text, b) = SubSeq(text, b, e - 1)
  BY <1>3 DEF LineAt, breaks
<1>. QED  BY <1>4, <1>5

(* Where the first = of a line is.                                         *)
LEMMA SidesAre ==
  ASSUME NEW line \in Seq(STRING)
  PROVE  /\ (\A i \in 1 .. Len(line) : line[i] # Equals) => Key(line) = line /\ Value(line) = <<>>
         /\ \A q \in 1 .. Len(line) :
              line[q] = Equals /\ (\A i \in 1 .. q - 1 : line[i] # Equals) =>
                Key(line) = SubSeq(line, 1, q - 1) /\ Value(line) = SubSeq(line, q + 1, Len(line))
<1>. DEFINE at == {i \in DOMAIN line : line[i] = Equals}
<1>1. Len(line) \in Nat /\ DOMAIN line = 1 .. Len(line) /\ at \in SUBSET Nat
  OBVIOUS
<1>2. ASSUME \A i \in 1 .. Len(line) : line[i] # Equals
      PROVE  Key(line) = line /\ Value(line) = <<>>
  <2>1. at = {}
    BY <1>1, <1>2
  <2>2. FirstEquals(line) = Len(line) + 1
    BY <2>1 DEF FirstEquals, FirstOr
  <2>3. (Len(line) + 1) - 1 = Len(line)
    BY <1>1
  <2>4. SubSeq(line, 1, Len(line)) = line
    BY SubSeqFull
  <2>5. SubSeq(line, (Len(line) + 1) + 1, Len(line)) = <<>>
    <3>1. (Len(line) + 1) + 1 \in Int /\ Len(line) \in Int /\ Len(line) < (Len(line) + 1) + 1
      BY <1>1
    <3>. QED  BY <3>1, SubSeqEmpty
  <2>. QED  BY <2>2, <2>3, <2>4, <2>5 DEF Key, Value
<1>3. ASSUME NEW q \in 1 .. Len(line), line[q] = Equals, \A i \in 1 .. q - 1 : line[i] # Equals
      PROVE  FirstEquals(line) = q
  <2>1. q \in at
    BY <1>1, <1>3
  <2>2. \A i \in at : q <= i
    <3>. SUFFICES ASSUME NEW i \in at, i < q PROVE FALSE
      BY <1>1
    <3>1. i \in 1 .. q - 1 /\ line[i] = Equals
      BY <1>1
    <3>. QED  BY <1>3, <3>1
  <2>. HIDE DEF at
  <2>3. FirstOr(at, Len(line) + 1) = q
    BY <1>1, <2>1, <2>2, FirstOrFound
  <2>. QED  BY <2>3 DEF FirstEquals, at
<1>. QED  BY <1>2, <1>3 DEF Key, Value

(* The row of a line, and whether it has a key.                            *)
LEMMA RowOfLine ==
  ASSUME NEW text, NEW b, NEW e, IsLine(text, b, e)
  PROVE  /\ e = b => RowOf(LineAt(text, b)) = <<>> /\ ~Keyless(LineAt(text, b))
         /\ e # b => (Keyless(LineAt(text, b)) <=> text[b] = Equals)
         /\ e # b /\ (\A j \in b .. e - 1 : text[j] # Equals) =>
              RowOf(LineAt(text, b)) = <<SubSeq(text, b, e - 1)>>
         /\ \A q \in b .. e - 1 :
              text[q] = Equals /\ (\A j \in b .. q - 1 : text[j] # Equals) =>
                RowOf(LineAt(text, b)) =
                  IF q = e - 1 THEN <<SubSeq(text, b, q - 1)>>
                               ELSE <<SubSeq(text, b, q - 1), SubSeq(text, q + 1, e - 1)>>
<1>1. /\ text \in Seq(STRING) /\ Len(text) \in Nat /\ b \in Nat \ {0} /\ e \in Nat
      /\ b <= e /\ b <= Len(text) + 1 /\ e <= Len(text) + 1
  BY DEF IsLine
<1>. DEFINE line == SubSeq(text, b, e - 1)
<1>2. LineAt(text, b) = line /\ IsPart(STRING, text, b, e - 1)
  BY LineAtIs
<1>3. PartFacts(STRING, text, b, e - 1)
  BY <1>2, PartIs, Zenon
<1>4. /\ line \in Seq(STRING) /\ Len(line) = e - b
      /\ \A i \in 1 .. e - b : line[i] = text[b + i - 1]
      /\ line = <<>> <=> e = b
  <2>1. /\ line \in Seq(STRING) /\ Len(line) = (e - 1) + 1 - b
        /\ \A i \in 1 .. (e - 1) + 1 - b : line[i] = text[b + i - 1]
        /\ line = <<>> <=> e - 1 = b - 1
    BY <1>3, Zenon DEF PartFacts
  <2>2. (e - 1) + 1 - b = e - b /\ (e - 1 = b - 1 <=> e = b)
    BY <1>1
  <2>. HIDE DEF line
  <2>. QED  BY <2>1, <2>2
<1>5. ASSUME e # b PROVE Head(line) = text[b]
  <2>1. line[1] = text[b]
    <3>1. 1 \in 1 .. e - b /\ b + 1 - 1 = b
      BY <1>1, <1>5
    <3>. HIDE DEF line
    <3>. QED  BY <1>4, <3>1
  <2>. HIDE DEF line
  <2>. QED  BY <2>1
<1>6. ASSUME e # b, \A j \in b .. e - 1 : text[j] # Equals
      PROVE  RowOf(line) = <<line>>
  <2>1. \A i \in 1 .. Len(line) : line[i] # Equals
    <3>. SUFFICES ASSUME NEW i \in 1 .. e - b PROVE line[i] # Equals
      BY <1>4
    <3>1. b + i - 1 \in b .. e - 1
      BY <1>1
    <3>. HIDE DEF line
    <3>. QED  BY <1>4, <1>6, <3>1
  <2>. HIDE DEF line
  <2>2. Key(line) = line /\ Value(line) = <<>>
    BY <1>4, <2>1, SidesAre
  <2>. QED  BY <1>4, <1>6, <2>2 DEF RowOf
<1>7. ASSUME NEW q \in b .. e - 1, text[q] = Equals, \A j \in b .. q - 1 : text[j] # Equals
      PROVE  RowOf(line) = IF q = e - 1 THEN <<SubSeq(text, b, q - 1)>>
                           ELSE <<SubSeq(text, b, q - 1), SubSeq(text, q + 1, e - 1)>>
  <2>. DEFINE at == q - b + 1
  <2>1. q \in Nat /\ b <= q /\ q <= e - 1 /\ at \in 1 .. e - b /\ b + at - 1 = q
    BY <1>1
  <2>2. line[at] = Equals
    <3>. HIDE DEF line, at
    <3>. QED  BY <1>4, <1>7, <2>1
  <2>3. ASSUME NEW i \in 1 .. at - 1 PROVE line[i] # Equals
    <3>1. b + i - 1 \in b .. q - 1 /\ i \in 1 .. e - b
      BY <1>1, <2>1
    <3>. HIDE DEF line
    <3>. QED  BY <1>4, <1>7, <3>1
  <2>4. Key(line) = SubSeq(line, 1, at - 1) /\ Value(line) = SubSeq(line, at + 1, Len(line))
    <3>. HIDE DEF line, at
    <3>. QED  BY <1>4, <2>1, <2>2, <2>3, SidesAre
  <2>5. SubSeq(line, 1, at - 1) = SubSeq(text, b, q - 1)
    <3>1. 1 \in 1 .. (e - 1) + 2 - b /\ at - 1 \in 1 - 1 .. (e - 1) + 1 - b
      BY <1>1, <2>1
    <3>2. b + 1 - 1 = b /\ b + (at - 1) - 1 = q - 1
      BY <1>1, <2>1
    <3>3. SubSeq(line, 1, at - 1) = SubSeq(text, b + 1 - 1, b + (at - 1) - 1)
      <4>1. IsInner(STRING, text, b, e - 1, 1, at - 1)
        BY <1>2, <3>1 DEF IsInner
      <4>. HIDE DEF at
      <4>2. InnerFact(text, b, e - 1, 1, at - 1)
        BY <4>1, PartOfPart, Zenon
      <4>. QED  BY <4>2, Zenon DEF InnerFact
    <3>. QED  BY <3>2, <3>3
  <2>6. SubSeq(line, at + 1, e - b) = SubSeq(text, q + 1, e - 1)
    <3>1. at + 1 \in 1 .. (e - 1) + 2 - b /\ e - b \in (at + 1) - 1 .. (e - 1) + 1 - b
      BY <1>1, <2>1
    <3>2. b + (at + 1) - 1 = q + 1 /\ b + (e - b) - 1 = e - 1
      BY <1>1, <2>1
    <3>3. SubSeq(line, at + 1, e - b) = SubSeq(text, b + (at + 1) - 1, b + (e - b) - 1)
      <4>1. IsInner(STRING, text, b, e - 1, at + 1, e - b)
        BY <1>2, <3>1 DEF IsInner
      <4>. HIDE DEF at
      <4>2. InnerFact(text, b, e - 1, at + 1, e - b)
        BY <4>1, PartOfPart, Zenon
      <4>. QED  BY <4>2, Zenon DEF InnerFact
    <3>. QED  BY <3>2, <3>3
  <2>7. SubSeq(text, q + 1, e - 1) = <<>> <=> q = e - 1
    <3>1. IsPart(STRING, text, q + 1, e - 1)
      BY <1>1, <2>1 DEF IsPart
    <3>2. PartFacts(STRING, text, q + 1, e - 1)
      BY <3>1, PartIs, Zenon
    <3>. QED  BY <1>1, <2>1, <3>2 DEF PartFacts
  <2>8. line # <<>> /\ Len(line) = e - b
    <3>1. e # b
      BY <1>1, <2>1
    <3>. HIDE DEF line
    <3>. QED  BY <1>4, <3>1
  <2>. HIDE DEF line, at
  <2>. QED  BY <2>4, <2>5, <2>6, <2>7, <2>8 DEF RowOf
<1>. HIDE DEF line
<1>8. e = b => RowOf(line) = <<>> /\ ~Keyless(line)
  BY <1>4 DEF RowOf, Keyless
<1>9. e # b => (Keyless(line) <=> text[b] = Equals)
  BY <1>4, <1>5 DEF Keyless
<1>. QED  BY <1>2, <1>6, <1>7, <1>8, <1>9 DEF line

----------------------------------------------------------------------------
(* get_word, which has read the text up to a.                              *)
LeftFrom(a) ==
  /\ source \in Seq(STRING) /\ a \in 1 .. Len(source) + 1
  /\ rest = SubSeq(source, a, Len(source))

WordTo(a, e) ==
  /\ e \in a .. Len(source) + 1
  /\ \A j \in a .. e - 1 : source[j] \notin Stops
  /\ Word = SubSeq(source, a, e - 1) /\ (Word = <<>> <=> e = a)
  /\ e <= Len(source) =>
       /\ source[e] \in Stops /\ Stop = source[e]
       /\ Beyond = SubSeq(source, e + 1, Len(source))
  /\ e = Len(source) + 1 => Stop = AtEnd

LEMMA WordIs ==
  ASSUME NEW a, LeftFrom(a)
  PROVE  \E e \in Nat : WordTo(a, e)
<1>. DEFINE N == Len(source)
<1>1. source \in Seq(STRING) /\ N \in Nat /\ a \in Nat \ {0} /\ a <= N + 1
  BY DEF LeftFrom
<1>2. IsPart(STRING, source, a, N)
  BY <1>1 DEF IsPart
<1>3. PartFacts(STRING, source, a, N)
  BY <1>2, PartIs, Zenon
<1>4. /\ rest \in Seq(STRING) /\ Len(rest) = N + 1 - a /\ DOMAIN rest = 1 .. N + 1 - a
      /\ \A i \in 1 .. N + 1 - a : rest[i] = source[a + i - 1]
  <2>1. rest \in Seq(STRING) /\ Len(rest) = N + 1 - a
    BY <1>3 DEF LeftFrom, PartFacts
  <2>2. \A i \in 1 .. N + 1 - a : rest[i] = source[a + i - 1]
    BY <1>3 DEF LeftFrom, PartFacts
  <2>. QED  BY <2>1, <2>2
<1>5. StopAt \in SUBSET Nat /\ StopAt = {i \in 1 .. N + 1 - a : rest[i] \in Stops}
  BY <1>4 DEF StopAt
<1>. DEFINE m == IF StopAt = {} THEN Len(rest) + 1 ELSE Min(StopAt)
            e == a + m - 1
<1>6. m \in 1 .. N + 2 - a /\ (StopAt = {} <=> m = N + 2 - a)
  <2>1. CASE StopAt = {}
    BY <1>1, <1>4, <2>1
  <2>2. CASE StopAt # {}
    <3>1. Min(StopAt) \in StopAt
      BY <1>5, <2>2, LeastNatural
    <3>. QED  BY <1>1, <1>5, <2>2, <3>1
  <2>. QED  BY <2>1, <2>2
<1>7. \A i \in 1 .. m - 1 : rest[i] \notin Stops
  <2>. SUFFICES ASSUME NEW i \in 1 .. m - 1, rest[i] \in Stops PROVE FALSE
    OBVIOUS
  <2>1. i \in StopAt
    <3>1. i \in 1 .. N + 1 - a
      BY <1>1, <1>6
    <3>. QED  BY <1>5, <3>1
  <2>2. Min(StopAt) <= i
    BY <1>5, <2>1, LeastNatural
  <2>3. Min(StopAt) = m
    BY <2>1
  <2>. QED  BY <1>6, <2>2, <2>3
<1>8. StopAt # {} => m \in 1 .. N + 1 - a /\ rest[m] \in Stops
  <2>1. StopAt # {} => m \in StopAt
    BY <1>5, LeastNatural
  <2>. QED  BY <1>5, <2>1
<1>9. Word = SubSeq(rest, 1, m - 1) /\ Stop = IF StopAt = {} THEN AtEnd ELSE rest[m]
  <2>1. (Len(rest) + 1) - 1 = Len(rest)
    BY <1>1, <1>4
  <2>. QED  BY <2>1 DEF Word, Stop
<1>. HIDE DEF m
<1>10. e \in Nat /\ a <= e /\ e <= N + 1 /\ (StopAt = {} <=> e = N + 1)
  BY <1>1, <1>6
<1>11. ASSUME NEW j \in a .. e - 1 PROVE source[j] \notin Stops
  <2>1. j - a + 1 \in 1 .. m - 1 /\ a + (j - a + 1) - 1 = j /\ j - a + 1 \in 1 .. N + 1 - a
    BY <1>1, <1>6
  <2>2. rest[j - a + 1] = source[a + (j - a + 1) - 1]
    BY <1>4, <2>1, Zenon
  <2>3. rest[j - a + 1] \notin Stops
    BY <1>7, <2>1, Zenon
  <2>. QED  BY <2>1, <2>2, <2>3
<1>12. Word = SubSeq(source, a, e - 1) /\ Len(Word) = m - 1 /\ (Word = <<>> <=> e = a)
  <2>1. IsInner(STRING, source, a, N, 1, m - 1)
    BY <1>1, <1>2, <1>6 DEF IsInner
  <2>2. InnerFact(source, a, N, 1, m - 1)
    BY <2>1, PartOfPart, Zenon
  <2>3. a + 1 - 1 = a /\ a + (m - 1) - 1 = e - 1
    BY <1>1, <1>6
  <2>4. Word = SubSeq(source, a, e - 1)
    BY <1>9, <2>2, <2>3 DEF InnerFact, LeftFrom
  <2>5. IsPart(STRING, source, a, e - 1)
    BY <1>1, <1>10 DEF IsPart
  <2>6. PartFacts(STRING, source, a, e - 1)
    BY <2>5, PartIs, Zenon
  <2>7. Len(Word) = (e - 1) + 1 - a /\ (Word = <<>> <=> e - 1 = a - 1)
    BY <2>4, <2>6 DEF PartFacts
  <2>. QED  BY <1>1, <1>6, <2>4, <2>7
<1>13. ASSUME e <= N
       PROVE  /\ source[e] \in Stops /\ Stop = source[e]
              /\ Beyond = SubSeq(source, e + 1, N)
  <2>1. StopAt # {} /\ m \in 1 .. N + 1 - a
    BY <1>1, <1>8, <1>10, <1>13
  <2>2. rest[m] = source[e]
    BY <1>4, <2>1
  <2>3. IsInner(STRING, source, a, N, m + 1, N + 1 - a)
    BY <1>1, <1>2, <2>1 DEF IsInner
  <2>4. InnerFact(source, a, N, m + 1, N + 1 - a)
    BY <2>3, PartOfPart, Zenon
  <2>5. a + (m + 1) - 1 = e + 1 /\ a + (N + 1 - a) - 1 = N /\ Len(Word) + 2 = m + 1
    BY <1>1, <1>12, <2>1
  <2>6. Beyond = SubSeq(rest, m + 1, N + 1 - a)
    BY <1>4, <2>5 DEF Beyond
  <2>7. Beyond = SubSeq(source, e + 1, N)
    BY <2>4, <2>5, <2>6 DEF InnerFact, LeftFrom
  <2>. QED  BY <1>8, <1>9, <2>1, <2>2, <2>7
<1>14. e = N + 1 => Stop = AtEnd
  BY <1>9, <1>10
<1>. HIDE DEF e
<1>15. WordTo(a, e)
  <2>1. e \in a .. N + 1
    BY <1>1, <1>10
  <2>2. \A j \in a .. e - 1 : source[j] \notin Stops
    BY <1>11, Zenon
  <2>. QED  BY <1>12, <1>13, <1>14, <2>1, <2>2, Zenon DEF WordTo
<1>. QED  BY <1>10, <1>15

----------------------------------------------------------------------------
(* Where the lines start, and how many there are so far.                   *)

LEMMA StartsArePlaces ==
  ASSUME NEW text \in Seq(STRING)
  PROVE  /\ IsPlaces(Starts(text)) /\ 1 \in Starts(text)
         /\ \A i \in Starts(text) : i \in 1 .. Len(text) + 1
<1>1. Len(text) \in Nat /\ DOMAIN text = 1 .. Len(text)
  OBVIOUS
<1>2. \A i \in Starts(text) : i \in 1 .. Len(text) + 1
  BY <1>1 DEF Starts
<1>3. IsFiniteSet(1 .. Len(text) + 1)
  BY <1>1, FS_Interval
<1>4. Starts(text) \subseteq 1 .. Len(text) + 1
  BY <1>2
<1>5. IsFiniteSet(Starts(text))
  BY <1>3, <1>4, FS_Subset
<1>6. 1 .. Len(text) + 1 \subseteq Nat \ {0}
  BY <1>1
<1>7. 1 \in Starts(text)
  BY DEF Starts
<1>. QED  BY <1>2, <1>4, <1>5, <1>6, <1>7 DEF IsPlaces

(* The line after the one that starts at b, if there is another.           *)
LEMMA NextLine ==
  ASSUME NEW text, NEW b, NEW e, IsLine(text, b, e), b \in Starts(text)
  PROVE  /\ e <= Len(text) => e + 1 \in Starts(text) /\ IsNext(Starts(text), b, e + 1, e + 1)
         /\ e = Len(text) + 1 => \A i \in Starts(text) : i <= b
<1>1. /\ text \in Seq(STRING) /\ Len(text) \in Nat /\ b \in Nat \ {0} /\ e \in Nat
      /\ b <= e /\ e <= Len(text) + 1 /\ DOMAIN text = 1 .. Len(text)
  BY DEF IsLine
<1>2. ASSUME NEW i \in Starts(text) PROVE i <= b \/ e + 1 <= i
  <2>1. CASE i = 1
    BY <1>1, <2>1
  <2>2. CASE i # 1
    <3>1. PICK j \in DOMAIN text : text[j] = Break /\ i = j + 1
      BY <2>2 DEF Starts
    <3>2. ~(j \in b .. e - 1)
      BY <3>1 DEF IsLine
    <3>. QED  BY <1>1, <3>1, <3>2
  <2>. QED  BY <2>1, <2>2
<1>3. \A i \in Starts(text) : i \in 1 .. Len(text) + 1
  BY <1>1, StartsArePlaces
<1>4. ASSUME e <= Len(text)
      PROVE  e + 1 \in Starts(text) /\ IsNext(Starts(text), b, e + 1, e + 1)
  <2>1. e \in DOMAIN text /\ text[e] = Break
    BY <1>1, <1>4 DEF IsLine
  <2>2. e + 1 \in Starts(text)
    BY <2>1 DEF Starts
  <2>3. \A i \in Starts(text) : (i <= b \/ e + 1 <= i) /\ (i <= e + 1 \/ e + 1 < i)
    BY <1>1, <1>2, <1>3
  <2>. QED  BY <1>1, <2>2, <2>3 DEF IsNext
<1>5. ASSUME e = Len(text) + 1, NEW i \in Starts(text) PROVE i <= b
  BY <1>1, <1>2, <1>3, <1>5
<1>. QED  BY <1>4, <1>5

TheLines == Lines(source)
LineOf(b) == CountTo(Starts(source), b)

(* The n-th line is the one that starts at the n-th place.                 *)
LEMMA LinesAre ==
  ASSUME source \in Seq(STRING), NEW b \in Starts(source)
  PROVE  /\ Len(TheLines) \in Nat /\ DOMAIN TheLines = 1 .. Len(TheLines)
         /\ LineOf(b) \in 1 .. Len(TheLines)
         /\ TheLines[LineOf(b)] = LineAt(source, b)
<1>1. IsPlaces(Starts(source))
  BY StartsArePlaces
<1>. DEFINE f == [i \in Starts(source) |-> LineAt(source, i)]
<1>2. /\ LineOf(b) \in 1 .. Cardinality(Starts(source))
      /\ DOMAIN InOrder(Starts(source), f) = 1 .. Cardinality(Starts(source))
      /\ InOrder(Starts(source), f)[LineOf(b)] = f[b]
  <2>. HIDE DEF f
  <2>. QED  BY <1>1, InOrderIs DEF LineOf
<1>3. Cardinality(Starts(source)) \in Nat
  BY <1>1, FS_CardinalityType DEF IsPlaces
<1>4. TheLines = InOrder(Starts(source), f)
  BY DEF TheLines, Lines
<1>5. Len(TheLines) = Cardinality(Starts(source))
  <2>1. TheLines = [n \in 1 .. Cardinality(Starts(source)) |-> f[Nth(Starts(source), n)]]
    BY <1>4 DEF InOrder
  <2>. HIDE DEF f
  <2>. QED  BY <1>3, <2>1
<1>. QED  BY <1>2, <1>3, <1>4, <1>5

(* Which line is first, which is next, and which is last.                  *)
LEMMA LineCounts ==
  ASSUME source \in Seq(STRING)
  PROVE  /\ LineOf(1) = 1
         /\ \A b, e : IsLine(source, b, e) /\ b \in Starts(source) =>
              /\ e <= Len(source) => LineOf(e + 1) = LineOf(b) + 1
              /\ e = Len(source) + 1 => LineOf(b) = Len(TheLines)
<1>1. /\ IsPlaces(Starts(source)) /\ 1 \in Starts(source)
      /\ \A i \in Starts(source) : i \in Nat \ {0}
  BY StartsArePlaces DEF IsPlaces
<1>2. LineOf(1) = 1
  <2>1. {i \in Starts(source) : i <= 1} = {1}
    BY <1>1
  <2>2. Cardinality({1}) = 1
    BY FS_Singleton
  <2>. QED  BY <2>1, <2>2 DEF LineOf, CountTo
<1>3. ASSUME NEW b, NEW e, IsLine(source, b, e), b \in Starts(source)
      PROVE  /\ e <= Len(source) => LineOf(e + 1) = LineOf(b) + 1
             /\ e = Len(source) + 1 => LineOf(b) = Len(TheLines)
  <2>1. b \in Nat /\ e + 1 \in Nat
    BY <1>1, <1>3 DEF IsLine
  <2>2. ASSUME e <= Len(source) PROVE LineOf(e + 1) = LineOf(b) + 1
    <3>1. IsNext(Starts(source), b, e + 1, e + 1)
      BY <1>3, <2>2, NextLine
    <3>. QED  BY <1>1, <2>1, <3>1, OneMorePlace DEF LineOf
  <2>3. ASSUME e = Len(source) + 1 PROVE LineOf(b) = Len(TheLines)
    <3>1. \A i \in Starts(source) : i <= b
      BY <1>3, <2>3, NextLine
    <3>2. LineOf(b) = Cardinality(Starts(source)) /\ Cardinality(Starts(source)) \in Nat
      BY <1>1, <2>1, <3>1, CountFacts DEF LineOf
    <3>. QED  BY <3>2 DEF TheLines, Lines, InOrder
  <2>. QED  BY <2>2, <2>3
<1>. QED  BY <1>2, <1>3

----------------------------------------------------------------------------
(* What is to be seen of some rows: one more row shows only if none before *)
(* it is NULL, and a NULL never does.                                      *)
NullsIn(rs)   == {i \in DOMAIN rs : rs[i] = NoRow}
VisibleIn(rs) == IF NullsIn(rs) = {} THEN rs ELSE SubSeq(rs, 1, Min(NullsIn(rs)) - 1)

CfgRow == Seq(Seq(STRING))

LEMMA OneMoreRow ==
  ASSUME NEW rs \in Seq(CfgRow), NEW r \in CfgRow
  PROVE  /\ NullsIn(rs) # {} => /\ NullsIn(Append(rs, r)) # {}
                                /\ VisibleIn(Append(rs, r)) = VisibleIn(rs)
         /\ NullsIn(rs) = {} /\ r = NoRow => /\ NullsIn(Append(rs, r)) # {}
                                             /\ VisibleIn(Append(rs, r)) = rs
         /\ NullsIn(rs) = {} /\ r # NoRow => NullsIn(Append(rs, r)) = {}
<1>. DEFINE n == Len(rs)
            more == Append(rs, r)
<1>1. /\ n \in Nat /\ DOMAIN rs = 1 .. n /\ DOMAIN more = 1 .. n + 1
      /\ more \in Seq(CfgRow) /\ Len(more) = n + 1
      /\ \A i \in 1 .. n : more[i] = rs[i]
      /\ more[n + 1] = r
  OBVIOUS
<1>. HIDE DEF more
<1>2. /\ NullsIn(rs) \in SUBSET (1 .. n) /\ NullsIn(more) \in SUBSET Nat
      /\ \A i : i \in NullsIn(more) <=> i \in NullsIn(rs) \/ (i = n + 1 /\ r = NoRow)
  BY <1>1 DEF NullsIn
<1>3. ASSUME NEW m \in 0 .. n PROVE SubSeq(more, 1, m) = SubSeq(rs, 1, m)
  <2>1. IsPart(CfgRow, more, 1, m) /\ IsPart(CfgRow, rs, 1, m)
    BY <1>1 DEF IsPart
  <2>2. PartFacts(CfgRow, more, 1, m) /\ PartFacts(CfgRow, rs, 1, m)
    BY <2>1, PartIs, Zenon
  <2>. DEFINE s == SubSeq(more, 1, m)
              t == SubSeq(rs, 1, m)
  <2>3. /\ s \in Seq(CfgRow) /\ t \in Seq(CfgRow) /\ Len(s) = m /\ Len(t) = m
        /\ \A i \in 1 .. m : s[i] = more[i] /\ t[i] = rs[i]
    BY <2>2 DEF PartFacts
  <2>. HIDE DEF s, t
  <2>4. \A i \in 1 .. Len(s) : s[i] = t[i]
    BY <1>1, <2>3
  <2>5. s = t
    BY <2>3, <2>4, SeqEqual
  <2>. QED  BY <2>5 DEF s, t
<1>4. ASSUME NullsIn(rs) # {}
      PROVE  NullsIn(more) # {} /\ VisibleIn(more) = VisibleIn(rs)
  <2>. DEFINE m == Min(NullsIn(rs))
  <2>1. m \in NullsIn(rs) /\ \A i \in NullsIn(rs) : m <= i
    BY <1>2, <1>4, LeastNatural
  <2>. HIDE DEF m
  <2>2. m \in 1 .. n /\ m \in NullsIn(more) /\ \A i \in NullsIn(more) : m <= i
    BY <1>1, <1>2, <2>1
  <2>3. Min(NullsIn(more)) = m
    <3>1. FirstOr(NullsIn(more), 0) = m
      BY <1>2, <2>2, FirstOrFound
    <3>. QED  BY <2>2, <3>1 DEF FirstOr
  <2>4. SubSeq(more, 1, m - 1) = SubSeq(rs, 1, m - 1)
    BY <1>3, <2>2
  <2>. QED  BY <1>4, <2>2, <2>3, <2>4 DEF VisibleIn, m
<1>5. ASSUME NullsIn(rs) = {}, r = NoRow
      PROVE  NullsIn(more) # {} /\ VisibleIn(more) = rs
  <2>1. n + 1 \in NullsIn(more) /\ \A i \in NullsIn(more) : n + 1 <= i
    BY <1>1, <1>2, <1>5
  <2>2. Min(NullsIn(more)) = n + 1
    <3>1. FirstOr(NullsIn(more), 0) = n + 1
      BY <1>2, <2>1, FirstOrFound
    <3>. QED  BY <2>1, <3>1 DEF FirstOr
  <2>3. SubSeq(more, 1, (n + 1) - 1) = rs
    <3>1. (n + 1) - 1 = n /\ n \in 0 .. n
      BY <1>1
    <3>2. SubSeq(more, 1, n) = SubSeq(rs, 1, n)
      BY <1>3, <3>1
    <3>3. SubSeq(rs, 1, n) = rs
      BY SubSeqFull
    <3>. QED  BY <3>1, <3>2, <3>3
  <2>. QED  BY <2>1, <2>2, <2>3 DEF VisibleIn
<1>6. ASSUME NullsIn(rs) = {}, r # NoRow PROVE NullsIn(more) = {}
  BY <1>2, <1>6
<1>. QED  BY <1>4, <1>5, <1>6 DEF more

(* The rows are those of the first lines, none of which begins with =.     *)
RowsAre(rs, lines, n) ==
  /\ n \in 0 .. Len(lines) /\ Len(rs) = n
  /\ \A k \in 1 .. n : rs[k] = RowOf(lines[k]) /\ ~Keyless(lines[k])

RowsUpTo(n) == RowsAre(rows, TheLines, n)

LEMMA RowsOfLines ==
  ASSUME NEW lines, Len(lines) \in Nat, DOMAIN lines = 1 .. Len(lines),
         NEW rs \in Seq(CfgRow), NEW n, RowsAre(rs, lines, n)
  PROVE  /\ n = Len(lines) => rs = RowsOf(lines)
         /\ n < Len(lines) /\ Keyless(lines[n + 1]) => rs = RowsOf(lines)
         /\ IsPrefix(rs, RowsOf(lines))
<1>. DEFINE N == Len(lines)
            keyless == {m \in DOMAIN lines : Keyless(lines[m])}
            last == FirstOr(keyless, N + 1) - 1
            all == RowsOf(lines)
<1>1. N \in Nat /\ DOMAIN lines = 1 .. N
  OBVIOUS
<1>2. n \in 0 .. N /\ n \in Nat /\ Len(rs) = n /\ DOMAIN rs = 1 .. n
  BY <1>1 DEF RowsAre
<1>3. \A m \in keyless : n < m
  <2>. SUFFICES ASSUME NEW m \in 1 .. N, Keyless(lines[m]), ~(n < m) PROVE FALSE
    BY <1>1
  <2>1. m \in 1 .. n
    BY <1>2
  <2>. QED  BY <2>1 DEF RowsAre
<1>4. keyless \in SUBSET Nat /\ keyless \subseteq 1 .. N
  BY <1>1
<1>5. last \in n .. N
  <2>1. CASE keyless = {}
    <3>1. FirstOr(keyless, N + 1) = N + 1
      BY <2>1 DEF FirstOr
    <3>. QED  BY <1>1, <1>2, <3>1
  <2>2. CASE keyless # {}
    <3>1. FirstOr(keyless, N + 1) \in keyless
      BY <1>4, <2>2, FirstOrIs
    <3>2. FirstOr(keyless, N + 1) \in 1 .. N /\ n < FirstOr(keyless, N + 1)
      BY <1>3, <1>4, <3>1
    <3>. QED  BY <1>1, <1>2, <3>2
  <2>. QED  BY <2>1, <2>2
<1>6. all = [k \in 1 .. last |-> RowOf(lines[k])]
  BY DEF RowsOf
<1>. HIDE DEF last
<1>7. ASSUME last = n PROVE rs = all
  <2>1. \A k \in 1 .. n : rs[k] = RowOf(lines[k])
    BY DEF RowsAre
  <2>2. rs = [k \in 1 .. n |-> rs[k]]
    BY <1>2
  <2>. QED  BY <1>6, <1>7, <2>1, <2>2
<1>8. n = N => last = n
  <2>1. last \in Nat /\ n <= last /\ last <= N
    BY <1>1, <1>2, <1>5
  <2>2. n \in Nat /\ N \in Nat
    BY <1>1, <1>2
  <2>. HIDE DEF N
  <2>. QED  BY <2>1, <2>2
<1>9. ASSUME n < N, Keyless(lines[n + 1]) PROVE last = n
  <2>1. n + 1 \in keyless /\ \A m \in keyless : n + 1 <= m
    BY <1>1, <1>2, <1>3, <1>4, <1>9
  <2>2. FirstOr(keyless, N + 1) = n + 1
    <3>. HIDE DEF keyless, N
    <3>. QED  BY <1>4, <2>1, FirstOrFound
  <2>. QED  BY <1>2, <2>2 DEF last
<1>10. IsPrefix(rs, all)
  <2>1. Len(all) = last
    <3>1. last \in Nat
      BY <1>1, <1>2, <1>5
    <3>. HIDE DEF all
    <3>. QED  BY <1>6, <3>1
  <2>2. n <= last
    BY <1>2, <1>5
  <2>. DEFINE R == {rs[k] : k \in 1 .. n} \cup {RowOf(lines[k]) : k \in 1 .. last}
  <2>3. rs \in Seq(R) /\ all \in Seq(R)
    <3>1. last \in Nat
      BY <1>1, <1>2, <1>5
    <3>2. rs \in [1 .. n -> R] /\ all \in [1 .. last -> R]
      <4>. HIDE DEF all
      <4>. QED  BY <1>2, <1>6
    <3>. HIDE DEF R, all
    <3>. QED  BY <1>2, <3>1, <3>2
  <2>. HIDE DEF R, all
  <2>4. IsPart(R, rs, 1, n) /\ IsPart(R, all, 1, n)
    BY <1>2, <2>1, <2>2, <2>3, <1>5 DEF IsPart
  <2>5. PartFacts(R, rs, 1, n) /\ PartFacts(R, all, 1, n)
    BY <2>4, PartIs, Zenon
  <2>. DEFINE s == SubSeq(rs, 1, n)
              t == SubSeq(all, 1, n)
  <2>6. /\ s \in Seq(R) /\ t \in Seq(R) /\ Len(s) = n /\ Len(t) = n
        /\ \A i \in 1 .. n : s[i] = rs[i] /\ t[i] = all[i]
    BY <1>2, <2>5 DEF PartFacts
  <2>7. \A i \in 1 .. n : rs[i] = all[i]
    BY <1>2, <1>5, <1>6 DEF RowsAre
  <2>. HIDE DEF s, t
  <2>8. s = t
    BY <2>6, <2>7, SeqEqual
  <2>. QED  BY <1>2, <2>1, <2>2, <2>8 DEF IsPrefix, s, t
<1>. QED  BY <1>7, <1>8, <1>9, <1>10

----------------------------------------------------------------------------
(* get_cfgs and get_list are at the start of a line, or behind its key.    *)
AtLine ==
  \E b \in Starts(source) : LeftFrom(b) /\ RowsUpTo(LineOf(b) - 1)

BehindKey(b, q) ==
  /\ b \in Starts(source) /\ b \in Nat /\ q \in b + 1 .. Len(source)
  /\ source[q] = Equals
  /\ \A j \in b .. q - 1 : source[j] \notin AnyEquals
  /\ row = <<SubSeq(source, b, q - 1)>>
  /\ LeftFrom(q + 1) /\ RowsUpTo(LineOf(b) - 1)

InLine == \E b, q \in Nat : BehindKey(b, q)

Told == IF short THEN IsPrefix(Visible, RowsOf(TheLines)) ELSE Visible = RowsOf(TheLines)

CfgTyped ==
  /\ source \in Seq(STRING) /\ rows \in Seq(CfgRow) /\ short \in BOOLEAN
  /\ rest \in Seq(STRING) /\ row \in CfgRow
  /\ stage = "open" => rest = source /\ rows = <<>> /\ ~short /\ end = ""
  /\ stage = "word" => end # AtEnd
  /\ stage = "returned" => end = AtEnd

CfgReading ==
  stage \in {"row", "word"} /\ end # AtEnd /\ Nulls = {} =>
    ~short /\ IF stage = "row" \/ row = <<>> THEN AtLine ELSE InLine

CfgRead ==
  /\ CfgTyped /\ CfgReading
  /\ stage \in {"row", "word", "returned"} /\ (end = AtEnd \/ Nulls # {}) => Told

LEMMA CfgReadInit == CfgInit => CfgRead
<1>. SUFFICES ASSUME CfgInit PROVE CfgRead
  OBVIOUS
<1>1. source \in Seq(STRING)
  BY CfgTextAssumption DEF CfgInit
<1>2. <<>> \in Seq(CfgRow) /\ <<>> \in CfgRow
  BY DEF CfgRow
<1>3. FALSE \in BOOLEAN
  OBVIOUS
<1>4. CfgTyped
  BY <1>1, <1>2, <1>3 DEF CfgInit, CfgTyped
<1>. QED  BY <1>4 DEF CfgInit, CfgRead, CfgReading

(* While nothing is read, what has been read stays.                        *)
LEMMA Unread ==
  ASSUME UNCHANGED <<source, rest, row, rows>>
  PROVE  /\ Nulls' = Nulls /\ Visible' = Visible /\ TheLines' = TheLines
         /\ AtLine' = AtLine /\ InLine' = InLine
<1>1. Nulls' = Nulls /\ Visible' = Visible
  BY DEF Nulls, Visible
<1>2. TheLines' = TheLines
  BY DEF TheLines
<1>3. \A n : RowsUpTo(n)' = RowsUpTo(n)
  BY <1>2 DEF RowsUpTo, RowsAre
<1>4. \A b : LineOf(b)' = LineOf(b) /\ LeftFrom(b)' = LeftFrom(b)
  BY DEF LineOf, LeftFrom
<1>5. AtLine' = AtLine
  BY <1>3, <1>4 DEF AtLine
<1>6. InLine' = InLine
  BY <1>3, <1>4 DEF InLine, BehindKey
<1>. QED  BY <1>1, <1>2, <1>5, <1>6

(* A row is added.                                                         *)
LEMMA RowAdded ==
  ASSUME rows \in Seq(CfgRow), NEW r \in CfgRow, rows' = Append(rows, r)
  PROVE  /\ rows' \in Seq(CfgRow)
         /\ Nulls # {} => Nulls' # {} /\ Visible' = Visible
         /\ Nulls = {} /\ r = NoRow => Nulls' # {} /\ Visible' = rows
         /\ Nulls = {} /\ r # NoRow => Nulls' = {}
<1>1. Nulls = NullsIn(rows) /\ Nulls' = NullsIn(rows')
  BY DEF Nulls, NullsIn
<1>2. Visible = VisibleIn(rows) /\ Visible' = VisibleIn(rows')
  BY <1>1 DEF Visible, VisibleIn
<1>3. PICK rs : rs = rows
  OBVIOUS
<1>. QED  BY <1>1, <1>2, <1>3, OneMoreRow

(* Every line ends somewhere.                                              *)
LEMMA LineEnds ==
  ASSUME NEW text \in Seq(STRING), NEW b \in 1 .. Len(text) + 1
  PROVE  \E e \in Nat : IsLine(text, b, e)
<1>1. Len(text) \in Nat /\ b \in Nat
  OBVIOUS
<1>. DEFINE breaks == {j \in b .. Len(text) : text[j] = Break}
            e == FirstOr(breaks, Len(text) + 1)
<1>2. breaks \in SUBSET Nat
  BY <1>1
<1>3. CASE breaks = {}
  <2>1. e = Len(text) + 1
    BY <1>3, FirstOrIs
  <2>2. \A j \in b .. Len(text) : text[j] # Break
    BY <1>3
  <2>3. (Len(text) + 1) - 1 = Len(text)
    BY <1>1
  <2>4. IsLine(text, b, Len(text) + 1)
    BY <1>1, <2>2, <2>3 DEF IsLine
  <2>. QED  BY <1>1, <2>4
<1>4. CASE breaks # {}
  <2>1. e \in breaks /\ \A j \in breaks : e <= j
    BY <1>2, <1>4, FirstOrIs
  <2>. HIDE DEF e
  <2>2. e \in b .. Len(text) /\ text[e] = Break
    BY <2>1
  <2>3. \A j \in b .. e - 1 : text[j] # Break
    <3>. SUFFICES ASSUME NEW j \in b .. e - 1, text[j] = Break PROVE FALSE
      OBVIOUS
    <3>1. j \in breaks /\ ~(e <= j)
      BY <1>1, <2>2
    <3>. QED  BY <2>1, <3>1
  <2>4. IsLine(text, b, e)
    BY <1>1, <2>2, <2>3 DEF IsLine
  <2>. QED  BY <1>1, <2>2, <2>4
<1>. QED  BY <1>3, <1>4

(* get_list has come to the end of a line and gives its row.               *)
LineDone(b, e, r) ==
  /\ source \in Seq(STRING) /\ rows \in Seq(CfgRow) /\ Nulls = {} /\ ~short
  /\ IsLine(source, b, e) /\ b \in Starts(source) /\ RowsUpTo(LineOf(b) - 1)
  /\ r \in CfgRow /\ r # NoRow
  /\ r = RowOf(LineAt(source, b)) /\ ~Keyless(LineAt(source, b))

LEMMA LineRead ==
  ASSUME NEW b, NEW e, NEW r, LineDone(b, e, r),
         rows' = Append(rows, r), UNCHANGED <<source, short>>, stage' = "row",
         e <= Len(source) => LeftFrom(e + 1)' /\ end' # AtEnd,
         e = Len(source) + 1 => end' = AtEnd
  PROVE  /\ rows' \in Seq(CfgRow) /\ CfgReading'
         /\ end' = AtEnd \/ Nulls' # {} => Told'
<1>1. /\ source \in Seq(STRING) /\ Len(source) \in Nat /\ b \in Nat /\ e \in Nat /\ e <= Len(source) + 1
      /\ rows \in Seq(CfgRow)
  BY DEF LineDone, IsLine
<1>. DEFINE n == LineOf(b)
<1>2. /\ Len(TheLines) \in Nat /\ n \in 1 .. Len(TheLines)
      /\ TheLines[n] = LineAt(source, b) /\ RowsUpTo(n - 1) /\ Len(rows) = n - 1
  BY LinesAre DEF LineDone, RowsUpTo, RowsAre
<1>3. TheLines' = TheLines /\ \A i : LineOf(i)' = LineOf(i)
  BY DEF TheLines, LineOf
<1>4. rows' \in Seq(CfgRow) /\ Nulls' = {}
  BY <1>1, RowAdded DEF LineDone
<1>5. RowsUpTo(n)'
  <2>1. PICK m : m = n
    OBVIOUS
  <2>2. m \in Nat \ {0} /\ m <= Len(TheLines) /\ Len(rows) = m - 1
    BY <1>2, <2>1
  <2>3. Len(rows') = m /\ rows'[m] = r /\ \A k \in 1 .. m - 1 : rows'[k] = rows[k]
    BY <1>1, <2>2
  <2>4. \A k \in 1 .. m - 1 : rows[k] = RowOf(TheLines[k]) /\ ~Keyless(TheLines[k])
    BY <1>2, <2>1 DEF RowsUpTo, RowsAre
  <2>5. r = RowOf(TheLines[m]) /\ ~Keyless(TheLines[m])
    BY <1>2, <2>1 DEF LineDone
  <2>6. ASSUME NEW k \in 1 .. m PROVE rows'[k] = RowOf(TheLines[k]) /\ ~Keyless(TheLines[k])
    <3>1. k \in 1 .. m - 1 \/ k = m
      BY <2>2
    <3>. QED  BY <2>3, <2>4, <2>5, <3>1
  <2>7. m \in 0 .. Len(TheLines)
    BY <1>2, <2>2
  <2>8. RowsUpTo(m)'
    BY <1>3, <2>3, <2>6, <2>7 DEF RowsUpTo, RowsAre
  <2>. HIDE DEF n
  <2>9. n' = m
    BY <1>3, <2>1 DEF n
  <2>. QED  BY <2>8, <2>9
<1>6. PICK m : m = n /\ RowsUpTo(m)'
  <2>1. PICK m : m = n
    OBVIOUS
  <2>2. n' = n
    BY <1>3
  <2>. QED  BY <1>5, <2>1, <2>2
<1>7. CASE e <= Len(source)
  <2>1. e + 1 \in Starts(source) /\ LineOf(e + 1) = m + 1
    BY <1>1, <1>6, <1>7, NextLine, LineCounts DEF LineDone
  <2>2. LineOf(e + 1)' = m + 1 /\ (m + 1) - 1 = m
    BY <1>2, <1>3, <1>6, <2>1
  <2>3. RowsUpTo(LineOf(e + 1) - 1)' /\ LeftFrom(e + 1)' /\ e + 1 \in Starts(source)'
    BY <1>6, <1>7, <2>1, <2>2
  <2>4. AtLine'
    BY <2>3, Zenon DEF AtLine
  <2>. QED  BY <1>4, <1>7, <2>4 DEF CfgReading, LineDone
<1>8. CASE e = Len(source) + 1
  <2>1. m = Len(TheLines)
    BY <1>1, <1>6, <1>8, LineCounts DEF LineDone
  <2>2. rows' = RowsOf(TheLines)'
    <3>1. DOMAIN TheLines = 1 .. Len(TheLines)
      BY LinesAre DEF LineDone
    <3>2. rows' \in Seq(CfgRow) /\ RowsAre(rows', TheLines, m)
      BY <1>3, <1>4, <1>6 DEF RowsUpTo
    <3>3. PICK rs : rs = rows'
      OBVIOUS
    <3>4. rs = RowsOf(TheLines)
      BY <1>2, <2>1, <3>1, <3>2, <3>3, RowsOfLines
    <3>. QED  BY <1>3, <3>3, <3>4
  <2>3. Visible' = rows'
    BY <1>4 DEF Visible
  <2>4. Told'
    BY <2>2, <2>3 DEF Told, LineDone
  <2>. QED  BY <1>4, <1>8, <2>4 DEF CfgReading
<1>. QED  BY <1>1, <1>7, <1>8

(* A word at the start of a line: all of the line, its key, or the nothing *)
(* in front of an = that there is no key for.                              *)
LEMMA FirstWord ==
  ASSUME CfgTyped, ReadWord, Nulls = {}, ~short, row = <<>>,
         NEW b \in Starts(source), LeftFrom(b), RowsUpTo(LineOf(b) - 1)
  PROVE  /\ rows' \in Seq(CfgRow) /\ CfgReading'
         /\ end' = AtEnd \/ Nulls' # {} => Told'
<1>1. PICK e \in Nat : WordTo(b, e)
  BY WordIs
<1>2. /\ source \in Seq(STRING) /\ Len(source) \in Nat /\ b \in Nat \ {0} /\ b <= Len(source) + 1
      /\ rows \in Seq(CfgRow) /\ UNCHANGED <<source, short>>
      /\ e \in Nat /\ b <= e /\ e <= Len(source) + 1
  BY <1>1 DEF CfgTyped, LeftFrom, WordTo, ReadWord
<1>3. Stops = {Break, Equals}
  BY DEF Stops
<1>4. /\ \A j \in b .. e - 1 : source[j] # Break /\ source[j] # Equals
      /\ Word = SubSeq(source, b, e - 1) /\ (Word = <<>> <=> e = b)
      /\ e <= Len(source) => /\ source[e] \in {Break, Equals} /\ Stop = source[e]
                             /\ Beyond = SubSeq(source, e + 1, Len(source))
      /\ e = Len(source) + 1 => Stop = AtEnd
  BY <1>1, <1>3 DEF WordTo
<1>5. Word \in Seq(STRING)
  <2>1. IsPart(STRING, source, b, e - 1)
    BY <1>2 DEF IsPart
  <2>2. PartFacts(STRING, source, b, e - 1)
    BY <2>1, PartIs, Zenon
  <2>. QED  BY <1>4, <2>2 DEF PartFacts
<1>6. e <= Len(source) => LeftFrom(e + 1)'
  <2>. SUFFICES ASSUME e <= Len(source) PROVE LeftFrom(e + 1)'
    OBVIOUS
  <2>1. rest' = SubSeq(source, e + 1, Len(source))
    BY <1>4, Zenon DEF ReadWord
  <2>2. e + 1 \in 1 .. Len(source) + 1
    BY <1>2
  <2>. QED  BY <1>2, <2>1, <2>2 DEF LeftFrom
<1>7. CASE e = Len(source) + 1 \/ source[e] = Break
  <2>1. IsLine(source, b, e)
    BY <1>2, <1>4, <1>7 DEF IsLine
  <2>2. RowOf(LineAt(source, b)) = Words /\ ~Keyless(LineAt(source, b))
    <3>1. CASE e = b
      BY <1>4, <2>1, <3>1, RowOfLine DEF Words
    <3>2. CASE e # b
      <4>1. RowOf(LineAt(source, b)) = <<Word>>
        BY <1>4, <2>1, <3>2, RowOfLine
      <4>2. b \in b .. e - 1
        BY <1>2, <3>2
      <4>3. ~Keyless(LineAt(source, b))
        BY <1>4, <2>1, <3>2, <4>2, RowOfLine
      <4>. QED  BY <1>4, <3>2, <4>1, <4>3 DEF Words
    <3>. QED  BY <3>1, <3>2
  <2>3. Words \in CfgRow /\ Words # NoRow
    <3>1. Words = IF Word = <<>> THEN <<>> ELSE <<Word>>
      BY DEF Words
    <3>2. <<>> \in CfgRow /\ <<Word>> \in CfgRow
      BY <1>5 DEF CfgRow
    <3>3. <<>> # NoRow /\ (Word # <<>> => <<Word>> # NoRow)
      BY DEF NoRow
    <3>. QED  BY <3>1, <3>2, <3>3
  <2>4. Stop \in {AtEnd, Break} /\ (e <= Len(source) => Stop = Break)
    BY <1>2, <1>4, <1>7
  <2>5. rows' = Append(rows, Words) /\ stage' = "row"
    BY <2>4 DEF ReadWord
  <2>6. e <= Len(source) => end' # AtEnd
    BY <2>4 DEF ReadWord, Left, AtEnd, Break, Space
  <2>7. e = Len(source) + 1 => end' = AtEnd
    BY <1>4 DEF ReadWord, Left
  <2>8. PICK r : r = Words
    OBVIOUS
  <2>9. LineDone(b, e, r)
    BY <1>2, <2>1, <2>2, <2>3, <2>8 DEF LineDone
  <2>. QED  BY <1>2, <1>6, <2>5, <2>6, <2>7, <2>8, <2>9, LineRead
<1>8. CASE e <= Len(source) /\ source[e] = Equals /\ e = b
  <2>1. PICK f \in Nat : IsLine(source, b, f)
    BY <1>2, LineEnds
  <2>2. f # b
    BY <1>8, <2>1 DEF IsLine, Break, Equals
  <2>3. Keyless(LineAt(source, b))
    BY <1>8, <2>1, <2>2, RowOfLine
  <2>4. Stop = Equals /\ Word = <<>>
    BY <1>4, <1>8
  <2>5. rows' = Append(rows, NoRow) /\ stage' = "row"
    BY <2>4 DEF ReadWord, AtEnd, Break, Equals
  <2>6. NoRow \in CfgRow
    BY DEF NoRow, CfgRow
  <2>7. rows' \in Seq(CfgRow) /\ Nulls' # {} /\ Visible' = rows
    BY <1>2, <2>5, <2>6, RowAdded
  <2>8. rows = RowsOf(TheLines)
    <3>1. /\ Len(TheLines) \in Nat /\ DOMAIN TheLines = 1 .. Len(TheLines)
          /\ LineOf(b) \in 1 .. Len(TheLines) /\ TheLines[LineOf(b)] = LineAt(source, b)
      BY <1>2, LinesAre
    <3>. DEFINE n == LineOf(b) - 1
    <3>2. n < Len(TheLines) /\ n + 1 = LineOf(b)
      BY <3>1
    <3>. HIDE DEF n
    <3>3. RowsAre(rows, TheLines, n)
      BY DEF RowsUpTo, n
    <3>. QED  BY <1>2, <2>3, <3>1, <3>2, <3>3, RowsOfLines
  <2>9. TheLines' = TheLines
    BY <1>2 DEF TheLines
  <2>. QED  BY <1>2, <2>7, <2>8, <2>9 DEF Told, CfgReading
<1>9. CASE e <= Len(source) /\ source[e] = Equals /\ e # b
  <2>1. Stop = Equals /\ Word # <<>>
    BY <1>4, <1>9
  <2>2. row' = Append(row, Word) /\ UNCHANGED <<rows, stage>> /\ end' = Space
    BY <2>1 DEF ReadWord, Words, Left, AtEnd, Break, Equals
  <2>3. row' = <<SubSeq(source, b, e - 1)>>
    BY <1>4, <2>2
  <2>4. TheLines' = TheLines /\ LineOf(b)' = LineOf(b) /\ Nulls' = Nulls
    BY <1>2, <2>2 DEF TheLines, LineOf, Nulls
  <2>5. RowsUpTo(LineOf(b) - 1)'
    BY <2>2, <2>4 DEF RowsUpTo
  <2>6. e \in b + 1 .. Len(source)
    BY <1>2, <1>9
  <2>7. \A j \in b .. e - 1 : source[j] \notin AnyEquals
    BY <1>4 DEF AnyEquals
  <2>8. BehindKey(b, e)'
    BY <1>2, <1>6, <1>9, <2>3, <2>5, <2>6, <2>7 DEF BehindKey, AnyEquals, Equals, Break
  <2>9. InLine'
    BY <1>2, <2>8, Zenon DEF InLine
  <2>10. row' # <<>> /\ end' # AtEnd
    <3>1. row' # <<>>
      BY <2>3
    <3>. QED  BY <2>2, <3>1 DEF Space, AtEnd
  <2>11. stage' = "word"
    BY <2>2 DEF ReadWord
  <2>. QED  BY <1>2, <2>2, <2>4, <2>9, <2>10, <2>11 DEF CfgReading
<1>10. e = Len(source) + 1 \/ e <= Len(source)
  BY <1>2
<1>. QED  BY <1>4, <1>7, <1>8, <1>9, <1>10

LEMMA TwoWords == ASSUME NEW k, NEW w PROVE Append(<<k>>, w) = <<k, w>>
<1>1. <<k>> \in Seq({k, w}) /\ w \in {k, w} /\ Len(<<k>>) = 1
  OBVIOUS
<1>. DEFINE s == Append(<<k>>, w)
            t == <<k, w>>
<1>2. s \in Seq({k, w}) /\ Len(s) = 2 /\ s[1] = k /\ s[2] = w
  BY <1>1, AppendProperties
<1>3. t \in Seq({k, w}) /\ Len(t) = 2 /\ t[1] = k /\ t[2] = w
  OBVIOUS
<1>. HIDE DEF s, t
<1>4. \A i \in 1 .. Len(s) : s[i] = t[i]
  BY <1>2, <1>3
<1>5. s = t
  BY <1>2, <1>3, <1>4, SeqEqual
<1>. QED  BY <1>5 DEF s, t

(* The word behind a key: what is left of the line.                        *)
LEMMA SecondWord ==
  ASSUME CfgTyped, ReadWord, Nulls = {}, ~short, NEW b, NEW q \in Nat, BehindKey(b, q)
  PROVE  /\ rows' \in Seq(CfgRow) /\ CfgReading'
         /\ end' = AtEnd \/ Nulls' # {} => Told'
<1>1. LeftFrom(q + 1)
  BY DEF BehindKey
<1>2. PICK e \in Nat : WordTo(q + 1, e)
  BY <1>1, WordIs
<1>3. /\ source \in Seq(STRING) /\ Len(source) \in Nat /\ b \in Nat \ {0} /\ b + 1 <= q /\ q <= Len(source)
      /\ rows \in Seq(CfgRow) /\ UNCHANGED <<source, short>>
      /\ e \in Nat /\ q + 1 <= e /\ e <= Len(source) + 1
      /\ b \in Starts(source) /\ source[q] = Equals
  <2>1. source \in Seq(STRING) /\ Len(source) \in Nat
    <3>1. source \in Seq(STRING)
      BY DEF CfgTyped
    <3>. QED  BY <3>1
  <2>2. b \in Nat \ {0}
    BY <2>1, StartsArePlaces DEF BehindKey, IsPlaces
  <2>. QED  BY <1>2, <2>1, <2>2 DEF CfgTyped, BehindKey, WordTo, ReadWord
<1>4. row = <<SubSeq(source, b, q - 1)>> /\ Stops = {Break}
  BY DEF BehindKey, Stops
<1>5. /\ \A j \in q + 1 .. e - 1 : source[j] # Break
      /\ Word = SubSeq(source, q + 1, e - 1) /\ (Word = <<>> <=> e = q + 1)
      /\ e <= Len(source) => /\ source[e] = Break /\ Stop = source[e]
                             /\ Beyond = SubSeq(source, e + 1, Len(source))
      /\ e = Len(source) + 1 => Stop = AtEnd
  BY <1>2, <1>4 DEF WordTo
<1>6. \A j \in b .. q - 1 : source[j] # Break /\ source[j] # Equals
  BY DEF BehindKey, AnyEquals
<1>7. IsLine(source, b, e)
  <2>1. ASSUME NEW j \in b .. e - 1 PROVE source[j] # Break
    <3>1. j \in b .. q - 1 \/ j = q \/ j \in q + 1 .. e - 1
      BY <1>3
    <3>. QED  BY <1>3, <1>5, <1>6, <3>1 DEF Equals, Break
  <2>2. b \in 1 .. Len(source) + 1 /\ e \in b .. Len(source) + 1
    BY <1>3
  <2>. QED  BY <1>3, <1>5, <2>1, <2>2 DEF IsLine
<1>8a. PICK k : k = SubSeq(source, b, q - 1)
  OBVIOUS
<1>8. SubSeq(source, b, q - 1) \in Seq(STRING) /\ SubSeq(source, b, q - 1) # <<>> /\ Word \in Seq(STRING)
  <2>1. IsPart(STRING, source, b, q - 1) /\ IsPart(STRING, source, q + 1, e - 1)
    BY <1>3 DEF IsPart
  <2>2. PartFacts(STRING, source, b, q - 1) /\ PartFacts(STRING, source, q + 1, e - 1)
    BY <2>1, PartIs, Zenon
  <2>3. q - 1 # b - 1
    BY <1>3
  <2>. QED  BY <1>5, <2>2, <2>3 DEF PartFacts
<1>9. RowOf(LineAt(source, b)) = Words /\ ~Keyless(LineAt(source, b))
  <2>1. q \in b .. e - 1 /\ b \in b .. q - 1 /\ e # b /\ (q = e - 1 <=> e = q + 1)
    BY <1>3
  <2>2. ~Keyless(LineAt(source, b))
    BY <1>6, <1>7, <2>1, RowOfLine
  <2>3. RowOf(LineAt(source, b)) =
          IF q = e - 1 THEN <<SubSeq(source, b, q - 1)>>
                       ELSE <<SubSeq(source, b, q - 1), SubSeq(source, q + 1, e - 1)>>
    <3>1. \A i \in b .. e - 1 :
            source[i] = Equals /\ (\A j \in b .. i - 1 : source[j] # Equals) =>
              RowOf(LineAt(source, b)) =
                IF i = e - 1 THEN <<SubSeq(source, b, i - 1)>>
                             ELSE <<SubSeq(source, b, i - 1), SubSeq(source, i + 1, e - 1)>>
      BY <1>7, RowOfLine, Zenon
    <3>2. \A j \in b .. q - 1 : source[j] # Equals
      BY <1>6
    <3>. QED  BY <1>3, <2>1, <3>1, <3>2, Zenon
  <2>4. Words = IF Word = <<>> THEN <<SubSeq(source, b, q - 1)>>
                ELSE <<SubSeq(source, b, q - 1), Word>>
    <3>1. row = <<k>> /\ Append(<<k>>, Word) = <<k, Word>>
      BY <1>4, <1>8a, TwoWords
    <3>. QED  BY <1>8a, <3>1 DEF Words
  <2>. QED  BY <1>5, <2>1, <2>2, <2>3, <2>4
<1>10. Words \in CfgRow /\ Words # NoRow
  <2>1. row = <<k>> /\ Append(<<k>>, Word) = <<k, Word>>
    BY <1>4, <1>8a, TwoWords
  <2>2. Words = <<k>> \/ Words = <<k, Word>>
    BY <2>1 DEF Words
  <2>3. k \in Seq(STRING) /\ k # <<>> /\ Word \in Seq(STRING)
    BY <1>8, <1>8a
  <2>4. <<k>> \in CfgRow /\ <<k, Word>> \in CfgRow
    BY <2>3 DEF CfgRow
  <2>5. <<k>> # NoRow /\ <<k, Word>> # NoRow
    BY <2>3 DEF NoRow
  <2>. QED  BY <2>2, <2>4, <2>5
<1>11. Stop \in {AtEnd, Break} /\ (e <= Len(source) => Stop = Break)
  <2>1. e = Len(source) + 1 \/ e <= Len(source)
    BY <1>3
  <2>. QED  BY <1>5, <2>1, Zenon
<1>12. rows' = Append(rows, Words) /\ stage' = "row"
  BY <1>11 DEF ReadWord
<1>13. e <= Len(source) => LeftFrom(e + 1)' /\ end' # AtEnd
  <2>. SUFFICES ASSUME e <= Len(source) PROVE LeftFrom(e + 1)' /\ end' # AtEnd
    OBVIOUS
  <2>1. rest' = SubSeq(source, e + 1, Len(source))
    BY <1>5, Zenon DEF ReadWord
  <2>3. e + 1 \in 1 .. Len(source) + 1
    BY <1>3
  <2>2. end' # AtEnd
    BY <1>11 DEF ReadWord, Left, AtEnd, Break, Space
  <2>. QED  BY <1>3, <2>1, <2>2, <2>3 DEF LeftFrom
<1>14. e = Len(source) + 1 => end' = AtEnd
  BY <1>5 DEF ReadWord, Left
<1>15. PICK r : r = Words
  OBVIOUS
<1>16. LineDone(b, e, r)
  BY <1>3, <1>7, <1>9, <1>10, <1>15 DEF LineDone, BehindKey
<1>. QED  BY <1>3, <1>12, <1>13, <1>14, <1>15, <1>16, LineRead

(* What is told already is not told otherwise by one more row, and memory  *)
(* that runs out tells less, but nothing that is wrong.                    *)
LEMMA StaysTold ==
  ASSUME Told, source \in Seq(STRING), rows \in Seq(CfgRow), short \in BOOLEAN,
         UNCHANGED source, short => short', Visible' = Visible
  PROVE  Told'
<1>1. TheLines' = TheLines
  BY DEF TheLines
<1>2. CASE short' = short
  BY <1>1, <1>2 DEF Told
<1>3. CASE short' # short
  <2>1. ~short /\ Visible = RowsOf(TheLines)
    BY <1>3 DEF Told
  <2>2. IsPrefix(RowsOf(TheLines), RowsOf(TheLines))
    <3>1. Len(RowsOf(TheLines)) <= Len(RowsOf(TheLines))
      <4>1. Visible \in Seq(CfgRow)
        <5>1. CASE Nulls = {}
          BY <5>1 DEF Visible
        <5>2. CASE Nulls # {}
          <6>1. Nulls \in SUBSET Nat /\ \A i \in Nulls : i \in 1 .. Len(rows)
            BY DEF Nulls
          <6>2. Min(Nulls) \in 1 .. Len(rows)
            BY <5>2, <6>1, LeastNatural
          <6>3. IsPart(CfgRow, rows, 1, Min(Nulls) - 1)
            BY <6>2 DEF IsPart
          <6>4. PartFacts(CfgRow, rows, 1, Min(Nulls) - 1)
            BY <6>3, PartIs, Zenon
          <6>. QED  BY <5>2, <6>4 DEF PartFacts, Visible
        <5>. QED  BY <5>1, <5>2
      <4>2. Len(Visible) \in Nat
        BY <4>1
      <4>. QED  BY <2>1, <4>2
    <3>. QED  BY <3>1 DEF IsPrefix
  <2>. QED  BY <1>1, <2>1, <2>2 DEF Told
<1>. QED  BY <1>2, <1>3

LEMMA WordType ==
  ASSUME rest \in Seq(STRING), row \in CfgRow
  PROVE  Word \in Seq(STRING) /\ Beyond \in Seq(STRING) /\ Words \in CfgRow
<1>1. Len(rest) \in Nat /\ \A i \in 1 .. Len(rest) : rest[i] \in STRING
  OBVIOUS
<1>2. Word \in Seq(STRING) /\ Len(Word) \in Nat
  <2>. DEFINE k == IF StopAt = {} THEN Len(rest) ELSE Min(StopAt) - 1
  <2>1. k \in 0 .. Len(rest)
    <3>1. StopAt \in SUBSET Nat /\ \A i \in StopAt : i \in 1 .. Len(rest)
      BY DEF StopAt
    <3>2. StopAt # {} => Min(StopAt) \in 1 .. Len(rest)
      BY <3>1, LeastNatural
    <3>. QED  BY <1>1, <3>2
  <2>. HIDE DEF k
  <2>2. IsPart(STRING, rest, 1, k)
    BY <1>1, <2>1 DEF IsPart
  <2>3. PartFacts(STRING, rest, 1, k)
    BY <2>2, PartIs, Zenon
  <2>4. Word \in Seq(STRING)
    BY <2>3 DEF PartFacts, Word, k
  <2>. QED  BY <2>4
<1>3. Beyond \in Seq(STRING)
  <2>1. Len(Word) + 2 \in Int /\ Len(rest) \in Int
    BY <1>1, <1>2
  <2>2. \A i \in Len(Word) + 2 .. Len(rest) : rest[i] \in STRING
    BY <1>1, <1>2
  <2>. QED  BY <2>1, <2>2, SubSeqProperties DEF Beyond
<1>4. Append(row, Word) \in CfgRow
  BY <1>2 DEF CfgRow
<1>. QED  BY <1>2, <1>3, <1>4 DEF Words

LEMMA WordStep == CfgRead /\ ReadWord => CfgRead'
<1>. SUFFICES ASSUME CfgRead, ReadWord PROVE CfgRead'
  OBVIOUS
<1>1. CfgTyped /\ stage = "word" /\ end # AtEnd /\ UNCHANGED <<source, short>>
  BY DEF CfgRead, CfgTyped, ReadWord
<1>2. source \in Seq(STRING) /\ rows \in Seq(CfgRow) /\ short \in BOOLEAN
  BY <1>1 DEF CfgTyped
<1>2a. Words \in CfgRow /\ rest' \in Seq(STRING) /\ row' \in CfgRow
  <2>1. Words \in CfgRow /\ Beyond \in Seq(STRING) /\ row \in CfgRow
    BY <1>1, WordType DEF CfgTyped
  <2>. QED  BY <2>1 DEF ReadWord
<1>3. stage' \in {"row", "word"} /\ (stage' = "word" => end' # AtEnd)
  <2>1. stage' \in {"row", "word"}
    BY <1>1 DEF ReadWord
  <2>2. ASSUME Stop = AtEnd PROVE stage' = "row"
    BY <2>2 DEF ReadWord
  <2>3. ASSUME Stop # AtEnd PROVE end' # AtEnd
    BY <2>3 DEF ReadWord, Left, Space, AtEnd
  <2>. QED  BY <2>1, <2>2, <2>3
<1>4. CASE Nulls = {}
  <2>1. ~short /\ (IF row = <<>> THEN AtLine ELSE InLine)
    BY <1>1, <1>4 DEF CfgRead, CfgReading
  <2>2. /\ rows' \in Seq(CfgRow) /\ CfgReading'
        /\ end' = AtEnd \/ Nulls' # {} => Told'
    <3>1. CASE row = <<>>
      <4>1. PICK b \in Starts(source) : LeftFrom(b) /\ RowsUpTo(LineOf(b) - 1)
        BY <2>1, <3>1 DEF AtLine
      <4>. QED  BY <1>1, <1>4, <2>1, <3>1, <4>1, FirstWord
    <3>2. CASE row # <<>>
      <4>1. PICK b, q \in Nat : BehindKey(b, q)
        BY <2>1, <3>2 DEF InLine
      <4>. QED  BY <1>1, <1>4, <2>1, <4>1, SecondWord
    <3>. QED  BY <3>1, <3>2
  <2>3. CfgTyped'
    BY <1>1, <1>2, <1>2a, <1>3, <2>2 DEF CfgTyped
  <2>. QED  BY <2>2, <2>3 DEF CfgRead
<1>5. CASE Nulls # {}
  <2>1. Told
    BY <1>1, <1>5 DEF CfgRead
  <2>2. rows' \in Seq(CfgRow) /\ Nulls' # {} /\ Visible' = Visible
    <3>1. CASE rows' = rows
      BY <1>2, <1>5, <3>1 DEF Nulls, Visible
    <3>2. CASE rows' = Append(rows, NoRow)
      <4>1. NoRow \in CfgRow
        BY DEF NoRow, CfgRow
      <4>. QED  BY <1>2, <1>5, <3>2, <4>1, RowAdded
    <3>3. CASE rows' = Append(rows, Words)
      BY <1>2, <1>2a, <1>5, <3>3, RowAdded
    <3>. QED  BY <3>1, <3>2, <3>3 DEF ReadWord
  <2>3. Told'
    BY <1>1, <1>2, <2>1, <2>2, StaysTold
  <2>4. CfgTyped'
    BY <1>1, <1>2, <1>2a, <1>3, <2>2 DEF CfgTyped
  <2>. QED  BY <2>2, <2>3, <2>4 DEF CfgRead, CfgReading
<1>. QED  BY <1>4, <1>5

(* There is no room for a word: the rows end here for whoever walks them.  *)
LEMMA NoRoomStep == CfgRead /\ NoRoomForWord => CfgRead'
<1>. SUFFICES ASSUME CfgRead, NoRoomForWord PROVE CfgRead'
  OBVIOUS
<1>1. /\ stage = "word" /\ end # AtEnd /\ ~short /\ short'
      /\ rows' = Append(rows, NoRow) /\ stage' = "row"
      /\ UNCHANGED <<source, rest, row, end>>
  BY DEF CfgRead, CfgTyped, NoRoomForWord
<1>2. CfgTyped /\ source \in Seq(STRING) /\ rows \in Seq(CfgRow) /\ short \in BOOLEAN
  BY DEF CfgRead, CfgTyped
<1>3. NoRow \in CfgRow
  BY DEF NoRow, CfgRow
<1>4. rows' \in Seq(CfgRow) /\ Nulls' # {}
  BY <1>1, <1>2, <1>3, RowAdded
<1>5. CfgTyped'
  BY <1>1, <1>2, <1>4 DEF CfgTyped, NoRoomForWord
<1>6. TheLines' = TheLines
  BY <1>1 DEF TheLines
<1>7. CASE Nulls = {}
  <2>1. Visible' = rows
    BY <1>1, <1>2, <1>3, <1>7, RowAdded
  <2>2. \E n : RowsUpTo(n)
    <3>1. IF row = <<>> THEN AtLine ELSE InLine
      BY <1>1, <1>7 DEF CfgRead, CfgReading
    <3>. QED  BY <3>1 DEF AtLine, InLine, BehindKey
  <2>3. IsPrefix(rows, RowsOf(TheLines))
    <3>1. PICK n : RowsAre(rows, TheLines, n)
      BY <2>2 DEF RowsUpTo
    <3>2. Len(TheLines) \in Nat /\ DOMAIN TheLines = 1 .. Len(TheLines)
      BY <1>2, LinesAre, StartsArePlaces
    <3>. QED  BY <1>2, <3>1, <3>2, RowsOfLines
  <2>4. Told'
    BY <1>1, <1>6, <2>1, <2>3 DEF Told
  <2>. QED  BY <1>4, <1>5, <2>4 DEF CfgRead, CfgReading
<1>8. CASE Nulls # {}
  <2>1. Told /\ Visible' = Visible
    BY <1>1, <1>2, <1>3, <1>8, RowAdded DEF CfgRead
  <2>2. Told'
    BY <1>1, <1>2, <2>1, StaysTold
  <2>. QED  BY <1>4, <1>5, <2>2 DEF CfgRead, CfgReading
<1>. QED  BY <1>7, <1>8

LEMMA CfgReadStep == CfgRead /\ [CfgNext]_cvars => CfgRead'
<1>. SUFFICES ASSUME CfgRead, [CfgNext]_cvars PROVE CfgRead'
  OBVIOUS
<1>1. CfgTyped /\ source \in Seq(STRING) /\ rows \in Seq(CfgRow) /\ short \in BOOLEAN
  BY DEF CfgRead, CfgTyped
<1>2. CASE Open
  <2>1. stage = "open" /\ stage' \in {"row", "refused"} /\ UNCHANGED <<source, rest, kind, end, row, rows, short>>
    BY <1>2 DEF Open
  <2>2. rest = source /\ rows = <<>> /\ ~short /\ end = ""
    BY <1>1, <2>1 DEF CfgTyped
  <2>3. CfgTyped'
    BY <1>1, <2>1 DEF CfgTyped, AtEnd
  <2>4. AtLine'
    <3>1. 1 \in Starts(source) /\ Len(source) \in Nat
      BY <1>1, StartsArePlaces
    <3>2. SubSeq(source, 1, Len(source)) = source
      BY <1>1, SubSeqFull
    <3>3. LeftFrom(1)'
      <4>1. source' = source /\ rest' = source
        BY <2>1, <2>2, Zenon
      <4>2. 1 \in 1 .. Len(source) + 1
        BY <3>1
      <4>. QED  BY <1>1, <3>2, <4>1, <4>2, Zenon DEF LeftFrom
    <3>4. LineOf(1)' = 1 /\ TheLines' = TheLines /\ Len(TheLines) \in Nat
      BY <1>1, <2>1, <3>1, LineCounts, LinesAre DEF LineOf, TheLines
    <3>5. RowsAre(<<>>, TheLines, 0)
      BY <3>4 DEF RowsAre
    <3>6. RowsUpTo(LineOf(1) - 1)'
      <4>1. rows' = <<>>
        BY <2>1, <2>2, Zenon
      <4>2. LineOf(1)' - 1 = 0
        BY <3>4
      <4>. QED  BY <3>4, <3>5, <4>1, <4>2 DEF RowsUpTo
    <3>7. 1 \in Starts(source)'
      BY <2>1, <3>1
    <3>. QED  BY <3>3, <3>6, <3>7, Zenon DEF AtLine
  <2>5. Nulls' = {} /\ end' # AtEnd
    <3>1. rows' = <<>> /\ end' = ""
      BY <2>1, <2>2, Zenon
    <3>2. Nulls' = {}
      <4>1. DOMAIN <<>> = {}
        OBVIOUS
      <4>. QED  BY <3>1, <4>1, Zenon DEF Nulls
    <3>. QED  BY <3>1, <3>2 DEF AtEnd
  <2>. QED  BY <2>1, <2>2, <2>3, <2>4, <2>5 DEF CfgRead, CfgReading
<1>3. CASE NextRow
  <2>1. /\ stage = "row" /\ end # AtEnd /\ end' = Fresh /\ row' = <<>> /\ stage' = "word"
        /\ UNCHANGED <<source, rest, rows, short>>
    BY <1>3 DEF NextRow
  <2>2. CfgTyped'
    <3>1. <<>> \in CfgRow
      BY DEF CfgRow
    <3>. QED  BY <1>1, <2>1, <3>1 DEF CfgTyped, Fresh, AtEnd
  <2>3. Nulls' = Nulls /\ Visible' = Visible /\ TheLines' = TheLines
    BY <2>1 DEF Nulls, Visible, TheLines
  <2>4. AtLine => AtLine'
    <3>1. \A n : RowsUpTo(n)' = RowsUpTo(n)
      BY <2>1, <2>3 DEF RowsUpTo
    <3>2. \A b : LineOf(b)' = LineOf(b) /\ LeftFrom(b)' = LeftFrom(b)
      BY <2>1 DEF LineOf, LeftFrom
    <3>. QED  BY <2>1, <3>1, <3>2 DEF AtLine
  <2>5. CfgReading'
    BY <2>1, <2>3, <2>4 DEF CfgRead, CfgReading
  <2>6. Nulls # {} => Told'
    BY <2>1, <2>3 DEF CfgRead, Told
  <2>7. end' # AtEnd
    BY <2>1 DEF Fresh, AtEnd
  <2>. QED  BY <2>1, <2>2, <2>3, <2>5, <2>6, <2>7 DEF CfgRead
<1>4. CASE Return \/ ReadFails \/ UNCHANGED cvars
  <2>1. /\ UNCHANGED <<source, rest, end, row, rows, short>>
        /\ stage' = stage \/ (stage = "row" /\ stage' = "returned" /\ end = AtEnd)
    BY <1>4 DEF Return, ReadFails, cvars
  <2>2. Nulls' = Nulls /\ Visible' = Visible /\ TheLines' = TheLines /\ AtLine' = AtLine /\ InLine' = InLine
    BY <2>1, Unread
  <2>3. CfgTyped'
    BY <1>1, <2>1 DEF CfgTyped
  <2>4. Told' = Told
    BY <2>1, <2>2 DEF Told
  <2>5. CfgReading'
    BY <2>1, <2>2 DEF CfgRead, CfgReading
  <2>. QED  BY <2>1, <2>2, <2>3, <2>4, <2>5 DEF CfgRead
<1>5. CASE NoRoomForRow \/ NoRoomForByte
  <2>1. /\ UNCHANGED <<source, rest, end, row, rows>> /\ short' = TRUE
        /\ stage' \in {"refused", "crashed"}
    BY <1>5 DEF NoRoomForRow, NoRoomForByte
  <2>2. short' \in BOOLEAN
    BY <2>1, Zenon
  <2>3. CfgTyped'
    BY <1>1, <2>1, <2>2 DEF CfgTyped
  <2>. QED  BY <2>1, <2>3 DEF CfgRead, CfgReading
<1>. QED  BY <1>2, <1>3, <1>4, <1>5, WordStep, NoRoomStep DEF CfgNext, CfgStep

(* One row per line of a .cfg file (reader_cfg.h:4-5), in its place and    *)
(* split at the first =, up to a line without a key and no further than    *)
(* memory lasts: for every text, however many lines it has and however     *)
(* long they are.                                                          *)
THEOREM RowsAreTheLines == CfgInit /\ [][CfgNext]_cvars => []LinesAreRows
<1>1. CfgRead => LinesAreRows
  BY DEF CfgRead, CfgTyped, Told, TheLines, LinesAreRows
<1>. QED  BY <1>1, CfgReadInit, CfgReadStep, PTL

----------------------------------------------------------------------------
(***************************************************************************)
(* The command lines. A line is split from one word to the next; the words *)
(* are where one begins, and each is expanded on its own.                  *)
(***************************************************************************)
(* How many bytes a text has.                                              *)
PlaceHolders == {"{src}", "{bin}"}

LEMMA StrLenIs ==
  /\ StrLen(<<>>) = 0
  /\ \A u : StrLen(<<u>>) = IF u \in PlaceHolders THEN 5 ELSE 1
  /\ \A s \in Seq(STRING) : \A t \in Seq(STRING) : StrLen(s \o t) = StrLen(s) + StrLen(t)
  /\ \A s \in Seq(STRING) : StrLen(s) \in Nat
<1>1. \A s : StrLen(s) = Len(s) + 4 * CountIn(s, PlaceHolders)
  BY DEF StrLen, CountIn, PlaceHolders
<1>2. StrLen(<<>>) = 0
  BY <1>1, CountEmpty
<1>3. ASSUME NEW u PROVE StrLen(<<u>>) = IF u \in PlaceHolders THEN 5 ELSE 1
  <2>1. Len(<<u>>) = 1
    OBVIOUS
  <2>2. CountIn(<<u>>, PlaceHolders) = IF u \in PlaceHolders THEN 1 ELSE 0
    BY CountOne
  <2>3. StrLen(<<u>>) = Len(<<u>>) + 4 * CountIn(<<u>>, PlaceHolders)
    BY <1>1
  <2>4. CASE u \in PlaceHolders
    BY <2>1, <2>2, <2>3, <2>4
  <2>5. CASE u \notin PlaceHolders
    BY <2>1, <2>2, <2>3, <2>5
  <2>. QED  BY <2>4, <2>5
<1>4. ASSUME NEW s \in Seq(STRING) PROVE CountIn(s, PlaceHolders) \in Nat /\ StrLen(s) \in Nat
  <2>1. CountIn(s, PlaceHolders) \in Nat
    BY CountType
  <2>2. StrLen(s) = Len(s) + 4 * CountIn(s, PlaceHolders)
    BY <1>1
  <2>. QED  BY <2>1, <2>2
<1>5. ASSUME NEW s \in Seq(STRING), NEW t \in Seq(STRING) PROVE StrLen(s \o t) = StrLen(s) + StrLen(t)
  <2>1. Len(s \o t) = Len(s) + Len(t) /\ Len(s) \in Nat /\ Len(t) \in Nat
    OBVIOUS
  <2>2. CountIn(s \o t, PlaceHolders) = CountIn(s, PlaceHolders) + CountIn(t, PlaceHolders)
    BY CountConcat
  <2>3. /\ StrLen(s) = Len(s) + 4 * CountIn(s, PlaceHolders)
        /\ StrLen(t) = Len(t) + 4 * CountIn(t, PlaceHolders)
        /\ StrLen(s \o t) = Len(s \o t) + 4 * CountIn(s \o t, PlaceHolders)
    BY <1>1
  <2>4. CountIn(s, PlaceHolders) \in Nat /\ CountIn(t, PlaceHolders) \in Nat
    BY <1>4
  <2>. QED  BY <2>1, <2>2, <2>3, <2>4
<1>. QED  BY <1>2, <1>3, <1>4, <1>5

----------------------------------------------------------------------------
(* str_replace, and the two of them in a row.                              *)
Replacing(what, with) == [u \in STRING |-> IF u = what THEN with ELSE <<u>>]

LEMMA ReplaceIs ==
  ASSUME NEW what, NEW with \in Seq(STRING), NEW s \in Seq(STRING)
  PROVE  /\ Replacing(what, with) \in [STRING -> Seq(STRING)]
         /\ StrReplace(s, what, with) = Turned(Replacing(what, with), s)
         /\ StrReplace(s, what, with) \in Seq(STRING)
<1>. DEFINE f == Replacing(what, with)
<1>1. f \in [STRING -> Seq(STRING)]
  <2>1. ASSUME NEW u \in STRING PROVE (IF u = what THEN with ELSE <<u>>) \in Seq(STRING)
    BY OneUnit, Zenon
  <2>. QED  BY <2>1, Zenon DEF Replacing
<1>0. \A i \in DOMAIN s : f[s[i]] = IF s[i] = what THEN with ELSE <<s[i]>>
  <2>1. \A i \in DOMAIN s : s[i] \in STRING
    OBVIOUS
  <2>. QED  BY <2>1 DEF Replacing
<1>2. [i \in DOMAIN s |-> IF s[i] = what THEN with ELSE <<s[i]>>] = [i \in DOMAIN s |-> f[s[i]]]
  BY <1>0, Zenon
<1>3. StrReplace(s, what, with) = Turned(f, s)
  BY <1>2 DEF StrReplace, Turned
<1>. HIDE DEF f
<1>4. Turned(f, s) \in Seq(STRING)
  BY <1>1, TurnedType
<1>. QED  BY <1>1, <1>3, <1>4 DEF f

(* str_replace counts what it writes, to the byte.                         *)
LEMMA SizeIs ==
  ASSUME NEW what \in PlaceHolders, NEW with \in Seq(STRING), NEW s \in Seq(STRING)
  PROVE  Size(s, what, with) = StrLen(StrReplace(s, what, with)) + 1
<1>. DEFINE f == Replacing(what, with)
            k == StrLen(with) - 5
            S == {r \in Seq(STRING) : StrLen(Turned(f, r)) = StrLen(r) + CountIn(r, {what}) * k}
<1>1. f \in [STRING -> Seq(STRING)]
  BY ReplaceIs
<1>2. StrLen(<<what>>) = 5 /\ k \in Int /\ StrLen(with) \in Nat
  BY StrLenIs
<1>3. \A u \in STRING : f[u] = IF u = what THEN with ELSE <<u>>
  BY DEF Replacing
<1>. HIDE DEF f, k
<1>4. <<>> \in S
  <2>1. Turned(f, <<>>) = <<>>
    BY TurnedEmpty
  <2>2. CountIn(<<>>, {what}) * k = 0
    BY <1>2, CountEmpty
  <2>3. StrLen(<<>>) = 0 /\ <<>> \in Seq(STRING)
    BY StrLenIs
  <2>4. StrLen(Turned(f, <<>>)) = StrLen(<<>>) + CountIn(<<>>, {what}) * k
    BY <2>1, <2>2, <2>3
  <2>. QED  BY <2>3, <2>4, Zenon
<1>5. ASSUME NEW r \in Seq(STRING), NEW u \in STRING, r \in S PROVE Append(r, u) \in S
  <2>. DEFINE c == CountIn(r, {what})
              t == Append(r, u)
  <2>1. Turned(f, t) = Turned(f, r) \o f[u] /\ Turned(f, r) \in Seq(STRING) /\ f[u] \in Seq(STRING)
    <3>1. f[u] \in Seq(STRING)
      BY <1>1
    <3>. QED  BY <1>1, <3>1, TurnedAppend, TurnedType, Zenon
  <2>2. t \in Seq(STRING) /\ t = r \o <<u>> /\ <<u>> \in Seq(STRING)
    <3>1. t \in Seq(STRING) /\ <<u>> \in Seq(STRING)
      <4>1. t \in Seq(STRING)
        BY OneMoreUnit, Zenon
      <4>. QED  BY <4>1, OneUnit, Zenon
    <3>2. t = r \o <<u>>
      BY AppendIsConcat, Zenon
    <3>. QED  BY <3>1, <3>2
  <2>3. StrLen(Turned(f, t)) = StrLen(Turned(f, r)) + StrLen(f[u])
    BY <2>1, StrLenIs
  <2>4. StrLen(t) = StrLen(r) + StrLen(<<u>>)
    BY <2>2, StrLenIs
  <2>5. StrLen(Turned(f, r)) = StrLen(r) + c * k
    BY <1>5
  <2>6. CountIn(t, {what}) = c + (IF u \in {what} THEN 1 ELSE 0)
    BY CountAppend
  <2>7. c \in Nat /\ StrLen(r) \in Nat /\ StrLen(<<u>>) \in Nat /\ k \in Int /\ (c + 1) * k = c * k + k
    <3>1. c \in Nat
      BY CountType
    <3>2. StrLen(r) \in Nat /\ StrLen(<<u>>) \in Nat
      BY <2>2, StrLenIs
    <3>. HIDE DEF c
    <3>. QED  BY <1>2, <3>1, <3>2
  <2>8. StrLen(Turned(f, t)) = StrLen(t) + CountIn(t, {what}) * k
    <3>1. CASE u = what
      <4>1. CountIn(t, {what}) = c + 1
        BY <2>6, <3>1
      <4>2. StrLen(f[u]) = k + 5 /\ StrLen(<<u>>) = 5
        <5>1. f[u] = with /\ <<u>> = <<what>>
          BY <1>3, <3>1
        <5>2. StrLen(with) = k + 5
          BY <1>2 DEF k
        <5>. QED  BY <1>2, <5>1, <5>2
      <4>. HIDE DEF c, t
      <4>3. c * k \in Int
        BY <2>7
      <4>. QED  BY <2>3, <2>4, <2>5, <2>7, <4>1, <4>2, <4>3
    <3>2. CASE u # what
      <4>1. CountIn(t, {what}) = c
        BY <2>6, <2>7, <3>2
      <4>2. f[u] = <<u>>
        BY <1>3, <3>2
      <4>. HIDE DEF c, t
      <4>3. c * k \in Int
        BY <2>7
      <4>. QED  BY <2>3, <2>4, <2>5, <2>7, <4>1, <4>2, <4>3
    <3>. QED  BY <3>1, <3>2
  <2>. QED  BY <2>2, <2>8, Zenon
<1>. HIDE DEF S
<1>6. s \in S
  BY <1>4, <1>5, SequencesAll
<1>7. StrLen(Turned(f, s)) = StrLen(s) + CountIn(s, {what}) * k
  BY <1>6 DEF S
<1>8. Size(s, what, with) = StrLen(s) + 1 + CountIn(s, {what}) * (StrLen(with) - StrLen(<<what>>))
  <2>1. {i \in DOMAIN s : s[i] = what} = {i \in DOMAIN s : s[i] \in {what}}
    OBVIOUS
  <2>. QED  BY <2>1 DEF Size, CountIn
<1>9. StrReplace(s, what, with) = Turned(f, s)
  BY ReplaceIs DEF f
<1>10. StrLen(s) \in Nat /\ CountIn(s, {what}) * k \in Int
  <2>1. CountIn(s, {what}) \in Nat
    BY CountType
  <2>. QED  BY <1>2, <2>1, StrLenIs
<1>11. Size(s, what, with) = StrLen(s) + 1 + CountIn(s, {what}) * k
  BY <1>2, <1>8 DEF k
<1>. QED  BY <1>7, <1>9, <1>10, <1>11

LEMMA NotContained ==
  ASSUME NEW s \in Seq(STRING), NEW u, ~Contains(s, u)
  PROVE  \A i \in 1 .. Len(s) : s[i] # u
BY DEF Contains

Meaning(forSrc, forBin) ==
  [u \in STRING |-> IF u = "{src}" THEN forSrc ELSE IF u = "{bin}" THEN forBin ELSE <<u>>]

(* A word with its placeholders replaced one after the other is the word   *)
(* with each of them replaced by what it stands for.                       *)
LEMMA ReplacedTwice ==
  ASSUME NEW s \in Seq(STRING), NEW forSrc \in Seq(STRING), NEW forBin \in Seq(STRING),
         ~Contains(forSrc, "{bin}")
  PROVE  StrReplace(StrReplace(s, "{src}", forSrc), "{bin}", forBin) = Turned(Meaning(forSrc, forBin), s)
<1>. DEFINE f == Replacing("{src}", forSrc)
            g == Replacing("{bin}", forBin)
            h == Meaning(forSrc, forBin)
<1>1. f \in [STRING -> Seq(STRING)] /\ g \in [STRING -> Seq(STRING)]
  BY ReplaceIs
<1>2. h \in [STRING -> Seq(STRING)]
  <2>1. ASSUME NEW u \in STRING
        PROVE  (IF u = "{src}" THEN forSrc ELSE IF u = "{bin}" THEN forBin ELSE <<u>>) \in Seq(STRING)
    BY OneUnit, Zenon
  <2>. QED  BY <2>1, Zenon DEF Meaning
<1>3. \A u \in STRING : f[u] = IF u = "{src}" THEN forSrc ELSE <<u>>
  BY DEF Replacing
<1>4. \A u \in STRING : g[u] = IF u = "{bin}" THEN forBin ELSE <<u>>
  BY DEF Replacing
<1>5. \A u \in STRING : h[u] = IF u = "{src}" THEN forSrc ELSE IF u = "{bin}" THEN forBin ELSE <<u>>
  BY DEF Meaning
<1>. HIDE DEF f, g, h
<1>6. ASSUME NEW u \in STRING PROVE Turned(g, f[u]) = h[u]
  <2>1. CASE u = "{src}"
    <3>1. f[u] = forSrc /\ h[u] = forSrc
      BY <1>3, <1>5, <2>1
    <3>2. \A i \in 1 .. Len(forSrc) : g[forSrc[i]] = <<forSrc[i]>>
      <4>1. \A i \in 1 .. Len(forSrc) : forSrc[i] # "{bin}"
        BY NotContained
      <4>2. \A i \in 1 .. Len(forSrc) : forSrc[i] \in STRING
        BY ElementOfSeq, Zenon
      <4>. QED  BY <1>4, <4>1, <4>2, Zenon
    <3>3. Turned(g, forSrc) = forSrc
      BY <1>1, <3>2, TurnedKept
    <3>. QED  BY <3>1, <3>3
  <2>2. CASE u # "{src}"
    <3>1. f[u] = <<u>> /\ h[u] = g[u]
      BY <1>3, <1>4, <1>5, <2>2
    <3>2. Turned(g, <<u>>) = g[u]
      BY <1>1, TurnedOne
    <3>. QED  BY <3>1, <3>2
  <2>. QED  BY <2>1, <2>2
<1>7. Turned(g, Turned(f, s)) = Turned(h, s)
  <2>1. Composes(STRING, f, g, h)
    BY <1>1, <1>2, <1>6, Zenon DEF Composes
  <2>2. ComeTo(f, g, h, s)
    BY <2>1, TurnedTwice, Zenon
  <2>. QED  BY <2>2, Zenon DEF ComeTo
<1>8. StrReplace(s, "{src}", forSrc) = Turned(f, s) /\ Turned(f, s) \in Seq(STRING)
  BY ReplaceIs DEF f
<1>9. StrReplace(Turned(f, s), "{bin}", forBin) = Turned(g, Turned(f, s))
  BY <1>8, ReplaceIs DEF g
<1>. QED  BY <1>7, <1>8, <1>9 DEF h

LEMMA MeantWordIs ==
  ASSUME src \in Seq(STRING), bin \in Seq(STRING), NEW s \in Seq(STRING)
  PROVE  MeantWord(s) = Turned(Meaning(src, bin), s)
<1>1. \A i \in DOMAIN s : Meaning(src, bin)[s[i]] = Meant(s[i])
  <2>1. \A i \in DOMAIN s : s[i] \in STRING
    OBVIOUS
  <2>. QED  BY <2>1 DEF Meaning, Meant
<1>2. [i \in DOMAIN s |-> Meaning(src, bin)[s[i]]] = [k \in DOMAIN s |-> Meant(s[k])]
  BY <1>1, Zenon
<1>. QED  BY <1>2 DEF MeantWord, Turned

----------------------------------------------------------------------------
(* argv_split: where the words of a line begin and end.                    *)
BeginsOf(c) == {i \in DOMAIN c : c[i] \notin Gap /\ (i = 1 \/ c[i - 1] \in Gap)}

(* The word that begins at m ends before e.                                *)
IsWord(c, m, e) ==
  /\ m \in 1 .. Len(c) /\ e \in m + 1 .. Len(c) + 1
  /\ \A k \in m .. e - 1 : c[k] \notin Gap
  /\ e <= Len(c) => c[e] \in Gap

WordOf(c, i) ==
  LET after == {k \in i .. Len(c) : c[k] \in Gap}
  IN  SubSeq(c, i, IF after = {} THEN Len(c) ELSE Min(after) - 1)

(* The line is read up to a, where the last word has ended.                *)
ReadTo(c, ahead, a) ==
  /\ a \in 1 .. Len(c) + 1 /\ ahead = SubSeq(c, a, Len(c))
  /\ a = 1 \/ a = Len(c) + 1 \/ c[a] \in Gap

LEMMA BeginsArePlaces ==
  ASSUME NEW c \in Seq(STRING)
  PROVE  IsPlaces(BeginsOf(c)) /\ \A i \in BeginsOf(c) : i \in 1 .. Len(c)
<1>1. Len(c) \in Nat /\ DOMAIN c = 1 .. Len(c)
  OBVIOUS
<1>2. BeginsOf(c) \subseteq 1 .. Len(c)
  BY <1>1 DEF BeginsOf
<1>3. IsFiniteSet(1 .. Len(c))
  BY <1>1, FS_Interval
<1>4. IsFiniteSet(BeginsOf(c))
  BY <1>2, <1>3, FS_Subset
<1>5. BeginsOf(c) \in SUBSET (Nat \ {0})
  BY <1>1, <1>2
<1>. QED  BY <1>2, <1>4, <1>5 DEF IsPlaces

LEMMA WordOfIs ==
  ASSUME NEW c \in Seq(STRING), NEW m, NEW e, IsWord(c, m, e)
  PROVE  /\ WordOf(c, m) = SubSeq(c, m, e - 1)
         /\ SubSeq(c, m, e - 1) \in Seq(STRING) /\ SubSeq(c, m, e - 1) # NoWord
<1>1. /\ Len(c) \in Nat /\ m \in Nat \ {0} /\ e \in Nat /\ m < e
      /\ m <= Len(c) /\ e <= Len(c) + 1
      /\ (\A k \in m .. e - 1 : c[k] \notin Gap) /\ (e <= Len(c) => c[e] \in Gap)
  BY DEF IsWord
<1>. DEFINE after == {k \in m .. Len(c) : c[k] \in Gap}
<1>2. after \in SUBSET Nat /\ \A k \in after : e <= k
  <2>1. ASSUME NEW k \in after PROVE e <= k
    <3>. SUFFICES ASSUME k < e PROVE FALSE
      BY <1>1
    <3>1. k \in m .. e - 1 /\ c[k] \in Gap
      BY <1>1
    <3>. QED  BY <1>1, <3>1
  <2>. QED  BY <1>1, <2>1
<1>3. ASSUME e <= Len(c) PROVE WordOf(c, m) = SubSeq(c, m, e - 1)
  <2>1. e \in after
    BY <1>1, <1>3
  <2>2. Min(after) = e
    <3>. HIDE DEF after
    <3>1. Min(after) \in after /\ Min(after) <= e
      BY <1>2, <2>1, LeastNatural
    <3>2. Min(after) \in Nat /\ e <= Min(after)
      BY <1>2, <3>1
    <3>. QED  BY <1>1, <3>1, <3>2
  <2>. HIDE DEF after
  <2>. QED  BY <2>1, <2>2 DEF WordOf, after
<1>4. ASSUME e = Len(c) + 1 PROVE WordOf(c, m) = SubSeq(c, m, e - 1)
  <2>1. after = {}
    BY <1>1, <1>2, <1>4
  <2>2. e - 1 = Len(c)
    BY <1>1, <1>4
  <2>. HIDE DEF after
  <2>. QED  BY <2>1, <2>2 DEF WordOf, after
<1>5. SubSeq(c, m, e - 1) \in Seq(STRING) /\ SubSeq(c, m, e - 1) # NoWord
  <2>1. IsPart(STRING, c, m, e - 1)
    BY <1>1 DEF IsPart
  <2>2. PartFacts(STRING, c, m, e - 1)
    BY <2>1, PartIs, Zenon
  <2>3. m # e
    BY <1>1
  <2>4. e - 1 # m - 1
    BY <1>1, <2>3
  <2>. QED  BY <2>2, <2>4, Zenon DEF PartFacts, NoWord
<1>. HIDE DEF after
<1>. QED  BY <1>1, <1>3, <1>4, <1>5

(* What SplitWord takes is the next word of the line.                      *)
LEMMA NextWord ==
  ASSUME command \in Seq(STRING), NEW a, ReadTo(command, p, a), Solid # {}
  PROVE  \E m, e : /\ IsWord(command, m, e) /\ a <= m
                   /\ \A k \in a .. m - 1 : command[k] \in Gap
                   /\ TakenWord = SubSeq(command, m, e - 1)
                   /\ SubSeq(p, WordEnd, Len(p)) = SubSeq(command, e, Len(command))
<1>. DEFINE n == Len(command)
<1>1. /\ n \in Nat /\ a \in Nat \ {0} /\ a <= n + 1 /\ p = SubSeq(command, a, n)
      /\ IsPart(STRING, command, a, n)
  BY DEF ReadTo, IsPart
<1>2. PartFacts(STRING, command, a, n)
  BY <1>1, PartIs, Zenon
<1>3. /\ p \in Seq(STRING) /\ Len(p) = n + 1 - a /\ DOMAIN p = 1 .. n + 1 - a
      /\ \A i \in 1 .. n + 1 - a : p[i] = command[a + i - 1]
  <2>1. /\ p \in Seq(STRING) /\ Len(p) = n + 1 - a
        /\ \A i \in 1 .. n + 1 - a : p[i] = command[a + i - 1]
    BY <1>1, <1>2 DEF PartFacts
  <2>2. DOMAIN p = 1 .. Len(p)
    BY <2>1, LenProperties
  <2>. QED  BY <2>1, <2>2
<1>4. /\ Start \in 1 .. n + 1 - a /\ p[Start] \notin Gap
      /\ \A i \in 1 .. Start - 1 : p[i] \in Gap
  <2>1. Solid \in SUBSET Nat
    BY <1>3 DEF Solid
  <2>2. Start \in Solid /\ \A i \in Solid : Start <= i
    BY <2>1, LeastNatural DEF Start
  <2>3. Start \in 1 .. n + 1 - a /\ p[Start] \notin Gap
    BY <1>3, <2>2 DEF Solid
  <2>4. ASSUME NEW i \in 1 .. Start - 1 PROVE p[i] \in Gap
    <3>. SUFFICES ASSUME p[i] \notin Gap PROVE FALSE
      OBVIOUS
    <3>1. i \in DOMAIN p /\ ~(Start <= i)
      BY <1>1, <1>3, <2>3
    <3>2. i \in Solid
      BY <3>1 DEF Solid
    <3>. QED  BY <2>2, <3>1, <3>2
  <2>. QED  BY <2>3, <2>4
<1>. DEFINE s == Start
            w == WordEnd
<1>5. /\ w \in s + 1 .. n + 2 - a
      /\ \A i \in s .. w - 1 : p[i] \notin Gap
      /\ w <= n + 1 - a => p[w] \in Gap
  <2>1. Gaps = {i \in s .. n + 1 - a : p[i] \in Gap} /\ Gaps \in SUBSET Nat
    BY <1>1, <1>3, <1>4 DEF Gaps
  <2>2. CASE Gaps = {}
    <3>1. w = n + 2 - a
      BY <1>1, <1>3, <2>2 DEF WordEnd
    <3>2. \A i \in s .. n + 1 - a : p[i] \notin Gap
      BY <2>1, <2>2
    <3>. HIDE DEF s, w
    <3>3. s \in 1 .. n + 1 - a
      BY <1>4 DEF s
    <3>4. w - 1 = n + 1 - a /\ w \in s + 1 .. n + 2 - a /\ ~(w <= n + 1 - a)
      BY <1>1, <3>1, <3>3
    <3>. QED  BY <3>2, <3>4
  <2>3. CASE Gaps # {}
    <3>1. w = Min(Gaps) /\ Min(Gaps) \in Gaps /\ \A i \in Gaps : Min(Gaps) <= i
      BY <2>1, <2>3, LeastNatural DEF WordEnd
    <3>2. w \in s .. n + 1 - a /\ p[w] \in Gap
      BY <2>1, <3>1
    <3>3. w # s
      BY <1>4, <3>2
    <3>4. ASSUME NEW i \in s .. w - 1 PROVE p[i] \notin Gap
      <4>. SUFFICES ASSUME p[i] \in Gap PROVE FALSE
        OBVIOUS
      <4>1. i \in s .. n + 1 - a /\ ~(w <= i)
        BY <1>1, <1>4, <3>2
      <4>2. i \in Gaps
        BY <2>1, <4>1
      <4>. QED  BY <3>1, <4>1, <4>2
    <3>. HIDE DEF s, w
    <3>5. s \in 1 .. n + 1 - a
      BY <1>4 DEF s
    <3>6. w \in s + 1 .. n + 2 - a
      BY <1>1, <3>2, <3>3, <3>5
    <3>. QED  BY <3>2, <3>4, <3>6
  <2>. QED  BY <2>2, <2>3
<1>6. s \in 1 .. n + 1 - a
  BY <1>4
<1>. DEFINE m == a + s - 1
            e == a + w - 1
<1>7. TakenWord = SubSeq(command, m, e - 1)
  <2>1. IsInner(STRING, command, a, n, s, w - 1)
    <3>. HIDE DEF s, w
    <3>. QED  BY <1>1, <1>5, <1>6 DEF IsInner
  <2>2. SubSeq(SubSeq(command, a, n), s, w - 1) = SubSeq(command, a + s - 1, a + (w - 1) - 1)
    <3>1. InnerFact(command, a, n, s, w - 1)
      BY <2>1, PartOfPart, Zenon
    <3>. QED  BY <3>1, Zenon DEF InnerFact
  <2>3. a + (w - 1) - 1 = e - 1
    <3>. HIDE DEF s, w
    <3>. QED  BY <1>1, <1>5, <1>6
  <2>. HIDE DEF e
  <2>. QED  BY <1>1, <2>2, <2>3 DEF TakenWord
<1>8. SubSeq(p, WordEnd, Len(p)) = SubSeq(command, e, n)
  <2>1. IsInner(STRING, command, a, n, w, n + 1 - a)
    <3>. HIDE DEF s, w
    <3>. QED  BY <1>1, <1>5, <1>6 DEF IsInner
  <2>2. SubSeq(SubSeq(command, a, n), w, n + 1 - a) = SubSeq(command, a + w - 1, a + (n + 1 - a) - 1)
    <3>1. InnerFact(command, a, n, w, n + 1 - a)
      BY <2>1, PartOfPart, Zenon
    <3>. QED  BY <3>1, Zenon DEF InnerFact
  <2>3. a + (n + 1 - a) - 1 = n
    BY <1>1
  <2>. QED  BY <1>1, <1>3, <2>2, <2>3
<1>. HIDE DEF s, w
<1>9. a <= m /\ \A k \in a .. m - 1 : command[k] \in Gap
  <2>1. ASSUME NEW k \in a .. m - 1 PROVE command[k] \in Gap
    <3>1. k - a + 1 \in 1 .. s - 1 /\ k - a + 1 \in 1 .. n + 1 - a /\ a + (k - a + 1) - 1 = k
      BY <1>1, <1>6
    <3>2. p[k - a + 1] = command[k]
      BY <1>3, <3>1
    <3>. QED  BY <1>4, <3>1, <3>2 DEF s
  <2>. QED  BY <1>1, <1>6, <2>1
<1>10. IsWord(command, m, e)
  <2>1. m \in 1 .. n /\ e \in m + 1 .. n + 1
    BY <1>1, <1>5, <1>6
  <2>2. ASSUME NEW k \in m .. e - 1 PROVE command[k] \notin Gap
    <3>1. k - a + 1 \in s .. w - 1 /\ k - a + 1 \in 1 .. n + 1 - a /\ a + (k - a + 1) - 1 = k
      BY <1>1, <1>5, <1>6
    <3>2. p[k - a + 1] = command[k]
      BY <1>3, <3>1
    <3>. QED  BY <1>5, <3>1, <3>2
  <2>3. ASSUME e <= n PROVE command[e] \in Gap
    <3>1. w \in 1 .. n + 1 - a
      BY <1>1, <1>5, <1>6, <2>3
    <3>. QED  BY <1>3, <1>5, <3>1
  <2>. QED  BY <2>1, <2>2, <2>3 DEF IsWord
<1>. HIDE DEF m, e
<1>. QED  BY <1>7, <1>8, <1>9, <1>10

(* Which begins of a line are the ones behind a, and when there is none.   *)
LEMMA NextBegin ==
  ASSUME NEW c \in Seq(STRING), NEW ahead, NEW a, ReadTo(c, ahead, a), NEW m, NEW e,
         IsWord(c, m, e), a <= m, \A k \in a .. m - 1 : c[k] \in Gap
  PROVE  /\ IsNext(BeginsOf(c), a - 1, m, e - 1)
         /\ a - 1 \in Nat /\ e - 1 \in Nat /\ m \in BeginsOf(c)
         /\ ReadTo(c, SubSeq(c, e, Len(c)), e)
<1>1. /\ Len(c) \in Nat /\ DOMAIN c = 1 .. Len(c) /\ a \in Nat \ {0} /\ a <= Len(c) + 1
      /\ a = 1 \/ a = Len(c) + 1 \/ c[a] \in Gap
  BY DEF ReadTo
<1>2. /\ m \in Nat \ {0} /\ e \in Nat /\ m < e /\ m <= Len(c) /\ e <= Len(c) + 1
      /\ (\A k \in m .. e - 1 : c[k] \notin Gap) /\ (e <= Len(c) => c[e] \in Gap)
  BY <1>1 DEF IsWord
<1>3. m \in BeginsOf(c)
  <2>1. c[m] \notin Gap
    BY <1>2
  <2>2. m = 1 \/ c[m - 1] \in Gap
    <3>1. CASE a = m
      BY <1>1, <1>2, <2>1, <3>1
    <3>2. CASE a < m
      <4>1. m - 1 \in a .. m - 1
        BY <1>1, <1>2, <3>2
      <4>. QED  BY <4>1
    <3>. QED  BY <1>1, <1>2, <3>1, <3>2
  <2>. QED  BY <1>1, <1>2, <2>1, <2>2 DEF BeginsOf
<1>4. ASSUME NEW i \in BeginsOf(c) PROVE (i <= a - 1 \/ m <= i) /\ (i <= m \/ e - 1 < i)
  <2>1. i \in 1 .. Len(c) /\ c[i] \notin Gap /\ (i = 1 \/ c[i - 1] \in Gap)
    BY <1>1 DEF BeginsOf
  <2>2. i <= a - 1 \/ m <= i
    <3>. SUFFICES ASSUME a <= i, i <= m - 1 PROVE FALSE
      BY <1>1, <1>2, <2>1
    <3>1. i \in a .. m - 1
      BY <1>1, <1>2, <2>1
    <3>. QED  BY <2>1, <3>1
  <2>3. i <= m \/ e - 1 < i
    <3>. SUFFICES ASSUME m < i, i <= e - 1 PROVE FALSE
      BY <1>1, <1>2, <2>1
    <3>1. i - 1 \in m .. e - 1 /\ i # 1
      BY <1>1, <1>2, <2>1
    <3>. QED  BY <1>2, <2>1, <3>1
  <2>. QED  BY <2>2, <2>3
<1>5. IsNext(BeginsOf(c), a - 1, m, e - 1)
  BY <1>1, <1>2, <1>3, <1>4 DEF IsNext
<1>6. ReadTo(c, SubSeq(c, e, Len(c)), e)
  <2>1. e \in 1 .. Len(c) + 1
    BY <1>1, <1>2
  <2>2. e = Len(c) + 1 \/ c[e] \in Gap
    BY <1>1, <1>2
  <2>. QED  BY <2>1, <2>2, Zenon DEF ReadTo
<1>. QED  BY <1>1, <1>2, <1>3, <1>5, <1>6

LEMMA NoMoreBegins ==
  ASSUME command \in Seq(STRING), NEW a, ReadTo(command, p, a), Solid = {}
  PROVE  a - 1 \in Nat /\ \A i \in BeginsOf(command) : i <= a - 1
<1>. DEFINE n == Len(command)
<1>1. /\ n \in Nat /\ a \in Nat \ {0} /\ a <= n + 1 /\ p = SubSeq(command, a, n)
      /\ IsPart(STRING, command, a, n) /\ DOMAIN command = 1 .. n
  BY DEF ReadTo, IsPart
<1>2. PartFacts(STRING, command, a, n)
  BY <1>1, PartIs, Zenon
<1>3. /\ p \in Seq(STRING) /\ Len(p) = n + 1 - a
      /\ \A i \in 1 .. n + 1 - a : p[i] = command[a + i - 1]
  BY <1>1, <1>2 DEF PartFacts
<1>4. DOMAIN p = 1 .. n + 1 - a
  <2>1. DOMAIN p = 1 .. Len(p)
    BY <1>3, LenProperties
  <2>. QED  BY <1>3, <2>1
<1>5. ASSUME NEW i \in BeginsOf(command), ~(i <= a - 1) PROVE FALSE
  <2>1. i \in 1 .. n /\ command[i] \notin Gap
    BY <1>1 DEF BeginsOf
  <2>2. i - a + 1 \in 1 .. n + 1 - a /\ a + (i - a + 1) - 1 = i
    BY <1>1, <1>5, <2>1
  <2>3. p[i - a + 1] \notin Gap
    BY <1>3, <2>1, <2>2
  <2>4. i - a + 1 \in Solid
    BY <1>4, <2>2, <2>3 DEF Solid
  <2>. QED  BY <2>4
<1>. QED  BY <1>1, <1>5

----------------------------------------------------------------------------
(* The words there are so far: as many as begin before a, each of them the *)
(* word of the line, or NULL if there was no room for it.                  *)
IsTheWord(word, c, i) ==
  i \in BeginsOf(c) /\ word = WordOf(c, i) /\ word \in Seq(STRING) /\ word # NoWord

WordTold(word, c, i, hungry) ==
  \E meant : IsTheWord(meant, c, i) /\ (word = meant \/ (hungry = TRUE /\ word = NoWord))

WordsTold(words, c, hungry) ==
  /\ words \in Seq(Seq(STRING))
  /\ \A k \in 1 .. Len(words) : WordTold(words[k], c, Nth(BeginsOf(c), k), hungry)

WordsRead(words, c, ahead, hungry) ==
  /\ WordsTold(words, c, hungry)
  /\ \E a : ReadTo(c, ahead, a) /\ Len(words) = CountTo(BeginsOf(c), a - 1)

(* The words with the paths in them, as many as there are so far.          *)
PathsTold(new, words, forSrc, forBin, hungry) ==
  /\ new \in Seq(Seq(STRING)) /\ Len(new) <= Len(Seen(words))
  /\ \A k \in 1 .. Len(new) :
       \/ new[k] = StrReplace(StrReplace(words[k], "{src}", forSrc), "{bin}", forBin)
       \/ hungry = TRUE /\ new[k] = NoWord

Whole(words, c, hungry) ==
  WordsTold(words, c, hungry) /\ Len(words) = Cardinality(BeginsOf(c))

CommandType ==
  /\ command \in Seq(STRING) /\ src \in Seq(STRING) /\ bin \in Seq(STRING)
  /\ starved \in BOOLEAN /\ expanded \in Seq(Seq(STRING))

CommandInv ==
  /\ CommandType
  /\ phase = "split" => expanded = <<>> /\ WordsRead(argv, command, p, starved)
  /\ phase \in {"expand", "ready"} =>
       Whole(argv, command, starved) /\ PathsTold(expanded, argv, src, bin, starved)
  /\ phase = "ready" => Len(expanded) = Len(Seen(argv))

LEMMA SeenIs ==
  ASSUME NEW words \in Seq(Seq(STRING))
  PROVE  /\ Seen(words) \in Seq(Seq(STRING)) /\ Len(Seen(words)) \in 0 .. Len(words)
         /\ \A k \in 1 .. Len(Seen(words)) : Seen(words)[k] = words[k] /\ words[k] # NoWord
         /\ (\A k \in 1 .. Len(words) : words[k] # NoWord) => Seen(words) = words
<1>. DEFINE nulls == {i \in DOMAIN words : words[i] = NoWord}
<1>1. Len(words) \in Nat /\ DOMAIN words = 1 .. Len(words) /\ nulls \in SUBSET Nat
  OBVIOUS
<1>2. CASE nulls = {}
  <2>1. Seen(words) = words
    BY <1>2 DEF Seen
  <2>2. \A k \in 1 .. Len(words) : words[k] # NoWord
    BY <1>1, <1>2
  <2>. QED  BY <1>1, <2>1, <2>2
<1>3. CASE nulls # {}
  <2>. DEFINE z == Min(nulls)
  <2>1. z \in nulls /\ \A i \in nulls : z <= i
    BY <1>1, <1>3, LeastNatural
  <2>2. Seen(words) = SubSeq(words, 1, z - 1)
    BY <1>3 DEF Seen
  <2>3. z \in 1 .. Len(words) /\ words[z] = NoWord
    BY <1>1, <2>1
  <2>4. ASSUME NEW k \in 1 .. z - 1 PROVE words[k] # NoWord
    <3>. SUFFICES ASSUME words[k] = NoWord PROVE FALSE
      OBVIOUS
    <3>. HIDE DEF z
    <3>1. k \in DOMAIN words /\ ~(z <= k)
      BY <1>1, <2>3
    <3>2. k \in nulls
      BY <3>1
    <3>. HIDE DEF nulls
    <3>. QED  BY <2>1, <3>1, <3>2
  <2>. HIDE DEF z, nulls
  <2>5. IsPart(Seq(STRING), words, 1, z - 1)
    BY <1>1, <2>3 DEF IsPart
  <2>6. PartFacts(Seq(STRING), words, 1, z - 1)
    BY <2>5, PartIs, Zenon
  <2>. DEFINE s == SubSeq(words, 1, z - 1)
  <2>7. /\ s \in Seq(Seq(STRING)) /\ Len(s) = (z - 1) + 1 - 1
        /\ \A i \in 1 .. (z - 1) + 1 - 1 : s[i] = words[1 + i - 1]
    BY <2>6, Zenon DEF PartFacts
  <2>. HIDE DEF s
  <2>8. Len(s) = z - 1 /\ Len(s) \in 0 .. Len(words)
    BY <1>1, <2>3, <2>7
  <2>9. ASSUME NEW k \in 1 .. z - 1 PROVE s[k] = words[k]
    <3>1. k \in 1 .. (z - 1) + 1 - 1 /\ 1 + k - 1 = k
      BY <2>3
    <3>. QED  BY <2>7, <3>1
  <2>10. Seen(words) = s
    BY <2>2 DEF s
  <2>. QED  BY <2>3, <2>4, <2>7, <2>8, <2>9, <2>10
<1>. QED  BY <1>2, <1>3

(* One more word, or the NULL in its place, tells on.                      *)
LEMMA OneMoreWord ==
  ASSUME NEW c \in Seq(STRING), NEW ahead, NEW words, NEW hungry, NEW more,
         WordsRead(words, c, ahead, hungry),
         NEW word \in Seq(STRING), NEW m, NEW e, NEW a,
         ReadTo(c, ahead, a), Len(words) = CountTo(BeginsOf(c), a - 1),
         IsWord(c, m, e), a <= m, \A k \in a .. m - 1 : c[k] \in Gap,
         word = SubSeq(c, m, e - 1) \/ (more = TRUE /\ word = NoWord),
         hungry = TRUE => more = TRUE
  PROVE  WordsRead(Append(words, word), c, SubSeq(c, e, Len(c)), more)
<1>. DEFINE S == BeginsOf(c)
<1>1. /\ words \in Seq(Seq(STRING))
      /\ \A k \in 1 .. Len(words) : WordTold(words[k], c, Nth(S, k), hungry)
  BY Zenon DEF WordsRead, WordsTold
<1>2. /\ IsNext(S, a - 1, m, e - 1) /\ a - 1 \in Nat /\ e - 1 \in Nat /\ m \in S
      /\ ReadTo(c, SubSeq(c, e, Len(c)), e)
  BY NextBegin
<1>3. IsPlaces(S)
  BY BeginsArePlaces
<1>. DEFINE t == Append(words, word)
            n == Len(words)
<1>. HIDE DEF S
<1>4. CountTo(S, m) = n + 1 /\ CountTo(S, e - 1) = n + 1
  BY <1>2, <1>3, OneMorePlace DEF S
<1>5. Nth(S, n + 1) = m
  <2>1. Nth(S, CountTo(S, m)) = m
    BY <1>2, <1>3, NthIs
  <2>. QED  BY <1>4, <2>1
<1>6. WordTold(word, c, m, more)
  <2>. DEFINE meant == SubSeq(c, m, e - 1)
  <2>1. meant = WordOf(c, m) /\ meant \in Seq(STRING) /\ meant # NoWord
    BY WordOfIs
  <2>2. IsTheWord(meant, c, m)
    BY <1>2, <2>1, Zenon DEF IsTheWord, S
  <2>. QED  BY <2>2, Zenon DEF WordTold
<1>7. /\ t \in Seq(Seq(STRING)) /\ n \in Nat /\ Len(t) = n + 1 /\ t[n + 1] = word
      /\ \A k \in 1 .. n : t[k] = words[k]
  BY <1>1, AppendProperties
<1>. HIDE DEF t, n
<1>8. ASSUME NEW k \in 1 .. Len(t) PROVE WordTold(t[k], c, Nth(S, k), more)
  <2>1. CASE k = n + 1
    BY <1>5, <1>6, <1>7, <2>1
  <2>2. CASE k # n + 1
    <3>1. k \in 1 .. n
      BY <1>7, <2>2
    <3>2. WordTold(words[k], c, Nth(S, k), hungry)
      BY <1>1, <3>1 DEF n
    <3>3. WordTold(words[k], c, Nth(S, k), more)
      BY <3>2, Zenon DEF WordTold
    <3>. QED  BY <1>7, <3>1, <3>3
  <2>. QED  BY <2>1, <2>2
<1>9. WordsTold(t, c, more)
  BY <1>7, <1>8, Zenon DEF WordsTold, S
<1>10. Len(t) = CountTo(S, e - 1)
  BY <1>4, <1>7
<1>. QED  BY <1>2, <1>9, <1>10, Zenon DEF WordsRead, S, t

(* One more of the expanded words.                                         *)
PathTold(word, words, k, forSrc, forBin, hungry) ==
  \/ word = StrReplace(StrReplace(words[k], "{src}", forSrc), "{bin}", forBin)
  \/ hungry = TRUE /\ word = NoWord

LEMMA OneMorePath ==
  ASSUME NEW new, NEW words \in Seq(Seq(STRING)), NEW forSrc, NEW forBin, NEW hungry, NEW more,
         PathsTold(new, words, forSrc, forBin, hungry), Len(new) < Len(Seen(words)),
         NEW word \in Seq(STRING), PathTold(word, words, Len(new) + 1, forSrc, forBin, more),
         hungry = TRUE => more = TRUE
  PROVE  PathsTold(Append(new, word), words, forSrc, forBin, more)
<1>1. /\ new \in Seq(Seq(STRING)) /\ Len(new) < Len(Seen(words))
      /\ \A k \in 1 .. Len(new) : PathTold(new[k], words, k, forSrc, forBin, hungry)
  BY Zenon DEF PathsTold, PathTold
<1>. DEFINE t == Append(new, word)
            n == Len(new)
<1>2. /\ t \in Seq(Seq(STRING)) /\ n \in Nat /\ Len(t) = n + 1 /\ t[n + 1] = word
      /\ \A k \in 1 .. n : t[k] = new[k]
  BY <1>1, AppendProperties
<1>3. Len(Seen(words)) \in Nat
  <2>1. Len(Seen(words)) \in 0 .. Len(words)
    BY SeenIs, Zenon
  <2>. QED  BY <2>1
<1>. HIDE DEF t
<1>4. ASSUME NEW k \in 1 .. Len(t) PROVE PathTold(t[k], words, k, forSrc, forBin, more)
  <2>1. CASE k = n + 1
    BY <1>2, <2>1
  <2>2. CASE k # n + 1
    <3>1. k \in 1 .. n
      BY <1>2, <2>2
    <3>2. PathTold(new[k], words, k, forSrc, forBin, hungry)
      BY <1>1, <3>1
    <3>3. PathTold(new[k], words, k, forSrc, forBin, more)
      BY <3>2, Zenon DEF PathTold
    <3>. QED  BY <1>2, <3>1, <3>3
  <2>. QED  BY <2>1, <2>2
<1>5. Len(t) <= Len(Seen(words))
  BY <1>1, <1>2, <1>3
<1>6. PathsTold(t, words, forSrc, forBin, more)
  BY <1>2, <1>4, <1>5, Zenon DEF PathsTold, PathTold
<1>. QED  BY <1>6 DEF t

----------------------------------------------------------------------------
(* The steps.                                                              *)
LEMMA CommandInitInv == CommandInit => CommandInv
<1>. SUFFICES ASSUME CommandInit PROVE CommandInv
  OBVIOUS
<1>1. CommandType
  <2>1. command \in Seq(STRING) /\ src \in Seq(STRING) /\ bin \in Seq(STRING)
    BY CommandAssumption DEF CommandInit
  <2>2. starved \in BOOLEAN
    <3>1. FALSE \in BOOLEAN
      BY Zenon
    <3>. QED  BY <3>1, Zenon DEF CommandInit
  <2>3. expanded \in Seq(Seq(STRING))
    BY DEF CommandInit
  <2>. QED  BY <2>1, <2>2, <2>3 DEF CommandType
<1>2. WordsRead(argv, command, p, starved)
  <2>1. Len(command) \in Nat /\ SubSeq(command, 1, Len(command)) = command
    BY <1>1, SubSeqFull DEF CommandType
  <2>2. ReadTo(command, p, 1)
    BY <2>1 DEF ReadTo, CommandInit
  <2>3. CountTo(BeginsOf(command), 1 - 1) = 0
    <3>1. IsPlaces(BeginsOf(command))
      BY <1>1, BeginsArePlaces DEF CommandType
    <3>2. CountTo(BeginsOf(command), 0) = 0
      BY <3>1, CountFacts
    <3>. QED  BY <3>2
  <2>4. argv = <<>> /\ Len(argv) = 0
    BY DEF CommandInit
  <2>5. WordsTold(argv, command, starved)
    BY <2>4 DEF WordsTold
  <2>. QED  BY <2>2, <2>3, <2>4, <2>5, Zenon DEF WordsRead
<1>. QED  BY <1>1, <1>2, Zenon DEF CommandInv, CommandInit

LEMMA SplitStep ==
  ASSUME CommandInv, phase = "split", NEW a, ReadTo(command, p, a),
         Len(argv) = CountTo(BeginsOf(command), a - 1), Solid # {}
  PROVE  \E m, e : /\ IsWord(command, m, e) /\ a <= m /\ \A k \in a .. m - 1 : command[k] \in Gap
                   /\ TakenWord = SubSeq(command, m, e - 1) /\ TakenWord \in Seq(STRING)
                   /\ SubSeq(p, WordEnd, Len(p)) = SubSeq(command, e, Len(command))
<1>1. command \in Seq(STRING)
  BY DEF CommandInv, CommandType
<1>2. PICK m, e : /\ IsWord(command, m, e) /\ a <= m /\ \A k \in a .. m - 1 : command[k] \in Gap
                  /\ TakenWord = SubSeq(command, m, e - 1)
                  /\ SubSeq(p, WordEnd, Len(p)) = SubSeq(command, e, Len(command))
  BY <1>1, NextWord
<1>3. SubSeq(command, m, e - 1) \in Seq(STRING)
  BY <1>1, <1>2, WordOfIs, Zenon
<1>. QED  BY <1>2, <1>3, Zenon

LEMMA SplitWordStep == CommandInv /\ SplitWord => CommandInv'
<1>. SUFFICES ASSUME CommandInv, SplitWord PROVE CommandInv'
  OBVIOUS
<1>1. CommandType /\ phase = "split" /\ expanded = <<>> /\ WordsRead(argv, command, p, starved)
  BY Zenon DEF CommandInv, SplitWord
<1>2. CommandType'
  BY <1>1, Zenon DEF CommandType, SplitWord
<1>3. PICK a : ReadTo(command, p, a) /\ Len(argv) = CountTo(BeginsOf(command), a - 1)
  BY <1>1, Zenon DEF WordsRead
<1>4. PICK m, e : /\ IsWord(command, m, e) /\ a <= m /\ \A k \in a .. m - 1 : command[k] \in Gap
                  /\ TakenWord = SubSeq(command, m, e - 1) /\ TakenWord \in Seq(STRING)
                  /\ SubSeq(p, WordEnd, Len(p)) = SubSeq(command, e, Len(command))
  BY <1>1, <1>3, SplitStep DEF SplitWord
<1>5. WordsRead(Append(argv, TakenWord), command, SubSeq(command, e, Len(command)), starved)
  BY <1>1, <1>3, <1>4, OneMoreWord DEF CommandType
<1>6. WordsRead(argv', command', p', starved')
  BY <1>4, <1>5, Zenon DEF SplitWord
<1>. QED  BY <1>1, <1>2, <1>6, Zenon DEF CommandInv, SplitWord

LEMMA NoRoomToSplitStep == CommandInv /\ NoRoomToSplit => CommandInv'
<1>. SUFFICES ASSUME CommandInv, NoRoomToSplit PROVE CommandInv'
  OBVIOUS
<1>1. CommandType /\ phase = "split" /\ expanded = <<>> /\ WordsRead(argv, command, p, starved)
  BY Zenon DEF CommandInv, NoRoomToSplit
<1>2. CommandType' /\ starved' = TRUE /\ command' = command /\ expanded' = expanded
  <2>1. starved' \in BOOLEAN
    <3>1. TRUE \in BOOLEAN
      BY Zenon
    <3>. QED  BY <3>1, Zenon DEF NoRoomToSplit
  <2>. QED  BY <1>1, <2>1, Zenon DEF CommandType, NoRoomToSplit
<1>3. CASE phase' = "none"
  BY <1>2, <1>3 DEF CommandInv
<1>4. CASE argv' = Append(argv, NoWord) /\ p' = SubSeq(p, WordEnd, Len(p)) /\ phase' = phase
  <2>1. PICK a : ReadTo(command, p, a) /\ Len(argv) = CountTo(BeginsOf(command), a - 1)
    BY <1>1, Zenon DEF WordsRead
  <2>2. PICK m, e : /\ IsWord(command, m, e) /\ a <= m /\ \A k \in a .. m - 1 : command[k] \in Gap
                    /\ TakenWord = SubSeq(command, m, e - 1) /\ TakenWord \in Seq(STRING)
                    /\ SubSeq(p, WordEnd, Len(p)) = SubSeq(command, e, Len(command))
    BY <1>1, <2>1, SplitStep DEF NoRoomToSplit
  <2>3. NoWord \in Seq(STRING)
    BY DEF NoWord
  <2>4. WordsRead(Append(argv, NoWord), command, SubSeq(command, e, Len(command)), TRUE)
    <3>1. SubSeq(command, m, e - 1) = SubSeq(command, m, e - 1)
      OBVIOUS
    <3>2. command \in Seq(STRING)
      BY <1>1 DEF CommandType
    <3>. DEFINE more == TRUE
                word == NoWord
    <3>3. more = TRUE /\ word = NoWord /\ word \in Seq(STRING)
      BY <2>3
    <3>. HIDE DEF more, word
    <3>4. WordsRead(Append(argv, word), command, SubSeq(command, e, Len(command)), more)
      BY <1>1, <2>1, <2>2, <3>2, <3>3, OneMoreWord
    <3>. QED  BY <3>3, <3>4, Zenon
  <2>5. WordsRead(argv', command', p', starved')
    BY <1>2, <1>4, <2>2, <2>4, Zenon
  <2>. QED  BY <1>1, <1>2, <1>4, <2>5, Zenon DEF CommandInv
<1>. QED  BY <1>3, <1>4, Zenon DEF NoRoomToSplit

LEMMA EndOfLineStep == CommandInv /\ EndOfLine => CommandInv'
<1>. SUFFICES ASSUME CommandInv, EndOfLine PROVE CommandInv'
  OBVIOUS
<1>1. CommandType /\ phase = "split" /\ expanded = <<>> /\ WordsRead(argv, command, p, starved)
  BY Zenon DEF CommandInv, EndOfLine
<1>2. CommandType' /\ UNCHANGED <<command, p, src, bin, argv, expanded, starved>>
  BY <1>1, Zenon DEF CommandType, EndOfLine
<1>3. PICK a : ReadTo(command, p, a) /\ Len(argv) = CountTo(BeginsOf(command), a - 1)
  BY <1>1, Zenon DEF WordsRead
<1>4. Len(argv) = Cardinality(BeginsOf(command))
  <2>1. a - 1 \in Nat /\ \A i \in BeginsOf(command) : i <= a - 1
    BY <1>1, <1>3, NoMoreBegins DEF CommandType, EndOfLine
  <2>2. IsPlaces(BeginsOf(command))
    BY <1>1, BeginsArePlaces DEF CommandType
  <2>3. CountTo(BeginsOf(command), a - 1) = Cardinality(BeginsOf(command))
    BY <2>1, <2>2, CountFacts
  <2>. QED  BY <1>3, <2>3
<1>5. Whole(argv, command, starved)
  BY <1>1, <1>4, Zenon DEF Whole, WordsRead
<1>6. PathsTold(expanded, argv, src, bin, starved)
  <2>1. argv \in Seq(Seq(STRING))
    BY <1>1, Zenon DEF WordsRead, WordsTold
  <2>2. Len(Seen(argv)) \in 0 .. Len(argv)
    BY <2>1, SeenIs, Zenon
  <2>3. Len(expanded) = 0 /\ Len(expanded) <= Len(Seen(argv)) /\ expanded \in Seq(Seq(STRING))
    BY <1>1, <2>1, <2>2
  <2>4. 1 .. Len(expanded) = {}
    BY <2>3
  <2>. QED  BY <2>3, <2>4, Zenon DEF PathsTold
<1>7. Whole(argv', command', starved') /\ PathsTold(expanded', argv', src', bin', starved')
  BY <1>2, <1>5, <1>6, Zenon
<1>8. phase' \in {"none", "expand"}
  BY DEF EndOfLine
<1>9. phase' # "split" /\ phase' # "ready"
  BY <1>8
<1>. QED  BY <1>2, <1>7, <1>9, Zenon DEF CommandInv

LEMMA WordOfWords ==
  ASSUME CommandInv, phase = "expand", Len(expanded) < Counted
  PROVE  /\ argv \in Seq(Seq(STRING)) /\ Len(expanded) + 1 \in 1 .. Len(Seen(argv))
         /\ argv[Len(expanded) + 1] \in Seq(STRING) /\ Once \in Seq(STRING)
         /\ StrReplace(Once, "{bin}", bin) \in Seq(STRING)
<1>1. /\ CommandType /\ Whole(argv, command, starved)
  BY Zenon DEF CommandInv
<1>2. argv \in Seq(Seq(STRING)) /\ expanded \in Seq(Seq(STRING)) /\ src \in Seq(STRING) /\ bin \in Seq(STRING)
  BY <1>1, Zenon DEF Whole, WordsTold, CommandType
<1>3. Len(Seen(argv)) \in 0 .. Len(argv)
  BY <1>2, SeenIs, Zenon
<1>. DEFINE k == Len(expanded) + 1
<1>4. k \in 1 .. Len(Seen(argv)) /\ k \in 1 .. Len(argv)
  <2>1. Len(expanded) \in Nat /\ Len(argv) \in Nat /\ Len(expanded) < Len(Seen(argv))
    BY <1>2 DEF Counted
  <2>. QED  BY <1>3, <2>1
<1>5. argv[k] \in Seq(STRING)
  <2>. HIDE DEF k
  <2>. QED  BY <1>2, <1>4, ElementOfSeq, Zenon
<1>6. Once = StrReplace(argv[k], "{src}", src)
  BY DEF Once
<1>. HIDE DEF k
<1>7. Once \in Seq(STRING)
  BY <1>2, <1>5, <1>6, ReplaceIs
<1>8. StrReplace(Once, "{bin}", bin) \in Seq(STRING)
  BY <1>2, <1>7, ReplaceIs
<1>. QED  BY <1>2, <1>4, <1>5, <1>7, <1>8 DEF k

LEMMA ExpandWordStep == CommandInv /\ ExpandWord => CommandInv'
<1>. SUFFICES ASSUME CommandInv, ExpandWord PROVE CommandInv'
  OBVIOUS
<1>1. /\ phase = "expand" /\ CommandType
      /\ Whole(argv, command, starved) /\ PathsTold(expanded, argv, src, bin, starved)
      /\ UNCHANGED <<command, p, src, bin, argv, starved, phase>>
  BY Zenon DEF CommandInv, ExpandWord
<1>. DEFINE word == StrReplace(Once, "{bin}", bin)
<1>2. argv \in Seq(Seq(STRING)) /\ word \in Seq(STRING) /\ Len(expanded) < Len(Seen(argv))
  BY WordOfWords DEF ExpandWord, Counted
<1>3. PathTold(word, argv, Len(expanded) + 1, src, bin, starved)
  BY Zenon DEF PathTold, Once
<1>4. expanded' = Append(expanded, word)
  BY DEF ExpandWord
<1>. HIDE DEF word
<1>5. PathsTold(Append(expanded, word), argv, src, bin, starved)
  BY <1>1, <1>2, <1>3, OneMorePath
<1>6. PathsTold(expanded', argv', src', bin', starved') /\ Whole(argv', command', starved')
  BY <1>1, <1>4, <1>5, Zenon
<1>7. CommandType'
  <2>1. expanded' \in Seq(Seq(STRING))
    BY <1>6, Zenon DEF PathsTold
  <2>. QED  BY <1>1, <2>1, Zenon DEF CommandType
<1>8. phase' # "split" /\ phase' # "ready"
  BY <1>1
<1>. QED  BY <1>6, <1>7, <1>8, Zenon DEF CommandInv

LEMMA NoRoomToExpandStep == CommandInv /\ NoRoomToExpand => CommandInv'
<1>. SUFFICES ASSUME CommandInv, NoRoomToExpand PROVE CommandInv'
  OBVIOUS
<1>1. /\ phase = "expand" /\ CommandType
      /\ Whole(argv, command, starved) /\ PathsTold(expanded, argv, src, bin, starved)
      /\ UNCHANGED <<command, p, src, bin, argv>> /\ starved' = TRUE
  BY Zenon DEF CommandInv, NoRoomToExpand
<1>0. starved' \in BOOLEAN
  <2>1. TRUE \in BOOLEAN
    BY Zenon
  <2>. QED  BY <1>1, <2>1, Zenon
<1>2. CASE phase' \in {"none", "crashed"} /\ expanded' = expanded
  <2>1. CommandType'
    BY <1>0, <1>1, <1>2, Zenon DEF CommandType
  <2>2. phase' # "split" /\ phase' # "expand" /\ phase' # "ready"
    BY <1>2
  <2>. QED  BY <2>1, <2>2, Zenon DEF CommandInv
<1>3. CASE phase' = phase /\ expanded' = Append(expanded, NoWord)
  <2>. DEFINE more == starved'
              word == NoWord
  <2>1. argv \in Seq(Seq(STRING)) /\ Len(expanded) < Len(Seen(argv)) /\ word \in Seq(STRING)
    <3>1. Len(expanded) < Counted
      BY DEF NoRoomToExpand
    <3>2. argv \in Seq(Seq(STRING))
      BY <1>1, <3>1, WordOfWords, Zenon
    <3>3. word \in Seq(STRING)
      BY DEF NoWord
    <3>. QED  BY <3>1, <3>2, <3>3 DEF Counted
  <2>2. PathTold(word, argv, Len(expanded) + 1, src, bin, more)
    BY <1>1, Zenon DEF PathTold
  <2>3. more = TRUE
    BY <1>1
  <2>. HIDE DEF more, word
  <2>4. PathsTold(Append(expanded, word), argv, src, bin, more)
    BY <1>1, <2>1, <2>2, <2>3, OneMorePath
  <2>5. PathsTold(expanded', argv', src', bin', starved')
    BY <1>1, <1>3, <2>4, Zenon DEF more, word
  <2>6. Whole(argv', command', starved')
    BY <1>1, Zenon DEF Whole, WordsTold, WordTold
  <2>7. CommandType'
    <3>1. expanded' \in Seq(Seq(STRING))
      BY <2>5, Zenon DEF PathsTold
    <3>. QED  BY <1>0, <1>1, <3>1, Zenon DEF CommandType
  <2>8. phase' # "split" /\ phase' # "ready"
    BY <1>1, <1>3
  <2>. QED  BY <2>5, <2>6, <2>7, <2>8, Zenon DEF CommandInv
<1>4. \/ phase' \in {"none", "crashed"} /\ expanded' = expanded
      \/ phase' = phase /\ expanded' = Append(expanded, NoWord)
  BY DEF NoRoomToExpand
<1>. QED  BY <1>2, <1>3, <1>4

LEMMA ReadyStep == CommandInv /\ Ready => CommandInv'
<1>. SUFFICES ASSUME CommandInv, Ready PROVE CommandInv'
  OBVIOUS
<1>1. /\ phase = "expand" /\ phase' = "ready" /\ CommandType /\ Len(expanded) = Len(Seen(argv))
      /\ Whole(argv, command, starved) /\ PathsTold(expanded, argv, src, bin, starved)
      /\ UNCHANGED <<command, p, src, bin, argv, expanded, starved>>
  BY Zenon DEF CommandInv, Ready, Counted
<1>2. /\ CommandType' /\ Whole(argv', command', starved')
      /\ PathsTold(expanded', argv', src', bin', starved')
  BY <1>1, Zenon DEF CommandType
<1>3. phase' # "split" /\ Len(expanded') = Len(Seen(argv'))
  BY <1>1
<1>. QED  BY <1>2, <1>3, Zenon DEF CommandInv

LEMMA CommandStep == CommandInv /\ [CommandNext]_lvars => CommandInv'
<1>. SUFFICES ASSUME CommandInv, [CommandNext]_lvars PROVE CommandInv'
  OBVIOUS
<1>1. CASE UNCHANGED lvars
  BY <1>1, Zenon DEF lvars, CommandInv, CommandType
<1>. QED  BY <1>1, SplitWordStep, NoRoomToSplitStep, EndOfLineStep, ExpandWordStep,
             NoRoomToExpandStep, ReadyStep, Zenon DEF CommandNext

----------------------------------------------------------------------------
(* What the line says, and what is made of it.                             *)
Said(c, k, forSrc, forBin) == Turned(Meaning(forSrc, forBin), WordOf(c, Nth(BeginsOf(c), k)))

LEMMA MeaningType ==
  ASSUME NEW forSrc \in Seq(STRING), NEW forBin \in Seq(STRING)
  PROVE  Meaning(forSrc, forBin) \in [STRING -> Seq(STRING)]
<1>1. ASSUME NEW u \in STRING
      PROVE  (IF u = "{src}" THEN forSrc ELSE IF u = "{bin}" THEN forBin ELSE <<u>>) \in Seq(STRING)
  BY OneUnit, Zenon
<1>. QED  BY <1>1, Zenon DEF Meaning

LEMMA ArgumentsAre ==
  ASSUME CommandType, Whole(argv, command, starved)
  PROVE  /\ Arguments \in Seq(Seq(STRING)) /\ Len(Arguments) = Len(argv)
         /\ \A k \in 1 .. Len(argv) : Arguments[k] = Said(command, k, src, bin)
<1>. DEFINE S == BeginsOf(command)
            n == Len(argv)
            f == [i \in S |-> MeantWord(WordOf(command, i))]
<1>1. /\ src \in Seq(STRING) /\ bin \in Seq(STRING) /\ argv \in Seq(Seq(STRING))
      /\ n = Cardinality(S) /\ n \in Nat
      /\ \A k \in 1 .. n : WordTold(argv[k], command, Nth(S, k), starved)
  <2>1. /\ src \in Seq(STRING) /\ bin \in Seq(STRING) /\ argv \in Seq(Seq(STRING))
        /\ n = Cardinality(S)
        /\ \A k \in 1 .. n : WordTold(argv[k], command, Nth(S, k), starved)
    BY Zenon DEF Whole, WordsTold, CommandType
  <2>. QED  BY <2>1
<1>2. Begins = S /\ \A i : WordAt(i) = WordOf(command, i)
  BY DEF Begins, BeginsOf, WordAt, WordOf
<1>3. Arguments = InOrder(S, f)
  BY <1>2 DEF Arguments
<1>4. InOrder(S, f) = [k \in 1 .. n |-> f[Nth(S, k)]]
  BY <1>1 DEF InOrder
<1>5. ASSUME NEW k \in 1 .. n
      PROVE  f[Nth(S, k)] = Said(command, k, src, bin) /\ Said(command, k, src, bin) \in Seq(STRING)
  <2>. DEFINE i == Nth(S, k)
  <2>1. i \in S /\ WordOf(command, i) \in Seq(STRING)
    BY <1>1, Zenon DEF WordTold, IsTheWord
  <2>2. MeantWord(WordOf(command, i)) = Turned(Meaning(src, bin), WordOf(command, i))
    BY <1>1, <2>1, MeantWordIs, Zenon
  <2>3. Turned(Meaning(src, bin), WordOf(command, i)) \in Seq(STRING)
    BY <1>1, <2>1, MeaningType, TurnedType, Zenon
  <2>4. f[i] = MeantWord(WordOf(command, i))
    BY <2>1, Zenon
  <2>. QED  BY <2>2, <2>3, <2>4, Zenon DEF Said
<1>. HIDE DEF f, n, S
<1>6. Arguments = [k \in 1 .. n |-> f[Nth(S, k)]]
  BY <1>3, <1>4, Zenon
<1>7. \A k \in 1 .. n : f[Nth(S, k)] \in Seq(STRING)
  BY <1>5, Zenon
<1>8. Arguments \in Seq(Seq(STRING)) /\ Len(Arguments) = n
  <2>1. Arguments \in [1 .. n -> Seq(STRING)]
    BY <1>6, <1>7, Zenon
  <2>2. n \in Nat
    BY <1>1
  <2>. QED  BY <2>1, <2>2
<1>9. \A k \in 1 .. n : Arguments[k] = Said(command, k, src, bin)
  BY <1>5, <1>6, Zenon
<1>. QED  BY <1>8, <1>9 DEF n

LEMMA Longer ==
  \A s, a, b : a \in Nat /\ b \in Nat /\ s \in 0 .. a /\ a <= b =>
    s <= b /\ \A k \in 1 .. s : k \in 1 .. a /\ k \in 1 .. b
OBVIOUS

LEMMA Shorter ==
  \A a, s, b : a \in Nat /\ b \in Nat /\ s \in 0 .. b /\ a <= s =>
    a <= b /\ \A k \in 1 .. a : k \in 1 .. s /\ k \in 1 .. b
OBVIOUS

(* Every word that is there is what the line says there.                   *)
LEMMA WordsAreSaid ==
  ASSUME CommandType, Whole(argv, command, starved),
         PathsTold(expanded, argv, src, bin, starved), ~Contains(src, "{bin}"),
         NEW k \in 1 .. Len(expanded)
  PROVE  \/ expanded[k] = Said(command, k, src, bin)
         \/ starved = TRUE /\ expanded[k] = NoWord
<1>1. /\ argv \in Seq(Seq(STRING)) /\ src \in Seq(STRING) /\ bin \in Seq(STRING)
      /\ \A j \in 1 .. Len(argv) : WordTold(argv[j], command, Nth(BeginsOf(command), j), starved)
      /\ Len(expanded) <= Len(Seen(argv)) /\ expanded \in Seq(Seq(STRING))
      /\ PathTold(expanded[k], argv, k, src, bin, starved)
  BY Zenon DEF Whole, WordsTold, PathsTold, PathTold, CommandType
<1>2. Len(Seen(argv)) \in 0 .. Len(argv)
  BY <1>1, SeenIs, Zenon
<1>3. k \in 1 .. Len(argv) /\ k \in 1 .. Len(Seen(argv))
  <2>1. Len(expanded) \in Nat /\ Len(argv) \in Nat /\ Len(expanded) <= Len(Seen(argv))
    BY <1>1, LenProperties, Zenon
  <2>. QED  BY <1>2, <2>1, Shorter, Zenon
<1>4. argv[k] # NoWord
  BY <1>1, <1>3, SeenIs, Zenon
<1>5. argv[k] = WordOf(command, Nth(BeginsOf(command), k)) /\ argv[k] \in Seq(STRING)
  <2>1. WordTold(argv[k], command, Nth(BeginsOf(command), k), starved)
    BY <1>1, <1>3, Zenon
  <2>. QED  BY <1>4, <2>1, Zenon DEF WordTold, IsTheWord
<1>6. StrReplace(StrReplace(argv[k], "{src}", src), "{bin}", bin) = Said(command, k, src, bin)
  <2>1. StrReplace(StrReplace(argv[k], "{src}", src), "{bin}", bin) = Turned(Meaning(src, bin), argv[k])
    BY <1>1, <1>5, ReplacedTwice
  <2>. QED  BY <1>5, <2>1, Zenon DEF Said
<1>. QED  BY <1>1, <1>6, Zenon DEF PathTold

LEMMA WholeCommand ==
  ASSUME CommandInv, phase = "ready", ~Contains(src, "{bin}"), starved # TRUE
  PROVE  expanded = Arguments
<1>1. /\ CommandType /\ Whole(argv, command, starved) /\ Len(expanded) = Len(Seen(argv))
      /\ PathsTold(expanded, argv, src, bin, starved)
  BY Zenon DEF CommandInv
<1>2. /\ argv \in Seq(Seq(STRING)) /\ expanded \in Seq(Seq(STRING))
      /\ \A k \in 1 .. Len(argv) : argv[k] # NoWord
  BY <1>1, Zenon DEF Whole, WordsTold, WordTold, IsTheWord, PathsTold
<1>3. Seen(argv) = argv
  BY <1>2, SeenIs, Zenon
<1>4. Len(expanded) = Len(argv)
  BY <1>1, <1>3
<1>5. /\ Arguments \in Seq(Seq(STRING)) /\ Len(Arguments) = Len(argv)
      /\ \A k \in 1 .. Len(argv) : Arguments[k] = Said(command, k, src, bin)
  BY <1>1, ArgumentsAre, Zenon
<1>6. \A k \in 1 .. Len(expanded) : expanded[k] = Arguments[k]
  <2>1. ASSUME NEW k \in 1 .. Len(expanded) PROVE expanded[k] = Said(command, k, src, bin)
    BY <1>1, WordsAreSaid
  <2>. QED  BY <1>4, <1>5, <2>1
<1>. QED  BY <1>2, <1>4, <1>5, <1>6, SeqEqual

LEMMA PrefixIs ==
  ASSUME NEW T, NEW s \in Seq(T), NEW t \in Seq(T), Len(s) <= Len(t), \A k \in 1 .. Len(s) : s[k] = t[k]
  PROVE  IsPrefix(s, t)
<1>1. IsPart(T, t, 1, Len(s)) /\ Len(s) \in Nat
  BY DEF IsPart
<1>2. PartFacts(T, t, 1, Len(s))
  BY <1>1, PartIs, Zenon
<1>. DEFINE r == SubSeq(t, 1, Len(s))
<1>3. /\ r \in Seq(T) /\ Len(r) = Len(s) + 1 - 1
      /\ \A i \in 1 .. Len(s) + 1 - 1 : r[i] = t[1 + i - 1]
  BY <1>2, Zenon DEF PartFacts
<1>. HIDE DEF r
<1>4. Len(r) = Len(s) /\ \A k \in 1 .. Len(s) : s[k] = r[k]
  <2>1. ASSUME NEW k \in 1 .. Len(s) PROVE s[k] = r[k]
    <3>1. k \in 1 .. Len(s) + 1 - 1 /\ 1 + k - 1 = k
      BY <1>1
    <3>. QED  BY <1>3, <3>1
  <2>. QED  BY <1>1, <1>3, <2>1
<1>5. s = r
  BY <1>3, <1>4, SeqEqual
<1>6. SubSeq(s, 1, Len(s)) = s
  BY SubSeqFull
<1>. QED  BY <1>5, <1>6 DEF IsPrefix, r

LEMMA StarvedCommand ==
  ASSUME CommandInv, phase = "ready", ~Contains(src, "{bin}")
  PROVE  IsPrefix(Seen(expanded), Arguments)
<1>1. /\ CommandType /\ Whole(argv, command, starved)
      /\ PathsTold(expanded, argv, src, bin, starved)
  BY Zenon DEF CommandInv
<1>2. /\ argv \in Seq(Seq(STRING)) /\ expanded \in Seq(Seq(STRING)) /\ Len(expanded) <= Len(Seen(argv))
  BY <1>1, Zenon DEF Whole, WordsTold, PathsTold
<1>3. Len(Seen(argv)) \in 0 .. Len(argv)
  BY <1>2, SeenIs, Zenon
<1>4. /\ Seen(expanded) \in Seq(Seq(STRING)) /\ Len(Seen(expanded)) \in 0 .. Len(expanded)
      /\ \A k \in 1 .. Len(Seen(expanded)) : Seen(expanded)[k] = expanded[k] /\ expanded[k] # NoWord
  BY <1>2, SeenIs, Zenon
<1>5. /\ Arguments \in Seq(Seq(STRING)) /\ Len(Arguments) = Len(argv)
      /\ \A k \in 1 .. Len(argv) : Arguments[k] = Said(command, k, src, bin)
  BY <1>1, ArgumentsAre, Zenon
<1>6. Len(Seen(expanded)) <= Len(Arguments) /\ Len(expanded) <= Len(argv) /\ Len(expanded) \in Nat
  <2>1. Len(argv) \in Nat /\ Len(expanded) \in Nat
    BY <1>2, LenProperties, Zenon
  <2>2. Len(expanded) <= Len(argv)
    BY <1>2, <1>3, <2>1, Shorter, Zenon
  <2>3. Len(Seen(expanded)) <= Len(argv)
    BY <1>4, <2>1, <2>2, Longer, Zenon
  <2>. QED  BY <1>5, <2>1, <2>2, <2>3, Zenon
<1>7. ASSUME NEW k \in 1 .. Len(Seen(expanded)) PROVE Seen(expanded)[k] = Arguments[k]
  <2>1. k \in 1 .. Len(expanded) /\ k \in 1 .. Len(argv)
    <3>1. Len(argv) \in Nat
      BY <1>2, LenProperties, Zenon
    <3>. QED  BY <1>4, <1>6, <3>1, Longer, Zenon
  <2>2. expanded[k] = Said(command, k, src, bin)
    BY <1>1, <1>4, <2>1, WordsAreSaid
  <2>. QED  BY <1>4, <1>5, <2>1, <2>2
<1>. QED  BY <1>4, <1>5, <1>6, <1>7, PrefixIs

(* The buffer of str_replace holds what it writes, for either replacement. *)
LEMMA BuffersAreSized ==
  ASSUME CommandInv, phase = "expand", Len(expanded) < Counted
  PROVE  /\ Size(argv[Len(expanded) + 1], "{src}", src) = StrLen(Once) + 1
         /\ Size(Once, "{bin}", bin) = StrLen(StrReplace(Once, "{bin}", bin)) + 1
<1>1. argv[Len(expanded) + 1] \in Seq(STRING) /\ Once \in Seq(STRING)
  BY WordOfWords, Zenon
<1>2. src \in Seq(STRING) /\ bin \in Seq(STRING)
  BY Zenon DEF CommandInv, CommandType
<1>3. "{src}" \in PlaceHolders /\ "{bin}" \in PlaceHolders
  BY DEF PlaceHolders
<1>. DEFINE word == argv[Len(expanded) + 1]
<1>4. Once = StrReplace(word, "{src}", src) /\ word \in Seq(STRING)
  BY <1>1 DEF Once
<1>. HIDE DEF word
<1>5. Size(word, "{src}", src) = StrLen(StrReplace(word, "{src}", src)) + 1
  BY <1>2, <1>3, <1>4, SizeIs, Zenon
<1>6. Size(Once, "{bin}", bin) = StrLen(StrReplace(Once, "{bin}", bin)) + 1
  BY <1>1, <1>2, <1>3, SizeIs, Zenon
<1>. QED  BY <1>4, <1>5, <1>6, Zenon DEF word

LEMMA CommandInvMeans == CommandInv => ArgumentsAreMeant
<1>. SUFFICES ASSUME CommandInv PROVE ArgumentsAreMeant
  OBVIOUS
<1>1. starved \in BOOLEAN
  BY Zenon DEF CommandInv, CommandType
<1>2. ASSUME phase = "ready", ~Contains(src, "{bin}")
      PROVE  IF starved THEN IsPrefix(Seen(expanded), Arguments) ELSE expanded = Arguments
  <2>1. CASE starved = TRUE
    BY <1>2, <2>1, StarvedCommand, Zenon
  <2>2. CASE starved = FALSE
    <3>1. starved # TRUE
      BY <2>2, Zenon
    <3>2. expanded = Arguments
      BY <1>2, <3>1, WholeCommand, Zenon
    <3>. QED  BY <2>2, <3>2, Zenon
  <2>. QED  BY <1>1, <2>1, <2>2, Zenon
<1>3. phase = "expand" /\ Len(expanded) < Counted =>
        /\ Size(argv[Len(expanded) + 1], "{src}", src) = StrLen(Once) + 1
        /\ Size(Once, "{bin}", bin) = StrLen(StrReplace(Once, "{bin}", bin)) + 1
  BY BuffersAreSized, Zenon
<1>. QED  BY <1>2, <1>3, Zenon DEF ArgumentsAreMeant

(* The arguments a program is started with are the words of its line, in   *)
(* their order, with a path for each placeholder, and str_replace never    *)
(* writes a byte more than it has made room for: for lines of any length   *)
(* and any paths, memory running out at any step.                          *)
THEOREM ArgumentsAreTaken == CommandInit /\ [][CommandNext]_lvars => []ArgumentsAreMeant
<1>1. CommandInv /\ [CommandNext]_lvars => CommandInv'
  BY CommandStep
<1>. QED  BY <1>1, CommandInitInv, CommandInvMeans, PTL

----------------------------------------------------------------------------
(***************************************************************************)
(* The strings of contest.json.  What a string says is counted piece by    *)
(* piece in the text and byte by byte in the buffer; a character has its   *)
(* own place in either.                                                    *)
(***************************************************************************)

(* The rest of the bytes: a text is as long as its first piece and what    *)
(* stands behind that.                                                     *)
Widths(pieces) == [i \in DOMAIN pieces |-> Width(pieces[i])]

LEMMA WidthType == ASSUME NEW piece PROVE Width(piece) \in 1 .. 6
BY DEF Width

LEMMA NoBytes == Bytes(<<>>) = 0
<1>1. DOMAIN <<>> = {}
  OBVIOUS
<1>. QED  BY <1>1, SumEmpty DEF Bytes

LEMMA BytesTail ==
  ASSUME NEW s \in Seq(Piece), s # <<>>
  PROVE  Bytes(Tail(s)) \in Int /\ Bytes(s) = Width(Head(s)) + Bytes(Tail(s))
<1>. DEFINE n == Len(s) - 1
            t == Tail(s)
            C == 1 .. n
            D == 1 .. n + 1
            f == [i \in D |-> Width(s[i])]
            g == [i \in C |-> Width(t[i])]
            T == 2 .. n + 1
<1>1. /\ n \in Nat /\ Len(s) = n + 1 /\ Len(t) = n /\ Head(s) = s[1]
      /\ \A i \in 1 .. n : t[i] = s[i + 1]
      /\ DOMAIN s = D /\ DOMAIN t = 1 .. n
  <2>1. Len(s) \in Nat \ {0} /\ DOMAIN s = 1 .. Len(s)
    OBVIOUS
  <2>2. /\ t \in Seq(Piece) /\ Len(t) = Len(s) - 1 /\ Head(s) = s[1]
        /\ \A i \in 1 .. Len(s) - 1 : t[i] = s[i + 1]
    BY <2>1
  <2>. HIDE DEF t
  <2>3. DOMAIN t = 1 .. Len(s) - 1
    BY <2>2
  <2>4. n \in Nat /\ Len(s) = n + 1
    BY <2>1
  <2>. QED  BY <2>1, <2>2, <2>3, <2>4
<1>2. IsFiniteSet(D) /\ IsFiniteSet(C)
  BY <1>1, FS_Interval
<1>3. f \in [D -> Int] /\ g \in [C -> Int]
  BY WidthType
<1>4. \A i \in 1 .. n : f[1 + i] = g[i]
  BY <1>1
<1>5. 1 .. n \subseteq C /\ 1 + 1 .. 1 + n \subseteq D /\ 1 + 1 .. 1 + n = T
  BY <1>1
<1>6. SumOver(f, 1 + 1 .. 1 + n) = SumOver(g, 1 .. n)
  <2>1. n \in Nat /\ 1 \in Nat
    BY <1>1
  <2>. HIDE DEF f, g, C, D, t, n, T
  <2>2. IsShifted(f, D, 1, g, C, n)
    BY <1>2, <1>3, <1>4, <1>5, <2>1, Zenon DEF IsShifted
  <2>. QED  BY <2>2, ShiftedSum, Zenon
<1>7. Summable(D, f, T, 1) /\ T \cup {1} = D
  <2>1. T \in SUBSET D /\ 1 \in D \ T /\ T \cup {1} = D
    BY <1>1
  <2>. QED  BY <1>2, <1>3, <2>1 DEF Summable
<1>8. SumOver(f, T) \in Int /\ SumOver(f, T \cup {1}) = SumOver(f, T) + f[1]
  <2>. HIDE DEF f, D, T, n
  <2>. QED  BY <1>7, SumNext
<1>9. Bytes(s) = SumOver(f, D) /\ Bytes(t) = SumOver(g, 1 .. n)
  BY <1>1 DEF Bytes
<1>10. f[1] = Width(Head(s))
  BY <1>1
<1>. HIDE DEF f, g, D, T, n, t
<1>11. Bytes(t) = SumOver(f, T) /\ Bytes(s) = SumOver(f, T) + Width(Head(s))
  BY <1>5, <1>6, <1>7, <1>8, <1>9, <1>10
<1>12. Width(Head(s)) \in Int
  BY WidthType
<1>13. Bytes(t) \in Int /\ Bytes(s) = Width(Head(s)) + Bytes(t)
  BY <1>8, <1>11, <1>12
<1>. QED  BY <1>13 DEF t

----------------------------------------------------------------------------
LEMMA BytesType == \A s \in Seq(Piece) : Bytes(s) \in Int
<1>1. ASSUME NEW s \in Seq(Piece) PROVE Bytes(s) \in Int
  <2>1. CASE s = <<>>
    BY <2>1, NoBytes
  <2>2. CASE s # <<>>
    BY <2>2, BytesTail, WidthType
  <2>. QED  BY <2>1, <2>2
<1>. QED  BY <1>1

(* put_utf8 writes what UTF-8 has for a code point.                        *)
LEMMA Utf8IsWritten ==
  ASSUME NEW code \in Nat, code < 1114112
  PROVE  PutUtf8(code) \in Seq(Int) /\ IsUtf8(PutUtf8(code), code)
<1>1. CASE code < 128
  BY <1>1, SMT DEF PutUtf8, IsUtf8, Utf8Length, Leads, Decoded
<1>2. CASE code >= 128 /\ code < 2048
  BY <1>2, SMT DEF PutUtf8, IsUtf8, Utf8Length, Leads, Decoded, LowBits
<1>3. CASE code >= 2048 /\ code < 65536
  BY <1>3, SMT DEF PutUtf8, IsUtf8, Utf8Length, Leads, Decoded, LowBits
<1>4. CASE code >= 65536
  BY <1>4, SMT DEF PutUtf8, IsUtf8, Utf8Length, Leads, Decoded, LowBits
<1>. QED  BY <1>1, <1>2, <1>3, <1>4, SMT

LEMMA PairIsJoined ==
  ASSUME NEW high \in Nat, NEW low \in Nat, High(high), Low(low)
  PROVE  /\ Joined(high, low) = 65536 + (high % 1024) * 1024 + (low % 1024)
         /\ Joined(high, low) \in Nat /\ Joined(high, low) < 1114112
<1>1. high % 1024 = high - 55296
  BY SMT DEF High
<1>2. low % 1024 = low - 56320
  BY SMT DEF Low
<1>. QED  BY <1>1, <1>2, SMT DEF High, Low, Joined

----------------------------------------------------------------------------
(* One character more.                                                     *)
CharacterLengths(pieces) == [j \in Characters(pieces) |-> Length(pieces, j)]

LEMMA LengthType == ASSUME NEW pieces, NEW i PROVE Length(pieces, i) \in 1 .. 4
BY SMT DEF Length, Utf8Length

LEMMA BeforeFirst == ASSUME NEW pieces \in Seq(Piece) PROVE Before(pieces, 1) = 0
<1>1. {j \in Characters(pieces) : j < 1} = {}
  BY DEF Characters
<1>. QED  BY <1>1, SumEmpty DEF Before

(* The pieces a to z - 1 are one character. *)
IsCharacter(pieces, a, z) ==
  /\ pieces \in Seq(Piece) /\ a \in 1 .. Len(pieces) /\ ~Paired(pieces, a - 1)
  /\ z = IF Paired(pieces, a) THEN a + 2 ELSE a + 1

LEMMA LowIs == ASSUME NEW code, Low(code) PROVE code \in Int /\ code > 56319
BY SMT DEF Low

LEMMA HighIs == ASSUME NEW code, High(code) PROVE code \in Int /\ code <= 56319
BY SMT DEF High

LEMMA LowIsNotHigh == ASSUME NEW code, Low(code) PROVE ~High(code)
BY LowIs, HighIs, SMT

LEMMA CharacterEnds ==
  ASSUME NEW pieces, NEW a, NEW z, IsCharacter(pieces, a, z)
  PROVE  /\ a \in Characters(pieces) /\ ~Paired(pieces, z - 1) /\ z \in a + 1 .. Len(pieces) + 1
         /\ \A j \in Characters(pieces) : j < z <=> j < a \/ j = a
<1>1. /\ Len(pieces) \in Nat /\ DOMAIN pieces = 1 .. Len(pieces) /\ a \in 1 .. Len(pieces)
      /\ ~Paired(pieces, a - 1)
      /\ Characters(pieces) \subseteq 1 .. Len(pieces)
  BY DEF IsCharacter, Characters
<1>2. a \in Characters(pieces)
  BY <1>1 DEF Characters
<1>3. CASE Paired(pieces, a)
  <2>1. z = a + 2 /\ a + 1 \in 1 .. Len(pieces) /\ a + 1 \notin Characters(pieces)
    BY <1>1, <1>3 DEF IsCharacter, Paired, Characters
  <2>2. ~Paired(pieces, a + 1)
    <3>1. Low(pieces[a + 1].code)
      BY <1>3 DEF Paired
    <3>2. ~High(pieces[a + 1].code)
      BY <3>1, LowIsNotHigh
    <3>. QED  BY <3>2 DEF Paired
  <2>. QED  BY <1>1, <1>2, <2>1, <2>2
<1>4. CASE ~Paired(pieces, a)
  <2>1. z = a + 1
    BY <1>4 DEF IsCharacter
  <2>. QED  BY <1>1, <1>2, <1>4, <2>1
<1>. QED  BY <1>3, <1>4

LEMMA BeforeNext ==
  ASSUME NEW pieces, NEW a, NEW z, IsCharacter(pieces, a, z)
  PROVE  Before(pieces, a) \in Int /\ Before(pieces, z) = Before(pieces, a) + Length(pieces, a)
<1>. DEFINE S == Characters(pieces)
            f == CharacterLengths(pieces)
            T == {j \in S : j < a}
            U == {j \in S : j < z}
<1>1. /\ a \in S /\ \A j \in S : j < z <=> j < a \/ j = a
  BY CharacterEnds
<1>2. /\ S \subseteq 1 .. Len(pieces) /\ Len(pieces) \in Nat
  BY DEF IsCharacter, Characters
<1>3. IsFiniteSet(S)
  <2>1. IsFiniteSet(1 .. Len(pieces))
    BY <1>2, FS_Interval
  <2>. HIDE DEF S
  <2>. QED  BY <1>2, <2>1, FS_Subset
<1>4. f \in [S -> Int] /\ f[a] = Length(pieces, a)
  <2>1. \A j \in S : Length(pieces, j) \in Int
    BY LengthType
  <2>. QED  BY <1>1, <2>1 DEF CharacterLengths
<1>5. T \in SUBSET S /\ a \in S \ T /\ U = T \cup {a}
  BY <1>1, <1>2
<1>6. Before(pieces, a) = SumOver(f, T) /\ Before(pieces, z) = SumOver(f, U)
  BY DEF Before, CharacterLengths
<1>. HIDE DEF S, f, T, U
<1>7. Summable(S, f, T, a)
  BY <1>3, <1>4, <1>5 DEF Summable
<1>8. SumOver(f, T) \in Int /\ SumOver(f, T \cup {a}) = SumOver(f, T) + f[a]
  BY <1>7, SumNext
<1>. QED  BY <1>4, <1>5, <1>6, <1>8

(* The bytes say all characters up to a piece, and nothing behind them.    *)
Stands(bytes, pieces, i) ==
  /\ Before(pieces, i) \in Nat /\ Before(pieces, i) + Length(pieces, i) <= Len(bytes)
  /\ Says(Own(bytes, pieces, i), pieces, i)

SaidTo(bytes, pieces, z) ==
  /\ bytes \in Seq(Int) /\ Len(bytes) = Before(pieces, z)
  /\ \A i \in Characters(pieces) : i < z => Stands(bytes, pieces, i)

LEMMA StillStands ==
  ASSUME NEW bytes \in Seq(Int), NEW own \in Seq(Int), NEW pieces, NEW i, Stands(bytes, pieces, i)
  PROVE  Stands(bytes \o own, pieces, i)
<1>1. PICK b \in Nat, l \in 1 .. 4 : b = Before(pieces, i) /\ l = Length(pieces, i)
  BY LengthType DEF Stands
<1>2. /\ Len(bytes) \in Nat /\ Len(own) \in Nat /\ Len(bytes \o own) = Len(bytes) + Len(own)
      /\ b + l <= Len(bytes)
  BY <1>1 DEF Stands
<1>3. b + 1 \in 1 .. Len(bytes) /\ b + l \in 1 .. Len(bytes)
  BY <1>2
<1>4. SubSeq(bytes \o own, b + 1, b + l) = SubSeq(bytes, b + 1, b + l)
  BY <1>3, SubSeqOfConcat1, Zenon
<1>5. Own(bytes \o own, pieces, i) = Own(bytes, pieces, i)
  BY <1>1, <1>4, Zenon DEF Own
<1>6. b + l <= Len(bytes \o own)
  BY <1>2
<1>. QED  BY <1>1, <1>5, <1>6 DEF Stands

(* What was put behind something stands behind it.                         *)
LEMMA StandsBehind ==
  ASSUME NEW s \in Seq(Int), NEW t \in Seq(Int), Len(t) \in 1 .. 4
  PROVE  SubSeq(s \o t, Len(s) + 1, Len(s) + Len(t)) = t
<1>. DEFINE m == Len(s) + 1
            n == Len(s) + Len(t)
<1>1. /\ m \in Len(s) + 1 .. Len(s) + Len(t) /\ n \in Len(s) + 1 .. Len(s) + Len(t)
      /\ m - Len(s) = 1 /\ n - Len(s) = Len(t)
  <2>1. PICK a \in Nat, b \in 1 .. 4 : a = Len(s) /\ b = Len(t)
    BY LenProperties
  <2>. QED  BY <2>1
<1>. HIDE DEF m, n
<1>2. SubSeq(s \o t, m, n) = SubSeq(t, m - Len(s), n - Len(s))
  BY <1>1, SubSeqOfConcat2
<1>3. SubSeq(t, 1, Len(t)) = t
  BY SubSeqFull, Zenon
<1>4. SubSeq(s \o t, m, n) = t
  BY <1>1, <1>2, <1>3
<1>. QED  BY <1>4 DEF m, n

LEMMA CharacterSaid ==
  ASSUME NEW pieces, NEW a, NEW z, IsCharacter(pieces, a, z),
         NEW bytes, SaidTo(bytes, pieces, a),
         NEW own \in Seq(Int), Len(own) = Length(pieces, a), Says(own, pieces, a)
  PROVE  SaidTo(bytes \o own, pieces, z)
<1>1. /\ bytes \in Seq(Int) /\ Len(bytes) = Before(pieces, a) /\ Len(bytes) \in Nat
      /\ bytes \o own \in Seq(Int) /\ Len(bytes \o own) = Len(bytes) + Len(own)
  BY DEF SaidTo
<1>2. Len(bytes \o own) = Before(pieces, z)
  BY <1>1, BeforeNext
<1>3. Stands(bytes \o own, pieces, a)
  <2>1. Len(own) \in 1 .. 4
    BY LengthType
  <2>2. SubSeq(bytes \o own, Len(bytes) + 1, Len(bytes) + Len(own)) = own
    BY <1>1, <2>1, StandsBehind, Zenon
  <2>3. Own(bytes \o own, pieces, a) = own
    BY <1>1, <2>2, Zenon DEF Own
  <2>4. Before(pieces, a) \in Nat /\ Before(pieces, a) + Length(pieces, a) <= Len(bytes \o own)
    BY <1>1, <2>1
  <2>. QED  BY <2>3, <2>4, Zenon DEF Stands
<1>4. ASSUME NEW i \in Characters(pieces), i < z PROVE Stands(bytes \o own, pieces, i)
  <2>1. i < a \/ i = a
    BY <1>4, CharacterEnds, Zenon
  <2>2. CASE i < a
    BY <1>1, <2>2, StillStands, Zenon DEF SaidTo
  <2>. QED  BY <1>3, <2>1, <2>2, Zenon
<1>. QED  BY <1>1, <1>2, <1>4, Zenon DEF SaidTo

----------------------------------------------------------------------------
(* The pieces read so far are sound, stand in the buffer, and have left    *)
(* room in it for all that is still to come.                               *)
PiecesRead(pieces, onward, bytes, z) ==
  /\ z \in 1 .. Len(pieces) + 1 /\ onward = SubSeq(pieces, z, Len(pieces))
  /\ ~Paired(pieces, z - 1)
  /\ SaidTo(bytes, pieces, z)
  /\ \A i \in 1 .. z - 1 : SoundAt(pieces, i)
  /\ Bytes(onward) \in Int /\ Len(bytes) + Bytes(onward) <= Bytes(pieces)

StringInv ==
  /\ quoted.pieces \in Seq(Piece)
  /\ \E z : PiecesRead(quoted.pieces, left, out, z)
  /\ parsed = "yes" => left = <<>> /\ quoted.closed
  /\ parsed = "refused" => ~(quoted.closed /\ Sound(quoted.pieces))

LEMMA StringInvInit == StringInit => StringInv
<1>. SUFFICES ASSUME StringInit PROVE StringInv
  OBVIOUS
<1>1. /\ quoted.pieces \in Seq(Piece) /\ left = quoted.pieces /\ out = <<>> /\ parsed = "no"
  BY QuotedAssumption DEF StringInit
<1>. DEFINE P == quoted.pieces
<1>2. Len(P) \in Nat /\ SubSeq(P, 1, Len(P)) = P
  BY <1>1, SubSeqFull, LenProperties
<1>3. ~Paired(P, 0)
  BY DEF Paired
<1>4. SaidTo(<<>>, P, 1)
  <2>1. Len(<<>>) = Before(P, 1) /\ <<>> \in Seq(Int)
    BY <1>1, BeforeFirst
  <2>2. \A i \in Characters(P) : ~(i < 1)
    BY <1>2 DEF Characters
  <2>. QED  BY <2>1, <2>2 DEF SaidTo
<1>5. Bytes(P) \in Int
  BY <1>1, BytesType
<1>6. Len(<<>>) + Bytes(P) <= Bytes(P)
  BY <1>5
<1>7. PiecesRead(P, left, out, 1)
  BY <1>1, <1>2, <1>3, <1>4, <1>5, <1>6 DEF PiecesRead
<1>. QED  BY <1>1, <1>7 DEF StringInv

LEMMA RestOfPieces ==
  \A T : \A s \in Seq(T) : \A z \in 1 .. Len(s) : Tail(SubSeq(s, z, Len(s))) = SubSeq(s, z + 1, Len(s))
<1>. SUFFICES ASSUME NEW T, NEW s \in Seq(T), NEW z \in 1 .. Len(s)
              PROVE  Tail(SubSeq(s, z, Len(s))) = SubSeq(s, z + 1, Len(s))
  OBVIOUS
<1>1. Len(s) \in Nat /\ Len(s) \in z .. Len(s) /\ z \in 1 .. Len(s)
  OBVIOUS
<1>. QED  BY <1>1, HeadTailOfSubSeq

IsAhead(pieces, onward, z) ==
  /\ z \in 1 .. Len(pieces) /\ Len(pieces) \in Nat /\ onward \in Seq(Piece)
  /\ Head(onward) = pieces[z] /\ onward[1] = pieces[z] /\ pieces[z] \in Piece
  /\ Tail(onward) = SubSeq(pieces, z + 1, Len(pieces))
  /\ Len(onward) > 1 <=> z < Len(pieces)
  /\ Len(onward) > 1 => onward[2] = pieces[z + 1] /\ pieces[z + 1] \in Piece

(* What is left begins with the piece that is next.                        *)
LEMMA NextPiece ==
  ASSUME NEW pieces \in Seq(Piece), NEW onward, NEW bytes, NEW z, PiecesRead(pieces, onward, bytes, z)
  PROVE  /\ onward = <<>> => z = Len(pieces) + 1
         /\ onward # <<>> => IsAhead(pieces, onward, z)
<1>1. z \in 1 .. Len(pieces) + 1 /\ onward = SubSeq(pieces, z, Len(pieces)) /\ Len(pieces) \in Nat
  BY LenProperties DEF PiecesRead
<1>2. PartFacts(Piece, pieces, z, Len(pieces))
  <2>1. IsPart(Piece, pieces, z, Len(pieces))
    BY <1>1 DEF IsPart
  <2>. QED  BY <2>1, PartIs, Zenon
<1>3. /\ onward \in Seq(Piece) /\ Len(onward) = Len(pieces) + 1 - z
      /\ \A i \in 1 .. Len(pieces) + 1 - z : onward[i] = pieces[z + i - 1]
      /\ onward = <<>> <=> Len(pieces) = z - 1
  BY <1>1, <1>2 DEF PartFacts
<1>4. onward = <<>> <=> z = Len(pieces) + 1
  BY <1>1, <1>3
<1>5. ASSUME onward # <<>> PROVE IsAhead(pieces, onward, z)
  <2>1. z \in 1 .. Len(pieces)
    BY <1>1, <1>4, <1>5
  <2>2. onward[1] = pieces[z] /\ Head(onward) = onward[1]
    <3>1. 1 \in 1 .. Len(pieces) + 1 - z /\ z + 1 - 1 = z
      BY <1>1, <2>1
    <3>2. onward[1] = pieces[z + 1 - 1]
      BY <1>3, <3>1, Zenon
    <3>. QED  BY <1>3, <1>5, <3>1, <3>2
  <2>3. pieces[z] \in Piece
    BY <2>1, ElementOfSeq, Zenon
  <2>4. Tail(onward) = SubSeq(pieces, z + 1, Len(pieces))
    BY <1>1, <2>1, RestOfPieces, Zenon
  <2>5. Len(onward) > 1 <=> z < Len(pieces)
    BY <1>1, <1>3
  <2>6. ASSUME Len(onward) > 1 PROVE onward[2] = pieces[z + 1] /\ pieces[z + 1] \in Piece
    <3>1. 2 \in 1 .. Len(pieces) + 1 - z /\ z + 2 - 1 = z + 1 /\ z + 1 \in 1 .. Len(pieces)
      BY <1>1, <2>1, <2>5, <2>6
    <3>2. onward[2] = pieces[z + 2 - 1]
      BY <1>3, <3>1, Zenon
    <3>3. pieces[z + 1] \in Piece
      BY <3>1, ElementOfSeq, Zenon
    <3>. QED  BY <3>1, <3>2, <3>3
  <2>7. Head(onward) = pieces[z]
    BY <2>2, Zenon
  <2>. QED  BY <1>1, <1>3, <2>1, <2>2, <2>3, <2>4, <2>5, <2>6, <2>7, Zenon DEF IsAhead
<1>. QED  BY <1>4, <1>5, Zenon

(* One character more, with its pieces and its bytes.                      *)
LEMMA CharacterRead ==
  ASSUME NEW pieces \in Seq(Piece), NEW onward, NEW bytes, NEW a, NEW z,
         PiecesRead(pieces, onward, bytes, a), IsCharacter(pieces, a, z),
         NEW own \in Seq(Int), Len(own) = Length(pieces, a), Says(own, pieces, a),
         \A i \in a .. z - 1 : SoundAt(pieces, i),
         NEW behind, behind = SubSeq(pieces, z, Len(pieces)),
         Bytes(behind) \in Int, Len(own) + Bytes(behind) <= Bytes(onward)
  PROVE  PiecesRead(pieces, behind, bytes \o own, z)
<1>1. /\ ~Paired(pieces, z - 1) /\ z \in a + 1 .. Len(pieces) + 1
      /\ a \in 1 .. Len(pieces) /\ Len(pieces) \in Nat
  <2>1. ~Paired(pieces, z - 1) /\ z \in a + 1 .. Len(pieces) + 1
    BY CharacterEnds, Zenon
  <2>. QED  BY <2>1, LenProperties, Zenon DEF IsCharacter
<1>2. SaidTo(bytes, pieces, a) /\ bytes \in Seq(Int) /\ Len(bytes) \in Nat
  BY DEF PiecesRead, SaidTo
<1>3. SaidTo(bytes \o own, pieces, z)
  BY <1>2, CharacterSaid
<1>4. \A i \in 1 .. z - 1 : SoundAt(pieces, i)
  <2>. TAKE i \in 1 .. z - 1
  <2>1. i \in 1 .. a - 1 \/ i \in a .. z - 1
    BY <1>1
  <2>. QED  BY <2>1 DEF PiecesRead
<1>5. Len(bytes \o own) + Bytes(behind) <= Bytes(pieces)
  <2>1. Len(bytes \o own) = Len(bytes) + Len(own) /\ Len(own) \in Nat
    BY <1>2
  <2>2. /\ Len(bytes) + Bytes(onward) <= Bytes(pieces)
        /\ Bytes(onward) \in Int /\ Bytes(pieces) \in Int
    BY BytesType DEF PiecesRead
  <2>. QED  BY <1>2, <2>1, <2>2
<1>6. z \in 1 .. Len(pieces) + 1
  BY <1>1
<1>. QED  BY <1>1, <1>3, <1>4, <1>5, <1>6, Zenon DEF PiecesRead

LEMMA RoomForSix == \A l \in 1 .. 6 : \A x, y \in Int : y = 6 + x => l + x <= y
OBVIOUS

LEMMA PieceCode ==
  ASSUME NEW piece \in Piece
  PROVE  /\ piece.code \in Nat /\ piece.code < 65536
         /\ piece.kind \in {"byte", "escape", "u", "unknown", "badhex"}
BY SMT DEF Piece, Below

(* A byte or an escape. *)
LEMMA OneByteRead ==
  ASSUME NEW pieces \in Seq(Piece), NEW onward, NEW bytes, NEW a,
         PiecesRead(pieces, onward, bytes, a), onward # <<>>, Head(onward).kind \in {"byte", "escape"}
  PROVE  PiecesRead(pieces, Tail(onward), Append(bytes, Head(onward).code), a + 1)
<1>0. IsAhead(pieces, onward, a)
  BY NextPiece, Zenon
<1>1. /\ a \in 1 .. Len(pieces) /\ Head(onward) = pieces[a] /\ pieces[a] \in Piece
      /\ Tail(onward) = SubSeq(pieces, a + 1, Len(pieces)) /\ onward \in Seq(Piece)
  BY <1>0, Zenon DEF IsAhead
<1>2. PICK code \in Int : code = pieces[a].code
  BY <1>1, PieceCode
<1>3. pieces[a].kind \in {"byte", "escape"}
  BY <1>1
<1>4. ~Paired(pieces, a)
  BY <1>3 DEF Paired
<1>5. IsCharacter(pieces, a, a + 1)
  BY <1>1, <1>4 DEF IsCharacter, PiecesRead
<1>6. <<code>> \in Seq(Int) /\ Len(<<code>>) = 1
  OBVIOUS
<1>7. Length(pieces, a) = 1 /\ Says(<<code>>, pieces, a)
  BY <1>2, <1>3 DEF Length, Says
<1>8. \A i \in a .. (a + 1) - 1 : SoundAt(pieces, i)
  <2>1. SoundAt(pieces, a)
    BY <1>3 DEF SoundAt
  <2>2. \A i \in a .. (a + 1) - 1 : i = a
    BY <1>1
  <2>. QED  BY <2>1, <2>2, Zenon
<1>9. Bytes(Tail(onward)) \in Int /\ 1 + Bytes(Tail(onward)) <= Bytes(onward)
  <2>1. Bytes(Tail(onward)) \in Int /\ Bytes(onward) = Width(Head(onward)) + Bytes(Tail(onward))
    BY <1>1, BytesTail, Zenon
  <2>2. PICK w \in 1 .. 6 : w = Width(Head(onward))
    BY WidthType
  <2>. QED  BY <2>1, <2>2
<1>10. Append(bytes, code) = bytes \o <<code>>
  <2>1. bytes \in Seq(Int)
    BY DEF PiecesRead, SaidTo
  <2>. QED  BY <2>1, AppendIsConcat
<1>11. PiecesRead(pieces, Tail(onward), bytes \o <<code>>, a + 1)
  BY <1>1, <1>5, <1>6, <1>7, <1>8, <1>9, CharacterRead
<1>. QED  BY <1>1, <1>2, <1>10, <1>11, Zenon

(* A \u that is a character of its own. *)
LEMMA CodeUnitRead ==
  ASSUME NEW pieces \in Seq(Piece), NEW onward, NEW bytes, NEW a,
         PiecesRead(pieces, onward, bytes, a), onward # <<>>, Head(onward).kind = "u", ~HighHalf(onward)
  PROVE  PiecesRead(pieces, Tail(onward), bytes \o PutUtf8(Head(onward).code), a + 1)
<1>0. IsAhead(pieces, onward, a)
  BY NextPiece, Zenon
<1>1. /\ a \in 1 .. Len(pieces) /\ Head(onward) = pieces[a] /\ onward[1] = pieces[a] /\ pieces[a] \in Piece
      /\ Tail(onward) = SubSeq(pieces, a + 1, Len(pieces)) /\ onward \in Seq(Piece)
      /\ Len(onward) > 1 <=> a < Len(pieces)
      /\ Len(onward) > 1 => onward[2] = pieces[a + 1]
      /\ Len(pieces) \in Nat
  BY <1>0, Zenon DEF IsAhead
<1>2. /\ pieces[a].kind = "u" /\ pieces[a].code \in Nat /\ pieces[a].code < 65536
  BY <1>1, PieceCode
<1>3. High(pieces[a].code) => a = Len(pieces) \/ pieces[a + 1].kind \notin {"u", "badhex"}
  BY <1>1 DEF HighHalf
<1>4. ~Paired(pieces, a)
  BY <1>1, <1>3 DEF Paired
<1>5. IsCharacter(pieces, a, a + 1)
  BY <1>1, <1>4 DEF IsCharacter, PiecesRead
<1>. DEFINE own == PutUtf8(pieces[a].code)
<1>6. own \in Seq(Int) /\ IsUtf8(own, pieces[a].code)
  <2>1. pieces[a].code < 1114112
    BY <1>2, SMT
  <2>. QED  BY <1>2, <2>1, Utf8IsWritten, SMT
<1>7. Len(own) = Length(pieces, a) /\ Says(own, pieces, a)
  <2>1. CodePoint(pieces, a) = pieces[a].code
    BY <1>4, SMT DEF CodePoint
  <2>. HIDE DEF own
  <2>. QED  BY <1>2, <1>6, <2>1 DEF Length, Says, IsUtf8
<1>8. \A i \in a .. (a + 1) - 1 : SoundAt(pieces, i)
  <2>1. SoundAt(pieces, a)
    BY <1>2, <1>3 DEF SoundAt
  <2>2. \A i \in a .. (a + 1) - 1 : i = a
    BY <1>1
  <2>. QED  BY <2>1, <2>2, Zenon
<1>9. Bytes(Tail(onward)) \in Int /\ Len(own) + Bytes(Tail(onward)) <= Bytes(onward)
  <2>1. Bytes(Tail(onward)) \in Int /\ Bytes(onward) = 6 + Bytes(Tail(onward))
    <3>1. Width(Head(onward)) = 6
      BY <1>1, <1>2 DEF Width
    <3>. QED  BY <1>1, <3>1, BytesTail
  <2>2. Len(own) \in 1 .. 6
    <3>1. Length(pieces, a) \in 1 .. 4
      BY LengthType
    <3>. QED  BY <1>7, <3>1
  <2>3. Bytes(onward) \in Int
    BY <2>1
  <2>. HIDE DEF own
  <2>. QED  BY <2>1, <2>2, <2>3, Zenon, RoomForSix
<1>10. PiecesRead(pieces, Tail(onward), bytes \o own, a + 1)
  <2>. HIDE DEF own
  <2>. QED  BY <1>1, <1>5, <1>6, <1>7, <1>8, <1>9, CharacterRead
<1>. QED  BY <1>1, <1>10

(* Two \u that are one. *)
LEMMA PairRead ==
  ASSUME NEW pieces \in Seq(Piece), NEW onward, NEW bytes, NEW a,
         PiecesRead(pieces, onward, bytes, a), onward # <<>>, Head(onward).kind = "u", HighHalf(onward),
         onward[2].kind = "u", Low(onward[2].code)
  PROVE  PiecesRead(pieces, SubSeq(onward, 3, Len(onward)),
                    bytes \o PutUtf8(Joined(onward[1].code, onward[2].code)), a + 2)
<1>0. IsAhead(pieces, onward, a)
  BY NextPiece, Zenon
<1>1. /\ a \in 1 .. Len(pieces) /\ Head(onward) = pieces[a] /\ onward[1] = pieces[a] /\ pieces[a] \in Piece
      /\ Tail(onward) = SubSeq(pieces, a + 1, Len(pieces)) /\ onward \in Seq(Piece)
      /\ Len(onward) > 1 <=> a < Len(pieces)
      /\ Len(onward) > 1 => onward[2] = pieces[a + 1] /\ pieces[a + 1] \in Piece
      /\ Len(pieces) \in Nat
  BY <1>0, Zenon DEF IsAhead
<1>2. Len(onward) > 1 /\ High(pieces[a].code) /\ a + 1 \in 1 .. Len(pieces) /\ a + 1 \in Nat
  BY <1>1 DEF HighHalf
<1>3. /\ pieces[a].kind = "u" /\ pieces[a].code \in Nat
      /\ pieces[a + 1].kind = "u" /\ pieces[a + 1].code \in Nat /\ Low(pieces[a + 1].code)
  BY <1>1, <1>2, PieceCode
<1>4. Paired(pieces, a)
  BY <1>1, <1>2, <1>3 DEF Paired
<1>5. IsCharacter(pieces, a, a + 2)
  BY <1>1, <1>4 DEF IsCharacter, PiecesRead
<1>. DEFINE code == Joined(pieces[a].code, pieces[a + 1].code)
            own  == PutUtf8(code)
            behind == SubSeq(onward, 3, Len(onward))
<1>6. code = CodePoint(pieces, a) /\ own \in Seq(Int) /\ IsUtf8(own, code)
  <2>1. /\ code = 65536 + (pieces[a].code % 1024) * 1024 + (pieces[a + 1].code % 1024)
        /\ code \in Nat /\ code < 1114112
    <3>1. PICK high \in Nat, low \in Nat : high = pieces[a].code /\ low = pieces[a + 1].code
      BY <1>3
    <3>2. High(high) /\ Low(low)
      BY <1>2, <1>3, <3>1
    <3>3. /\ Joined(high, low) = 65536 + (high % 1024) * 1024 + (low % 1024)
          /\ Joined(high, low) \in Nat /\ Joined(high, low) < 1114112
      BY <3>2, PairIsJoined, SMT
    <3>. QED  BY <3>1, <3>3, SMT
  <2>2. code = CodePoint(pieces, a)
    BY <1>4, <2>1, SMT DEF CodePoint
  <2>. HIDE DEF code
  <2>. QED  BY <2>1, <2>2, Utf8IsWritten, SMT
<1>7. Len(own) = Length(pieces, a) /\ Says(own, pieces, a)
  <2>. HIDE DEF code, own
  <2>. QED  BY <1>3, <1>6 DEF Length, Says, IsUtf8
<1>8. \A i \in a .. (a + 2) - 1 : SoundAt(pieces, i)
  <2>1. SoundAt(pieces, a)
    BY <1>3, <1>4 DEF SoundAt
  <2>2. SoundAt(pieces, a + 1)
    <3>1. ~High(pieces[a + 1].code)
      BY <1>3, LowIsNotHigh
    <3>. QED  BY <1>3, <3>1 DEF SoundAt
  <2>3. \A i \in a .. (a + 2) - 1 : i = a \/ i = a + 1
    BY <1>1
  <2>. QED  BY <2>1, <2>2, <2>3, Zenon
<1>9. Tail(onward) \in Seq(Piece) /\ Tail(onward) # <<>> /\ Head(Tail(onward)) = pieces[a + 1]
  <2>1. Tail(onward) \in Seq(Piece) /\ Len(Tail(onward)) = Len(onward) - 1 /\ Tail(onward)[1] = onward[2]
    <3>1. onward # <<>> /\ Len(onward) \in Nat
      BY <1>1
    <3>2. Tail(onward) \in Seq(Piece) /\ Len(Tail(onward)) = Len(onward) - 1
      BY <1>1, <3>1
    <3>3. \A i \in 1 .. Len(Tail(onward)) : Tail(onward)[i] = onward[i + 1]
      BY <1>1, HeadTailProperties
    <3>4. 1 \in 1 .. Len(Tail(onward)) /\ 1 + 1 = 2
      BY <1>2, <3>1, <3>2
    <3>5. Tail(onward)[1] = onward[1 + 1]
      BY <3>3, <3>4, Zenon
    <3>. QED  BY <3>2, <3>4, <3>5
  <2>2. Tail(onward) # <<>>
    <3>1. Len(Tail(onward)) # 0
      BY <1>1, <1>2, <2>1
    <3>. QED  BY <3>1, EmptySeq, Zenon
  <2>3. Head(Tail(onward)) = Tail(onward)[1]
    BY <2>1, <2>2
  <2>. QED  BY <1>1, <1>2, <2>1, <2>2, <2>3, Zenon
<1>10. behind = SubSeq(pieces, a + 2, Len(pieces)) /\ behind = Tail(Tail(onward))
  <2>1. Tail(Tail(onward)) = SubSeq(pieces, a + 2, Len(pieces))
    <3>1. Tail(SubSeq(pieces, a + 1, Len(pieces))) = SubSeq(pieces, (a + 1) + 1, Len(pieces))
      BY <1>2, RestOfPieces, Zenon
    <3>2. (a + 1) + 1 = a + 2
      BY <1>1
    <3>. QED  BY <1>1, <3>1, <3>2
  <2>2. behind = Tail(Tail(onward))
    <3>1. Tail(onward) = SubSeq(onward, 2, Len(onward))
      BY <1>1, TailIsSubSeq, Zenon
    <3>2. 2 \in 1 .. Len(onward) /\ 2 + 1 = 3
      BY <1>1, <1>2
    <3>3. Tail(SubSeq(onward, 2, Len(onward))) = SubSeq(onward, 2 + 1, Len(onward))
      BY <1>1, <3>2, RestOfPieces, Zenon
    <3>. QED  BY <3>1, <3>2, <3>3
  <2>. QED  BY <2>1, <2>2
<1>11. Bytes(behind) \in Int /\ Len(own) + Bytes(behind) <= Bytes(onward)
  <2>1. Width(Head(onward)) = 6 /\ Width(Head(Tail(onward))) = 6
    BY <1>1, <1>3, <1>9 DEF Width
  <2>2. Bytes(Tail(onward)) \in Int /\ Bytes(onward) = 6 + Bytes(Tail(onward))
    BY <1>1, <2>1, BytesTail
  <2>3. Bytes(Tail(Tail(onward))) \in Int /\ Bytes(Tail(onward)) = 6 + Bytes(Tail(Tail(onward)))
    BY <1>9, <2>1, BytesTail
  <2>4. Len(own) \in 1 .. 6
    <3>1. Length(pieces, a) \in 1 .. 4
      BY LengthType
    <3>. QED  BY <1>7, <3>1
  <2>5. /\ Len(own) + Bytes(Tail(Tail(onward))) <= Bytes(Tail(onward))
        /\ Bytes(Tail(onward)) <= Bytes(onward)
    <3>1. Len(own) + Bytes(Tail(Tail(onward))) <= Bytes(Tail(onward))
      <4>. HIDE DEF own
      <4>. QED  BY <2>2, <2>3, <2>4, Zenon, RoomForSix
    <3>2. Bytes(Tail(onward)) <= Bytes(onward)
      BY <2>2
    <3>. QED  BY <3>1, <3>2
  <2>6. \A l, x, y, z \in Int : l + x <= y /\ y <= z => l + x <= z
    OBVIOUS
  <2>7. Len(own) \in Int /\ Bytes(onward) \in Int
    BY <2>2, <2>4
  <2>. HIDE DEF own, behind
  <2>. QED  BY <1>10, <2>2, <2>3, <2>5, <2>6, <2>7, Zenon
<1>12. PiecesRead(pieces, behind, bytes \o own, a + 2)
  <2>. HIDE DEF own, behind
  <2>. QED  BY <1>5, <1>6, <1>7, <1>8, <1>10, <1>11, CharacterRead
<1>. QED  BY <1>1, <1>2, <1>12

(* A string is only refused for a piece that has no sense where it stands. *)
LEMMA RefusedForCause ==
  ASSUME StringInv, RefuseString
  PROVE  ~(quoted.closed /\ Sound(quoted.pieces))
<1>. DEFINE P == quoted.pieces
<1>1. PICK z : PiecesRead(P, left, out, z)
  BY DEF StringInv
<1>2. P \in Seq(Piece)
  BY DEF StringInv
<1>3. ASSUME left # <<>> PROVE IsAhead(P, left, z)
  BY <1>1, <1>2, <1>3, NextPiece, Zenon
<1>4. CASE Reading({"unknown", "badhex"})
  <2>1. IsAhead(P, left, z) /\ Head(left).kind \in {"unknown", "badhex"}
    BY <1>3, <1>4, Zenon DEF Reading
  <2>2. z \in DOMAIN P /\ P[z].kind \in {"unknown", "badhex"}
    <3>1. z \in 1 .. Len(P) /\ Head(left) = P[z]
      BY <2>1, Zenon DEF IsAhead
    <3>. QED  BY <1>2, <2>1, <3>1
  <2>3. ~SoundAt(P, z)
    BY <2>2 DEF SoundAt
  <2>. QED  BY <2>2, <2>3 DEF Sound
<1>5. CASE Reading({"u"}) /\ HighHalf(left) /\ ~(left[2].kind = "u" /\ Low(left[2].code))
  <2>1. IsAhead(P, left, z) /\ Head(left).kind = "u"
    BY <1>3, <1>5, Zenon DEF Reading
  <2>2. /\ z \in 1 .. Len(P) /\ z < Len(P) /\ P[z].kind = "u" /\ High(P[z].code)
        /\ P[z + 1].kind \in {"u", "badhex"}
        /\ ~(P[z + 1].kind = "u" /\ Low(P[z + 1].code))
    BY <1>5, <2>1 DEF IsAhead, HighHalf
  <2>3. ~Paired(P, z)
    BY <2>2, Zenon DEF Paired
  <2>4. z # Len(P) /\ z \in DOMAIN P
    BY <1>2, <2>2
  <2>5. ~SoundAt(P, z)
    BY <2>2, <2>3, <2>4, Zenon DEF SoundAt
  <2>. QED  BY <2>4, <2>5 DEF Sound
<1>6. CASE ~quoted.closed
  BY <1>6
<1>. QED  BY <1>4, <1>5, <1>6 DEF RefuseString

LEMMA StringInvStep == StringInv /\ [StringNext]_svars => StringInv'
<1>. SUFFICES ASSUME StringInv, [StringNext]_svars PROVE StringInv'
  OBVIOUS
<1>. DEFINE P == quoted.pieces
<1>1. PICK z : PiecesRead(P, left, out, z)
  BY DEF StringInv
<1>2. P \in Seq(Piece)
  BY DEF StringInv
<1>3. ASSUME quoted' = quoted, parsed' = "no", NEW y, PiecesRead(P, left', out', y)
      PROVE  StringInv'
  BY <1>2, <1>3 DEF StringInv
<1>4. CASE OneByte
  <2>1. PiecesRead(P, left', out', z + 1)
    BY <1>1, <1>2, <1>4, OneByteRead DEF OneByte, Reading
  <2>. QED  BY <1>3, <1>4, <2>1 DEF OneByte, Reading
<1>5. CASE CodeUnit
  <2>1. PiecesRead(P, left', out', z + 1)
    BY <1>1, <1>2, <1>5, CodeUnitRead DEF CodeUnit, Reading
  <2>. QED  BY <1>3, <1>5, <2>1 DEF CodeUnit, Reading
<1>6. CASE Pair
  <2>1. PiecesRead(P, left', out', z + 2)
    BY <1>1, <1>2, <1>6, PairRead DEF Pair, Reading
  <2>. QED  BY <1>3, <1>6, <2>1 DEF Pair, Reading
<1>7. CASE RefuseString
  <2>1. ~(quoted.closed /\ Sound(P))
    BY <1>7, RefusedForCause, Zenon
  <2>2. UNCHANGED <<quoted, left, out>> /\ parsed' = "refused"
    BY <1>7 DEF RefuseString
  <2>. QED  BY <1>1, <1>2, <2>1, <2>2 DEF StringInv
<1>8. CASE CloseString
  <2>1. UNCHANGED <<quoted, left, out>> /\ parsed' = "yes" /\ left = <<>> /\ quoted.closed
    BY <1>8 DEF CloseString
  <2>. QED  BY <1>1, <1>2, <2>1 DEF StringInv
<1>9. CASE UNCHANGED svars
  BY <1>9 DEF StringInv, svars
<1>. QED  BY <1>4, <1>5, <1>6, <1>7, <1>8, <1>9 DEF StringNext

LEMMA StringInvMeans == StringInv => SaysWhatItMeans
<1>. SUFFICES ASSUME StringInv PROVE SaysWhatItMeans
  OBVIOUS
<1>. DEFINE P == quoted.pieces
<1>1. PICK z : PiecesRead(P, left, out, z)
  BY DEF StringInv
<1>2. P \in Seq(Piece) /\ Len(P) \in Nat
  BY LenProperties DEF StringInv
<1>3. Len(out) + Bytes(left) <= Bytes(P)
  BY <1>1 DEF PiecesRead
<1>4. ASSUME parsed = "yes"
      PROVE  /\ quoted.closed /\ Sound(P)
             /\ Len(out) = Before(P, Len(P) + 1) /\ Len(out) + 1 <= Room
             /\ \A i \in Characters(P) : Says(Own(out, P, i), P, i)
  <2>1. left = <<>> /\ quoted.closed
    BY <1>4 DEF StringInv
  <2>2. z = Len(P) + 1
    BY <1>1, <1>2, <2>1, NextPiece, Zenon
  <2>3. SaidTo(out, P, Len(P) + 1) /\ \A i \in 1 .. Len(P) : SoundAt(P, i)
    BY <1>1, <1>2, <2>2 DEF PiecesRead
  <2>4. Sound(P)
    BY <1>2, <2>3 DEF Sound
  <2>5. Len(out) + 1 <= Room
    <3>1. Len(out) \in Nat /\ Bytes(P) \in Int
      BY <1>2, <2>3, BytesType DEF SaidTo
    <3>2. Room = Bytes(P) + 1 + 1
      BY <2>1 DEF Room
    <3>3. Len(out) + 0 <= Bytes(P)
      BY <1>3, <2>1, NoBytes
    <3>. QED  BY <3>1, <3>2, <3>3
  <2>6. \A i \in Characters(P) : Says(Own(out, P, i), P, i)
    <3>. TAKE i \in Characters(P)
    <3>1. i < Len(P) + 1
      BY <1>2 DEF Characters
    <3>. QED  BY <2>3, <3>1, Zenon DEF SaidTo, Stands
  <2>. QED  BY <2>1, <2>3, <2>4, <2>5, <2>6, Zenon DEF SaidTo
<1>. QED  BY <1>3, <1>4, Zenon DEF SaysWhatItMeans, StringInv

(* A string of a JSON text is in UTF-8 what its text says, character by    *)
(* character, two halves of a surrogate pair as one; it is refused only    *)
(* for a cause, and what parse_string writes, with the NUL, never runs     *)
(* past the buffer: for strings of any length.                             *)
THEOREM StringsSayWhatTheyMean == StringInit /\ [][StringNext]_svars => []SaysWhatItMeans
<1>1. StringInv /\ [StringNext]_svars => StringInv'
  BY StringInvStep
<1>. QED  BY <1>1, StringInvInit, StringInvMeans, PTL
=============================================================================
