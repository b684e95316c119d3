---------------------------- MODULE MarksProofs ----------------------------
(***************************************************************************)
(* What summarise and the scoring loop make of the marks of a submission,  *)
(* for submissions of any length, and the facts about natural numbers,     *)
(* sums and places that the other proofs need: a set of naturals has a     *)
(* least one, a set that holds 0 and one more than each of its members     *)
(* holds them all, a sum over a finite set can be taken one element at a   *)
(* time, and so can the places of a text, in their order; a part of a text *)
(* has what stands between its ends.                                       *)
(***************************************************************************)
EXTENDS Marks, Places, FiniteSetsExt, TLAPS, FiniteSetTheorems, SequenceTheorems

(* A set of natural numbers has a least one, and Min is it.                *)
LEMMA LeastNatural ==
  ASSUME NEW S \in SUBSET Nat, S # {}
  PROVE  Min(S) \in S /\ \A y \in S : Min(S) <= y
<1>1. IsWellFoundedOn(OpToRel(<, Nat), Nat)
  BY NatLessThanWellFounded
<1>2. PICK x \in S : \A y \in S : ~(<<y, x>> \in OpToRel(<, Nat))
  BY <1>1, WFMin
<1>3. ASSUME NEW y \in S PROVE x <= y
  <2>1. ~(y < x)
    BY <1>2, Zenon DEF OpToRel
  <2>. QED  BY <2>1
<1>. QED  BY <1>3 DEF Min

(* What holds of 0, and of n + 1 when of n, holds of every natural number. *)
LEMMA InductiveSet ==
  ASSUME NEW S, 0 \in S, \A n \in Nat : n \in S => n + 1 \in S
  PROVE  Nat \subseteq S
<1>. SUFFICES ASSUME Nat \ S # {} PROVE FALSE
  OBVIOUS
<1>1. Min(Nat \ S) \in Nat \ S /\ \A y \in Nat \ S : Min(Nat \ S) <= y
  BY LeastNatural
<1>. DEFINE least == Min(Nat \ S)
<1>2. least \in Nat /\ least \notin S /\ least # 0
  BY <1>1
<1>3. least - 1 \in Nat /\ ~(least <= least - 1)
  BY <1>2
<1>4. least - 1 \in S
  BY <1>1, <1>3
<1>. QED  BY <1>2, <1>3, <1>4

(* summarise gives one of the four marks whatever it is handed.            *)
LEMMA SummariseType ==
  ASSUME NEW marks
  PROVE  Summarise(marks) \in Mark
BY DEF Summarise, Mark, TestMark, NotBuilt

(* No more tests are passed than there are marks.                          *)
LEMMA PassedBounds ==
  ASSUME NEW marks \in Seq(Mark)
  PROVE  Passed(marks) \in 0 .. Len(marks)
<1>. DEFINE passes == {i \in DOMAIN marks : marks[i] = "+"}
<1>1. DOMAIN marks = 1 .. Len(marks) /\ Len(marks) \in Nat
  OBVIOUS
<1>2. IsFiniteSet(1 .. Len(marks)) /\ Cardinality(1 .. Len(marks)) = Len(marks)
  BY <1>1, FS_Interval, SMTT(30)
<1>3. passes \in SUBSET (1 .. Len(marks))
  BY <1>1
<1>4. IsFiniteSet(passes) /\ Cardinality(passes) <= Len(marks)
  <2>. HIDE DEF passes
  <2>1. IsFiniteSet(passes) /\ Cardinality(passes) <= Cardinality(1 .. Len(marks))
    BY <1>2, <1>3, FS_Subset
  <2>. QED  BY <1>2, <2>1
<1>5. Cardinality(passes) \in Nat
  BY <1>4, FS_CardinalityType
<1>. QED  BY <1>1, <1>4, <1>5 DEF Passed

(* Every test is passed exactly if every mark is a +.                      *)
LEMMA AllPassed ==
  ASSUME NEW marks \in Seq(Mark)
  PROVE  Passed(marks) = Len(marks) <=> \A i \in DOMAIN marks : marks[i] = "+"
<1>. DEFINE passes == {i \in DOMAIN marks : marks[i] = "+"}
<1>1. DOMAIN marks = 1 .. Len(marks) /\ Len(marks) \in Nat
  OBVIOUS
<1>2. IsFiniteSet(1 .. Len(marks)) /\ Cardinality(1 .. Len(marks)) = Len(marks)
  BY <1>1, FS_Interval
<1>3. passes \in SUBSET (1 .. Len(marks))
  BY <1>1
<1>4. Cardinality(1 .. Len(marks)) = Cardinality(passes) => 1 .. Len(marks) = passes
  BY <1>2, <1>3, FS_Subset
<1>5. CASE Passed(marks) = Len(marks)
  BY <1>1, <1>2, <1>4, <1>5 DEF Passed
<1>6. CASE \A i \in DOMAIN marks : marks[i] = "+"
  <2>1. passes = 1 .. Len(marks)
    BY <1>1, <1>6
  <2>. QED  BY <1>2, <1>6, <2>1 DEF Passed
<1>. QED  BY <1>5, <1>6

LEMMA QuotientBounds ==
  ASSUME NEW a \in Nat, NEW b \in Nat \ {0}, NEW q \in Nat, a <= q * b
  PROVE  a \div b \in 0 .. q
<1>1. a \div b \in Nat /\ b * (a \div b) <= a
  OBVIOUS
<1>2. SUFFICES ASSUME a \div b > q PROVE FALSE
  BY <1>1
<1>3. b * (a \div b) >= b * (q + 1)
  BY <1>1, <1>2
<1>. QED  BY <1>1, <1>3

(* A score is never negative, and never more than the problem is worth:    *)
(* the scoring loop of main.                                               *)
THEOREM ScoreBounds ==
  ASSUME NEW points \in Nat, NEW tests \in Nat, NEW passed \in 0 .. tests
  PROVE  Score(points, passed, tests) \in 0 .. points
<1>1. points * passed \in Nat /\ points * passed <= points * tests
  OBVIOUS
<1>. QED  BY <1>1, QuotientBounds DEF Score

LEMMA FullPay ==
  ASSUME NEW points \in Nat \ {0}, NEW tests \in Nat \ {0}, NEW passed \in 0 .. tests
  PROVE  Score(points, passed, tests) = points <=> passed = tests
<1>1. CASE passed = tests
  <2>1. (points * tests) \div tests = points
    OBVIOUS
  <2>. QED  BY <1>1, <2>1 DEF Score
<1>2. CASE passed < tests
  <2>1. points * passed \in Nat /\ points * passed < points * tests
    BY <1>2
  <2>2. tests * ((points * passed) \div tests) <= points * passed
    BY <2>1
  <2>. QED  BY <1>2, <2>1, <2>2 DEF Score
<1>. QED  BY <1>1, <1>2

(* A problem worth a point or more is paid out in full exactly to the row  *)
(* of marks that passed every one of its tests, and of the rows that have  *)
(* a mark for every test those are exactly the ones summarise makes a + of *)
(* (a shorter row may be a + without the points: see PlusMeansAllPassed).  *)
AllPasses(tests) == [i \in 1 .. tests |-> "+"]

THEOREM FullScore ==
  ASSUME NEW points \in Nat \ {0}, NEW tests \in Nat \ {0},
         NEW marks \in Seq(Mark), Len(marks) <= tests
  PROVE  /\ Score(points, Passed(marks), tests) = points <=> marks = AllPasses(tests)
         /\ Len(marks) = tests => (Summarise(marks) = "+" <=> marks = AllPasses(tests))
<1>1. DOMAIN marks = 1 .. Len(marks) /\ Len(marks) \in Nat
  OBVIOUS
<1>2. Passed(marks) \in 0 .. Len(marks)
  BY PassedBounds
<1>3. Score(points, Passed(marks), tests) = points <=> Passed(marks) = tests
  BY <1>1, <1>2, FullPay
<1>4. marks = AllPasses(tests) <=> Len(marks) = tests /\ \A i \in DOMAIN marks : marks[i] = "+"
  <2>1. CASE marks = AllPasses(tests)
    <3>1. /\ DOMAIN AllPasses(tests) = 1 .. tests /\ Len(AllPasses(tests)) = tests
          /\ \A i \in 1 .. tests : AllPasses(tests)[i] = "+"
      BY DEF AllPasses
    <3>. QED  BY <2>1, <3>1, Zenon
  <2>2. ASSUME Len(marks) = tests, \A i \in DOMAIN marks : marks[i] = "+"
        PROVE  marks = AllPasses(tests)
    <3>1. marks = [i \in 1 .. tests |-> marks[i]]
      BY <1>1, <2>2
    <3>2. \A i \in 1 .. tests : marks[i] = "+"
      BY <1>1, <2>2
    <3>. QED  BY <3>1, <3>2 DEF AllPasses
  <2>. QED  BY <2>1, <2>2
<1>5. Passed(marks) = tests <=> marks = AllPasses(tests)
  <2>1. Passed(marks) = Len(marks) <=> \A i \in DOMAIN marks : marks[i] = "+"
    BY AllPassed
  <2>2. /\ Len(marks) \in Nat /\ Len(marks) <= tests
        /\ Passed(marks) \in Nat /\ Passed(marks) <= Len(marks)
    <3>1. Len(marks) \in Nat
      BY <1>1
    <3>. QED  BY <1>2, <3>1
  <2>3. ASSUME NEW n \in Nat, NEW p \in Nat, n <= tests, p <= n
        PROVE  p = tests <=> n = tests /\ p = n
    BY <2>3
  <2>4. Passed(marks) = tests <=> Len(marks) = tests /\ Passed(marks) = Len(marks)
    BY <2>2, <2>3, Zenon
  <2>. QED  BY <1>4, <2>1, <2>4, Zenon
<1>6. Len(marks) = tests => (Summarise(marks) = "+" <=> \A i \in DOMAIN marks : marks[i] = "+")
  <2>. SUFFICES ASSUME Len(marks) = tests
                PROVE  Summarise(marks) = "+" <=> \A i \in DOMAIN marks : marks[i] = "+"
    OBVIOUS
  <2>1. marks # <<>> /\ 1 \in DOMAIN marks
    BY <1>1
  <2>2. marks = <<NotBuilt>> => marks[1] # "+"
    BY DEF NotBuilt
  <2>. QED  BY <2>1, <2>2 DEF Summarise, NotBuilt
<1>. QED  BY <1>3, <1>4, <1>5, <1>6

(* A sum over a finite set as the community modules define it: a function  *)
(* on the subsets that takes away one element at a time.                   *)
Pick(s)    == CHOOSE x \in s : TRUE
IsSum(g, f, S) ==
  g = [s \in SUBSET S |-> IF s = {} THEN 0 ELSE f[Pick(s)] + g[s \ {Pick(s)}]]

LEMMA PickOne == ASSUME NEW s, s # {} PROVE Pick(s) \in s
  BY DEF Pick

OneLessEach(S) ==
  \A s \in SUBSET S : \A x \in s :
    /\ s \ {x} \in SUBSET S
    /\ Cardinality(s) \in Nat \ {0} /\ Cardinality(s \ {x}) = Cardinality(s) - 1

LEMMA OneLess == ASSUME NEW S, IsFiniteSet(S) PROVE OneLessEach(S)
<1>. SUFFICES \A s \in SUBSET S : \A x \in s :
                /\ s \ {x} \in SUBSET S
                /\ Cardinality(s) \in Nat \ {0} /\ Cardinality(s \ {x}) = Cardinality(s) - 1
  BY DEF OneLessEach
<1>. TAKE s \in SUBSET S
<1>. TAKE x \in s
<1>1. IsFiniteSet(s)
  BY FS_Subset
<1>2. Cardinality(s) \in Nat /\ Cardinality(s \ {x}) \in Nat /\ Cardinality(s \ {x}) = Cardinality(s) - 1
  BY <1>1, FS_CardinalityType, FS_RemoveElement
<1>. QED  BY <1>1, <1>2, FS_RemoveElement

(* The function is there: one on the subsets of n elements at most makes   *)
(* one on those of n + 1.                                                  *)
LEMMA SumExists ==
  ASSUME NEW S, IsFiniteSet(S), NEW f
  PROVE  \E g : IsSum(g, f, S)
<1>. DEFINE Small(n)  == {s \in SUBSET S : Cardinality(s) <= n}
            Next(g, n) == [s \in Small(n) |-> IF s = {} THEN 0 ELSE f[Pick(s)] + g[s \ {Pick(s)}]]
            Done      == {n \in Nat : \E g : g = Next(g, n)}
<1>0. OneLessEach(S)
  BY OneLess
<1>1. 0 \in Done
  <2>1. \A s \in Small(0) : s = {}
    <3>. SUFFICES ASSUME NEW s \in Small(0), s # {} PROVE FALSE
      OBVIOUS
    <3>1. Pick(s) \in s
      BY PickOne
    <3>2. s \in SUBSET S /\ Cardinality(s) <= 0
      OBVIOUS
    <3>3. Cardinality(s) \in Nat \ {0}
      BY <1>0, <3>1, <3>2, Zenon DEF OneLessEach
    <3>. QED  BY <3>2, <3>3
  <2>. DEFINE none == [s \in Small(0) |-> 0]
  <2>2. none = Next(none, 0)
    BY <2>1
  <2>. QED  BY <2>2
<1>2. ASSUME NEW n \in Nat, n \in Done PROVE n + 1 \in Done
  <2>1. PICK g : g = Next(g, n)
    BY <1>2
  <2>. DEFINE h == Next(g, n + 1)
  <2>2. ASSUME NEW s \in Small(n + 1), s # {}
        PROVE  s \ {Pick(s)} \in Small(n)
    <3>1. Pick(s) \in s
      BY <2>2, PickOne
    <3>. QED  BY <1>0, <3>1 DEF OneLessEach
  <2>3. \A s \in Small(n) : s \in Small(n + 1)
    <3>1. \A s \in SUBSET S : Cardinality(s) \in Nat
      BY FS_Subset, FS_CardinalityType
    <3>. QED  BY <3>1
  <2>4. \A s \in Small(n) : h[s] = g[s]
    BY <2>1, <2>3
  <2>5. h = Next(h, n + 1)
    BY <2>2, <2>4
  <2>. HIDE DEF h, Next
  <2>. QED  BY <2>5
<1>3. Cardinality(S) \in Done
  <2>. HIDE DEF Done
  <2>1. Nat \subseteq Done
    BY <1>1, <1>2, InductiveSet
  <2>. QED  BY <2>1, FS_CardinalityType
<1>4. Small(Cardinality(S)) = SUBSET S
  BY FS_Subset
<1>. QED  BY <1>3, <1>4 DEF IsSum

(* There is one of them only, and the order it takes elements away in does *)
(* not show.                                                               *)
LEMMA SumUnique ==
  ASSUME NEW S, IsFiniteSet(S), NEW f, NEW T \in SUBSET S,
         NEW g, IsSum(g, f, S), NEW h, IsSum(h, f, T)
  PROVE  g[T] = h[T]
<1>. DEFINE Same == {n \in Nat : \A s \in SUBSET T : Cardinality(s) = n => g[s] = h[s]}
<1>0. OneLessEach(T)
  BY FS_Subset, OneLess
<1>1. \A s \in SUBSET T : s \in SUBSET S /\ IsFiniteSet(s) /\ Cardinality(s) \in Nat
  BY FS_Subset, FS_CardinalityType
<1>2. 0 \in Same
  BY <1>1, FS_EmptySet DEF IsSum
<1>3. ASSUME NEW n \in Nat, n \in Same PROVE n + 1 \in Same
  <2>. SUFFICES ASSUME NEW s \in SUBSET T, Cardinality(s) = n + 1 PROVE g[s] = h[s]
    OBVIOUS
  <2>1. s # {}
    BY FS_EmptySet
  <2>. DEFINE x == Pick(s)
  <2>2. x \in s
    BY <2>1, PickOne
  <2>3. s \ {x} \in SUBSET T /\ Cardinality(s \ {x}) = n
    BY <1>0, <2>2 DEF OneLessEach
  <2>4. g[s \ {x}] = h[s \ {x}]
    BY <1>3, <2>3
  <2>5. g[s] = f[x] + g[s \ {x}]
    BY <1>1, <2>1 DEF IsSum
  <2>6. h[s] = f[x] + h[s \ {x}]
    BY <2>1 DEF IsSum
  <2>. QED  BY <2>4, <2>5, <2>6
<1>4. Nat \subseteq Same
  <2>. HIDE DEF Same
  <2>. QED  BY <1>2, <1>3, InductiveSet
<1>. QED  BY <1>1, <1>4

LEMMA SumIs ==
  ASSUME NEW S, IsFiniteSet(S), NEW f, NEW g, IsSum(g, f, S)
  PROVE  SumOver(f, S) = g[S]
<1>1. \E h : IsSum(h, f, S) /\ SumOver(f, S) = h[S]
  <2>1. SumOver(f, S) = LET h == CHOOSE h : IsSum(h, f, S) IN h[S]
    BY DEF SumOver, MapThenSumSet, MapThenFoldSet, IsSum, Pick
  <2>2. IsSum(CHOOSE h : IsSum(h, f, S), f, S)
    <3>1. PICK h : IsSum(h, f, S)
      OBVIOUS
    <3>. QED  BY <3>1, Zenon
  <2>. QED  BY <2>1, <2>2, Zenon
<1>. QED  BY <1>1, SumUnique

AnyOrder(g, f, S) ==
  \A T \in SUBSET S : g[T] \in Int /\ \A x \in T : g[T] = f[x] + g[T \ {x}]

LEMMA SumAnyOrder ==
  ASSUME NEW S, IsFiniteSet(S), NEW f, f \in [S -> Int], NEW g, IsSum(g, f, S)
  PROVE  AnyOrder(g, f, S)
<1>. DEFINE Good(T) == g[T] \in Int /\ \A x \in T : g[T] = f[x] + g[T \ {x}]
            Sound == {n \in Nat : \A T \in SUBSET S : Cardinality(T) <= n => Good(T)}
<1>0. OneLessEach(S)
  BY OneLess
<1>1. \A T \in SUBSET S : IsFiniteSet(T) /\ Cardinality(T) \in Nat
  BY FS_Subset, FS_CardinalityType
<1>2. 0 \in Sound
  <2>1. g[{}] = 0
    BY DEF IsSum
  <2>2. \A T \in SUBSET S : Cardinality(T) <= 0 => T = {}
    BY <1>1, FS_EmptySet
  <2>. QED  BY <2>1, <2>2
<1>3. ASSUME NEW n \in Nat, n \in Sound PROVE n + 1 \in Sound
  <2>. SUFFICES ASSUME NEW T \in SUBSET S, Cardinality(T) = n + 1 PROVE Good(T)
    <3>1. \A T \in SUBSET S : Cardinality(T) <= n + 1 => Cardinality(T) <= n \/ Cardinality(T) = n + 1
      BY <1>1
    <3>. HIDE DEF Good
    <3>. QED  BY <1>3, <3>1
  <2>1. T # {}
    BY FS_EmptySet
  <2>. DEFINE y == Pick(T)
  <2>2. y \in T
    BY <2>1, PickOne
  <2>. HIDE DEF y
  <2>3. g[T] = f[y] + g[T \ {y}]
    BY <2>1 DEF IsSum, y
  <2>4. \A x \in T : T \ {x} \in SUBSET S /\ Cardinality(T \ {x}) = n
    BY <1>0 DEF OneLessEach
  <2>5. \A x \in T : Good(T \ {x})
    BY <1>3, <2>4
  <2>6. g[T] \in Int
    BY <2>2, <2>3, <2>5
  <2>7. ASSUME NEW x \in T PROVE g[T] = f[x] + g[T \ {x}]
    <3>1. CASE x = y
      BY <2>3, <3>1
    <3>2. CASE x # y
      <4>. DEFINE U == (T \ {x}) \ {y}
      <4>1. U = (T \ {y}) \ {x} /\ x \in T \ {y} /\ y \in T \ {x}
        BY <2>2, <3>2
      <4>2. g[T \ {y}] = f[x] + g[U] /\ g[T \ {x}] = f[y] + g[U]
        BY <2>2, <2>5, <4>1
      <4>3. g[U] \in Int
        <5>1. U \in SUBSET S /\ Cardinality(U) = n - 1
          BY <1>0, <2>4, <4>1 DEF OneLessEach
        <5>. QED  BY <1>3, <5>1
      <4>4. f[x] \in Int /\ f[y] \in Int
        BY <2>2
      <4>. HIDE DEF U
      <4>. QED  BY <2>3, <4>2, <4>3, <4>4
    <3>. QED  BY <3>1, <3>2
  <2>. QED  BY <2>6, <2>7
<1>4. Nat \subseteq Sound
  <2>. HIDE DEF Sound
  <2>. QED  BY <1>2, <1>3, InductiveSet
<1>. QED  BY <1>1, <1>4 DEF AnyOrder

LEMMA SumEmpty == ASSUME NEW f PROVE SumOver(f, {}) = 0
<1>1. IsFiniteSet({})
  BY FS_EmptySet
<1>2. PICK g : IsSum(g, f, {})
  BY <1>1, SumExists
<1>3. g[{}] = 0
  BY <1>2 DEF IsSum
<1>. QED  BY <1>1, <1>2, <1>3, SumIs

LEMMA SumAdd ==
  ASSUME NEW S, IsFiniteSet(S), NEW f \in [S -> Int], NEW T \in SUBSET S, NEW x \in S \ T
  PROVE  SumOver(f, T) \in Int /\ SumOver(f, T \cup {x}) = SumOver(f, T) + f[x]
<1>1. PICK g : IsSum(g, f, S)
  BY SumExists
<1>2. ASSUME NEW U \in SUBSET S PROVE SumOver(f, U) = g[U]
  <2>1. IsFiniteSet(U)
    BY FS_Subset
  <2>2. PICK h : IsSum(h, f, U)
    BY <2>1, SumExists
  <2>. QED  BY <1>1, <2>1, <2>2, SumUnique, SumIs
<1>3. T \cup {x} \in SUBSET S /\ x \in T \cup {x} /\ (T \cup {x}) \ {x} = T
  OBVIOUS
<1>4. g[T] \in Int /\ g[T \cup {x}] = f[x] + g[T]
  <2>1. AnyOrder(g, f, S)
    BY <1>1, SumAnyOrder
  <2>. QED  BY <1>3, <2>1 DEF AnyOrder
<1>. QED  BY <1>2, <1>3, <1>4

Summable(S, f, T, x) == IsFiniteSet(S) /\ f \in [S -> Int] /\ T \in SUBSET S /\ x \in S \ T

LEMMA SumNext ==
  \A S, f, T, x : Summable(S, f, T, x) => SumOver(f, T) \in Int /\ SumOver(f, T \cup {x}) = SumOver(f, T) + f[x]
  BY SumAdd DEF Summable

LEMMA OneLonger == ASSUME NEW m \in Nat PROVE 1 .. m + 1 = (1 .. m) \cup {m + 1}
OBVIOUS

(* The same numbers a little further on have the same sum, whatever else   *)
(* there are numbers for.                                                  *)
IsShifted(g, U, a, f, S, n) ==
  /\ n \in Nat /\ a \in Nat
  /\ IsFiniteSet(S) /\ 1 .. n \subseteq S /\ f \in [S -> Int]
  /\ IsFiniteSet(U) /\ a + 1 .. a + n \subseteq U /\ g \in [U -> Int]
  /\ \A p \in 1 .. n : g[a + p] = f[p]

LEMMA ShiftedSum ==
  ASSUME NEW n, NEW a, NEW S, NEW f, NEW U, NEW g, IsShifted(g, U, a, f, S, n)
  PROVE  SumOver(g, a + 1 .. a + n) = SumOver(f, 1 .. n)
<1>. USE DEF IsShifted
<1>. DEFINE Done == {m \in Nat : m <= n => SumOver(g, a + 1 .. a + m) = SumOver(f, 1 .. m)}
<1>1. 0 \in Done
  <2>1. a + 1 .. a + 0 = {} /\ 1 .. 0 = {}
    OBVIOUS
  <2>2. SumOver(g, {}) = 0 /\ SumOver(f, {}) = 0
    BY SumEmpty
  <2>3. SumOver(g, a + 1 .. a + 0) = SumOver(f, 1 .. 0)
    BY <2>1, <2>2
  <2>. QED  BY <2>3
<1>2. ASSUME NEW m \in Nat, m \in Done PROVE m + 1 \in Done
  <2>. SUFFICES ASSUME m + 1 <= n PROVE SumOver(g, a + 1 .. a + (m + 1)) = SumOver(f, 1 .. m + 1)
    OBVIOUS
  <2>1. m <= n /\ SumOver(g, a + 1 .. a + m) = SumOver(f, 1 .. m)
    BY <1>2
  <2>. DEFINE T == 1 .. m  x == m + 1  V == a + 1 .. a + m  y == a + (m + 1)
  <2>2. T \in SUBSET S /\ x \in S \ T
    <3>1. T \subseteq 1 .. n /\ x \in 1 .. n /\ x \notin T
      BY <2>1
    <3>. QED  BY <3>1
  <2>3. V \in SUBSET U /\ y \in U \ V
    <3>1. V \subseteq a + 1 .. a + n /\ y \in a + 1 .. a + n /\ y \notin V
      BY <2>1
    <3>. QED  BY <3>1
  <2>4. g[y] = f[x] /\ SumOver(g, V) = SumOver(f, T)
    BY <2>1
  <2>8. 1 .. m + 1 = T \cup {x} /\ a + 1 .. a + (m + 1) = V \cup {y}
    <3>1. 1 .. m + 1 = T \cup {x}
      BY OneLonger
    <3>2. a + 1 .. a + (m + 1) = V \cup {y}
      OBVIOUS
    <3>. QED  BY <3>1, <3>2
  <2>. HIDE DEF T, x, V, y
  <2>5. SumOver(f, T) \in Int /\ SumOver(f, T \cup {x}) = SumOver(f, T) + f[x]
    <3>1. Summable(S, f, T, x)
      BY <2>2 DEF Summable
    <3>. QED  BY <3>1, SumNext
  <2>6. SumOver(g, V) \in Int /\ SumOver(g, V \cup {y}) = SumOver(g, V) + g[y]
    <3>1. Summable(U, g, V, y)
      BY <2>3 DEF Summable
    <3>. QED  BY <3>1, SumNext
  <2>7. SumOver(g, V \cup {y}) = SumOver(f, T \cup {x})
    BY <2>4, <2>5, <2>6
  <2>. QED  BY <2>7, <2>8
<1>3. Nat \subseteq Done
  <2>. HIDE DEF Done
  <2>. QED  BY <1>1, <1>2, InductiveSet
<1>. QED  BY <1>3

----------------------------------------------------------------------------
(* How many places there are up to one of them, and which is the n-th.     *)
CountTo(places, at) == Cardinality({i \in places : i <= at})

(* m is the first place of S behind a, and there is none from it to z.     *)
IsNext(S, a, m, z) ==
  /\ m \in S /\ a < m /\ m <= z
  /\ \A i \in S : (i <= a \/ m <= i) /\ (i <= m \/ z < i)

IsPlaces(S) == S \in SUBSET (Nat \ {0}) /\ IsFiniteSet(S)

LEMMA CountFacts ==
  ASSUME NEW S, IsPlaces(S), NEW a \in Nat
  PROVE  /\ CountTo(S, a) \in 0 .. Cardinality(S) /\ Cardinality(S) \in Nat
         /\ (\A i \in S : i <= a) => CountTo(S, a) = Cardinality(S)
         /\ CountTo(S, 0) = 0
<1>. DEFINE upTo == {i \in S : i <= a}
<1>1. IsFiniteSet(S) /\ upTo \subseteq S
  BY DEF IsPlaces
<1>2. IsFiniteSet(upTo) /\ Cardinality(upTo) <= Cardinality(S)
  <2>. HIDE DEF upTo
  <2>. QED  BY <1>1, FS_Subset
<1>3. Cardinality(upTo) \in Nat /\ Cardinality(S) \in Nat
  BY <1>1, <1>2, FS_CardinalityType
<1>4. (\A i \in S : i <= a) => upTo = S
  OBVIOUS
<1>5. {i \in S : i <= 0} = {}
  <2>1. ASSUME NEW i \in S PROVE ~(i <= 0)
    <3>1. i \in Nat /\ i # 0
      BY DEF IsPlaces
    <3>. QED  BY <3>1
  <2>. QED  BY <2>1
<1>. QED  BY <1>2, <1>3, <1>4, <1>5, FS_EmptySet DEF CountTo

(* There is one place more up to the next one.                             *)
LEMMA OneMorePlace ==
  ASSUME NEW S, IsPlaces(S), NEW a \in Nat, NEW m, NEW z \in Nat, IsNext(S, a, m, z)
  PROVE  CountTo(S, m) = CountTo(S, a) + 1 /\ CountTo(S, z) = CountTo(S, a) + 1
<1>. DEFINE upTo == {i \in S : i <= a}
<1>1. m \in Nat /\ m \in S /\ a < m /\ m <= z /\ S \subseteq Nat
  BY DEF IsNext, IsPlaces
<1>2. IsFiniteSet(upTo) /\ m \notin upTo
  <2>1. upTo \subseteq S /\ IsFiniteSet(S)
    BY DEF IsPlaces
  <2>2. IsFiniteSet(upTo)
    BY <2>1, FS_Subset
  <2>. QED  BY <1>1, <2>2
<1>3. Cardinality(upTo \cup {m}) = Cardinality(upTo) + 1
  <2>. HIDE DEF upTo
  <2>. QED  BY <1>2, FS_AddElement
<1>4. ASSUME NEW i \in S PROVE (i <= m <=> i <= a \/ i = m) /\ (i <= z <=> i <= a \/ i = m)
  <2>1. i \in Nat /\ (i <= a \/ m <= i) /\ (i <= m \/ z < i)
    BY <1>1 DEF IsNext
  <2>. QED  BY <1>1, <2>1
<1>5. {i \in S : i <= m} = upTo \cup {m} /\ {i \in S : i <= z} = upTo \cup {m}
  BY <1>1, <1>4
<1>. QED  BY <1>3, <1>5 DEF CountTo

(* There are fewer places up to an earlier place.                          *)
LEMMA CountGrows ==
  ASSUME NEW S, IsPlaces(S), NEW i \in S, NEW j \in S, i < j
  PROVE  CountTo(S, i) < CountTo(S, j)
<1>. DEFINE A == {k \in S : k <= i}
            B == {k \in S : k <= j}
<1>1. S \subseteq Nat /\ IsFiniteSet(S)
  BY DEF IsPlaces
<1>2. A \subseteq B /\ A # B /\ B \subseteq S
  <2>1. j \in B /\ j \notin A
    BY <1>1
  <2>2. ASSUME NEW k \in S, k <= i PROVE k <= j
    BY <1>1, <2>2
  <2>. QED  BY <2>1, <2>2
<1>3. IsFiniteSet(B)
  BY <1>1, <1>2, FS_Subset
<1>4. Cardinality(A) <= Cardinality(B) /\ (Cardinality(A) = Cardinality(B) => A = B) /\ IsFiniteSet(A)
  <2>. HIDE DEF A, B
  <2>. QED  BY <1>2, <1>3, FS_Subset
<1>5. Cardinality(A) \in Nat /\ Cardinality(B) \in Nat
  BY <1>3, <1>4, FS_CardinalityType
<1>. QED  BY <1>2, <1>4, <1>5 DEF CountTo

(* So a place is the n-th if there are n up to it.                         *)
LEMMA NthIs ==
  ASSUME NEW S, IsPlaces(S), NEW m \in S
  PROVE  Nth(S, CountTo(S, m)) = m
<1>1. ASSUME NEW i \in S, CountTo(S, i) = CountTo(S, m) PROVE i = m
  <2>1. i \in Nat /\ m \in Nat
    BY DEF IsPlaces
  <2>2. CountTo(S, i) \in Nat
    BY <2>1, CountFacts
  <2>3. ~(i < m) /\ ~(m < i)
    BY <1>1, <2>2, CountGrows
  <2>. QED  BY <2>1, <2>3
<1>. QED  BY <1>1 DEF Nth, CountTo

(* What stands at a place is, in order, what stands there as the n-th.     *)
LEMMA InOrderIs ==
  ASSUME NEW S, IsPlaces(S), NEW m \in S, NEW f
  PROVE  /\ CountTo(S, m) \in 1 .. Cardinality(S)
         /\ DOMAIN InOrder(S, f) = 1 .. Cardinality(S)
         /\ InOrder(S, f)[CountTo(S, m)] = f[m]
<1>1. m \in Nat \ {0}
  BY DEF IsPlaces
<1>2. CountTo(S, m) \in 0 .. Cardinality(S) /\ Cardinality(S) \in Nat
  BY <1>1, CountFacts
<1>. DEFINE upTo == {i \in S : i <= m}
<1>3. CountTo(S, m) # 0
  <2>1. m \in upTo /\ upTo \subseteq S
    BY <1>1
  <2>2. IsFiniteSet(upTo)
    BY <2>1, FS_Subset DEF IsPlaces
  <2>. HIDE DEF upTo
  <2>3. Cardinality(upTo) # 0
    BY <2>1, <2>2, FS_EmptySet
  <2>. QED  BY <2>3 DEF CountTo, upTo
<1>4. CountTo(S, m) \in 1 .. Cardinality(S)
  BY <1>2, <1>3
<1>. QED  BY <1>4, NthIs DEF InOrder

(* A turn that goes from a to y in S by its next place m.                  *)
GoesOn(S, a, m, y) == IsPlaces(S) /\ a \in Nat /\ y \in Nat /\ IsNext(S, a, m, y)

----------------------------------------------------------------------------
(* The greatest of some numbers, and the parts of texts.                   *)

LEMMA GreatestIs ==
  ASSUME NEW S \in SUBSET Int, NEW x \in S, \A y \in S : y <= x
  PROVE  Max(S) = x
<1>1. \A z \in S : (\A y \in S : z >= y) => z = x
  OBVIOUS
<1>. QED  BY <1>1 DEF Max

(* The part of a text from a to b, which is none if b is before a.         *)
IsPart(T, s, a, b) == s \in Seq(T) /\ a \in 1 .. Len(s) + 1 /\ b \in a - 1 .. Len(s)

PartFacts(T, s, a, b) ==
  /\ SubSeq(s, a, b) \in Seq(T) /\ Len(SubSeq(s, a, b)) = b + 1 - a
  /\ \A i \in 1 .. b + 1 - a : SubSeq(s, a, b)[i] = s[a + i - 1]
  /\ SubSeq(s, a, b) = <<>> <=> b = a - 1

LEMMA PartIs == \A T, s, a, b : IsPart(T, s, a, b) => PartFacts(T, s, a, b)
<1>. SUFFICES ASSUME NEW T, NEW s, NEW a, NEW b, IsPart(T, s, a, b)
              PROVE  PartFacts(T, s, a, b)
  OBVIOUS
<1>. s \in Seq(T)
  BY DEF IsPart
<1>. SUFFICES
         /\ SubSeq(s, a, b) \in Seq(T) /\ Len(SubSeq(s, a, b)) = b + 1 - a

         /\ \A i \in 1 .. b + 1 - a : SubSeq(s, a, b)[i] = s[a + i - 1]
         /\ SubSeq(s, a, b) = <<>> <=> b = a - 1
  BY DEF PartFacts
<1>1. Len(s) \in Nat /\ a \in Nat \ {0} /\ b \in Nat /\ a - 1 <= b /\ b <= Len(s)
  BY DEF IsPart
<1>2. \A i \in a .. b : s[i] \in T
  BY <1>1
<1>3. /\ SubSeq(s, a, b) \in Seq(T)
      /\ Len(SubSeq(s, a, b)) = IF a <= b THEN b - a + 1 ELSE 0
      /\ \A i \in 1 .. b - a + 1 : SubSeq(s, a, b)[i] = s[a + i - 1]
  BY <1>1, <1>2, SubSeqProperties
<1>4. (IF a <= b THEN b - a + 1 ELSE 0) = b + 1 - a /\ b - a + 1 = b + 1 - a
  BY <1>1
<1>. DEFINE part == SubSeq(s, a, b)
<1>5. part \in Seq(T) /\ Len(part) = b + 1 - a
  BY <1>3, <1>4
<1>6. part = <<>> <=> b = a - 1
  <2>. HIDE DEF part
  <2>1. part = <<>> <=> Len(part) = 0
    BY <1>5
  <2>. QED  BY <1>1, <1>5, <2>1
<1>. QED  BY <1>3, <1>4, <1>5, <1>6

IsInner(T, s, a, b, c, d) ==
  IsPart(T, s, a, b) /\ c \in 1 .. b + 2 - a /\ d \in c - 1 .. b + 1 - a

InnerFact(s, a, b, c, d) ==
  SubSeq(SubSeq(s, a, b), c, d) = SubSeq(s, a + c - 1, a + d - 1)

LEMMA PartOfPart ==
  \A T, s, a, b, c, d : IsInner(T, s, a, b, c, d) => InnerFact(s, a, b, c, d)
<1>. SUFFICES ASSUME NEW T, NEW s, NEW a, NEW b, NEW c, NEW d, IsInner(T, s, a, b, c, d)
              PROVE  SubSeq(SubSeq(s, a, b), c, d) = SubSeq(s, a + c - 1, a + d - 1)
  BY Zenon DEF InnerFact
<1>. IsPart(T, s, a, b) /\ c \in 1 .. b + 2 - a /\ d \in c - 1 .. b + 1 - a
  BY DEF IsInner
<1>1. s \in Seq(T) /\ Len(s) \in Nat /\ a \in Nat \ {0} /\ b \in Nat /\ a - 1 <= b /\ b <= Len(s)
  BY DEF IsPart
<1>2. /\ c \in Nat \ {0} /\ d \in Nat /\ c - 1 <= d /\ d <= b + 1 - a /\ c <= b + 2 - a
  BY <1>1
<1>. DEFINE part == SubSeq(s, a, b)
            inner == SubSeq(part, c, d)
            outer == SubSeq(s, a + c - 1, a + d - 1)
<1>3. /\ part \in Seq(T) /\ Len(part) = b + 1 - a
      /\ \A i \in 1 .. b + 1 - a : part[i] = s[a + i - 1]
  BY PartIs DEF PartFacts
<1>4. IsPart(T, part, c, d)
  <2>. HIDE DEF part
  <2>. QED  BY <1>1, <1>2, <1>3 DEF IsPart
<1>5. /\ inner \in Seq(T) /\ Len(inner) = d + 1 - c
      /\ \A i \in 1 .. d + 1 - c : inner[i] = part[c + i - 1]
  <2>1. PartFacts(T, part, c, d)
    BY <1>4, PartIs, Zenon
  <2>. HIDE DEF part
  <2>. QED  BY <2>1, Zenon DEF PartFacts
<1>6. IsPart(T, s, a + c - 1, a + d - 1)
  BY <1>1, <1>2 DEF IsPart
<1>7. /\ outer \in Seq(T) /\ Len(outer) = (a + d - 1) + 1 - (a + c - 1)
      /\ \A i \in 1 .. (a + d - 1) + 1 - (a + c - 1) : outer[i] = s[(a + c - 1) + i - 1]
  <2>1. PartFacts(T, s, a + c - 1, a + d - 1)
    BY <1>6, PartIs, Zenon
  <2>. QED  BY <2>1, Zenon DEF PartFacts
<1>8. ASSUME NEW i \in 1 .. d + 1 - c PROVE inner[i] = outer[i]
  <2>1. c + i - 1 \in 1 .. b + 1 - a /\ a + (c + i - 1) - 1 = (a + c - 1) + i - 1
    BY <1>1, <1>2
  <2>2. inner[i] = s[a + (c + i - 1) - 1]
    <3>. HIDE DEF part, inner
    <3>. QED  BY <1>3, <1>5, <2>1
  <2>3. i \in 1 .. (a + d - 1) + 1 - (a + c - 1)
    BY <1>1, <1>2
  <2>. HIDE DEF inner, outer
  <2>. QED  BY <1>7, <2>1, <2>2, <2>3
<1>. HIDE DEF inner, outer
<1>9. Len(inner) = Len(outer) /\ Len(inner) = d + 1 - c
  BY <1>1, <1>2, <1>5, <1>7
<1>10. \A i \in 1 .. Len(inner) : inner[i] = outer[i]
  BY <1>8, <1>9
<1>11. inner = outer
  BY <1>5, <1>7, <1>9, <1>10, SeqEqual
<1>. QED  BY <1>11 DEF inner, outer
=============================================================================
