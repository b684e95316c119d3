------------------------------ MODULE Fractions -----------------------------
(***************************************************************************)
(* Two submissions to problem F in contest/code: of two fractions on a     *)
(* line, the sum and the product are to be printed in lowest terms.  Both  *)
(* compute in int, which is IntBits wide here, and wraps.                  *)
(***************************************************************************)
EXTENDS Integers, SequencesExt, FiniteSetsExt

CONSTANTS
  IntBits,     \* bits of an int
  Number       \* the numbers of the line, as rows of digits

ASSUME FractionsAssumption ==
  IntBits \in Nat \ {0} /\ \A digits \in Number : digits \in Seq(0 .. 9) /\ digits # <<>>

VARIABLES
  author,      \* "Murzabayev/F" or "Koshkarov/F"
  text,        \* the four numbers of the line
  numbers,     \* those read so far
  lines,       \* what has been printed, an item for each printf
  step         \* "read", "sum", "product", "returned" or "crashed"

fvars == <<author, text, numbers, lines, step>>

FractionsInit ==
  /\ author \in {"Murzabayev/F", "Koshkarov/F"}
  /\ text \in [1 .. 4 -> Number]
  /\ numbers = <<>> /\ lines = <<>>
  /\ step = "read"

(* int: what does not fit wraps; / and % round towards zero, and the       *)
(* processor stops a division by zero and that of the least int by -1.     *)
Half       == 2 ^ (IntBits - 1)
Wrap(n)    == ((n + Half) % (2 * Half)) - Half
Traps(a, b) == b = 0 \/ (a = -Half /\ b = -1)
Abs(n)     == IF n < 0 THEN -n ELSE n
Quotient(a, b)  == LET q == Abs(a) \div Abs(b) IN IF (a < 0) = (b < 0) THEN q ELSE -q
Remainder(a, b) == LET r == Abs(a) % Abs(b) IN IF a < 0 THEN -r ELSE r

(* 0 where it is stopped on the way.                                       *)
RECURSIVE Gcd(_, _)
Gcd(first, second) ==
  IF second = 0 THEN first
  ELSE IF Traps(first, second) THEN 0 ELSE Gcd(second, Remainder(first, second))

(* A digit at a time, up to the / or the blank.                            *)
ReadNumber ==
  /\ step = "read" /\ Len(numbers) < 4
  /\ numbers' = Append(numbers, FoldLeft(LAMBDA n, digit : Wrap(Wrap(n * 10) + digit), 0,
                                         text[Len(numbers) + 1]))
  /\ step' = IF Len(numbers') = 4 THEN "sum" ELSE "read"
  /\ UNCHANGED <<author, text, lines>>

AddedAcross(n) == <<Wrap(n[1] + n[3]), Wrap(n[2] + n[4])>>
Sum(n)     == <<Wrap(Wrap(n[1] * n[4]) + Wrap(n[3] * n[2])), Wrap(n[2] * n[4])>>
Product(n) == <<Wrap(n[1] * n[3]), Wrap(n[2] * n[4])>>

(* Which of the two is divided by the other first.                         *)
Divisor(f) ==
  IF IF author = "Murzabayev/F" THEN step = "sum" ELSE f[1] <= f[2]
  THEN Gcd(f[2], f[1]) ELSE Gcd(f[1], f[2])

(* Murzabayev/F leaves out a denominator of one; Koshkarov/F prints what   *)
(* it adds up before it reduces it.                                        *)
Shown(f) == IF author = "Murzabayev/F" /\ f[2] = 1 THEN <<f[1]>> ELSE f

PrintReduced(f, before, next) ==
  LET g == Divisor(f)
  IN  IF Traps(f[1], g) \/ Traps(f[2], g)
      THEN lines' = lines \o before /\ step' = "crashed"
      ELSE /\ lines' = lines \o before \o <<Shown(<<Quotient(f[1], g), Quotient(f[2], g)>>)>>
           /\ step' = next

PrintSum ==
  /\ step = "sum"
  /\ PrintReduced(Sum(numbers), IF author = "Koshkarov/F" THEN <<Sum(numbers)>> ELSE <<>>, "product")
  /\ UNCHANGED <<author, text, numbers>>

PrintProduct ==
  /\ step = "product"
  /\ PrintReduced(Product(numbers), <<>>, "returned")
  /\ UNCHANGED <<author, text, numbers>>

FractionsNext == ReadNumber \/ PrintSum \/ PrintProduct

----------------------------------------------------------------------------
(* Properties *)

(* The fraction in lowest terms, by what that means: the same ratio, and   *)
(* no divisor left in common.                                              *)
Meant(i) == FoldLeft(LAMBDA n, digit : n * 10 + digit, 0, text[i])
Fits(n)  == n < Half
LowestTerms(f, n, d) ==
  /\ f[1] * d = f[2] * n /\ f[2] > 0
  /\ \A k \in 2 .. f[2] : f[1] % k # 0 \/ f[2] % k # 0

Exact ==
  /\ Meant(2) > 0 /\ Meant(4) > 0
  /\ \A i \in 1 .. 4 : Fits(Meant(i))
  /\ Fits(Meant(1) * Meant(4)) /\ Fits(Meant(3) * Meant(2)) /\ Fits(Meant(2) * Meant(4))
  /\ Fits(Meant(1) * Meant(4) + Meant(3) * Meant(2)) /\ Fits(Meant(1) * Meant(3))

InFull(f) == IF Len(f) = 1 THEN <<f[1], 1>> ELSE f

(* Where everything fits an int and nothing is divided by zero, both print *)
(* the sum and the product in lowest terms: what costs them the tests they *)
(* fail is a line too many or a /1 too few, and what does not fit.  They   *)
(* never end before they have printed both.                                *)
FractionsAreReduced ==
  /\ Exact => step # "crashed"
  /\ Exact /\ step = "returned" =>
       /\ Len(lines) = IF author = "Koshkarov/F" THEN 3 ELSE 2
       /\ LowestTerms(InFull(lines[Len(lines) - 1]),
                      Meant(1) * Meant(4) + Meant(3) * Meant(2), Meant(2) * Meant(4))
       /\ LowestTerms(InFull(Last(lines)), Meant(1) * Meant(3), Meant(2) * Meant(4))
       /\ author = "Murzabayev/F" => \A i \in 1 .. 2 : Len(lines[i]) = 1 \/ lines[i][2] # 1
=============================================================================
