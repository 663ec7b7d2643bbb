---------------------------- MODULE Identifiers -----------------------------
(***************************************************************************)
(* GenerateId and the random numbers of GenerateUniform it is made of: the *)
(* identifier of an order is a function of the millisecond within the      *)
(* second, or of the second when that is 0. The arithmetic is that of a    *)
(* 32-bit long, which no intermediate value may leave; TLC's integers have *)
(* that width too and stop at an overflow.                                 *)
(***************************************************************************)
EXTENDS Integers, Sequences

CONSTANTS
  Milliseconds,       \* what GetMillisecond may return
  Times               \* what time(0) may return

\* The modulus of GenerateUniform, also the last second a 32-bit long holds.
m == 2147483647

\* It is long past the first seconds of 1970, and a long still holds the time.
ASSUME ReadingsAssumption ==
  Milliseconds \subseteq 0..999 /\ Times \subseteq 1000..m

VARIABLES
  millisecond,        \* the argument of GenerateUniform's seed
  seed,               \* seed: the state of the generator
  id                  \* _id, letter by letter: places in the base of 36

vars == <<millisecond, seed, id>>

\* The other constants of GenerateUniform: multiplier, and the quotient and
\* remainder of the modulus by it.
a == 39373
q == m \div a
r == m % a

IdLength == 12
Letters  == 0..35

\* Mutants of StartSeed: a clock that ticks each 10 ms, or each microsecond.
StartSeedOfCentisecond(ms, time) ==
  (IF ms \div 10 = 0 THEN time ELSE ms \div 10) % m
StartSeedOfMicrosecond(ms, time) == (IF ms = 0 THEN time ELSE 1000 * ms) % m

\* The seed GenerateUniform starts from: time(0) in place of a 0. A multiple of
\* m, as the last second of 32 bits is, starts a generator that stays at 0.
StartSeed(ms, time) == (IF ms = 0 THEN time ELSE ms) % m

\* Mutant of NextSeed: r is taken for 0.
NextSeedNoRemainder(previous) == a * (previous % q)

\* One round of GenerateUniform's loop.
NextSeed(previous) ==
  LET k    == previous \div q
      next == a * (previous - k * q) - k * r
  IN IF next < 0 THEN next + m ELSE next

\* The least seed whose letter is at the given place: i * m / 36 rounded up.
FirstSeedOf(place) == place * (m \div 36) + (place * (m % 36) + 35) \div 36

\* The place of a letter, (seed / m) * 36 cut to an int.
Letter(drawn) ==
  CHOOSE place \in Letters :
    FirstSeedOf(place) <= drawn /\ drawn < FirstSeedOf(place + 1)

TypeOK ==
  /\ millisecond \in Milliseconds
  /\ seed \in 0..(m - 1)
  /\ id \in Seq(Letters) /\ Len(id) <= IdLength

Init ==
  /\ millisecond \in Milliseconds
  /\ \E time \in Times : seed = StartSeed(millisecond, time)
  /\ id = << >>

\* Mutant of Draw: one letter too many.
DrawOnceMore ==
  /\ Len(id) <= IdLength
  /\ seed' = NextSeed(seed)
  /\ id' = Append(id, Letter(seed'))
  /\ UNCHANGED millisecond

\* The next random number, and the letter made of it.
Draw ==
  /\ Len(id) < IdLength
  /\ seed' = NextSeed(seed)
  /\ id' = Append(id, Letter(seed'))
  /\ UNCHANGED millisecond

Spec == Init /\ [][Draw]_vars

-----------------------------------------------------------------------------
\* The product of a number and a seed modulo m by doubling and adding, which
\* stays within 32 bits for another reason than the code does.
Plus(x, y) == IF x < m - y THEN x + y ELSE x - (m - y)
Product(n, x) ==
  LET times[k \in Nat] ==
        IF k = 0 THEN 0
        ELSE LET half == times[k \div 2]
                 even == Plus(half, half)
             IN IF k % 2 = 1 THEN Plus(even, x) ELSE even
  IN times[n]

\* GenerateUniform's loop, which never forms the product of seed and a, draws
\* what that product is modulo m: the sequence is the intended one.
DrawsAreProducts == [][seed' = Product(a, seed)]_vars

\* The seeds that the draws of an identifier go through from a first one.
SeedsOf(start) ==
  LET seeds[n \in 0..IdLength] ==
        IF n = 0 THEN start ELSE NextSeed(seeds[n - 1])
  IN seeds

\* The identifier of a millisecond other than 0.
IdOf == [ms \in Milliseconds \ {0} |->
           LET seeds == SeedsOf(StartSeed(ms, 0))
           IN [n \in 1..IdLength |-> Letter(seeds[n])]]

\* Two orders get the same identifier only in the same millisecond of their
\* second, or both through time(0): the identifier of a millisecond other than
\* 0 is no other millisecond's, and time(0) makes none like it.
IdsTellMillisecondsApart ==
  Len(id) = IdLength =>
    \A ms \in DOMAIN IdOf : IdOf[ms] = id => ms = millisecond

\* The seed is too small for the first draw to be any but near 0: an identifier
\* has eleven letters that vary, unless it was made of time(0).
FirstLetterIsFixed == id # << >> /\ millisecond # 0 => id[1] = 0
=============================================================================
