------------------------- MODULE IdentifiersProofs --------------------------
(***************************************************************************)
(* The arithmetic of GenerateUniform and GenerateId for every seed, and    *)
(* what follows from it: the type invariant of Identifiers, the letter     *)
(* every identifier but those of time(0) starts with, that the draws are   *)
(* those of the generator meant, and that nine letters tell the seed, so   *)
(* that an identifier belongs to one millisecond.                          *)
(***************************************************************************)
EXTENDS Identifiers, DataTheorems

\* From first up to, not including, end.
Between(x, first, end) == x \in Int /\ first <= x /\ x < end

\* The least value a 32-bit long does not hold.
LongEnd == 2147483648

\* A seed is k times q and a rest below q, and the product with a is k times m
\* more than what NextSeed computes: k * q * a = k * (m - r).
LEMMA ProductSplit ==
  ASSUME NEW s, Between(s, 0, m)
  PROVE  LET k == s \div q
             rest == s - k * q
         IN /\ Between(k, 0, a + 1) /\ Between(rest, 0, q)
            /\ a * s = (a * rest - k * r) + k * m
<1> DEFINE k == s \div q
           rest == s - k * q
<1>1. q = 54542 /\ r = 1481 /\ m = 2147483647 /\ a = 39373
  BY SMT DEF m, a, q, r
<1>2. k \in Int /\ rest = s % q /\ Between(rest, 0, q)
  BY <1>1, SMT DEF Between
<1>3. s = k * q + rest
  BY <1>1, <1>2, SMT DEF Between
<1> HIDE DEF k, rest
<1>4. Between(k, 0, a + 1)
  BY <1>1, <1>2, <1>3, SMT DEF Between
<1>5. a * s = (a * rest - k * r) + k * m
  BY <1>1, <1>2, <1>3, SMT DEF Between
<1> QED
  BY <1>2, <1>4, <1>5, SMT DEF k, rest

\* GenerateUniform's loop draws the product of seed and a modulo m, and no
\* value on the way leaves a 32-bit long, though the product itself does.
THEOREM NextSeedIsProduct ==
  ASSUME NEW s, Between(s, 0, m)
  PROVE  /\ NextSeed(s) = (a * s) % m
         /\ Between(NextSeed(s), 0, m)
         /\ Between(a * (s - (s \div q) * q), 0, LongEnd)
         /\ Between((s \div q) * r, 0, LongEnd)
         /\ Between(a * (s - (s \div q) * q) - (s \div q) * r,
                    -LongEnd, LongEnd)
<1> DEFINE k == s \div q
           rest == s - k * q
           next == a * rest - k * r
<1>1. Between(k, 0, a + 1) /\ Between(rest, 0, q) /\ a * s = next + k * m
  BY ProductSplit, Zenon
<1>2. q = 54542 /\ r = 1481 /\ m = 2147483647 /\ a = 39373
  BY SMT DEF m, a, q, r
<1>3. NextSeed(s) = IF next < 0 THEN next + m ELSE next
  BY Zenon DEF NextSeed
<1>4. LongEnd = m + 1
  BY <1>2, SMT DEF LongEnd
<1> HIDE DEF k, rest
<1>5. Between(a * rest, 0, m) /\ Between(k * r, 0, m)
  BY <1>1, <1>2, SMT DEF Between
<1>6. Between(next, -m, m)
  BY <1>1, <1>2, <1>5, SMT DEF Between
<1> HIDE DEF next
<1>7. Between(NextSeed(s), 0, m)
  BY <1>2, <1>3, <1>6, SMT DEF Between
<1>8. a * s = NextSeed(s) + (IF next < 0 THEN k - 1 ELSE k) * m
  BY <1>1, <1>2, <1>3, <1>6, SMT DEF Between
<1>9. (a * s) % m = NextSeed(s)
  <2> DEFINE j == IF next < 0 THEN k - 1 ELSE k
             product == a * s
  <2>1. j \in Int /\ product = NextSeed(s) + j * m
    BY <1>1, <1>6, <1>8, SMT DEF Between
  <2> HIDE DEF j, product
  <2>2. product % m = NextSeed(s)
    BY <2>1, <1>2, <1>7, SMT DEF Between
  <2> QED
    BY <2>2 DEF product
<1>10. /\ Between(a * rest, 0, LongEnd) /\ Between(k * r, 0, LongEnd)
       /\ Between(a * rest - k * r, -LongEnd, LongEnd)
  BY <1>1, <1>2, <1>4, <1>5, SMT DEF Between
<1> QED
  BY <1>7, <1>9, <1>10, Zenon DEF k, rest

-----------------------------------------------------------------------------
\* The first seed of a place is place * m / 36 rounded up.
LEMMA FirstSeedBounds ==
  ASSUME NEW place \in Int
  PROVE  /\ FirstSeedOf(place) \in Int
         /\ place * m <= 36 * FirstSeedOf(place)
         /\ 36 * FirstSeedOf(place) <= place * m + 35
<1> DEFINE up == (place * 19 + 35) \div 36
<1>1. m \div 36 = 59652323 /\ m % 36 = 19 /\ m = 2147483647
  BY SMT DEF m
<1>2. up \in Int /\ place * 19 <= 36 * up /\ 36 * up <= place * 19 + 35
  BY SMT
<1>3. FirstSeedOf(place) = place * 59652323 + up
  BY <1>1, SMT DEF FirstSeedOf
<1> HIDE DEF up
<1> QED
  BY <1>1, <1>2, <1>3, SMT

\* The letter of a seed is at the place the code computes in floating point,
\* the whole part of 36 * seed / m, and there always is such a letter.
THEOREM LetterIsFloor ==
  ASSUME NEW s, Between(s, 0, m)
  PROVE  Letter(s) \in Letters /\ Letter(s) = (36 * s) \div m
<1> DEFINE floor == (36 * s) \div m
           Holds(place) == FirstSeedOf(place) <= s /\ s < FirstSeedOf(place + 1)
<1>1. m = 2147483647
  BY SMT DEF m
<1>2. floor \in Int /\ floor * m <= 36 * s /\ 36 * s < (floor + 1) * m
  BY <1>1, SMT DEF Between
<1>3. \A place \in Letters :
        /\ place \in Int /\ place + 1 \in Int
        /\ place * m <= 36 * FirstSeedOf(place)
        /\ 36 * FirstSeedOf(place) <= place * m + 35
        /\ (place + 1) * m <= 36 * FirstSeedOf(place + 1)
        /\ 36 * FirstSeedOf(place + 1) <= (place + 1) * m + 35
        /\ FirstSeedOf(place) \in Int /\ FirstSeedOf(place + 1) \in Int
  <2> SUFFICES ASSUME NEW place \in Letters
               PROVE  /\ place \in Int /\ place + 1 \in Int
                      /\ place * m <= 36 * FirstSeedOf(place)
                      /\ 36 * FirstSeedOf(place) <= place * m + 35
                      /\ (place + 1) * m <= 36 * FirstSeedOf(place + 1)
                      /\ 36 * FirstSeedOf(place + 1) <= (place + 1) * m + 35
                      /\ FirstSeedOf(place) \in Int
                      /\ FirstSeedOf(place + 1) \in Int
    OBVIOUS
  <2>1. place \in Int /\ place + 1 \in Int
    BY SMT DEF Letters
  <2> QED
    BY <2>1, FirstSeedBounds, Zenon
<1> HIDE DEF floor
<1>4. floor \in Letters
  BY <1>1, <1>2, SMT DEF Between, Letters
<1>5. Holds(floor)
  BY <1>1, <1>2, <1>3, <1>4, SMT DEF Between
<1>6. ASSUME NEW place \in Letters, Holds(place)
      PROVE  place = floor
  <2>1. place * m <= 36 * s /\ 36 * s < (place + 1) * m
    BY <1>1, <1>3, <1>6, SMT DEF Between
  <2>2. place \in Int
    BY <1>3
  <2> QED
    BY <1>1, <1>2, <2>1, <2>2, SMT DEF Between
<1>7. Letter(s) = CHOOSE place \in Letters : Holds(place)
  BY Zenon DEF Letter
<1> HIDE DEF Holds
<1>8. Letter(s) \in Letters /\ Holds(Letter(s))
  BY <1>4, <1>5, <1>7, Zenon
<1> QED
  BY <1>6, <1>8, Zenon DEF floor

-----------------------------------------------------------------------------
\* A seed within the modulus, as TypeOK says it.
LEMMA SeedRange ==
  /\ \A s : s \in 0..(m - 1) <=> Between(s, 0, m)
  /\ m \in Nat \ {0}
<1>1. m \in Nat \ {0}
  BY SMT DEF m
<1> QED
  BY <1>1, SMT DEF Between

\* Whatever the clock reads, the generator stays within its modulus and an
\* identifier is at most twelve letters of the base.
THEOREM IdentifiersTypeCorrect == Spec => []TypeOK
<1>1. Init => TypeOK
  <2> SUFFICES ASSUME Init PROVE TypeOK
    OBVIOUS
  <2>1. PICK time \in Times : seed = StartSeed(millisecond, time)
    BY DEF Init
  <2>2. millisecond \in Int /\ time \in Int
    BY ReadingsAssumption DEF Init
  <2>3. seed \in 0..(m - 1)
    BY <2>1, <2>2, SeedRange DEF StartSeed
  <2> QED
    BY <2>3 DEF Init, TypeOK, IdLength
<1>2. TypeOK /\ [Draw]_vars => TypeOK'
  <2> SUFFICES ASSUME TypeOK, Draw PROVE TypeOK'
    <3>1. TypeOK /\ UNCHANGED vars => TypeOK'
      BY DEF TypeOK, vars
    <3> QED
      BY <3>1
  <2>1. Between(seed, 0, m)
    BY SeedRange DEF TypeOK
  <2>2. Between(seed', 0, m)
    BY <2>1, NextSeedIsProduct DEF Draw
  <2>3. Letter(seed') \in Letters
    BY <2>2, LetterIsFloor
  <2>4. id' \in Seq(Letters) /\ Len(id') <= IdLength
    BY <2>3 DEF TypeOK, Draw, IdLength
  <2> QED
    BY <2>2, <2>4, SeedRange DEF TypeOK, Draw
<1> QED
  BY <1>1, <1>2, PTL DEF Spec

-----------------------------------------------------------------------------
\* Before the first draw the seed is the millisecond itself, unless that is 0.
\* FirstLetterIsFixed is not inductive without it and TypeOK.
UndrawnSeed == id = << >> /\ millisecond # 0 => seed = millisecond

\* A seed no greater than a millisecond draws a number below the second
\* letter's.
LEMMA SmallSeedDrawsFirstLetter ==
  ASSUME NEW s, Between(s, 0, 1000)
  PROVE  Letter(NextSeed(s)) = 0
<1>1. q = 54542 /\ r = 1481 /\ m = 2147483647 /\ a = 39373
  BY SMT DEF m, a, q, r
<1>2. s \div q = 0 /\ Between(s, 0, m)
  BY <1>1, SMT DEF Between
<1> DEFINE drawn == NextSeed(s)
<1>3. drawn = a * s
  BY <1>1, <1>2, SMT DEF NextSeed, Between
<1> HIDE DEF drawn
<1>4. Between(drawn, 0, m) /\ (36 * drawn) \div m = 0
  BY <1>1, <1>3, SMT DEF Between
<1>5. Letter(drawn) = 0
  BY <1>4, LetterIsFloor, Zenon
<1> QED
  BY <1>5, Zenon DEF drawn

\* Twelve letters do not make twelve free ones: whatever the clock reads, an
\* identifier that is not made of time(0) starts with the letter 0.
THEOREM FirstLetterCorrect == Spec => []FirstLetterIsFixed
<1>1. Init => UndrawnSeed /\ FirstLetterIsFixed
  <2> SUFFICES ASSUME Init PROVE UndrawnSeed /\ FirstLetterIsFixed
    OBVIOUS
  <2>1. id = << >>
    BY DEF Init
  <2>2. ASSUME millisecond # 0 PROVE seed = millisecond
    <3>1. PICK time \in Times : seed = StartSeed(millisecond, time)
      BY DEF Init
    <3>2. Between(millisecond, 0, 1000)
      BY ReadingsAssumption DEF Init, Between
    <3>3. seed = millisecond % m
      BY <2>2, <3>1, Zenon DEF StartSeed
    <3> QED
      BY <3>2, <3>3, SMT DEF Between, m
  <2> QED
    BY <2>1, <2>2 DEF UndrawnSeed, FirstLetterIsFixed
<1>2. TypeOK /\ UndrawnSeed /\ FirstLetterIsFixed /\ [Draw]_vars
        => UndrawnSeed' /\ FirstLetterIsFixed'
  <2> SUFFICES ASSUME TypeOK, UndrawnSeed, FirstLetterIsFixed, [Draw]_vars
               PROVE  UndrawnSeed' /\ FirstLetterIsFixed'
    OBVIOUS
  <2>1. CASE Draw
    <3>1. /\ id' = Append(id, Letter(seed')) /\ seed' = NextSeed(seed)
          /\ millisecond' = millisecond /\ id \in Seq(Letters)
      BY <2>1 DEF Draw, TypeOK
    <3>2. id' # << >>
      BY <3>1
    <3>3. ASSUME millisecond # 0 PROVE id'[1] = 0
      <4>1. CASE id = << >>
        <5>1. Between(seed, 0, 1000)
          BY <3>3, <4>1, ReadingsAssumption DEF TypeOK, UndrawnSeed, Between
        <5>2. Letter(seed') = 0
          BY <3>1, <5>1, SmallSeedDrawsFirstLetter
        <5> QED
          BY <3>1, <4>1, <5>2
      <4>2. CASE id # << >>
        BY <3>1, <3>3, <4>2 DEF FirstLetterIsFixed
      <4> QED
        BY <4>1, <4>2
    <3> QED
      BY <3>1, <3>2, <3>3 DEF UndrawnSeed, FirstLetterIsFixed
  <2>2. CASE UNCHANGED vars
    BY <2>2 DEF vars, UndrawnSeed, FirstLetterIsFixed
  <2> QED
    BY <2>1, <2>2
<1> QED
  BY <1>1, <1>2, IdentifiersTypeCorrect, PTL DEF Spec
-----------------------------------------------------------------------------
(***************************************************************************)
(* Doubling and adding.                                                    *)
(***************************************************************************)

\* Plus adds modulo m.
LEMMA PlusAdds ==
  ASSUME NEW x, NEW y, Between(x, 0, m), Between(y, 0, m)
  PROVE  /\ Between(Plus(x, y), 0, m)
         /\ Plus(x, y) = x + y \/ Plus(x, y) = x + y - m
<1>1. m = 2147483647
  BY SMT DEF m
<1> QED
  BY <1>1, SMT DEF Plus, Between

\* What Product makes of its values at smaller numbers.
Doubled(half, k, x) ==
  IF k % 2 = 1 THEN Plus(Plus(half, half), x) ELSE Plus(half, half)

\* The only number below m that differs from another by a multiple of m.
LEMMA OneRemainder ==
  ASSUME NEW p \in Int, NEW j \in Int, NEW e, Between(e, 0, m), p = e + j * m
  PROVE  p % m = e
<1>1. m = 2147483647
  BY SMT DEF m
<1> QED
  BY <1>1, SMT DEF Between

\* Doubling the product with half a number, and adding once if it is odd, is
\* the product with the number.
LEMMA DoubledIsProduct ==
  ASSUME NEW k \in Nat, NEW x, Between(x, 0, m)
  PROVE  Doubled(((k \div 2) * x) % m, k, x) = (k * x) % m
<1>1. m = 2147483647 /\ x \in Int
  BY SMT DEF m, Between
<1>2. PICK h \in Nat : h = k \div 2 /\ (k = 2 * h \/ k = 2 * h + 1)
                       /\ (k % 2 = 1 <=> k = 2 * h + 1)
  BY SMT
<1>3. PICK p \in Int : p = h * x
  BY <1>1, <1>2, SMT
<1>4. PICK e : e = p % m
  OBVIOUS
<1>5. PICK j \in Int : p = e + j * m /\ Between(e, 0, m)
  BY <1>1, <1>3, <1>4, SMT DEF Between
<1>6. PICK d : d = Plus(e, e)
  OBVIOUS
<1>7. Between(d, 0, m) /\ (d = e + e \/ d = e + e - m)
  BY <1>5, <1>6, PlusAdds
<1>8. Between(Plus(d, x), 0, m) /\ (Plus(d, x) = d + x \/ Plus(d, x) = d + x - m)
  BY <1>7, PlusAdds
<1>9. CASE k = 2 * h
  <2>1. k * x = 2 * p
    BY <1>1, <1>2, <1>3, <1>9, SMT
  <2>2. \E i \in Int : 2 * p = d + i * m
    <3>1. 2 * p = d + (2 * j) * m \/ 2 * p = d + (2 * j + 1) * m
      BY <1>1, <1>3, <1>5, <1>7, SMT DEF Between
    <3> QED
      BY <1>5, <3>1
  <2>3. (2 * p) % m = d
    BY <1>3, <1>7, <2>2, OneRemainder
  <2>4. Doubled(e, k, x) = d
    BY <1>1, <1>2, <1>6, <1>9, SMT DEF Doubled
  <2> QED
    BY <1>2, <1>3, <1>4, <2>1, <2>3, <2>4
<1>10. CASE k = 2 * h + 1
  <2>1. k * x = 2 * p + x
    BY <1>1, <1>2, <1>3, <1>10, SMT
  <2>2. \E i \in Int : 2 * p + x = Plus(d, x) + i * m
    <3>1. \/ 2 * p + x = Plus(d, x) + (2 * j) * m
          \/ 2 * p + x = Plus(d, x) + (2 * j + 1) * m
          \/ 2 * p + x = Plus(d, x) + (2 * j + 2) * m
      BY <1>1, <1>3, <1>5, <1>7, <1>8, SMT DEF Between
    <3> QED
      BY <1>5, <3>1
  <2>3. (2 * p + x) % m = Plus(d, x)
    BY <1>1, <1>3, <1>8, <2>2, OneRemainder
  <2>4. Doubled(e, k, x) = Plus(d, x)
    BY <1>2, <1>6, <1>10 DEF Doubled
  <2> QED
    BY <1>2, <1>3, <1>4, <2>1, <2>3, <2>4
<1> QED
  BY <1>2, <1>9, <1>10

\* Product is the product modulo m.
LEMMA ProductIsProduct ==
  ASSUME NEW n \in Nat, NEW x, Between(x, 0, m)
  PROVE  Product(n, x) = (n * x) % m
<1> DEFINE Step(f, k) == IF k = 0 THEN 0 ELSE Doubled(f[k \div 2], k, x)
           Obeys(f) == f = [k \in Nat |-> Step(f, k)]
<1>1. Product(n, x) = (CHOOSE f : Obeys(f))[n]
  BY DEF Product, Doubled
<1>2. ASSUME NEW k \in Nat PROVE k # 0 => k \div 2 \in Nat /\ k \div 2 < k
  BY SMT
<1>3. \E f : Obeys(f)
  <2>1. PICK f : f = [k \in Nat |-> (k * x) % m]
    OBVIOUS
  <2>2. ASSUME NEW k \in Nat PROVE f[k] = Step(f, k)
    <3>1. CASE k = 0
      <4>1. 0 * x = 0 /\ 0 % m = 0
        BY SMT DEF Between, m
      <4> QED
        BY <2>1, <3>1, <4>1
    <3>2. CASE k # 0
      <4>1. f[k] = (k * x) % m /\ f[k \div 2] = ((k \div 2) * x) % m
        BY <1>2, <2>1, <3>2
      <4> QED
        BY <3>2, <4>1, DoubledIsProduct
    <3> QED
      BY <3>1, <3>2
  <2> HIDE DEF Step
  <2>3. f = [k \in Nat |-> f[k]]
    BY <2>1
  <2>4. f = [k \in Nat |-> Step(f, k)]
    BY <2>2, <2>3
  <2> QED
    BY <2>4, Zenon
<1>4. PICK f : f = (CHOOSE g : Obeys(g))
  OBVIOUS
<1>5. Obeys(f)
  <2> HIDE DEF Obeys
  <2> QED
    BY <1>3, <1>4, Zenon
<1>6. ASSUME NEW k \in Nat PROVE f[k] = Step(f, k)
  <2> HIDE DEF Step
  <2> QED
    BY <1>5
<1> DEFINE Wrong == {k \in Nat : f[k] # (k * x) % m}
<1>7. Wrong = {}
  <2> SUFFICES ASSUME Wrong # {} PROVE FALSE
    OBVIOUS
  <2>1. PICK k \in Wrong : \A other \in Wrong : k <= other
    BY LeastNat
  <2>2. k \in Nat /\ f[k] # (k * x) % m
    BY <2>1
  <2>3. CASE k = 0
    <3>1. 0 * x = 0 /\ 0 % m = 0
      BY SMT DEF Between, m
    <3> QED
      BY <1>6, <2>2, <2>3, <3>1
  <2>4. CASE k # 0
    <3>1. k \div 2 \in Nat /\ k \div 2 \notin Wrong
      BY <1>2, <2>1, <2>2, <2>4
    <3>2. f[k \div 2] = ((k \div 2) * x) % m
      BY <3>1
    <3>3. f[k] = Doubled(f[k \div 2], k, x)
      BY <1>6, <2>2, <2>4
    <3> QED
      BY <2>2, <3>2, <3>3, DoubledIsProduct
  <2> QED
    BY <2>3, <2>4
<1> QED
  BY <1>1, <1>4, <1>7

\* The random numbers of GenerateUniform are those of the generator it means
\* to be, drawn by products that 32 bits do not hold.
THEOREM DrawsCorrect == Spec => DrawsAreProducts
<1>1. TypeOK /\ [Draw]_vars => [seed' = Product(a, seed)]_vars
  <2> SUFFICES ASSUME TypeOK, Draw PROVE seed' = Product(a, seed)
    OBVIOUS
  <2>1. Between(seed, 0, m) /\ a \in Nat
    BY SeedRange, SMT DEF TypeOK, a
  <2>2. NextSeed(seed) = (a * seed) % m
    BY <2>1, NextSeedIsProduct
  <2>3. Product(a, seed) = (a * seed) % m
    BY <2>1, ProductIsProduct
  <2> QED
    BY <2>2, <2>3 DEF Draw
<1> QED
  BY <1>1, IdentifiersTypeCorrect, PTL DEF Spec, DrawsAreProducts
-----------------------------------------------------------------------------
(***************************************************************************)
(* Nine letters tell the seed. Seeds with the same letter are less than    *)
(* m / 36 apart. What is apart is drawn like the seeds, so nine draws are  *)
(* the first times the powers of a, modulo m; and those powers satisfy     *)
(* nine equations modulo m whose coefficients add up to less than 36. Of   *)
(* numbers so small they hold without the modulus, and have one solution.  *)
(***************************************************************************)

\* Closer to 0 than the seeds of a letter are to each other.
Near(x) == x \in Int /\ -m < 36 * x /\ 36 * x < m

\* One number comes after another in the sequence of draws.
Draws(x, next) == \E j \in Int : next = a * x + j * m

\* A multiple of m that is smaller than m is 0.
LEMMA SmallMultiple ==
  ASSUME NEW sum \in Int, NEW w \in Int, sum = w * m, -m < sum, sum < m
  PROVE  sum = 0
<1>1. m = 2147483647
  BY SMT DEF m
<1> QED
  BY <1>1, SMT

\* Drawing adds a power of a: if a number is c times the first one, the next is
\* what is left of a * c times it.
LEMMA NextPower ==
  ASSUME NEW first \in Int, NEW x \in Int, NEW next \in Int, Draws(x, next),
         NEW c \in Int, NEW rest \in Int, NEW k \in Int,
         a * c = rest + k * m,
         \E p \in Int : x = c * first + p * m
  PROVE  \E p \in Int : next = rest * first + p * m
<1>1. m = 2147483647 /\ a = 39373
  BY SMT DEF m, a
<1>2. PICK p \in Int : x = c * first + p * m
  OBVIOUS
<1>3. PICK j \in Int : next = a * x + j * m
  BY DEF Draws
<1>4. PICK u \in Int, v \in Int : u = c * first /\ v = k * first
  OBVIOUS
<1>5. a * u = rest * first + v * m
  <2>1. a * u = (a * c) * first
    BY <1>1, <1>4, SMT
  <2> QED
    BY <1>1, <1>4, <2>1, SMT
<1>6. next = rest * first + (v + a * p + j) * m
  <2>1. a * x = a * u + a * (p * m)
    BY <1>1, <1>2, <1>4, SMT
  <2> QED
    BY <1>1, <1>3, <1>4, <1>5, <2>1, SMT
<1>7. v + a * p + j \in Int
  BY <1>1, <1>4
<1> QED
  BY <1>6, <1>7

\* Nine draws that are all near 0 are all 0.
LEMMA NearIsNothing ==
  ASSUME NEW x1 \in Int, NEW x2 \in Int, NEW x3 \in Int, NEW x4 \in Int,
         NEW x5 \in Int, NEW x6 \in Int, NEW x7 \in Int, NEW x8 \in Int,
         NEW x9 \in Int,
         Near(x1), Near(x2), Near(x3), Near(x4), Near(x5), Near(x6), Near(x7),
         Near(x8), Near(x9),
         Draws(x1, x2), Draws(x2, x3), Draws(x3, x4), Draws(x4, x5),
         Draws(x5, x6), Draws(x6, x7), Draws(x7, x8), Draws(x8, x9)
  PROVE  x1 = 0
<1>1. m = 2147483647 /\ a = 39373
  BY SMT DEF m, a
<1>2. \E p \in Int : x2 = 39373 * x1 + p * m
  BY <1>1 DEF Draws
<1>3. \E p \in Int : x3 = 1550233129 * x1 + p * m
  <2>1. a * 39373 = 1550233129 + 0 * m
    BY <1>1, SMT
  <2> QED
    BY <1>2, <2>1, NextPower
<1>4. \E p \in Int : x4 = 1548773083 * x1 + p * m
  <2>1. a * 1550233129 = 1548773083 + 28422 * m
    BY <1>1, SMT
  <2> QED
    BY <1>3, <2>1, NextPower
<1>5. \E p \in Int : x5 = 2044440394 * x1 + p * m
  <2>1. a * 1548773083 = 2044440394 + 28395 * m
    BY <1>1, SMT
  <2> QED
    BY <1>4, <2>1, NextPower
<1>6. \E p \in Int : x6 = 1622092461 * x1 + p * m
  <2>1. a * 2044440394 = 1622092461 + 37483 * m
    BY <1>1, SMT
  <2> QED
    BY <1>5, <2>1, NextPower
<1>7. \E p \in Int : x7 = 482805173 * x1 + p * m
  <2>1. a * 1622092461 = 482805173 + 29740 * m
    BY <1>1, SMT
  <2> QED
    BY <1>6, <2>1, NextPower
<1>8. \E p \in Int : x8 = 2110316932 * x1 + p * m
  <2>1. a * 482805173 = 2110316932 + 8851 * m
    BY <1>1, SMT
  <2> QED
    BY <1>7, <2>1, NextPower
<1>9. \E p \in Int : x9 = 1218777559 * x1 + p * m
  <2>1. a * 2110316932 = 1218777559 + 38691 * m
    BY <1>1, SMT
  <2> QED
    BY <1>8, <2>1, NextPower
<1>10. PICK p2 \in Int : x2 = 39373 * x1 + p2 * m
  BY <1>2
<1>11. PICK p3 \in Int : x3 = 1550233129 * x1 + p3 * m
  BY <1>3
<1>12. PICK p4 \in Int : x4 = 1548773083 * x1 + p4 * m
  BY <1>4
<1>13. PICK p5 \in Int : x5 = 2044440394 * x1 + p5 * m
  BY <1>5
<1>14. PICK p6 \in Int : x6 = 1622092461 * x1 + p6 * m
  BY <1>6
<1>15. PICK p7 \in Int : x7 = 482805173 * x1 + p7 * m
  BY <1>7
<1>16. PICK p8 \in Int : x8 = 2110316932 * x1 + p8 * m
  BY <1>8
<1>17. PICK p9 \in Int : x9 = 1218777559 * x1 + p9 * m
  BY <1>9
<1> DEFINE small(x) == -59652324 < x /\ x < 59652324
<1>18. /\ small(x1) /\ small(x2) /\ small(x3) /\ small(x4) /\ small(x5)
       /\ small(x6) /\ small(x7) /\ small(x8) /\ small(x9)
  BY <1>1, SMT DEF Near
<1>19. 3 * x1 + 3 * x2 - 2 * x3 - 2 * x4 + x5 - 3 * x6 + x7 + 3 * x8 - 7 * x9 = 0
  <2> DEFINE sum == 3 * x1 + 3 * x2 - 2 * x3 - 2 * x4 + x5 - 3 * x6 + x7 + 3 * x8 - 7 * x9
             w == 3 * p2 - 2 * p3 - 2 * p4 + p5 - 3 * p6 + p7 + 3 * p8 - 7 * p9 - 5 * x1
  <2>1. sum \in Int /\ w \in Int /\ sum = w * m
    BY <1>1, <1>10, <1>11, <1>12, <1>13, <1>14, <1>15, <1>16, <1>17, SMT
  <2>2. -m < sum /\ sum < m
    BY <1>1, <1>18, SMT
  <2> HIDE DEF sum, w
  <2>3. sum = 0
    BY <2>1, <2>2, SmallMultiple
  <2> QED
    BY <2>3 DEF sum
<1>20. -x1 - 6 * x2 - 8 * x3 + 3 * x4 - x5 - 4 * x6 - 2 * x7 - 2 * x8 = 0
  <2> DEFINE sum == -x1 - 6 * x2 - 8 * x3 + 3 * x4 - x5 - 4 * x6 - 2 * x7 - 2 * x8
             w == -6 * p2 - 8 * p3 + 3 * p4 - p5 - 4 * p6 - 2 * p7 - 2 * p8 - 10 * x1
  <2>1. sum \in Int /\ w \in Int /\ sum = w * m
    BY <1>1, <1>10, <1>11, <1>12, <1>13, <1>14, <1>15, <1>16, <1>17, SMT
  <2>2. -m < sum /\ sum < m
    BY <1>1, <1>18, SMT
  <2> HIDE DEF sum, w
  <2>3. sum = 0
    BY <2>1, <2>2, SmallMultiple
  <2> QED
    BY <2>3 DEF sum
<1>21. x2 + 6 * x3 + 8 * x4 - 3 * x5 + x6 + 4 * x7 + 2 * x8 + 2 * x9 = 0
  <2> DEFINE sum == x2 + 6 * x3 + 8 * x4 - 3 * x5 + x6 + 4 * x7 + 2 * x8 + 2 * x9
             w == p2 + 6 * p3 + 8 * p4 - 3 * p5 + p6 + 4 * p7 + 2 * p8 + 2 * p9 + 12 * x1
  <2>1. sum \in Int /\ w \in Int /\ sum = w * m
    BY <1>1, <1>10, <1>11, <1>12, <1>13, <1>14, <1>15, <1>16, <1>17, SMT
  <2>2. -m < sum /\ sum < m
    BY <1>1, <1>18, SMT
  <2> HIDE DEF sum, w
  <2>3. sum = 0
    BY <2>1, <2>2, SmallMultiple
  <2> QED
    BY <2>3 DEF sum
<1>22. -x1 - x2 + 2 * x3 + 3 * x4 - x5 - 12 * x6 - 5 * x7 + 2 * x8 + x9 = 0
  <2> DEFINE sum == -x1 - x2 + 2 * x3 + 3 * x4 - x5 - 12 * x6 - 5 * x7 + 2 * x8 + x9
             w == -p2 + 2 * p3 + 3 * p4 - p5 - 12 * p6 - 5 * p7 + 2 * p8 + p9 - 5 * x1
  <2>1. sum \in Int /\ w \in Int /\ sum = w * m
    BY <1>1, <1>10, <1>11, <1>12, <1>13, <1>14, <1>15, <1>16, <1>17, SMT
  <2>2. -m < sum /\ sum < m
    BY <1>1, <1>18, SMT
  <2> HIDE DEF sum, w
  <2>3. sum = 0
    BY <2>1, <2>2, SmallMultiple
  <2> QED
    BY <2>3 DEF sum
<1>23. 5 * x1 + 10 * x2 - 8 * x5 - 3 * x6 + 4 * x7 + x8 = 0
  <2> DEFINE sum == 5 * x1 + 10 * x2 - 8 * x5 - 3 * x6 + 4 * x7 + x8
             w == 10 * p2 - 8 * p5 - 3 * p6 + 4 * p7 + p8 - 8 * x1
  <2>1. sum \in Int /\ w \in Int /\ sum = w * m
    BY <1>1, <1>10, <1>11, <1>12, <1>13, <1>14, <1>15, <1>16, <1>17, SMT
  <2>2. -m < sum /\ sum < m
    BY <1>1, <1>18, SMT
  <2> HIDE DEF sum, w
  <2>3. sum = 0
    BY <2>1, <2>2, SmallMultiple
  <2> QED
    BY <2>3 DEF sum
<1>24. 7 * x1 - 4 * x2 + 7 * x3 + x4 - 4 * x5 - 4 * x6 + x7 + 2 * x8 - 2 * x9 = 0
  <2> DEFINE sum == 7 * x1 - 4 * x2 + 7 * x3 + x4 - 4 * x5 - 4 * x6 + x7 + 2 * x8 - 2 * x9
             w == -4 * p2 + 7 * p3 + p4 - 4 * p5 - 4 * p6 + p7 + 2 * p8 - 2 * p9
  <2>1. sum \in Int /\ w \in Int /\ sum = w * m
    BY <1>1, <1>10, <1>11, <1>12, <1>13, <1>14, <1>15, <1>16, <1>17, SMT
  <2>2. -m < sum /\ sum < m
    BY <1>1, <1>18, SMT
  <2> HIDE DEF sum, w
  <2>3. sum = 0
    BY <2>1, <2>2, SmallMultiple
  <2> QED
    BY <2>3 DEF sum
<1>25. 3 * x1 - 5 * x2 - 2 * x4 + 5 * x5 + x6 + 7 * x7 + 3 * x8 + 6 * x9 = 0
  <2> DEFINE sum == 3 * x1 - 5 * x2 - 2 * x4 + 5 * x5 + x6 + 7 * x7 + 3 * x8 + 6 * x9
             w == -5 * p2 - 2 * p4 + 5 * p5 + p6 + 7 * p7 + 3 * p8 + 6 * p9 + 12 * x1
  <2>1. sum \in Int /\ w \in Int /\ sum = w * m
    BY <1>1, <1>10, <1>11, <1>12, <1>13, <1>14, <1>15, <1>16, <1>17, SMT
  <2>2. -m < sum /\ sum < m
    BY <1>1, <1>18, SMT
  <2> HIDE DEF sum, w
  <2>3. sum = 0
    BY <2>1, <2>2, SmallMultiple
  <2> QED
    BY <2>3 DEF sum
<1>26. -2 * x1 - 5 * x2 + 2 * x3 - 7 * x4 - 3 * x5 - 2 * x6 + 9 * x7 + 3 * x8 = 0
  <2> DEFINE sum == -2 * x1 - 5 * x2 + 2 * x3 - 7 * x4 - 3 * x5 - 2 * x6 + 9 * x7 + 3 * x8
             w == -5 * p2 + 2 * p3 - 7 * p4 - 3 * p5 - 2 * p6 + 9 * p7 + 3 * p8 - 3 * x1
  <2>1. sum \in Int /\ w \in Int /\ sum = w * m
    BY <1>1, <1>10, <1>11, <1>12, <1>13, <1>14, <1>15, <1>16, <1>17, SMT
  <2>2. -m < sum /\ sum < m
    BY <1>1, <1>18, SMT
  <2> HIDE DEF sum, w
  <2>3. sum = 0
    BY <2>1, <2>2, SmallMultiple
  <2> QED
    BY <2>3 DEF sum
<1>27. 2 * x2 + 5 * x3 - 2 * x4 + 7 * x5 + 3 * x6 + 2 * x7 - 9 * x8 - 3 * x9 = 0
  <2> DEFINE sum == 2 * x2 + 5 * x3 - 2 * x4 + 7 * x5 + 3 * x6 + 2 * x7 - 9 * x8 - 3 * x9
             w == 2 * p2 + 5 * p3 - 2 * p4 + 7 * p5 + 3 * p6 + 2 * p7 - 9 * p8 - 3 * p9 + x1
  <2>1. sum \in Int /\ w \in Int /\ sum = w * m
    BY <1>1, <1>10, <1>11, <1>12, <1>13, <1>14, <1>15, <1>16, <1>17, SMT
  <2>2. -m < sum /\ sum < m
    BY <1>1, <1>18, SMT
  <2> HIDE DEF sum, w
  <2>3. sum = 0
    BY <2>1, <2>2, SmallMultiple
  <2> QED
    BY <2>3 DEF sum
<1> QED
  BY <1>19, <1>20, <1>21, <1>22, <1>23, <1>24, <1>25, <1>26, <1>27, SMT

\* Seeds with the same letter are near each other.
LEMMA SameLetterIsNear ==
  ASSUME NEW x, NEW y, Between(x, 0, m), Between(y, 0, m), Letter(x) = Letter(y)
  PROVE  Near(x - y)
<1>1. PICK place \in Int : place = (36 * x) \div m /\ place = (36 * y) \div m
  <2>1. Letter(x) \in Int
    BY LetterIsFloor DEF Letters
  <2> QED
    BY <2>1, LetterIsFloor
<1>2. m = 2147483647
  BY SMT DEF m
<1>3. /\ place * m <= 36 * x /\ 36 * x < (place + 1) * m
      /\ place * m <= 36 * y /\ 36 * y < (place + 1) * m
  BY <1>1, <1>2, SMT DEF Between
<1> QED
  BY <1>2, <1>3, SMT DEF Between, Near

\* What a draw is, without the remainder.
LEMMA NextSeedIsDrawn ==
  ASSUME NEW x, Between(x, 0, m)
  PROVE  \E j \in Int : NextSeed(x) = a * x + j * m
<1>1. PICK e : e = NextSeed(x)
  OBVIOUS
<1>2. e = (a * x) % m
  BY <1>1, NextSeedIsProduct
<1>3. PICK p \in Int : p = a * x
  BY SMT DEF Between, a
<1>4. m = 2147483647
  BY SMT DEF m
<1>5. \E j \in Int : e = p + j * m
  <2>1. PICK i \in Int : i = p \div m
    BY <1>3, <1>4, SMT
  <2>2. e = p + (0 - i) * m
    BY <1>2, <1>3, <1>4, <2>1, SMT
  <2> QED
    BY <2>1, <2>2
<1> QED
  BY <1>1, <1>3, <1>5

\* What is apart is drawn like the seeds.
LEMMA ApartIsDrawn ==
  ASSUME NEW x, NEW y, Between(x, 0, m), Between(y, 0, m)
  PROVE  Draws(x - y, NextSeed(x) - NextSeed(y))
<1>1. PICK i \in Int : NextSeed(x) = a * x + i * m
  BY NextSeedIsDrawn
<1>2. PICK j \in Int : NextSeed(y) = a * y + j * m
  BY NextSeedIsDrawn
<1>3. m = 2147483647 /\ a = 39373 /\ x \in Int /\ y \in Int
  BY SMT DEF m, a, Between
<1>4. NextSeed(x) - NextSeed(y) = a * (x - y) + (i - j) * m
  BY <1>1, <1>2, <1>3, SMT
<1> QED
  BY <1>4 DEF Draws

\* No two seeds draw the same one: a has an inverse modulo m.
LEMMA NextSeedTellsSeed ==
  ASSUME NEW x, NEW y, Between(x, 0, m), Between(y, 0, m),
         NextSeed(x) = NextSeed(y)
  PROVE  x = y
<1>1. PICK i \in Int : NextSeed(x) = a * x + i * m
  BY NextSeedIsDrawn
<1>2. PICK j \in Int : NextSeed(y) = a * y + j * m
  BY NextSeedIsDrawn
<1>3. m = 2147483647 /\ a = 39373 /\ x \in Int /\ y \in Int
  BY SMT DEF m, a, Between
<1>4. PICK apart \in Int, k \in Int : apart = x - y /\ k = j - i
  BY <1>3
<1>5. a * apart = k * m
  <2>1. a * x + i * m = a * y + j * m
    BY <1>1, <1>2, Zenon
  <2> QED
    BY <1>3, <1>4, <2>1, SMT
<1>6. a * 1451472705 = 1 + 26612 * m
  BY <1>3, SMT
<1>7. \E w \in Int : apart = w * m
  <2>1. PICK w \in Int : w = 1451472705 * k - 26612 * apart
    BY <1>4, SMT
  <2>2. apart = w * m
    BY <1>3, <1>5, <1>6, <2>1, SMT
  <2> QED
    BY <2>2, SMT
<1>8. -m < apart /\ apart < m
  BY <1>3, <1>4, SMT DEF Between
<1>9. apart = 0
  BY <1>7, <1>8, SmallMultiple, SMT
<1> QED
  BY <1>3, <1>4, <1>9, SMT

\* What SeedsOf makes of a table of the seeds before.
SeedAfter(seeds, n, start) == IF n = 0 THEN start ELSE NextSeed(seeds[n - 1])

\* There is a table of the seeds up to any draw.
LEMMA SeedsExist ==
  ASSUME NEW start, NEW last \in Nat
  PROVE  \E f : f = [n \in 0..last |-> SeedAfter(f, n, start)]
<1> DEFINE Obeys(f, k) == f = [n \in 0..k |-> SeedAfter(f, n, start)]
           Wrong == {k \in Nat : ~ \E f : Obeys(f, k)}
<1>1. Wrong = {}
  <2> SUFFICES ASSUME Wrong # {} PROVE FALSE
    OBVIOUS
  <2>1. PICK k \in Wrong : \A other \in Wrong : k <= other
    BY LeastNat
  <2>2. k \in Nat /\ ~ \E f : Obeys(f, k)
    BY <2>1
  <2>3. CASE k = 0
    <3>1. PICK f : f = [n \in 0..k |-> start]
      OBVIOUS
    <3>2. \A n \in 0..k : n = 0
      BY <2>3
    <3>3. Obeys(f, k)
      BY <3>1, <3>2 DEF SeedAfter
    <3> QED
      BY <2>2, <3>3, Zenon
  <2>4. CASE k # 0
    <3>1. k - 1 \in Nat /\ k - 1 < k
      BY <2>2, <2>4
    <3>2. k - 1 \notin Wrong
      BY <2>1, <2>2, <3>1
    <3>3. PICK f : Obeys(f, k - 1)
      BY <3>1, <3>2
    <3>4. PICK g : g = [n \in 0..k |-> SeedAfter(f, n, start)]
      OBVIOUS
    <3>5. ASSUME NEW n \in 0..k PROVE SeedAfter(g, n, start) = SeedAfter(f, n, start)
      <4>1. CASE n = 0
        BY <4>1 DEF SeedAfter
      <4>2. CASE n # 0
        <5>1. n - 1 \in 0..k /\ n - 1 \in 0..(k - 1)
          BY <2>2, <4>2
        <5>2. f[n - 1] = SeedAfter(f, n - 1, start)
          <6> HIDE DEF Wrong
          <6> QED
            BY <3>3, <5>1
        <5>3. g[n - 1] = SeedAfter(f, n - 1, start)
          BY <3>4, <5>1
        <5> QED
          BY <4>2, <5>2, <5>3 DEF SeedAfter
      <4> QED
        BY <4>1, <4>2
    <3>6. Obeys(g, k)
      BY <3>4, <3>5
    <3> QED
      BY <2>2, <3>6, Zenon
  <2> QED
    BY <2>3, <2>4
<1>2. \E f : Obeys(f, last)
  BY <1>1
<1> QED
  BY <1>2

\* The seeds of an identifier, one drawn after another, are all below m.
LEMMA SeedsObey ==
  ASSUME NEW start, Between(start, 0, m)
  PROVE  /\ SeedsOf(start)[0] = start
         /\ \A n \in 1..IdLength :
              SeedsOf(start)[n] = NextSeed(SeedsOf(start)[n - 1])
         /\ \A n \in 0..IdLength : Between(SeedsOf(start)[n], 0, m)
<1> DEFINE Obeys(f) == f = [n \in 0..IdLength |-> SeedAfter(f, n, start)]
<1>1. SeedsOf(start) = CHOOSE f : Obeys(f)
  BY Zenon DEF SeedsOf, SeedAfter
<1>2. PICK f : f = SeedsOf(start)
  OBVIOUS
<1>3. Obeys(f)
  <2>1. IdLength \in Nat
    BY DEF IdLength
  <2>2. \E g : Obeys(g)
    BY <2>1, SeedsExist
  <2> HIDE DEF Obeys
  <2> QED
    BY <1>1, <1>2, <2>2, Zenon
<1>4. ASSUME NEW n \in 0..IdLength PROVE f[n] = SeedAfter(f, n, start)
  BY <1>3
<1> HIDE DEF Obeys
<1>5. f[0] = start
  BY <1>4 DEF SeedAfter, IdLength
<1>6. ASSUME NEW n \in 1..IdLength PROVE f[n] = NextSeed(f[n - 1])
  BY <1>4 DEF SeedAfter, IdLength
<1> DEFINE Wrong == {n \in Nat : n <= IdLength /\ ~ Between(f[n], 0, m)}
<1>7. Wrong = {}
  <2> SUFFICES ASSUME Wrong # {} PROVE FALSE
    OBVIOUS
  <2>1. PICK n \in Wrong : \A other \in Wrong : n <= other
    BY LeastNat
  <2>2. n \in Nat /\ n <= IdLength /\ ~ Between(f[n], 0, m)
    BY <2>1
  <2>3. n # 0
    BY <1>5, <2>2
  <2>4. n - 1 \in Nat /\ n - 1 < n /\ n \in 1..IdLength /\ n - 1 <= IdLength
    BY <2>2, <2>3 DEF IdLength
  <2>5. n - 1 \notin Wrong
    BY <2>1, <2>2, <2>4
  <2>6. Between(f[n - 1], 0, m)
    BY <2>4, <2>5
  <2> QED
    BY <1>6, <2>2, <2>4, <2>6, NextSeedIsProduct
<1>8. ASSUME NEW n \in 0..IdLength PROVE Between(f[n], 0, m)
  <2>1. n \in Nat /\ n <= IdLength
    BY DEF IdLength
  <2> QED
    BY <1>7, <2>1
<1> QED
  BY <1>2, <1>5, <1>6, <1>8

\* Nine letters tell a seed from every other: of the two thousand million seeds
\* GenerateUniform can start from, no two share the first nine letters.
THEOREM LettersTellSeed ==
  ASSUME NEW s, NEW t, Between(s, 0, m), Between(t, 0, m),
         \A n \in 1..9 : Letter(SeedsOf(s)[n]) = Letter(SeedsOf(t)[n])
  PROVE  s = t
<1> DEFINE f == SeedsOf(s)
           g == SeedsOf(t)
           x(n) == f[n] - g[n]
<1>1. /\ f[0] = s /\ g[0] = t
      /\ \A n \in 1..12 : f[n] = NextSeed(f[n - 1]) /\ g[n] = NextSeed(g[n - 1])
      /\ \A n \in 0..12 : Between(f[n], 0, m) /\ Between(g[n], 0, m)
  BY SeedsObey DEF IdLength
<1>2. \A n \in 1..9 : Letter(f[n]) = Letter(g[n])
  OBVIOUS
<1> HIDE DEF f, g
<1>3. ASSUME NEW n \in 1..9 PROVE x(n) \in Int /\ Near(x(n))
  <2>1. Between(f[n], 0, m) /\ Between(g[n], 0, m)
    BY <1>1
  <2>2. Near(x(n))
    BY <1>2, <2>1, SameLetterIsNear
  <2> QED
    BY <2>2 DEF Near
<1>4. ASSUME NEW n \in 1..9 PROVE Draws(x(n), x(n + 1))
  <2>1. Between(f[n], 0, m) /\ Between(g[n], 0, m)
    BY <1>1
  <2>2. n + 1 \in 1..12 /\ (n + 1) - 1 = n
    OBVIOUS
  <2>3. f[n + 1] = NextSeed(f[n]) /\ g[n + 1] = NextSeed(g[n])
    BY <1>1, <2>2
  <2> QED
    BY <2>1, <2>3, ApartIsDrawn
<1>5. /\ Draws(x(1), x(2)) /\ Draws(x(2), x(3)) /\ Draws(x(3), x(4))
      /\ Draws(x(4), x(5)) /\ Draws(x(5), x(6)) /\ Draws(x(6), x(7))
      /\ Draws(x(7), x(8)) /\ Draws(x(8), x(9))
  <2> HIDE DEF x
  <2> QED
    BY <1>4
<1>6. f[1] - g[1] = 0
  <2>1. x(1) = 0
    <3> HIDE DEF x
    <3> QED
      BY <1>3, <1>5, NearIsNothing
  <2> QED
    BY <2>1
<1>7. Between(f[1], 0, m) /\ Between(g[1], 0, m)
      /\ Between(f[0], 0, m) /\ Between(g[0], 0, m)
      /\ f[1] = NextSeed(f[0]) /\ g[1] = NextSeed(g[0])
  BY <1>1
<1>8. f[1] = g[1]
  BY <1>6, <1>7 DEF Between
<1> QED
  BY <1>1, <1>7, <1>8, NextSeedTellsSeed

-----------------------------------------------------------------------------
\* Seed and letters are the draws from a first seed that the clock gave.
\* IdsTellMillisecondsApart, which reads the identifier only, rests on it.
DrawnFromClock ==
  \E time \in Times :
    LET seeds == SeedsOf(StartSeed(millisecond, time))
    IN /\ seed = seeds[Len(id)]
       /\ \A n \in 1..Len(id) : id[n] = Letter(seeds[n])

\* The first seed is below m, and is the millisecond when that is not 0.
LEMMA StartSeedValue ==
  ASSUME NEW ms \in 0..999, NEW time \in Int
  PROVE  /\ Between(StartSeed(ms, time), 0, m)
         /\ ms # 0 => StartSeed(ms, time) = ms
<1>1. m = 2147483647
  BY SMT DEF m
<1> QED
  BY <1>1, SMT DEF StartSeed, Between

\* A time is no millisecond as a first seed either.
LEMMA TimeIsNoMillisecond ==
  ASSUME NEW time \in Times, NEW ms \in 1..999
  PROVE  StartSeed(0, time) # ms
<1>1. m = 2147483647
  BY SMT DEF m
<1>2. time \in Int /\ 1000 <= time /\ time <= m
  <2>1. time \in 1000..m
    BY ReadingsAssumption
  <2>2. \A end \in Int : \A t \in 1000..end : t \in Int /\ 1000 <= t /\ t <= end
    BY SMT
  <2>3. m \in Int
    BY <1>1, SMT
  <2> QED
    BY <2>1, <2>2, <2>3
<1>3. StartSeed(0, time) = time % m
  BY Zenon DEF StartSeed
<1>4. CASE time = m
  BY <1>1, <1>3, <1>4, SMT
<1>5. CASE time # m
  <2>1. time % m = time
    BY <1>1, <1>2, <1>5, SMT
  <2> QED
    BY <1>2, <1>3, <2>1, SMT
<1> QED
  BY <1>4, <1>5, Zenon

\* The identifier is always made of the draws from the clock's seed.
LEMMA DrawnFromClockInvariant == Spec => []DrawnFromClock
<1>1. Init => DrawnFromClock
  <2> SUFFICES ASSUME Init PROVE DrawnFromClock
    OBVIOUS
  <2>1. PICK time \in Times : seed = StartSeed(millisecond, time)
    BY DEF Init
  <2>2. millisecond \in 0..999 /\ time \in Int
    BY ReadingsAssumption DEF Init
  <2>3. Len(id) = 0 /\ \A n \in 1..Len(id) : FALSE
    BY DEF Init
  <2>4. SeedsOf(StartSeed(millisecond, time))[0] = seed
    BY <2>1, <2>2, StartSeedValue, SeedsObey
  <2> QED
    BY <2>3, <2>4 DEF DrawnFromClock
<1>2. TypeOK /\ DrawnFromClock /\ [Draw]_vars => DrawnFromClock'
  <2> SUFFICES ASSUME TypeOK, DrawnFromClock, [Draw]_vars
               PROVE  DrawnFromClock'
    OBVIOUS
  <2>1. CASE Draw
    <3>1. PICK time \in Times :
            /\ seed = SeedsOf(StartSeed(millisecond, time))[Len(id)]
            /\ \A n \in 1..Len(id) :
                 id[n] = Letter(SeedsOf(StartSeed(millisecond, time))[n])
      BY DEF DrawnFromClock
    <3>2. PICK seeds : seeds = SeedsOf(StartSeed(millisecond, time))
      OBVIOUS
    <3>3. millisecond \in 0..999 /\ time \in Int
      BY ReadingsAssumption DEF TypeOK
    <3>4. \A n \in 1..IdLength : seeds[n] = NextSeed(seeds[n - 1])
      BY <3>2, <3>3, StartSeedValue, SeedsObey
    <3>5. /\ id' = Append(id, Letter(seed')) /\ seed' = NextSeed(seed)
          /\ millisecond' = millisecond /\ id \in Seq(Letters)
          /\ Len(id) < IdLength /\ Len(id) \in Nat
      BY <2>1 DEF Draw, TypeOK
    <3>6. Len(id') = Len(id) + 1
      BY <3>5
    <3>7. Len(id) + 1 \in 1..IdLength /\ (Len(id) + 1) - 1 = Len(id)
      BY <3>5 DEF IdLength
    <3>8. seed' = seeds[Len(id')]
      BY <3>1, <3>2, <3>4, <3>5, <3>6, <3>7
    <3>9. ASSUME NEW n \in 1..Len(id') PROVE id'[n] = Letter(seeds[n])
      <4>1. CASE n = Len(id) + 1
        BY <3>5, <3>6, <3>8, <4>1
      <4>2. CASE n # Len(id) + 1
        <5>1. n \in 1..Len(id)
          BY <3>5, <3>6, <4>2
        <5> QED
          BY <3>1, <3>2, <3>5, <5>1
      <4> QED
        BY <4>1, <4>2
    <3> QED
      BY <3>2, <3>5, <3>8, <3>9 DEF DrawnFromClock
  <2>2. CASE UNCHANGED vars
    BY <2>2 DEF vars, DrawnFromClock
  <2> QED
    BY <2>1, <2>2
<1> QED
  BY <1>1, <1>2, IdentifiersTypeCorrect, PTL DEF Spec

\* Of the orders of a second no two but those of one millisecond have the same
\* identifier, nor does one that time(0) is the seed of have that of another.
THEOREM IdsCorrect == Spec => []IdsTellMillisecondsApart
<1>1. TypeOK /\ DrawnFromClock => IdsTellMillisecondsApart
  <2> SUFFICES ASSUME TypeOK, DrawnFromClock, Len(id) = IdLength,
                      NEW ms \in DOMAIN IdOf, IdOf[ms] = id
               PROVE  ms = millisecond
    BY DEF IdsTellMillisecondsApart
  <2>1. ms \in Milliseconds /\ ms \in 1..999 /\ ms \in 0..999 /\ ms # 0
    BY ReadingsAssumption DEF IdOf
  <2>2. IdOf[ms] = [n \in 1..IdLength |-> Letter(SeedsOf(StartSeed(ms, 0))[n])]
    BY <2>1 DEF IdOf
  <2>3. PICK time \in Times :
          \A n \in 1..Len(id) :
            id[n] = Letter(SeedsOf(StartSeed(millisecond, time))[n])
    BY DEF DrawnFromClock
  <2>4. PICK mine, other : /\ mine = StartSeed(millisecond, time)
                           /\ other = StartSeed(ms, 0)
    OBVIOUS
  <2>5. millisecond \in 0..999 /\ time \in Int
    BY ReadingsAssumption DEF TypeOK
  <2>6. Between(mine, 0, m) /\ Between(other, 0, m) /\ other = ms
    <3>1. Between(mine, 0, m)
      BY <2>4, <2>5, StartSeedValue
    <3>2. 0 \in Int
      OBVIOUS
    <3>3. Between(other, 0, m) /\ other = ms
      BY <2>1, <2>4, <3>2, StartSeedValue, Zenon
    <3> QED
      BY <3>1, <3>3
  <2>7. ASSUME NEW n \in 1..9
        PROVE  Letter(SeedsOf(mine)[n]) = Letter(SeedsOf(other)[n])
    <3>1. n \in 1..IdLength
      BY DEF IdLength
    <3>2. id[n] = Letter(SeedsOf(other)[n])
      BY <2>2, <2>4, <3>1
    <3> QED
      BY <2>3, <2>4, <3>1, <3>2
  <2>8. mine = ms
    BY <2>6, <2>7, LettersTellSeed
  <2>9. CASE millisecond = 0
    <3>1. StartSeed(0, time) # ms
      BY <2>1, TimeIsNoMillisecond, Zenon
    <3> QED
      BY <2>4, <2>8, <2>9, <3>1, Zenon
  <2>10. CASE millisecond # 0
    BY <2>4, <2>5, <2>8, <2>10, StartSeedValue
  <2> QED
    BY <2>9, <2>10
<1> QED
  BY <1>1, IdentifiersTypeCorrect, DrawnFromClockInvariant, PTL


\* The identifier of an order is a function of the millisecond.
IdIsOfMillisecond ==
  Len(id) = IdLength /\ millisecond # 0 => id = IdOf[millisecond]

\* Two orders of the same millisecond of any two seconds, unless it is 0, get
\* the same identifier: GenerateId has no other source of difference.
THEOREM IdsRepeat == Spec => []IdIsOfMillisecond
<1>1. TypeOK /\ DrawnFromClock => IdIsOfMillisecond
  <2> SUFFICES ASSUME TypeOK, DrawnFromClock, Len(id) = IdLength,
                      millisecond # 0
               PROVE  id = IdOf[millisecond]
    BY DEF IdIsOfMillisecond
  <2>1. millisecond \in Milliseconds \ {0} /\ millisecond \in 0..999
    BY ReadingsAssumption DEF TypeOK
  <2>2. PICK time \in Times :
          \A n \in 1..Len(id) :
            id[n] = Letter(SeedsOf(StartSeed(millisecond, time))[n])
    BY DEF DrawnFromClock
  <2>3. StartSeed(millisecond, time) = StartSeed(millisecond, 0)
    BY DEF StartSeed
  <2>4. IdOf[millisecond] =
          [n \in 1..IdLength |-> Letter(SeedsOf(StartSeed(millisecond, 0))[n])]
    BY <2>1 DEF IdOf
  <2>5. id = [n \in 1..IdLength |-> id[n]]
    BY DEF TypeOK
  <2> QED
    BY <2>2, <2>3, <2>4, <2>5
<1> QED
  BY <1>1, IdentifiersTypeCorrect, DrawnFromClockInvariant, PTL
=============================================================================
