---------------------------- MODULE DataTheorems ----------------------------
(***************************************************************************)
(* Facts about data that the proofs of the services rest on: what a search *)
(* for the best order of a stack finds, that the sum over a map is a       *)
(* number and how it changes with a key (inductions made by looking at a   *)
(* least counterexample), what writing a map and appending to a file       *)
(* change, and what a quotient and a remainder are.                        *)
(***************************************************************************)
EXTENDS StdMap, Integers, Sequences, Functions, FiniteSetTheorems,
        SequenceTheorems, WellFoundedInduction, TLAPS

\* The order the least-counterexample arguments descend along.
Less == {p \in Nat \X Nat : p[1] < p[2]}

\* Every non-empty set of naturals has a least element.
LEMMA LeastNat ==
  ASSUME NEW T \in SUBSET Nat, T # {}
  PROVE  \E n \in T : \A m \in T : n <= m
<1>1. OpToRel(<, Nat) = Less
  BY Zenon DEF OpToRel, Less
<1>2. IsWellFoundedOn(Less, Nat)
  BY <1>1, NatLessThanWellFounded, Zenon
<1>3. \E n \in T : \A m \in T : ~ (<<m, n>> \in Less)
  BY <1>2, WFMin, Zenon
<1>4. \A m, n \in T : ~ (<<m, n>> \in Less) => n <= m
  <2> SUFFICES ASSUME NEW m \in T, NEW n \in T, m < n
               PROVE  <<m, n>> \in Less
    OBVIOUS
  <2> QED
    BY DEF Less
<1> QED
  BY <1>3, <1>4

-----------------------------------------------------------------------------
\* i is the first of the n first places of p to hold their maximum.
FirstMaximum(p, n, i) ==
  /\ \A j \in 1..n : p[j] <= p[i]
  /\ \A j \in 1..(i - 1) : p[j] < p[i]

\* A non-empty sequence of integers has a first maximum.
LEMMA FirstMaximumExists ==
  ASSUME NEW L \in Nat, L # 0, NEW p \in [1..L -> Int]
  PROVE  \E i \in 1..L : FirstMaximum(p, L, i)
<1> DEFINE Good(n) == \E i \in 1..n : FirstMaximum(p, n, i)
           Bad == {n \in 1..L : ~ Good(n)}
<1>1. SUFFICES ASSUME Bad # {} PROVE FALSE
  <2>1. L \in 1..L
    OBVIOUS
  <2> HIDE DEF FirstMaximum
  <2> QED
    BY <2>1
<1>2. PICK n \in Bad : \A m \in Bad : n <= m
  <2>1. Bad \in SUBSET Nat
    OBVIOUS
  <2> HIDE DEF Bad
  <2> QED
    BY <1>1, <2>1, LeastNat
<1>3. CASE n = 1
  <2>1. FirstMaximum(p, 1, 1)
    BY DEF FirstMaximum
  <2> QED
    BY <1>2, <1>3, <2>1
<1>4. CASE n # 1
  <2>1. n - 1 \in 1..L /\ n - 1 \notin Bad
    <3> HIDE DEF Good
    <3>1. n \in 1..L /\ n - 1 \in 1..L
      BY <1>2, <1>4
    <3> HIDE DEF Bad
    <3> QED
      BY <1>2, <3>1
  <2>2. PICK i \in 1..(n - 1) : FirstMaximum(p, n - 1, i)
    BY <2>1
  <2>3. CASE p[n] <= p[i]
    <3>1. FirstMaximum(p, n, i)
      BY <1>2, <2>1, <2>2, <2>3 DEF FirstMaximum
    <3> QED
      BY <1>2, <2>2, <3>1
  <2>4. CASE ~ (p[n] <= p[i])
    <3>1. FirstMaximum(p, n, n)
      BY <1>2, <2>1, <2>2, <2>4 DEF FirstMaximum
    <3> QED
      BY <1>2, <3>1
  <2> QED
    BY <2>3, <2>4
<1> QED
  BY <1>3, <1>4

-----------------------------------------------------------------------------
\* The recursion behind SumFunction, which picks one key at a time.
Pick(s) == CHOOSE x \in s : TRUE
SumStep(f, g, s) == IF s = {} THEN 0 ELSE f[Pick(s)] + g[s \ {Pick(s)}]

\* SumFunction as the value of a recursive table.
LEMMA SumFunctionUnfolds ==
  ASSUME NEW f
  PROVE  SumFunction(f) =
           (CHOOSE g : g = [s \in SUBSET DOMAIN f |-> SumStep(f, g, s)])
             [DOMAIN f]
  BY DEF SumFunction, SumFunctionOnSet, FoldFunctionOnSet, MapThenFoldSet, SumStep, Pick

\* Removing the key picked makes the set smaller by one.
LEMMA PickRemoved ==
  ASSUME NEW s, IsFiniteSet(s), s # {}
  PROVE  /\ Pick(s) \in s
         /\ IsFiniteSet(s \ {Pick(s)})
         /\ Cardinality(s) \in Nat
         /\ Cardinality(s \ {Pick(s)}) \in Nat
         /\ Cardinality(s \ {Pick(s)}) = Cardinality(s) - 1
  BY FS_RemoveElement, FS_CardinalityType DEF Pick

\* g sums f over the sets of keys of up to n elements.
SumsUpTo(f, g, n) ==
  \A s \in SUBSET DOMAIN f : Cardinality(s) <= n => g[s] = SumStep(f, g, s)

\* There is a table for the sets of up to n keys, for every n.
LEMMA SumTableUpTo ==
  ASSUME NEW S, IsFiniteSet(S), NEW f \in [S -> Int], NEW n \in Nat
  PROVE  \E g \in [SUBSET S -> Int] : SumsUpTo(f, g, n)
<1> DEFINE Good(k) == \E g \in [SUBSET S -> Int] : SumsUpTo(f, g, k)
           Bad == {k \in Nat : ~ Good(k)}
<1>1. SUFFICES ASSUME Bad # {} PROVE FALSE
  OBVIOUS
<1>2. PICK k \in Bad : \A m \in Bad : k <= m
  BY <1>1, LeastNat
<1>3. \A s \in SUBSET S : IsFiniteSet(s) /\ Cardinality(s) \in Nat
  BY FS_Subset, FS_CardinalityType
<1>4. CASE k = 0
  <2> DEFINE g == [s \in SUBSET S |-> 0]
  <2>1. ASSUME NEW s \in SUBSET S, Cardinality(s) <= 0
        PROVE  g[s] = SumStep(f, g, s)
    <3>1. s = {}
      BY <1>3, <2>1, FS_EmptySet
    <3> QED
      BY <3>1 DEF SumStep
  <2>2. SumsUpTo(f, g, 0) /\ g \in [SUBSET S -> Int]
    BY <2>1 DEF SumsUpTo
  <2> QED
    BY <1>2, <1>4, <2>2
<1>5. CASE k # 0
  <2>1. k - 1 \in Nat /\ k - 1 \notin Bad
    <3> HIDE DEF Good
    <3>1. k \in Nat /\ k - 1 \in Nat
      BY <1>2, <1>5
    <3> HIDE DEF Bad
    <3> QED
      BY <1>2, <3>1
  <2>2. PICK h \in [SUBSET S -> Int] : SumsUpTo(f, h, k - 1)
    BY <2>1
  <2> DEFINE g == [s \in SUBSET S |-> SumStep(f, h, s)]
  <2>3. g \in [SUBSET S -> Int]
    <3> SUFFICES ASSUME NEW s \in SUBSET S PROVE SumStep(f, h, s) \in Int
      OBVIOUS
    <3>1. CASE s = {}
      BY <3>1 DEF SumStep
    <3>2. CASE s # {}
      <4>1. Pick(s) \in S /\ s \ {Pick(s)} \in SUBSET S
        BY <1>3, <3>2, PickRemoved
      <4> QED
        BY <3>2, <4>1 DEF SumStep
    <3> QED
      BY <3>1, <3>2
  <2>4. ASSUME NEW s \in SUBSET S, Cardinality(s) <= k
        PROVE  g[s] = SumStep(f, g, s)
    <3>1. CASE s = {}
      BY <3>1 DEF SumStep
    <3>2. CASE s # {}
      <4> DEFINE r == s \ {Pick(s)}
      <4>1. r \in SUBSET S /\ Cardinality(r) <= k - 1
        BY <1>3, <2>4, <3>2, PickRemoved
      <4>2. h[r] = SumStep(f, h, r)
        BY <2>2, <4>1 DEF SumsUpTo
      <4>3. g[s] = f[Pick(s)] + h[r]
        BY <3>2 DEF SumStep
      <4>4. g[r] = h[r]
        BY <4>1, <4>2
      <4> QED
        BY <3>2, <4>3, <4>4 DEF SumStep
    <3> QED
      BY <3>1, <3>2
  <2>5. SumsUpTo(f, g, k)
    BY <2>4 DEF SumsUpTo
  <2> HIDE DEF g
  <2> QED
    BY <1>2, <2>3, <2>5
<1> QED
  BY <1>4, <1>5

\* There is a table for every set of keys.
LEMMA SumTableExists ==
  ASSUME NEW S, IsFiniteSet(S), NEW f \in [S -> Int]
  PROVE  \E g : g = [s \in SUBSET S |-> SumStep(f, g, s)]
<1>1. Cardinality(S) \in Nat
  BY FS_CardinalityType
<1>2. PICK g \in [SUBSET S -> Int] : SumsUpTo(f, g, Cardinality(S))
  BY <1>1, SumTableUpTo
<1>3. \A s \in SUBSET S : Cardinality(s) <= Cardinality(S)
  BY FS_Subset
<1>4. \A s \in SUBSET S : g[s] = SumStep(f, g, s)
  BY <1>2, <1>3 DEF SumsUpTo
<1> QED
  BY <1>2, <1>4

\* g is a table of the sums of f over the sets of its keys.
IsSumTable(g, f, S) ==
  /\ g \in [SUBSET S -> Int]
  /\ \A s \in SUBSET S : g[s] = SumStep(f, g, s)

\* SumFunction is read from a table whose entries are integers.
LEMMA SumFromTable ==
  ASSUME NEW S, IsFiniteSet(S), NEW f \in [S -> Int]
  PROVE  \E g : IsSumTable(g, f, S) /\ SumFunction(f) = g[S]
<1> DEFINE g == CHOOSE g : g = [s \in SUBSET S |-> SumStep(f, g, s)]
           Bad == {k \in Nat :
                     \E s \in SUBSET S : Cardinality(s) = k /\ g[s] \notin Int}
<1>1. g = [s \in SUBSET S |-> SumStep(f, g, s)]
  BY SumTableExists
<1>2. SumFunction(f) = g[S]
  BY SumFunctionUnfolds
<1> HIDE DEF g
<1>3. \A s \in SUBSET S : g[s] = SumStep(f, g, s)
  BY <1>1
<1>4. Bad = {}
  <2>1. SUFFICES ASSUME Bad # {} PROVE FALSE
    OBVIOUS
  <2>2. PICK k \in Bad : \A n \in Bad : k <= n
    BY <2>1, LeastNat
  <2>3. PICK s \in SUBSET S : Cardinality(s) = k /\ g[s] \notin Int
    BY <2>2
  <2>4. IsFiniteSet(s)
    BY FS_Subset
  <2>5. CASE s = {}
    <3>1. SumStep(f, g, {}) = 0
      BY DEF SumStep
    <3> QED
      BY <1>3, <2>3, <2>5, <3>1
  <2>6. CASE s # {}
    <3> DEFINE r == s \ {Pick(s)}
    <3>1. /\ Pick(s) \in S /\ r \in SUBSET S
          /\ Cardinality(r) \in Nat /\ Cardinality(r) < k
      BY <2>3, <2>4, <2>6, PickRemoved
    <3>2. g[r] \in Int
      BY <2>2, <3>1
    <3>3. g[s] = f[Pick(s)] + g[r]
      BY <1>3, <2>6 DEF SumStep
    <3> QED
      BY <2>3, <3>1, <3>2, <3>3
  <2> QED
    BY <2>5, <2>6
<1>5. \A s \in SUBSET S : g[s] \in Int
  <2> SUFFICES ASSUME NEW s \in SUBSET S PROVE g[s] \in Int
    OBVIOUS
  <2>1. Cardinality(s) \in Nat
    BY FS_Subset, FS_CardinalityType
  <2> QED
    BY <1>4, <2>1
<1>6. IsSumTable(g, f, S)
  BY <1>1, <1>3, <1>5 DEF IsSumTable
<1> QED
  BY <1>2, <1>6

\* The sum over a map of integers with finitely many keys is an integer:
\* Position::GetAggregatePosition always returns a quantity.
THEOREM SumFunctionInt ==
  ASSUME NEW S, IsFiniteSet(S), NEW f \in [S -> Int]
  PROVE  SumFunction(f) \in Int
<1>1. PICK g : IsSumTable(g, f, S) /\ SumFunction(f) = g[S]
  BY SumFromTable
<1> QED
  BY <1>1 DEF IsSumTable

\* A map without keys sums to nothing.
LEMMA SumOfNone ==
  ASSUME NEW f, DOMAIN f = {}, f = [x \in {} |-> f[x]]
  PROVE  SumFunction(f) = 0
<1>1. IsFiniteSet({}) /\ f \in [{} -> Int]
  BY FS_EmptySet
<1>2. PICK g : IsSumTable(g, f, {}) /\ SumFunction(f) = g[{}]
  BY <1>1, SumFromTable
<1>3. g[{}] = SumStep(f, g, {})
  BY <1>2 DEF IsSumTable
<1> QED
  BY <1>2, <1>3 DEF SumStep

\* It does not matter which key is added last.
LEMMA SumTableRemoves ==
  ASSUME NEW S, IsFiniteSet(S), NEW f \in [S -> Int], NEW g, IsSumTable(g, f, S),
         NEW t \in SUBSET S, NEW z \in t
  PROVE  g[t] = f[z] + g[t \ {z}]
<1> DEFINE Wrong(s) == \E x \in s : g[s] # f[x] + g[s \ {x}]
           Bad == {k \in Nat : \E s \in SUBSET S : Cardinality(s) = k /\ Wrong(s)}
<1>1. \A s \in SUBSET S : IsFiniteSet(s) /\ Cardinality(s) \in Nat
  BY FS_Subset, FS_CardinalityType
<1>2. \A s \in SUBSET S : g[s] \in Int /\ g[s] = SumStep(f, g, s)
  BY DEF IsSumTable
<1>3. Bad = {}
  <2>1. SUFFICES ASSUME Bad # {} PROVE FALSE
    OBVIOUS
  <2>2. PICK k \in Bad : \A n \in Bad : k <= n
    BY <2>1, LeastNat
  <2>3. PICK s \in SUBSET S : Cardinality(s) = k /\ Wrong(s)
    BY <2>2
  <2>4. PICK x \in s : g[s] # f[x] + g[s \ {x}]
    BY <2>3
  <2>5. PICK y : y = Pick(s)
    OBVIOUS
  <2>6. /\ y \in s /\ s \in SUBSET S /\ x \in S /\ y \in S
        /\ f[x] \in Int /\ f[y] \in Int
        /\ g[s] = f[y] + g[s \ {y}]
        /\ Cardinality(s \ {y}) \in Nat /\ Cardinality(s \ {x}) \in Nat
        /\ Cardinality(s \ {y}) < k /\ Cardinality(s \ {x}) < k
    <3>1. s # {} /\ s \in SUBSET S /\ IsFiniteSet(s)
      BY <1>1, <2>4
    <3>2. y \in s
      BY <2>5, <3>1, PickRemoved
    <3>3. g[s] = f[y] + g[s \ {y}]
      BY <1>2, <2>5, <3>1 DEF SumStep
    <3>4. /\ Cardinality(s \ {y}) = Cardinality(s) - 1
          /\ Cardinality(s \ {x}) = Cardinality(s) - 1
      BY <2>4, <3>1, <3>2, FS_RemoveElement
    <3>5. s \ {y} \in SUBSET S /\ s \ {x} \in SUBSET S
      OBVIOUS
    <3>6. /\ Cardinality(s \ {y}) \in Nat /\ Cardinality(s \ {x}) \in Nat
          /\ Cardinality(s) \in Nat
      BY <1>1, <3>5
    <3> QED
      BY <2>3, <2>4, <3>1, <3>2, <3>3, <3>4, <3>6
  <2>7. x # y
    BY <2>4, <2>6
  <2> DEFINE r == (s \ {x}) \ {y}
  <2>8. g[s \ {y}] = f[x] + g[r]
    <3>1. s \ {y} \in SUBSET S /\ x \in s \ {y} /\ (s \ {y}) \ {x} = r
      BY <2>6, <2>7
    <3>2. ~ Wrong(s \ {y})
      BY <2>2, <2>6, <3>1
    <3> QED
      BY <3>1, <3>2
  <2>9. g[s \ {x}] = f[y] + g[r]
    <3>1. s \ {x} \in SUBSET S /\ y \in s \ {x}
      BY <2>6, <2>7
    <3>2. ~ Wrong(s \ {x})
      BY <2>2, <2>6, <3>1
    <3> QED
      BY <3>1, <3>2
  <2>10. g[r] \in Int
    BY <1>2
  <2> HIDE DEF r
  <2> QED
    BY <2>4, <2>6, <2>8, <2>9, <2>10
<1>4. ~ Wrong(t)
  <2> HIDE DEF Wrong
  <2> QED
    BY <1>1, <1>3
<1> QED
  BY <1>4

\* In particular of the whole map.
LEMMA SumTableWhole ==
  ASSUME NEW S, IsFiniteSet(S), NEW f \in [S -> Int], NEW g, IsSumTable(g, f, S),
         NEW x \in S
  PROVE  g[S] = f[x] + g[S \ {x}]
<1>1. S \in SUBSET S
  OBVIOUS
<1> QED
  BY <1>1, SumTableRemoves

\* Two maps with the same values on some keys have the same sum over them.
LEMMA SumTablesAgree ==
  ASSUME NEW S, IsFiniteSet(S), NEW f \in [S -> Int], NEW g, IsSumTable(g, f, S),
         NEW T \in SUBSET S, NEW e \in [T -> Int], NEW h, IsSumTable(h, e, T),
         \A x \in T : e[x] = f[x]
  PROVE  h[T] = g[T]
<1> DEFINE Bad == {k \in Nat :
                     \E s \in SUBSET T : Cardinality(s) = k /\ h[s] # g[s]}
<1>1. \A s \in SUBSET T : IsFiniteSet(s) /\ Cardinality(s) \in Nat /\ s \in SUBSET S
  BY FS_Subset, FS_CardinalityType
<1>2. /\ \A s \in SUBSET S : g[s] = SumStep(f, g, s)
      /\ \A s \in SUBSET T : h[s] = SumStep(e, h, s)
  BY DEF IsSumTable
<1>3. Bad = {}
  <2>1. SUFFICES ASSUME Bad # {} PROVE FALSE
    OBVIOUS
  <2>2. PICK k \in Bad : \A n \in Bad : k <= n
    BY <2>1, LeastNat
  <2>3. PICK s \in SUBSET T : Cardinality(s) = k /\ h[s] # g[s]
    BY <2>2
  <2>4. CASE s = {}
    BY <1>1, <1>2, <2>3, <2>4 DEF SumStep
  <2>5. CASE s # {}
    <3> DEFINE r == s \ {Pick(s)}
    <3>1. /\ Pick(s) \in T /\ r \in SUBSET T
          /\ Cardinality(r) \in Nat /\ Cardinality(r) < k
      BY <1>1, <2>3, <2>5, PickRemoved
    <3>2. h[r] = g[r]
      BY <2>2, <3>1
    <3>3. h[s] = e[Pick(s)] + h[r] /\ g[s] = f[Pick(s)] + g[r]
      BY <1>1, <1>2, <2>5 DEF SumStep
    <3> QED
      BY <2>3, <3>1, <3>2, <3>3
  <2> QED
    BY <2>4, <2>5
<1> QED
  BY <1>1, <1>3

\* The sum over a map is the value of any of its keys and the sum over the rest.
LEMMA SumWithout ==
  ASSUME NEW S, IsFiniteSet(S), NEW f \in [S -> Int], NEW x \in S,
         NEW T, T = S \ {x}, NEW e \in [T -> Int], \A y \in T : e[y] = f[y]
  PROVE  SumFunction(f) = f[x] + SumFunction(e)
<1>1. PICK g : IsSumTable(g, f, S) /\ SumFunction(f) = g[S]
  BY SumFromTable
<1>2. IsFiniteSet(T) /\ T \in SUBSET S
  BY FS_Subset
<1>3. PICK h : IsSumTable(h, e, T) /\ SumFunction(e) = h[T]
  BY <1>2, SumFromTable
<1>4. h[T] = g[T]
  BY <1>1, <1>2, <1>3, SumTablesAgree
<1>5. g[S] = f[x] + g[T]
  <2>1. g[S] = f[x] + g[S \ {x}]
    BY <1>1, SumTableWhole
  <2> QED
    BY <2>1
<1> QED
  BY <1>1, <1>3, <1>4, <1>5

\* Changing the value of a key changes the sum by as much.
LEMMA SumMoves ==
  ASSUME NEW S, IsFiniteSet(S), NEW f \in [S -> Int], NEW g \in [S -> Int],
         NEW x \in S, \A y \in S \ {x} : g[y] = f[y]
  PROVE  SumFunction(g) - g[x] = SumFunction(f) - f[x]
<1> PICK T : T = S \ {x}
  OBVIOUS
<1> PICK e : e = [y \in T |-> f[y]]
  OBVIOUS
<1>1. \A y \in T : e[y] = f[y] /\ e[y] = g[y]
  OBVIOUS
<1>2. IsFiniteSet(T) /\ e \in [T -> Int]
  BY FS_Subset
<1>3. SumFunction(e) \in Int
  BY <1>2, SumFunctionInt
<1>4. SumFunction(f) = f[x] + SumFunction(e)
  BY <1>1, <1>2, SumWithout
<1>5. SumFunction(g) = g[x] + SumFunction(e)
  BY <1>1, <1>2, SumWithout
<1>6. f[x] \in Int /\ g[x] \in Int
  OBVIOUS
<1> QED
  BY <1>3, <1>4, <1>5, <1>6

\* One more key with nothing adds nothing to a sum.
LEMMA SumWithNothing ==
  ASSUME NEW S, IsFiniteSet(S), NEW f \in [S -> Int], NEW x, x \notin S,
         NEW U, U = S \cup {x}, NEW g \in [U -> Int],
         g[x] = 0, \A y \in S : f[y] = g[y]
  PROVE  SumFunction(g) = SumFunction(f)
<1>1. IsFiniteSet(U) /\ x \in U /\ S = U \ {x}
  <2>1. IsFiniteSet(U)
    BY FS_AddElement
  <2> QED
    BY <2>1
<1>2. SumFunction(g) = g[x] + SumFunction(f)
  BY <1>1, SumWithout
<1>3. SumFunction(f) \in Int
  BY SumFunctionInt
<1> QED
  BY <1>2, <1>3

\* Neither does one more place in a sequence.
LEMMA SumOfOneMore ==
  ASSUME NEW n \in Nat, NEW f \in [1..n -> Int], NEW g \in [1..(n + 1) -> Int],
         g[n + 1] = 0, \A i \in 1..n : g[i] = f[i]
  PROVE  SumFunction(g) = SumFunction(f)
<1>1. IsFiniteSet(1..n)
  BY FS_Interval
<1>2. 1..(n + 1) = (1..n) \cup {n + 1} /\ n + 1 \notin 1..n
  OBVIOUS
<1>3. PICK S : S = 1..n
  OBVIOUS
<1>4. PICK U : U = 1..(n + 1)
  OBVIOUS
<1>5. PICK x : x = n + 1
  OBVIOUS
<1>6. /\ IsFiniteSet(S) /\ f \in [S -> Int] /\ x \notin S /\ U = S \cup {x}
      /\ g \in [U -> Int] /\ g[x] = 0 /\ \A y \in S : f[y] = g[y]
  BY <1>1, <1>2, <1>3, <1>4, <1>5
<1> QED
  BY <1>6, SumWithNothing

\* The sum over one key is its value.
LEMMA SumOfOne ==
  ASSUME NEW x, NEW U, U = {x}, NEW f \in [U -> Int]
  PROVE  SumFunction(f) = f[x]
<1>1. PICK S : S = {}
  OBVIOUS
<1>2. PICK e : e = [y \in S |-> f[y]]
  OBVIOUS
<1>3. SumFunction(e) = 0
  <2>1. DOMAIN e = {} /\ e = [y \in {} |-> e[y]]
    BY <1>1, <1>2
  <2> QED
    BY <2>1, SumOfNone
<1>4. /\ IsFiniteSet(U) /\ x \in U /\ S = U \ {x}
      /\ e \in [S -> Int] /\ \A y \in S : e[y] = f[y]
  BY <1>1, <1>2, FS_Singleton
<1>5. SumFunction(f) = f[x] + SumFunction(e)
  BY <1>4, SumWithout
<1>6. f[x] \in Int
  BY <1>4
<1> QED
  BY <1>3, <1>5, <1>6

\* Sums compare as their terms do, in magnitude too.
LEMMA SumAtMost ==
  ASSUME NEW S, IsFiniteSet(S), NEW f \in [S -> Int], NEW g \in [S -> Int],
         \A x \in S : -g[x] <= f[x] /\ f[x] <= g[x]
  PROVE  -SumFunction(g) <= SumFunction(f) /\ SumFunction(f) <= SumFunction(g)
<1> DEFINE Bounds(T, u, v) ==
             /\ T \in SUBSET S /\ u \in [T -> Int] /\ v \in [T -> Int]
             /\ \A x \in T : -v[x] <= u[x] /\ u[x] <= v[x]
           Holds(u, v) ==
             -SumFunction(v) <= SumFunction(u) /\ SumFunction(u) <= SumFunction(v)
           Wrong == {n \in Nat : \E T, u, v : /\ Bounds(T, u, v)
                                              /\ Cardinality(T) = n
                                              /\ ~Holds(u, v)}
<1>1. Wrong = {}
  <2> SUFFICES ASSUME Wrong # {} PROVE FALSE
    OBVIOUS
  <2>1. PICK n \in Wrong : \A other \in Wrong : n <= other
    BY LeastNat
  <2>2. PICK T, u, v : Bounds(T, u, v) /\ Cardinality(T) = n /\ ~Holds(u, v)
    BY <2>1
  <2>3. IsFiniteSet(T)
    BY <2>2, FS_Subset
  <2>4. CASE T = {}
    <3>1. SumFunction(u) = 0 /\ SumFunction(v) = 0
      <4>1. DOMAIN u = {} /\ u = [x \in {} |-> u[x]]
        BY <2>2, <2>4
      <4>2. DOMAIN v = {} /\ v = [x \in {} |-> v[x]]
        BY <2>2, <2>4
      <4> QED
        BY <4>1, <4>2, SumOfNone
    <3> QED
      BY <2>2, <3>1
  <2>5. CASE T # {}
    <3>1. PICK x \in T : TRUE
      BY <2>5
    <3>2. PICK R : R = T \ {x}
      OBVIOUS
    <3>3. PICK u1 : u1 = [y \in R |-> u[y]]
      OBVIOUS
    <3>4. PICK v1 : v1 = [y \in R |-> v[y]]
      OBVIOUS
    <3>5. Bounds(R, u1, v1)
      BY <2>2, <3>2, <3>3, <3>4
    <3>6. IsFiniteSet(R) /\ Cardinality(R) \in Nat /\ Cardinality(R) < n
      <4>1. Cardinality(T) \in Nat
        BY <2>3, FS_CardinalityType
      <4>2. IsFiniteSet(R) /\ Cardinality(R) = Cardinality(T) - 1
        BY <2>3, <3>1, <3>2, FS_RemoveElement
      <4>3. Cardinality(R) \in Nat
        BY <4>2, FS_CardinalityType
      <4>4. Cardinality(T) = n
        BY <2>2
      <4> QED
        BY <4>1, <4>2, <4>3, <4>4
    <3>7. Cardinality(R) \notin Wrong
      BY <2>1, <3>6
    <3>8. Holds(u1, v1)
      BY <3>5, <3>6, <3>7
    <3>9. u[x] \in Int /\ v[x] \in Int /\ -v[x] <= u[x] /\ u[x] <= v[x]
      BY <2>2, <3>1
    <3>10. /\ u \in [T -> Int] /\ u1 \in [R -> Int]
           /\ v \in [T -> Int] /\ v1 \in [R -> Int]
           /\ \A y \in R : u1[y] = u[y] /\ v1[y] = v[y]
      BY <2>2, <3>3, <3>4, <3>5
    <3>11. /\ SumFunction(u) = u[x] + SumFunction(u1)
           /\ SumFunction(v) = v[x] + SumFunction(v1)
      <4> HIDE DEF Bounds, Holds, Wrong
      <4>1. u \in [T -> Int] /\ u1 \in [R -> Int] /\ \A y \in R : u1[y] = u[y]
        BY <3>10
      <4>2. v \in [T -> Int] /\ v1 \in [R -> Int] /\ \A y \in R : v1[y] = v[y]
        BY <3>10
      <4>3. SumFunction(u) = u[x] + SumFunction(u1)
        BY <2>3, <3>1, <3>2, <4>1, SumWithout
      <4>4. SumFunction(v) = v[x] + SumFunction(v1)
        BY <2>3, <3>1, <3>2, <4>2, SumWithout
      <4> QED
        BY <4>3, <4>4
    <3>12. SumFunction(u1) \in Int /\ SumFunction(v1) \in Int
      BY <3>5, <3>6, SumFunctionInt
    <3> QED
      BY <2>2, <3>8, <3>9, <3>11, <3>12
  <2> QED
    BY <2>4, <2>5
<1>2. Bounds(S, f, g) /\ Cardinality(S) \in Nat
  BY FS_CardinalityType
<1>3. Cardinality(S) \notin Wrong
  BY <1>1
<1> HIDE DEF Bounds, Holds
<1>4. Holds(f, g)
  BY <1>2, <1>3, Zenon
<1> QED
  BY <1>4 DEF Holds

-----------------------------------------------------------------------------
(***************************************************************************)
(* Containers: what writing to a map and appending to a file do.           *)
(***************************************************************************)

\* map[key] = value adds the key, sets its value and leaves the others.
LEMMA PutFacts ==
  ASSUME NEW map, NEW key, NEW value
  PROVE  /\ DOMAIN Put(map, key, value) = DOMAIN map \cup {key}
         /\ Put(map, key, value)[key] = value
         /\ \A k \in DOMAIN map : k # key => Put(map, key, value)[k] = map[k]
  BY DEF Put

\* Writing a key and a value of the right kind keeps a map well typed.
LEMMA PutIsMap ==
  ASSUME NEW K, NEW V, NEW map, IsMap(map, K, V), NEW key \in K, NEW value \in V
  PROVE  IsMap(Put(map, key, value), K, V)
  BY DEF IsMap, Put

\* What every service constructor starts from is a well-typed map.
LEMMA EmptyIsMap ==
  ASSUME NEW K, NEW V
  PROVE  IsMap(EmptyMap, K, V)
  BY DEF IsMap, EmptyMap

\* s is a sequence, whatever its elements are.
IsSequence(s) == s \in Seq({s[i] : i \in DOMAIN s})

\* Appending adds one place at the end and keeps the others.
LEMMA AppendFacts ==
  ASSUME NEW s, IsSequence(s), NEW e
  PROVE  /\ Len(s) \in Nat /\ DOMAIN s = 1..Len(s)
         /\ IsSequence(Append(s, e))
         /\ Len(Append(s, e)) = Len(s) + 1
         /\ DOMAIN Append(s, e) = 1..(Len(s) + 1)
         /\ Append(s, e)[Len(s) + 1] = e
         /\ \A i \in 1..Len(s) : Append(s, e)[i] = s[i]
<1> DEFINE S == {s[i] : i \in DOMAIN s}
           t == Append(s, e)
<1>1. s \in Seq(S \cup {e})
  BY DEF IsSequence
<1>2. t \in Seq(S \cup {e})
  BY <1>1
<1>3. /\ Len(s) \in Nat /\ DOMAIN s = 1..Len(s)
      /\ Len(t) = Len(s) + 1 /\ DOMAIN t = 1..(Len(s) + 1)
      /\ t[Len(s) + 1] = e
      /\ \A i \in 1..Len(s) : t[i] = s[i]
  BY <1>1
<1>4. t \in Seq({t[i] : i \in DOMAIN t})
  <2> HIDE DEF t
  <2> QED
    BY <1>2, <1>3
<1> QED
  BY <1>3, <1>4 DEF IsSequence

-----------------------------------------------------------------------------
(***************************************************************************)
(* The last of some places in a file.                                      *)
(***************************************************************************)

\* The greatest of some places is one of them.
LEMMA GreatestPlace ==
  ASSUME NEW n \in Nat, NEW S \in SUBSET (1..n), S # {}
  PROVE  \E i \in S : \A j \in S : i >= j
<1> DEFINE Above == {k \in Nat : \A j \in S : j <= k}
<1>1. Above \in SUBSET Nat /\ n \in Above
  OBVIOUS
<1>2. PICK k \in Above : \A l \in Above : k <= l
  BY <1>1, LeastNat
<1>3. k \in S
  <2>1. SUFFICES ASSUME k \notin S PROVE FALSE
    OBVIOUS
  <2>2. PICK j \in S : TRUE
    OBVIOUS
  <2>3. k - 1 \in Nat
    BY <1>2, <2>1, <2>2
  <2>4. \A i \in S : i <= k - 1
    BY <1>2, <2>1
  <2>5. k - 1 \in Above
    BY <2>3, <2>4
  <2> QED
    BY <1>2, <2>5
<1> QED
  BY <1>2, <1>3

-----------------------------------------------------------------------------
(***************************************************************************)
(* Remainders.                                                             *)
(***************************************************************************)

\* Quotient and remainder, as the definitions have them.
LEMMA DivMod ==
  ASSUME NEW s \in Nat \ {0}, NEW a \in Int
  PROVE  /\ a \div s \in Int /\ a % s \in 0..(s - 1)
         /\ a = s * (a \div s) + (a % s)
  OBVIOUS

\* A number is so many times s and a rest below s in one way only.
LEMMA DivModUnique ==
  ASSUME NEW s \in Nat \ {0}, NEW q \in Int, NEW r \in 0..(s - 1)
  PROVE  (s * q + r) % s = r /\ (s * q + r) \div s = q
<1> DEFINE a == s * q + r
           p == a \div s
           m == a % s
<1>1. a \in Int
  OBVIOUS
<1>2. p \in Int /\ m \in 0..(s - 1) /\ a = s * p + m
  BY <1>1, DivMod
<1>3. ASSUME NEW x \in Int, s * x < s, -s < s * x PROVE x = 0
  <2>1. x >= 1 => s * x >= s
    OBVIOUS
  <2>2. x <= -1 => s * x <= -s
    OBVIOUS
  <2> QED
    BY <1>3, <2>1, <2>2
<1>4. s * (q - p) = m - r
  <2>1. s * (q - p) = s * q - s * p
    BY <1>2
  <2> HIDE DEF p, m
  <2> QED
    BY <1>2, <2>1
<1>5. q - p = 0
  <2> HIDE DEF p, m
  <2> QED
    BY <1>2, <1>3, <1>4
<1> HIDE DEF p, m
<1> QED
  BY <1>2, <1>4, <1>5
=============================================================================
