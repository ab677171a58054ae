-------------------------- MODULE DifficultyProofs --------------------------
(***************************************************************************)
(* Proofs about the adapted difficulty, for any window, target, clocks and *)
(* number of miners.                                                       *)
(***************************************************************************)
EXTENDS Difficulty, FiniteSetTheorems, WellFoundedInduction, TLAPS

-----------------------------------------------------------------------------
(***************************************************************************)
(* Finite sets, and functions defined by recursion on their subsets.       *)
(***************************************************************************)
LEMMA LeastNatural ==
  ASSUME NEW T, T \subseteq Nat, T # {}
  PROVE  \E x \in T : \A y \in T : x <= y
<1> DEFINE R == OpToRel(<, Nat)
<1>1. IsWellFoundedOn(R, Nat)
  BY NatLessThanWellFounded
<1>2. PICK x \in T : \A y \in T : ~ (<<y, x>> \in R)
  <2> HIDE DEF R
  <2> QED BY <1>1, WFMin
<1>3. \A y \in T : ~ (y < x)
  BY <1>2 DEF OpToRel
<1> QED BY <1>3

(* Induction over finite sets, for a set of sets instead of a predicate.   *)
LEMMA BySize ==
  ASSUME NEW S, IsFiniteSet(S), NEW P,
         \A T \in SUBSET S : (\A x \in T : T \ {x} \in P) => T \in P
  PROVE  SUBSET S \subseteq P
<1> DEFINE Bad == {T \in SUBSET S : T \notin P}
           Sizes == {Cardinality(T) : T \in Bad}
<1> SUFFICES ASSUME Bad # {} PROVE FALSE
  OBVIOUS
<1>1. \A T \in SUBSET S : IsFiniteSet(T) /\ Cardinality(T) \in Nat
  BY FS_Subset, FS_CardinalityType
<1>2. PICK n \in Sizes : \A k \in Sizes : n <= k
  <2>1. Sizes \subseteq Nat /\ Sizes # {}
    BY <1>1
  <2> HIDE DEF Sizes
  <2> QED BY <2>1, LeastNatural
<1>3. PICK T \in Bad : Cardinality(T) = n
  OBVIOUS
<1>4. ASSUME NEW x \in T PROVE T \ {x} \in P
  <2>1. Cardinality(T \ {x}) = Cardinality(T) - 1
    BY <1>1, FS_RemoveElement
  <2>2. Cardinality(T) \in Nat /\ Cardinality(T \ {x}) \in Nat
    BY <1>1
  <2>3. T \ {x} \in Bad => Cardinality(T \ {x}) \in Sizes
    OBVIOUS
  <2>4. T \ {x} \notin Bad
    <3> HIDE DEF Sizes, Bad
    <3> QED BY <1>2, <1>3, <2>1, <2>2, <2>3
  <2> QED BY <2>4
<1> QED BY <1>3, <1>4

LEMMA Greatest ==
  ASSUME NEW S, IsFiniteSet(S), S \subseteq Int
  PROVE  \A T \in SUBSET S : T # {} => \E x \in T : \A y \in T : x >= y
<1> DEFINE P == {T \in SUBSET S : T # {} => \E x \in T : \A y \in T : x >= y}
<1>1. ASSUME NEW T \in SUBSET S, \A x \in T : T \ {x} \in P
      PROVE  T \in P
  <2> SUFFICES ASSUME NEW z \in T PROVE \E x \in T : \A y \in T : x >= y
    OBVIOUS
  <2>1. CASE T \ {z} = {}
    BY <2>1
  <2>2. CASE T \ {z} # {}
    <3>1. PICK x \in T \ {z} : \A y \in T \ {z} : x >= y
      BY <1>1, <2>2
    <3>2. CASE x >= z
      BY <3>1, <3>2
    <3>3. CASE ~ (x >= z)
      <4>1. x \in Int /\ z \in Int /\ \A y \in T : y \in Int
        OBVIOUS
      <4>2. \A y \in T : z >= y
        BY <3>1, <3>3, <4>1
      <4> QED BY <4>2
    <3> QED BY <3>2, <3>3
  <2> QED BY <2>1, <2>2
<1>2. SUBSET S \subseteq P
  <2> HIDE DEF P
  <2> QED BY <1>1, BySize
<1> QED BY <1>2

LEMMA MaxFacts ==
  ASSUME NEW S, IsFiniteSet(S), S \subseteq Int, S # {}
  PROVE  Max(S) \in S /\ \A y \in S : Max(S) >= y
<1>1. \E x \in S : \A y \in S : x >= y
  BY Greatest
<1> QED BY <1>1 DEF Max

(* Folding a finite set S one element after the other, in the order in     *)
(* which pick takes them, is a function on the subsets of S.               *)
Folding(S, V, first, pick, step) ==
  {f \in [SUBSET S -> V] :
     \A T \in SUBSET S :
        f[T] = IF T = {} THEN first ELSE step[pick[T]][f[T \ {pick[T]}]]}

LEMMA Folded ==
  ASSUME NEW S, IsFiniteSet(S), NEW V, NEW first \in V,
         NEW pick, \A T \in SUBSET S : T # {} => pick[T] \in T,
         NEW step \in [S -> [V -> V]]
  PROVE  Folding(S, V, first, pick, step) # {}
<1> DEFINE Small(n) == {T \in SUBSET S : Cardinality(T) <= n}
           Folds(f, T) ==
             f[T] = IF T = {} THEN first ELSE step[pick[T]][f[T \ {pick[T]}]]
           Bad == {n \in Nat : ~ \E f \in [Small(n) -> V] : \A T \in Small(n) : Folds(f, T)}
<1>1. \A T \in SUBSET S : IsFiniteSet(T) /\ Cardinality(T) \in Nat /\ Cardinality(T) <= Cardinality(S)
  BY FS_Subset, FS_CardinalityType
<1>2. ASSUME NEW n \in Nat, NEW T \in Small(n), T # {}
      PROVE  n > 0 /\ pick[T] \in S /\ T \ {pick[T]} \in Small(n - 1)
  <2>1. pick[T] \in T /\ Cardinality(T \ {pick[T]}) = Cardinality(T) - 1
    BY <1>1, <1>2, FS_RemoveElement
  <2>2. Cardinality(T) \in Nat /\ Cardinality(T \ {pick[T]}) \in Nat /\ Cardinality(T) <= n
    BY <1>1
  <2> QED BY <2>1, <2>2
<1>3. Bad = {}
  <2> SUFFICES ASSUME Bad # {} PROVE FALSE
    OBVIOUS
  <2>1. PICK n \in Bad : \A k \in Bad : n <= k
    <3>1. Bad \subseteq Nat
      OBVIOUS
    <3> HIDE DEF Bad
    <3> QED BY <3>1, LeastNatural
  <2>2. CASE n = 0
    <3> DEFINE g == [T \in Small(0) |-> first]
    <3>1. ASSUME NEW T \in Small(0), T # {} PROVE FALSE
      <4> HIDE DEF Small
      <4>1. 0 > 0
        BY <1>2, <3>1
      <4> QED BY <4>1
    <3>2. g \in [Small(0) -> V] /\ \A T \in Small(0) : Folds(g, T)
      BY <3>1
    <3> QED BY <2>2, <3>2
  <2>3. CASE n # 0
    <3>1. n - 1 \in Nat /\ n - 1 \notin Bad
      <4>1. n \in Nat
        OBVIOUS
      <4> HIDE DEF Bad
      <4> QED BY <2>1, <2>3, <4>1
    <3>2. PICK f \in [Small(n - 1) -> V] : \A T \in Small(n - 1) : Folds(f, T)
      BY <3>1
    <3> DEFINE g == [T \in Small(n) |-> IF T = {} THEN first ELSE step[pick[T]][f[T \ {pick[T]}]]]
    <3>3. ASSUME NEW T \in Small(n) PROVE g[T] \in V
      <4> SUFFICES ASSUME T # {} PROVE step[pick[T]][f[T \ {pick[T]}]] \in V
        OBVIOUS
      <4>1. pick[T] \in S /\ f[T \ {pick[T]}] \in V
        BY <1>2, <3>2
      <4>2. step[pick[T]] \in [V -> V]
        BY <4>1
      <4> HIDE DEF Small
      <4> QED BY <4>1, <4>2
    <3>4. \A T \in Small(n - 1) : T \in Small(n) /\ g[T] = f[T]
      <4>1. ASSUME NEW T \in Small(n - 1) PROVE T \in Small(n)
        BY <1>1, <2>3
      <4> QED BY <3>2, <4>1
    <3>5. \A T \in Small(n) : Folds(g, T)
      BY <1>2, <3>4
    <3>6. g \in [Small(n) -> V]
      BY <3>3
    <3> HIDE DEF g
    <3> QED BY <3>5, <3>6
  <2> QED BY <2>2, <2>3
<1>4. Cardinality(S) \in Nat /\ SUBSET S = Small(Cardinality(S))
  BY <1>1, FS_CardinalityType
<1>5. PICK f \in [Small(Cardinality(S)) -> V] : \A T \in Small(Cardinality(S)) : Folds(f, T)
  BY <1>3, <1>4
<1>6. f \in [SUBSET S -> V] /\ \A T \in SUBSET S : Folds(f, T)
  BY <1>4, <1>5
<1> HIDE DEF Small
<1> QED BY <1>6 DEF Folding

-----------------------------------------------------------------------------
(***************************************************************************)
(* Integers.                                                               *)
(***************************************************************************)
LEMMA Scaled ==
  ASSUME NEW a \in Int, NEW b \in Int, NEW c \in Nat, a <= b
  PROVE  a * c <= b * c /\ c * a <= c * b
OBVIOUS

LEMMA Cancelled ==
  ASSUME NEW a \in Int, NEW b \in Int, NEW c \in Nat \ {0}
  PROVE  /\ c * a <= c * b => a <= b
         /\ c * a < c * b => a < b
OBVIOUS

LEMMA Divided ==
  ASSUME NEW a \in Int, NEW b \in Nat \ {0}
  PROVE  /\ a \div b \in Int
         /\ (a \div b) * b <= a
         /\ a < (a \div b + 1) * b
OBVIOUS

(* The fraction is dropped, so less than one divisor is lost.              *)
LEMMA QuotientFacts ==
  ASSUME NEW a \in Int, NEW b \in Nat \ {0}
  PROVE  /\ Quotient(a, b) \in Int
         /\ Quotient(a, b) <= 0 => a < b
<1>1. a >= 0 => a < (a \div b + 1) * b /\ a \div b \in Int
  BY Divided
<1>2. a < 0 => (- a) \div b \in Int
  BY Divided
<1>3. ASSUME a >= 0, a \div b <= 0 PROVE a < b
  <2>1. (a \div b + 1) * b <= 1 * b
    BY <1>1, <1>3, Scaled
  <2> QED BY <1>1, <1>3, <2>1
<1> QED BY <1>1, <1>2, <1>3 DEF Quotient

-----------------------------------------------------------------------------
(***************************************************************************)
(* The sum of the inverses: a fraction of positive numbers, n times the    *)
(* inverse of a number between the lowest and the highest difficulty.      *)
(***************************************************************************)
Window(chain, cur) ==
  [k \in 1..(cur - Start(cur)) |-> At(chain, Start(cur) + k - 1).difficulty]

(* What GetDifficulty adds to the sum of the inverses for one difficulty.  *)
AddInverse(sum, d) == IF d = 0 THEN sum ELSE RatAdd(sum, <<1, d>>)

SumsInverses(list, f) ==
  f = [s \in SUBSET DOMAIN list |->
         IF s = {} THEN <<0, 1>> ELSE AddInverse(f[s \ {Max(s)}], list[Max(s)])]

LEMMA SumIsFold ==
  ASSUME NEW chain, NEW cur
  PROVE  TotalDifficulty(chain, cur) =
           (CHOOSE f : SumsInverses(Window(chain, cur), f))[DOMAIN Window(chain, cur)]
BY Zenon DEF TotalDifficulty, FoldLeft, MapThenFoldSet, Window, SumsInverses, AddInverse

(* The values a sum of k inverses of difficulties from low to high has.    *)
Between(k, low, high) ==
  {p \in Nat \X (Nat \ {0}) : /\ k > 0 => p[1] > 0
                              /\ p[1] * low <= k * p[2]
                              /\ k * p[2] <= p[1] * high}

LEMMA OneMoreInverse ==
  ASSUME NEW low \in Nat \ {0}, NEW high \in Nat \ {0},
         NEW k \in Nat, NEW p \in Between(k, low, high),
         NEW d \in low..high
  PROVE  AddInverse(p, d) \in Between(k + 1, low, high)
<1> DEFINE a == p[1]
           b == p[2]
<1>1. /\ a \in Nat /\ b \in Nat \ {0}
      /\ a * low <= k * b
      /\ k * b <= a * high
      /\ d \in Nat \ {0} /\ low <= d /\ d <= high
  BY DEF Between
<1>2. AddInverse(p, d) = <<a * d + b, b * d>>
  BY <1>1 DEF AddInverse, RatAdd
<1> HIDE DEF a, b
<1>3. a * d \in Nat /\ b * d \in Nat \ {0} /\ a * d + b \in Nat \ {0}
  BY <1>1
<1>4. (a * d + b) * low <= (k + 1) * (b * d)
  <2>1. (a * low) * d <= (k * b) * d
    BY <1>1, Scaled
  <2>2. b * low <= b * d
    BY <1>1, Scaled
  <2>3. (a * d + b) * low = (a * low) * d + b * low
    BY <1>1
  <2>4. (k + 1) * (b * d) = (k * b) * d + b * d
    BY <1>1
  <2> QED BY <1>1, <2>1, <2>2, <2>3, <2>4
<1>5. (k + 1) * (b * d) <= (a * d + b) * high
  <2>1. (k * b) * d <= (a * high) * d
    BY <1>1, Scaled
  <2>2. b * d <= b * high
    BY <1>1, Scaled
  <2>3. (a * d + b) * high = (a * high) * d + b * high
    BY <1>1
  <2>4. (k + 1) * (b * d) = (k * b) * d + b * d
    BY <1>1
  <2> QED BY <1>1, <2>1, <2>2, <2>3, <2>4
<1> QED BY <1>2, <1>3, <1>4, <1>5 DEF Between

LEMMA InverseSum ==
  ASSUME NEW n \in Nat, NEW low \in Nat \ {0}, NEW high \in Nat \ {0},
         NEW list \in [1..n -> low..high]
  PROVE  (CHOOSE f : SumsInverses(list, f))[1..n] \in Between(n, low, high)
<1> DEFINE S == 1..n
           V == Int \X Int
           pick == [T \in SUBSET S |-> Max(T)]
           step == [i \in S |-> [v \in V |-> AddInverse(v, list[i])]]
           sum == CHOOSE f : SumsInverses(list, f)
<1>1. IsFiniteSet(S) /\ Cardinality(S) = n
  BY FS_Interval
<1>2. \A T \in SUBSET S : /\ IsFiniteSet(T) /\ Cardinality(T) \in Nat
                          /\ T # {} => Max(T) \in T
  <2>1. ASSUME NEW T \in SUBSET S, T # {} PROVE Max(T) \in T
    <3>1. T \subseteq Int
      OBVIOUS
    <3> HIDE DEF S
    <3>2. IsFiniteSet(T)
      BY <1>1, FS_Subset
    <3> QED BY <2>1, <3>1, <3>2, MaxFacts
  <2> QED BY <1>1, <2>1, FS_Subset, FS_CardinalityType
<1>3. \A i \in S : list[i] \in low..high /\ list[i] \in Nat \ {0}
  OBVIOUS
<1>4. \A v \in V, i \in S : AddInverse(v, list[i]) \in V
  BY <1>3 DEF AddInverse, RatAdd
<1>5. PICK f \in Folding(S, V, <<0, 1>>, pick, step) : TRUE
  <2>1. step \in [S -> [V -> V]]
    BY <1>4
  <2>2. \A T \in SUBSET S : T # {} => pick[T] \in T
    BY <1>2
  <2>3. <<0, 1>> \in V
    OBVIOUS
  <2> HIDE DEF step, pick, V, S
  <2> QED BY <1>1, <2>1, <2>2, <2>3, Folded
<1>6. SumsInverses(list, f)
  <2>1. f \in [SUBSET S -> V]
    BY <1>5 DEF Folding
  <2>2. ASSUME NEW T \in SUBSET S
        PROVE  f[T] = IF T = {} THEN <<0, 1>> ELSE AddInverse(f[T \ {Max(T)}], list[Max(T)])
    <3>1. f[T] = IF T = {} THEN <<0, 1>> ELSE step[pick[T]][f[T \ {pick[T]}]]
      BY <1>5 DEF Folding
    <3>2. pick[T] = Max(T) /\ f[T \ {Max(T)}] \in V
      BY <2>1
    <3>3. T # {} => step[Max(T)][f[T \ {Max(T)}]] = AddInverse(f[T \ {Max(T)}], list[Max(T)])
      <4>1. T # {} => Max(T) \in S
        BY <1>2
      <4> QED BY <3>2, <4>1
    <3> HIDE DEF step, pick
    <3> QED BY <3>1, <3>2, <3>3
  <2>3. DOMAIN list = S
    OBVIOUS
  <2> HIDE DEF S
  <2> QED BY <2>1, <2>2, <2>3 DEF SumsInverses
<1>7. SumsInverses(list, sum)
  BY <1>6
<1> HIDE DEF sum
<1>8. \A T \in SUBSET S :
         sum[T] = IF T = {} THEN <<0, 1>> ELSE AddInverse(sum[T \ {Max(T)}], list[Max(T)])
  <2>1. DOMAIN list = S
    OBVIOUS
  <2> HIDE DEF S
  <2> QED BY <1>7, <2>1 DEF SumsInverses
<1> DEFINE P == {T \in SUBSET S : sum[T] \in Between(Cardinality(T), low, high)}
<1>9. ASSUME NEW T \in SUBSET S, \A x \in T : T \ {x} \in P
      PROVE  T \in P
  <2>1. CASE T = {}
    <3>1. sum[T] = <<0, 1>> /\ Cardinality(T) = 0
      BY <1>8, <2>1, FS_EmptySet
    <3>2. <<0, 1>> \in Between(0, low, high)
      BY DEF Between
    <3> QED BY <3>1, <3>2
  <2>2. CASE T # {}
    <3> DEFINE x == Max(T)
               k == Cardinality(T \ {x})
    <3>1. x \in T /\ list[x] \in low..high
      BY <1>2, <1>3, <2>2
    <3>2. k \in Nat /\ Cardinality(T) = k + 1
      <4>1. IsFiniteSet(T) /\ Cardinality(T) \in Nat /\ k \in Nat
        BY <1>2
      <4> HIDE DEF S
      <4>2. k = Cardinality(T) - 1
        BY <3>1, <4>1, FS_RemoveElement
      <4> QED BY <4>1, <4>2
    <3>3. sum[T \ {x}] \in Between(k, low, high)
      BY <1>9, <3>1
    <3>4. sum[T] = AddInverse(sum[T \ {x}], list[x])
      BY <1>8, <2>2
    <3> HIDE DEF x, k
    <3>5. AddInverse(sum[T \ {x}], list[x]) \in Between(k + 1, low, high)
      BY <3>1, <3>2, <3>3, OneMoreInverse
    <3> QED BY <3>2, <3>4, <3>5
  <2> QED BY <2>1, <2>2
<1>10. SUBSET S \subseteq P
  <2> HIDE DEF P, S
  <2> QED BY <1>1, <1>9, BySize
<1>11. sum[S] \in Between(Cardinality(S), low, high)
  BY <1>10
<1> QED BY <1>1, <1>11 DEF sum

-----------------------------------------------------------------------------
(***************************************************************************)
(* The difficulty of the next block on a chain.                            *)
(***************************************************************************)
LEMMA Rescaled ==
  ASSUME NEW a \in Nat \ {0}, NEW b \in Nat \ {0}, NEW n \in Nat \ {0},
         NEW T \in Nat \ {0}, NEW S \in Nat \ {0},
         NEW low \in Nat \ {0}, NEW high \in Nat \ {0},
         a * low <= n * b, n * b <= a * high,
         NEW q, q = (b * S) \div (a * T)
  PROVE  /\ q * (T * n) <= high * S
         /\ (q + 1) * (T * n) > low * S
         /\ q <= 0 => low * S < T * n
<1>1. b * S \in Int /\ a * T \in Nat \ {0} /\ T * n \in Nat \ {0}
  OBVIOUS
<1>2. q \in Int /\ q * (a * T) <= b * S /\ b * S < (q + 1) * (a * T)
  BY <1>1, Divided
<1>3. q * (T * n) <= high * S
  <2>1. n * (q * (a * T)) <= n * (b * S)
    BY <1>1, <1>2, Scaled
  <2>2. (n * b) * S <= (a * high) * S
    BY Scaled
  <2>3. n * (q * (a * T)) = a * (q * (T * n)) /\ n * (b * S) = (n * b) * S
    BY <1>2
  <2>4. (a * high) * S = a * (high * S)
    OBVIOUS
  <2>5. a * (q * (T * n)) <= a * (high * S)
    BY <1>2, <2>1, <2>2, <2>3, <2>4
  <2>6. q * (T * n) \in Int /\ high * S \in Int
    BY <1>1, <1>2
  <2> QED BY <2>5, <2>6, Cancelled
<1>4. (q + 1) * (T * n) > low * S
  <2>1. n * (b * S) < n * ((q + 1) * (a * T))
    <3>1. (q + 1) * (a * T) \in Int
      BY <1>1, <1>2
    <3>2. n * (b * S + 1) <= n * ((q + 1) * (a * T))
      BY <1>1, <1>2, <3>1, Scaled
    <3>3. n * (b * S + 1) = n * (b * S) + n
      BY <1>1
    <3> QED BY <1>1, <3>1, <3>2, <3>3
  <2>2. (a * low) * S <= (n * b) * S
    BY Scaled
  <2>3. n * ((q + 1) * (a * T)) = a * ((q + 1) * (T * n)) /\ n * (b * S) = (n * b) * S
    BY <1>2
  <2>4. (a * low) * S = a * (low * S)
    OBVIOUS
  <2>6. (q + 1) * (T * n) \in Int /\ low * S \in Int
    BY <1>1, <1>2
  <2>5. a * (low * S) < a * ((q + 1) * (T * n))
    BY <1>2, <2>1, <2>2, <2>3, <2>4, <2>6
  <2> QED BY <2>5, <2>6, Cancelled
<1>5. ASSUME q <= 0 PROVE low * S < T * n
  <2>1. (q + 1) * (T * n) <= 1 * (T * n)
    BY <1>1, <1>2, <1>5, Scaled
  <2>2. (q + 1) * (T * n) \in Int /\ low * S \in Int
    BY <1>1, <1>2
  <2> QED BY <1>1, <1>4, <2>1, <2>2
<1> QED BY <1>3, <1>4, <1>5

(* A block that a miner made, by its own clock, and found a hash for.      *)
Mined(b) == b.difficulty > 0 /\ \E m \in Miner : b.timestamp = b.born + Skew[m]

MinedChain(chain) == chain \in Seq(Header) /\ \A i \in 2..Len(chain) : Mined(chain[i])

(* The genesis block is not in the window, nor the one before it.          *)
LEMMA WindowFacts ==
  ASSUME NEW chain, MinedChain(chain), Len(chain) > dynamicStart
  PROVE  LET cur == Len(chain)
             n == cur - Start(cur)
         IN  /\ cur \in Nat /\ Start(cur) \in Nat /\ Start(cur) >= 2 /\ n \in Nat \ {0}
             /\ \A i \in (Start(cur) - 1)..(cur - 1) : At(chain, i) \in Header /\ Mined(At(chain, i))
<1> DEFINE cur == Len(chain)
           n == cur - Start(cur)
<1>1. cur \in Nat /\ cur > 2
  BY DifficultyAssumption DEF MinedChain
<1>2. Start(cur) \in Nat /\ Start(cur) >= 2 /\ n \in Nat \ {0}
  <2>1. difficultyWindow \in Nat \ {0}
    BY DifficultyAssumption
  <2> HIDE DEF cur
  <2> QED BY <1>1, <2>1 DEF Start
<1>3. ASSUME NEW i \in (Start(cur) - 1)..(cur - 1)
      PROVE  At(chain, i) \in Header /\ Mined(At(chain, i))
  <2>1. i + 1 \in 2..Len(chain) /\ i + 1 \in 1..Len(chain)
    BY <1>1, <1>2
  <2> QED BY <2>1 DEF At, MinedChain
<1> QED BY <1>1, <1>2, <1>3

Difficulties(chain) ==
  {At(chain, i).difficulty : i \in Start(Len(chain))..(Len(chain) - 1)}

LEMMA Extremes ==
  ASSUME NEW chain, MinedChain(chain), Len(chain) > dynamicStart
  PROVE  \E low, high \in Difficulties(chain) :
            /\ low \in Nat \ {0} /\ high \in Nat \ {0}
            /\ \A d \in Difficulties(chain) : d \in low..high
<1> DEFINE D == Difficulties(chain)
           F == Start(Len(chain))
           L == Len(chain) - 1
<1>1. F \in Nat /\ L \in Nat /\ F <= L /\ \A i \in F..L : At(chain, i).difficulty \in Nat \ {0}
  <2>1. ASSUME NEW i \in F..L PROVE At(chain, i).difficulty \in Nat \ {0}
    <3>1. Len(chain) \in Nat /\ F \in Nat /\ i \in (F - 1)..L
      BY WindowFacts
    <3>2. At(chain, i) \in Header /\ Mined(At(chain, i))
      BY <3>1, WindowFacts
    <3> QED BY <3>2 DEF Header, Mined
  <2> QED BY <2>1, WindowFacts
<1> HIDE DEF F, L
<1>2. D = {At(chain, i).difficulty : i \in F..L}
  BY DEF Difficulties, F, L
<1>3. D \subseteq Nat \ {0} /\ D # {}
  BY <1>1, <1>2
<1>4. IsFiniteSet(D)
  <2> DEFINE f == [i \in F..L |-> At(chain, i).difficulty]
  <2>1. IsFiniteSet(F..L)
    BY <1>1, FS_Interval
  <2>2. f \in Surjection(F..L, D)
    BY <1>2 DEF Surjection
  <2> QED BY <2>1, <2>2, FS_Surjection
<1>5. PICK high \in D : \A d \in D : high >= d
  <2>1. D \subseteq Int /\ D \in SUBSET D
    BY <1>3
  <2> HIDE DEF D
  <2> QED BY <1>3, <1>4, <2>1, Greatest
<1>6. PICK low \in D : \A d \in D : low <= d
  <2>1. D \subseteq Nat
    BY <1>3
  <2> HIDE DEF D
  <2> QED BY <1>3, <2>1, LeastNatural
<1> HIDE DEF D
<1>7. low \in Nat \ {0} /\ high \in Nat \ {0} /\ \A d \in D : d \in low..high
  BY <1>3, <1>5, <1>6
<1> QED BY <1>5, <1>6, <1>7 DEF D

(* All that GetDifficulty does on such a chain.                            *)
LEMMA NextDifficulty ==
  ASSUME NEW chain, MinedChain(chain), Len(chain) > dynamicStart
  PROVE  LET cur == Len(chain)
             n == cur - Start(cur)
             seconds == Seconds(chain, cur)
             new == GetDifficulty(chain, cur)
         IN  /\ seconds \in Int /\ new \in Int
             /\ Panics(chain, cur) <=> seconds = 0
             /\ seconds > 0 =>
                  \E low, high \in Difficulties(chain) :
                     /\ new * (targetBlockTime * n) <= high * seconds
                     /\ (new + 1) * (targetBlockTime * n) > low * seconds
                     /\ new <= 0 => low * seconds < targetBlockTime * n
<1> DEFINE cur == Len(chain)
           F == Start(cur)
           n == cur - F
           S == Seconds(chain, cur)
           T == targetBlockTime
           new == GetDifficulty(chain, cur)
<1>1. /\ cur \in Nat /\ F \in Nat /\ F >= 2 /\ n \in Nat \ {0}
      /\ \A i \in (F - 1)..(cur - 1) : At(chain, i) \in Header /\ Mined(At(chain, i))
  BY WindowFacts
<1>2. T \in Nat \ {0}
  BY DifficultyAssumption
<1>3. S \in Int
  <2>1. cur - 1 \in (F - 1)..(cur - 1) /\ F - 1 \in (F - 1)..(cur - 1)
    BY <1>1
  <2>2. TotalTime(chain, cur) \in Int
    BY <1>1, <2>1 DEF TotalTime, Header
  <2> QED BY <2>2, QuotientFacts, DifficultyAssumption DEF Seconds
<1>4. PICK low, high \in Difficulties(chain) :
         /\ low \in Nat \ {0} /\ high \in Nat \ {0}
         /\ \A d \in Difficulties(chain) : d \in low..high
  BY Extremes
<1>5. PICK p \in Between(n, low, high) : TotalDifficulty(chain, cur) = p
  <2> DEFINE list == Window(chain, cur)
  <2>1. list \in [1..n -> low..high]
    <3>1. list = [k \in 1..n |-> At(chain, F + k - 1).difficulty]
      BY DEF Window
    <3>2. ASSUME NEW k \in 1..n PROVE At(chain, F + k - 1).difficulty \in low..high
      <4>1. F + k - 1 \in F..(cur - 1)
        BY <1>1
      <4>2. At(chain, F + k - 1).difficulty \in Difficulties(chain)
        BY <4>1 DEF Difficulties
      <4> QED BY <1>4, <4>2
    <3> HIDE DEF list
    <3> QED BY <3>1, <3>2
  <2>2. DOMAIN list = 1..n
    BY <2>1
  <2>3. TotalDifficulty(chain, cur) = (CHOOSE f : SumsInverses(list, f))[1..n]
    BY <2>2, SumIsFold
  <2> HIDE DEF list, n
  <2>4. n \in Nat
    BY <1>1
  <2> QED BY <1>4, <2>1, <2>3, <2>4, InverseSum
<1> DEFINE a == p[1]
           b == p[2]
<1>6. /\ a \in Nat \ {0} /\ b \in Nat \ {0} /\ p = <<a, b>>
      /\ a * low <= n * b /\ n * b <= a * high
  BY <1>1, <1>5 DEF Between
<1>7. new = (b * S) \div (a * T)
  <2> HIDE DEF a, b, n, F, S
  <2>1. RatMul(TotalDifficulty(chain, cur), targetBlockTime) = <<a * T, b>> /\ a * T > 0
    BY <1>2, <1>5, <1>6 DEF RatMul
  <2>2. ~ (cur <= dynamicStart)
    BY <1>1, DifficultyAssumption
  <2> HIDE DEF cur
  <2> QED BY <2>1, <2>2 DEF GetDifficulty, RatInv, RatMul, RatFloor, S
<1>8. Panics(chain, cur) <=> S = 0
  BY <1>5, <1>6 DEF Panics
<1>9. new \in Int
  <2>1. b * S \in Int /\ a * T \in Nat \ {0}
    BY <1>2, <1>3, <1>6
  <2> HIDE DEF new, S, T, a, b
  <2> QED BY <1>7, <2>1, Divided
<1>10. ASSUME S > 0
       PROVE  /\ new * (T * n) <= high * S
              /\ (new + 1) * (T * n) > low * S
              /\ new <= 0 => low * S < T * n
  <2>1. S \in Nat \ {0} /\ n \in Nat \ {0}
    BY <1>1, <1>3, <1>10
  <2> HIDE DEF new, S, T, a, b, n
  <2> QED BY <1>2, <1>4, <1>6, <1>7, <2>1, Rescaled
<1> HIDE DEF new, S
<1> QED BY <1>3, <1>4, <1>8, <1>9, <1>10 DEF new, S

-----------------------------------------------------------------------------
(***************************************************************************)
(* The invariant.  Whether GetDifficulty panics depends on the chain, so   *)
(* once a miner has ended nobody has, or makes, a block for this height.   *)
(***************************************************************************)
TypeOK ==
  /\ now \in Nat
  /\ blocks \in Seq(Header) /\ Len(blocks) > 0
  /\ candidate \in [Miner -> Header]
  /\ ended \in [Miner -> BOOLEAN]

(* A candidate for the next height has the difficulty of the chain.        *)
CandidateUpToDate(m) ==
  /\ candidate[m].timestamp = candidate[m].born + Skew[m]
  /\ candidate[m].height = Len(blocks) =>
       /\ candidate[m].difficulty = GetDifficulty(blocks, Len(blocks))
       /\ ~ Panics(blocks, Len(blocks))

Inv ==
  /\ TypeOK
  /\ MinedChain(blocks)
  /\ \A m \in Miner : /\ candidate[m].height <= Len(blocks)
                      /\ candidate[m].height > 0 => CandidateUpToDate(m)
  /\ \A m \in Miner : ended[m] => Panics(blocks, Len(blocks))

LEMMA InitInv == Init => Inv
<1> SUFFICES ASSUME Init PROVE Inv
  OBVIOUS
<1>1. NoBlock \in Header /\ NoBlock.height = 0
  BY DifficultyAssumption DEF NoBlock, Header
<1>2. blocks \in Seq(Header) /\ Len(blocks) = 1
  BY <1>1 DEF Init
<1>3. \A m \in Miner : candidate[m] = NoBlock /\ ended[m] = FALSE
  BY DEF Init
<1>4. TypeOK
  BY <1>1, <1>2 DEF Init, TypeOK
<1>5. MinedChain(blocks)
  BY <1>2 DEF MinedChain
<1> QED BY <1>1, <1>2, <1>3, <1>4, <1>5 DEF Inv

LEMMA CreateBlockInv ==
  ASSUME Inv, NEW m \in Miner, CreateBlock(m)
  PROVE  Inv'
<1>1. /\ TypeOK /\ MinedChain(blocks) /\ UNCHANGED <<now, blocks>>
      /\ candidate[m].height < Len(blocks) /\ Len(blocks) \in Nat
  BY DEF Inv, CreateBlock, Creates, TypeOK
<1>2. CASE Panics(blocks, Len(blocks))
  <2>1. ended' = [ended EXCEPT ![m] = TRUE] /\ UNCHANGED candidate
    BY <1>2 DEF CreateBlock
  <2>2. TypeOK'
    BY <1>1, <2>1 DEF TypeOK
  <2>3. \A p \in Miner : ended'[p] => Panics(blocks, Len(blocks))
    BY <1>2
  <2> QED BY <1>1, <2>1, <2>2, <2>3 DEF Inv, CandidateUpToDate
<1>3. CASE ~ Panics(blocks, Len(blocks))
  <2>1. candidate' = [candidate EXCEPT ![m] = NewBlock(m)] /\ UNCHANGED ended
    BY <1>3 DEF CreateBlock
  <2>2. GetDifficulty(blocks, Len(blocks)) \in Int
    <3>1. CASE Len(blocks) <= dynamicStart
      BY <3>1, DifficultyAssumption DEF GetDifficulty
    <3>2. CASE Len(blocks) > dynamicStart
      BY <1>1, <3>2, NextDifficulty
    <3> QED BY <1>1, <3>1, <3>2, DifficultyAssumption
  <2>3. NewBlock(m) \in Header
    BY <1>1, <2>2, DifficultyAssumption DEF NewBlock, Header, TypeOK
  <2>4. TypeOK'
    BY <1>1, <2>1, <2>3 DEF TypeOK
  <2>5. candidate'[m] = NewBlock(m) /\ \A p \in Miner \ {m} : candidate'[p] = candidate[p]
    BY <1>1, <2>1 DEF TypeOK
  <2>6. candidate'[m].height = Len(blocks) /\ CandidateUpToDate(m)'
    BY <1>1, <1>3, <2>5 DEF NewBlock, CandidateUpToDate
  <2>7. \A p \in Miner : /\ candidate'[p].height <= Len(blocks)
                         /\ candidate'[p].height > 0 => CandidateUpToDate(p)'
    <3> SUFFICES ASSUME NEW p \in Miner, p # m
                 PROVE  /\ candidate'[p].height <= Len(blocks)
                        /\ candidate'[p].height > 0 => CandidateUpToDate(p)'
      BY <1>1, <2>6
    <3>1. candidate'[p] = candidate[p]
      BY <2>5
    <3> QED BY <1>1, <3>1 DEF Inv, CandidateUpToDate
  <2> QED BY <1>1, <2>1, <2>4, <2>7 DEF Inv
<1> QED BY <1>2, <1>3

LEMMA FindHashInv ==
  ASSUME Inv, NEW m \in Miner, FindHash(m)
  PROVE  Inv'
<1>1. /\ TypeOK /\ MinedChain(blocks) /\ UNCHANGED <<now, ended>>
      /\ Len(blocks) \in Nat \ {0}
      /\ candidate[m].height > 0 /\ candidate[m].difficulty > 0
      /\ candidate[m] \in Header /\ CandidateUpToDate(m)
      /\ candidate' = [candidate EXCEPT ![m] = NoBlock]
  BY DEF Inv, FindHash, Minable, TypeOK
<1>2. NoBlock \in Header /\ NoBlock.height = 0
  BY DifficultyAssumption DEF NoBlock, Header
<1>3. candidate' \in [Miner -> Header]
  BY <1>1, <1>2 DEF TypeOK
<1>4. \A p \in Miner : /\ candidate'[p].height \in Nat
                       /\ candidate'[p] = candidate[p] \/ candidate'[p].height = 0
  <2>1. \A p \in Miner : candidate'[p].height \in Nat
    BY <1>3 DEF Header
  <2>2. \A p \in Miner : candidate'[p] = candidate[p] \/ candidate'[p].height = 0
    BY <1>1, <1>2 DEF TypeOK
  <2> QED BY <2>1, <2>2
<1>5. CASE candidate[m].height = Len(blocks)
  <2>1. blocks' = Append(blocks, candidate[m])
    BY <1>5 DEF FindHash
  <2>2. /\ blocks' \in Seq(Header) /\ Len(blocks') = Len(blocks) + 1
        /\ \A i \in 1..Len(blocks) : blocks'[i] = blocks[i]
        /\ blocks'[Len(blocks) + 1] = candidate[m]
    BY <1>1, <2>1 DEF TypeOK
  <2>3. Mined(candidate[m])
    BY <1>1 DEF Mined, CandidateUpToDate
  <2>4. MinedChain(blocks')
    <3>1. ASSUME NEW i \in 2..Len(blocks') PROVE Mined(blocks'[i])
      <4>1. i \in 2..Len(blocks) \/ i = Len(blocks) + 1
        BY <1>1, <2>2
      <4>2. ASSUME i \in 2..Len(blocks) PROVE Mined(blocks'[i])
        <5>1. blocks'[i] = blocks[i]
          BY <2>2, <4>2
        <5> QED BY <1>1, <4>2, <5>1 DEF MinedChain
      <4> QED BY <2>2, <2>3, <4>1, <4>2
    <3> QED BY <2>2, <3>1 DEF MinedChain
  <2>5. \A p \in Miner : ~ ended'[p]
    BY <1>1, <1>5 DEF Inv, CandidateUpToDate
  <2>6. \A p \in Miner : /\ candidate'[p].height <= Len(blocks')
                         /\ candidate'[p].height > 0 => CandidateUpToDate(p)'
    <3> SUFFICES ASSUME NEW p \in Miner, candidate'[p] = candidate[p], candidate'[p].height > 0
                 PROVE  candidate'[p].height <= Len(blocks') /\ CandidateUpToDate(p)'
      BY <1>1, <1>4, <2>2
    <3>1. candidate[p].height \in Nat /\ candidate[p].height <= Len(blocks)
      BY <1>1 DEF Inv, TypeOK, Header
    <3>2. candidate[p].timestamp = candidate[p].born + Skew[p]
      BY DEF Inv, CandidateUpToDate
    <3>3. candidate'[p].height < Len(blocks')
      BY <1>1, <2>2, <3>1
    <3>4. candidate'[p].height # Len(blocks')
      BY <1>1, <2>2, <3>1
    <3> QED BY <3>1, <3>2, <3>3, <3>4, <1>1, <2>2 DEF CandidateUpToDate
  <2>7. TypeOK'
    BY <1>1, <1>3, <2>2 DEF TypeOK
  <2> QED BY <2>4, <2>5, <2>6, <2>7 DEF Inv
<1>6. CASE candidate[m].height # Len(blocks)
  <2>1. blocks' = blocks
    BY <1>6 DEF FindHash
  <2>2. TypeOK'
    BY <1>1, <1>3, <2>1 DEF TypeOK
  <2>3. \A p \in Miner : /\ candidate'[p].height <= Len(blocks)
                         /\ candidate'[p].height > 0 => CandidateUpToDate(p)'
    <3> SUFFICES ASSUME NEW p \in Miner, candidate'[p] = candidate[p], candidate'[p].height > 0
                 PROVE  candidate'[p].height <= Len(blocks) /\ CandidateUpToDate(p)'
      BY <1>1, <1>4
    <3> QED BY <2>1 DEF Inv, CandidateUpToDate
  <2> QED BY <1>1, <2>1, <2>2, <2>3 DEF Inv
<1> QED BY <1>5, <1>6

LEMMA NextInv == Inv /\ [Next]_vars => Inv'
<1> SUFFICES ASSUME Inv, [Next]_vars PROVE Inv'
  OBVIOUS
<1>1. CASE Tick
  <2>1. now' \in Nat
    BY <1>1 DEF Tick, Inv, TypeOK
  <2>2. UNCHANGED <<blocks, candidate, ended>>
    BY <1>1 DEF Tick
  <2> QED BY <2>1, <2>2 DEF Inv, TypeOK, CandidateUpToDate
<1>2. ASSUME NEW m \in Miner, CreateBlock(m) PROVE Inv'
  BY <1>2, CreateBlockInv
<1>3. ASSUME NEW m \in Miner, FindHash(m) PROVE Inv'
  BY <1>3, FindHashInv
<1>4. CASE UNCHANGED vars
  BY <1>4 DEF vars, Inv, TypeOK, CandidateUpToDate
<1> QED BY <1>1, <1>2, <1>3, <1>4 DEF Next

LEMMA Holds == Spec => []Inv
BY InitInv, NextInv, PTL DEF Spec

-----------------------------------------------------------------------------
(***************************************************************************)
(* The properties.                                                         *)
(***************************************************************************)

(* However long the window and whatever the clocks showed, the next        *)
(* difficulty lies between the lowest and the highest of the window, each  *)
(* scaled by the time the window took.                                     *)
THEOREM ScaledByTime == Spec => []Retargets
<1>1. Inv => Retargets
  <2> SUFFICES ASSUME Inv, Dynamic, WindowSeconds > 0 PROVE Retargets
    BY DEF Retargets
  <2> DEFINE new == GetDifficulty(blocks, Len(blocks))
             goal == targetBlockTime * WindowLength
  <2>1. PICK low, high \in Difficulties(blocks) :
              /\ new * goal <= high * WindowSeconds
              /\ (new + 1) * goal > low * WindowSeconds
    BY NextDifficulty DEF Inv, Dynamic, WindowSeconds, WindowLength
  <2>2. WindowDifficulties = Difficulties(blocks)
    BY DEF WindowDifficulties, Difficulties
  <2> HIDE DEF new, goal
  <2>3. /\ \E d \in WindowDifficulties : new * goal <= d * WindowSeconds
        /\ \E d \in WindowDifficulties : (new + 1) * goal > d * WindowSeconds
    BY <2>1, <2>2
  <2> QED BY <2>3 DEF Retargets, new, goal
<1> QED BY <1>1, Holds, PTL

LEMMA SpreadFacts ==
  ASSUME NEW m \in Miner, NEW n \in Miner
  PROVE  Spread \in Int /\ Skew[m] - Skew[n] \in Int /\ Skew[m] - Skew[n] <= Spread
<1> DEFINE D == {Skew[p] - Skew[q] : p, q \in Miner}
           f == [pair \in Miner \X Miner |-> Skew[pair[1]] - Skew[pair[2]]]
<1>1. D \subseteq Int /\ Skew[m] - Skew[n] \in D
  BY DifficultyAssumption
<1>2. IsFiniteSet(Miner \X Miner)
  BY DifficultyAssumption, FS_Product
<1>3. f \in Surjection(Miner \X Miner, D)
  <2>1. \A pair \in Miner \X Miner : f[pair] \in D
    OBVIOUS
  <2>2. ASSUME NEW d \in D PROVE \E pair \in Miner \X Miner : f[pair] = d
    <3>1. PICK p \in Miner, q \in Miner : d = Skew[p] - Skew[q]
      OBVIOUS
    <3>2. <<p, q>> \in Miner \X Miner /\ f[<<p, q>>] = d
      BY <3>1
    <3> HIDE DEF f
    <3> QED BY <3>2
  <2>3. f \in [Miner \X Miner -> D]
    BY <2>1
  <2> HIDE DEF D, f
  <2> QED BY <2>2, <2>3 DEF Surjection
<1>4. IsFiniteSet(D)
  BY <1>2, <1>3, FS_Surjection
<1>5. Spread = Max(D)
  BY DEF Spread
<1> HIDE DEF D
<1>6. Max(D) \in D /\ \A d \in D : Max(D) >= d
  BY <1>1, <1>4, MaxFacts
<1> QED BY <1>1, <1>5, <1>6

(* A miner ends, or gets stuck with a difficulty of zero, only after a     *)
(* window too short for whole seconds or clocks, or because difficulties   *)
(* are too low to be divided.                                              *)
THEOREM StopsOnlyOnRush == Spec => []OnlyRushStops
<1>1. Inv => OnlyRushStops
  <2> SUFFICES ASSUME Inv, NEW m \in Miner,
                      ended[m] \/ (candidate[m].height = Len(blocks) /\ candidate[m].difficulty <= 0)
               PROVE  \/ RealTime < Second + Spread
                      \/ /\ WindowSeconds > 0
                         /\ \E d \in WindowDifficulties :
                              d * WindowSeconds < targetBlockTime * WindowLength
    BY DEF OnlyRushStops
  <2> DEFINE cur == Len(blocks)
             new == GetDifficulty(blocks, cur)
  <2>1. MinedChain(blocks) /\ cur \in Nat \ {0} /\ dynamicStart \in Nat
    BY DifficultyAssumption DEF Inv, TypeOK
  <2>2. Panics(blocks, cur) \/ (~ Panics(blocks, cur) /\ new <= 0)
    <3>1. CASE ended[m]
      BY <3>1 DEF Inv
    <3>2. CASE candidate[m].height = cur /\ candidate[m].difficulty <= 0
      <4>1. CandidateUpToDate(m)
        BY <2>1, <3>2 DEF Inv
      <4> QED BY <3>2, <4>1 DEF CandidateUpToDate
    <3> QED BY <3>1, <3>2
  <2>3. cur > dynamicStart
    <3>1. CASE Panics(blocks, cur)
      BY <3>1 DEF Panics
    <3>2. CASE new <= 0
      BY <2>1, <3>2, DifficultyAssumption DEF GetDifficulty
    <3> QED BY <2>2, <3>1, <3>2
  <2>4. CASE WindowSeconds <= 0
    <3> DEFINE last == At(blocks, cur - 1)
               first == At(blocks, Start(cur) - 1)
    <3>1. /\ last \in Header /\ Mined(last)
          /\ first \in Header /\ Mined(first)
      <4>1. cur - 1 \in (Start(cur) - 1)..(cur - 1) /\ Start(cur) - 1 \in (Start(cur) - 1)..(cur - 1)
        BY <2>1, <2>3, WindowFacts
      <4> QED BY <2>1, <2>3, <4>1, WindowFacts
    <3>2. PICK x \in Miner : last.timestamp = last.born + Skew[x]
      BY <3>1 DEF Mined
    <3>3. PICK y \in Miner : first.timestamp = first.born + Skew[y]
      BY <3>1 DEF Mined
    <3>4. /\ last.timestamp \in Int /\ first.timestamp \in Int
          /\ last.born \in Nat /\ first.born \in Nat
          /\ Skew[x] \in Int /\ Skew[y] \in Int /\ Second \in Nat \ {0}
      BY <3>1, DifficultyAssumption DEF Header
    <3>5. last.timestamp - first.timestamp < Second
      <4>1. WindowSeconds = Quotient(last.timestamp - first.timestamp, Second)
        BY DEF WindowSeconds, Seconds, TotalTime
      <4>2. last.timestamp - first.timestamp \in Int
        BY <3>4
      <4> HIDE DEF last, first
      <4> QED BY <2>4, <3>4, <4>1, <4>2, QuotientFacts
    <3>6. Spread \in Int /\ Skew[y] - Skew[x] <= Spread
      BY SpreadFacts
    <3>7. RealTime = last.born - first.born
      BY DEF RealTime
    <3> HIDE DEF last, first
    <3>8. RealTime < Second + Spread
      BY <3>2, <3>3, <3>4, <3>5, <3>6, <3>7
    <3> QED BY <3>8
  <2>5. CASE WindowSeconds > 0
    <3>1. ~ Panics(blocks, cur)
      BY <2>1, <2>3, <2>5, NextDifficulty DEF WindowSeconds
    <3>2. PICK low \in Difficulties(blocks) :
                new <= 0 => low * WindowSeconds < targetBlockTime * WindowLength
      BY <2>1, <2>3, <2>5, NextDifficulty DEF WindowSeconds, WindowLength
    <3>3. WindowDifficulties = Difficulties(blocks)
      BY DEF WindowDifficulties, Difficulties
    <3> QED BY <2>2, <2>5, <3>1, <3>2, <3>3
  <2>6. WindowSeconds \in Int
    BY <2>1, <2>3, NextDifficulty DEF WindowSeconds
  <2> QED BY <2>4, <2>5, <2>6
<1> QED BY <1>1, Holds, PTL

(* Once the divisor is zero the chain never grows again: whoever creates a *)
(* block ends, and nobody has one for this height from before.             *)
THEOREM RushIsFinal == Spec => [][Panics(blocks, Len(blocks)) => UNCHANGED blocks]_vars
<1>1. Inv /\ [Next]_vars => [Panics(blocks, Len(blocks)) => UNCHANGED blocks]_vars
  <2> SUFFICES ASSUME Inv, Panics(blocks, Len(blocks)), [Next]_vars
               PROVE  blocks' = blocks
    OBVIOUS
  <2>1. ASSUME NEW m \in Miner, FindHash(m) PROVE blocks' = blocks
    <3>1. candidate[m].height > 0 => candidate[m].height # Len(blocks)
      BY DEF Inv, CandidateUpToDate
    <3> QED BY <2>1, <3>1 DEF FindHash, Minable
  <2> QED BY <2>1 DEF Next, Tick, CreateBlock, vars
<1> QED BY <1>1, Holds, PTL DEF Spec
=============================================================================
