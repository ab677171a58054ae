---------------------------- MODULE WalletProofs ----------------------------
(***************************************************************************)
(* Proofs about the outputs a client keeps and the balances that the UTXO  *)
(* set of a miner shows, for any keys, allotments and amounts, and         *)
(* whatever becomes of the client's transactions.                          *)
(***************************************************************************)
EXTENDS Wallet, FiniteSetTheorems, SequenceTheorems, WellFoundedInduction, TLAPS

-----------------------------------------------------------------------------
(***************************************************************************)
(* Numbers, and functions defined by recursion on them.                    *)
(***************************************************************************)
LEMMA LeastNatural ==
  ASSUME NEW T, T \subseteq Nat, T # {}
  PROVE  \E x \in T : \A y \in T : x <= y
<1> DEFINE R == OpToRel(<, Nat)
<1>1. IsWellFoundedOn(R, Nat)
  BY NatLessThanWellFounded
<1>2. PICK x \in T : \A y \in T : ~ (<<y, x>> \in R)
  <2> HIDE DEF R
  <2> QED
    BY <1>1, WFMin
<1>3. \A y \in T : ~ (y < x)
  BY <1>2 DEF OpToRel
<1> QED
  BY <1>3

LEMMA MinFacts ==
  ASSUME NEW T, T \subseteq Nat, T # {}
  PROVE  Min(T) \in T /\ \A y \in T : Min(T) <= y
<1>1. \E x \in T : \A y \in T : x <= y
  BY LeastNatural
<1> QED
  BY <1>1 DEF Min

(* Induction up to N, for a set of numbers instead of a predicate.         *)
LEMMA UpTo ==
  ASSUME NEW N \in Nat, NEW T, 0 \in T, \A n \in 1..N : n - 1 \in T => n \in T
  PROVE  0..N \subseteq T
<1> DEFINE Rest == (0..N) \ T
<1> SUFFICES ASSUME Rest # {} PROVE FALSE
  OBVIOUS
<1>1. PICK x \in Rest : \A y \in Rest : x <= y
  <2>1. Rest \subseteq Nat
    OBVIOUS
  <2> HIDE DEF Rest
  <2> QED
    BY <2>1, LeastNatural
<1>2. x \in 1..N /\ x \notin T
  OBVIOUS
<1>3. x - 1 \in 0..N /\ x - 1 \notin Rest
  BY <1>1, <1>2
<1> QED
  BY <1>2, <1>3

(* The functions that begin with first and go on by step.                  *)
Iterations(N, S, first, step) ==
  {f \in [0..N -> S] : f[0] = first /\ \A n \in 1..N : f[n] = step[n][f[n-1]]}

LEMMA Iterated ==
  ASSUME NEW N \in Nat, NEW S, NEW first \in S, NEW step \in [1..N -> [S -> S]]
  PROVE  Iterations(N, S, first, step) # {}
<1> DEFINE Begins(f, n) == f[0] = first /\ \A k \in 1..n : f[k] = step[k][f[k-1]]
           T == {n \in 0..N : \E f \in [0..n -> S] : Begins(f, n)}
<1>1. 0 \in T
  <2>1. [k \in 0..0 |-> first] \in [0..0 -> S] /\ Begins([k \in 0..0 |-> first], 0)
    OBVIOUS
  <2> HIDE DEF Begins
  <2>2. \E f \in [0..0 -> S] : Begins(f, 0)
    BY <2>1
  <2> QED
    BY <2>2
<1>2. ASSUME NEW n \in 1..N, n - 1 \in T
      PROVE  n \in T
  <2>1. PICK f \in [0..n - 1 -> S] : Begins(f, n - 1)
    BY <1>2
  <2> DEFINE g == [k \in 0..n |-> IF k = n THEN step[n][f[n-1]] ELSE f[k]]
  <2>2. f[n-1] \in S /\ step[n] \in [S -> S]
    OBVIOUS
  <2>3. step[n][f[n-1]] \in S
    BY <2>2
  <2>4. g \in [0..n -> S]
    BY <2>3
  <2>5. g[0] = first /\ g[n] = step[n][g[n-1]]
    BY <2>1
  <2>6. \A k \in 1..n - 1 : g[k] = step[k][g[k-1]]
    BY <2>1
  <2> HIDE DEF g
  <2>7. Begins(g, n)
    <3>1. \A k \in 1..n : k \in 1..n - 1 \/ k = n
      OBVIOUS
    <3> QED
      BY <2>5, <2>6, <3>1
  <2> HIDE DEF Begins
  <2>8. \E e \in [0..n -> S] : Begins(e, n)
    BY <2>4, <2>7
  <2> QED
    BY <2>8
<1>3. 0..N \subseteq T
  <2> HIDE DEF T
  <2> QED
    BY <1>1, <1>2, UpTo
<1>4. N \in T
  BY <1>3
<1> QED
  BY <1>4 DEF Iterations

-----------------------------------------------------------------------------
(***************************************************************************)
(* Sums.                                                                   *)
(***************************************************************************)
Amounts(list) ==
  Len(list) \in Nat /\ \A i \in 1..Len(list) : list[i].amount \in Nat

LEMMA Sums ==
  ASSUME NEW list, Amounts(list)
  PROVE  \E f \in [0..Len(list) -> Nat] :
            /\ Total(list) = f[Len(list)]
            /\ f[0] = 0
            /\ \A n \in 1..Len(list) : f[n] = f[n-1] + list[n].amount
<1> DEFINE N == Len(list)
           step == [n \in 1..N |-> [x \in Nat |-> x + list[n].amount]]
           Adds(f) == f = [n \in 0..N |-> IF n = 0 THEN 0 ELSE f[n-1] + list[n].amount]
           sum == CHOOSE f : Adds(f)
<1>1. N \in Nat /\ \A n \in 1..N : list[n].amount \in Nat
  BY DEF Amounts
<1>2. step \in [1..N -> [Nat -> Nat]]
  BY <1>1
<1> HIDE DEF N
<1>3. PICK f \in [0..N -> Nat] : f[0] = 0 /\ \A n \in 1..N : f[n] = step[n][f[n-1]]
  <2> HIDE DEF step
  <2>1. N \in Nat /\ 0 \in Nat
    BY <1>1
  <2>2. Iterations(N, Nat, 0, step) # {}
    BY <1>2, <2>1, Iterated
  <2> QED
    BY <2>2 DEF Iterations
<1>4. Adds(f)
  <2>1. ASSUME NEW n \in 1..N
        PROVE  f[n-1] \in Nat /\ f[n] = f[n-1] + list[n].amount
    <3>1. n - 1 \in 0..N
      BY <1>1
    <3>2. f[n-1] \in Nat
      BY <1>3, <3>1
    <3>3. step[n][f[n-1]] = f[n-1] + list[n].amount
      BY <3>2
    <3> QED
      BY <1>3, <3>2, <3>3
  <2>2. \A n \in 0..N : f[n] = IF n = 0 THEN 0 ELSE f[n-1] + list[n].amount
    BY <1>1, <1>3, <2>1
  <2> QED
    BY <2>2
<1>5. Adds(sum)
  <2> HIDE DEF Adds
  <2> QED
    BY <1>4
<1>6. Total(list) = sum[N]
  BY DEF Total, N
<1> HIDE DEF sum
<1>7. sum[0] = 0 /\ \A n \in 1..N : sum[n] = sum[n-1] + list[n].amount
  <2>1. \A n \in 0..N : sum[n] = IF n = 0 THEN 0 ELSE sum[n-1] + list[n].amount
    BY <1>5
  <2> QED
    BY <1>1, <2>1
<1>8. \A n \in 0..N : sum[n] \in Nat
  <2> DEFINE T == {n \in 0..N : sum[n] \in Nat}
  <2>1. ASSUME NEW n \in 1..N, n - 1 \in T
        PROVE  n \in T
    BY <1>1, <1>7, <2>1
  <2>3. 0 \in T
    BY <1>1, <1>7
  <2> HIDE DEF T
  <2>2. 0..N \subseteq T
    BY <1>1, <2>1, <2>3, UpTo
  <2> QED
    BY <2>2 DEF T
<1>9. sum \in [0..N -> Nat]
  BY <1>5, <1>8
<1> QED
  BY <1>6, <1>7, <1>9 DEF N

LEMMA TotalFacts ==
  ASSUME NEW list, Amounts(list)
  PROVE  /\ Total(list) \in Nat
         /\ Len(list) = 0 => Total(list) = 0
         /\ Len(list) = 1 => Total(list) = list[1].amount
         /\ Len(list) = 2 => Total(list) = list[1].amount + list[2].amount
<1>1. PICK f \in [0..Len(list) -> Nat] :
            /\ Total(list) = f[Len(list)]
            /\ f[0] = 0
            /\ \A n \in 1..Len(list) : f[n] = f[n-1] + list[n].amount
  BY Sums
<1>2. Len(list) \in Nat /\ \A n \in 1..Len(list) : list[n].amount \in Nat
  BY DEF Amounts
<1>3. Len(list) = 1 => f[1] = f[0] + list[1].amount
  BY <1>1
<1>4. Len(list) = 2 => f[1] = f[0] + list[1].amount /\ f[2] = f[1] + list[2].amount
  BY <1>1
<1> QED
  BY <1>1, <1>2, <1>3, <1>4

-----------------------------------------------------------------------------
(***************************************************************************)
(* Lists of outputs, as AddUTXO and RemoveUTXO change them.                *)
(***************************************************************************)
LEMMA Appended ==
  ASSUME NEW T, NEW s \in Seq(T), NEW e \in T
  PROVE  /\ Append(s, e) \in Seq(T)
         /\ ToSet(Append(s, e)) = ToSet(s) \cup {e}
         /\ IsInjective(s) /\ e \notin ToSet(s) => IsInjective(Append(s, e))
<1> DEFINE t == Append(s, e)
           N == Len(s)
<1>1. /\ N \in Nat /\ DOMAIN s = 1..N
      /\ t \in Seq(T) /\ Len(t) = N + 1 /\ DOMAIN t = 1..N+1
      /\ \A i \in 1..N : t[i] = s[i]
      /\ t[N+1] = e
  BY AppendProperties, LenProperties
<1> HIDE DEF t, N
<1>2. \A i \in 1..N+1 : i \in 1..N \/ i = N + 1
  BY <1>1
<1>3. \A i \in 1..N : i \in 1..N+1 /\ i # N + 1
  BY <1>1
<1>4. N + 1 \in 1..N+1
  BY <1>1
<1>5. ToSet(t) = ToSet(s) \cup {e}
  BY <1>1, <1>2, <1>3, <1>4 DEF ToSet
<1>6. ASSUME IsInjective(s), e \notin ToSet(s)
      PROVE  IsInjective(t)
  <2> SUFFICES ASSUME NEW i \in 1..N+1, NEW j \in 1..N+1, t[i] = t[j]
               PROVE  i = j
    BY <1>1 DEF IsInjective
  <2>1. \A k \in 1..N : s[k] # e
    BY <1>1, <1>6 DEF ToSet
  <2> QED
    BY <1>1, <1>2, <1>6, <2>1 DEF IsInjective
<1> QED
  BY <1>1, <1>5, <1>6 DEF t

LEMMA RemovedFirst ==
  ASSUME NEW T, NEW s \in Seq(T), NEW e
  PROVE  /\ RemoveFirst(s, e) \in Seq(T)
         /\ IsInjective(s) => /\ IsInjective(RemoveFirst(s, e))
                              /\ ToSet(RemoveFirst(s, e)) = ToSet(s) \ {e}
<1> DEFINE N == Len(s)
<1>1. N \in Nat /\ DOMAIN s = 1..N /\ \A i \in 1..N : s[i] \in T
  BY LenProperties, ElementOfSeq
<1>2. CASE ~ \E i \in 1..N : s[i] = e
  <2>1. RemoveFirst(s, e) = s
    BY <1>2 DEF RemoveFirst
  <2>2. e \notin ToSet(s)
    BY <1>1, <1>2 DEF ToSet
  <2> QED
    BY <2>1, <2>2
<1>3. CASE \E i \in 1..N : s[i] = e
  <2> DEFINE I == {i \in 1..N : s[i] = e}
             k == Min(I)
             t == RemoveFirst(s, e)
  <2>1. k \in I
    <3>1. I \subseteq Nat /\ I # {}
      BY <1>1, <1>3
    <3> HIDE DEF I
    <3> QED
      BY <3>1, MinFacts
  <2>2. t = SubSeq(s, 1, k-1) \o SubSeq(s, k+1, N)
    BY <1>3 DEF RemoveFirst, RemoveAt, SelectInSeq
  <2>3. k \in 1..N /\ s[k] = e
    BY <2>1
  <2> HIDE DEF k, N
  <2>4. /\ SubSeq(s, 1, k-1) \in Seq(T)
        /\ Len(SubSeq(s, 1, k-1)) = k - 1
        /\ \A i \in 1..k-1 : SubSeq(s, 1, k-1)[i] = s[i]
    <3>1. 1 \in Int /\ k - 1 \in Int /\ \A i \in 1..k-1 : s[i] \in T
      BY <1>1, <2>3
    <3>2. /\ SubSeq(s, 1, k-1) \in Seq(T)
          /\ Len(SubSeq(s, 1, k-1)) = IF 1 <= k-1 THEN k-1-1+1 ELSE 0
          /\ \A i \in 1..k-1-1+1 : SubSeq(s, 1, k-1)[i] = s[1+i-1]
      BY <3>1, SubSeqProperties
    <3> QED
      BY <1>1, <2>3, <3>2
  <2>5. /\ SubSeq(s, k+1, N) \in Seq(T)
        /\ Len(SubSeq(s, k+1, N)) = N - k
        /\ \A i \in 1..N-k : SubSeq(s, k+1, N)[i] = s[k+i]
    <3>1. k + 1 \in Int /\ N \in Int /\ \A i \in k+1..N : s[i] \in T
      BY <1>1, <2>3
    <3>2. /\ SubSeq(s, k+1, N) \in Seq(T)
          /\ Len(SubSeq(s, k+1, N)) = IF k+1 <= N THEN N-(k+1)+1 ELSE 0
          /\ \A i \in 1..N-(k+1)+1 : SubSeq(s, k+1, N)[i] = s[(k+1)+i-1]
      BY <3>1, SubSeqProperties
    <3> QED
      BY <1>1, <2>3, <3>2
  <2>6. /\ t \in Seq(T)
        /\ Len(t) = N - 1
        /\ \A i \in 1..N-1 : t[i] = IF i < k THEN s[i] ELSE s[i+1]
    <3> HIDE DEF t
    <3> DEFINE p == SubSeq(s, 1, k-1)
               q == SubSeq(s, k+1, N)
    <3>1. /\ p \o q \in Seq(T)
          /\ Len(p \o q) = Len(p) + Len(q)
          /\ \A i \in 1..Len(p) + Len(q) :
                (p \o q)[i] = IF i <= Len(p) THEN p[i] ELSE q[i - Len(p)]
      <4>1. p \in Seq(T) /\ q \in Seq(T)
        BY <2>4, <2>5
      <4> HIDE DEF p, q
      <4> QED
        BY <4>1, ConcatProperties
    <3>2. Len(p) + Len(q) = N - 1 /\ Len(p) = k - 1
      BY <1>1, <2>3, <2>4, <2>5
    <3>3. ASSUME NEW i \in 1..N-1
          PROVE  t[i] = IF i < k THEN s[i] ELSE s[i+1]
      <4>1. t[i] = IF i <= k - 1 THEN p[i] ELSE q[i - (k-1)]
        BY <2>2, <3>1, <3>2
      <4>2. CASE i < k
        <5>1. i \in 1..k-1
          BY <1>1, <2>3, <4>2
        <5>2. p[i] = s[i]
          BY <2>4, <5>1
        <5> QED
          BY <1>1, <2>3, <4>1, <4>2, <5>2
      <4>3. CASE ~ i < k
        <5>1. i - (k-1) \in 1..N-k /\ k + (i - (k-1)) = i + 1
          BY <1>1, <2>3, <4>3
        <5> DEFINE j == i - (k-1)
        <5>2. q[j] = s[k+j]
          BY <2>5, <5>1
        <5> QED
          BY <1>1, <2>3, <4>1, <4>3, <5>1, <5>2
      <4> QED
        BY <4>2, <4>3
    <3> QED
      BY <2>2, <3>1, <3>2, <3>3
  <2> HIDE DEF t
  <2>7. ASSUME IsInjective(s)
        PROVE  IsInjective(t) /\ ToSet(t) = ToSet(s) \ {e}
    <3>1. DOMAIN t = 1..N-1
      BY <2>6, LenProperties
    <3>2. \A i, j \in 1..N : s[i] = s[j] => i = j
      BY <1>1, <2>7 DEF IsInjective
    <3>3. \A i \in 1..N-1 : t[i] \in {s[j] : j \in 1..N} /\ t[i] # e
      BY <1>1, <2>3, <2>6, <3>2
    <3>4. ASSUME NEW j \in 1..N, s[j] # e
          PROVE  \E i \in 1..N-1 : t[i] = s[j]
      <4>1. CASE j < k
        BY <1>1, <2>3, <2>6, <4>1
      <4>2. CASE j > k
        <5>1. j - 1 \in 1..N-1 /\ ~ (j - 1 < k) /\ (j - 1) + 1 = j
          BY <1>1, <2>3, <4>2
        <5>2. t[j-1] = s[j]
          BY <2>6, <5>1
        <5> QED
          BY <5>1, <5>2
      <4>3. j # k
        BY <2>3, <3>4
      <4> QED
        BY <1>1, <2>3, <4>1, <4>2, <4>3
    <3>5. ToSet(t) = ToSet(s) \ {e}
      <4>1. ToSet(s) = {s[j] : j \in 1..N} /\ ToSet(t) = {t[i] : i \in 1..N-1}
        BY <1>1, <3>1 DEF ToSet
      <4>2. \A x \in {t[i] : i \in 1..N-1} : x \in {s[j] : j \in 1..N} /\ x # e
        BY <3>3
      <4>3. \A x \in {s[j] : j \in 1..N} : x # e => x \in {t[i] : i \in 1..N-1}
        BY <3>4
      <4> QED
        BY <4>1, <4>2, <4>3
    <3>6. \A i, j \in 1..N-1 : t[i] = t[j] => i = j
      <4> TAKE i, j \in 1..N-1
      <4>1. /\ i \in 1..N /\ j \in 1..N /\ i + 1 \in 1..N /\ j + 1 \in 1..N
        BY <1>1
      <4> QED
        BY <1>1, <2>3, <2>6, <3>2, <4>1
    <3> QED
      BY <3>1, <3>5, <3>6 DEF IsInjective
  <2> QED
    BY <2>6, <2>7 DEF t
<1> QED
  BY <1>2, <1>3

-----------------------------------------------------------------------------
(***************************************************************************)
(* RemoveUTXO for each input, AddUTXO for each output.                     *)
(***************************************************************************)
Sets == [Address -> Seq(Utxo)]
Transaction ==
  [hash : 0..MaxTx, inputs : Seq(Utxo), sender : Address, outputs : Seq(Output)]

LEMMA Removing ==
  ASSUME NEW set \in Sets, NEW tx \in Transaction
  PROVE  \E f \in [0..Len(tx.inputs) -> Sets] :
            /\ RemoveUTXOs(set, tx) = f[Len(tx.inputs)]
            /\ f[0] = set
            /\ \A n \in 1..Len(tx.inputs) :
                  f[n] = [f[n-1] EXCEPT ![tx.inputs[n].address] =
                             RemoveFirst(@, tx.inputs[n])]
<1> DEFINE N == Len(tx.inputs)
           After(x, n) == [x EXCEPT ![tx.inputs[n].address] = RemoveFirst(@, tx.inputs[n])]
           step == [n \in 1..N |-> [x \in Sets |-> After(x, n)]]
           Does(f) == f = [n \in 0..N |-> IF n = 0 THEN set ELSE After(f[n-1], n)]
           removed == CHOOSE f : Does(f)
<1>1. N \in Nat /\ \A n \in 1..N : tx.inputs[n] \in Utxo
  BY LenProperties, ElementOfSeq DEF Transaction
<1>2. RemoveUTXOs(set, tx) = removed[N]
  BY DEF RemoveUTXOs
<1>3. ASSUME NEW x \in Sets, NEW n \in 1..N
      PROVE  After(x, n) \in Sets
  <2>1. \A a \in Address : RemoveFirst(x[a], tx.inputs[n]) \in Seq(Utxo)
    BY RemovedFirst DEF Sets
  <2> QED
    BY <2>1 DEF Sets
<1>4. step \in [1..N -> [Sets -> Sets]]
  BY <1>3
<1> HIDE DEF N, After
<1>5. PICK f \in [0..N -> Sets] : f[0] = set /\ \A n \in 1..N : f[n] = step[n][f[n-1]]
  <2> HIDE DEF step
  <2>1. Iterations(N, Sets, set, step) # {}
    BY <1>1, <1>4, Iterated
  <2> QED
    BY <2>1 DEF Iterations
<1>6. Does(f)
  <2>1. ASSUME NEW n \in 1..N
        PROVE  f[n] = After(f[n-1], n)
    <3>1. n - 1 \in 0..N
      BY <1>1
    <3>2. f[n-1] \in Sets
      BY <1>5, <3>1
    <3>3. step[n][f[n-1]] = After(f[n-1], n)
      BY <3>2
    <3> QED
      BY <1>5, <3>3
  <2>2. \A n \in 0..N : f[n] = IF n = 0 THEN set ELSE After(f[n-1], n)
    BY <1>1, <1>5, <2>1
  <2> QED
    BY <2>2
<1>7. Does(removed)
  <2> HIDE DEF Does
  <2> QED
    BY <1>6
<1> HIDE DEF removed
<1>8. removed[0] = set /\ \A n \in 1..N : removed[n] = After(removed[n-1], n)
  <2>1. \A n \in 0..N : removed[n] = IF n = 0 THEN set ELSE After(removed[n-1], n)
    BY <1>7
  <2> QED
    BY <1>1, <2>1
<1>9. \A n \in 0..N : removed[n] \in Sets
  <2> DEFINE T == {n \in 0..N : removed[n] \in Sets}
  <2>1. ASSUME NEW n \in 1..N, n - 1 \in T
        PROVE  n \in T
    BY <1>1, <1>3, <1>8, <2>1
  <2>2. 0 \in T
    BY <1>1, <1>8
  <2> HIDE DEF T
  <2>3. 0..N \subseteq T
    BY <1>1, <2>1, <2>2, UpTo
  <2> QED
    BY <2>3 DEF T
<1>10. removed \in [0..N -> Sets]
  BY <1>7, <1>9
<1> QED
  BY <1>2, <1>8, <1>10 DEF N, After

(* What RemoveUTXOs leaves, when the sender owns what it spends.           *)
LEMMA RemovedAll ==
  ASSUME NEW set \in Sets, NEW tx \in Transaction,
         \A i \in 1..Len(tx.inputs) : tx.inputs[i].address = tx.sender,
         IsInjective(set[tx.sender])
  PROVE  /\ RemoveUTXOs(set, tx) \in Sets
         /\ \A a \in Address : a # tx.sender => RemoveUTXOs(set, tx)[a] = set[a]
         /\ IsInjective(RemoveUTXOs(set, tx)[tx.sender])
         /\ ToSet(RemoveUTXOs(set, tx)[tx.sender]) = ToSet(set[tx.sender]) \ InputsOf(tx)
<1> DEFINE N == Len(tx.inputs)
           s == tx.sender
           First(n) == {tx.inputs[i] : i \in 1..n}
<1>1. /\ N \in Nat /\ DOMAIN tx.inputs = 1..N
      /\ \A n \in 1..N : tx.inputs[n] \in Utxo
      /\ s \in Address
  BY LenProperties, ElementOfSeq DEF Transaction
<1>2. PICK f \in [0..N -> Sets] :
            /\ RemoveUTXOs(set, tx) = f[N]
            /\ f[0] = set
            /\ \A n \in 1..N :
                  f[n] = [f[n-1] EXCEPT ![tx.inputs[n].address] =
                             RemoveFirst(@, tx.inputs[n])]
  BY Removing
<1> DEFINE Holds(n) == /\ \A a \in Address : a # s => f[n][a] = set[a]
                       /\ IsInjective(f[n][s])
                       /\ ToSet(f[n][s]) = ToSet(set[s]) \ First(n)
           T == {n \in 0..N : Holds(n)}
<1> HIDE DEF N
<1>3. 0 \in T
  BY <1>1, <1>2
<1>4. ASSUME NEW n \in 1..N, n - 1 \in T
      PROVE  n \in T
  <2>1. n - 1 \in 0..N /\ n \in 0..N /\ Holds(n - 1)
    BY <1>4
  <2>2. f[n-1] \in Sets /\ f[n-1][s] \in Seq(Utxo)
    BY <1>1, <1>2, <2>1 DEF Sets
  <2>3. f[n] = [f[n-1] EXCEPT ![s] = RemoveFirst(@, tx.inputs[n])]
    BY <1>2 DEF N
  <2>4. /\ f[n][s] = RemoveFirst(f[n-1][s], tx.inputs[n])
        /\ \A a \in Address : a # s => f[n][a] = f[n-1][a]
    BY <1>1, <2>2, <2>3 DEF Sets
  <2>5. /\ IsInjective(f[n][s])
        /\ ToSet(f[n][s]) = ToSet(f[n-1][s]) \ {tx.inputs[n]}
    BY <2>1, <2>2, <2>4, RemovedFirst
  <2>6. First(n) = First(n - 1) \cup {tx.inputs[n]}
    <3>1. 1..n = (1..n-1) \cup {n}
      BY <1>1
    <3> QED
      BY <3>1
  <2>7. ToSet(f[n][s]) = ToSet(set[s]) \ First(n)
    BY <2>1, <2>5, <2>6
  <2>8. \A a \in Address : a # s => f[n][a] = set[a]
    BY <2>1, <2>4
  <2> QED
    BY <2>1, <2>5, <2>7, <2>8
<1>5. N \in T
  <2> HIDE DEF T
  <2>1. 0..N \subseteq T
    BY <1>1, <1>3, <1>4, UpTo
  <2> QED
    BY <1>1, <2>1
<1>6. First(N) = InputsOf(tx)
  BY <1>1 DEF InputsOf, ToSet
<1> QED
  BY <1>1, <1>2, <1>5, <1>6

LEMMA Stamped ==
  ASSUME NEW tx \in Transaction, NEW n \in 1..Len(tx.outputs)
  PROVE  /\ GetUTXO(tx, n) \in Utxo
         /\ GetUTXO(tx, n).tx = tx.hash
         /\ GetUTXO(tx, n).index = tx.outputs[n].index
         /\ GetUTXO(tx, n).address = tx.outputs[n].address
<1>1. tx.outputs[n] \in Output
  BY ElementOfSeq DEF Transaction
<1> QED
  BY <1>1 DEF GetUTXO, Output, Utxo, Transaction

LEMMA Adding ==
  ASSUME NEW set \in Sets, NEW tx \in Transaction
  PROVE  \E f \in [0..Len(tx.outputs) -> Sets] :
            /\ AddUTXOs(set, tx) = f[Len(tx.outputs)]
            /\ f[0] = set
            /\ \A n \in 1..Len(tx.outputs) :
                  f[n] = [f[n-1] EXCEPT ![tx.outputs[n].address] =
                             Append(@, GetUTXO(tx, n))]
<1> DEFINE N == Len(tx.outputs)
           After(x, n) == [x EXCEPT ![tx.outputs[n].address] = Append(@, GetUTXO(tx, n))]
           step == [n \in 1..N |-> [x \in Sets |-> After(x, n)]]
           Does(f) == f = [n \in 0..N |-> IF n = 0 THEN set ELSE After(f[n-1], n)]
           added == CHOOSE f : Does(f)
<1>1. N \in Nat /\ \A n \in 1..N : GetUTXO(tx, n) \in Utxo
  BY LenProperties, Stamped DEF Transaction
<1>2. AddUTXOs(set, tx) = added[N]
  BY DEF AddUTXOs
<1>3. ASSUME NEW x \in Sets, NEW n \in 1..N
      PROVE  After(x, n) \in Sets
  <2>1. \A a \in Address : Append(x[a], GetUTXO(tx, n)) \in Seq(Utxo)
    BY <1>1, AppendProperties DEF Sets
  <2> QED
    BY <2>1 DEF Sets
<1>4. step \in [1..N -> [Sets -> Sets]]
  BY <1>3
<1> HIDE DEF N, After
<1>5. PICK f \in [0..N -> Sets] : f[0] = set /\ \A n \in 1..N : f[n] = step[n][f[n-1]]
  <2> HIDE DEF step
  <2>1. Iterations(N, Sets, set, step) # {}
    BY <1>1, <1>4, Iterated
  <2> QED
    BY <2>1 DEF Iterations
<1>6. Does(f)
  <2>1. ASSUME NEW n \in 1..N
        PROVE  f[n] = After(f[n-1], n)
    <3>1. n - 1 \in 0..N
      BY <1>1
    <3>2. f[n-1] \in Sets
      BY <1>5, <3>1
    <3>3. step[n][f[n-1]] = After(f[n-1], n)
      BY <3>2
    <3> QED
      BY <1>5, <3>3
  <2>2. \A n \in 0..N : f[n] = IF n = 0 THEN set ELSE After(f[n-1], n)
    BY <1>1, <1>5, <2>1
  <2> QED
    BY <2>2
<1>7. Does(added)
  <2> HIDE DEF Does
  <2> QED
    BY <1>6
<1> HIDE DEF added
<1>8. added[0] = set /\ \A n \in 1..N : added[n] = After(added[n-1], n)
  <2>1. \A n \in 0..N : added[n] = IF n = 0 THEN set ELSE After(added[n-1], n)
    BY <1>7
  <2> QED
    BY <1>1, <2>1
<1>9. \A n \in 0..N : added[n] \in Sets
  <2> DEFINE T == {n \in 0..N : added[n] \in Sets}
  <2>1. ASSUME NEW n \in 1..N, n - 1 \in T
        PROVE  n \in T
    BY <1>1, <1>3, <1>8, <2>1
  <2>2. 0 \in T
    BY <1>1, <1>8
  <2> HIDE DEF T
  <2>3. 0..N \subseteq T
    BY <1>1, <2>1, <2>2, UpTo
  <2> QED
    BY <2>3 DEF T
<1>10. added \in [0..N -> Sets]
  BY <1>7, <1>9
<1> QED
  BY <1>2, <1>8, <1>10 DEF N, After

(* What AddUTXOs leaves, when no output is in a list already.              *)
LEMMA AddedAll ==
  ASSUME NEW set \in Sets, NEW tx \in Transaction,
         \A i \in 1..Len(tx.outputs) : tx.outputs[i].index = i - 1,
         \A a \in Address : IsInjective(set[a]) /\ \A u \in ToSet(set[a]) : u.tx # tx.hash
  PROVE  /\ AddUTXOs(set, tx) \in Sets
         /\ \A a \in Address :
              /\ IsInjective(AddUTXOs(set, tx)[a])
              /\ ToSet(AddUTXOs(set, tx)[a]) =
                   ToSet(set[a]) \cup {u \in OutputsOf(tx) : u.address = a}
<1> DEFINE N == Len(tx.outputs)
           First(n, a) == {u \in {GetUTXO(tx, i) : i \in 1..n} : u.address = a}
<1>1. N \in Nat /\ DOMAIN tx.outputs = 1..N
  BY LenProperties DEF Transaction
<1>2. PICK f \in [0..N -> Sets] :
            /\ AddUTXOs(set, tx) = f[N]
            /\ f[0] = set
            /\ \A n \in 1..N :
                  f[n] = [f[n-1] EXCEPT ![tx.outputs[n].address] =
                             Append(@, GetUTXO(tx, n))]
  BY Adding
<1>3. \A n \in 1..N : /\ GetUTXO(tx, n) \in Utxo
                      /\ GetUTXO(tx, n).tx = tx.hash
                      /\ GetUTXO(tx, n).index = n - 1
                      /\ GetUTXO(tx, n).address = tx.outputs[n].address
  BY Stamped
<1>4. \A n \in 1..N : tx.outputs[n].address \in Address
  <2>1. \A n \in 1..N : tx.outputs[n] \in Output
    BY ElementOfSeq DEF Transaction
  <2> QED
    BY <2>1 DEF Output
<1> DEFINE Holds(n) == \A a \in Address : /\ IsInjective(f[n][a])
                                          /\ ToSet(f[n][a]) = ToSet(set[a]) \cup First(n, a)
           T == {n \in 0..N : Holds(n)}
<1> HIDE DEF N
<1>5. 0 \in T
  <2>1. \A a \in Address : First(0, a) = {}
    OBVIOUS
  <2> HIDE DEF First
  <2> QED
    BY <1>1, <1>2, <2>1
<1>6. ASSUME NEW n \in 1..N, n - 1 \in T
      PROVE  n \in T
  <2> DEFINE u == GetUTXO(tx, n)
             b == tx.outputs[n].address
  <2>1. n - 1 \in 0..N /\ n \in 0..N /\ Holds(n - 1)
    BY <1>6
  <2>2. f[n-1] \in Sets /\ b \in Address /\ u \in Utxo /\ u.address = b
    BY <1>2, <1>3, <1>4, <2>1
  <2>3. f[n] = [f[n-1] EXCEPT ![b] = Append(@, u)]
    BY <1>2
  <2>4. u \notin ToSet(f[n-1][b])
    <3>1. u \notin ToSet(set[b])
      BY <1>3, <2>2
    <3>2. u \notin First(n - 1, b)
      <4>1. \A i \in 1..n - 1 : i \in 1..N /\ i - 1 # n - 1
        BY <1>1
      <4> QED
        BY <1>3, <4>1
    <3> QED
      BY <2>1, <2>2, <3>1, <3>2
  <2>5. \A a \in Address : First(n, a) = IF a = b THEN First(n - 1, a) \cup {u}
                                                  ELSE First(n - 1, a)
    <3>1. 1..n = (1..n-1) \cup {n}
      BY <1>1
    <3>2. {GetUTXO(tx, i) : i \in 1..n} = {GetUTXO(tx, i) : i \in 1..n-1} \cup {u}
      BY <3>1
    <3> QED
      BY <2>2, <3>2
  <2> HIDE DEF u, b, First
  <2>6. ASSUME NEW a \in Address
        PROVE  IsInjective(f[n][a]) /\ ToSet(f[n][a]) = ToSet(set[a]) \cup First(n, a)
    <3>1. CASE a = b
      <4>1. f[n][a] = Append(f[n-1][a], u) /\ f[n-1][a] \in Seq(Utxo)
        BY <2>2, <2>3, <3>1 DEF Sets
      <4>2. /\ ToSet(f[n][a]) = ToSet(f[n-1][a]) \cup {u}
            /\ IsInjective(f[n][a])
        BY <2>1, <2>2, <2>4, <3>1, <4>1, Appended
      <4> QED
        BY <2>1, <2>5, <3>1, <4>2
    <3>2. CASE a # b
      <4>1. f[n][a] = f[n-1][a]
        BY <2>2, <2>3, <3>2 DEF Sets
      <4> QED
        BY <2>1, <2>5, <3>2, <4>1
    <3> QED
      BY <3>1, <3>2
  <2> QED
    BY <2>1, <2>6
<1>7. N \in T
  <2> HIDE DEF T
  <2>1. 0..N \subseteq T
    BY <1>1, <1>5, <1>6, UpTo
  <2> QED
    BY <1>1, <2>1
<1>8. \A a \in Address : First(N, a) = {u \in OutputsOf(tx) : u.address = a}
  BY <1>1 DEF OutputsOf
<1>9. Holds(N)
  BY <1>7
<1>10. AddUTXOs(set, tx) = f[N] /\ f[N] \in Sets
  BY <1>1, <1>2
<1> HIDE DEF First
<1> QED
  BY <1>8, <1>9, <1>10

(* The whole of AddTransaction, for a transaction that spends outputs of   *)
(* its sender and makes new ones.                                          *)
LEMMA Applied ==
  ASSUME NEW set \in Sets, NEW tx \in Transaction,
         \A i \in 1..Len(tx.inputs) : tx.inputs[i].address = tx.sender,
         \A i \in 1..Len(tx.outputs) : tx.outputs[i].index = i - 1,
         \A a \in Address : IsInjective(set[a]) /\ \A u \in ToSet(set[a]) : u.tx # tx.hash
  PROVE  /\ AddTransaction(set, tx) \in Sets
         /\ \A a \in Address :
              /\ IsInjective(AddTransaction(set, tx)[a])
              /\ ToSet(AddTransaction(set, tx)[a]) =
                   (ToSet(set[a]) \ {u \in InputsOf(tx) : u.address = a})
                      \cup {u \in OutputsOf(tx) : u.address = a}
<1> DEFINE less == RemoveUTXOs(set, tx)
<1>1. tx.sender \in Address
  BY DEF Transaction
<1>2. /\ less \in Sets
      /\ \A a \in Address : a # tx.sender => less[a] = set[a]
      /\ IsInjective(less[tx.sender])
      /\ ToSet(less[tx.sender]) = ToSet(set[tx.sender]) \ InputsOf(tx)
  BY <1>1, RemovedAll
<1> HIDE DEF less
<1>3. \A u \in InputsOf(tx) : u.address = tx.sender
  <2>1. DOMAIN tx.inputs = 1..Len(tx.inputs)
    BY LenProperties DEF Transaction
  <2> QED
    BY <2>1 DEF InputsOf, ToSet
<1>4. \A a \in Address :
         /\ IsInjective(less[a])
         /\ ToSet(less[a]) = ToSet(set[a]) \ {u \in InputsOf(tx) : u.address = a}
  <2> TAKE a \in Address
  <2>1. CASE a = tx.sender
    BY <1>2, <1>3, <2>1
  <2>2. CASE a # tx.sender
    <3>1. {u \in InputsOf(tx) : u.address = a} = {}
      BY <1>3, <2>2
    <3> QED
      BY <1>2, <2>2, <3>1
  <2> QED
    BY <2>1, <2>2
<1>5. \A a \in Address : IsInjective(less[a]) /\ \A u \in ToSet(less[a]) : u.tx # tx.hash
  BY <1>4
<1>6. /\ AddUTXOs(less, tx) \in Sets
      /\ \A a \in Address :
           /\ IsInjective(AddUTXOs(less, tx)[a])
           /\ ToSet(AddUTXOs(less, tx)[a]) =
                ToSet(less[a]) \cup {u \in OutputsOf(tx) : u.address = a}
  BY <1>2, <1>5, AddedAll
<1>7. AddTransaction(set, tx) = AddUTXOs(less, tx)
  BY DEF AddTransaction, less
<1> QED
  BY <1>4, <1>6, <1>7

-----------------------------------------------------------------------------
(***************************************************************************)
(* Choosing outputs and making a transaction of them.                      *)
(***************************************************************************)
LEMMA ListAmounts ==
  /\ \A list \in Seq(Utxo) : Amounts(list)
  /\ \A list \in Seq(Output) : Amounts(list)
<1>1. ASSUME NEW list \in Seq(Utxo)
      PROVE  Amounts(list)
  <2>1. Len(list) \in Nat /\ \A i \in 1..Len(list) : list[i] \in Utxo
    BY LenProperties, ElementOfSeq
  <2> QED
    BY <2>1 DEF Amounts, Utxo
<1>2. ASSUME NEW list \in Seq(Output)
      PROVE  Amounts(list)
  <2>1. Len(list) \in Nat /\ \A i \in 1..Len(list) : list[i] \in Output
    BY LenProperties, ElementOfSeq
  <2> QED
    BY <2>1 DEF Amounts, Output
<1> QED
  BY <1>1, <1>2

Funded(a, amount) ==
  /\ utxoSet \in Sets
  /\ \A u \in ToSet(utxoSet[a]) : u.address = a
  /\ Balance(a) >= amount

LEMMA Chosen ==
  ASSUME NEW a \in Address, NEW amount \in Amount, Funded(a, amount)
  PROVE  /\ GetUTXOs(a, amount) \in Seq(Utxo)
         /\ ToSet(GetUTXOs(a, amount)) \subseteq ToSet(utxoSet[a])
         /\ Total(GetUTXOs(a, amount)) \in Nat
         /\ Total(GetUTXOs(a, amount)) >= amount
         /\ IsInjective(utxoSet[a]) => IsInjective(GetUTXOs(a, amount))
<1> DEFINE N == Len(utxoSet[a])
           E == Enough(a, amount)
           k == Min(E)
           list == FirstOf(a, k)
<1>1. /\ utxoSet[a] \in Seq(Utxo)
      /\ N \in Nat /\ DOMAIN utxoSet[a] = 1..N
      /\ \A i \in 1..N : utxoSet[a][i] \in Utxo
  <2>1. utxoSet[a] \in Seq(Utxo)
    BY DEF Funded, Sets
  <2> QED
    BY <2>1, LenProperties, ElementOfSeq
<1>2. N \in E
  <2>1. FirstOf(a, N) = utxoSet[a]
    BY <1>1, SubSeqFull DEF FirstOf
  <2> QED
    BY <1>1, <2>1 DEF Enough, Funded, Balance
<1>3. k \in E
  <2>1. E \subseteq Nat
    BY DEF Enough
  <2> HIDE DEF E
  <2> QED
    BY <1>2, <2>1, MinFacts
<1>4. k \in 0..N /\ Total(list) >= amount
  BY <1>3 DEF Enough
<1>5. GetUTXOs(a, amount) = list
  BY DEF GetUTXOs
<1> HIDE DEF E, k
<1>6. /\ list \in Seq(Utxo)
      /\ Len(list) = k
      /\ \A i \in 1..k : list[i] = utxoSet[a][i]
  <2>1. 1 \in Int /\ k \in Int /\ \A i \in 1..k : utxoSet[a][i] \in Utxo
    BY <1>1, <1>4
  <2>2. /\ list \in Seq(Utxo)
        /\ Len(list) = IF 1 <= k THEN k-1+1 ELSE 0
        /\ \A i \in 1..k-1+1 : list[i] = utxoSet[a][1+i-1]
    BY <2>1, SubSeqProperties DEF FirstOf
  <2> QED
    BY <1>1, <1>4, <2>2
<1>7. ToSet(list) \subseteq ToSet(utxoSet[a])
  <2>1. DOMAIN list = 1..k
    BY <1>6, LenProperties
  <2>2. \A i \in 1..k : i \in 1..N
    BY <1>1, <1>4
  <2> QED
    BY <1>1, <1>6, <2>1, <2>2 DEF ToSet
<1>8. Total(list) \in Nat
  BY <1>6, ListAmounts, TotalFacts
<1>9. IsInjective(utxoSet[a]) => IsInjective(list)
  <2>1. DOMAIN list = 1..k /\ \A i \in 1..k : i \in 1..N
    BY <1>1, <1>4, <1>6, LenProperties
  <2> QED
    BY <1>1, <1>6, <2>1 DEF IsInjective
<1> QED
  BY <1>4, <1>5, <1>6, <1>7, <1>8, <1>9

LEMMA Paid ==
  ASSUME NEW s \in Address, NEW r \in Address, NEW n \in Amount, Funded(s, n)
  PROVE  LET tx == NewTransaction(GetUTXOs(s, n), s, r, n)
         IN  /\ tx \in Transaction
             /\ tx.inputs = GetUTXOs(s, n) /\ tx.sender = s
             /\ Len(tx.outputs) > 0 /\ tx.outputs[1].amount = n
             /\ VerifyContent(tx)
<1> DEFINE inputs == GetUTXOs(s, n)
           left == Total(inputs) - n
           pay == [index |-> 0, amount |-> n, address |-> r]
           back == [index |-> 1, amount |-> left, address |-> s]
           change == IF left > 0 THEN <<back>> ELSE <<>>
           tx == NewTransaction(inputs, s, r, n)
           outs == tx.outputs
<1>1. /\ inputs \in Seq(Utxo)
      /\ ToSet(inputs) \subseteq ToSet(utxoSet[s])
      /\ Total(inputs) \in Nat
      /\ Total(inputs) >= n
  BY Chosen
<1> HIDE DEF inputs
<1>2. n \in Nat \ {0}
  BY WalletAssumption
<1>3. tx = [hash |-> 0, inputs |-> inputs, sender |-> s, outputs |-> <<pay>> \o change]
  BY DEF NewTransaction
<1>4. outs = <<pay>> \o change
  BY <1>3
<1>5. left \in Nat /\ pay \in Output /\ (left > 0 => back \in Output)
  BY <1>1, <1>2 DEF Output
<1>6. /\ outs \in Seq(Output)
      /\ \/ left = 0 /\ Len(outs) = 1 /\ outs[1] = pay
         \/ left > 0 /\ Len(outs) = 2 /\ outs[1] = pay /\ outs[2] = back
  <2> HIDE DEF outs, pay, back, left, tx
  <2>1. CASE left > 0
    <3>1. <<pay>> \in Seq(Output) /\ <<back>> \in Seq(Output)
      BY <1>5, <2>1
    <3>2. outs = <<pay>> \o <<back>>
      BY <1>4, <2>1
    <3> DEFINE p == <<pay>>
               q == <<back>>
    <3>3. Len(p) = 1 /\ Len(q) = 1 /\ p[1] = pay /\ q[1] = back
      OBVIOUS
    <3>4. /\ p \o q \in Seq(Output)
          /\ Len(p \o q) = Len(p) + Len(q)
          /\ \A i \in 1..Len(p) + Len(q) :
                (p \o q)[i] = IF i <= Len(p) THEN p[i] ELSE q[i - Len(p)]
      <4> HIDE DEF p, q
      <4> QED
        BY <3>1, ConcatProperties DEF p, q
    <3>5. outs = p \o q
      BY <3>2
    <3> HIDE DEF p, q
    <3> QED
      BY <2>1, <3>3, <3>4, <3>5
  <2>2. CASE left = 0
    <3>1. <<pay>> \in Seq(Output)
      BY <1>5
    <3>2. outs = <<pay>> \o <<>>
      BY <1>4, <2>2
    <3>3. outs = <<pay>>
      BY <3>1, <3>2, ConcatEmptySeq
    <3> QED
      BY <3>1, <3>3, <2>2
  <2> QED
    BY <1>5, <2>1, <2>2
<1>7. tx \in Transaction
  <2>1. 0 \in 0..MaxTx
    BY WalletAssumption
  <2> QED
    BY <1>1, <1>3, <1>4, <1>6, <2>1 DEF Transaction
<1>8. \A i \in DOMAIN inputs : inputs[i].amount > 0 /\ inputs[i].address = s
  <2>1. \A i \in DOMAIN inputs : inputs[i] \in Utxo
    BY <1>1, LenProperties, ElementOfSeq
  <2>2. \A i \in DOMAIN inputs : inputs[i] \in ToSet(utxoSet[s])
    BY <1>1 DEF ToSet
  <2> QED
    BY <2>1, <2>2 DEF Utxo, Funded
<1>9. Total(outs) = Total(inputs)
  <2>1. /\ Len(outs) = 1 => Total(outs) = outs[1].amount
        /\ Len(outs) = 2 => Total(outs) = outs[1].amount + outs[2].amount
    BY <1>6, ListAmounts, TotalFacts
  <2> HIDE DEF outs, tx
  <2> QED
    BY <1>1, <1>2, <1>6, <2>1
<1>10. DOMAIN outs = 1..Len(outs)
  BY <1>6, LenProperties
<1>11. /\ tx.inputs = inputs /\ tx.sender = s
  BY <1>3
<1> HIDE DEF tx
<1>12. VerifyContent(tx)
  <2>1. Len(outs) <= 2 /\ (Len(outs) > 1 => outs[2].address = s)
    <3>1. back.address = s
      OBVIOUS
    <3> HIDE DEF outs, back, pay, left
    <3>2. CASE Len(outs) = 1
      BY <3>2
    <3>3. CASE Len(outs) = 2 /\ outs[2] = back
      <4>1. outs[2].address = s
        BY <3>1, <3>3, Zenon
      <4> QED
        BY <3>3, <4>1
    <3> QED
      BY <1>6, <3>2, <3>3
  <2>2. \A i \in DOMAIN outs : outs[i].amount > 0 /\ outs[i].index = i - 1
    BY <1>2, <1>6, <1>10
  <2> HIDE DEF outs
  <2> QED
    BY <1>8, <1>9, <1>11, <2>1, <2>2 DEF VerifyContent, outs
<1>13. Len(outs) > 0 /\ outs[1].amount = n
  <2>1. pay.amount = n
    OBVIOUS
  <2> HIDE DEF outs, pay
  <2> QED
    BY <1>6, <2>1
<1> QED
  BY <1>7, <1>11, <1>12, <1>13 DEF tx, inputs

-----------------------------------------------------------------------------
(***************************************************************************)
(* The invariant.  A transaction spends outputs that are older than it;    *)
(* the one on its way is the newest, and what it spends is still listed.   *)
(***************************************************************************)
Record == [tx : Transaction, at : {"sent", "pool", "applied", "lost"},
           heard : {"waiting", "answered", "gaveup"}]

WellMade(h) ==
  /\ Tx(h) \in Transaction
  /\ Tx(h).hash = h
  /\ VerifyContent(Tx(h))
  /\ \A u \in InputsOf(Tx(h)) : u.tx < h

OnItsWay(h) ==
  /\ h = Len(made)
  /\ InputsOf(Tx(h)) \subseteq ToSet(utxoSet[Tx(h).sender])

Inv ==
  /\ todo \subseteq Key
  /\ utxoSet \in Sets
  /\ made \in Seq(Record) /\ Len(made) <= MaxTx
  /\ \A h \in Made : WellMade(h)
  /\ \A h \in Heard("waiting") : OnItsWay(h)
  /\ WalletReplays
  /\ ConflictsGivenUp

LEMMA MadeFacts ==
  ASSUME Inv
  PROVE  /\ Len(made) \in Nat /\ Made = 1..Len(made)
         /\ \A h \in Made : /\ made[h] \in Record
                            /\ Tx(h) = made[h].tx
                            /\ made[h].at \in {"sent", "pool", "applied", "lost"}
                            /\ made[h].heard \in {"waiting", "answered", "gaveup"}
<1>1. Len(made) \in Nat /\ Made = 1..Len(made)
  BY LenProperties DEF Inv, Made
<1>2. \A h \in Made : made[h] \in Record
  BY <1>1, ElementOfSeq DEF Inv
<1> QED
  BY <1>1, <1>2 DEF Record, Tx

(* What the shape of a transaction says, without DOMAIN.                   *)
LEMMA Content ==
  ASSUME NEW tx \in Transaction, VerifyContent(tx)
  PROVE  /\ \A i \in 1..Len(tx.inputs) : tx.inputs[i].address = tx.sender
         /\ \A i \in 1..Len(tx.outputs) : tx.outputs[i].index = i - 1
         /\ \A u \in InputsOf(tx) : u.address = tx.sender
         /\ \A u \in OutputsOf(tx) : u.tx = tx.hash
<1>1. DOMAIN tx.inputs = 1..Len(tx.inputs) /\ DOMAIN tx.outputs = 1..Len(tx.outputs)
  BY LenProperties DEF Transaction
<1>2. \A i \in 1..Len(tx.outputs) : GetUTXO(tx, i).tx = tx.hash
  BY Stamped
<1> QED
  BY <1>1, <1>2 DEF VerifyContent, InputsOf, OutputsOf, ToSet

LEMMA GivenFacts ==
  /\ \A a \in Address : /\ Loaded(a) \in Seq(Utxo)
                        /\ IsInjective(Loaded(a))
                        /\ ToSet(Loaded(a)) = {u \in Given : u.address = a}
  /\ \A u \in Given : u.tx = 0
<1>1. ASSUME NEW a \in Address
      PROVE  /\ Loaded(a) \in Seq(Utxo)
             /\ IsInjective(Loaded(a))
             /\ \A u \in ToSet(Loaded(a)) : u.tx = 0 /\ u.address = a
  <2> DEFINE N == Len(Allotment[a])
             u(i) == [tx |-> 0, index |-> i - 1, amount |-> Allotment[a][i], address |-> a]
             list == Loaded(a)
  <2>1. /\ N \in Nat /\ DOMAIN Allotment[a] = 1..N
        /\ \A i \in 1..N : Allotment[a][i] \in Nat \ {0}
    <3>1. Allotment[a] \in Seq(Nat \ {0})
      BY WalletAssumption
    <3> QED
      BY <3>1, LenProperties, ElementOfSeq
  <2>2. list = [i \in 1..N |-> u(i)]
    BY <2>1 DEF Loaded
  <2> HIDE DEF N, list
  <2>3. \A i \in 1..N : u(i) \in Utxo
    BY <2>1, WalletAssumption DEF Utxo
  <2>4. DOMAIN list = 1..N /\ \A i \in 1..N : list[i] = u(i)
    BY <2>2
  <2>5. list \in [1..N -> Utxo]
    BY <2>2, <2>3
  <2>6. list \in Seq(Utxo)
    BY <2>1, <2>5, SeqDef
  <2>7. \A i \in 1..N : list[i].index = i - 1 /\ list[i].tx = 0 /\ list[i].address = a
    BY <2>4
  <2>8. IsInjective(list)
    BY <2>1, <2>4, <2>7 DEF IsInjective
  <2>9. \A x \in ToSet(list) : x.tx = 0 /\ x.address = a
    BY <2>4, <2>7 DEF ToSet
  <2> QED
    BY <2>6, <2>8, <2>9 DEF list
<1>2. \A u \in Given : u.tx = 0
  BY <1>1 DEF Given
<1>3. \A a \in Address : ToSet(Loaded(a)) = {u \in Given : u.address = a}
  BY <1>1 DEF Given
<1> QED
  BY <1>1, <1>2, <1>3

LEMMA InLeft ==
  ASSUME NEW A, NEW u
  PROVE  u \in Left(A) <=> /\ u \in Given \/ \E h \in A : u \in OutputsOf(Tx(h))
                           /\ \A h \in A : u \notin InputsOf(Tx(h))
BY DEF Left

(* Where an output of the client comes from.                               *)
LEMMA Listed ==
  ASSUME Inv, NEW a \in Address, NEW u \in ToSet(utxoSet[a])
  PROVE  /\ u.address = a
         /\ u.tx = 0 \/ u.tx \in Heard("answered")
         /\ \A g \in Heard("answered") : u \notin InputsOf(Tx(g))
<1>1. u \in Left(Heard("answered")) /\ u.address = a
  BY DEF Inv, WalletReplays
<1>2. /\ u \in Given \/ \E h \in Heard("answered") : u \in OutputsOf(Tx(h))
      /\ \A h \in Heard("answered") : u \notin InputsOf(Tx(h))
  BY <1>1, InLeft
<1>3. ASSUME NEW h \in Heard("answered"), u \in OutputsOf(Tx(h))
      PROVE  u.tx = h
  <2>1. h \in Made
    BY DEF Heard
  <2>2. Tx(h) \in Transaction /\ VerifyContent(Tx(h)) /\ Tx(h).hash = h
    BY <2>1 DEF Inv, WellMade
  <2> QED
    BY <1>3, <2>2, Content
<1> QED
  BY <1>1, <1>2, <1>3, GivenFacts

LEMMA Initially == ASSUME Init PROVE Inv
<1>1. utxoSet = [a \in Address |-> Loaded(a)] /\ made = <<>>
  BY DEF Init
<1>2. Made = {} /\ Len(made) = 0 /\ made \in Seq(Record)
  BY <1>1 DEF Made
<1>3. utxoSet \in Sets
  BY <1>1, GivenFacts DEF Sets
<1>4. Heard("answered") = {} /\ Heard("waiting") = {}
  BY <1>2 DEF Heard
<1>5. Left(Heard("answered")) = Given
  BY <1>4 DEF Left
<1>6. WalletReplays
  BY <1>1, <1>5, GivenFacts DEF WalletReplays
<1> QED
  BY <1>2, <1>3, <1>4, <1>6, WalletAssumption DEF Init, Inv, ConflictsGivenUp

-----------------------------------------------------------------------------
(***************************************************************************)
(* Steps.                                                                  *)
(***************************************************************************)
(* A transaction that moves on, or is given up, changes no output.         *)
LEMMA Kept ==
  ASSUME Inv, todo' \subseteq Key, utxoSet' = utxoSet,
         made' \in Seq(Record), Len(made') = Len(made),
         \A h \in Made : /\ made'[h].tx = made[h].tx
                         /\ made'[h].heard = "answered" <=> made[h].heard = "answered"
                         /\ made'[h].heard = "waiting" => made[h].heard = "waiting"
  PROVE  Inv'
<1>1. Made = 1..Len(made) /\ Made' = 1..Len(made)
  <2>1. DOMAIN made' = 1..Len(made')
    BY LenProperties
  <2> QED
    BY <2>1, MadeFacts DEF Made
<1>2. \A h \in Made : Tx(h)' = Tx(h)
  BY DEF Tx
<1>3. /\ Heard("answered")' = Heard("answered")
      /\ Heard("waiting")' \subseteq Heard("waiting")
  BY <1>1 DEF Heard
<1>4. \A h \in Heard("answered") : h \in Made
  BY DEF Heard
<1>5. Left(Heard("answered"))' = Left(Heard("answered"))
  BY <1>2, <1>3, <1>4 DEF Left
<1>6. (\A h \in Made : WellMade(h))'
  BY <1>1, <1>2 DEF Inv, WellMade
<1>7. (\A h \in Heard("waiting") : OnItsWay(h))'
  <2>1. \A h \in Heard("waiting") : h \in Made
    BY DEF Heard
  <2> QED
    BY <1>2, <1>3, <2>1 DEF Inv, OnItsWay
<1>8. WalletReplays'
  BY <1>5 DEF Inv, WalletReplays
<1>9. ConflictsGivenUp'
  BY <1>2, <1>3, <1>4 DEF Inv, ConflictsGivenUp
<1> QED
  BY <1>6, <1>7, <1>8, <1>9 DEF Inv

LEMMA SentOff ==
  ASSUME Inv, NEW s \in Key, NEW r \in Address, NEW n \in Amount, Send(s, r, n),
         todo' \subseteq Key
  PROVE  Inv'
<1> DEFINE tx == NewTransaction(GetUTXOs(s, n), s, r, n)
<1>a. PICK h : h = Len(made) + 1
  OBVIOUS
<1>b. PICK t : t = [tx EXCEPT !.hash = h]
  OBVIOUS
<1> DEFINE rec == [tx |-> t, at |-> "sent", heard |-> "waiting"]
<1>1. /\ Heard("waiting") = {} /\ Len(made) < MaxTx
      /\ Balance(s) >= n
      /\ made' = Append(made, rec)
      /\ utxoSet' = utxoSet
  BY <1>a, <1>b DEF Send
<1>2. s \in Address
  BY WalletAssumption
<1>3. Funded(s, n)
  BY <1>1, <1>2, Listed DEF Funded, Inv
<1>4. /\ tx \in Transaction
      /\ tx.inputs = GetUTXOs(s, n) /\ tx.sender = s
      /\ VerifyContent(tx)
  BY <1>2, <1>3, Paid
<1>5. ToSet(GetUTXOs(s, n)) \subseteq ToSet(utxoSet[s])
  BY <1>2, <1>3, Chosen
<1> HIDE DEF tx
<1>6. Len(made) \in Nat /\ Made = 1..Len(made) /\ MaxTx \in Nat
  BY MadeFacts, WalletAssumption
<1>7. h \in 0..MaxTx
  BY <1>a, <1>1, <1>6
<1>8. /\ t \in Transaction /\ t.hash = h
      /\ t.inputs = tx.inputs /\ t.sender = s /\ t.outputs = tx.outputs
  BY <1>b, <1>4, <1>7 DEF Transaction
<1>9. VerifyContent(t)
  BY <1>4, <1>8 DEF VerifyContent
<1>10. InputsOf(t) \subseteq ToSet(utxoSet[s])
  BY <1>4, <1>5, <1>8 DEF InputsOf
<1>11. \A u \in InputsOf(t) : u.tx < h
  <2>1. \A u \in InputsOf(t) : u.tx = 0 \/ u.tx \in Heard("answered")
    BY <1>2, <1>10, Listed
  <2>2. \A g \in Heard("answered") : g \in 1..Len(made)
    BY <1>6 DEF Heard
  <2> QED
    BY <1>a, <1>6, <2>1, <2>2
<1>12. rec \in Record
  BY <1>8 DEF Record
<1>13. /\ made' \in Seq(Record) /\ Len(made') = h
       /\ \A g \in Made : made'[g] = made[g]
       /\ made'[h] = rec
       /\ Made' = 1..h
  <2>1. made \in Seq(Record)
    BY DEF Inv
  <2> HIDE DEF rec
  <2>2. /\ made' \in Seq(Record) /\ Len(made') = h
        /\ \A g \in 1..Len(made) : made'[g] = made[g]
        /\ made'[h] = rec
    BY <1>a, <1>1, <1>12, <2>1, AppendProperties
  <2>3. DOMAIN made' = 1..h
    BY <2>2, LenProperties
  <2> QED
    BY <1>6, <2>2, <2>3 DEF Made
<1>14. /\ \A g \in Made : Tx(g)' = Tx(g)
       /\ Tx(h)' = t
  BY <1>13 DEF Tx
<1>15. \A g \in 1..h : g \in Made \/ g = h
  BY <1>a, <1>6
<1>16. h \notin Made
  BY <1>a, <1>6
<1>17. Heard("answered")' = Heard("answered") /\ Heard("waiting")' = {h}
  <2>1. made'[h].heard = "waiting" /\ h \in 1..h
    BY <1>a, <1>6, <1>13
  <2>2. \A g \in Made : g \in 1..h
    BY <1>a, <1>6
  <2> QED
    BY <1>1, <1>13, <1>15, <2>1, <2>2 DEF Heard
<1>18. \A g \in Heard("answered") : g \in Made
  BY DEF Heard
<1>19. Left(Heard("answered"))' = Left(Heard("answered"))
  BY <1>14, <1>17, <1>18 DEF Left
<1>20. (\A g \in Made : WellMade(g))'
  <2>1. WellMade(h)'
    BY <1>8, <1>9, <1>11, <1>14 DEF WellMade
  <2>2. \A g \in Made : WellMade(g)'
    BY <1>14 DEF Inv, WellMade
  <2> QED
    BY <1>13, <1>15, <2>1, <2>2
<1>21. (\A g \in Heard("waiting") : OnItsWay(g))'
  BY <1>1, <1>8, <1>10, <1>13, <1>14, <1>17 DEF OnItsWay
<1>22. WalletReplays'
  BY <1>1, <1>19 DEF Inv, WalletReplays
<1>23. ConflictsGivenUp'
  BY <1>14, <1>17, <1>18 DEF Inv, ConflictsGivenUp
<1>24. Len(made') <= MaxTx
  BY <1>7, <1>13
<1> QED
  BY <1>1, <1>13, <1>20, <1>21, <1>22, <1>23, <1>24 DEF Inv

(* The answer: the outputs spent leave the lists, the new ones join them.  *)
LEMMA Booked ==
  ASSUME Inv, NEW h \in Made, Answered(h)
  PROVE  Inv'
<1> DEFINE tx == Tx(h)
           A == Heard("answered")
<1>1. /\ made[h].heard = "waiting"
      /\ made' = [made EXCEPT ![h].heard = "answered"]
      /\ utxoSet' = IF CheckTransaction(utxoSet, tx)
                    THEN AddTransaction(utxoSet, tx) ELSE utxoSet
  BY DEF Answered
<1>2. /\ tx \in Transaction /\ tx.hash = h /\ VerifyContent(tx)
      /\ \A u \in InputsOf(tx) : u.tx < h
      /\ tx.sender \in Address
  BY DEF Inv, WellMade, Transaction
<1>3. /\ h = Len(made)
      /\ InputsOf(tx) \subseteq ToSet(utxoSet[tx.sender])
  <2>1. h \in Heard("waiting")
    BY <1>1 DEF Heard
  <2> QED
    BY <2>1 DEF Inv, OnItsWay
<1>4. /\ Len(made) \in Nat /\ Made = 1..Len(made)
      /\ \A g \in Made : made[g] \in Record
  BY MadeFacts
<1>5. /\ \A i \in 1..Len(tx.inputs) : tx.inputs[i].address = tx.sender
      /\ \A i \in 1..Len(tx.outputs) : tx.outputs[i].index = i - 1
      /\ \A u \in InputsOf(tx) : u.address = tx.sender
      /\ \A u \in OutputsOf(tx) : u.tx = h
  BY <1>2, Content
<1>6. CheckTransaction(utxoSet, tx)
  BY <1>2, <1>3, <1>5 DEF CheckTransaction
<1>7. \A g \in A : g \in Made /\ g # h
  BY <1>1 DEF Heard
<1>8. \A a \in Address : \A u \in ToSet(utxoSet[a]) : u.tx # h
  <2>1. h # 0
    BY <1>4
  <2> QED
    BY <1>7, <2>1, Listed
<1>9. /\ utxoSet' \in Sets
      /\ \A a \in Address :
           /\ IsInjective(utxoSet'[a])
           /\ ToSet(utxoSet'[a]) =
                (ToSet(utxoSet[a]) \ {u \in InputsOf(tx) : u.address = a})
                   \cup {u \in OutputsOf(tx) : u.address = a}
  <2>1. utxoSet \in Sets /\ \A a \in Address : IsInjective(utxoSet[a])
    BY DEF Inv, WalletReplays
  <2>2. utxoSet' = AddTransaction(utxoSet, tx)
    BY <1>1, <1>6
  <2> HIDE DEF tx
  <2> QED
    BY <1>2, <1>5, <1>8, <2>1, <2>2, Applied
<1>10. made \in Seq(Record)
  BY DEF Inv
<1>11. /\ made' \in Seq(Record) /\ Len(made') = Len(made) /\ Made' = Made
       /\ \A g \in Made : /\ made'[g].tx = made[g].tx
                          /\ made'[g].heard = IF g = h THEN "answered" ELSE made[g].heard
  <2> DEFINE rec == [made[h] EXCEPT !.heard = "answered"]
  <2>1. rec \in Record /\ rec.tx = made[h].tx /\ rec.heard = "answered"
    BY <1>4 DEF Record
  <2>2. made' = [made EXCEPT ![h] = rec]
    BY <1>1
  <2> HIDE DEF rec
  <2>3. /\ made' \in Seq(Record) /\ Len(made') = Len(made)
        /\ \A g \in 1..Len(made) : made'[g] = IF g = h THEN rec ELSE made[g]
    BY <1>4, <1>10, <2>1, <2>2, ExceptSeq
  <2>4. DOMAIN made' = 1..Len(made')
    BY <2>3, LenProperties
  <2> QED
    BY <1>4, <2>1, <2>3, <2>4 DEF Made
<1>12. \A g \in Made : Tx(g)' = Tx(g)
  BY <1>11 DEF Tx
<1>13. Heard("answered")' = A \cup {h} /\ Heard("waiting")' = {}
  <2>1. \A g \in Made : made[g].heard = "waiting" => g = h
    <3>1. \A g \in Made : made[g].heard = "waiting" => g \in Heard("waiting")
      BY DEF Heard
    <3> QED
      BY <1>3, <3>1 DEF Inv, OnItsWay
  <2> QED
    BY <1>11, <2>1 DEF Heard
<1>14. (\A g \in Made : WellMade(g))'
  BY <1>11, <1>12 DEF Inv, WellMade
<1>15. WalletReplays'
  <2>1. ASSUME NEW a \in Address
        PROVE  ToSet(utxoSet'[a]) = {u \in Left(Heard("answered")) : u.address = a}'
    <3>1. \A u : u \in Left(Heard("answered"))' <=>
                    /\ \/ u \in Given \/ \E g \in A : u \in OutputsOf(Tx(g))
                       \/ u \in OutputsOf(tx)
                    /\ \A g \in A : u \notin InputsOf(Tx(g))
                    /\ u \notin InputsOf(tx)
      <4>1. /\ \A g \in Heard("answered")' : OutputsOf(Tx(g))' = OutputsOf(Tx(g))
            /\ \A g \in Heard("answered")' : InputsOf(Tx(g))' = InputsOf(Tx(g))
        BY <1>7, <1>12, <1>13 DEF OutputsOf, InputsOf
      <4>2. \A u : u \in Left(Heard("answered"))' <=>
                     /\ \/ u \in Given
                        \/ \E g \in Heard("answered")' : u \in OutputsOf(Tx(g))
                     /\ \A g \in Heard("answered")' : u \notin InputsOf(Tx(g))
        BY <4>1 DEF Left
      <4> QED
        BY <1>13, <4>2
    <3>2. \A u : u \in ToSet(utxoSet[a]) <=> u \in Left(A) /\ u.address = a
      BY DEF Inv, WalletReplays
    <3>3. \A u : u \in Left(A) <=>
                    /\ u \in Given \/ \E g \in A : u \in OutputsOf(Tx(g))
                    /\ \A g \in A : u \notin InputsOf(Tx(g))
      BY InLeft
    <3>4. \A u \in OutputsOf(tx) :
             u \notin InputsOf(tx) /\ \A g \in A : u \notin InputsOf(Tx(g))
      <4>1. \A g \in A : g \in 1..h /\ \A u \in InputsOf(Tx(g)) : u.tx < g
        BY <1>3, <1>4, <1>7 DEF Inv, WellMade
      <4>2. ASSUME NEW u \in OutputsOf(tx), NEW g \in A, u \in InputsOf(Tx(g))
            PROVE  FALSE
        <5>1. h < g /\ g \in 1..h
          BY <1>5, <4>1, <4>2
        <5> QED
          BY <1>3, <1>4, <5>1
      <4>3. ASSUME NEW u \in OutputsOf(tx), u \in InputsOf(tx)
            PROVE  FALSE
        <5>1. h < h
          BY <1>2, <1>5, <4>3
        <5> QED
          BY <1>3, <1>4, <5>1
      <4> QED
        BY <4>2, <4>3
    <3> HIDE DEF A, tx
    <3>5. \A u : u \in ToSet(utxoSet'[a]) <=>
                    \/ u \in ToSet(utxoSet[a]) /\ u \notin InputsOf(tx)
                    \/ u \in OutputsOf(tx) /\ u.address = a
      <4>1. \A u \in ToSet(utxoSet[a]) : u.address = a
        BY <3>2
      <4> QED
        BY <1>9, <4>1
    <3>6. \A u : u \in ToSet(utxoSet'[a]) <=>
                    u \in Left(Heard("answered"))' /\ u.address = a
      BY <3>1, <3>2, <3>3, <3>4, <3>5
    <3> QED
      BY <3>6
  <2> QED
    BY <1>9, <2>1 DEF WalletReplays
<1>16. ConflictsGivenUp'
  <2>1. ASSUME NEW g \in A
        PROVE  InputsOf(Tx(g)) \cap InputsOf(tx) = {}
    BY <1>2, <1>3, Listed
  <2>2. ASSUME NEW f \in A, NEW g \in A, f # g
        PROVE  InputsOf(Tx(f)) \cap InputsOf(Tx(g)) = {}
    BY <2>2 DEF Inv, ConflictsGivenUp
  <2>3. \A f, g \in A \cup {h} : f # g => InputsOf(Tx(f)) \cap InputsOf(Tx(g)) = {}
    BY <2>1, <2>2
  <2>4. \A g \in A \cup {h} : InputsOf(Tx(g))' = InputsOf(Tx(g))
    BY <1>7, <1>12 DEF InputsOf
  <2> QED
    BY <1>13, <2>3, <2>4 DEF ConflictsGivenUp
<1>17. (\A g \in Heard("waiting") : OnItsWay(g))'
  BY <1>13
<1>18. todo' \subseteq Key
  BY DEF Answered, Inv
<1> QED
  BY <1>18, <1>9, <1>11, <1>14, <1>15, <1>16, <1>17 DEF Inv

LEMMA Elsewhere ==
  ASSUME Inv, NEW h \in Made, Accept(h) \/ GiveUp(h) \/ Apply(h) \/ Lose(h)
  PROVE  Inv'
<1>1. /\ made \in Seq(Record) /\ h \in 1..Len(made) /\ Made = 1..Len(made)
      /\ made[h] \in Record
      /\ \A g \in Made : made[g].heard \in {"waiting", "answered", "gaveup"}
  BY MadeFacts DEF Inv
<1>2. PICK rec : /\ made' = [made EXCEPT ![h] = rec]
                 /\ rec \in Record /\ rec.tx = made[h].tx
                 /\ \/ rec.heard = made[h].heard
                    \/ made[h].heard = "waiting" /\ rec.heard = "gaveup"
  <2>1. CASE Accept(h)
    <3> DEFINE rec == [made[h] EXCEPT !.at = "pool"]
    <3>1. rec \in Record /\ rec.tx = made[h].tx /\ rec.heard = made[h].heard
      BY <1>1 DEF Record
    <3>2. made' = [made EXCEPT ![h] = rec]
      BY <2>1 DEF Accept
    <3> QED
      BY <3>1, <3>2
  <2>2. CASE GiveUp(h)
    <3> DEFINE rec == [made[h] EXCEPT !.heard = "gaveup"]
    <3>1. rec \in Record /\ rec.tx = made[h].tx /\ rec.heard = "gaveup"
      BY <1>1 DEF Record
    <3>2. made' = [made EXCEPT ![h] = rec] /\ made[h].heard = "waiting"
      BY <2>2 DEF GiveUp
    <3> QED
      BY <3>1, <3>2
  <2>3. CASE Apply(h) \/ Lose(h)
    <3>1. PICK place \in {"applied", "lost"} : made' = [made EXCEPT ![h].at = place]
      BY <2>3 DEF Apply, Lose
    <3> DEFINE rec == [made[h] EXCEPT !.at = place]
    <3>2. rec \in Record /\ rec.tx = made[h].tx /\ rec.heard = made[h].heard
      BY <1>1 DEF Record
    <3>3. made' = [made EXCEPT ![h] = rec]
      BY <3>1
    <3> QED
      BY <3>2, <3>3
  <2> QED
    BY <2>1, <2>2, <2>3
<1>3. /\ made' \in Seq(Record) /\ Len(made') = Len(made)
      /\ \A g \in 1..Len(made) : made'[g] = IF g = h THEN rec ELSE made[g]
  BY <1>1, <1>2, ExceptSeq
<1>4. utxoSet' = utxoSet /\ todo' \subseteq Key
  BY DEF Accept, GiveUp, Apply, Lose, Inv
<1>5. \A g \in Made : /\ made'[g].tx = made[g].tx
                      /\ made'[g].heard = "answered" <=> made[g].heard = "answered"
                      /\ made'[g].heard = "waiting" => made[g].heard = "waiting"
  BY <1>1, <1>2, <1>3
<1> QED
  BY <1>3, <1>4, <1>5, Kept

LEMMA Steps == Inv /\ [Next]_vars => Inv'
<1> SUFFICES ASSUME Inv, [Next]_vars PROVE Inv'
  OBVIOUS
<1>1. ASSUME UNCHANGED <<utxoSet, made>>, todo' \subseteq Key
      PROVE  Inv'
  BY <1>1, Kept DEF Inv
<1>2. CASE LoopSends
  <2>1. PICK s \in Key, r \in Key, n \in Amount : Send(s, r, n) /\ todo' \subseteq Key
    BY <1>2 DEF LoopSends, Inv
  <2> QED
    BY <2>1, SentOff, WalletAssumption
<1>3. CASE LoopSkips \/ NextRound \/ UNCHANGED vars
  BY <1>1, <1>3 DEF LoopSkips, NextRound, vars, Inv
<1>4. CASE MenuSends
  <2>1. PICK s \in Key, r \in Address, n \in Amount : Send(s, r, n) /\ todo' \subseteq Key
    BY <1>4 DEF MenuSends, Inv
  <2> QED
    BY <2>1, SentOff
<1>5. ASSUME NEW h \in Made,
             Accept(h) \/ Answered(h) \/ GiveUp(h) \/ Apply(h) \/ Lose(h)
      PROVE  Inv'
  BY <1>5, Booked, Elsewhere
<1> QED
  BY <1>2, <1>3, <1>4, <1>5 DEF Next

LEMMA Always == Spec => []Inv
<1>1. Init => Inv
  BY Initially
<1> QED
  BY <1>1, Steps, PTL DEF Spec

-----------------------------------------------------------------------------
(* The outputs a client keeps are what the transactions it had an answer   *)
(* for leave of the UTXO file, none of them twice, whatever it gave up in  *)
(* between: CheckTransaction and AddTransaction after every answer keep    *)
(* them so.                                                                *)
THEOREM ListsWhatIsLeft == Spec => []WalletReplays
<1>1. Inv => WalletReplays
  BY DEF Inv
<1> QED
  BY <1>1, Always, PTL

(* GetUTXOs chooses from a list nobody removes from while the answer is    *)
(* out, so two answered transactions never spend the same output.          *)
THEOREM ConflictNeedsTimeout == Spec => []ConflictsGivenUp
<1>1. Inv => ConflictsGivenUp
  BY DEF Inv
<1> QED
  BY <1>1, Always, PTL

(* GetUTXOs and NewTransaction make a transaction that VerifyContent and   *)
(* CheckTransaction accept, of any outputs whose sum is enough.            *)
THEOREM FundedPays == Spec => []PaysWhenFunded
<1>1. ASSUME Inv
      PROVE  PaysWhenFunded
  <2> SUFFICES ASSUME NEW s \in Key, NEW r \in Address, NEW n \in Amount, Balance(s) >= n
               PROVE  CheckTransaction(utxoSet, NewTransaction(GetUTXOs(s, n), s, r, n))
    BY DEF PaysWhenFunded
  <2> DEFINE tx == NewTransaction(GetUTXOs(s, n), s, r, n)
  <2>1. s \in Address
    BY WalletAssumption
  <2>2. \A u \in ToSet(utxoSet[s]) : u.address = s
    BY <1>1, <2>1, Listed
  <2>3. Funded(s, n)
    BY <1>1, <2>2 DEF Funded, Inv
  <2>4. tx.inputs = GetUTXOs(s, n) /\ VerifyContent(tx)
    BY <2>1, <2>3, Paid
  <2>5. ToSet(GetUTXOs(s, n)) \subseteq ToSet(utxoSet[s])
    BY <2>1, <2>3, Chosen
  <2> HIDE DEF tx
  <2>6. \A u \in InputsOf(tx) : u \in ToSet(utxoSet[u.address])
    BY <2>2, <2>4, <2>5 DEF InputsOf
  <2> QED
    BY <2>4, <2>6 DEF CheckTransaction, tx
<1>2. Inv => PaysWhenFunded
  BY <1>1
<1> QED
  BY <1>2, Always, PTL

-----------------------------------------------------------------------------
(***************************************************************************)
(* Sums over finite sets of outputs.                                       *)
(***************************************************************************)
(* Induction over finite sets, for a set of sets instead of a predicate.   *)
LEMMA BySize ==
  ASSUME NEW S, IsFiniteSet(S), NEW P,
         \A T \in SUBSET S : (\A x \in T : T \ {x} \in P) => T \in P
  PROVE  SUBSET S \subseteq P
<1> DEFINE Bad == {T \in SUBSET S : T \notin P}
           Sizes == {Cardinality(T) : T \in Bad}
<1> SUFFICES ASSUME Bad # {} PROVE FALSE
  OBVIOUS
<1>1. \A T \in SUBSET S : IsFiniteSet(T) /\ Cardinality(T) \in Nat
  BY FS_Subset, FS_CardinalityType
<1>2. PICK n \in Sizes : \A k \in Sizes : n <= k
  <2>1. Sizes \subseteq Nat /\ Sizes # {}
    BY <1>1
  <2> HIDE DEF Sizes
  <2> QED BY <2>1, LeastNatural
<1>3. PICK T \in Bad : Cardinality(T) = n
  OBVIOUS
<1>4. ASSUME NEW x \in T PROVE T \ {x} \in P
  <2>1. Cardinality(T \ {x}) = Cardinality(T) - 1
    BY <1>1, FS_RemoveElement
  <2>2. Cardinality(T) \in Nat /\ Cardinality(T \ {x}) \in Nat
    BY <1>1
  <2>3. T \ {x} \in Bad => Cardinality(T \ {x}) \in Sizes
    OBVIOUS
  <2>4. T \ {x} \notin Bad
    <3> HIDE DEF Sizes, Bad
    <3> QED BY <1>2, <1>3, <2>1, <2>2, <2>3
  <2> QED BY <2>4
<1> QED BY <1>3, <1>4

(* Folding a finite set S one element after the other, in the order in     *)
(* which pick takes them, is a function on the subsets of S.               *)
Folding(S, V, first, pick, step) ==
  {f \in [SUBSET S -> V] :
     \A T \in SUBSET S :
        f[T] = IF T = {} THEN first ELSE step[pick[T]][f[T \ {pick[T]}]]}

LEMMA Folded ==
  ASSUME NEW S, IsFiniteSet(S), NEW V, NEW first \in V,
         NEW pick, \A T \in SUBSET S : T # {} => pick[T] \in T,
         NEW step \in [S -> [V -> V]]
  PROVE  Folding(S, V, first, pick, step) # {}
<1> DEFINE Small(n) == {T \in SUBSET S : Cardinality(T) <= n}
           Folds(f, T) ==
             f[T] = IF T = {} THEN first ELSE step[pick[T]][f[T \ {pick[T]}]]
           Bad == {n \in Nat : ~ \E f \in [Small(n) -> V] : \A T \in Small(n) : Folds(f, T)}
<1>1. \A T \in SUBSET S : IsFiniteSet(T) /\ Cardinality(T) \in Nat /\ Cardinality(T) <= Cardinality(S)
  BY FS_Subset, FS_CardinalityType
<1>2. ASSUME NEW n \in Nat, NEW T \in Small(n), T # {}
      PROVE  n > 0 /\ pick[T] \in S /\ T \ {pick[T]} \in Small(n - 1)
  <2>1. pick[T] \in T /\ Cardinality(T \ {pick[T]}) = Cardinality(T) - 1
    BY <1>1, <1>2, FS_RemoveElement
  <2>2. Cardinality(T) \in Nat /\ Cardinality(T \ {pick[T]}) \in Nat /\ Cardinality(T) <= n
    BY <1>1
  <2> QED BY <2>1, <2>2
<1>3. Bad = {}
  <2> SUFFICES ASSUME Bad # {} PROVE FALSE
    OBVIOUS
  <2>1. PICK n \in Bad : \A k \in Bad : n <= k
    <3>1. Bad \subseteq Nat
      OBVIOUS
    <3> HIDE DEF Bad
    <3> QED BY <3>1, LeastNatural
  <2>2. CASE n = 0
    <3> DEFINE g == [T \in Small(0) |-> first]
    <3>1. ASSUME NEW T \in Small(0), T # {} PROVE FALSE
      <4> HIDE DEF Small
      <4>1. 0 > 0
        BY <1>2, <3>1
      <4> QED BY <4>1
    <3>2. g \in [Small(0) -> V] /\ \A T \in Small(0) : Folds(g, T)
      BY <3>1
    <3> QED BY <2>2, <3>2
  <2>3. CASE n # 0
    <3>1. n - 1 \in Nat /\ n - 1 \notin Bad
      <4>1. n \in Nat
        OBVIOUS
      <4> HIDE DEF Bad
      <4> QED BY <2>1, <2>3, <4>1
    <3>2. PICK f \in [Small(n - 1) -> V] : \A T \in Small(n - 1) : Folds(f, T)
      BY <3>1
    <3> DEFINE g == [T \in Small(n) |-> IF T = {} THEN first ELSE step[pick[T]][f[T \ {pick[T]}]]]
    <3>3. ASSUME NEW T \in Small(n) PROVE g[T] \in V
      <4> SUFFICES ASSUME T # {} PROVE step[pick[T]][f[T \ {pick[T]}]] \in V
        OBVIOUS
      <4>1. pick[T] \in S /\ f[T \ {pick[T]}] \in V
        BY <1>2, <3>2
      <4>2. step[pick[T]] \in [V -> V]
        BY <4>1
      <4> HIDE DEF Small
      <4> QED BY <4>1, <4>2
    <3>4. \A T \in Small(n - 1) : T \in Small(n) /\ g[T] = f[T]
      <4>1. ASSUME NEW T \in Small(n - 1) PROVE T \in Small(n)
        BY <1>1, <2>3
      <4> QED BY <3>2, <4>1
    <3>5. \A T \in Small(n) : Folds(g, T)
      BY <1>2, <3>4
    <3>6. g \in [Small(n) -> V]
      BY <3>3
    <3> HIDE DEF g
    <3> QED BY <3>5, <3>6
  <2> QED BY <2>2, <2>3
<1>4. Cardinality(S) \in Nat /\ SUBSET S = Small(Cardinality(S))
  BY <1>1, FS_CardinalityType
<1>5. PICK f \in [Small(Cardinality(S)) -> V] : \A T \in Small(Cardinality(S)) : Folds(f, T)
  BY <1>3, <1>4
<1>6. f \in [SUBSET S -> V] /\ \A T \in SUBSET S : Folds(f, T)
  BY <1>4, <1>5
<1> HIDE DEF Small
<1> QED BY <1>6 DEF Folding

Worth(S) == MapThenSumSet(LAMBDA u : u.amount, S)

Picked(S) == CHOOSE u \in S : TRUE

SumsUp(S, f) ==
  f = [s \in SUBSET S |-> IF s = {} THEN 0 ELSE Picked(s).amount + f[s \ {Picked(s)}]]

LEMMA SumIsFold ==
  ASSUME NEW S
  PROVE  Worth(S) = (CHOOSE f : SumsUp(S, f))[S]
BY DEF Worth, MapThenSumSet, MapThenFoldSet, SumsUp, Picked

(* One function has the sums of all subsets of a finite set.               *)
LEMMA SumsOfSubsets ==
  ASSUME NEW S, IsFiniteSet(S), \A u \in S : u.amount \in Nat
  PROVE  \E f \in [SUBSET S -> Nat] :
            /\ f[{}] = 0
            /\ \A T \in SUBSET S : T # {} => f[T] = Picked(T).amount + f[T \ {Picked(T)}]
            /\ \A T \in SUBSET S : Worth(T) = f[T]
<1> DEFINE pick == [T \in SUBSET S |-> Picked(T)]
           step == [u \in S |-> [v \in Nat |-> u.amount + v]]
<1>1. \A T \in SUBSET S : T # {} => Picked(T) \in T
  BY DEF Picked
<1>2. PICK f \in Folding(S, Nat, 0, pick, step) : TRUE
  <2>1. step \in [S -> [Nat -> Nat]]
    OBVIOUS
  <2>2. \A T \in SUBSET S : T # {} => pick[T] \in T
    BY <1>1
  <2> HIDE DEF step, pick
  <2> QED
    BY <2>1, <2>2, Folded
<1>3. f \in [SUBSET S -> Nat] /\ f[{}] = 0
  BY <1>2 DEF Folding
<1>4. \A T \in SUBSET S : T # {} => f[T] = Picked(T).amount + f[T \ {Picked(T)}]
  <2> SUFFICES ASSUME NEW T \in SUBSET S, T # {}
               PROVE  f[T] = Picked(T).amount + f[T \ {Picked(T)}]
    OBVIOUS
  <2>1. f[T] = step[pick[T]][f[T \ {pick[T]}]]
    BY <1>2 DEF Folding
  <2>2. pick[T] = Picked(T) /\ Picked(T) \in S /\ f[T \ {Picked(T)}] \in Nat
    BY <1>1, <1>3
  <2> QED
    BY <2>1, <2>2
<1>5. ASSUME NEW T \in SUBSET S
      PROVE  Worth(T) = f[T]
  <2> DEFINE g == [U \in SUBSET T |-> f[U]]
             h == CHOOSE e : SumsUp(T, e)
             P == {U \in SUBSET T : h[U] = f[U]}
  <2>1. SumsUp(T, g)
    <3>1. \A U \in SUBSET T :
             g[U] = IF U = {} THEN 0 ELSE Picked(U).amount + g[U \ {Picked(U)}]
      BY <1>3, <1>4
    <3> QED
      BY <3>1 DEF SumsUp
  <2>2. SumsUp(T, h)
    BY <2>1
  <2> HIDE DEF h
  <2>3. \A U \in SUBSET T :
           h[U] = IF U = {} THEN 0 ELSE Picked(U).amount + h[U \ {Picked(U)}]
    BY <2>2 DEF SumsUp
  <2>4. ASSUME NEW U \in SUBSET T, \A u \in U : U \ {u} \in P
        PROVE  U \in P
    <3>1. CASE U = {}
      BY <1>3, <2>3, <3>1
    <3>2. CASE U # {}
      <4>1. Picked(U) \in U /\ U \in SUBSET S
        BY <1>1, <3>2
      <4>2. h[U \ {Picked(U)}] = f[U \ {Picked(U)}]
        BY <2>4, <4>1
      <4> QED
        BY <1>4, <2>3, <3>2, <4>1, <4>2
    <3> QED
      BY <3>1, <3>2
  <2>5. SUBSET T \subseteq P
    <3> HIDE DEF P
    <3>1. IsFiniteSet(T)
      BY FS_Subset
    <3> QED
      BY <2>4, <3>1, BySize
  <2>6. Worth(T) = h[T]
    BY SumIsFold DEF h
  <2> QED
    BY <2>5, <2>6
<1> QED
  BY <1>3, <1>4, <1>5

LEMMA SumFacts ==
  ASSUME NEW S, IsFiniteSet(S), \A u \in S : u.amount \in Nat
  PROVE  /\ Worth(S) \in Nat
         /\ S = {} => Worth(S) = 0
         /\ \A u \in S : Worth(S) = u.amount + Worth(S \ {u})
<1>1. PICK f \in [SUBSET S -> Nat] :
            /\ f[{}] = 0
            /\ \A T \in SUBSET S : T # {} => f[T] = Picked(T).amount + f[T \ {Picked(T)}]
            /\ \A T \in SUBSET S : Worth(T) = f[T]
  BY SumsOfSubsets
<1> DEFINE P == {T \in SUBSET S : \A u \in T : f[T] = u.amount + f[T \ {u}]}
<1>2. ASSUME NEW T \in SUBSET S, \A x \in T : T \ {x} \in P
      PROVE  T \in P
  <2> SUFFICES ASSUME NEW u \in T
               PROVE  f[T] = u.amount + f[T \ {u}]
    OBVIOUS
  <2> DEFINE v == Picked(T)
  <2>1. v \in T
    BY DEF Picked
  <2>2. f[T] = v.amount + f[T \ {v}]
    BY <1>1
  <2> HIDE DEF v
  <2>3. CASE u = v
    BY <2>2, <2>3
  <2>4. CASE u # v
    <3>1. u \in T \ {v} /\ v \in T \ {u} /\ (T \ {v}) \ {u} = (T \ {u}) \ {v}
      BY <2>1, <2>4
    <3>2. f[T \ {v}] = u.amount + f[(T \ {v}) \ {u}]
      BY <1>2, <2>1, <3>1
    <3>3. f[T \ {u}] = v.amount + f[(T \ {u}) \ {v}]
      BY <1>2, <3>1
    <3>4. u.amount \in Nat /\ v.amount \in Nat /\ f[(T \ {u}) \ {v}] \in Nat
      BY <1>1, <2>1
    <3>5. f[T] = v.amount + (u.amount + f[(T \ {u}) \ {v}])
      BY <2>2, <3>1, <3>2
    <3>6. v.amount + (u.amount + f[(T \ {u}) \ {v}]) = u.amount + (v.amount + f[(T \ {u}) \ {v}])
      BY <3>4
    <3> QED
      BY <3>3, <3>5, <3>6
  <2> QED
    BY <2>3, <2>4
<1>3. SUBSET S \subseteq P
  <2>1. \A T \in SUBSET S : (\A x \in T : T \ {x} \in P) => T \in P
    BY <1>2
  <2> HIDE DEF P
  <2>2. \A Q : (\A T \in SUBSET S : (\A x \in T : T \ {x} \in Q) => T \in Q) => SUBSET S \subseteq Q
    BY BySize
  <2> QED
    BY <2>1, <2>2, Zenon
<1>4. \A u \in S : f[S] = u.amount + f[S \ {u}]
  BY <1>3
<1> QED
  BY <1>1, <1>4

LEMMA SumOfUnion ==
  ASSUME NEW R, NEW S, IsFiniteSet(R), IsFiniteSet(S), R \cap S = {},
         \A u \in R \cup S : u.amount \in Nat
  PROVE  Worth(R \cup S) = Worth(R) + Worth(S)
<1> DEFINE P == {T \in SUBSET S : Worth(R \cup T) = Worth(R) + Worth(T)}
<1>1. ASSUME NEW T \in SUBSET S, \A u \in T : T \ {u} \in P
      PROVE  T \in P
  <2>1. IsFiniteSet(T) /\ IsFiniteSet(R \cup T)
    BY FS_Subset, FS_Union
  <2>2. Worth(R) \in Nat
    BY SumFacts
  <2>3. CASE T = {}
    <3>1. R \cup T = R /\ Worth(T) = 0
      BY <2>1, <2>3, SumFacts
    <3>2. Worth(R \cup T) = Worth(R)
      BY <3>1, Zenon
    <3>3. Worth(R \cup T) = Worth(R) + Worth(T)
      BY <2>2, <3>1, <3>2
    <3> QED
      BY <3>3
  <2>4. CASE T # {}
    <3>1. PICK u \in T : TRUE
      BY <2>4
    <3>2. (R \cup T) \ {u} = R \cup (T \ {u}) /\ u \in R \cup T
      BY <3>1
    <3>3. Worth(R \cup T) = u.amount + Worth((R \cup T) \ {u})
      BY <2>1, <3>2, SumFacts
    <3>4. Worth(T) = u.amount + Worth(T \ {u})
      BY <2>1, <3>1, SumFacts
    <3>5. Worth(R \cup (T \ {u})) = Worth(R) + Worth(T \ {u})
      BY <1>1, <3>1
    <3>6. Worth(T \ {u}) \in Nat
      <4>1. IsFiniteSet(T \ {u}) /\ \A x \in T \ {u} : x.amount \in Nat
        BY <2>1, FS_RemoveElement
      <4> QED
        BY <4>1, SumFacts
    <3>7. u.amount \in Nat
      BY <3>1
    <3>8. Worth(R \cup T) = u.amount + (Worth(R) + Worth(T \ {u}))
      BY <3>2, <3>3, <3>5
    <3>9. Worth(R \cup T) = Worth(R) + Worth(T)
      BY <2>2, <3>4, <3>6, <3>7, <3>8
    <3> QED
      BY <3>9
  <2> QED
    BY <2>3, <2>4
<1>2. SUBSET S \subseteq P
  <2> HIDE DEF P
  <2> QED
    BY <1>1, BySize
<1> QED
  BY <1>2

(* A list without repetitions has the sum of its elements.                 *)
LEMMA SumOfList ==
  ASSUME NEW list \in Seq(Utxo), IsInjective(list)
  PROVE  IsFiniteSet(ToSet(list)) /\ Total(list) = Worth(ToSet(list))
<1> DEFINE N == Len(list)
           Upto(n) == {list[i] : i \in 1..n}
<1>1. /\ N \in Nat /\ DOMAIN list = 1..N
      /\ \A i \in 1..N : list[i] \in Utxo /\ list[i].amount \in Nat
  <2>1. N \in Nat /\ DOMAIN list = 1..N /\ \A i \in 1..N : list[i] \in Utxo
    BY LenProperties, ElementOfSeq
  <2> QED
    BY <2>1 DEF Utxo
<1>2. PICK f \in [0..N -> Nat] :
            /\ Total(list) = f[N]
            /\ f[0] = 0
            /\ \A n \in 1..N : f[n] = f[n-1] + list[n].amount
  BY ListAmounts, Sums
<1> HIDE DEF N
<1> DEFINE T == {n \in 0..N : IsFiniteSet(Upto(n)) /\ Worth(Upto(n)) = f[n]}
<1>3. 0 \in T
  <2>1. Upto(0) = {}
    OBVIOUS
  <2>2. IsFiniteSet({}) /\ Worth({}) = 0
    BY FS_EmptySet, SumFacts
  <2>3. IsFiniteSet(Upto(0)) /\ Worth(Upto(0)) = f[0]
    BY <1>2, <2>1, <2>2, Zenon
  <2> HIDE DEF Upto
  <2> QED
    BY <1>1, <2>3
<1>4. ASSUME NEW n \in 1..N, n - 1 \in T
      PROVE  n \in T
  <2> DEFINE u == list[n]
  <2>1. Upto(n) = Upto(n - 1) \cup {u}
    OBVIOUS
  <2>2. u \notin Upto(n - 1)
    <3>1. ASSUME NEW i \in 1..n - 1 PROVE list[i] # list[n]
      <4>1. i \in 1..N /\ n \in 1..N /\ i # n
        BY <1>1
      <4> QED
        BY <1>1, <4>1 DEF IsInjective
    <3> QED
      BY <3>1
  <2>3. \A x \in Upto(n) : x.amount \in Nat
    BY <1>1
  <2>4. IsFiniteSet(Upto(n - 1)) /\ Worth(Upto(n - 1)) = f[n - 1]
    BY <1>4
  <2> HIDE DEF Upto, u
  <2>5. IsFiniteSet(Upto(n))
    <3>1. IsFiniteSet(Upto(n - 1) \cup {u})
      BY <2>4, FS_AddElement, Zenon
    <3> QED
      BY <2>1, <3>1, Zenon
  <2>6. u \in Upto(n) /\ Upto(n) \ {u} = Upto(n - 1)
    BY <2>1, <2>2
  <2>7. Worth(Upto(n)) = u.amount + Worth(Upto(n - 1))
    BY <2>3, <2>5, <2>6, SumFacts
  <2>8. f[n] = f[n - 1] + u.amount /\ f[n - 1] \in Nat /\ u.amount \in Nat
    BY <1>1, <1>2 DEF u
  <2> QED
    BY <2>4, <2>5, <2>7, <2>8
<1>5. N \in T
  <2> HIDE DEF T
  <2>1. 0..N \subseteq T
    BY <1>1, <1>3, <1>4, UpTo
  <2> QED
    BY <1>1, <2>1
<1>6. ToSet(list) = Upto(N)
  BY <1>1 DEF ToSet
<1> QED
  BY <1>2, <1>5, <1>6
LEMMA SumOfFew ==
  /\ Worth({}) = 0
  /\ \A p \in Utxo : Worth({p}) = p.amount
  /\ \A p, b \in Utxo : p # b => Worth({p, b}) = p.amount + b.amount
<1>1. Worth({}) = 0
  BY FS_EmptySet, SumFacts
<1>2. ASSUME NEW p \in Utxo
      PROVE  Worth({p}) = p.amount
  <2>1. p.amount \in Nat
    BY DEF Utxo
  <2>2. IsFiniteSet({p}) /\ \A u \in {p} : u.amount \in Nat
    BY <2>1, FS_Singleton
  <2>3. Worth({p}) = p.amount + Worth({p} \ {p})
    BY <2>2, SumFacts
  <2>4. Worth({p} \ {p}) = 0
    <3>1. {p} \ {p} = {}
      OBVIOUS
    <3> QED
      BY <1>1, <3>1, Zenon
  <2> QED
    BY <2>1, <2>3, <2>4
<1>3. ASSUME NEW p \in Utxo, NEW b \in Utxo, p # b
      PROVE  Worth({p, b}) = p.amount + b.amount
  <2>1. p.amount \in Nat /\ b.amount \in Nat
    BY DEF Utxo
  <2>2. IsFiniteSet({p}) /\ IsFiniteSet({b}) /\ {p} \cap {b} = {}
    BY <1>3, FS_Singleton
  <2>3. \A u \in {p} \cup {b} : u.amount \in Nat
    BY <2>1
  <2>4. Worth({p} \cup {b}) = Worth({p}) + Worth({b})
    BY <2>2, <2>3, SumOfUnion
  <2>5. {p, b} = {p} \cup {b}
    OBVIOUS
  <2>6. Worth({p, b}) = Worth({p}) + Worth({b})
    BY <2>4, <2>5, Zenon
  <2> QED
    BY <1>2, <2>6
<1> QED
  BY <1>1, <1>2, <1>3

(* Some outputs of a set are taken out of it and others put in.            *)
LEMMA Exchanged ==
  ASSUME NEW H \in SUBSET Utxo, IsFiniteSet(H), NEW I \in SUBSET H,
         NEW O \in SUBSET Utxo, IsFiniteSet(O), O \cap H = {}
  PROVE  /\ IsFiniteSet((H \ I) \cup O)
         /\ Worth(I) \in Nat /\ Worth(O) \in Nat /\ Worth(H) \in Nat
         /\ Worth(H) >= Worth(I)
         /\ Worth((H \ I) \cup O) = (Worth(H) - Worth(I)) + Worth(O)
<1> DEFINE R == H \ I
<1>1. IsFiniteSet(I) /\ IsFiniteSet(R) /\ IsFiniteSet(R \cup O)
  <2>1. I \subseteq H /\ R \subseteq H
    OBVIOUS
  <2>2. IsFiniteSet(I) /\ IsFiniteSet(R)
    BY <2>1, FS_Subset
  <2> HIDE DEF R
  <2> QED
    BY <2>2, FS_Union
<1>2. /\ \A u \in Utxo : u.amount \in Nat
      /\ I \cap R = {} /\ R \cap O = {} /\ H = I \cup R
      /\ I \subseteq Utxo /\ R \subseteq Utxo
  BY DEF Utxo
<1> HIDE DEF R
<1>3. Worth(I) \in Nat /\ Worth(R) \in Nat /\ Worth(O) \in Nat /\ Worth(H) \in Nat
  BY <1>1, <1>2, SumFacts
<1>4. Worth(I \cup R) = Worth(I) + Worth(R)
  <2>1. \A u \in I \cup R : u.amount \in Nat
    BY <1>2
  <2> QED
    BY <1>1, <1>2, <2>1, SumOfUnion
<1>5. Worth(H) = Worth(I) + Worth(R)
  BY <1>2, <1>4, Zenon
<1>6. Worth(R \cup O) = Worth(R) + Worth(O)
  <2>1. \A u \in R \cup O : u.amount \in Nat
    BY <1>2
  <2> QED
    BY <1>1, <1>2, <2>1, SumOfUnion
<1>7. Worth(R \cup O) = (Worth(H) - Worth(I)) + Worth(O)
  BY <1>3, <1>5, <1>6
<1>8. Worth(H) >= Worth(I)
  BY <1>3, <1>5
<1> QED
  BY <1>1, <1>3, <1>7, <1>8 DEF R

-----------------------------------------------------------------------------
(***************************************************************************)
(* What a transaction that was asked for moves, once applied, and that     *)
(* no other step moves anything.                                           *)
(***************************************************************************)
AskedFor(tx) ==
  /\ tx.sender \in Key
  /\ IsInjective(tx.inputs)
  /\ Len(tx.outputs) > 0 /\ tx.outputs[1].amount \in Amount

New(tx, a) == {u \in OutputsOf(tx) : u.address = a}

LEMMA Moves ==
  ASSUME NEW tx \in Transaction, VerifyContent(tx), AskedFor(tx)
  PROVE  LET s == tx.sender
             r == tx.outputs[1].address
             n == tx.outputs[1].amount
         IN  /\ r \in Address /\ n \in Amount
             /\ OutputsOf(tx) \subseteq Utxo
             /\ \A a \in Address : IsFiniteSet(New(tx, a))
             /\ Worth(InputsOf(tx)) >= n
             /\ Worth(InputsOf(tx)) = Worth(New(tx, s)) + (IF r = s THEN 0 ELSE n)
             /\ \A a \in Address : a # s => Worth(New(tx, a)) = IF a = r THEN n ELSE 0
<1> DEFINE s == tx.sender
           r == tx.outputs[1].address
           n == tx.outputs[1].amount
           p == GetUTXO(tx, 1)
           b == GetUTXO(tx, 2)
           N == Len(tx.outputs)
<1>1. /\ tx.outputs \in Seq(Output) /\ tx.inputs \in Seq(Utxo)
      /\ N \in {1, 2} /\ DOMAIN tx.outputs = 1..N
      /\ \A i \in 1..N : tx.outputs[i] \in Output
  <2>1. /\ tx.outputs \in Seq(Output) /\ tx.inputs \in Seq(Utxo)
    BY DEF Transaction
  <2>2. N \in Nat /\ DOMAIN tx.outputs = 1..N /\ \A i \in 1..N : tx.outputs[i] \in Output
    BY <2>1, LenProperties, ElementOfSeq
  <2>3. N <= 2 /\ N > 0
    BY DEF VerifyContent, AskedFor
  <2> HIDE DEF N
  <2>4. N \in {1, 2}
    BY <2>2, <2>3
  <2> QED
    BY <2>1, <2>2, <2>4
<1>2. /\ p \in Utxo /\ p.address = r /\ p.amount = n /\ p.index = 0
      /\ r \in Address /\ n \in Amount /\ n \in Nat
  <2>1. 1 \in 1..N
    <3> HIDE DEF N
    <3> QED
      BY <1>1
  <2>2. p \in Utxo /\ p.address = r /\ p.index = 0
    BY <1>1, <2>1, Stamped DEF VerifyContent
  <2>3. p.amount = n
    BY DEF GetUTXO
  <2>4. tx.outputs[1] \in Output
    BY <1>1, <2>1
  <2> QED
    BY <2>2, <2>3, <2>4 DEF Output, AskedFor
<1>3. ASSUME N = 2
      PROVE  /\ b \in Utxo /\ b.address = s /\ b.index = 1
             /\ b.amount = tx.outputs[2].amount /\ b.amount \in Nat
  <2>1. 2 \in 1..N
    BY <1>3
  <2>2. b \in Utxo /\ b.address = s /\ b.index = 1
    BY <1>1, <1>3, <2>1, Stamped DEF VerifyContent
  <2>3. b.amount = tx.outputs[2].amount
    BY DEF GetUTXO
  <2> QED
    BY <2>2, <2>3 DEF Utxo
<1>4. OutputsOf(tx) = IF N = 2 THEN {p, b} ELSE {p}
  <2>1. CASE N = 1
    <3>1. DOMAIN tx.outputs = {1}
      BY <1>1, <2>1
    <3> QED
      BY <2>1, <3>1 DEF OutputsOf
  <2>2. CASE N = 2
    <3>1. DOMAIN tx.outputs = {1, 2}
      BY <1>1, <2>2
    <3> QED
      BY <2>2, <3>1 DEF OutputsOf
  <2> QED
    BY <1>1, <2>1, <2>2
<1>5. /\ Total(tx.inputs) = Worth(InputsOf(tx))
      /\ Total(tx.outputs) = IF N = 2 THEN n + b.amount ELSE n
  <2>1. Total(tx.inputs) = Worth(InputsOf(tx))
    BY <1>1, SumOfList DEF InputsOf, AskedFor
  <2>2. /\ N = 1 => Total(tx.outputs) = n
        /\ N = 2 => Total(tx.outputs) = n + tx.outputs[2].amount
    BY <1>1, ListAmounts, TotalFacts
  <2> HIDE DEF n, b
  <2> QED
    BY <1>1, <1>3, <2>1, <2>2
<1>6. Worth(InputsOf(tx)) = IF N = 2 THEN n + b.amount ELSE n
  BY <1>5 DEF VerifyContent
<1> HIDE DEF p, b, n, r, s, N
<1>7. OutputsOf(tx) \subseteq Utxo /\ (N = 2 => p # b)
  BY <1>1, <1>2, <1>3, <1>4
<1>8. \A a \in Address : IsFiniteSet(New(tx, a))
  <2>1. IsFiniteSet(OutputsOf(tx))
    <3>1. IsFiniteSet({p}) /\ IsFiniteSet({p} \cup {b})
      BY FS_Singleton, FS_Union
    <3>2. {p, b} = {p} \cup {b}
      OBVIOUS
    <3> QED
      BY <1>4, <3>1, <3>2
  <2> QED
    BY <2>1, FS_Subset DEF New
<1>9. ASSUME NEW a \in Address, a # s
      PROVE  Worth(New(tx, a)) = IF a = r THEN n ELSE 0
  <2>1. New(tx, a) = IF a = r THEN {p} ELSE {}
    BY <1>1, <1>2, <1>3, <1>4, <1>9 DEF New
  <2>2. CASE a = r
    <3>1. New(tx, a) = {p}
      BY <2>1, <2>2
    <3>2. Worth(New(tx, a)) = Worth({p})
      BY <3>1, Zenon
    <3> QED
      BY <1>2, <2>2, <3>2, SumOfFew
  <2>3. CASE a # r
    <3>1. New(tx, a) = {}
      BY <2>1, <2>3
    <3>2. Worth(New(tx, a)) = Worth({})
      BY <3>1, Zenon
    <3> QED
      BY <2>3, <3>2, SumOfFew
  <2> QED
    BY <2>2, <2>3
<1>10. Worth(InputsOf(tx)) = Worth(New(tx, s)) + (IF r = s THEN 0 ELSE n)
  <2>1. CASE N = 2 /\ r = s
    <3>1. New(tx, s) = {p, b}
      BY <1>2, <1>3, <1>4, <2>1 DEF New
    <3>2. Worth(New(tx, s)) = Worth({p, b})
      BY <3>1, Zenon
    <3>3. Worth({p, b}) = n + b.amount
      BY <1>2, <1>3, <1>7, <2>1, SumOfFew
    <3> QED
      BY <1>2, <1>3, <1>6, <2>1, <3>2, <3>3
  <2>2. CASE N = 2 /\ r # s
    <3>1. New(tx, s) = {b}
      BY <1>2, <1>3, <1>4, <2>2 DEF New
    <3>2. Worth(New(tx, s)) = Worth({b})
      BY <3>1, Zenon
    <3>3. Worth({b}) = b.amount
      BY <1>3, <2>2, SumOfFew
    <3> QED
      BY <1>2, <1>3, <1>6, <2>2, <3>2, <3>3
  <2>3. CASE N # 2 /\ r = s
    <3>1. New(tx, s) = {p}
      BY <1>2, <1>4, <2>3 DEF New
    <3>2. Worth(New(tx, s)) = Worth({p})
      BY <3>1, Zenon
    <3>3. Worth({p}) = n
      BY <1>2, SumOfFew
    <3> QED
      BY <1>2, <1>6, <2>3, <3>2, <3>3
  <2>4. CASE N # 2 /\ r # s
    <3>1. New(tx, s) = {}
      BY <1>2, <1>4, <2>4 DEF New
    <3>2. Worth(New(tx, s)) = Worth({})
      BY <3>1, Zenon
    <3> QED
      BY <1>2, <1>6, <2>4, <3>2, SumOfFew
  <2> QED
    BY <2>1, <2>2, <2>3, <2>4
<1>11. Worth(InputsOf(tx)) >= n
  BY <1>1, <1>2, <1>3, <1>6
<1> QED
  BY <1>2, <1>7, <1>8, <1>9, <1>10, <1>11 DEF n, r, s

Counted == Where("applied")

Held(a) == {u \in Left(Counted) : u.address = a}

(* An applied transaction spends what applied transactions made.           *)
PayInv ==
  /\ \A h \in Made : AskedFor(Tx(h))
  /\ \A h \in Counted : \A u \in InputsOf(Tx(h)) : u.tx = 0 \/ u.tx \in Counted
  /\ \A a \in Address : IsFiniteSet(Held(a))

LEMMA HeldSum ==
  \A a : SetBalance(a) = Worth(Held(a)) /\ SetBalance(a)' = Worth(Held(a)')
<1>1. \A a : SetBalance(a) = Worth(Held(a)) /\ SetBalance(a)' = Worth(Held(a))'
  BY DEF SetBalance, Worth, Held, Counted
<1>2. \A a : Worth(Held(a))' = Worth(Held(a)')
  OBVIOUS
<1> QED
  BY <1>1, <1>2

LEMMA HeldFacts ==
  ASSUME Inv
  PROVE  \A u \in Left(Counted) : u \in Utxo /\ (u.tx = 0 \/ u.tx \in Counted)
<1>1. ASSUME NEW u \in Given
      PROVE  u \in Utxo /\ u.tx = 0
  <2>1. PICK a \in Address : u \in ToSet(Loaded(a))
    BY <1>1 DEF Given
  <2>2. Loaded(a) \in Seq(Utxo)
    BY GivenFacts
  <2>3. \A i \in DOMAIN Loaded(a) : Loaded(a)[i] \in Utxo
    BY <2>2, LenProperties, ElementOfSeq
  <2> QED
    BY <2>1, <2>3, GivenFacts DEF ToSet
<1>2. ASSUME NEW h \in Counted, NEW u \in OutputsOf(Tx(h))
      PROVE  u \in Utxo /\ u.tx \in Counted
  <2>1. h \in Made
    BY DEF Counted, Where
  <2>2. Tx(h) \in Transaction /\ Tx(h).hash = h
    BY <2>1 DEF Inv, WellMade
  <2>3. DOMAIN Tx(h).outputs = 1..Len(Tx(h).outputs)
    BY <2>2, LenProperties DEF Transaction
  <2>4. PICK i \in 1..Len(Tx(h).outputs) : u = GetUTXO(Tx(h), i)
    BY <2>3 DEF OutputsOf
  <2> QED
    BY <2>2, <2>4, Stamped
<1> QED
  BY <1>1, <1>2 DEF Left

(* Whatever is not mining.                                                 *)
LEMMA Unmoved ==
  ASSUME PayInv, Counted' = Counted, \A h \in Counted : Tx(h)' = Tx(h),
         \A h \in Made' : AskedFor(Tx(h)')
  PROVE  PayInv' /\ \A a \in Address : SetBalance(a)' = SetBalance(a)
<1>1. /\ \A h \in Counted : InputsOf(Tx(h))' = InputsOf(Tx(h))
      /\ \A h \in Counted : OutputsOf(Tx(h))' = OutputsOf(Tx(h))
  BY DEF InputsOf, OutputsOf
<1>2. Left(Counted)' = Left(Counted)
  BY <1>1 DEF Left
<1>3. \A a : Held(a)' = Held(a)
  BY <1>2 DEF Held
<1>4. ASSUME NEW a \in Address
      PROVE  SetBalance(a)' = SetBalance(a)
  <2>1. Held(a)' = Held(a)
    BY <1>3
  <2>2. Worth(Held(a)') = Worth(Held(a))
    BY <2>1, Zenon
  <2> QED
    BY <2>2, HeldSum
<1>5. (\A h \in Made : AskedFor(Tx(h)))'
  BY DEF AskedFor
<1>6. (\A h \in Counted : \A u \in InputsOf(Tx(h)) : u.tx = 0 \/ u.tx \in Counted)'
  BY <1>1 DEF PayInv
<1>7. (\A a \in Address : IsFiniteSet(Held(a)))'
  BY <1>3 DEF PayInv
<1> QED
  BY <1>4, <1>5, <1>6, <1>7 DEF PayInv

(* Mining takes the inputs from the sender and gives each address what is  *)
(* new for it.                                                             *)
LEMMA AppliedFor ==
  ASSUME Inv, PayInv, NEW h \in Made, Apply(h)
  PROVE  /\ Counted' = Counted \cup {h} /\ Made' = Made
         /\ \A g \in Made : Tx(g)' = Tx(g)
         /\ InputsOf(Tx(h)) \subseteq Held(Tx(h).sender)
         /\ \A a : New(Tx(h), a) \cap Held(a) = {}
         /\ \A a \in Address :
               Held(a)' = (Held(a) \ (IF a = Tx(h).sender THEN InputsOf(Tx(h)) ELSE {}))
                             \cup New(Tx(h), a)
<1> DEFINE tx == Tx(h)
<1>1. /\ made[h].at = "pool"
      /\ made' = [made EXCEPT ![h].at = "applied"]
      /\ InputsOf(tx) \subseteq Left(Counted)
  BY DEF Apply, Counted
<1>2. /\ Len(made) \in Nat /\ Made = 1..Len(made)
      /\ made \in Seq(Record) /\ \A g \in Made : made[g] \in Record
  BY MadeFacts DEF Inv
<1>3. /\ Made' = Made
      /\ \A g \in Made : /\ made'[g].tx = made[g].tx
                         /\ made'[g].at = IF g = h THEN "applied" ELSE made[g].at
  <2> DEFINE rec == [made[h] EXCEPT !.at = "applied"]
  <2>1. rec \in Record /\ rec.tx = made[h].tx /\ rec.at = "applied"
    BY <1>2 DEF Record
  <2>2. made' = [made EXCEPT ![h] = rec]
    BY <1>1
  <2> HIDE DEF rec
  <2>3. /\ made' \in Seq(Record) /\ Len(made') = Len(made)
        /\ \A g \in 1..Len(made) : made'[g] = IF g = h THEN rec ELSE made[g]
    BY <1>2, <2>1, <2>2, ExceptSeq
  <2>4. DOMAIN made' = 1..Len(made')
    BY <2>3, LenProperties
  <2> QED
    BY <1>2, <2>1, <2>3, <2>4 DEF Made
<1>4. \A g \in Made : Tx(g)' = Tx(g)
  BY <1>3 DEF Tx
<1>5. Counted' = Counted \cup {h} /\ h \notin Counted /\ \A g \in Counted : g \in Made
  BY <1>1, <1>3 DEF Counted, Where
<1>6. /\ tx \in Transaction /\ tx.hash = h /\ VerifyContent(tx)
      /\ \A u \in InputsOf(tx) : u.tx < h
      /\ h # 0 /\ h \in Int
  BY <1>2 DEF Inv, WellMade
<1>7. /\ \A u \in InputsOf(tx) : u.address = tx.sender
      /\ \A u \in OutputsOf(tx) : u.tx = h
  BY <1>6, Content
<1>8. \A u \in OutputsOf(tx) : /\ u \notin Left(Counted)
                               /\ u \notin InputsOf(tx)
                               /\ \A g \in Counted : u \notin InputsOf(Tx(g))
  <2>1. ASSUME NEW u \in OutputsOf(tx), u \in InputsOf(tx)
        PROVE  FALSE
    <3>1. h < h
      BY <1>6, <1>7, <2>1
    <3> QED
      BY <1>6, <3>1
  <2>2. ASSUME NEW u \in OutputsOf(tx), NEW g \in Counted, u \in InputsOf(Tx(g))
        PROVE  FALSE
    BY <1>5, <1>6, <1>7, <2>2 DEF PayInv
  <2>3. ASSUME NEW u \in OutputsOf(tx), u \in Left(Counted)
        PROVE  FALSE
    BY <1>5, <1>6, <1>7, <2>3, HeldFacts
  <2> QED
    BY <2>1, <2>2, <2>3
<1>9. \A u : u \in Left(Counted)' <=>
               \/ u \in Left(Counted) /\ u \notin InputsOf(tx)
               \/ u \in OutputsOf(tx)
  <2>1. /\ \A g \in Counted' : OutputsOf(Tx(g))' = OutputsOf(Tx(g))
        /\ \A g \in Counted' : InputsOf(Tx(g))' = InputsOf(Tx(g))
    BY <1>4, <1>5 DEF OutputsOf, InputsOf
  <2>2. \A u : u \in Left(Counted)' <=>
                 /\ \/ u \in Given
                    \/ \E g \in Counted' : u \in OutputsOf(Tx(g))
                 /\ \A g \in Counted' : u \notin InputsOf(Tx(g))
    BY <2>1 DEF Left
  <2>3. \A u : u \in Left(Counted) <=>
                 /\ u \in Given \/ \E g \in Counted : u \in OutputsOf(Tx(g))
                 /\ \A g \in Counted : u \notin InputsOf(Tx(g))
    BY InLeft
  <2> HIDE DEF tx
  <2>4. \A g : g \in Counted' <=> g \in Counted \/ g = h
    BY <1>5
  <2>5. OutputsOf(tx) = OutputsOf(Tx(h)) /\ InputsOf(tx) = InputsOf(Tx(h))
    BY DEF tx
  <2> QED
    BY <1>8, <2>2, <2>3, <2>4, <2>5
<1>10. InputsOf(tx) \subseteq Held(tx.sender)
  BY <1>1, <1>7 DEF Held
<1>11. \A a : New(tx, a) \cap Held(a) = {}
  BY <1>8 DEF New, Held
<1>12. ASSUME NEW a \in Address
       PROVE  Held(a)' = (Held(a) \ (IF a = tx.sender THEN InputsOf(tx) ELSE {}))
                            \cup New(tx, a)
  <2>1. Held(a)' = {u \in Left(Counted)' : u.address = a}
    BY DEF Held
  <2>2. ASSUME NEW u
        PROVE  u \in Held(a)' <=> \/ u \in Held(a) /\ u \notin InputsOf(tx)
                                  \/ u \in New(tx, a)
    <3> HIDE DEF tx
    <3> QED
      BY <1>9, <2>1 DEF Held, New
  <2>3. a # tx.sender => Held(a) \cap InputsOf(tx) = {}
    BY <1>7 DEF Held
  <2> HIDE DEF tx
  <2> QED
    BY <2>2, <2>3
<1> QED
  BY <1>3, <1>4, <1>5, <1>10, <1>11, <1>12

Balances == [a \in Address |-> SetBalance(a)]

LEMMA AppliedPaid ==
  ASSUME Inv, PayInv, NEW h \in Made, Apply(h)
  PROVE  /\ PayInv'
         /\ \E s \in Key, r \in Address, n \in Amount : Settled!Pay(s, r, n)
<1>a. PICK tx, s, r, n : /\ tx = Tx(h) /\ s = tx.sender
                        /\ r = tx.outputs[1].address /\ n = tx.outputs[1].amount
  OBVIOUS
<1>1. tx \in Transaction /\ VerifyContent(tx) /\ AskedFor(tx)
  BY <1>a DEF Inv, WellMade, PayInv
<1>2. /\ s \in Key /\ r \in Address /\ n \in Amount
      /\ OutputsOf(tx) \subseteq Utxo
      /\ \A a \in Address : IsFiniteSet(New(tx, a))
      /\ Worth(InputsOf(tx)) >= n
      /\ Worth(InputsOf(tx)) = Worth(New(tx, s)) + (IF r = s THEN 0 ELSE n)
      /\ \A a \in Address : a # s => Worth(New(tx, a)) = IF a = r THEN n ELSE 0
  BY <1>a, <1>1, Moves DEF AskedFor
<1>3. /\ Counted' = Counted \cup {h} /\ Made' = Made
      /\ \A g \in Made : Tx(g)' = Tx(g)
      /\ InputsOf(tx) \subseteq Held(s)
      /\ \A a : New(tx, a) \cap Held(a) = {}
      /\ \A a \in Address :
            Held(a)' = (Held(a) \ (IF a = s THEN InputsOf(tx) ELSE {})) \cup New(tx, a)
  BY <1>a, AppliedFor
<1> DEFINE I(a) == IF a = s THEN InputsOf(tx) ELSE {}
<1>4. ASSUME NEW a \in Address
      PROVE  /\ IsFiniteSet(Held(a)')
             /\ SetBalance(a) \in Nat /\ SetBalance(a) >= Worth(I(a))
             /\ Worth(I(a)) \in Nat /\ Worth(New(tx, a)) \in Nat
             /\ SetBalance(a)' = (SetBalance(a) - Worth(I(a))) + Worth(New(tx, a))
  <2>1. /\ Held(a) \in SUBSET Utxo /\ IsFiniteSet(Held(a))
        /\ I(a) \in SUBSET Held(a)
        /\ New(tx, a) \in SUBSET Utxo /\ IsFiniteSet(New(tx, a))
        /\ New(tx, a) \cap Held(a) = {}
    BY <1>2, <1>3, HeldFacts DEF PayInv, Held, New
  <2>2. Held(a)' = (Held(a) \ I(a)) \cup New(tx, a)
    BY <1>3
  <2> HIDE DEF I
  <2>3. /\ IsFiniteSet((Held(a) \ I(a)) \cup New(tx, a))
        /\ Worth(I(a)) \in Nat /\ Worth(New(tx, a)) \in Nat /\ Worth(Held(a)) \in Nat
        /\ Worth(Held(a)) >= Worth(I(a))
        /\ Worth((Held(a) \ I(a)) \cup New(tx, a)) =
              (Worth(Held(a)) - Worth(I(a))) + Worth(New(tx, a))
    BY <2>1, Exchanged
  <2>4. SetBalance(a) = Worth(Held(a)) /\ SetBalance(a)' = Worth(Held(a)')
    BY HeldSum
  <2>5. Worth(Held(a)') = Worth((Held(a) \ I(a)) \cup New(tx, a))
    BY <2>2, Zenon
  <2>6. IsFiniteSet(Held(a)')
    BY <2>2, <2>3, Zenon
  <2> QED
    BY <2>3, <2>4, <2>5, <2>6
<1>5. \A a \in Address : a # s => Worth(I(a)) = 0
  <2>1. ASSUME NEW a \in Address, a # s
        PROVE  Worth(I(a)) = 0
    <3>1. I(a) = {}
      BY <2>1
    <3>2. Worth(I(a)) = Worth({})
      BY <3>1, Zenon
    <3> QED
      BY <3>2, SumOfFew
  <2> QED
    BY <2>1
<1>6. s \in Address /\ I(s) = InputsOf(tx)
  BY <1>2, WalletAssumption
<1>7. Worth(I(s)) = Worth(New(tx, s)) + (IF r = s THEN 0 ELSE n)
  <2>1. Worth(I(s)) = Worth(InputsOf(tx))
    BY <1>6, Zenon
  <2> QED
    BY <1>2, <2>1
<1> HIDE DEF I
<1>8. n \in Nat
  BY <1>2, WalletAssumption
<1>9. /\ SetBalance(s) >= n
      /\ SetBalance(s)' = SetBalance(s) - (IF r = s THEN 0 ELSE n)
  <2>1. /\ SetBalance(s) \in Nat /\ SetBalance(s) >= Worth(I(s))
        /\ Worth(I(s)) \in Nat /\ Worth(New(tx, s)) \in Nat
        /\ SetBalance(s)' = (SetBalance(s) - Worth(I(s))) + Worth(New(tx, s))
    BY <1>4, <1>6
  <2>2. Worth(I(s)) >= n
    <3>1. Worth(I(s)) = Worth(InputsOf(tx))
      BY <1>6, Zenon
    <3> QED
      BY <1>2, <3>1
  <2>3. CASE r = s
    <3>1. Worth(I(s)) = Worth(New(tx, s))
      BY <1>7, <2>1, <2>3
    <3> QED
      BY <1>8, <2>1, <2>3, <2>2, <3>1
  <2>4. CASE r # s
    <3>1. Worth(I(s)) = Worth(New(tx, s)) + n
      BY <1>7, <2>4
    <3> QED
      BY <1>8, <2>1, <2>4, <3>1
  <2> QED
    BY <2>3, <2>4
<1>10. \A a \in Address : a # s =>
          SetBalance(a)' = SetBalance(a) + (IF a = r THEN n ELSE 0)
  BY <1>2, <1>4, <1>5, <1>8
<1>11. PayInv'
  <2>1. (\A g \in Made : AskedFor(Tx(g)))'
    BY <1>3 DEF PayInv, AskedFor
  <2>2. (\A a \in Address : IsFiniteSet(Held(a)))'
    BY <1>4
  <2>3. (\A g \in Counted : \A u \in InputsOf(Tx(g)) : u.tx = 0 \/ u.tx \in Counted)'
    <3>1. \A g \in Counted' : g \in Made
      BY <1>3 DEF Counted, Where
    <3>2. \A g \in Counted' : InputsOf(Tx(g))' = InputsOf(Tx(g))
      BY <1>3, <3>1 DEF InputsOf
    <3>3. \A u \in InputsOf(Tx(h)) : u.tx = 0 \/ u.tx \in Counted
      <4>1. InputsOf(Tx(h)) \subseteq Left(Counted)
        BY DEF Apply, Counted
      <4> QED
        BY <4>1, HeldFacts
    <3> QED
      BY <1>3, <3>2, <3>3 DEF PayInv
  <2> QED
    BY <2>1, <2>2, <2>3 DEF PayInv
<1>12. Settled!Pay(s, r, n)
  <2>1. Balances[s] >= n
    BY <1>6, <1>9 DEF Balances
  <2>2. Balances' = IF r = s THEN Balances
                    ELSE [Balances EXCEPT ![s] = @ - n, ![r] = @ + n]
    <3>1. Balances' = [a \in Address |-> SetBalance(a)']
      BY DEF Balances
    <3> QED
      BY <1>2, <1>4, <1>6, <1>8, <1>9, <1>10, <3>1 DEF Balances
  <2> QED
    BY <2>1, <2>2 DEF Settled!Pay, Balances
<1> QED
  BY <1>2, <1>11, <1>12

(* What Send adds was asked for, and is not applied yet.                   *)
LEMMA SentAsked ==
  ASSUME Inv, PayInv, NEW s \in Key, NEW r \in Address, NEW n \in Amount, Send(s, r, n)
  PROVE  PayInv' /\ \A a \in Address : SetBalance(a)' = SetBalance(a)
<1> DEFINE tx == NewTransaction(GetUTXOs(s, n), s, r, n)
<1>a. PICK h, t : h = Len(made) + 1 /\ t = [tx EXCEPT !.hash = h]
  OBVIOUS
<1> DEFINE rec == [tx |-> t, at |-> "sent", heard |-> "waiting"]
<1>1. Balance(s) >= n /\ made' = Append(made, rec) /\ Len(made) < MaxTx
  BY <1>a DEF Send
<1>2. s \in Address /\ IsInjective(utxoSet[s])
  BY WalletAssumption DEF Inv, WalletReplays
<1>3. Funded(s, n)
  BY <1>1, <1>2, Listed DEF Funded, Inv
<1>4. /\ tx \in Transaction /\ tx.inputs = GetUTXOs(s, n) /\ tx.sender = s
      /\ Len(tx.outputs) > 0 /\ tx.outputs[1].amount = n
  BY <1>2, <1>3, Paid
<1>5. IsInjective(GetUTXOs(s, n))
  BY <1>2, <1>3, Chosen
<1> HIDE DEF tx
<1>6. /\ Len(made) \in Nat /\ Made = 1..Len(made) /\ made \in Seq(Record)
      /\ h \in 0..MaxTx /\ h \notin Made
  BY <1>a, <1>1, MadeFacts, WalletAssumption DEF Inv
<1>7. /\ t \in Transaction /\ t.inputs = tx.inputs /\ t.sender = s
      /\ t.outputs = tx.outputs
  BY <1>a, <1>4, <1>6 DEF Transaction
<1>8. AskedFor(t)
  BY <1>4, <1>5, <1>7 DEF AskedFor
<1>9. /\ Made' = Made \cup {h}
      /\ \A g \in Made : made'[g] = made[g]
      /\ made'[h] = rec
  <2>1. rec \in Record
    BY <1>7 DEF Record
  <2> HIDE DEF rec
  <2>2. /\ made' \in Seq(Record) /\ Len(made') = h
        /\ \A g \in 1..Len(made) : made'[g] = made[g]
        /\ made'[h] = rec
    BY <1>a, <1>1, <1>6, <2>1, AppendProperties
  <2>3. Made' = 1..h
    BY <2>2, LenProperties DEF Made
  <2>4. 1..h = (1..Len(made)) \cup {h}
    BY <1>a, <1>6
  <2> QED
    BY <1>6, <2>2, <2>3, <2>4
<1>10. Counted' = Counted
  BY <1>6, <1>9 DEF Counted, Where
<1>11. (\A g \in Made : Tx(g)' = Tx(g)) /\ Tx(h)' = t
  BY <1>9 DEF Tx
<1>12. \A g \in Counted : Tx(g)' = Tx(g)
  BY <1>11 DEF Counted, Where
<1>13. \A g \in Made' : AskedFor(Tx(g)')
  BY <1>8, <1>9, <1>11 DEF PayInv
<1> QED
  BY <1>10, <1>12, <1>13, Unmoved

(* A transaction that arrives, is answered or given up.                    *)
LEMMA NotApplied ==
  ASSUME Inv, PayInv, NEW h \in Made,
         Accept(h) \/ Answered(h) \/ GiveUp(h) \/ Lose(h)
  PROVE  PayInv' /\ \A a \in Address : SetBalance(a)' = SetBalance(a)
<1>1. /\ made \in Seq(Record) /\ Len(made) \in Nat /\ Made = 1..Len(made)
      /\ made[h] \in Record /\ h \in Made
  BY MadeFacts DEF Inv
<1>2. PICK rec : /\ made' = [made EXCEPT ![h] = rec]
                 /\ rec \in Record /\ rec.tx = made[h].tx
                 /\ (rec.at = "applied") = (made[h].at = "applied")
  <2>1. CASE Accept(h)
    <3> DEFINE rec == [made[h] EXCEPT !.at = "pool"]
    <3>1. /\ rec \in Record /\ rec.tx = made[h].tx
          /\ rec.at = "pool" /\ made[h].at = "sent"
      BY <1>1, <2>1 DEF Record, Accept
    <3>2. made' = [made EXCEPT ![h] = rec]
      BY <2>1 DEF Accept
    <3> QED
      BY <3>1, <3>2
  <2>2. CASE Answered(h)
    <3> DEFINE rec == [made[h] EXCEPT !.heard = "answered"]
    <3>1. rec \in Record /\ rec.tx = made[h].tx /\ rec.at = made[h].at
      BY <1>1 DEF Record
    <3>2. made' = [made EXCEPT ![h] = rec]
      BY <2>2 DEF Answered
    <3> QED
      BY <3>1, <3>2
  <2>3. CASE GiveUp(h)
    <3> DEFINE rec == [made[h] EXCEPT !.heard = "gaveup"]
    <3>1. rec \in Record /\ rec.tx = made[h].tx /\ rec.at = made[h].at
      BY <1>1 DEF Record
    <3>2. made' = [made EXCEPT ![h] = rec]
      BY <2>3 DEF GiveUp
    <3> QED
      BY <3>1, <3>2
  <2>4. CASE Lose(h)
    <3> DEFINE rec == [made[h] EXCEPT !.at = "lost"]
    <3>1. /\ rec \in Record /\ rec.tx = made[h].tx
          /\ rec.at = "lost" /\ made[h].at = "pool"
      BY <1>1, <2>4 DEF Record, Lose
    <3>2. made' = [made EXCEPT ![h] = rec]
      BY <2>4 DEF Lose
    <3> QED
      BY <3>1, <3>2
  <2> QED
    BY <2>1, <2>2, <2>3, <2>4
<1>3. /\ made' \in Seq(Record) /\ Len(made') = Len(made)
      /\ \A g \in 1..Len(made) : made'[g] = IF g = h THEN rec ELSE made[g]
  BY <1>1, <1>2, ExceptSeq
<1>4. Made' = Made
  BY <1>1, <1>3, LenProperties DEF Made
<1>5. \A g \in Made : Tx(g)' = Tx(g)
  BY <1>1, <1>2, <1>3 DEF Tx
<1>6. Counted' = Counted
  <2>1. \A g \in Made : (made'[g].at = "applied") = (made[g].at = "applied")
    BY <1>1, <1>2, <1>3
  <2> QED
    BY <1>4, <2>1 DEF Counted, Where
<1>7. \A g \in Counted : Tx(g)' = Tx(g)
  BY <1>5 DEF Counted, Where
<1>8. \A g \in Made' : AskedFor(Tx(g)')
  BY <1>4, <1>5 DEF PayInv
<1> QED
  BY <1>6, <1>7, <1>8, Unmoved

LEMMA StepPays ==
  ASSUME Inv, PayInv, [Next]_vars
  PROVE  PayInv' /\ [Settled!Next]_Balances
<1>1. ASSUME \A a \in Address : SetBalance(a)' = SetBalance(a)
      PROVE  Balances' = Balances
  BY <1>1 DEF Balances
<1>2. CASE LoopSends \/ MenuSends
  <2>1. PICK s \in Key, r \in Address, n \in Amount : Send(s, r, n)
    BY <1>2, WalletAssumption DEF LoopSends, MenuSends, Inv
  <2> QED
    BY <1>1, <2>1, SentAsked
<1>3. CASE LoopSkips \/ NextRound \/ UNCHANGED vars
  <2>1. made' = made
    BY <1>3 DEF LoopSkips, NextRound, vars
  <2>2. Counted' = Counted /\ Made' = Made /\ \A g \in Made : Tx(g)' = Tx(g)
    BY <2>1 DEF Counted, Where, Made, Tx
  <2>3. \A g \in Counted : Tx(g)' = Tx(g)
    BY <2>2 DEF Counted, Where
  <2>4. \A g \in Made' : AskedFor(Tx(g)')
    BY <2>2 DEF PayInv
  <2> QED
    BY <1>1, <2>2, <2>3, <2>4, Unmoved
<1>4. ASSUME NEW h \in Made, Accept(h) \/ Answered(h) \/ GiveUp(h) \/ Lose(h)
      PROVE  PayInv' /\ [Settled!Next]_Balances
  BY <1>1, <1>4, NotApplied
<1>5. ASSUME NEW h \in Made, Apply(h)
      PROVE  PayInv' /\ [Settled!Next]_Balances
  <2>1. PayInv' /\ \E s \in Key, r \in Address, n \in Amount : Settled!Pay(s, r, n)
    BY <1>5, AppliedPaid
  <2> QED
    BY <2>1 DEF Settled!Next
<1> QED
  BY <1>2, <1>3, <1>4, <1>5 DEF Next

LEMMA StartsPaid ==
  ASSUME Init
  PROVE  PayInv /\ Balances \in [Address -> Nat]
<1>1. Inv /\ made = <<>>
  BY Initially DEF Init
<1>2. Made = {} /\ Counted = {}
  BY <1>1 DEF Made, Counted, Where
<1>3. Left(Counted) = Given
  BY <1>2 DEF Left
<1>4. ASSUME NEW a \in Address
      PROVE  IsFiniteSet(Held(a)) /\ SetBalance(a) \in Nat
  <2>1. Held(a) = ToSet(Loaded(a))
    BY <1>3, GivenFacts DEF Held
  <2>2. IsFiniteSet(ToSet(Loaded(a)))
    BY GivenFacts, SumOfList
  <2>3. IsFiniteSet(Held(a))
    BY <2>1, <2>2, Zenon
  <2>4. \A u \in Held(a) : u.amount \in Nat
    BY <1>1, HeldFacts DEF Held, Utxo
  <2> QED
    BY <2>3, <2>4, HeldSum, SumFacts
<1> QED
  BY <1>2, <1>4 DEF PayInv, Balances

(* Applying is the only step that changes the balances that the UTXO set   *)
(* of a miner shows, and each applied transaction is one payment that was  *)
(* asked for: the amount goes from the sender, who has it, to the          *)
(* recipient, and the change back, however many transactions were given    *)
(* up, conflict with it or never got there.                                *)
THEOREM AppliedPays == Spec => SetPays
<1>1. Init => Inv /\ PayInv /\ Balances \in [Address -> Nat]
  BY Initially, StartsPaid
<1>2. Inv /\ PayInv /\ [Next]_vars => PayInv' /\ [Settled!Next]_Balances
  BY StepPays
<1> QED
  BY <1>1, <1>2, Always, PTL DEF Spec, SetPays, Settled!Spec, Balances
=============================================================================
