----------------------------- MODULE DataLemmas -----------------------------
(***************************************************************************)
(* Facts about data that the proofs share: recursion and induction up to a *)
(* number, ranks in an order, and flattened sequences.                     *)
(*                                                                         *)
(* The induction theorems of the library take an operator, which the       *)
(* provers at hand cannot instantiate. WFMin, that a set in a well-founded *)
(* order has a least element, takes a set: NatMin, NatSet and UpTo are     *)
(* induction for a set of numbers, and Recursion says that a function      *)
(* defined step by step exists.                                            *)
(***************************************************************************)
EXTENDS Integers, SequencesExt, FiniteSetTheorems, SequenceTheorems, TLAPS

\* A set of numbers that is not empty has a least one.
LEMMA NatMin ==
  ASSUME NEW T \in SUBSET Nat, T # {}
  PROVE  \E n \in T : \A m \in T : n <= m
<1> DEFINE R == {p \in Nat \X Nat : p[1] < p[2]}
<1>1. \E n \in T : \A m \in T : ~ (<<m, n>> \in R)
  <2>1. IsWellFoundedOn(R, Nat)
    BY NatLessThanWellFounded DEF OpToRel
  <2> HIDE DEF R
  <2> QED  BY <2>1, WFMin
<1>2. \A m, n \in T : m < n => <<m, n>> \in R
  OBVIOUS
<1>3. \A m, n \in T : ~(m < n) => n <= m
  OBVIOUS
<1> HIDE DEF R
<1> QED  BY <1>1, <1>2, <1>3

\* Induction for a set.
LEMMA NatSet ==
  ASSUME NEW S, 0 \in S, \A n \in Nat : n \in S => n + 1 \in S
  PROVE  Nat \subseteq S
<1> DEFINE T == Nat \ S
<1>1. SUFFICES ASSUME T # {} PROVE FALSE
  OBVIOUS
<1>2. PICK n \in T : \A m \in T : n <= m
  BY <1>1, NatMin, T \subseteq Nat
<1>3. n # 0 /\ n - 1 \in Nat /\ n - 1 \notin T
  BY <1>2
<1> QED  BY <1>3

\* Induction for a set, up to a number.
LEMMA UpTo ==
  ASSUME NEW n \in Nat, NEW S, 0 \in S, \A i \in 1..n : i - 1 \in S => i \in S
  PROVE  0..n \subseteq S
<1> DEFINE T == {k \in Nat : k <= n => k \in S}
<1>1. 0 \in T
  OBVIOUS
<1>2. ASSUME NEW k \in Nat, k \in T PROVE k + 1 \in T
  <2>1. k + 1 <= n => k \in S /\ k + 1 \in 1..n /\ (k + 1) - 1 = k
    BY <1>2
  <2>2. k + 1 <= n => k + 1 \in S
    BY <2>1
  <2> QED  BY <2>2
<1>3. Nat \subseteq T
  <2> HIDE DEF T
  <2> QED  BY <1>1, <1>2, NatSet
<1> QED  BY <1>3

\* f is what the steps make of a base, one after the other.
Steps(n, T) == [1..n -> [T -> T]]
Follows(f, n, base, step, T) ==
  /\ f \in [0..n -> T]
  /\ f[0] = base
  /\ \A i \in 1..n : f[i] = step[i][f[i - 1]]

\* A function defined step by step up to a number exists.
LEMMA Recursion ==
  ASSUME NEW T, NEW n \in Nat, NEW base \in T, NEW step \in Steps(n, T)
  PROVE  \E f : Follows(f, n, base, step, T)
<1> DEFINE Has(k) == \E f : Follows(f, k, base, step, T)
           S == {k \in Nat : k <= n => Has(k)}
<1>1. 0 \in S
  <2> DEFINE f == [i \in 0..0 |-> base]
  <2>1. f \in [0..0 -> T] /\ f[0] = base
    OBVIOUS
  <2> HIDE DEF f
  <2>2. Has(0)
    BY <2>1 DEF Follows
  <2> HIDE DEF Has
  <2> QED  BY <2>2
<1>2. ASSUME NEW k \in Nat, k \in S PROVE k + 1 \in S
  <2>1. SUFFICES ASSUME k + 1 <= n, Has(k) PROVE Has(k + 1)
    <3> HIDE DEF Has
    <3> QED  BY <1>2
  <2>2. PICK f : Follows(f, k, base, step, T)
    BY <2>1
  <2> DEFINE g == [i \in 0..(k + 1) |-> IF i = k + 1 THEN step[i][f[k]] ELSE f[i]]
  <2>3. g \in [0..(k + 1) -> T]
    <3>1. step[k + 1] \in [T -> T] /\ f[k] \in T
      BY <2>1, <2>2 DEF Follows, Steps
    <3> QED  BY <2>2, <3>1 DEF Follows
  <2>4. g[0] = base
    BY <2>2 DEF Follows
  <2>5. ASSUME NEW i \in 1..(k + 1) PROVE g[i] = step[i][g[i - 1]]
    <3>1. CASE i = k + 1
      BY <3>1
    <3>2. CASE i # k + 1
      BY <3>2, <2>2 DEF Follows
    <3> QED  BY <3>1, <3>2
  <2> HIDE DEF g
  <2> QED  BY <2>3, <2>4, <2>5 DEF Follows
<1>3. Nat \subseteq S
  <2> HIDE DEF S
  <2> QED  BY <1>1, <1>2, NatSet
<1>4. Has(n)
  <2> HIDE DEF Has
  <2> QED  BY <1>3
<1> QED  BY <1>4

\* R orders S: one after the other.
Orders(R, S) ==
  /\ \A x \in S : <<x, x>> \notin R
  /\ \A x, y \in S : x = y \/ <<x, y>> \in R \/ <<y, x>> \in R
  /\ \A x, y, z \in S : <<x, y>> \in R /\ <<y, z>> \in R => <<x, z>> \in R

\* How many elements of S come before x.
Rank(x, R, S) == Cardinality(SetLessThan(x, R, S))

\* Ranks in a strict total order of a finite set follow the order.
LEMMA RankIsMonotone ==
  ASSUME NEW S, IsFiniteSet(S), NEW R, Orders(R, S)
  PROVE  /\ \A x \in S : Rank(x, R, S) \in 0..(Cardinality(S) - 1)
         /\ \A x, y \in S : <<x, y>> \in R => Rank(x, R, S) < Rank(y, R, S)
<1>1. \A x \in S : IsFiniteSet(SetLessThan(x, R, S)) /\ Rank(x, R, S) \in Nat
  <2> SUFFICES ASSUME NEW x \in S
               PROVE  IsFiniteSet(SetLessThan(x, R, S)) /\ Rank(x, R, S) \in Nat
    OBVIOUS
  <2>1. SetLessThan(x, R, S) \in SUBSET S
    BY DEF SetLessThan
  <2>2. IsFiniteSet(SetLessThan(x, R, S))
    BY <2>1, FS_Subset
  <2> QED  BY <2>2, FS_CardinalityType DEF Rank
<1>2. Cardinality(S) \in Nat
  BY FS_CardinalityType
<1>3. ASSUME NEW x \in S PROVE Rank(x, R, S) < Cardinality(S)
  <2>1. SetLessThan(x, R, S) \in SUBSET S /\ SetLessThan(x, R, S) # S
    BY DEF SetLessThan, Orders
  <2>2. Cardinality(SetLessThan(x, R, S)) <= Cardinality(S) /\ Cardinality(SetLessThan(x, R, S)) # Cardinality(S)
    BY <2>1, FS_Subset
  <2> QED  BY <1>1, <1>2, <2>2 DEF Rank
<1>4. ASSUME NEW x \in S, NEW y \in S, <<x, y>> \in R PROVE Rank(x, R, S) < Rank(y, R, S)
  <2> DEFINE X == SetLessThan(x, R, S)
             Y == SetLessThan(y, R, S)
  <2>1. X \in SUBSET Y /\ X # Y
    <3>1. x \in Y /\ x \notin X
      BY <1>4 DEF SetLessThan, Orders
    <3>2. \A z \in X : z \in Y
      BY <1>4 DEF SetLessThan, Orders
    <3> QED  BY <3>1, <3>2
  <2>2. Cardinality(X) <= Cardinality(Y) /\ Cardinality(X) # Cardinality(Y)
    <3> HIDE DEF X, Y
    <3>1. IsFiniteSet(Y)
      BY <1>1 DEF Y
    <3> QED  BY <2>1, <3>1, FS_Subset
  <2> QED  BY <1>1, <2>2 DEF Rank
<1> QED  BY <1>1, <1>2, <1>3, <1>4

\* Every number below the size of the set is the rank of an element.
LEMMA Ranking ==
  ASSUME NEW S, IsFiniteSet(S), NEW R, Orders(R, S), NEW n \in 1..Cardinality(S)
  PROVE  \E x \in S : Rank(x, R, S) = n - 1
<1> DEFINE T == 0..(Cardinality(S) - 1)
           f == [x \in S |-> Rank(x, R, S)]
<1>1. Cardinality(S) \in Nat
  BY FS_CardinalityType
<1>2. IsFiniteSet(T) /\ Cardinality(T) = Cardinality(S)
  <2>1. 0 \in Int /\ Cardinality(S) - 1 \in Int /\ 0 <= Cardinality(S) - 1
    BY <1>1
  <2>2. \A a, b \in Int : IsFiniteSet(a..b) /\ Cardinality(a..b) = IF a > b THEN 0 ELSE b - a + 1
    BY FS_Interval
  <2>3. IsFiniteSet(T)
    BY <2>1, <2>2
  <2>4. Cardinality(T) = IF 0 > Cardinality(S) - 1 THEN 0 ELSE (Cardinality(S) - 1) - 0 + 1
    <3> DEFINE b == Cardinality(S) - 1
    <3>1. b \in Int
      BY <2>1
    <3> HIDE DEF b
    <3>2. Cardinality(0..b) = IF 0 > b THEN 0 ELSE b - 0 + 1
      BY <2>1, <2>2, <3>1
    <3> QED  BY <3>2 DEF b
  <2>5. Cardinality(T) = Cardinality(S)
    <3> HIDE DEF T
    <3> QED  BY <2>1, <2>4, <1>1
  <2> QED  BY <2>3, <2>5
<1>3. f \in Injection(S, T)
  <2>1. f \in [S -> T]
    BY RankIsMonotone
  <2>2. ASSUME NEW x \in S, NEW y \in S, x # y PROVE f[x] # f[y]
    <3>1. Rank(x, R, S) \in Int /\ Rank(y, R, S) \in Int
      BY RankIsMonotone
    <3>2. Rank(x, R, S) < Rank(y, R, S) \/ Rank(y, R, S) < Rank(x, R, S)
      BY <2>2, RankIsMonotone DEF Orders
    <3> QED  BY <3>1, <3>2
  <2> HIDE DEF f
  <2> QED  BY <2>1, <2>2 DEF Injection, IsInjective
<1>4. f \in Surjection(S, T)
  <2> HIDE DEF f, T
  <2> QED  BY <1>2, <1>3, FS_Injection
<1>5. n - 1 \in T
  BY <1>1
<1>6. \E x \in S : f[x] = n - 1
  <2> HIDE DEF f, T
  <2> QED  BY <1>4, <1>5 DEF Surjection
<1> QED  BY <1>6

\* f joins the sequences, one after the other.
Joins(f, seqs, S) ==
  /\ f \in [0..Len(seqs) -> Seq(S)]
  /\ f[0] = <<>>
  /\ \A i \in 1..Len(seqs) : f[i] = f[i - 1] \o seqs[i]

\* The sequences joined so far, as a function.
LEMMA JoinsExist ==
  ASSUME NEW S, NEW seqs \in Seq(Seq(S))
  PROVE  \E f : Joins(f, seqs, S)
<1> DEFINE n == Len(seqs)
           T == Seq(S)
           step == [i \in 1..n |-> [s \in T |-> s \o seqs[i]]]
<1>1. n \in Nat /\ <<>> \in T /\ \A i \in 1..n : seqs[i] \in T
  OBVIOUS
<1>2. \A s, t \in T : s \o t \in T
  BY ConcatProperties
<1>3. step \in Steps(n, T)
  <2> HIDE DEF n, T
  <2> QED  BY <1>1, <1>2 DEF Steps
<1>4. PICK f : Follows(f, n, <<>>, step, T)
  <2> HIDE DEF n, T, step
  <2> QED  BY <1>1, <1>3, Recursion
<1>5. f \in [0..n -> T] /\ f[0] = <<>>
  BY <1>4 DEF Follows
<1>6. ASSUME NEW i \in 1..n PROVE f[i] = f[i - 1] \o seqs[i]
  <2>1. f[i] = step[i][f[i - 1]] /\ i - 1 \in 0..n
    <3> HIDE DEF step, T, n
    <3> QED  BY <1>1, <1>4 DEF Follows
  <2>2. f[i - 1] \in T
    BY <1>5, <2>1
  <2> HIDE DEF T, n
  <2> QED  BY <2>1, <2>2
<1> QED  BY <1>5, <1>6 DEF Joins

\* Flattening is the last of these.
LEMMA FlattenJoins ==
  ASSUME NEW S, NEW seqs \in Seq(Seq(S))
  PROVE  \E f : Joins(f, seqs, S) /\ FlattenSeq(seqs) = f[Len(seqs)]
<1>1. PICK f : Joins(f, seqs, S)
  BY JoinsExist
<1>2. CASE Len(seqs) = 0
  <2>1. seqs = <<>>
    BY <1>2
  <2> QED  BY <1>1, <1>2, <2>1 DEF Joins, FlattenSeq
<1>3. CASE Len(seqs) # 0
  <2> DEFINE n == Len(seqs)
             rec(g) == g = [i \in 1..n |-> IF i = 1 THEN seqs[i] ELSE g[i - 1] \o seqs[i]]
             up == CHOOSE g : rec(g)
             h == [i \in 1..n |-> f[i]]
  <2>1. n \in Nat \ {0} /\ \A i \in 1..n : seqs[i] \in Seq(S)
    BY <1>3
  <2>2. /\ f \in [0..n -> Seq(S)] /\ f[0] = <<>>
        /\ \A i \in 1..n : f[i] = f[i - 1] \o seqs[i]
    BY <1>1 DEF Joins
  <2>3. FlattenSeq(seqs) = up[n]
    BY <1>3 DEF FlattenSeq
  <2> HIDE DEF n
  <2>4. f[1] = seqs[1]
    <3>1. seqs[1] \in Seq(S) /\ 1 \in 1..n /\ 1 - 1 = 0
      BY <2>1
    <3>2. f[1] = <<>> \o seqs[1]
      BY <2>2, <3>1
    <3> QED  BY <3>1, <3>2, ConcatEmptySeq
  <2>5. rec(h)
    <3> SUFFICES ASSUME NEW i \in 1..n PROVE f[i] = IF i = 1 THEN seqs[i] ELSE h[i - 1] \o seqs[i]
      OBVIOUS
    <3>1. CASE i = 1
      BY <2>4, <3>1
    <3>2. CASE i # 1
      <4>1. i - 1 \in 1..n /\ h[i - 1] = f[i - 1]
        BY <2>1, <3>2
      <4> QED  BY <2>2, <3>2, <4>1
    <3> QED  BY <3>1, <3>2
  <2>6. rec(up)
    <3> HIDE DEF h
    <3> QED  BY <2>5
  <2> HIDE DEF up
  <2>7. /\ 1 \in 1..n => up[1] = seqs[1]
        /\ \A i \in 1..n : i # 1 => up[i] = up[i - 1] \o seqs[i]
    BY <2>6
  <2> DEFINE A == {i \in 0..n : i = 0 \/ up[i] = f[i]}
  <2>8. 0 \in A
    BY <2>1
  <2>9. ASSUME NEW i \in 1..n, i - 1 \in A PROVE i \in A
    <3>1. CASE i = 1
      BY <2>1, <2>4, <2>7, <3>1
    <3>2. CASE i # 1
      <4>1. i - 1 # 0 /\ i - 1 \in 1..n
        BY <2>1, <3>2
      <4>2. up[i - 1] = f[i - 1]
        BY <2>9, <4>1
      <4>3. up[i] = f[i]
        BY <2>2, <2>7, <3>2, <4>2
      <4> QED  BY <4>3
    <3> QED  BY <3>1, <3>2
  <2>10. 0..n \subseteq A
    <3> HIDE DEF A
    <3> QED  BY <2>1, <2>8, <2>9, UpTo
  <2>11. up[n] = f[n]
    BY <2>1, <2>10
  <2> QED  BY <1>1, <2>3, <2>11 DEF n
<1> QED  BY <1>2, <1>3

\* Flattening keeps the type.
LEMMA FlattenTyped ==
  ASSUME NEW S, NEW seqs \in Seq(Seq(S))
  PROVE  FlattenSeq(seqs) \in Seq(S)
<1>1. PICK f : Joins(f, seqs, S) /\ FlattenSeq(seqs) = f[Len(seqs)]
  BY FlattenJoins
<1> QED  BY <1>1, Len(seqs) \in 0..Len(seqs) DEF Joins

\* The parts of a flattened sequence, one after the other.
JoinOf(seqs, S) == CHOOSE f : Joins(f, seqs, S) /\ FlattenSeq(seqs) = f[Len(seqs)]

\* The joined sequences, named.
LEMMA JoinOfIs ==
  ASSUME NEW S, NEW seqs \in Seq(Seq(S))
  PROVE  LET f == JoinOf(seqs, S) IN
         /\ f \in [0..Len(seqs) -> Seq(S)]
         /\ f[0] = <<>>
         /\ \A i \in 1..Len(seqs) : f[i] = f[i - 1] \o seqs[i]
         /\ FlattenSeq(seqs) = f[Len(seqs)]
<1>1. \E f : Joins(f, seqs, S) /\ FlattenSeq(seqs) = f[Len(seqs)]
  BY FlattenJoins
<1>2. Joins(JoinOf(seqs, S), seqs, S) /\ FlattenSeq(seqs) = JoinOf(seqs, S)[Len(seqs)]
  BY <1>1, Zenon DEF JoinOf
<1> QED  BY <1>2 DEF Joins

\* The parts up to n, and none from a to b.
Grows(f, n, seqs, S) == f \in [0..n -> Seq(S)] /\ \A i \in 1..n : f[i] = f[i - 1] \o seqs[i]
Nothing(seqs, n, a, b) == \A i \in 1..n : a < i /\ i <= b => seqs[i] = <<>>

\* Joining empty sequences changes nothing.
LEMMA JoinNothing ==
  ASSUME NEW S, NEW n \in Nat, NEW f, NEW seqs, Grows(f, n, seqs, S),
         NEW a \in 0..n, NEW b \in 0..n, a <= b, Nothing(seqs, n, a, b)
  PROVE  f[b] = f[a]
<1> USE DEF Grows, Nothing
<1> DEFINE A == {i \in 0..n : a <= i /\ i <= b => f[i] = f[a]}
<1>1. 0 \in A
  OBVIOUS
<1>2. ASSUME NEW i \in 1..n, i - 1 \in A PROVE i \in A
  <2>1. CASE a < i /\ i <= b
    <3>1. f[i - 1] = f[a] /\ i - 1 \in 0..n
      BY <1>2, <2>1
    <3>2. f[i] = f[i - 1] \o <<>>
      BY <2>1
    <3>3. f[i - 1] \in Seq(S)
      BY <3>1
    <3>4. f[i] = f[i - 1]
      BY <3>2, <3>3, ConcatEmptySeq
    <3> QED  BY <3>1, <3>4
  <2>2. CASE ~(a < i /\ i <= b)
    BY <2>2
  <2> QED  BY <2>1, <2>2
<1>3. 0..n \subseteq A
  <2> HIDE DEF A
  <2> QED  BY <1>1, <1>2, UpTo
<1> QED  BY <1>3

\* A function that joins them ends in the flattened sequence.
LEMMA FlattenIs ==
  ASSUME NEW S, NEW seqs \in Seq(Seq(S)), NEW f, f[0] = <<>>,
         \A i \in 1..Len(seqs) : f[i] = f[i - 1] \o seqs[i]
  PROVE  FlattenSeq(seqs) = f[Len(seqs)]
<1> DEFINE n == Len(seqs)
           J == JoinOf(seqs, S)
           A == {i \in 0..n : J[i] = f[i]}
<1>1. /\ n \in Nat /\ J[0] = <<>> /\ FlattenSeq(seqs) = J[n]
      /\ \A i \in 1..n : J[i] = J[i - 1] \o seqs[i]
  <2>1. n \in Nat
    OBVIOUS
  <2> HIDE DEF J
  <2> QED  BY <2>1, JoinOfIs DEF J
<1>2. \A i \in 1..n : f[i] = f[i - 1] \o seqs[i]
  OBVIOUS
<1> HIDE DEF n, J
<1>3. 0 \in A
  BY <1>1
<1>31. ASSUME NEW i \in 1..n, i - 1 \in A PROVE i \in A
  <2>1. i \in 0..n /\ J[i - 1] = f[i - 1]
    BY <1>1, <1>31
  <2>2. J[i] = f[i]
    BY <1>1, <1>2, <2>1
  <2> QED  BY <2>1, <2>2
<1>4. 0..n \subseteq A
  <2> HIDE DEF A
  <2> QED  BY <1>1, <1>3, <1>31, UpTo
<1>5. J[n] = f[n]
  BY <1>1, <1>4
<1> QED  BY <1>1, <1>5 DEF n

\* What is flattened in two parts.
LEMMA FlattenConcat ==
  ASSUME NEW S, NEW u \in Seq(Seq(S)), NEW v \in Seq(Seq(S))
  PROVE  FlattenSeq(u \o v) = FlattenSeq(u) \o FlattenSeq(v)
<1> DEFINE U == JoinOf(u, S)
           V == JoinOf(v, S)
           m == Len(u)
           n == Len(v)
           w == u \o v
           f == [i \in 0..(m + n) |-> IF i <= m THEN U[i] ELSE U[m] \o V[i - m]]
<1>1. /\ m \in Nat /\ U \in [0..m -> Seq(S)] /\ U[0] = <<>> /\ FlattenSeq(u) = U[m]
      /\ \A i \in 1..m : U[i] = U[i - 1] \o u[i]
  <2>1. m \in Nat
    OBVIOUS
  <2> HIDE DEF U
  <2> QED  BY <2>1, JoinOfIs DEF U
<1>2. /\ n \in Nat /\ V \in [0..n -> Seq(S)] /\ V[0] = <<>> /\ FlattenSeq(v) = V[n]
      /\ \A i \in 1..n : V[i] = V[i - 1] \o v[i]
  <2>1. n \in Nat
    OBVIOUS
  <2> HIDE DEF V
  <2> QED  BY <2>1, JoinOfIs DEF V
<1>3. /\ w \in Seq(Seq(S)) /\ Len(w) = m + n
      /\ \A i \in 1..m : w[i] = u[i]
      /\ \A i \in 1..n : w[m + i] = v[i]
  <2>1. w \in Seq(Seq(S)) /\ Len(w) = m + n
    BY ConcatProperties
  <2>2. \A i \in 1..(m + n) : w[i] = IF i <= m THEN u[i] ELSE v[i - m]
    BY ConcatProperties
  <2>3. \A i \in 1..m : i \in 1..(m + n) /\ i <= m
    BY <1>1, <1>2
  <2>4. \A i \in 1..n : m + i \in 1..(m + n) /\ ~(m + i <= m) /\ (m + i) - m = i
    BY <1>1, <1>2
  <2> HIDE DEF w, m, n
  <2> QED  BY <2>1, <2>2, <2>3, <2>4
<1>4. \A i \in 1..n : v[i] \in Seq(S)
  OBVIOUS
<1> HIDE DEF U, V, m, n, w
<1>5. \A j \in 0..n : f[m + j] = U[m] \o V[j]
  <2> SUFFICES ASSUME NEW j \in 0..n PROVE f[m + j] = U[m] \o V[j]
    OBVIOUS
  <2>1. CASE j = 0
    <3>1. f[m + j] = U[m] /\ U[m] \in Seq(S)
      BY <1>1, <1>2, <2>1
    <3> QED  BY <1>2, <2>1, <3>1, ConcatEmptySeq
  <2>2. CASE j # 0
    <3>1. m + j \in 0..(m + n) /\ ~(m + j <= m) /\ (m + j) - m = j
      BY <1>1, <1>2, <2>2
    <3> QED  BY <3>1
  <2> QED  BY <2>1, <2>2
<1>6. f[0] = <<>>
  BY <1>1, <1>2
<1>7. ASSUME NEW i \in 1..(m + n) PROVE f[i] = f[i - 1] \o w[i]
  <2>1. CASE i <= m
    <3>1. i \in 1..m /\ f[i] = U[i] /\ f[i - 1] = U[i - 1]
      BY <1>1, <1>2, <2>1
    <3> HIDE DEF f
    <3> QED  BY <1>1, <1>3, <3>1
  <2>2. CASE ~(i <= m)
    <3> DEFINE j == i - m
    <3>1. j \in 1..n /\ j - 1 \in 0..n /\ j \in 0..n /\ m + j = i /\ m + (j - 1) = i - 1
      BY <1>1, <1>2, <2>2
    <3> HIDE DEF f, j
    <3>2. f[i] = U[m] \o V[j] /\ f[i - 1] = U[m] \o V[j - 1] /\ w[i] = v[j]
      BY <1>3, <1>5, <3>1
    <3>3. V[j] = V[j - 1] \o v[j]
      BY <1>2, <3>1
    <3>4. U[m] \in Seq(S) /\ V[j - 1] \in Seq(S) /\ v[j] \in Seq(S)
      BY <1>1, <1>2, <1>4, <3>1
    <3>5. U[m] \o (V[j - 1] \o v[j]) = (U[m] \o V[j - 1]) \o v[j]
      <4> DEFINE a == U[m]
                 b == V[j - 1]
                 c == v[j]
      <4>1. a \in Seq(S) /\ b \in Seq(S) /\ c \in Seq(S)
        BY <3>4
      <4> HIDE DEF a, b, c
      <4>2. a \o (b \o c) = (a \o b) \o c
        BY <4>1, ConcatAssociative
      <4> QED  BY <4>2 DEF a, b, c
    <3> QED  BY <3>2, <3>3, <3>5
  <2> QED  BY <2>1, <2>2
<1>8. FlattenSeq(w) = f[m + n]
  <2> HIDE DEF f
  <2> QED  BY <1>3, <1>6, <1>7, FlattenIs
<1>9. f[m + n] = U[m] \o V[n]
  <2>1. n \in 0..n
    BY <1>2
  <2> HIDE DEF f
  <2> QED  BY <1>5, <2>1
<1> QED  BY <1>1, <1>2, <1>8, <1>9 DEF w

\* Each element replaced by a sequence.
Spread(h, s) == FlattenSeq([p \in DOMAIN s |-> h[s[p]]])

\* The result is a sequence.
LEMMA SpreadTyped ==
  ASSUME NEW X, NEW T, NEW h \in [X -> Seq(T)], NEW s \in Seq(X)
  PROVE  /\ [p \in DOMAIN s |-> h[s[p]]] \in Seq(Seq(T))
         /\ Spread(h, s) \in Seq(T)
<1>1. \A p \in 1..Len(s) : h[s[p]] \in Seq(T)
  OBVIOUS
<1>2. [p \in DOMAIN s |-> h[s[p]]] \in Seq(Seq(T))
  BY <1>1, DOMAIN s = 1..Len(s), Len(s) \in Nat
<1> QED  BY <1>2, FlattenTyped DEF Spread

\* An empty sequence, and one of one element.
LEMMA SpreadFew ==
  ASSUME NEW X, NEW T, NEW h \in [X -> Seq(T)]
  PROVE  /\ Spread(h, <<>>) = <<>>
         /\ \A x \in X : Spread(h, <<x>>) = h[x]
<1>1. Spread(h, <<>>) = <<>>
  <2> DEFINE none == [p \in DOMAIN <<>> |-> h[<<>>[p]]]
             f == [i \in {0} |-> <<>>]
  <2>1. none \in Seq(Seq(T)) /\ Len(none) = 0
    OBVIOUS
  <2>2. f[0] = <<>> /\ \A i \in 1..0 : f[i] = f[i - 1] \o none[i]
    OBVIOUS
  <2> HIDE DEF none, f
  <2>3. FlattenSeq(none) = f[0]
    BY <2>1, <2>2, FlattenIs
  <2> QED  BY <2>2, <2>3 DEF Spread, none
<1>2. ASSUME NEW x \in X PROVE Spread(h, <<x>>) = h[x]
  <2> DEFINE one == [p \in DOMAIN <<x>> |-> h[<<x>>[p]]]
             f == [i \in 0..1 |-> IF i = 0 THEN <<>> ELSE h[x]]
  <2>1. one \in Seq(Seq(T)) /\ Len(one) = 1 /\ one[1] = h[x]
    OBVIOUS
  <2>2. f[0] = <<>> /\ f[1] = h[x] /\ h[x] \in Seq(T)
    OBVIOUS
  <2> HIDE DEF one, f
  <2>3. f[1] = f[0] \o one[1]
    <3>1. <<>> \o h[x] = h[x]
      BY <2>2, ConcatEmptySeq
    <3> QED  BY <2>1, <2>2, <3>1
  <2>4. \A i \in 1..Len(one) : f[i] = f[i - 1] \o one[i]
    <3>1. \A i \in 1..1 : i = 1 /\ i - 1 = 0
      OBVIOUS
    <3> QED  BY <2>1, <2>3, <3>1
  <2>5. FlattenSeq(one) = f[1]
    BY <2>1, <2>2, <2>4, FlattenIs
  <2> QED  BY <2>2, <2>5 DEF Spread, one
<1> QED  BY <1>1, <1>2

\* Two sequences one after the other.
LEMMA SpreadConcat ==
  ASSUME NEW X, NEW T, NEW h \in [X -> Seq(T)], NEW r \in Seq(X), NEW s \in Seq(X)
  PROVE  Spread(h, r \o s) = Spread(h, r) \o Spread(h, s)
<1> DEFINE z == r \o s
           u == [p \in DOMAIN r |-> h[r[p]]]
           v == [p \in DOMAIN s |-> h[s[p]]]
           w == [p \in DOMAIN z |-> h[z[p]]]
           m == Len(r)
           n == Len(s)
           uv == u \o v
<1>1. m \in Nat /\ n \in Nat /\ Len(u) = m /\ Len(v) = n
  OBVIOUS
<1>2. /\ z \in Seq(X) /\ Len(z) = m + n
      /\ \A p \in 1..(m + n) : z[p] = IF p <= m THEN r[p] ELSE s[p - m]
  BY ConcatProperties
<1>3. u \in Seq(Seq(T)) /\ v \in Seq(Seq(T)) /\ w \in Seq(Seq(T))
  <2>1. z \in Seq(X)
    BY <1>2
  <2> HIDE DEF z
  <2>2. w \in Seq(Seq(T))
    BY <2>1, SpreadTyped
  <2>3. u \in Seq(Seq(T)) /\ v \in Seq(Seq(T))
    BY SpreadTyped
  <2> QED  BY <2>2, <2>3
<1>4. Len(w) = m + n /\ \A p \in 1..(m + n) : w[p] = h[z[p]]
  <2>1. DOMAIN z = 1..(m + n)
    <3> HIDE DEF z
    <3> QED  BY <1>2
  <2> HIDE DEF z, m, n
  <2> QED  BY <1>1, <2>1
<1>5. /\ \A p \in 1..m : u[p] = h[r[p]]
      /\ \A p \in 1..n : v[p] = h[s[p]]
  OBVIOUS
<1>6. /\ uv \in Seq(Seq(T)) /\ Len(uv) = m + n
      /\ \A p \in 1..(m + n) : uv[p] = IF p <= m THEN u[p] ELSE v[p - m]
  <2> DEFINE S == Seq(T)
  <2>1. u \in Seq(S) /\ v \in Seq(S) /\ Len(u) = m /\ Len(v) = n
    BY <1>1, <1>3
  <2> HIDE DEF u, v, S, m, n
  <2>2. /\ uv \in Seq(S) /\ Len(uv) = m + n
        /\ \A p \in 1..(m + n) : uv[p] = IF p <= m THEN u[p] ELSE v[p - m]
    BY <2>1, ConcatProperties
  <2> QED  BY <2>2 DEF S
<1> HIDE DEF u, v, w, m, n, uv, z
<1>7. \A p \in 1..(m + n) : w[p] = uv[p]
  <2> SUFFICES ASSUME NEW p \in 1..(m + n) PROVE w[p] = uv[p]
    OBVIOUS
  <2>1. CASE p <= m
    <3>1. p \in 1..m
      BY <1>1, <2>1
    <3>2. z[p] = r[p] /\ uv[p] = u[p] /\ w[p] = h[z[p]] /\ u[p] = h[r[p]]
      BY <1>2, <1>4, <1>5, <1>6, <2>1, <3>1
    <3> QED  BY <3>2
  <2>2. CASE ~(p <= m)
    <3>1. p - m \in 1..n
      BY <1>1, <2>2
    <3>2. z[p] = s[p - m] /\ uv[p] = v[p - m] /\ w[p] = h[z[p]] /\ v[p - m] = h[s[p - m]]
      BY <1>2, <1>4, <1>5, <1>6, <2>2, <3>1
    <3> QED  BY <3>2
  <2> QED  BY <2>1, <2>2
<1>8. w = uv
  BY <1>1, <1>3, <1>4, <1>6, <1>7, SeqEqual
<1>9. FlattenSeq(uv) = FlattenSeq(u) \o FlattenSeq(v)
  BY <1>3, FlattenConcat DEF uv
<1> QED  BY <1>8, <1>9 DEF Spread, u, v, w, z

\* The same with operators that are not looked into.
Both(r, s) == r \o s
Maps(h, X, T) == h \in [X -> Seq(T)]
Lists(seqs, X) == seqs \in Seq(Seq(X))

\* What spreads over two sequences, the empty one and those of one element.
LEMMA SpreadBoth ==
  ASSUME NEW X, NEW T, NEW h, Maps(h, X, T)
  PROVE  /\ \A r, s \in Seq(X) : Spread(h, Both(r, s)) = Both(Spread(h, r), Spread(h, s))
         /\ \A s \in Seq(X) : Spread(h, s) \in Seq(T)
         /\ Spread(h, <<>>) = <<>>
         /\ \A x \in X : Spread(h, <<x>>) = h[x] /\ h[x] \in Seq(T)
<1>1. h \in [X -> Seq(T)]
  BY DEF Maps
<1>2. \A r, s \in Seq(X) : Spread(h, Both(r, s)) = Both(Spread(h, r), Spread(h, s))
  BY <1>1, SpreadConcat DEF Both
<1>3. \A s \in Seq(X) : Spread(h, s) \in Seq(T)
  BY <1>1, SpreadTyped
<1>4. Spread(h, <<>>) = <<>> /\ \A x \in X : Spread(h, <<x>>) = h[x]
  BY <1>1, SpreadFew
<1>5. \A x \in X : h[x] \in Seq(T)
  BY <1>1
<1> QED  BY <1>2, <1>3, <1>4, <1>5

\* Sequences flattened.
LEMMA SpreadFlatten ==
  ASSUME NEW X, NEW T, NEW h, Maps(h, X, T), NEW seqs, Lists(seqs, X)
  PROVE  /\ Lists([i \in DOMAIN seqs |-> Spread(h, seqs[i])], T)
         /\ Spread(h, FlattenSeq(seqs)) = FlattenSeq([i \in DOMAIN seqs |-> Spread(h, seqs[i])])
<1> DEFINE n == Len(seqs)
           J == JoinOf(seqs, X)
           new == [i \in DOMAIN seqs |-> Spread(h, seqs[i])]
           f == [i \in 0..n |-> Spread(h, J[i])]
<1>0. /\ \A r, s \in Seq(X) : Spread(h, Both(r, s)) = Both(Spread(h, r), Spread(h, s))
      /\ \A s \in Seq(X) : Spread(h, s) \in Seq(T)
      /\ Spread(h, <<>>) = <<>>
  BY SpreadBoth
<1>1. n \in Nat /\ DOMAIN seqs = 1..n /\ \A i \in 1..n : seqs[i] \in Seq(X)
  BY DEF Lists
<1>2. /\ J \in [0..n -> Seq(X)] /\ J[0] = <<>> /\ FlattenSeq(seqs) = J[n]
      /\ \A i \in 1..n : J[i] = J[i - 1] \o seqs[i]
  <2>1. seqs \in Seq(Seq(X))
    BY DEF Lists
  <2> HIDE DEF J
  <2> QED  BY <1>1, <2>1, JoinOfIs DEF J
<1> HIDE DEF n, J
<1>3. \A i \in 1..n : Spread(h, seqs[i]) \in Seq(T)
  BY <1>0, <1>1
<1>4. new \in Seq(Seq(T)) /\ Len(new) = n
  BY <1>1, <1>3
<1>5. f[0] = <<>>
  BY <1>0, <1>1, <1>2
<1>6. ASSUME NEW i \in 1..n PROVE f[i] = f[i - 1] \o new[i]
  <2>1. i - 1 \in 0..n /\ i \in 0..n
    BY <1>1
  <2>2. J[i - 1] \in Seq(X) /\ seqs[i] \in Seq(X) /\ J[i] = Both(J[i - 1], seqs[i])
    BY <1>1, <1>2, <2>1 DEF Both
  <2>3. Spread(h, J[i]) = Both(Spread(h, J[i - 1]), Spread(h, seqs[i]))
    BY <1>0, <2>2
  <2>4. f[i] = Spread(h, J[i]) /\ f[i - 1] = Spread(h, J[i - 1]) /\ new[i] = Spread(h, seqs[i])
    BY <1>1, <2>1
  <2> HIDE DEF f, new
  <2> QED  BY <2>3, <2>4 DEF Both
<1> HIDE DEF f, new
<1>7. FlattenSeq(new) = f[n]
  BY <1>4, <1>5, <1>6, FlattenIs
<1>8. f[n] = Spread(h, FlattenSeq(seqs))
  BY <1>1, <1>2 DEF f
<1> QED  BY <1>4, <1>7, <1>8 DEF new, Lists

\* A sequence with one element more than another.
LEMMA OneMore ==
  ASSUME NEW T, NEW x \in Seq(T), NEW y \in Seq(T), NEW b \in T, Len(x) = Len(y) + 1,
         x[Len(x)] = b, \A j \in 1..Len(y) : x[j] = y[j]
  PROVE  x = y \o <<b>>
<1> DEFINE z == y \o <<b>>
<1>1. z \in Seq(T) /\ Len(z) = Len(x) /\ Len(x) \in Nat
  OBVIOUS
<1>2. ASSUME NEW j \in 1..Len(x) PROVE x[j] = z[j]
  <2>1. CASE j = Len(x)
    <3>1. z[j] = b
      BY <2>1
    <3> QED  BY <2>1, <3>1
  <2>2. CASE j # Len(x)
    <3>1. j \in 1..Len(y)
      BY <2>2
    <3>2. z[j] = y[j]
      BY <3>1
    <3> QED  BY <3>1, <3>2
  <2> QED  BY <2>1, <2>2
<1> HIDE DEF z
<1>3. x = z
  BY <1>1, <1>2, SeqEqual
<1> QED  BY <1>3 DEF z

\* A piece of a sequence: one element at a time, and as a whole.
Piece(c, n, from, to) == [i \in 1..n |-> IF from <= i /\ i <= to THEN <<c[i]>> ELSE <<>>]
Cut(c, from, to) == [j \in 1..(to - from + 1) |-> c[from + j - 1]]

\* One element at a time, a piece is what it is as a whole.
LEMMA FlattenRange ==
  ASSUME NEW T, NEW n \in Nat, NEW c \in [1..n -> T], NEW from \in 1..(n + 1), NEW to \in 0..n,
         from <= to + 1
  PROVE  FlattenSeq(Piece(c, n, from, to)) = Cut(c, from, to)
<1> DEFINE seqs == [i \in 1..n |-> IF from <= i /\ i <= to THEN <<c[i]>> ELSE <<>>]
           m(i) == IF i < from THEN 0 ELSE IF i <= to THEN i - from + 1 ELSE to - from + 1
           f == [i \in 0..n |-> [j \in 1..m(i) |-> c[from + j - 1]]]
<1>1. seqs \in Seq(Seq(T)) /\ Len(seqs) = n
  OBVIOUS
<1>2. f[0] = <<>>
  <2>1. m(0) = 0 /\ 0 \in 0..n
    OBVIOUS
  <2>2. f[0] = [j \in 1..0 |-> c[from + j - 1]]
    BY <2>1
  <2> QED  BY <2>2
<1>3. ASSUME NEW i \in 1..n PROVE f[i] = f[i - 1] \o seqs[i]
  <2>1. i - 1 \in 0..n /\ i \in 0..n /\ n \in Nat /\ i \in Nat /\ from \in Nat /\ to \in Nat
    OBVIOUS
  <2>2. /\ m(i) \in Nat /\ m(i - 1) \in Nat
        /\ \A j \in 1..m(i) : from + j - 1 \in 1..n
        /\ \A j \in 1..m(i - 1) : from + j - 1 \in 1..n
    BY <2>1
  <2>3. f[i] \in Seq(T) /\ Len(f[i]) = m(i) /\ f[i - 1] \in Seq(T) /\ Len(f[i - 1]) = m(i - 1)
    <3>1. f[i] = [j \in 1..m(i) |-> c[from + j - 1]] /\ f[i - 1] = [j \in 1..m(i - 1) |-> c[from + j - 1]]
      <4> HIDE DEF m
      <4> QED  BY <2>1
    <3>2. /\ \A j \in 1..m(i) : c[from + j - 1] \in T
          /\ \A j \in 1..m(i - 1) : c[from + j - 1] \in T
      <4> HIDE DEF m
      <4> QED  BY <2>2
    <3>3. ASSUME NEW k \in Nat, \A j \in 1..k : c[from + j - 1] \in T
          PROVE  LET g == [j \in 1..k |-> c[from + j - 1]] IN g \in Seq(T) /\ Len(g) = k
      BY <3>3
    <3>4. f[i] \in Seq(T) /\ Len(f[i]) = m(i)
      <4> HIDE DEF m, f
      <4> QED  BY <2>2, <3>1, <3>2, <3>3
    <3>5. f[i - 1] \in Seq(T) /\ Len(f[i - 1]) = m(i - 1)
      <4> HIDE DEF m, f
      <4> QED  BY <2>2, <3>1, <3>2, <3>3
    <3> QED  BY <3>4, <3>5
  <2>4. \A j \in 1..m(i) : f[i][j] = c[from + j - 1]
    BY <2>1
  <2>5. \A j \in 1..m(i - 1) : f[i - 1][j] = c[from + j - 1]
    BY <2>1
  <2>6. CASE from <= i /\ i <= to
    <3>1. m(i) = m(i - 1) + 1 /\ from + m(i) - 1 = i /\ m(i) \in 1..m(i)
      BY <2>1, <2>6
    <3>2. seqs[i] = <<c[i]>> /\ c[i] \in T
      BY <2>6
    <3>3. f[i][m(i)] = c[i]
      <4> HIDE DEF m, f
      <4> QED  BY <2>4, <3>1
    <3>4. \A j \in 1..m(i - 1) : f[i][j] = f[i - 1][j]
      <4>1. \A j \in 1..m(i - 1) : j \in 1..m(i)
        BY <2>2, <3>1
      <4> HIDE DEF m, f
      <4> QED  BY <2>4, <2>5, <4>1
    <3>5. f[i] = f[i - 1] \o <<c[i]>>
      <4> DEFINE x == f[i]
                 y == f[i - 1]
                 b == c[i]
      <4>1. x \in Seq(T) /\ y \in Seq(T) /\ b \in T /\ Len(x) = Len(y) + 1 /\ x[Len(x)] = b
        BY <2>3, <3>1, <3>2, <3>3
      <4>2. \A j \in 1..Len(y) : x[j] = y[j]
        BY <2>3, <3>4
      <4> HIDE DEF x, y, b
      <4>3. x = y \o <<b>>
        BY <4>1, <4>2, OneMore
      <4> QED  BY <4>3 DEF x, y, b
    <3> QED  BY <3>2, <3>5
  <2>7. CASE ~(from <= i /\ i <= to)
    <3>1. m(i) = m(i - 1)
      BY <2>1, <2>7
    <3>2. seqs[i] = <<>>
      BY <2>7
    <3>3. f[i] = f[i - 1]
      <4> HIDE DEF m
      <4> QED  BY <2>1, <3>1
    <3>4. f[i - 1] \o <<>> = f[i - 1]
      <4> HIDE DEF f
      <4> QED  BY <2>3, ConcatEmptySeq
    <3> HIDE DEF f, seqs
    <3> QED  BY <3>2, <3>3, <3>4
  <2> QED  BY <2>6, <2>7
<1>4. m(n) = to - from + 1
  OBVIOUS
<1>5. FlattenSeq(seqs) = f[n]
  <2> HIDE DEF f, seqs
  <2> QED  BY <1>1, <1>2, <1>3, FlattenIs
<1>6. f[n] = [j \in 1..(to - from + 1) |-> c[from + j - 1]]
  BY <1>4
<1> QED  BY <1>5, <1>6 DEF Piece, Cut

\* Each element replaced by one other.
Singles(h, s, r) == Len(r) = Len(s) /\ \A p \in 1..Len(s) : h[s[p]] = <<r[p]>>

\* Each element becomes one other.
LEMMA SpreadSingles ==
  ASSUME NEW X, NEW T, NEW h, NEW s \in Seq(X), NEW r \in Seq(T), Singles(h, s, r)
  PROVE  Spread(h, s) = r
<1> DEFINE n == Len(s)
           one == [p \in 1..n |-> IF 1 <= p /\ p <= n THEN <<r[p]>> ELSE <<>>]
           all == [p \in DOMAIN s |-> h[s[p]]]
<1>1. n \in Nat /\ DOMAIN s = 1..n /\ \A p \in 1..n : 1 <= p /\ p <= n
  OBVIOUS
<1>2. r \in [1..n -> T]
  BY DEF Singles
<1>3. \A p \in 1..n : h[s[p]] = <<r[p]>>
  BY DEF Singles
<1>4. r = [j \in 1..(n - 1 + 1) |-> r[1 + j - 1]]
  <2>1. n - 1 + 1 = n /\ \A j \in 1..n : 1 + j - 1 = j
    BY <1>1
  <2>2. r = [j \in 1..n |-> r[j]]
    BY <1>2
  <2> HIDE DEF n
  <2> QED  BY <2>1, <2>2
<1> HIDE DEF n
<1>5. all = one
  BY <1>1, <1>3
<1>6. 1 \in 1..(n + 1) /\ n \in 0..n /\ 1 <= n + 1
  BY <1>1
<1>61. Piece(r, n, 1, n) = one /\ Cut(r, 1, n) = [j \in 1..(n - 1 + 1) |-> r[1 + j - 1]]
  BY DEF Piece, Cut
<1> HIDE DEF one
<1>62. FlattenSeq(Piece(r, n, 1, n)) = Cut(r, 1, n)
  BY <1>1, <1>2, <1>6, FlattenRange
<1>7. FlattenSeq(one) = [j \in 1..(n - 1 + 1) |-> r[1 + j - 1]]
  BY <1>61, <1>62
<1>8. FlattenSeq(all) = r
  <2> HIDE DEF all, one
  <2> QED  BY <1>4, <1>5, <1>7
<1> QED  BY <1>8 DEF Spread

\* Nothing but empty sequences.
LEMMA FlattenNothing ==
  ASSUME NEW n \in Nat
  PROVE  FlattenSeq([i \in 1..n |-> <<>>]) = <<>>
<1> DEFINE none == [i \in 1..n |-> <<>>]
           f == [i \in 0..n |-> <<>>]
<1>1. none \in Seq(Seq({})) /\ Len(none) = n
  OBVIOUS
<1>2. f[0] = <<>> /\ f[n] = <<>>
  OBVIOUS
<1>3. ASSUME NEW i \in 1..n PROVE f[i] = f[i - 1] \o none[i]
  <2>1. f[i] = <<>> /\ f[i - 1] = <<>> /\ none[i] = <<>>
    OBVIOUS
  <2>2. <<>> \o <<>> = <<>>
    OBVIOUS
  <2> HIDE DEF f, none
  <2> QED  BY <2>1, <2>2
<1> HIDE DEF f, none
<1>4. FlattenSeq(none) = f[n]
  BY <1>1, <1>2, <1>3, FlattenIs
<1> QED  BY <1>2, <1>4 DEF none

\* No element leaves anything.
Away(h, s) == \A p \in 1..Len(s) : h[s[p]] = <<>>

\* Nothing is left when no element leaves anything.
LEMMA SpreadAway ==
  ASSUME NEW X, NEW h, NEW s \in Seq(X), Away(h, s)
  PROVE  Spread(h, s) = <<>>
<1>1. Len(s) \in Nat /\ DOMAIN s = 1..Len(s)
  OBVIOUS
<1>2. [p \in DOMAIN s |-> h[s[p]]] = [p \in 1..Len(s) |-> <<>>]
  BY <1>1 DEF Away
<1> QED  BY <1>1, <1>2, FlattenNothing DEF Spread

\* The last of the sequences flattened.
LEMMA FlattenLast ==
  ASSUME NEW T, NEW k \in Nat \ {0}, NEW c \in [1..k -> Seq(T)]
  PROVE  FlattenSeq(c) = Both(FlattenSeq([j \in 1..(k - 1) |-> c[j]]), c[k])
<1> DEFINE d == [j \in 1..(k - 1) |-> c[j]]
           J == JoinOf(c, T)
           f == [i \in 0..(k - 1) |-> J[i]]
<1>1. c \in Seq(Seq(T)) /\ Len(c) = k /\ d \in Seq(Seq(T)) /\ Len(d) = k - 1 /\ k \in 1..k /\ k - 1 \in 0..(k - 1)
  OBVIOUS
<1>2. /\ J \in [0..k -> Seq(T)] /\ J[0] = <<>> /\ FlattenSeq(c) = J[k]
      /\ \A i \in 1..k : J[i] = J[i - 1] \o c[i]
  <2> HIDE DEF J
  <2> QED  BY <1>1, JoinOfIs DEF J
<1> HIDE DEF J
<1>3. f[0] = <<>>
  BY <1>2
<1>4. ASSUME NEW i \in 1..(k - 1) PROVE f[i] = f[i - 1] \o d[i]
  <2>1. i \in 1..k /\ f[i] = J[i] /\ f[i - 1] = J[i - 1] /\ d[i] = c[i]
    OBVIOUS
  <2> HIDE DEF f, d
  <2> QED  BY <1>2, <2>1
<1> HIDE DEF f, d
<1>5. FlattenSeq(d) = f[k - 1]
  BY <1>1, <1>3, <1>4, FlattenIs
<1>6. f[k - 1] = J[k - 1]
  BY <1>1 DEF f
<1>7. J[k] = J[k - 1] \o c[k]
  BY <1>1, <1>2
<1> QED  BY <1>2, <1>5, <1>6, <1>7 DEF Both, d

\* Both is associative, and has a unit.
LEMMA BothGroups ==
  ASSUME NEW S
  PROVE  /\ \A r, s, t \in Seq(S) : Both(r, Both(s, t)) = Both(Both(r, s), t)
         /\ \A r, s \in Seq(S) : Both(r, s) \in Seq(S)
         /\ \A r \in Seq(S) : Both(r, <<>>) = r /\ Both(<<>>, r) = r
<1>1. \A r, s, t \in Seq(S) : r \o (s \o t) = (r \o s) \o t
  BY ConcatAssociative
<1>2. \A r, s \in Seq(S) : r \o s \in Seq(S)
  BY ConcatProperties
<1>3. \A r \in Seq(S) : r \o <<>> = r /\ <<>> \o r = r
  BY ConcatEmptySeq
<1> QED  BY <1>1, <1>2, <1>3 DEF Both
=============================================================================
