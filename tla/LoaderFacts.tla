----------------------------- MODULE LoaderFacts -----------------------------
(***************************************************************************)
(* What the proofs about the loaders share: induction and recursion over   *)
(* numbers, the sequence that FlattenSeq makes, multiples of a number, and *)
(* that on a disk as the installer leaves it both loaders take the data    *)
(* partition.                                                              *)
(***************************************************************************)
EXTENDS Partitions, Integers, SequencesExt, WellFoundedInduction, TLAPS

-----------------------------------------------------------------------------
(* Induction, with a set of numbers for the statement.                     *)

LEMMA LeastNumber ==
  ASSUME NEW T, T \subseteq Nat, T # {}
  PROVE  \E x \in T : \A y \in T : x <= y
<1>. DEFINE R == OpToRel(<, Nat)
<1>1. IsWellFoundedOn(R, Nat)
  BY NatLessThanWellFounded
<1>2. \A x, y \in Nat : y < x => <<y, x>> \in R
  BY DEF OpToRel
<1>. HIDE DEF R
<1>3. PICK x \in T : \A y \in T : ~(<<y, x>> \in R)
  BY <1>1, WFMin
<1>4. ASSUME NEW y \in T PROVE x <= y
  <2>1. x \in Nat /\ y \in Nat /\ ~(<<y, x>> \in R)
    BY <1>3, <1>4
  <2>2. ~(y < x)
    BY <2>1, <1>2
  <2>. QED BY <2>1, <2>2
<1>. QED BY <1>4

LEMMA AllNumbers ==
  ASSUME NEW S, 0 \in S, \A n \in Nat : n \in S => n + 1 \in S
  PROVE  Nat \subseteq S
<1>. DEFINE T == Nat \ S
<1>1. SUFFICES ASSUME T # {} PROVE FALSE
  OBVIOUS
<1>2. PICK x \in T : \A y \in T : x <= y
  BY <1>1, LeastNumber
<1>3. x # 0 /\ x - 1 \in Nat /\ x - 1 \notin T
  BY <1>2
<1>. QED BY <1>2, <1>3

LEMMA AllSequences ==
  ASSUME NEW T, NEW P, <<>> \in P, \A s \in Seq(T), x \in T : s \in P => Append(s, x) \in P
  PROVE  Seq(T) \subseteq P
<1> DEFINE S == {n \in Nat : \A s \in Seq(T) : Len(s) = n => s \in P}
<1>1. 0 \in S
  <2>1. \A s \in Seq(T) : Len(s) = 0 => s = <<>>
    OBVIOUS
  <2> QED
    BY <2>1
<1>2. ASSUME NEW n \in Nat, n \in S PROVE n + 1 \in S
  <2>1. SUFFICES ASSUME NEW s \in Seq(T), Len(s) = n + 1 PROVE s \in P
    OBVIOUS
  <2> DEFINE t == SubSeq(s, 1, n)
  <2>2. t \in Seq(T) /\ Len(t) = n /\ s[n + 1] \in T /\ s = Append(t, s[n + 1])
    BY <2>1
  <2>3. t \in P
    BY <1>2, <2>2
  <2> HIDE DEF t
  <2> QED
    BY <2>2, <2>3
<1>3. ASSUME NEW s \in Seq(T) PROVE s \in P
  <2>1. Len(s) \in Nat
    OBVIOUS
  <2>2. Len(s) \in S
    <3> HIDE DEF S
    <3> QED
      BY <1>1, <1>2, <2>1, AllNumbers
  <2> QED
    BY <2>2
<1> QED
  BY <1>3

\* The functions that obey a recursion over 0..n, of which there is one.
Obeying(V, b, n, step) ==
  {f \in [0..n -> V] : f[0] = b /\ \A i \in 1..n : f[i] = step[i][f[i - 1]]}

LEMMA Recursion ==
  ASSUME NEW V, NEW b \in V, NEW N \in Nat, NEW step \in [1..N -> [V -> V]]
  PROVE  Obeying(V, b, N, step) # {}
<1>. DEFINE S == {n \in Nat : n <= N => Obeying(V, b, n, step) # {}}
<1>1. 0 \in S
  <2>. DEFINE f == [i \in 0..0 |-> b]
  <2>1. f \in [0..0 -> V] /\ f[0] = b
    OBVIOUS
  <2>2. f \in Obeying(V, b, 0, step)
    BY <2>1 DEF Obeying
  <2>. QED BY <2>2
<1>2. ASSUME NEW n \in Nat, n \in S PROVE n + 1 \in S
  <2>1. SUFFICES ASSUME n + 1 <= N PROVE Obeying(V, b, n + 1, step) # {}
    OBVIOUS
  <2>2. PICK f \in Obeying(V, b, n, step) : TRUE
    BY <1>2, <2>1
  <2>3. f \in [0..n -> V] /\ f[0] = b /\ \A i \in 1..n : f[i] = step[i][f[i - 1]]
    BY <2>2 DEF Obeying
  <2>. DEFINE v == step[n + 1][f[n]]
              g == [i \in 0..n + 1 |-> IF i = n + 1 THEN v ELSE f[i]]
  <2>4. v \in V
    <3>1. n + 1 \in 1..N /\ n \in 0..n
      BY <2>1
    <3>2. step[n + 1] \in [V -> V] /\ f[n] \in V
      BY <2>3, <3>1
    <3>. QED BY <3>2
  <2>5. g \in [0..n + 1 -> V] /\ g[0] = b
    BY <2>3, <2>4
  <2>6. ASSUME NEW i \in 1..n + 1 PROVE g[i] = step[i][g[i - 1]]
    <3>1. CASE i = n + 1
      BY <3>1
    <3>2. CASE i # n + 1
      <4>1. i \in 1..n /\ i \in 0..n + 1 /\ i - 1 \in 0..n + 1 /\ i - 1 # n + 1
        BY <3>2
      <4>2. g[i] = f[i] /\ g[i - 1] = f[i - 1]
        BY <3>2, <4>1
      <4>. QED BY <2>3, <4>1, <4>2
    <3>. QED BY <3>1, <3>2
  <2>. HIDE DEF g
  <2>7. g \in Obeying(V, b, n + 1, step)
    BY <2>5, <2>6 DEF Obeying
  <2>. QED BY <2>7
<1>3. N \in S
  <2>. HIDE DEF S
  <2>. QED BY <1>1, <1>2, AllNumbers
<1>. QED BY <1>3

\* Where the i-th of some sequences ends when they are put together.
Ends(ss) == CHOOSE e \in [0..Len(ss) -> Nat] :
              e[0] = 0 /\ \A i \in 1..Len(ss) : e[i] = e[i - 1] + Len(ss[i])

LEMMA EndsDefined ==
  ASSUME NEW T, NEW ss \in Seq(Seq(T))
  PROVE  /\ Ends(ss) \in [0..Len(ss) -> Nat] /\ Ends(ss)[0] = 0
         /\ \A i \in 1..Len(ss) : Ends(ss)[i] = Ends(ss)[i - 1] + Len(ss[i])
<1>. DEFINE step == [i \in 1..Len(ss) |-> [n \in Nat |-> n + Len(ss[i])]]
            Is(e) == e[0] = 0 /\ \A i \in 1..Len(ss) : e[i] = e[i - 1] + Len(ss[i])
<1>1. \A i \in 1..Len(ss) : Len(ss[i]) \in Nat
  OBVIOUS
<1>2. step \in [1..Len(ss) -> [Nat -> Nat]] /\ Len(ss) \in Nat
  BY <1>1
<1>3. PICK e \in [0..Len(ss) -> Nat] : e[0] = 0 /\ \A i \in 1..Len(ss) : e[i] = step[i][e[i - 1]]
  <2>. HIDE DEF step
  <2>1. Obeying(Nat, 0, Len(ss), step) # {}
    BY <1>2, Recursion
  <2>. QED BY <2>1 DEF Obeying
<1>4. ASSUME NEW i \in 1..Len(ss) PROVE e[i] = e[i - 1] + Len(ss[i])
  <2>1. i - 1 \in 0..Len(ss)
    OBVIOUS
  <2>2. e[i - 1] \in Nat
    BY <1>3, <2>1
  <2>. QED BY <1>3, <2>2
<1>5. \E h \in [0..Len(ss) -> Nat] : Is(h)
  BY <1>3, <1>4
<1>. HIDE DEF Is
<1>6. Ends(ss) = CHOOSE h \in [0..Len(ss) -> Nat] : Is(h)
  BY DEF Ends, Is
<1>7. Ends(ss) \in [0..Len(ss) -> Nat] /\ Is(Ends(ss))
  BY <1>5, <1>6
<1>. QED BY <1>7 DEF Is

LEMMA EndsGrow ==
  ASSUME NEW T, NEW ss \in Seq(Seq(T)), NEW i \in 0..Len(ss), NEW k \in i..Len(ss)
  PROVE  Ends(ss)[i] <= Ends(ss)[k]
<1>. DEFINE e == Ends(ss)
            M == {m \in Nat : i + m <= Len(ss) => e[i] <= e[i + m]}
<1>0. /\ e \in [0..Len(ss) -> Nat]
      /\ \A j \in 1..Len(ss) : e[j] = e[j - 1] + Len(ss[j])
  BY EndsDefined
<1>. HIDE DEF e
<1>1. 0 \in M
  <2>1. e[i] \in Nat
    BY <1>0
  <2>2. i + 0 = i
    OBVIOUS
  <2>. QED BY <2>1, <2>2
<1>2. ASSUME NEW m \in Nat, m \in M PROVE m + 1 \in M
  <2>1. SUFFICES ASSUME i + (m + 1) <= Len(ss) PROVE e[i] <= e[i + (m + 1)]
    OBVIOUS
  <2>2. /\ i + (m + 1) \in 1..Len(ss) /\ i + m \in 0..Len(ss) /\ i \in 0..Len(ss)
        /\ (i + (m + 1)) - 1 = i + m /\ i + m <= Len(ss)
    BY <2>1
  <2>3. e[i + (m + 1)] = e[i + m] + Len(ss[i + (m + 1)])
    BY <1>0, <2>2
  <2>4. Len(ss[i + (m + 1)]) \in Nat
    BY <2>2
  <2>5. e[i + m] \in Nat /\ e[i] \in Nat /\ e[i] <= e[i + m]
    BY <1>0, <1>2, <2>2
  <2>. QED BY <2>3, <2>4, <2>5
<1>3. k - i \in M
  <2>. HIDE DEF M
  <2>1. k - i \in Nat
    OBVIOUS
  <2>. QED BY <1>1, <1>2, <2>1, AllNumbers
<1>. QED BY <1>3 DEF e

LEMMA Concatenated ==
  ASSUME NEW T, NEW s, NEW t, s \in Seq(T), t \in Seq(T)
  PROVE  /\ s \o t \in Seq(T) /\ Len(s \o t) = Len(s) + Len(t)
         /\ \A j \in 1..Len(s) : (s \o t)[j] = s[j]
         /\ \A j \in 1..Len(t) : (s \o t)[Len(s) + j] = t[j]
OBVIOUS

\* FlattenSeq puts them together.
Joined(ss, s, n) ==
  /\ Len(s) = Ends(ss)[n]
  /\ \A i \in 1..n : \A j \in 1..Len(ss[i]) : s[Ends(ss)[i - 1] + j] = ss[i][j]

LEMMA Unfolded ==
  ASSUME NEW T, NEW ss \in Seq(Seq(T))
  PROVE  \E f \in [0..Len(ss) -> Seq(T)] :
           /\ f[0] = <<>> /\ \A i \in 1..Len(ss) : f[i] = f[i - 1] \o ss[i]
           /\ FlattenSeq(ss) = f[Len(ss)]
<1>1. CASE Len(ss) = 0
  <2>1. ss = <<>>
    BY <1>1
  <2>2. FlattenSeq(ss) = <<>>
    BY <1>1, <2>1 DEF FlattenSeq
  <2>. DEFINE f == [i \in 0..0 |-> <<>>]
  <2>3. f \in [0..Len(ss) -> Seq(T)] /\ f[0] = <<>> /\ FlattenSeq(ss) = f[Len(ss)]
    BY <1>1, <2>2
  <2>. HIDE DEF f
  <2>. QED BY <1>1, <2>3
<1>2. CASE Len(ss) # 0
  <2>. DEFINE step == [i \in 1..Len(ss) |-> [s \in Seq(T) |-> s \o ss[i]]]
              Next(h) == [i \in 1..Len(ss) |-> IF i = 1 THEN ss[i] ELSE h[i - 1] \o ss[i]]
  <2>1. \A i \in 1..Len(ss) : ss[i] \in Seq(T)
    OBVIOUS
  <2>2. Len(ss) \in Nat /\ <<>> \in Seq(T)
    OBVIOUS
  <2>3. step \in [1..Len(ss) -> [Seq(T) -> Seq(T)]]
    BY <2>1
  <2>4. PICK f \in [0..Len(ss) -> Seq(T)] :
          f[0] = <<>> /\ \A i \in 1..Len(ss) : f[i] = step[i][f[i - 1]]
    <3>. HIDE DEF step
    <3>1. Obeying(Seq(T), <<>>, Len(ss), step) # {}
      BY <2>2, <2>3, Recursion
    <3>. QED BY <3>1 DEF Obeying
  <2>5. ASSUME NEW i \in 1..Len(ss) PROVE f[i] = f[i - 1] \o ss[i]
    <3>1. i - 1 \in 0..Len(ss)
      OBVIOUS
    <3>2. f[i - 1] \in Seq(T)
      BY <2>4, <3>1
    <3>. QED BY <2>4, <3>2
  <2>. HIDE DEF step
  <2>. DEFINE g == [i \in 1..Len(ss) |-> f[i]]
  <2>6. g = Next(g)
    <3>1. ASSUME NEW i \in 1..Len(ss) PROVE f[i] = Next(g)[i]
      <4>1. CASE i = 1
        <5>0. 1 \in 1..Len(ss) /\ 1 - 1 = 0
          BY <4>1
        <5>1. f[1] = <<>> \o ss[1] /\ ss[1] \in Seq(T)
          BY <2>1, <2>4, <2>5, <5>0
        <5>2. f[1] = ss[1]
          BY <5>1
        <5>. QED BY <4>1, <5>2
      <4>2. CASE i # 1
        <5>1. i - 1 \in 1..Len(ss)
          BY <4>2
        <5>. QED BY <2>5, <4>2, <5>1
      <4>. QED BY <4>1, <4>2
    <3>. QED BY <3>1
  <2>7. PICK h : h = Next(h) /\ FlattenSeq(ss) = h[Len(ss)]
    <3>. DEFINE H == CHOOSE h : h = Next(h)
    <3>1. H = Next(H)
      <4>. HIDE DEF Next, g
      <4>. QED BY <2>6
    <3>2. FlattenSeq(ss) = H[Len(ss)]
      BY <1>2 DEF FlattenSeq
    <3>. HIDE DEF H, Next
    <3>. QED BY <3>1, <3>2
  <2>8. \A i \in 1..Len(ss) : h[i] = IF i = 1 THEN ss[i] ELSE h[i - 1] \o ss[i]
    <3>1. ASSUME NEW i \in 1..Len(ss) PROVE h[i] = IF i = 1 THEN ss[i] ELSE h[i - 1] \o ss[i]
      <4>1. h[i] = Next(h)[i]
        <5>. HIDE DEF Next
        <5>. QED BY <2>7
      <4>. QED BY <4>1
    <3>. QED BY <3>1
  <2>. HIDE DEF Next, g
  <2>. DEFINE S == {n \in Nat : n \in 1..Len(ss) => h[n] = f[n]}
  <2>9. 0 \in S
    OBVIOUS
  <2>10. ASSUME NEW n \in Nat, n \in S PROVE n + 1 \in S
    <3>1. SUFFICES ASSUME n + 1 \in 1..Len(ss) PROVE h[n + 1] = f[n + 1]
      OBVIOUS
    <3>2. f[n + 1] = f[n] \o ss[n + 1]
      <4>1. (n + 1) - 1 = n
        OBVIOUS
      <4>. QED BY <2>5, <3>1, <4>1
    <3>3. CASE n = 0
      <4>1. n + 1 = 1 /\ 1 \in 1..Len(ss)
        BY <3>1, <3>3
      <4>2. h[1] = ss[1] /\ ss[1] \in Seq(T)
        BY <2>1, <2>8, <4>1
      <4>3. f[1] = <<>> \o ss[1]
        BY <2>4, <3>2, <3>3, <4>1
      <4>4. <<>> \o ss[1] = ss[1]
        BY <4>2
      <4>. QED BY <4>1, <4>2, <4>3, <4>4
    <3>4. CASE n # 0
      <4>1. h[n] = f[n] /\ n + 1 # 1 /\ (n + 1) - 1 = n
        BY <2>10, <3>1, <3>4
      <4>. QED BY <2>8, <3>1, <3>2, <4>1
    <3>. QED BY <3>3, <3>4
  <2>11. Len(ss) \in S
    <3>. HIDE DEF S
    <3>. QED BY <2>9, <2>10, AllNumbers
  <2>12. FlattenSeq(ss) = f[Len(ss)]
    BY <1>2, <2>7, <2>11
  <2>. QED BY <2>4, <2>5, <2>12
<1>. QED BY <1>1, <1>2

LEMMA FlattenAppend ==
  ASSUME NEW T, NEW ss \in Seq(Seq(T)), NEW p \in Seq(T)
  PROVE  FlattenSeq(Append(ss, p)) = FlattenSeq(ss) \o p
<1>. DEFINE N == Len(ss)
            tt == Append(ss, p)
<1>1. /\ N \in Nat /\ tt \in Seq(Seq(T)) /\ Len(tt) = N + 1 /\ tt[N + 1] = p
      /\ \A i \in 1..N : tt[i] = ss[i]
  OBVIOUS
<1>2. PICK f \in [0..N -> Seq(T)] :
        /\ f[0] = <<>> /\ \A i \in 1..N : f[i] = f[i - 1] \o ss[i]
        /\ FlattenSeq(ss) = f[N]
  BY Unfolded
<1>. HIDE DEF tt
<1>3. PICK g \in [0..Len(tt) -> Seq(T)] :
        /\ g[0] = <<>> /\ \A i \in 1..Len(tt) : g[i] = g[i - 1] \o tt[i]
        /\ FlattenSeq(tt) = g[Len(tt)]
  BY <1>1, Unfolded
<1>. DEFINE S == {n \in Nat : n <= N => g[n] = f[n]}
<1>4. 0 \in S
  BY <1>2, <1>3
<1>5. ASSUME NEW n \in Nat, n \in S PROVE n + 1 \in S
  <2>1. SUFFICES ASSUME n + 1 <= N PROVE g[n + 1] = f[n + 1]
    OBVIOUS
  <2>2. n + 1 \in 1..N /\ n + 1 \in 1..Len(tt) /\ (n + 1) - 1 = n /\ n <= N
    BY <1>1, <2>1
  <2>. QED BY <1>1, <1>2, <1>3, <1>5, <2>2
<1>6. N \in S
  <2>. HIDE DEF S
  <2>. QED BY <1>1, <1>4, <1>5, AllNumbers
<1>7. g[N] = f[N] /\ N + 1 \in 1..Len(tt) /\ (N + 1) - 1 = N
  BY <1>1, <1>6
<1>8. g[N + 1] = g[N] \o p
  BY <1>1, <1>3, <1>7
<1>. QED BY <1>1, <1>2, <1>3, <1>7, <1>8 DEF tt

LEMMA Flattened ==
  ASSUME NEW T, NEW ss \in Seq(Seq(T))
  PROVE  FlattenSeq(ss) \in Seq(T) /\ Joined(ss, FlattenSeq(ss), Len(ss))
<1>0. /\ Ends(ss) \in [0..Len(ss) -> Nat] /\ Ends(ss)[0] = 0
      /\ \A i \in 1..Len(ss) : Ends(ss)[i] = Ends(ss)[i - 1] + Len(ss[i])
  BY EndsDefined
<1>1. PICK h \in [0..Len(ss) -> Seq(T)] :
        /\ h[0] = <<>> /\ \A i \in 1..Len(ss) : h[i] = h[i - 1] \o ss[i]
        /\ FlattenSeq(ss) = h[Len(ss)]
  BY Unfolded
<1>. DEFINE S == {n \in Nat : n <= Len(ss) => Joined(ss, h[n], n)}
<1>2. 0 \in S
  BY <1>0, <1>1 DEF Joined
<1>3. ASSUME NEW n \in Nat, n \in S PROVE n + 1 \in S
  <2>1. SUFFICES ASSUME n + 1 <= Len(ss) PROVE Joined(ss, h[n + 1], n + 1)
    OBVIOUS
  <2>2. /\ ss[n + 1] \in Seq(T) /\ Len(ss[n + 1]) \in Nat /\ n \in 0..Len(ss)
        /\ Ends(ss)[n] \in Nat /\ Ends(ss)[n + 1] = Ends(ss)[n] + Len(ss[n + 1])
    BY <1>0, <2>1
  <2>3. h[n] \in Seq(T) /\ Joined(ss, h[n], n)
    BY <1>1, <1>3, <2>1, <2>2
  <2>4. h[n + 1] = h[n] \o ss[n + 1]
    <3>1. n + 1 \in 1..Len(ss) /\ (n + 1) - 1 = n
      BY <2>1
    <3>. QED BY <1>1, <3>1
  <2>5. /\ h[n + 1] \in Seq(T) /\ Len(h[n + 1]) = Len(h[n]) + Len(ss[n + 1])
        /\ \A j \in 1..Len(h[n]) : h[n + 1][j] = h[n][j]
        /\ \A j \in 1..Len(ss[n + 1]) : h[n + 1][Len(h[n]) + j] = ss[n + 1][j]
    <3>1. h[n] \in Seq(T) /\ ss[n + 1] \in Seq(T)
      BY <2>2, <2>3
    <3>. DEFINE s == h[n]
                t == ss[n + 1]
    <3>2. s \in Seq(T) /\ t \in Seq(T)
      BY <3>1
    <3>. HIDE DEF s, t
    <3>3. /\ s \o t \in Seq(T) /\ Len(s \o t) = Len(s) + Len(t)
          /\ \A j \in 1..Len(s) : (s \o t)[j] = s[j]
          /\ \A j \in 1..Len(t) : (s \o t)[Len(s) + j] = t[j]
      BY <3>2, Concatenated
    <3>. QED BY <2>4, <3>3 DEF s, t
  <2>6. h[n + 1] \in Seq(T) /\ Len(h[n + 1]) = Ends(ss)[n + 1]
    BY <2>2, <2>3, <2>5 DEF Joined
  <2>7. ASSUME NEW i \in 1..n + 1, NEW j \in 1..Len(ss[i])
        PROVE  h[n + 1][Ends(ss)[i - 1] + j] = ss[i][j]
    <3>1. CASE i = n + 1
      <4>1. Len(h[n]) = Ends(ss)[n] /\ i - 1 = n /\ j \in 1..Len(ss[n + 1])
        BY <2>3, <3>1 DEF Joined
      <4>2. h[n + 1][Len(h[n]) + j] = ss[n + 1][j]
        BY <2>5, <4>1
      <4>. QED BY <3>1, <4>1, <4>2
    <3>2. CASE i # n + 1
      <4>1. i \in 1..n /\ i \in 0..Len(ss) /\ i - 1 \in 0..Len(ss) /\ n \in i..Len(ss)
        BY <2>1, <3>2
      <4>2. Ends(ss)[i] <= Ends(ss)[n]
        BY <4>1, EndsGrow
      <4>8. i \in 1..Len(ss)
        BY <4>1
      <4>3. Ends(ss)[i - 1] \in Nat /\ Ends(ss)[i] = Ends(ss)[i - 1] + Len(ss[i])
        BY <1>0, <4>1, <4>8
      <4>4. Len(ss[i]) \in Nat
        BY <4>8
      <4>5. Ends(ss)[i - 1] + j \in 1..Ends(ss)[n]
        <5>1. j \in Nat /\ 1 <= j /\ j <= Len(ss[i])
          BY <4>4
        <5>. DEFINE a == Ends(ss)[i - 1]
                    e == Ends(ss)[i]
                    z == Ends(ss)[n]
                    l == Len(ss[i])
        <5>2. a \in Nat /\ e = a + l /\ l \in Nat /\ e <= z /\ z \in Nat
          BY <2>2, <4>2, <4>3, <4>4
        <5>3. j \in Nat /\ 1 <= j /\ j <= l
          BY <5>1
        <5>. HIDE DEF a, e, z, l
        <5>4. a + j \in 1..z
          BY <5>2, <5>3
        <5>. QED BY <5>4 DEF a, z
      <4>6. /\ h[n][Ends(ss)[i - 1] + j] = ss[i][j]
            /\ Len(h[n]) = Ends(ss)[n]
        BY <2>3, <4>1 DEF Joined
      <4>7. h[n + 1][Ends(ss)[i - 1] + j] = h[n][Ends(ss)[i - 1] + j]
        BY <2>5, <4>5, <4>6
      <4>. QED BY <4>6, <4>7
    <3>. QED BY <3>1, <3>2
  <2>. QED BY <2>6, <2>7 DEF Joined
<1>4. Len(ss) \in S
  <2>. HIDE DEF S
  <2>. QED BY <1>2, <1>3, AllNumbers
<1>. QED BY <1>1, <1>4

\* Every place of the whole is a place of one part, and the other way round.
LEMMA PartOf ==
  ASSUME NEW T, NEW ss \in Seq(Seq(T)), NEW m \in 1..Len(FlattenSeq(ss))
  PROVE  \E i \in 1..Len(ss) : \E j \in 1..Len(ss[i]) :
           m = Ends(ss)[i - 1] + j /\ FlattenSeq(ss)[m] = ss[i][j]
<1>. DEFINE e == Ends(ss)
            A == {i \in 0..Len(ss) : m <= e[i]}
<1>1. /\ e \in [0..Len(ss) -> Nat] /\ e[0] = 0
      /\ \A i \in 1..Len(ss) : e[i] = e[i - 1] + Len(ss[i])
  BY EndsDefined
<1>2. Joined(ss, FlattenSeq(ss), Len(ss))
  BY Flattened
<1>. HIDE DEF e
<1>3. Len(FlattenSeq(ss)) = e[Len(ss)]
  BY <1>2 DEF Joined, e
<1>4. Len(ss) \in A /\ A \subseteq Nat /\ m \in Nat /\ 1 <= m
  BY <1>1, <1>3
<1>5. PICK i \in A : \A k \in A : i <= k
  <2>. HIDE DEF A
  <2>. QED BY <1>4, LeastNumber
<1>6. i # 0 /\ i \in 1..Len(ss) /\ i - 1 \in 0..Len(ss) /\ i - 1 \notin A
  <2>1. i \in 0..Len(ss) /\ m <= e[i]
    OBVIOUS
  <2>2. i # 0
    BY <1>1, <1>4, <2>1
  <2>3. ~(i <= i - 1)
    BY <2>1
  <2>. HIDE DEF A
  <2>. QED BY <1>5, <2>1, <2>2, <2>3
<1>. DEFINE j == m - e[i - 1]
<1>7. e[i - 1] \in Nat /\ e[i] = e[i - 1] + Len(ss[i]) /\ e[i - 1] < m /\ m <= e[i]
  <2>1. m <= e[i] /\ e[i - 1] \in Nat /\ e[i] = e[i - 1] + Len(ss[i]) /\ ~(m <= e[i - 1])
    BY <1>1, <1>5, <1>6
  <2>. HIDE DEF A
  <2>. QED BY <1>4, <2>1
<1>8. Len(ss[i]) \in Nat
  BY <1>6
<1>9. j \in 1..Len(ss[i]) /\ m = e[i - 1] + j
  <2>. DEFINE a == e[i - 1]
              z == e[i]
              l == Len(ss[i])
  <2>1. a \in Nat /\ z = a + l /\ a < m /\ m <= z /\ l \in Nat /\ m \in Nat
    BY <1>4, <1>7, <1>8
  <2>. HIDE DEF a, z, l
  <2>2. m - a \in 1..l /\ m = a + (m - a)
    BY <2>1
  <2>. QED BY <2>2 DEF a, l
<1>. HIDE DEF j
<1>10. FlattenSeq(ss)[e[i - 1] + j] = ss[i][j]
  BY <1>2, <1>6, <1>9 DEF Joined, e
<1>. QED BY <1>6, <1>9, <1>10 DEF e

LEMMA PlaceOfPart ==
  ASSUME NEW T, NEW ss \in Seq(Seq(T)), NEW i \in 1..Len(ss), NEW j \in 1..Len(ss[i])
  PROVE  /\ Ends(ss)[i - 1] + j \in 1..Len(FlattenSeq(ss))
         /\ FlattenSeq(ss)[Ends(ss)[i - 1] + j] = ss[i][j]
<1>. DEFINE e == Ends(ss)
<1>1. /\ e \in [0..Len(ss) -> Nat] /\ e[0] = 0
      /\ \A k \in 1..Len(ss) : e[k] = e[k - 1] + Len(ss[k])
  BY EndsDefined
<1>2. Joined(ss, FlattenSeq(ss), Len(ss))
  BY Flattened
<1>3. e[i] <= e[Len(ss)]
  BY EndsGrow
<1>. HIDE DEF e
<1>4. Len(FlattenSeq(ss)) = e[Len(ss)]
  BY <1>2 DEF Joined, e
<1>5. FlattenSeq(ss)[e[i - 1] + j] = ss[i][j]
  BY <1>2 DEF Joined, e
<1>6. /\ e[i - 1] \in Nat /\ e[i] = e[i - 1] + Len(ss[i]) /\ e[Len(ss)] \in Nat
      /\ Len(ss[i]) \in Nat
  <2>1. i - 1 \in 0..Len(ss) /\ Len(ss) \in 0..Len(ss)
    OBVIOUS
  <2>2. Len(ss[i]) \in Nat
    OBVIOUS
  <2>. QED BY <1>1, <2>1, <2>2
<1>7. e[i - 1] + j \in 1..e[Len(ss)]
  <2>. DEFINE a == e[i - 1]
              l == Len(ss[i])
              z == e[Len(ss)]
  <2>1. a \in Nat /\ l \in Nat /\ z \in Nat /\ a + l <= z /\ j \in 1..l
    BY <1>3, <1>6
  <2>. HIDE DEF a, l, z
  <2>2. a + j \in 1..z
    BY <2>1
  <2>. QED BY <2>2 DEF a, z
<1>. QED BY <1>4, <1>5, <1>7 DEF e

-----------------------------------------------------------------------------
(* The partition the loaders take.                                         *)

LEMMA MinOf ==
  ASSUME NEW S \in SUBSET Nat, S # {}
  PROVE  Min(S) \in S /\ \A y \in S : Min(S) <= y
<1>1. \E x \in S : \A y \in S : x <= y
  BY LeastNumber
<1>. QED BY <1>1 DEF Min

LEMMA FirstIsMin ==
  ASSUME NEW S \in SUBSET (Nat \ {0}), 1 \in S
  PROVE  Min(S) = 1
<1>1. \A y \in S : 1 <= y
  OBVIOUS
<1>2. \A x \in S : (\A y \in S : x <= y) => x = 1
  <2>1. SUFFICES ASSUME NEW x \in S, \A y \in S : x <= y PROVE x = 1
    OBVIOUS
  <2>2. x <= 1 /\ x \in Nat /\ x # 0
    BY <2>1
  <2> QED BY <2>2
<1> QED BY <1>1, <1>2 DEF Min

LEMMA ElementsTyped ==
  ASSUME NEW S, NEW s \in Seq(S)
  PROVE  \A i \in DOMAIN s : s[i] \in S
OBVIOUS

\* On a disk as the installer leaves it the two readings of the tables, that of
\* part.rs and that of boot_stage.rs, give the data partition.
THEOREM InstalledAgree ==
  ASSUME NEW d, IsDisk(d), AsInstalled(d)
  PROVE  /\ BiosLba(d) = DataPartition(d).lba
         /\ BiosLba(d) # 0 => EfiPartition(d) = DataPartition(d)
<1>1. DOMAIN d.mbr = 1..4 /\ DOMAIN d.gpt \in SUBSET (Nat \ {0})
  BY DEF IsDisk
<1>2. \A i \in 1..4 : d.mbr[i].lba \in Nat /\ d.mbr[i].size \in Nat
  <2>1. \A i \in 1..4 : d.mbr[i] \in [type : STRING, lba : Nat, size : Nat]
    <3>1. d.mbr \in Seq([type : STRING, lba : Nat, size : Nat])
      BY DEF IsDisk
    <3> QED BY <1>1, <3>1, ElementsTyped
  <2> QED BY <2>1
<1>3. CASE d.gpt = <<>>
  <2>1. d.mbr[1].size > 0 /\ \A i \in 1..4 : d.mbr[i].type # "EE"
    BY <1>1, <1>3 DEF AsInstalled
  <2>2. 1 \in Used(d) /\ Used(d) \subseteq 1..4 /\ 1 \in Sized(d) /\ Sized(d) \subseteq 1..4
    BY <1>1, <2>1 DEF Used, Sized
  <2>3. Min(Used(d)) = 1 /\ Min(Sized(d)) = 1
    <3>1. Used(d) \in SUBSET (Nat \ {0}) /\ Sized(d) \in SUBSET (Nat \ {0})
      BY <2>2
    <3> QED BY <3>1, <2>2, FirstIsMin
  <2>4. ~ IsGpt(d) /\ ~ HasGpt(d)
    BY <1>1, <2>1 DEF IsGpt, HasGpt
  <2>5. MbrLba(d) = d.mbr[1].lba /\ BiosLba(d) = d.mbr[1].lba
    <3>1. Used(d) # {} /\ Sized(d) # {}
      BY <2>2
    <3> QED BY <2>3, <2>4, <3>1 DEF MbrLba, BiosLba
  <2>6. DataPartition(d) = [lba |-> d.mbr[1].lba, guid |-> d.sig, num |-> 1, mbr |-> TRUE]
    BY <1>3 DEF DataPartition
  <2>7. BiosLba(d) # 0 => EfiPartition(d) = ByMbr(d)
    BY <2>4, <2>5 DEF EfiPartition
  <2>8. ByMbr(d) = DataPartition(d)
    BY <2>5, <2>6 DEF ByMbr
  <2> QED BY <2>5, <2>6, <2>7, <2>8
<1>4. CASE d.gpt # <<>>
  <2>1. /\ d.gpt[1].type = "basic"
        /\ d.mbr[1].type = "EE" /\ d.mbr[1].size > 0
        /\ \A i \in Used(d) : d.mbr[i].lba = d.gpt[1].lba
    BY <1>4 DEF AsInstalled
  <2>2. 1 \in DOMAIN d.gpt
    BY <1>4 DEF IsDisk
  <2>3. DataPartition(d) = ByGpt(d, 1)
    BY <1>4 DEF DataPartition, ByGpt
  <2>4. Used(d) \subseteq 2..4
    BY <1>1, <2>1 DEF Used
  <2>5. IsGpt(d) /\ HasGpt(d)
    <3>1. 1 \in DOMAIN d.mbr
      BY <1>1
    <3>2. \A u \in Used(d) : 1 < u
      BY <2>4
    <3> QED BY <2>1, <3>1, <3>2 DEF IsGpt, HasGpt
  <2>6. Min(BasicData(d)) = 1 /\ BasicData(d) # {}
    <3>1. 1 \in BasicData(d) /\ BasicData(d) \in SUBSET (Nat \ {0})
      BY <1>1, <2>1, <2>2 DEF BasicData
    <3> QED BY <3>1, FirstIsMin
  <2>7. ByGptTable(d) = ByGpt(d, 1)
    <3>1. CASE Used(d) = {}
      <4>1. AtMbrLba(d) = {}
        BY <3>1 DEF AtMbrLba, MbrLba, IsDisk
      <4> QED BY <2>6, <4>1 DEF ByGptTable
    <3>2. CASE Used(d) # {}
      <4>1. Min(Used(d)) \in Used(d)
        <5>1. \E x \in Used(d) : \A y \in Used(d) : x <= y
          <6>1. CASE 2 \in Used(d)
            BY <2>4, <6>1
          <6>2. CASE 2 \notin Used(d) /\ 3 \in Used(d)
            <7>1. \A y \in Used(d) : 3 <= y
              BY <2>4, <6>2
            <7> QED BY <6>2, <7>1
          <6>3. CASE 2 \notin Used(d) /\ 3 \notin Used(d)
            <7>1. \A y \in Used(d) : y = 4
              BY <2>4, <6>3
            <7> QED BY <3>2, <7>1
          <6> QED BY <6>1, <6>2, <6>3
        <5> QED BY <5>1 DEF Min
      <4>2. MbrLba(d) = d.gpt[1].lba
        BY <2>1, <3>2, <4>1 DEF MbrLba
      <4>3. 1 \in AtMbrLba(d) /\ AtMbrLba(d) \in SUBSET (Nat \ {0})
        BY <1>1, <2>1, <2>2, <4>2 DEF AtMbrLba
      <4>4. Min(AtMbrLba(d)) = 1
        BY <4>3, FirstIsMin
      <4> QED BY <4>3, <4>4 DEF ByGptTable
    <3> QED BY <3>1, <3>2
  <2>8. EfiPartition(d) = ByGptTable(d)
    BY <2>5 DEF EfiPartition
  <2>9. BiosLba(d) = d.gpt[1].lba
    BY <2>5, <2>6 DEF BiosLba
  <2> QED BY <2>3, <2>7, <2>8, <2>9 DEF ByGpt
<1> QED BY <1>3, <1>4

-----------------------------------------------------------------------------
(* Numbers and sequences of pages.                                         *)

LEMMA NoRemainder ==
  ASSUME NEW n \in Nat \ {0}, NEW q \in Int, NEW p \in Int, NEW r \in Int,
         0 <= r, r < n, n * q = n * p + r
  PROVE  r = 0
<1>1. n * (q - p) = r
  OBVIOUS
<1>2. CASE q = p
  BY <1>1, <1>2
<1>3. CASE q - p >= 1
  <2>1. n * (q - p) >= n
    BY <1>3
  <2> QED BY <1>1, <2>1
<1>4. CASE q - p <= -1
  <2>1. n * (q - p) <= -n
    BY <1>4
  <2> QED BY <1>1, <2>1
<1> QED BY <1>2, <1>3, <1>4

LEMMA MultipleOf ==
  ASSUME NEW n \in Nat \ {0}, NEW a \in Nat, NEW b \in Nat, a % n = 0,
         b = a + n \/ a = b + n
  PROVE  b % n = 0
<1> DEFINE q == a \div n
<1> DEFINE p == b \div n
<1> DEFINE r == b % n
<1>1. q \in Int /\ a = n * q
  OBVIOUS
<1>2. p \in Int /\ r \in Int /\ 0 <= r /\ r < n /\ b = n * p + r
  OBVIOUS
<1> HIDE DEF q, p, r
<1>3. CASE b = a + n
  <2>1. q + 1 \in Int /\ n * (q + 1) = n * p + r
    BY <1>1, <1>2, <1>3
  <2>2. r = 0
    BY <1>2, <2>1, NoRemainder
  <2> QED BY <2>2 DEF r
<1>4. CASE a = b + n
  <2>1. q - 1 \in Int /\ n * (q - 1) = n * p + r
    BY <1>1, <1>2, <1>4
  <2>2. r = 0
    BY <1>2, <2>1, NoRemainder
  <2> QED BY <2>2 DEF r
<1> QED BY <1>3, <1>4

LEMMA AppendGrows ==
  ASSUME NEW s, NEW e, \E S : s \in Seq(S)
  PROVE  /\ \E S : Append(s, e) \in Seq(S)
         /\ Append(s, e) # <<>>
<1>1. PICK S : s \in Seq(S)
  OBVIOUS
<1>2. s \in Seq(S \cup {e}) /\ e \in S \cup {e}
  BY <1>1
<1>3. Append(s, e) \in Seq(S \cup {e}) /\ Len(Append(s, e)) = Len(s) + 1 /\ Len(s) \in Nat
  BY <1>2
<1>4. Append(s, e) # <<>>
  BY <1>3
<1> QED BY <1>3, <1>4

LEMMA EmptyOrShown ==
  ASSUME NEW s, \E S : s \in Seq(S)
  PROVE  Len(s) \in Nat /\ (s # <<>> <=> Len(s) > 0)
<1>1. PICK S : s \in Seq(S)
  OBVIOUS
<1> QED BY <1>1

\* Units of p, rounded up, hold n.
LEMMA SectorsEnough ==
  ASSUME NEW n \in Nat, NEW p \in Nat \ {0}
  PROVE  /\ (n + p - 1) \div p \in Nat
         /\ ((n + p - 1) \div p) * p >= n
<1>. DEFINE x == n + p - 1
            q == x \div p
            m == x % p
<1>1. x \in Nat
  OBVIOUS
<1>2. q \in Int /\ m \in Int /\ 0 <= m /\ m < p /\ x = p * q + m
  BY <1>1
<1>3. q >= 0
  <2>. HIDE DEF q, m, x
  <2>1. ASSUME q <= -1 PROVE FALSE
    <3>1. p * q <= -p
      BY <1>2, <2>1
    <3>. QED BY <1>1, <1>2, <3>1
  <2>. QED BY <1>2, <2>1
<1>4. p * q >= n
  <2>. HIDE DEF q, m
  <2>. QED BY <1>2
<1>5. q * p = p * q
  <2>. HIDE DEF q
  <2>. QED BY <1>2
<1>. QED BY <1>2, <1>3, <1>4, <1>5

=============================================================================
