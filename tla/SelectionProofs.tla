--------------------------- MODULE SelectionProofs ---------------------------
(***************************************************************************)
(* Recursion over the natural numbers and over sequences, without an       *)
(* operator as a parameter.                                                *)
(***************************************************************************)
EXTENDS Selection, Integers, WellFoundedInduction, SequenceTheorems, TLAPS

\* A set of natural numbers that is not empty has a least element.
LEMMA LeastNatural ==
  ASSUME NEW T, T \subseteq Nat, T # {}
  PROVE  \E m \in T : \A k \in T : m <= k
<1> DEFINE R == OpToRel(<, Nat)
<1>1. IsWellFoundedOn(R, Nat)
  BY NatLessThanWellFounded
<1>2. \A x, y \in Nat : y < x => <<y, x>> \in R
  BY DEF OpToRel
<1> HIDE DEF R
<1>3. PICK m \in T : \A k \in T : ~(<<k, m>> \in R)
  BY <1>1, WFMin
<1>4. ASSUME NEW k \in T PROVE m <= k
  <2>1. m \in Nat /\ k \in Nat
    OBVIOUS
  <2>2. ~(k < m)
    BY <1>2, <1>3, <2>1
  <2>3. QED
    BY <2>1, <2>2
<1>5. QED
  BY <1>4

\* A set with 0 in it, and with the successor of each of its members up to L,
\* has all the numbers up to L in it.
LEMMA UpTo ==
  ASSUME NEW L \in Nat, NEW T, 0 \in T,
         \A n \in 0 .. L - 1 : n \in T => n + 1 \in T
  PROVE  0 .. L \subseteq T
<1> DEFINE U == (0 .. L) \ T
<1> SUFFICES ASSUME U # {} PROVE FALSE
  OBVIOUS
<1>1. U \subseteq Nat /\ U # {}
  OBVIOUS
<1>2. \A n \in U : n # 0 /\ n - 1 \in Nat /\ n - 1 \in U
  <2> SUFFICES ASSUME NEW n \in U PROVE n # 0 /\ n - 1 \in Nat /\ n - 1 \in U
    OBVIOUS
  <2>1. n \in 1 .. L /\ n \notin T
    OBVIOUS
  <2>2. n - 1 \in 0 .. L - 1 /\ (n - 1) + 1 = n
    BY <2>1
  <2>3. n - 1 \notin T
    BY <2>1, <2>2
  <2>4. QED
    BY <2>1, <2>2, <2>3
<1> HIDE DEF U
<1>3. PICK m \in U : \A k \in U : m <= k
  BY <1>1, LeastNatural
<1>4. QED
  BY <1>1, <1>2, <1>3

\* The functions on 0 .. L with the value a at 0, each of whose other values
\* follows from the one before it by G.
Steps(L, S, a, G) ==
  {f \in [0 .. L -> S] : f[0] = a /\ \A i \in 1 .. L : f[i] = G[<<f[i - 1], i>>]}

\* There is such a function.
LEMMA Stepwise ==
  ASSUME NEW L \in Nat, NEW S, NEW a \in S, NEW G \in [S \X (1 .. L) -> S]
  PROVE  Steps(L, S, a, G) # {}
<1> DEFINE T == {n \in 0 .. L : Steps(n, S, a, G) # {}}
<1>1. 0 \in T
  <2>1. [i \in 0 .. 0 |-> a] \in Steps(0, S, a, G)
    BY DEF Steps
  <2>2. QED
    BY <2>1
<1>2. ASSUME NEW n \in 0 .. L - 1, n \in T PROVE n + 1 \in T
  <2>1. PICK f \in Steps(n, S, a, G) : TRUE
    BY <1>2
  <2>2. /\ f \in [0 .. n -> S] /\ f[0] = a
        /\ \A i \in 1 .. n : f[i] = G[<<f[i - 1], i>>]
    BY DEF Steps
  <2> DEFINE g == [i \in 0 .. n + 1 |-> IF i = n + 1 THEN G[<<f[n], n + 1>>] ELSE f[i]]
  <2>3. G[<<f[n], n + 1>>] \in S
    BY <2>2
  <2>4. g \in [0 .. n + 1 -> S] /\ g[0] = a
    BY <2>2, <2>3
  <2>5. \A i \in 1 .. n + 1 : g[i] = G[<<g[i - 1], i>>]
    <3> SUFFICES ASSUME NEW i \in 1 .. n + 1 PROVE g[i] = G[<<g[i - 1], i>>]
      OBVIOUS
    <3>1. CASE i = n + 1
      <4>1. g[i] = G[<<f[n], n + 1>>] /\ g[i - 1] = f[n]
        BY <3>1
      <4>2. QED
        BY <3>1, <4>1
    <3>2. CASE i # n + 1
      <4>1. g[i] = f[i] /\ g[i - 1] = f[i - 1] /\ i \in 1 .. n
        BY <3>2
      <4>2. QED
        BY <2>2, <4>1
    <3>3. QED
      BY <3>1, <3>2
  <2> HIDE DEF g
  <2>6. g \in Steps(n + 1, S, a, G)
    BY <2>4, <2>5 DEF Steps
  <2>7. QED
    BY <2>6
<1> HIDE DEF T
<1>3. L \in T
  BY <1>1, <1>2, UpTo
<1>4. QED
  BY <1>3 DEF T

\* What is selected from the beginnings of a sequence.
LEMMA SelectedSteps ==
  ASSUME NEW V, NEW s \in Seq(V), NEW S
  PROVE  /\ Selected(s, S)[0] = <<>>
         /\ \A i \in 1 .. Len(s) :
              Selected(s, S)[i] = IF s[i] \in S THEN Append(Selected(s, S)[i - 1], s[i])
                                  ELSE Selected(s, S)[i - 1]
         /\ \A i \in 0 .. Len(s) : Selected(s, S)[i] \in Seq(V)
<1> DEFINE L == Len(s)
           F(f) == [i \in 0 .. L |->
                      IF i = 0 THEN <<>>
                      ELSE IF s[i] \in S THEN Append(f[i - 1], s[i]) ELSE f[i - 1]]
           G == [p \in Seq(V) \X (1 .. L) |->
                   IF s[p[2]] \in S THEN Append(p[1], s[p[2]]) ELSE p[1]]
<1>1. L \in Nat /\ \A i \in 1 .. L : s[i] \in V
  OBVIOUS
<1>2. \A q \in Seq(V), v \in V : Append(q, v) \in Seq(V)
  OBVIOUS
<1>3. G \in [Seq(V) \X (1 .. L) -> Seq(V)]
  BY <1>1, <1>2
<1>4. /\ \A q \in Seq(V), i \in 1 .. L :
           G[<<q, i>>] = IF s[i] \in S THEN Append(q, s[i]) ELSE q
  OBVIOUS
<1>5. <<>> \in Seq(V)
  OBVIOUS
<1> HIDE DEF G, L
<1>6. PICK f \in [0 .. L -> Seq(V)] :
        f[0] = <<>> /\ \A i \in 1 .. L : f[i] = G[<<f[i - 1], i>>]
  <2>1. Steps(L, Seq(V), <<>>, G) # {}
    BY <1>1, <1>3, <1>5, Stepwise
  <2>2. QED
    BY <2>1 DEF Steps
<1>7. f = F(f)
  <2>1. ASSUME NEW i \in 0 .. L PROVE f[i] = F(f)[i]
    <3>1. CASE i = 0
      BY <1>6, <3>1
    <3>2. CASE i # 0
      <4>1. i \in 1 .. L /\ i - 1 \in 0 .. L
        BY <1>1, <3>2
      <4>2. QED
        BY <1>4, <1>6, <4>1
    <3>3. QED
      BY <3>1, <3>2
  <2>2. QED
    BY <2>1
<1>8. Selected(s, S) = CHOOSE g : g = F(g)
  BY DEF Selected, L
<1> DEFINE h == Selected(s, S)
<1>9. h = F(h)
  BY <1>7, <1>8
<1> HIDE DEF h
<1>10. /\ h[0] = <<>>
       /\ \A i \in 1 .. L : h[i] = IF s[i] \in S THEN Append(h[i - 1], s[i]) ELSE h[i - 1]
  <2>1. h[0] = <<>>
    BY <1>1, <1>9
  <2>2. ASSUME NEW i \in 1 .. L
        PROVE  h[i] = IF s[i] \in S THEN Append(h[i - 1], s[i]) ELSE h[i - 1]
    <3>1. i \in 0 .. L /\ i # 0
      BY <1>1
    <3>2. h[i] = F(h)[i]
      BY <1>9, Zenon
    <3>3. F(h)[i] = IF s[i] \in S THEN Append(h[i - 1], s[i]) ELSE h[i - 1]
      BY <3>1
    <3>4. QED
      BY <3>2, <3>3, Zenon
  <2>3. QED
    BY <2>1, <2>2
<1>11. \A i \in 0 .. L : h[i] \in Seq(V)
  <2> DEFINE T == {i \in 0 .. L : h[i] \in Seq(V)}
  <2>1. 0 \in T
    <3>1. 0 \in 0 .. L /\ h[0] \in Seq(V)
      BY <1>1, <1>5, <1>10
    <3>2. QED
      BY <3>1
  <2>2. ASSUME NEW n \in 0 .. L - 1, n \in T PROVE n + 1 \in T
    <3>1. n + 1 \in 1 .. L /\ (n + 1) - 1 = n /\ h[n] \in Seq(V)
      BY <1>1, <2>2
    <3>2. h[n + 1] \in Seq(V)
      BY <1>1, <1>2, <1>10, <3>1
    <3>3. QED
      BY <1>1, <3>1, <3>2
  <2> HIDE DEF T
  <2>3. 0 .. L \subseteq T
    BY <1>1, <2>1, <2>2, UpTo
  <2>4. QED
    BY <2>3 DEF T
<1>12. QED
  BY <1>10, <1>11 DEF h, L
\* Nothing is selected if no element is in the set, and one element if it is
\* the only one.
LEMMA SelectFew ==
  ASSUME NEW V, NEW s \in Seq(V), NEW S
  PROVE  /\ (\A i \in 1 .. Len(s) : s[i] \notin S) => Select(s, S) = <<>>
         /\ \A p \in 1 .. Len(s) :
              (\A i \in 1 .. Len(s) : s[i] \in S <=> i = p)
                => Select(s, S) = <<s[p]>>
<1> DEFINE h == Selected(s, S)
           L == Len(s)
<1>1. L \in Nat
  OBVIOUS
<1>2. /\ h[0] = <<>>
      /\ \A i \in 1 .. L :
           h[i] = IF s[i] \in S THEN Append(h[i - 1], s[i]) ELSE h[i - 1]
  BY SelectedSteps
<1>3. Select(s, S) = h[L]
  BY DEF Select
<1> HIDE DEF h, L
<1>4. ASSUME \A i \in 1 .. L : s[i] \notin S PROVE h[L] = <<>>
  <2> DEFINE T == {i \in 0 .. L : h[i] = <<>>}
  <2>1. 0 \in T
    BY <1>1, <1>2
  <2>2. ASSUME NEW n \in 0 .. L - 1, n \in T PROVE n + 1 \in T
    <3>1. n + 1 \in 1 .. L /\ n + 1 \in 0 .. L /\ (n + 1) - 1 = n
      BY <1>1
    <3>2. QED
      BY <1>2, <1>4, <2>2, <3>1
  <2> HIDE DEF T
  <2>3. 0 .. L \subseteq T
    BY <1>1, <2>1, <2>2, UpTo
  <2>4. QED
    BY <1>1, <2>3 DEF T
<1>5. ASSUME NEW p \in 1 .. L, \A i \in 1 .. L : s[i] \in S <=> i = p
      PROVE  h[L] = <<s[p]>>
  <2> DEFINE T == {i \in 0 .. L : h[i] = IF i < p THEN <<>> ELSE <<s[p]>>}
  <2>1. 0 \in T
    BY <1>1, <1>2
  <2>2. ASSUME NEW n \in 0 .. L - 1, n \in T PROVE n + 1 \in T
    <3>1. n + 1 \in 1 .. L /\ n + 1 \in 0 .. L /\ (n + 1) - 1 = n
      BY <1>1
    <3>2. CASE n + 1 = p
      <4>1. h[n] = <<>>
        BY <2>2, <3>1, <3>2
      <4>2. h[n + 1] = Append(h[n], s[p])
        BY <1>2, <1>5, <3>1, <3>2
      <4>2a. Append(<<>>, s[p]) = <<s[p]>>
        OBVIOUS
      <4>3. QED
        BY <3>1, <3>2, <4>1, <4>2, <4>2a
    <3>3. CASE n + 1 # p
      <4>1. h[n + 1] = h[n]
        BY <1>2, <1>5, <3>1, <3>3
      <4>2. (n < p) <=> (n + 1 < p)
        BY <3>1, <3>3
      <4>3. QED
        BY <2>2, <3>1, <4>1, <4>2
    <3>4. QED
      BY <3>2, <3>3
  <2> HIDE DEF T
  <2>3. 0 .. L \subseteq T
    BY <1>1, <2>1, <2>2, UpTo
  <2>4. QED
    BY <1>1, <2>3 DEF T
<1>6. QED
  BY <1>3, <1>4, <1>5 DEF L
\* What is selected depends on the selected elements only.
LEMMA SelectSame ==
  ASSUME NEW V, NEW s \in Seq(V), NEW t \in Seq(V), NEW S, NEW T,
         NEW n \in 0 .. Len(s), n <= Len(t),
         \A i \in 1 .. n : (s[i] \in S <=> t[i] \in T) /\ (s[i] \in S => s[i] = t[i])
  PROVE  \A i \in 0 .. n : Selected(s, S)[i] = Selected(t, T)[i]
<1> DEFINE f == Selected(s, S)
           g == Selected(t, T)
           M == {i \in 0 .. n : f[i] = g[i]}
<1>1. n \in Nat /\ Len(s) \in Nat /\ Len(t) \in Nat
  OBVIOUS
<1>2. /\ f[0] = <<>>
      /\ \A i \in 1 .. Len(s) :
           f[i] = IF s[i] \in S THEN Append(f[i - 1], s[i]) ELSE f[i - 1]
  BY SelectedSteps
<1>3. /\ g[0] = <<>>
      /\ \A i \in 1 .. Len(t) :
           g[i] = IF t[i] \in T THEN Append(g[i - 1], t[i]) ELSE g[i - 1]
  BY SelectedSteps
<1> HIDE DEF f, g
<1>4. 0 \in M
  BY <1>1, <1>2, <1>3
<1>5. ASSUME NEW i \in 0 .. n - 1, i \in M PROVE i + 1 \in M
  <2>1. /\ i + 1 \in 1 .. Len(s) /\ i + 1 \in 1 .. Len(t) /\ i + 1 \in 1 .. n
        /\ i + 1 \in 0 .. n /\ (i + 1) - 1 = i
    BY <1>1
  <2>2. f[i + 1] = IF s[i + 1] \in S THEN Append(f[i], s[i + 1]) ELSE f[i]
    BY <1>2, <2>1
  <2>3. g[i + 1] = IF t[i + 1] \in T THEN Append(g[i], t[i + 1]) ELSE g[i]
    BY <1>3, <2>1
  <2>4. (s[i + 1] \in S <=> t[i + 1] \in T) /\ (s[i + 1] \in S => s[i + 1] = t[i + 1])
    BY <2>1
  <2>5. f[i] = g[i]
    BY <1>5
  <2>6. f[i + 1] = g[i + 1]
    BY <2>2, <2>3, <2>4, <2>5
  <2>7. QED
    BY <2>1, <2>6
<1> HIDE DEF M
<1>6. 0 .. n \subseteq M
  BY <1>1, <1>4, <1>5, UpTo
<1>7. QED
  BY <1>6 DEF M, f, g

\* Selecting from a sequence with one element more.
LEMMA SelectAppend ==
  ASSUME NEW V, NEW s \in Seq(V), NEW v \in V, NEW S
  PROVE  Select(Append(s, v), S) =
           IF v \in S THEN Append(Select(s, S), v) ELSE Select(s, S)
<1> DEFINE t == Append(s, v)
           n == Len(s)
<1>1. /\ t \in Seq(V) /\ n \in Nat /\ Len(t) = n + 1 /\ t[n + 1] = v
      /\ \A i \in 1 .. n : t[i] = s[i]
  OBVIOUS
<1> HIDE DEF t
<1>2. n \in 0 .. Len(s) /\ n <= Len(t)
  BY <1>1
<1>3. \A i \in 0 .. n : Selected(s, S)[i] = Selected(t, S)[i]
  BY <1>1, <1>2, SelectSame
<1>4. Selected(t, S)[n] = Select(s, S)
  BY <1>1, <1>3 DEF Select
<1>5. n + 1 \in 1 .. Len(t) /\ (n + 1) - 1 = n
  BY <1>1
<1>6. Selected(t, S)[n + 1] =
        IF t[n + 1] \in S THEN Append(Selected(t, S)[(n + 1) - 1], t[n + 1])
        ELSE Selected(t, S)[(n + 1) - 1]
  BY <1>1, <1>5, SelectedSteps
<1>7. Select(t, S) = Selected(t, S)[n + 1]
  BY <1>1 DEF Select
<1>8. QED
  BY <1>1, <1>4, <1>5, <1>6, <1>7 DEF t
=============================================================================
