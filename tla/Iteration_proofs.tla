--------------------------- MODULE Iteration_proofs ---------------------------
(***************************************************************************)
(* Induction over the turns of a loop.  Induction on the numbers is        *)
(* derived from the library's theorem that no injection maps a finite set  *)
(* into a smaller one, which needs no operator parameter.                  *)
(***************************************************************************)
EXTENDS Iteration, FiniteSets, FiniteSetTheorems, SequenceTheorems, TLAPS

\* Induction, with a set in place of the predicate: a number outside S would
\* give an injection of the numbers of S below it into one fewer.
LEMMA SetInduction ==
  ASSUME NEW S, 0 \in S, \A n \in Nat : n \in S => n + 1 \in S
  PROVE  Nat \subseteq S
  <1> SUFFICES ASSUME NEW z \in Nat, z \notin S PROVE FALSE
    OBVIOUS
  <1> DEFINE T == {n \in 0..z : n \in S}
             U == T \ {0}
             up == [n \in T |-> n + 1]
  <1>1. IsFiniteSet(T) /\ 0 \in T
    <2>1. IsFiniteSet(0..z) /\ T \subseteq 0..z
      BY FS_Interval
    <2> QED BY <2>1, FS_Subset
  <1>2. up \in Injection(T, U)
    <2>1. \A n \in T : n + 1 \in U
      OBVIOUS
    <2> QED BY <2>1 DEF Injection, IsInjective
  <1>3. IsFiniteSet(U) /\ Cardinality(U) = Cardinality(T) - 1
        /\ Cardinality(T) \in Nat
    BY <1>1, FS_RemoveElement, FS_CardinalityType
  <1> HIDE DEF T, U, up
  <1>4. Cardinality(T) <= Cardinality(U)
    BY <1>2, <1>3, FS_Injection
  <1> QED BY <1>3, <1>4

\* f begins with x0, and F says how each value up to N follows from the one
\* before it: what Turns should satisfy.
Recursion(f, N, S, x0, F) ==
    /\ f \in [0..N -> S] /\ f[0] = x0
    /\ \A n \in 1..N : f[n] = F[n][f[n - 1]]

\* The steps of F stay in S.
Steps(F, N, S) == \A n \in 1..N, x \in S : F[n][x] \in S

\* There is such a function.
LEMMA RecursionExists ==
  ASSUME NEW N \in Nat, NEW S, NEW x0 \in S, NEW F, Steps(F, N, S)
  PROVE  \E f : Recursion(f, N, S, x0, F)
  <1> DEFINE A == {k \in Nat : k <= N => \E g : Recursion(g, k, S, x0, F)}
  <1>1. 0 \in A
    <2>1. Recursion([i \in 0..0 |-> x0], 0, S, x0, F)
      BY DEF Recursion
    <2> QED BY <2>1
  <1>2. ASSUME NEW k \in Nat, k \in A, k + 1 <= N PROVE k + 1 \in A
    <2>1. PICK g : Recursion(g, k, S, x0, F)
      BY <1>2
    <2> DEFINE h == [i \in 0..(k + 1) |->
                       IF i = k + 1 THEN F[k + 1][g[k]] ELSE g[i]]
    <2>2. F[k + 1][g[k]] \in S /\ k + 1 \in 1..N
      BY <1>2, <2>1 DEF Recursion, Steps
    <2>3. h \in [0..(k + 1) -> S]
      BY <2>1, <2>2 DEF Recursion
    <2>4. /\ \A i \in 0..k : h[i] = g[i]
          /\ h[k + 1] = F[k + 1][g[k]]
      OBVIOUS
    <2> HIDE DEF h
    <2>5. ASSUME NEW i \in 1..(k + 1) PROVE h[i] = F[i][h[i - 1]]
      <3>1. CASE i = k + 1
        BY <2>4, <3>1
      <3>2. CASE i \in 1..k
        BY <2>1, <2>4, <3>2 DEF Recursion
      <3> QED BY <3>1, <3>2
    <2>6. Recursion(h, k + 1, S, x0, F)
      BY <2>1, <2>3, <2>4, <2>5 DEF Recursion
    <2> QED BY <2>6
  <1>3. ASSUME NEW k \in Nat, k \in A PROVE k + 1 \in A
    BY <1>2, <1>3
  <1> HIDE DEF A
  <1>4. Nat \subseteq A
    BY <1>1, <1>3, SetInduction
  <1> QED BY <1>4 DEF A

\* Each step of f keeps it in S; each step of f and g keeps them equal.
StaysIn(N, f, S) == \A n \in 1..N : f[n - 1] \in S => f[n] \in S
StepsAlike(N, f, g) == \A n \in 1..N : f[n - 1] = g[n - 1] => f[n] = g[n]

\* What holds of the first value and is kept by each step holds of all.
LEMMA Kept ==
  ASSUME NEW N \in Nat, NEW f, NEW S, f[0] \in S, StaysIn(N, f, S)
  PROVE  \A n \in 0..N : f[n] \in S
  <1> DEFINE A == {n \in Nat : n <= N => f[n] \in S}
  <1>1. 0 \in A
    OBVIOUS
  <1>2. ASSUME NEW n \in Nat, n \in A PROVE n + 1 \in A
    <2>1. CASE n + 1 <= N
      <3>1. n + 1 \in 1..N /\ (n + 1) - 1 = n /\ f[n] \in S
        BY <1>2, <2>1
      <3> QED BY <3>1 DEF StaysIn
    <2> QED BY <2>1
  <1> HIDE DEF A
  <1>3. Nat \subseteq A
    BY <1>1, <1>2, SetInduction
  <1> QED BY <1>3 DEF A

\* The same with a set for each value.
StaysAlong(N, f, S) == \A n \in 1..N : f[n - 1] \in S[n - 1] => f[n] \in S[n]
LEMMA KeptAlong ==
  ASSUME NEW N \in Nat, NEW f, NEW S, f[0] \in S[0], StaysAlong(N, f, S)
  PROVE  \A n \in 0..N : f[n] \in S[n]
  <1> DEFINE A == {n \in Nat : n <= N => f[n] \in S[n]}
  <1>1. 0 \in A
    OBVIOUS
  <1>2. ASSUME NEW n \in Nat, n \in A PROVE n + 1 \in A
    <2>1. CASE n + 1 <= N
      <3>1. n + 1 \in 1..N /\ (n + 1) - 1 = n /\ f[n] \in S[n]
        BY <1>2, <2>1
      <3> QED BY <3>1 DEF StaysAlong
    <2> QED BY <2>1
  <1> HIDE DEF A
  <1>3. Nat \subseteq A
    BY <1>1, <1>2, SetInduction
  <1> QED BY <1>3 DEF A

\* Two that start alike and take the same steps are the same.
LEMMA Agree ==
  ASSUME NEW N \in Nat, NEW f, NEW g, f[0] = g[0], StepsAlike(N, f, g)
  PROVE  \A n \in 0..N : f[n] = g[n]
  <1> DEFINE A == {n \in Nat : n <= N => f[n] = g[n]}
  <1>1. 0 \in A
    OBVIOUS
  <1>2. ASSUME NEW n \in Nat, n \in A PROVE n + 1 \in A
    <2>1. CASE n + 1 <= N
      <3>1. n + 1 \in 1..N /\ (n + 1) - 1 = n /\ f[n] = g[n]
        BY <1>2, <2>1
      <3> QED BY <3>1 DEF StepsAlike
    <2> QED BY <2>1
  <1> HIDE DEF A
  <1>3. Nat \subseteq A
    BY <1>1, <1>2, SetInduction
  <1> QED BY <1>3 DEF A

\* Turns is the function its definition describes.
LEMMA TurnsAre ==
  ASSUME NEW N \in Nat, NEW S, NEW x0 \in S, NEW F, Steps(F, N, S)
  PROVE  Recursion(Turns(N, x0, F), N, S, x0, F)
  <1> DEFINE Body(h) == [n \in 0..N |-> IF n = 0 THEN x0 ELSE F[n][h[n - 1]]]
             t == Turns(N, x0, F)
  <1>1. PICK g : Recursion(g, N, S, x0, F)
    BY RecursionExists
  <1>2. g = Body(g)
    BY <1>1 DEF Recursion
  <1>3. t = CHOOSE h : h = Body(h)
    BY DEF Turns
  <1> HIDE DEF t
  <1>4. t = Body(t)
    <2> HIDE DEF Body
    <2> QED BY <1>2, <1>3
  <1>5. t[0] = x0 /\ \A n \in 1..N : t[n] = F[n][t[n - 1]]
    BY <1>4
  <1>6. StepsAlike(N, t, g)
    BY <1>1, <1>5 DEF Recursion, StepsAlike
  <1>7. t[0] = g[0]
    BY <1>1, <1>5 DEF Recursion
  <1>8. \A n \in 0..N : t[n] = g[n]
    BY <1>6, <1>7, Agree
  <1>9. t = g
    BY <1>1, <1>4, <1>8 DEF Recursion
  <1> QED BY <1>1, <1>9 DEF t

\* A loop whose steps stay in S ends in S.
LEMMA IterateType ==
  ASSUME NEW N \in Nat, NEW S, NEW x0 \in S, NEW F, Steps(F, N, S)
  PROVE  Iterate(N, x0, F) \in S
  <1>1. Turns(N, x0, F) \in [0..N -> S]
    BY TurnsAre DEF Recursion
  <1> QED BY <1>1 DEF Iterate

\* No turn.
LEMMA IterateZero ==
  ASSUME NEW S, NEW x0 \in S, NEW F, Steps(F, 0, S)
  PROVE  Iterate(0, x0, F) = x0
  <1>1. Recursion(Turns(0, x0, F), 0, S, x0, F)
    BY TurnsAre
  <1> QED BY <1>1 DEF Iterate, Recursion

\* One turn more.
Extends(G, F, N) == \A n \in 1..N : G[n] = F[n]
LEMMA IterateMore ==
  ASSUME NEW N \in Nat, NEW S, NEW x0 \in S, NEW F, NEW G,
         Steps(F, N, S), Steps(G, N + 1, S), Extends(G, F, N)
  PROVE  Iterate(N + 1, x0, G) = G[N + 1][Iterate(N, x0, F)]
  <1> DEFINE f == Turns(N, x0, F)
             g == Turns(N + 1, x0, G)
  <1>1. Recursion(f, N, S, x0, F)
    BY TurnsAre
  <1>2. Recursion(g, N + 1, S, x0, G)
    BY TurnsAre
  <1> HIDE DEF f, g
  <1>3. StepsAlike(N, f, g)
    <2>1. ASSUME NEW n \in 1..N, f[n - 1] = g[n - 1] PROVE f[n] = g[n]
      <3>1. n \in 1..(N + 1) /\ G[n] = F[n]
        BY DEF Extends
      <3>2. f[n] = F[n][f[n - 1]] /\ g[n] = G[n][g[n - 1]]
        BY <1>1, <1>2, <3>1 DEF Recursion
      <3> QED BY <2>1, <3>1, <3>2
    <2> QED BY <2>1 DEF StepsAlike
  <1>4. f[0] = g[0]
    BY <1>1, <1>2 DEF Recursion
  <1>5. f[N] = g[N]
    BY <1>3, <1>4, Agree
  <1>6. g[N + 1] = G[N + 1][g[N]]
    <2>1. N + 1 \in 1..(N + 1) /\ (N + 1) - 1 = N
      OBVIOUS
    <2> QED BY <1>2, <2>1 DEF Recursion
  <1> QED BY <1>5, <1>6 DEF Iterate, f, g

-----------------------------------------------------------------------------
(* Loops over lists.                                                       *)

\* G has a step on S for each element of T.
StepsFor(G, T, S) == \A a \in T, x \in S : G[a][x] \in S

ListSteps(w, G) == [n \in 1..Len(w) |-> G[w[n]]]

\* A loop over a list is a loop.
LEMMA FoldIterates ==
  ASSUME NEW T, NEW S, NEW x0, NEW G, StepsFor(G, T, S), NEW w \in Seq(T)
  PROVE  /\ Len(w) \in Nat /\ Steps(ListSteps(w, G), Len(w), S)
         /\ FoldList(w, x0, G) = Iterate(Len(w), x0, ListSteps(w, G))
  <1>1. \A n \in 1..Len(w) : w[n] \in T
    OBVIOUS
  <1>2. Steps(ListSteps(w, G), Len(w), S)
    BY <1>1 DEF StepsFor, Steps, ListSteps
  <1> QED BY <1>2 DEF ListSteps, FoldList

\* So it ends in S.
LEMMA FoldType ==
  ASSUME NEW T, NEW S, NEW x0 \in S, NEW G, StepsFor(G, T, S),
         NEW w \in Seq(T)
  PROVE  FoldList(w, x0, G) \in S
  BY FoldIterates, IterateType

\* Nothing to do.
LEMMA FoldEmpty ==
  ASSUME NEW T, NEW S, NEW x0 \in S, NEW G, StepsFor(G, T, S)
  PROVE  FoldList(<<>>, x0, G) = x0
  <1> DEFINE w == <<>>
  <1>1. w \in Seq(T) /\ Len(w) = 0
    OBVIOUS
  <1> HIDE DEF w
  <1>2. Steps(ListSteps(w, G), Len(w), S)
    BY <1>1, FoldIterates
  <1>3. FoldList(w, x0, G) = Iterate(Len(w), x0, ListSteps(w, G))
    BY DEF FoldList, ListSteps
  <1>4. FoldList(w, x0, G) = x0
    BY <1>1, <1>2, <1>3, IterateZero
  <1> QED BY <1>4 DEF w

\* One element more.
LEMMA FoldAppend ==
  ASSUME NEW T, NEW S, NEW x0 \in S, NEW G, StepsFor(G, T, S),
         NEW w \in Seq(T), NEW a \in T
  PROVE  FoldList(w \o <<a>>, x0, G) = G[a][FoldList(w, x0, G)]
  <1> DEFINE v == w \o <<a>>
             F == ListSteps(w, G)
             H == ListSteps(v, G)
  <1>1. /\ v \in Seq(T) /\ Len(v) = Len(w) + 1 /\ v[Len(w) + 1] = a
        /\ Len(w) \in Nat /\ \A n \in 1..Len(w) : v[n] = w[n]
    OBVIOUS
  <1> HIDE DEF v
  <1>2. Steps(F, Len(w), S) /\ Steps(H, Len(v), S)
    BY <1>1, FoldIterates
  <1>3. H[Len(w) + 1] = G[a] /\ Extends(H, F, Len(w))
    BY <1>1 DEF ListSteps, Extends
  <1>4. FoldList(v, x0, G) = Iterate(Len(w) + 1, x0, H)
        /\ FoldList(w, x0, G) = Iterate(Len(w), x0, F)
    BY <1>1 DEF FoldList, ListSteps
  <1> HIDE DEF F, H
  <1>5. Iterate(Len(w) + 1, x0, H) = H[Len(w) + 1][Iterate(Len(w), x0, F)]
    BY <1>1, <1>2, <1>3, IterateMore
  <1> QED BY <1>3, <1>4, <1>5 DEF v

-----------------------------------------------------------------------------
(* Induction over lists.                                                   *)

\* w is v and then a.
OneMore(w, v, a) ==
    /\ Len(w) = Len(v) + 1 /\ w[Len(w)] = a
    /\ \A i \in 1..Len(v) : w[i] = v[i]
LEMMA OneMoreIs ==
  ASSUME NEW T, NEW v \in Seq(T), NEW w \in Seq(T), NEW a \in T,
         OneMore(w, v, a)
  PROVE  w = v \o <<a>>
  <1> DEFINE u == v \o <<a>>
  <1>1. Len(v) \in Nat /\ Len(w) \in 1..Len(w) /\ w[Len(w)] = a
        /\ Len(w) = Len(v) + 1 /\ \A i \in 1..Len(v) : w[i] = v[i]
    BY DEF OneMore
  <1>2. u \in Seq(T) /\ Len(u) = Len(w) /\ u[Len(w)] = a
        /\ \A i \in 1..Len(v) : u[i] = v[i]
    BY <1>1
  <1> HIDE DEF u
  <1>3. \A i \in 1..Len(w) : w[i] = u[i]
    BY <1>1, <1>2
  <1>4. w = u
    BY <1>2, <1>3, SeqEqual
  <1> QED BY <1>4 DEF u

\* P has the empty list, and with every list those one element longer.
Grows(P, T) == \A w \in Seq(T), a \in T : w \in P => w \o <<a>> \in P
LEMMA ListInduction ==
  ASSUME NEW T, NEW P, <<>> \in P, Grows(P, T)
  PROVE  Seq(T) \subseteq P
  <1> DEFINE A == {n \in Nat : \A w \in Seq(T) : Len(w) = n => w \in P}
  <1>1. 0 \in A
    <2>1. \A w \in Seq(T) : Len(w) = 0 => w = <<>>
      BY EmptySeq
    <2> QED BY <2>1
  <1>2. ASSUME NEW n \in Nat, n \in A PROVE n + 1 \in A
    <2>1. ASSUME NEW w \in Seq(T), Len(w) = n + 1 PROVE w \in P
      <3> DEFINE v == SubSeq(w, 1, n)
                 a == w[n + 1]
      <3>1. v \in Seq(T) /\ Len(v) = n /\ a \in T
            /\ \A i \in 1..n : w[i] = v[i]
        BY <2>1
      <3> HIDE DEF v, a
      <3>2. OneMore(w, v, a)
        BY <2>1, <3>1 DEF OneMore, a
      <3>3. w = v \o <<a>>
        BY <3>1, <3>2, OneMoreIs
      <3>4. v \in P
        BY <1>2, <3>1
      <3> QED BY <3>1, <3>3, <3>4 DEF Grows
    <2> QED BY <2>1
  <1> HIDE DEF A
  <1>3. Nat \subseteq A
    BY <1>1, <1>2, SetInduction
  <1>4. \A w \in Seq(T) : Len(w) \in Nat
    OBVIOUS
  <1> QED BY <1>3, <1>4 DEF A

\* A loop over two lists is a loop over each in turn.
LEMMA FoldConcat ==
  ASSUME NEW T, NEW S, NEW x0 \in S, NEW G, StepsFor(G, T, S),
         NEW v \in Seq(T), NEW w \in Seq(T)
  PROVE  FoldList(v \o w, x0, G) = FoldList(w, FoldList(v, x0, G), G)
  <1> DEFINE x == FoldList(v, x0, G)
             P == {u \in Seq(T) : FoldList(v \o u, x0, G) = FoldList(u, x, G)}
  <1>1. x \in S
    BY FoldType
  <1> HIDE DEF x
  <1>2. <<>> \in P
    <2>1. v \o <<>> = v /\ <<>> \in Seq(T)
      OBVIOUS
    <2>2. FoldList(<<>>, x, G) = x
      BY <1>1, FoldEmpty
    <2> QED BY <2>1, <2>2 DEF x
  <1>3. ASSUME NEW u \in Seq(T), NEW a \in T, u \in P
        PROVE  u \o <<a>> \in P
    <2>1. /\ v \o (u \o <<a>>) = (v \o u) \o <<a>>
          /\ v \o u \in Seq(T) /\ u \o <<a>> \in Seq(T)
      OBVIOUS
    <2>2. FoldList((v \o u) \o <<a>>, x0, G) = G[a][FoldList(v \o u, x0, G)]
      <3> DEFINE vu == v \o u
      <3>1. vu \in Seq(T)
        BY <2>1
      <3> HIDE DEF vu
      <3>2. FoldList(vu \o <<a>>, x0, G) = G[a][FoldList(vu, x0, G)]
        BY <3>1, FoldAppend
      <3> QED BY <3>2 DEF vu
    <2>3. FoldList(u \o <<a>>, x, G) = G[a][FoldList(u, x, G)]
      BY <1>1, FoldAppend
    <2> QED BY <1>3, <2>1, <2>2, <2>3
  <1> HIDE DEF P
  <1>4. Grows(P, T)
    BY <1>3 DEF Grows
  <1>5. Seq(T) \subseteq P
    BY <1>2, <1>4, ListInduction
  <1> QED BY <1>5 DEF P, x
=============================================================================
