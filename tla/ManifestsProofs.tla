-------------------------- MODULE ManifestsProofs ---------------------------
(***************************************************************************)
(* Proofs of what MCManifests checks for lists of a few references, here   *)
(* for lists of any length.  The slices that the code appends to in a loop *)
(* are values of a recursive function, so the proofs start with induction: *)
(* as a fact about sets of numbers, which first-order provers can use.     *)
(***************************************************************************)
EXTENDS MCManifests, FiniteSetTheorems, WellFoundedInduction, TLAPS

-----------------------------------------------------------------------------
(* Induction over the length of a list *)

\* A set of natural numbers that is not empty has a least element.
LEMMA LeastNatural ==
  ASSUME NEW T, T \subseteq Nat, T # {}
  PROVE  \E n \in T : \A m \in T : n <= m
<1> DEFINE R == OpToRel(<, Nat)
<1>1. IsWellFoundedOn(R, Nat)
  BY NatLessThanWellFounded
<1>2. \A m, n \in Nat : m < n => <<m, n>> \in R
  BY DEF OpToRel
<1> HIDE DEF R
<1>3. PICK x \in T : \A y \in T : ~ (<<y, x>> \in R)
  BY <1>1, WFMin
<1>4. ASSUME NEW m \in T
      PROVE  x <= m
  <2>1. ~ (<<m, x>> \in R)
    BY <1>3
  <2>2. m \in Nat /\ x \in Nat
    OBVIOUS
  <2>3. ~ (m < x)
    BY <1>2, <2>1, <2>2
  <2> QED BY <2>2, <2>3
<1> QED BY <1>4

\* Induction: a set that has 1 and with n also n + 1 has every number of 1 .. m.
LEMMA Induction ==
  ASSUME NEW m \in Nat, NEW S, m > 0 => 1 \in S,
         \A n \in 1 .. m - 1 : n \in S => n + 1 \in S
  PROVE  \A n \in 1 .. m : n \in S
<1> DEFINE T == {n \in 1 .. m : n \notin S}
<1> SUFFICES ASSUME T # {}
             PROVE  FALSE
  OBVIOUS
<1>1. T \subseteq Nat
  OBVIOUS
<1>2. PICK n \in T : \A k \in T : n <= k
  BY <1>1, LeastNatural
<1>3. n # 1
  OBVIOUS
<1>4. n - 1 \in 1 .. m - 1 /\ n - 1 \notin T
  BY <1>2, <1>3
<1> QED BY <1>4

\* A set of indices that is not empty has a greatest one, and Max finds it.
LEMMA GreatestIndex ==
  ASSUME NEW m \in Nat, NEW I, I \subseteq 1 .. m, I # {}
  PROVE  Max(I) \in I /\ \A i \in I : i <= Max(I)
<1> DEFINE T == {m - i : i \in I}
<1>1. T \subseteq Nat /\ T # {}
  <2>1. \A i \in I : m - i \in Nat
    OBVIOUS
  <2> QED BY <2>1
<1>2. PICK n \in T : \A k \in T : n <= k
  BY <1>1, LeastNatural
<1>3. PICK x \in I : n = m - x
  OBVIOUS
<1>4. \A i \in I : m - x <= m - i
  BY <1>2, <1>3
<1>5. \A i \in I : x >= i
  BY <1>4
<1> QED BY <1>5 DEF Max

-----------------------------------------------------------------------------
(* Slices that a loop appends to *)

\* The slice after each round of the loop.
Rounds(s, f) ==
    f = [i \in 1 .. Len(s) |-> IF i = 1 THEN s[i] ELSE f[i - 1] \o s[i]]

\* The same for the first n rounds.
FirstRounds(s, n, f) ==
    f = [i \in 1 .. n |-> IF i = 1 THEN s[i] ELSE f[i - 1] \o s[i]]

\* The loop is well defined: some function gives the slice after each round.
LEMMA RoundsExist ==
  ASSUME NEW A, NEW s \in Seq(Seq(A)), Len(s) > 0
  PROVE  \E f : Rounds(s, f)
<1> DEFINE S == {n \in 1 .. Len(s) : \E f : FirstRounds(s, n, f)}
<1>1. 1 \in S
  <2> DEFINE f == [i \in 1 .. 1 |-> s[1]]
  <2>1. \A i \in 1 .. 1 :
          s[1] = IF i = 1 THEN s[i] ELSE f[i - 1] \o s[i]
    OBVIOUS
  <2>2. f = [i \in 1 .. 1 |-> IF i = 1 THEN s[i] ELSE f[i - 1] \o s[i]]
    BY <2>1
  <2> HIDE DEF f
  <2>3. FirstRounds(s, 1, f)
    BY <2>2 DEF FirstRounds
  <2>4. 1 \in 1 .. Len(s)
    OBVIOUS
  <2> QED BY <2>3, <2>4
<1>2. ASSUME NEW n \in 1 .. Len(s) - 1, n \in S
      PROVE  n + 1 \in S
  <2>1. PICK f : FirstRounds(s, n, f)
    BY <1>2
  <2> DEFINE g == [i \in 1 .. n + 1 |->
                     IF i = n + 1 THEN f[n] \o s[n + 1] ELSE f[i]]
             h == [i \in 1 .. n + 1 |->
                     IF i = 1 THEN s[i] ELSE g[i - 1] \o s[i]]
  <2>2. ASSUME NEW i \in 1 .. n + 1
        PROVE  g[i] = h[i]
    <3>1. CASE i = n + 1
      <4>1. g[i - 1] = f[n] /\ i # 1
        BY <3>1
      <4> HIDE DEF g
      <4>2. h[i] = g[i - 1] \o s[i]
        BY <4>1
      <4>3. g[i] = f[n] \o s[n + 1]
        BY <3>1 DEF g
      <4> QED BY <3>1, <4>1, <4>2, <4>3
    <3>2. CASE i # n + 1
      <4>1. i \in 1 .. n /\ g[i] = f[i]
        BY <3>2
      <4>2. f[i] = IF i = 1 THEN s[i] ELSE f[i - 1] \o s[i]
        BY <2>1, <4>1 DEF FirstRounds
      <4>3. i # 1 => g[i - 1] = f[i - 1]
        BY <4>1
      <4> HIDE DEF g
      <4> QED BY <4>1, <4>2, <4>3
    <3> QED BY <3>1, <3>2
  <2> HIDE DEF h
  <2>3. g = [i \in 1 .. n + 1 |-> h[i]]
    BY <2>2
  <2>4. FirstRounds(s, n + 1, g)
    <3>1. h = [i \in 1 .. n + 1 |-> h[i]]
      BY DEF h
    <3> QED BY <2>3, <3>1 DEF FirstRounds, h
  <2> QED BY <2>4
<1> HIDE DEF S
<1>3. Len(s) \in Nat /\ Len(s) \in 1 .. Len(s)
  OBVIOUS
<1>4. \A n \in 1 .. Len(s) - 1 : n \in S => n + 1 \in S
  BY <1>2
<1>5. \A n \in 1 .. Len(s) : n \in S
  BY <1>1, <1>3, <1>4, Induction
<1>6. Len(s) \in S
  BY <1>3, <1>5
<1> QED BY <1>6 DEF S, Rounds, FirstRounds

\* What FlattenSeq returns is the slice after the last round.
LEMMA FlattenIsLastRound ==
  ASSUME NEW A, NEW s \in Seq(Seq(A)), Len(s) > 0
  PROVE  \E f \in [1 .. Len(s) -> Seq(A)] :
            Rounds(s, f) /\ FlattenSeq(s) = f[Len(s)]
<1> DEFINE f == CHOOSE f : Rounds(s, f)
<1>1. Rounds(s, f)
  BY RoundsExist
<1>2. FlattenSeq(s) = f[Len(s)]
  BY DEF FlattenSeq, Rounds
<1> DEFINE S == {n \in 1 .. Len(s) : f[n] \in Seq(A)}
<1> HIDE DEF f
<1>3. 1 \in S
  BY <1>1 DEF Rounds
<1>4. ASSUME NEW n \in 1 .. Len(s) - 1, n \in S
      PROVE  n + 1 \in S
  <2>1. n + 1 \in 1 .. Len(s) /\ n + 1 # 1 /\ (n + 1) - 1 = n
    OBVIOUS
  <2>2. f[n + 1] = f[n] \o s[n + 1]
    BY <1>1, <2>1 DEF Rounds
  <2>3. f[n] \in Seq(A) /\ s[n + 1] \in Seq(A)
    BY <1>4, <2>1
  <2>4. f[n + 1] \in Seq(A)
    BY <2>2, <2>3
  <2> QED BY <2>1, <2>4
<1> HIDE DEF S
<1>5. \A n \in 1 .. Len(s) : n \in S
  <2>1. Len(s) \in Nat
    OBVIOUS
  <2>2. \A n \in 1 .. Len(s) - 1 : n \in S => n + 1 \in S
    BY <1>4
  <2> QED BY <1>3, <2>1, <2>2, Induction
<1>6. \A n \in 1 .. Len(s) : f[n] \in Seq(A)
  BY <1>5 DEF S
<1>7. f \in [1 .. Len(s) -> Seq(A)]
  <2>1. f = [i \in 1 .. Len(s) |-> f[i]]
    BY <1>1 DEF Rounds
  <2> QED BY <1>6, <2>1
<1> QED BY <1>1, <1>2, <1>7

\* In t, the part s[i] starts after position off[i]; the parts fill t, and come
\* one after the other.
Placed(s, t, off) ==
    /\ off \in [1 .. Len(s) -> Nat]
    /\ \A i \in 1 .. Len(s) : \A j \in 1 .. Len(s[i]) :
          off[i] + j \in 1 .. Len(t) /\ t[off[i] + j] = s[i][j]
    /\ \A p \in 1 .. Len(t) :
          \E i \in 1 .. Len(s) : \E j \in 1 .. Len(s[i]) : p = off[i] + j
    /\ \A i, k \in 1 .. Len(s) : i < k => off[i] + Len(s[i]) <= off[k]

\* The same after n rounds.
PlacedAfter(s, n, t, off) ==
    /\ \A i \in 1 .. n : \A j \in 1 .. Len(s[i]) :
          off[i] + j \in 1 .. Len(t) /\ t[off[i] + j] = s[i][j]
    /\ \A p \in 1 .. Len(t) :
          \E i \in 1 .. n : \E j \in 1 .. Len(s[i]) : p = off[i] + j
    /\ \A i \in 1 .. n : off[i] + Len(s[i]) <= Len(t)

\* A round puts its part behind the parts of the rounds before it.
LEMMA RoundPlaces ==
  ASSUME NEW A, NEW s \in Seq(Seq(A)), NEW t \in Seq(A),
         NEW n \in 1 .. Len(s) - 1, NEW off \in [1 .. Len(s) -> Nat],
         off[n + 1] = Len(t), PlacedAfter(s, n, t, off)
  PROVE  PlacedAfter(s, n + 1, t \o s[n + 1], off)
<1> DEFINE u == t \o s[n + 1]
<1>1. n + 1 \in 1 .. Len(s) /\ s[n + 1] \in Seq(A)
  OBVIOUS
<1>2. /\ Len(u) = Len(t) + Len(s[n + 1])
      /\ \A p \in 1 .. Len(t) : u[p] = t[p]
      /\ \A j \in 1 .. Len(s[n + 1]) : u[Len(t) + j] = s[n + 1][j]
      /\ Len(t) \in Nat /\ Len(s[n + 1]) \in Nat
  BY <1>1
<1> HIDE DEF u
<1>3. \A i \in 1 .. n : i \in 1 .. Len(s) /\ s[i] \in Seq(A)
  OBVIOUS
<1>4. \A i \in 1 .. n : off[i] \in Nat /\ Len(s[i]) \in Nat
  <2> TAKE i \in 1 .. n
  <2>1. i \in 1 .. Len(s) /\ s[i] \in Seq(A)
    BY <1>3
  <2>2. off[i] \in Nat
    BY <2>1
  <2>3. Len(s[i]) \in Nat
    BY <2>1
  <2> QED BY <2>2, <2>3
<1>5. ASSUME NEW i \in 1 .. n + 1, NEW j \in 1 .. Len(s[i])
      PROVE  off[i] + j \in 1 .. Len(u) /\ u[off[i] + j] = s[i][j]
  <2>1. CASE i = n + 1
    <3>1. j \in 1 .. Len(s[n + 1]) /\ off[i] = Len(t)
      BY <2>1
    <3> DEFINE last == Len(s[n + 1])
               before == Len(t)
               all == Len(u)
    <3>2. before \in Nat /\ last \in Nat /\ all = before + last /\ j \in 1 .. last
      BY <1>2, <3>1
    <3>3. u[Len(t) + j] = s[n + 1][j]
      BY ZenonT(30), <1>2, <3>1
    <3> HIDE DEF last, before, all
    <3>4. before + j \in 1 .. all
      BY <3>2
    <3> QED BY <2>1, <3>1, <3>3, <3>4 DEF before, all
  <2>2. CASE i # n + 1
    <3>1. i \in 1 .. n
      BY <2>2
    <3>2. off[i] + j \in 1 .. Len(t) /\ t[off[i] + j] = s[i][j]
      BY <3>1 DEF PlacedAfter
    <3>3. off[i] + j \in 1 .. Len(u)
      BY SMTT(30), <1>2, <3>2
    <3>4. u[off[i] + j] = t[off[i] + j]
      BY <1>2, <3>2
    <3> QED BY <3>2, <3>3, <3>4
  <2> QED BY <2>1, <2>2
<1>6. ASSUME NEW p \in 1 .. Len(u)
      PROVE  \E i \in 1 .. n + 1 : \E j \in 1 .. Len(s[i]) : p = off[i] + j
  <2>1. CASE p \in 1 .. Len(t)
    <3>1. PICK i \in 1 .. n : \E j \in 1 .. Len(s[i]) : p = off[i] + j
      BY <2>1 DEF PlacedAfter
    <3>2. i \in 1 .. n + 1
      OBVIOUS
    <3> QED BY <3>1, <3>2
  <2>2. CASE p \notin 1 .. Len(t)
    <3>1. p - Len(t) \in 1 .. Len(s[n + 1])
      BY <1>2, <2>2
    <3>2. p = off[n + 1] + (p - Len(t)) /\ n + 1 \in 1 .. n + 1
      BY <1>2
    <3> QED BY <3>1, <3>2
  <2> QED BY <2>1, <2>2
<1>7. ASSUME NEW i \in 1 .. n + 1
      PROVE  off[i] + Len(s[i]) <= Len(u)
  <2>1. CASE i = n + 1
    BY <1>2, <2>1
  <2>2. CASE i # n + 1
    <3>1. i \in 1 .. n
      BY <2>2
    <3>2. off[i] + Len(s[i]) <= Len(t)
      BY <3>1 DEF PlacedAfter
    <3> QED BY SMTT(30), <1>2, <1>4, <3>1, <3>2
  <2> QED BY <2>1, <2>2
<1>8. PlacedAfter(s, n + 1, u, off)
  BY <1>5, <1>6, <1>7 DEF PlacedAfter
<1> QED BY <1>8 DEF u

\* FlattenSeq puts the parts one behind the other and adds nothing.
LEMMA FlattenPlaces ==
  ASSUME NEW A, NEW s \in Seq(Seq(A))
  PROVE  /\ FlattenSeq(s) \in Seq(A)
         /\ \E off : Placed(s, FlattenSeq(s), off)
<1>1. CASE Len(s) = 0
  <2>1. s = <<>> /\ FlattenSeq(s) = s
    BY <1>1 DEF FlattenSeq
  <2> DEFINE off == [i \in 1 .. Len(s) |-> 0]
  <2>2. Placed(s, FlattenSeq(s), off)
    BY <1>1, <2>1 DEF Placed
  <2>3. <<>> \in Seq(A)
    OBVIOUS
  <2> HIDE DEF off
  <2> QED BY <2>1, <2>2, <2>3
<1>2. CASE Len(s) > 0
  <2>1. PICK f \in [1 .. Len(s) -> Seq(A)] :
          Rounds(s, f) /\ FlattenSeq(s) = f[Len(s)]
    BY <1>2, FlattenIsLastRound
  <2> DEFINE off == [i \in 1 .. Len(s) |-> IF i = 1 THEN 0 ELSE Len(f[i - 1])]
             S == {n \in 1 .. Len(s) : PlacedAfter(s, n, f[n], off)}
  <2>2. /\ off \in [1 .. Len(s) -> Nat]
        /\ 1 \in 1 .. Len(s) /\ off[1] = 0
        /\ \A n \in 1 .. Len(s) - 1 : off[n + 1] = Len(f[n])
    <3>1. \A i \in 1 .. Len(s) : i # 1 => Len(f[i - 1]) \in Nat
      OBVIOUS
    <3>2. \A n \in 1 .. Len(s) - 1 :
            n + 1 \in 1 .. Len(s) /\ n + 1 # 1 /\ (n + 1) - 1 = n
      OBVIOUS
    <3> QED BY <1>2, <3>1, <3>2
  <2> HIDE DEF off
  <2>3. 1 \in S
    <3>1. f[1] = s[1] /\ s[1] \in Seq(A)
      BY <2>1, <2>2 DEF Rounds
    <3>2. \A i \in 1 .. 1 : i = 1
      OBVIOUS
    <3>3. \A p \in 1 .. Len(s[1]) : p = off[1] + p /\ off[1] + p = p
      BY <2>2
    <3>4. off[1] + Len(s[1]) <= Len(s[1])
      BY <2>2, <3>1
    <3>5. PlacedAfter(s, 1, s[1], off)
      BY <3>2, <3>3, <3>4 DEF PlacedAfter
    <3> QED BY <2>2, <3>1, <3>5
  <2>4. ASSUME NEW n \in 1 .. Len(s) - 1, n \in S
        PROVE  n + 1 \in S
    <3>1. n + 1 \in 1 .. Len(s) /\ n + 1 # 1 /\ (n + 1) - 1 = n
          /\ n \in 1 .. Len(s)
      OBVIOUS
    <3>2. f[n + 1] = f[n] \o s[n + 1] /\ f[n] \in Seq(A)
      BY <2>1, <3>1 DEF Rounds
    <3>3. PlacedAfter(s, n + 1, f[n] \o s[n + 1], off)
      BY <2>2, <2>4, <3>2, RoundPlaces
    <3> QED BY <3>1, <3>2, <3>3
  <2> HIDE DEF S
  <2>5. \A n \in 1 .. Len(s) : n \in S
    <3>1. Len(s) \in Nat
      OBVIOUS
    <3>2. \A n \in 1 .. Len(s) - 1 : n \in S => n + 1 \in S
      BY <2>4
    <3> QED BY <2>3, <3>1, <3>2, Induction
  <2>6. \A n \in 1 .. Len(s) : PlacedAfter(s, n, f[n], off)
    BY <2>5 DEF S
  <2>7. Len(s) \in 1 .. Len(s)
    BY <1>2
  <2>8. PlacedAfter(s, Len(s), FlattenSeq(s), off)
    BY <2>1, <2>6, <2>7
  <2>9. ASSUME NEW i \in 1 .. Len(s), NEW k \in 1 .. Len(s), i < k
        PROVE  off[i] + Len(s[i]) <= off[k]
    <3>1. k - 1 \in 1 .. Len(s) - 1 /\ k - 1 \in 1 .. Len(s)
          /\ (k - 1) + 1 = k /\ i \in 1 .. k - 1
      BY <2>9
    <3>2. off[k] = Len(f[k - 1])
      BY <2>2, <3>1
    <3>3. PlacedAfter(s, k - 1, f[k - 1], off)
      BY <2>6, <3>1
    <3> QED BY <3>1, <3>2, <3>3 DEF PlacedAfter
  <2>10. Placed(s, FlattenSeq(s), off)
    BY <2>2, <2>8, <2>9 DEF Placed, PlacedAfter
  <2>11. FlattenSeq(s) \in Seq(A)
    BY <2>1, <2>7
  <2> QED BY <2>10, <2>11
<1>3. Len(s) \in Nat
  OBVIOUS
<1> QED BY <1>1, <1>2, <1>3

\* y is an element of one of the parts.
InPart(s, y) == \E i \in 1 .. Len(s) : \E j \in 1 .. Len(s[i]) : y = s[i][j]

\* y and z are elements of the parts, at two different places.
TwoPlaces(s, y, z) ==
    \E i, k \in 1 .. Len(s) :
        \E j \in 1 .. Len(s[i]), l \in 1 .. Len(s[k]) :
            (i # k \/ j # l) /\ y = s[i][j] /\ z = s[k][l]

\* Two places of the parts are two places of the slice.
LEMMA PlacesDiffer ==
  ASSUME NEW A, NEW s \in Seq(Seq(A)), NEW t, NEW off, Placed(s, t, off),
         NEW i \in 1 .. Len(s), NEW k \in 1 .. Len(s),
         NEW j \in 1 .. Len(s[i]), NEW l \in 1 .. Len(s[k]),
         i # k \/ j # l
  PROVE  off[i] + j # off[k] + l
<1>0. off \in [1 .. Len(s) -> Nat]
  BY DEF Placed
<1>1. /\ off[i] \in Nat /\ off[k] \in Nat
      /\ s[i] \in Seq(A) /\ s[k] \in Seq(A)
  <2>1. off[i] \in Nat /\ off[k] \in Nat
    BY <1>0
  <2>2. s[i] \in Seq(A) /\ s[k] \in Seq(A)
    OBVIOUS
  <2> QED BY <2>1, <2>2
<1>2. Len(s[i]) \in Nat /\ Len(s[k]) \in Nat
  BY <1>1
<1>3. /\ i < k => off[i] + Len(s[i]) <= off[k]
      /\ k < i => off[k] + Len(s[k]) <= off[i]
  BY DEF Placed
<1>4. CASE i = k
  BY <1>1, <1>2, <1>4
<1>5. CASE i < k
  <2>1. off[i] + j <= off[i] + Len(s[i])
    BY <1>1, <1>2
  <2> QED BY SMTT(30), <1>1, <1>2, <1>3, <1>5, <2>1
<1>6. CASE k < i
  <2>1. off[k] + l <= off[k] + Len(s[k])
    BY <1>1, <1>2
  <2> QED BY SMTT(30), <1>1, <1>2, <1>3, <1>6, <2>1
<1> QED BY <1>4, <1>5, <1>6

\* What the slice t holds that starts with x and gets a part in each round.
Appended(x, s, t) ==
    /\ \A y : y \in ToSet(t) <=> y = x \/ InPart(s, y)
    /\ \A y, z : TwoPlaces(s, y, z) =>
          \E p, q \in DOMAIN t : p # q /\ t[p] = y /\ t[q] = z
    /\ \A p, q \in DOMAIN t : p # q =>
          \/ t[p] = x /\ InPart(s, t[q])
          \/ t[q] = x /\ InPart(s, t[p])
          \/ TwoPlaces(s, t[p], t[q])

\* A loop that appends a part in each round makes such a slice.
LEMMA LoopAppends ==
  ASSUME NEW A, NEW x \in A, NEW s \in Seq(Seq(A))
  PROVE  Appended(x, s, <<x>> \o FlattenSeq(s))
<1> DEFINE f == FlattenSeq(s)
           t == <<x>> \o f
<1>1. PICK off : f \in Seq(A) /\ Placed(s, f, off)
  BY FlattenPlaces
<1> HIDE DEF f
<1>2. /\ t \in Seq(A) /\ Len(f) \in Nat
      /\ DOMAIN t = 1 .. 1 + Len(f)
      /\ t[1] = x
      /\ \A p \in 1 .. Len(f) : t[1 + p] = f[p] /\ 1 + p \in DOMAIN t
  BY <1>1
<1> HIDE DEF t
<1>3. \A p \in DOMAIN t : p = 1 \/ (p - 1 \in 1 .. Len(f) /\ p = 1 + (p - 1))
  BY <1>2
<1>4. \A i \in 1 .. Len(s) : \A j \in 1 .. Len(s[i]) :
        /\ off[i] + j \in 1 .. Len(f)
        /\ f[off[i] + j] = s[i][j]
  BY <1>1 DEF Placed
<1>5. ASSUME NEW p \in DOMAIN t, p # 1
      PROVE  \E i \in 1 .. Len(s) : \E j \in 1 .. Len(s[i]) :
                p - 1 = off[i] + j /\ t[p] = s[i][j]
  <2>1. p - 1 \in 1 .. Len(f) /\ t[p] = f[p - 1]
    BY <1>2, <1>3, <1>5
  <2>2. PICK i \in 1 .. Len(s) : \E j \in 1 .. Len(s[i]) : p - 1 = off[i] + j
    BY <1>1, <2>1 DEF Placed
  <2>3. PICK j \in 1 .. Len(s[i]) : p - 1 = off[i] + j
    BY <2>2
  <2>4. t[p] = s[i][j]
    BY <1>4, <2>1, <2>3
  <2> QED BY <2>3, <2>4
<1>6. ASSUME NEW y
      PROVE  y \in ToSet(t) <=> y = x \/ InPart(s, y)
  <2>1. ASSUME y \in ToSet(t)
        PROVE  y = x \/ InPart(s, y)
    <3>1. PICK p \in DOMAIN t : y = t[p]
      BY <2>1 DEF ToSet
    <3>2. CASE p = 1
      BY <1>2, <3>1, <3>2
    <3>3. CASE p # 1
      BY <1>5, <3>1, <3>3 DEF InPart
    <3> QED BY <3>2, <3>3
  <2>2. ASSUME y = x
        PROVE  y \in ToSet(t)
    <3>1. 1 \in DOMAIN t
      BY <1>2
    <3> QED BY <1>2, <2>2, <3>1 DEF ToSet
  <2>3. ASSUME InPart(s, y)
        PROVE  y \in ToSet(t)
    <3>1. PICK i \in 1 .. Len(s) : \E j \in 1 .. Len(s[i]) : y = s[i][j]
      BY <2>3 DEF InPart
    <3>2. PICK j \in 1 .. Len(s[i]) : y = s[i][j]
      BY <3>1
    <3>3. PICK p \in 1 .. Len(f) : y = f[p]
      BY <1>4, <3>2
    <3> QED BY <1>2, <3>3 DEF ToSet
  <2> QED BY <2>1, <2>2, <2>3
<1>7. ASSUME NEW y, NEW z, TwoPlaces(s, y, z)
      PROVE  \E p, q \in DOMAIN t : p # q /\ t[p] = y /\ t[q] = z
  <2>1. PICK i \in 1 .. Len(s), k \in 1 .. Len(s) :
          \E j \in 1 .. Len(s[i]), l \in 1 .. Len(s[k]) :
            (i # k \/ j # l) /\ y = s[i][j] /\ z = s[k][l]
    BY <1>7 DEF TwoPlaces
  <2>2. PICK j \in 1 .. Len(s[i]), l \in 1 .. Len(s[k]) :
          (i # k \/ j # l) /\ y = s[i][j] /\ z = s[k][l]
    BY <2>1
  <2>3. off[i] + j # off[k] + l
    BY <1>1, <2>2, PlacesDiffer
  <2>4. /\ off[i] + j \in 1 .. Len(f) /\ f[off[i] + j] = y
        /\ off[k] + l \in 1 .. Len(f) /\ f[off[k] + l] = z
    BY <1>4, <2>2
  <2>5. \A a, b \in 1 .. Len(f) : a # b => 1 + a # 1 + b
    OBVIOUS
  <2> QED BY <1>2, <2>3, <2>4, <2>5
<1>8. ASSUME NEW p \in DOMAIN t, NEW q \in DOMAIN t, p # q
      PROVE  \/ t[p] = x /\ InPart(s, t[q])
             \/ t[q] = x /\ InPart(s, t[p])
             \/ TwoPlaces(s, t[p], t[q])
  <2>1. CASE p = 1
    BY <1>2, <1>5, <1>8, <2>1 DEF InPart
  <2>2. CASE q = 1
    BY <1>2, <1>5, <1>8, <2>2 DEF InPart
  <2>3. CASE p # 1 /\ q # 1
    <3>1. PICK i \in 1 .. Len(s) : \E j \in 1 .. Len(s[i]) :
            p - 1 = off[i] + j /\ t[p] = s[i][j]
      BY <1>5, <2>3
    <3>2. PICK j \in 1 .. Len(s[i]) : p - 1 = off[i] + j /\ t[p] = s[i][j]
      BY <3>1
    <3>3. PICK k \in 1 .. Len(s) : \E l \in 1 .. Len(s[k]) :
            q - 1 = off[k] + l /\ t[q] = s[k][l]
      BY <1>5, <2>3
    <3>4. PICK l \in 1 .. Len(s[k]) : q - 1 = off[k] + l /\ t[q] = s[k][l]
      BY <3>3
    <3>5. i # k \/ j # l
      <4>1. p \in Int /\ q \in Int
        BY <1>2
      <4> QED BY <1>8, <3>2, <3>4, <4>1
    <3> QED BY <3>2, <3>4, <3>5 DEF TwoPlaces
  <2> QED BY <2>1, <2>2, <2>3
<1>9. Appended(x, s, t)
  BY <1>6, <1>7, <1>8 DEF Appended
<1> QED BY <1>9 DEF t, f

-----------------------------------------------------------------------------
(* Volumes and mounts *)

KyuubiVolume == Volume("kyuubi", "kyuubiCm", DefaultKyuubiConfFile)
KyuubiMount  == Mount("kyuubi", "kyuubi/conf", DefaultKyuubiConfFile)

\* What a reference of type t adds to the volumes, and to the mounts.
VolumesFor(t) ==
    CASE t = "spark" ->
             <<Volume("spark", "refsCm", DefaultSparkConfFile)>>
      [] t = "hdfs" ->
             <<Volume("hdfssite", "refsCm", DefaultHdfsSiteFile),
               Volume("coresite", "refsCm", DefaultCoreSiteFile)>>
      [] t = "metastore" ->
             <<Volume("hivesite", "refsCm", DefaultHiveSiteFile)>>
      [] t = "flink" -> <<>>

MountsFor(t) ==
    CASE t = "spark" ->
             <<Mount("spark", "spark/conf", DefaultSparkConfFile)>>
      [] t = "hdfs" ->
             <<Mount("hdfssite", "spark/conf", DefaultHdfsSiteFile),
               Mount("coresite", "spark/conf", DefaultCoreSiteFile)>>
      [] t = "metastore" ->
             <<Mount("hivesite", "spark/conf", DefaultHiveSiteFile)>>
      [] t = "flink" -> <<>>

\* Every volume and every mount there can be.
AllVolumes ==
    [name : {"kyuubi", "spark", "hdfssite", "coresite", "hivesite"},
     cm : {"kyuubiCm", "refsCm"},
     key : {DefaultKyuubiConfFile, DefaultSparkConfFile, DefaultHdfsSiteFile,
            DefaultCoreSiteFile, DefaultHiveSiteFile}]

AllMounts ==
    {Mount(name, dir, key) :
       name \in {"kyuubi", "spark", "hdfssite", "coresite", "hivesite"},
       dir \in {"kyuubi/conf", "spark/conf"},
       key \in {DefaultKyuubiConfFile, DefaultSparkConfFile,
                DefaultHdfsSiteFile, DefaultCoreSiteFile, DefaultHiveSiteFile}}

\* The references of a list whose types the code knows.
Typed == \A i \in DOMAIN refs : refs[i].type \in ClusterTypes

\* The parts that the rounds of the two loops append.
VolumeParts == [i \in DOMAIN refs |-> VolumesFor(refs[i].type)]
MountParts  == [i \in DOMAIN refs |-> MountsFor(refs[i].type)]

\* A type the code knows adds volumes and mounts of the kinds above.
LEMMA PartsOfType ==
  ASSUME NEW t \in ClusterTypes
  PROVE  VolumesFor(t) \in Seq(AllVolumes) /\ MountsFor(t) \in Seq(AllMounts)
<1>1. CASE t = "spark"
  BY <1>1 DEF VolumesFor, MountsFor, AllVolumes, AllMounts, Volume, Mount
<1>2. CASE t = "hdfs"
  BY <1>2 DEF VolumesFor, MountsFor, AllVolumes, AllMounts, Volume, Mount
<1>3. CASE t = "metastore"
  BY <1>3 DEF VolumesFor, MountsFor, AllVolumes, AllMounts, Volume, Mount
<1>4. CASE t = "flink"
  BY <1>4 DEF VolumesFor, MountsFor, AllVolumes, AllMounts, Volume, Mount
<1> QED BY <1>1, <1>2, <1>3, <1>4 DEF ClusterTypes

\* The parts are sequences of volumes and of mounts, one for each reference.
LEMMA PartsType ==
  ASSUME NEW R, refs \in Seq(R), Typed
  PROVE  /\ VolumeParts \in Seq(Seq(AllVolumes))
         /\ MountParts \in Seq(Seq(AllMounts))
         /\ Len(VolumeParts) = Len(refs) /\ Len(MountParts) = Len(refs)
<1>1. DOMAIN refs = 1 .. Len(refs) /\ Len(refs) \in Nat
  OBVIOUS
<1>2. \A i \in 1 .. Len(refs) : /\ VolumesFor(refs[i].type) \in Seq(AllVolumes)
                                /\ MountsFor(refs[i].type) \in Seq(AllMounts)
  BY <1>1, PartsOfType DEF Typed
<1>3. VolumeParts = [i \in 1 .. Len(refs) |-> VolumesFor(refs[i].type)]
  BY <1>1 DEF VolumeParts
<1>4. MountParts = [i \in 1 .. Len(refs) |-> MountsFor(refs[i].type)]
  BY <1>1 DEF MountParts
<1>5. VolumeParts \in Seq(Seq(AllVolumes)) /\ Len(VolumeParts) = Len(refs)
  BY <1>1, <1>2, <1>3
<1>6. MountParts \in Seq(Seq(AllMounts)) /\ Len(MountParts) = Len(refs)
  BY <1>1, <1>2, <1>4
<1> QED BY <1>5, <1>6

\* The two lists of the workload are the first element and the parts.
LEMMA WorkloadLists ==
  /\ workload.volumes = <<KyuubiVolume>> \o FlattenSeq(VolumeParts)
  /\ workload.mounts = <<KyuubiMount>> \o FlattenSeq(MountParts)
  /\ workload.replicas = 1
<1>1. constructVolumes(refs) = <<KyuubiVolume>> \o FlattenSeq(VolumeParts)
  BY DEF constructVolumes, VolumeParts, VolumesFor, KyuubiVolume
<1>2. constructVolumeMounts(refs) = <<KyuubiMount>> \o FlattenSeq(MountParts)
  BY DEF constructVolumeMounts, MountParts, MountsFor, KyuubiMount
<1> QED BY <1>1, <1>2 DEF workload, constructDesiredKyuubiWorkload, spec

\* The name of the volume that brings file f.
NameOf(f) ==
    CASE f = DefaultSparkConfFile -> "spark"
      [] f = DefaultHdfsSiteFile  -> "hdfssite"
      [] f = DefaultCoreSiteFile  -> "coresite"
      [] f = DefaultHiveSiteFile  -> "hivesite"

FileVolume(f) == Volume(NameOf(f), "refsCm", f)
FileMount(f)  == Mount(NameOf(f), "spark/conf", f)

\* The files of the five functions that walk over the references.
FileList(t) ==
    CASE t = "spark"     -> <<DefaultSparkConfFile>>
      [] t = "hdfs"      -> <<DefaultHdfsSiteFile, DefaultCoreSiteFile>>
      [] t = "metastore" -> <<DefaultHiveSiteFile>>
      [] t = "flink"     -> <<>>

RefFiles == {DefaultSparkConfFile, DefaultHdfsSiteFile, DefaultCoreSiteFile,
             DefaultHiveSiteFile}

\* For each type volumes, mounts and files of the ConfigMap are the same files.
LEMMA SameFiles ==
  ASSUME NEW t \in ClusterTypes
  PROVE  LET n == Len(FileList(t))
         IN  /\ n \in 0 .. 2 /\ (t # "flink" <=> n > 0)
             /\ Len(VolumesFor(t)) = n /\ Len(MountsFor(t)) = n
             /\ FilesOf(t) = {FileList(t)[j] : j \in 1 .. n}
             /\ FilesOf(t) \subseteq RefFiles
             /\ \A j \in 1 .. n : /\ FileList(t)[j] \in RefFiles
                                  /\ VolumesFor(t)[j] = FileVolume(FileList(t)[j])
                                  /\ MountsFor(t)[j] = FileMount(FileList(t)[j])
<1> USE DEF FileList, VolumesFor, MountsFor, FilesOf, FileVolume, FileMount,
            NameOf, RefFiles, DefaultSparkConfFile, DefaultHdfsSiteFile,
            DefaultCoreSiteFile, DefaultHiveSiteFile
<1>1. CASE t = "spark"
  BY <1>1
<1>2. CASE t = "hdfs"
  BY <1>2
<1>3. CASE t = "metastore"
  BY <1>3
<1>4. CASE t = "flink"
  BY <1>4
<1> QED BY <1>1, <1>2, <1>3, <1>4 DEF ClusterTypes

\* No file belongs to two types, or twice to one.
LEMMA FilesApart ==
  ASSUME NEW t \in ClusterTypes, NEW u \in ClusterTypes,
         NEW j \in 1 .. Len(FileList(t)), NEW l \in 1 .. Len(FileList(u)),
         FileList(t)[j] = FileList(u)[l]
  PROVE  t = u /\ j = l
<1>1. ASSUME NEW v \in ClusterTypes, NEW k \in 1 .. Len(FileList(v))
      PROVE  \/ v = "spark" /\ k = 1 /\ FileList(v)[k] = "spark-defaults.conf"
             \/ v = "hdfs" /\ k = 1 /\ FileList(v)[k] = "hdfs-site.xml"
             \/ v = "hdfs" /\ k = 2 /\ FileList(v)[k] = "core-site.xml"
             \/ v = "metastore" /\ k = 1 /\ FileList(v)[k] = "hive-site.xml"
  <2> USE DEF FileList, DefaultSparkConfFile, DefaultHdfsSiteFile,
              DefaultCoreSiteFile, DefaultHiveSiteFile
  <2>1. CASE v = "spark"
    BY <2>1
  <2>2. CASE v = "hdfs"
    BY <2>2
  <2>3. CASE v = "metastore"
    BY <2>3
  <2>4. CASE v = "flink"
    BY <2>4
  <2> QED BY <2>1, <2>2, <2>3, <2>4 DEF ClusterTypes
<1> QED BY <1>1

\* Different files have different volume names and mount paths, and none of
\* them is the name or the path of kyuubi-defaults.conf.
LEMMA NamesApart ==
  ASSUME NEW f \in RefFiles, NEW g \in RefFiles
  PROVE  /\ FileVolume(f).name = FileVolume(g).name => f = g
         /\ FileMount(f).path = FileMount(g).path => f = g
         /\ FileVolume(f).name # KyuubiVolume.name
         /\ FileMount(f).path # KyuubiMount.path
         /\ FileMount(f).name = FileVolume(f).name
         /\ FileMount(f).subPath = f
         /\ FileVolume(f).key = f /\ FileVolume(f).cm = "refsCm"
<1>1. /\ FileVolume(f).name = NameOf(f) /\ FileVolume(g).name = NameOf(g)
      /\ FileVolume(f).key = f /\ FileVolume(f).cm = "refsCm"
      /\ KyuubiVolume.name = "kyuubi"
  BY DEF FileVolume, Volume, KyuubiVolume
<1>2. /\ FileMount(f).path = <<"spark/conf", f>>
      /\ FileMount(g).path = <<"spark/conf", g>>
      /\ FileMount(f).name = NameOf(f) /\ FileMount(f).subPath = f
      /\ KyuubiMount.path = <<"kyuubi/conf", "kyuubi-defaults.conf">>
  BY DEF FileMount, Mount, KyuubiMount, DefaultKyuubiConfFile
<1>3. \A x \in RefFiles :
        \/ x = "spark-defaults.conf" /\ NameOf(x) = "spark"
        \/ x = "hdfs-site.xml" /\ NameOf(x) = "hdfssite"
        \/ x = "core-site.xml" /\ NameOf(x) = "coresite"
        \/ x = "hive-site.xml" /\ NameOf(x) = "hivesite"
  BY DEF RefFiles, NameOf, DefaultSparkConfFile, DefaultHdfsSiteFile,
         DefaultCoreSiteFile, DefaultHiveSiteFile
<1> QED BY <1>1, <1>2, <1>3

\* Some reference brings file f.
HasFile(f) == \E i \in DOMAIN refs : f \in FilesOf(refs[i].type)

\* The volumes and mounts that the rounds add are those of the files which the
\* clusterrefs ConfigMap has.
LEMMA PartsHold ==
  ASSUME NEW R, refs \in Seq(R), Typed
  PROVE  /\ \A v : InPart(VolumeParts, v) <=>
               \E f \in RefFiles : HasFile(f) /\ v = FileVolume(f)
         /\ \A m : InPart(MountParts, m) <=>
               \E f \in RefFiles : HasFile(f) /\ m = FileMount(f)
<1>1. /\ Len(VolumeParts) = Len(refs) /\ Len(MountParts) = Len(refs)
      /\ DOMAIN refs = 1 .. Len(refs)
  BY PartsType
<1>2. \A i \in DOMAIN refs : /\ VolumeParts[i] = VolumesFor(refs[i].type)
                             /\ MountParts[i] = MountsFor(refs[i].type)
                             /\ refs[i].type \in ClusterTypes
  BY DEF VolumeParts, MountParts, Typed
<1>3. ASSUME NEW v
      PROVE  InPart(VolumeParts, v) <=>
               \E f \in RefFiles : HasFile(f) /\ v = FileVolume(f)
  <2>1. InPart(VolumeParts, v) <=>
          \E i \in DOMAIN refs :
            \E j \in 1 .. Len(FileList(refs[i].type)) :
                v = FileVolume(FileList(refs[i].type)[j])
    BY SMTT(30), <1>1, <1>2, SameFiles DEF InPart
  <2> QED BY <1>2, <2>1, SameFiles DEF HasFile
<1>4. ASSUME NEW m
      PROVE  InPart(MountParts, m) <=>
               \E f \in RefFiles : HasFile(f) /\ m = FileMount(f)
  <2>1. InPart(MountParts, m) <=>
          \E i \in DOMAIN refs :
            \E j \in 1 .. Len(FileList(refs[i].type)) :
                m = FileMount(FileList(refs[i].type)[j])
    BY SMTT(30), <1>1, <1>2, SameFiles DEF InPart
  <2> QED BY <1>2, <2>1, SameFiles DEF HasFile
<1> QED BY <1>3, <1>4

\* No two references have the same type, flink excepted.
TypesApart ==
    \A i, j \in DOMAIN refs :
        refs[i].type = refs[j].type /\ refs[i].type # "flink" => i = j

\* As long as the types differ, so do the names of the volumes and the paths of
\* the mounts that the rounds add.
LEMMA PartsApart ==
  ASSUME NEW R, refs \in Seq(R), Typed, TypesApart
  PROVE  /\ \A v, w : TwoPlaces(VolumeParts, v, w) => v.name # w.name
         /\ \A m, n : TwoPlaces(MountParts, m, n) => m.path # n.path
<1>1. /\ Len(VolumeParts) = Len(refs) /\ Len(MountParts) = Len(refs)
      /\ DOMAIN refs = 1 .. Len(refs)
  BY PartsType
<1>2. \A i \in DOMAIN refs : /\ VolumeParts[i] = VolumesFor(refs[i].type)
                             /\ MountParts[i] = MountsFor(refs[i].type)
                             /\ refs[i].type \in ClusterTypes
  BY DEF VolumeParts, MountParts, Typed
<1>3. ASSUME NEW i \in DOMAIN refs, NEW k \in DOMAIN refs,
             NEW j \in 1 .. Len(FileList(refs[i].type)),
             NEW l \in 1 .. Len(FileList(refs[k].type)),
             i # k \/ j # l
      PROVE  /\ FileList(refs[i].type)[j] # FileList(refs[k].type)[l]
             /\ FileList(refs[i].type)[j] \in RefFiles
             /\ FileList(refs[k].type)[l] \in RefFiles
  <2>1. refs[i].type \in ClusterTypes /\ refs[k].type \in ClusterTypes
    BY <1>2
  <2>2. /\ refs[i].type # "flink"
        /\ FileList(refs[i].type)[j] \in RefFiles
        /\ FileList(refs[k].type)[l] \in RefFiles
    BY <2>1, SameFiles
  <2>3. SUFFICES ASSUME FileList(refs[i].type)[j] = FileList(refs[k].type)[l]
                 PROVE  FALSE
    BY <2>2
  <2>4. refs[i].type = refs[k].type /\ j = l
    BY <2>1, <2>3, FilesApart
  <2> QED BY <1>3, <2>2, <2>4 DEF TypesApart
<1>4. ASSUME NEW v, NEW w, TwoPlaces(VolumeParts, v, w)
      PROVE  v.name # w.name
  <2>1. PICK i \in DOMAIN refs, k \in DOMAIN refs :
          \E j \in 1 .. Len(VolumeParts[i]), l \in 1 .. Len(VolumeParts[k]) :
            /\ i # k \/ j # l
            /\ v = VolumeParts[i][j] /\ w = VolumeParts[k][l]
    BY SMTT(30), <1>1, <1>4 DEF TwoPlaces
  <2>2. PICK j \in 1 .. Len(FileList(refs[i].type)),
             l \in 1 .. Len(FileList(refs[k].type)) :
          /\ i # k \/ j # l
          /\ v = FileVolume(FileList(refs[i].type)[j])
          /\ w = FileVolume(FileList(refs[k].type)[l])
    BY SMTT(30), <1>2, <2>1, SameFiles
  <2> QED BY SMTT(30), <1>3, <2>2, NamesApart
<1>5. ASSUME NEW m, NEW n, TwoPlaces(MountParts, m, n)
      PROVE  m.path # n.path
  <2>1. PICK i \in DOMAIN refs, k \in DOMAIN refs :
          \E j \in 1 .. Len(MountParts[i]), l \in 1 .. Len(MountParts[k]) :
            /\ i # k \/ j # l
            /\ m = MountParts[i][j] /\ n = MountParts[k][l]
    BY SMTT(30), <1>1, <1>5 DEF TwoPlaces
  <2>2. PICK j \in 1 .. Len(FileList(refs[i].type)),
             l \in 1 .. Len(FileList(refs[k].type)) :
          /\ i # k \/ j # l
          /\ m = FileMount(FileList(refs[i].type)[j])
          /\ n = FileMount(FileList(refs[k].type)[l])
    BY SMTT(30), <1>2, <2>1, SameFiles
  <2> QED BY SMTT(30), <1>3, <2>2, NamesApart
<1> QED BY <1>4, <1>5

\* Two references of one type, not flink, add the same volume twice.
LEMMA SameTypeTwice ==
  ASSUME NEW R, refs \in Seq(R), Typed, ~ TypesApart
  PROVE  \E v : TwoPlaces(VolumeParts, v, v)
<1>1. PICK i \in DOMAIN refs, k \in DOMAIN refs :
        refs[i].type = refs[k].type /\ refs[i].type # "flink" /\ i # k
  BY DEF TypesApart
<1>2. /\ Len(VolumeParts) = Len(refs) /\ DOMAIN refs = 1 .. Len(refs)
      /\ VolumeParts[i] = VolumesFor(refs[i].type)
      /\ VolumeParts[k] = VolumesFor(refs[i].type)
      /\ refs[i].type \in ClusterTypes
  BY <1>1, PartsType DEF VolumeParts, Typed
<1>3. 1 \in 1 .. Len(VolumesFor(refs[i].type))
  BY <1>1, <1>2, SameFiles
<1>4. TwoPlaces(VolumeParts, VolumeParts[i][1], VolumeParts[i][1])
  BY <1>1, <1>2, <1>3 DEF TwoPlaces
<1> QED BY <1>4

\* RefusedIffTwoOfAType for every list of references.
LEMMA Refused ==
  ASSUME NEW R, refs \in Seq(R), Typed
  PROVE  RefusedIffTwoOfAType
<1> DEFINE vs == workload.volumes
           ms == workload.mounts
<1>1. /\ KyuubiVolume \in AllVolumes /\ KyuubiMount \in AllMounts
      /\ KyuubiMount.name = KyuubiVolume.name
  BY DEF KyuubiVolume, KyuubiMount, AllVolumes, AllMounts, Volume, Mount,
         DefaultKyuubiConfFile
<1>2. Appended(KyuubiVolume, VolumeParts, vs)
  BY <1>1, PartsType, WorkloadLists, LoopAppends
<1>3. Appended(KyuubiMount, MountParts, ms)
  BY <1>1, PartsType, WorkloadLists, LoopAppends
<1>4. workload.replicas = 1
  BY WorkloadLists
<1> HIDE DEF vs, ms
<1>5. ASSUME TypesApart, NEW p \in DOMAIN vs, NEW q \in DOMAIN vs,
             vs[p].name = vs[q].name
      PROVE  p = q
  BY <1>2, <1>5, PartsApart, PartsHold, NamesApart DEF Appended
<1>6. ASSUME TypesApart, NEW p \in DOMAIN ms, NEW q \in DOMAIN ms,
             ms[p].path = ms[q].path
      PROVE  p = q
  BY <1>3, <1>6, PartsApart, PartsHold, NamesApart DEF Appended
<1>7. ASSUME NEW p \in DOMAIN ms
      PROVE  \E q \in DOMAIN vs : vs[q].name = ms[p].name
  <2>1. ms[p] \in ToSet(ms)
    BY DEF ToSet
  <2>2. \E v \in ToSet(vs) : v.name = ms[p].name
    BY <1>1, <1>2, <1>3, <2>1, PartsHold, NamesApart DEF Appended
  <2> QED BY <2>2 DEF ToSet
<1>8. ASSUME ~ TypesApart
      PROVE  \E p, q \in DOMAIN vs : p # q /\ vs[p].name = vs[q].name
  BY <1>2, <1>8, SameTypeTwice DEF Appended
<1>9. ValidStatefulSet(workload) <=>
        /\ \A p, q \in DOMAIN vs : vs[p].name = vs[q].name => p = q
        /\ \A p, q \in DOMAIN ms : ms[p].path = ms[q].path => p = q
        /\ \A p \in DOMAIN ms : \E q \in DOMAIN vs : vs[q].name = ms[p].name
  BY <1>4 DEF ValidStatefulSet, NoDuplicate, vs, ms
<1>10. ValidStatefulSet(workload) <=> TypesApart
  BY <1>5, <1>6, <1>7, <1>8, <1>9
<1> QED BY <1>10 DEF RefusedIffTwoOfAType, TypesApart

\* MountsFitConfigMaps for every list of references.
LEMMA MountsFit ==
  ASSUME NEW R, refs \in Seq(R), Typed
  PROVE  MountsFitConfigMaps
<1> DEFINE vs == workload.volumes
           ms == workload.mounts
<1>1. /\ KyuubiVolume \in AllVolumes /\ KyuubiMount \in AllMounts
      /\ KyuubiMount.name = KyuubiVolume.name
      /\ KyuubiMount.subPath = "kyuubi-defaults.conf"
      /\ KyuubiVolume.key = "kyuubi-defaults.conf"
      /\ KyuubiVolume.cm = "kyuubiCm"
  BY DEF KyuubiVolume, KyuubiMount, AllVolumes, AllMounts, Volume, Mount,
         DefaultKyuubiConfFile
<1>2. \A y : y \in ToSet(vs) <=>
               \/ y = KyuubiVolume
               \/ \E f \in RefFiles : HasFile(f) /\ y = FileVolume(f)
  <2>1. Appended(KyuubiVolume, VolumeParts, vs)
    BY <1>1, PartsType, WorkloadLists, LoopAppends
  <2> QED BY <2>1, PartsHold DEF Appended
<1>3. \A y : y \in ToSet(ms) <=>
               \/ y = KyuubiMount
               \/ \E f \in RefFiles : HasFile(f) /\ y = FileMount(f)
  <2>1. Appended(KyuubiMount, MountParts, ms)
    BY <1>1, PartsType, WorkloadLists, LoopAppends
  <2> QED BY <2>1, PartsHold DEF Appended
<1> HIDE DEF vs, ms
<1>4. \A f : f \in FilesIn("refsCm") <=> f \in RefFiles /\ HasFile(f)
  <2>1. \A i \in DOMAIN refs : FilesOf(refs[i].type) \subseteq RefFiles
    BY SameFiles DEF Typed
  <2> QED BY <2>1 DEF FilesIn, ClusterRefsConf, HasFile
<1>5. FilesIn("kyuubiCm") = {"kyuubi-defaults.conf"}
  BY DEF FilesIn, DefaultKyuubiConfFile
<1>6. \A v \in ToSet(vs) : v.key \in FilesIn(v.cm)
  <2> TAKE v \in ToSet(vs)
  <2>1. CASE v = KyuubiVolume
    BY <1>1, <1>5, <2>1
  <2>2. CASE \E f \in RefFiles : HasFile(f) /\ v = FileVolume(f)
    BY <1>4, <2>2, NamesApart
  <2> QED BY <1>2, <2>1, <2>2
<1>7. \A f \in FilesIn("kyuubiCm") :
        \E v \in ToSet(vs), m \in ToSet(ms) :
            v.cm = "kyuubiCm" /\ v.key = f /\ m.name = v.name /\ m.subPath = f
  BY <1>1, <1>2, <1>3, <1>5
<1>8. \A f \in FilesIn("refsCm") :
        \E v \in ToSet(vs), m \in ToSet(ms) :
            v.cm = "refsCm" /\ v.key = f /\ m.name = v.name /\ m.subPath = f
  <2> TAKE f \in FilesIn("refsCm")
  <2>1. f \in RefFiles /\ HasFile(f)
    BY <1>4
  <2>2. FileVolume(f) \in ToSet(vs) /\ FileMount(f) \in ToSet(ms)
    BY <1>2, <1>3, <2>1
  <2>3. /\ FileVolume(f).cm = "refsCm" /\ FileVolume(f).key = f
        /\ FileMount(f).name = FileVolume(f).name /\ FileMount(f).subPath = f
    BY <2>1, NamesApart
  <2> QED BY <2>2, <2>3
<1>9. \A m \in ToSet(ms) :
        \E v \in ToSet(vs) : v.name = m.name /\ v.key = m.subPath
  <2> TAKE m \in ToSet(ms)
  <2>1. CASE m = KyuubiMount
    BY <1>1, <1>2, <2>1
  <2>2. CASE \E f \in RefFiles : HasFile(f) /\ m = FileMount(f)
    <3>1. PICK f \in RefFiles : HasFile(f) /\ m = FileMount(f)
      BY <2>2
    <3>2. FileVolume(f) \in ToSet(vs)
      BY <1>2, <3>1
    <3>3. /\ FileVolume(f).key = f
          /\ FileMount(f).name = FileVolume(f).name /\ FileMount(f).subPath = f
      BY NamesApart
    <3> QED BY <3>1, <3>2, <3>3
  <2> QED BY <1>3, <2>1, <2>2
<1> QED BY <1>6, <1>7, <1>8, <1>9 DEF MountsFitConfigMaps, vs, ms

-----------------------------------------------------------------------------
(* Comparing configurations *)

\* compareConf is equality of maps with finitely many pairs.
LEMMA CompareIsEquality ==
  ASSUME NEW a, NEW b, IsFiniteSet(DOMAIN a), IsFiniteSet(DOMAIN b),
         a = [k \in DOMAIN a |-> a[k]], b = [k \in DOMAIN b |-> b[k]]
  PROVE  compareConf(a, b) <=> a = b
<1>1. ASSUME compareConf(a, b)
      PROVE  a = b
  <2>1. /\ DOMAIN a \subseteq DOMAIN b
        /\ Cardinality(DOMAIN b) = Cardinality(DOMAIN a)
        /\ \A k \in DOMAIN a : a[k] = b[k]
    BY <1>1 DEF compareConf
  <2>2. DOMAIN a = DOMAIN b
    BY <2>1, FS_Subset
  <2> QED BY <2>1, <2>2
<1>2. ASSUME a = b
      PROVE  compareConf(a, b)
  BY <1>2 DEF compareConf
<1> QED BY <1>1, <1>2

\* There are finitely many files.
LEMMA RefFilesFinite == IsFiniteSet(RefFiles)
<1>1. IsFiniteSet({DefaultSparkConfFile})
  BY FS_Singleton
<1>2. IsFiniteSet({DefaultSparkConfFile} \cup {DefaultHdfsSiteFile})
  BY <1>1, FS_AddElement
<1>3. IsFiniteSet(({DefaultSparkConfFile} \cup {DefaultHdfsSiteFile})
                    \cup {DefaultCoreSiteFile})
  BY <1>2, FS_AddElement
<1>4. IsFiniteSet((({DefaultSparkConfFile} \cup {DefaultHdfsSiteFile})
                    \cup {DefaultCoreSiteFile}) \cup {DefaultHiveSiteFile})
  BY <1>3, FS_AddElement
<1>5. RefFiles = (({DefaultSparkConfFile} \cup {DefaultHdfsSiteFile})
                    \cup {DefaultCoreSiteFile}) \cup {DefaultHiveSiteFile}
  BY DEF RefFiles
<1> QED BY <1>4, <1>5

\* The clusterrefs ConfigMap of a list of references is a map with finitely
\* many files.
LEMMA ConfIsFinite ==
  ASSUME NEW R, NEW rs \in Seq(R), \A r \in R : r.type \in ClusterTypes
  PROVE  LET conf == ClusterRefsConf(rs)
         IN  conf = [f \in DOMAIN conf |-> conf[f]] /\ IsFiniteSet(DOMAIN conf)
<1> DEFINE conf == ClusterRefsConf(rs)
<1>1. conf = [f \in DOMAIN conf |-> conf[f]]
  BY DEF ClusterRefsConf
<1>2. DOMAIN conf = UNION {FilesOf(rs[i].type) : i \in DOMAIN rs}
  BY DEF ClusterRefsConf
<1>3. \A i \in DOMAIN rs : FilesOf(rs[i].type) \subseteq RefFiles
  BY SameFiles
<1> HIDE DEF conf
<1>4. DOMAIN conf \subseteq RefFiles
  BY <1>2, <1>3
<1>5. IsFiniteSet(DOMAIN conf)
  BY <1>4, RefFilesFinite, FS_Subset
<1> QED BY <1>1, <1>5 DEF conf

\* CompareFindsChanges for every list of references.
LEMMA CompareFinds ==
  ASSUME NEW R, refs \in Seq(R), \A r \in R : r.type \in ClusterTypes
  PROVE  CompareFindsChanges
<1> SUFFICES ASSUME NEW i \in DOMAIN refs
             PROVE  LET before == ClusterRefsConf(refs)
                        after  == ClusterRefsConf(RemoveAt(refs, i))
                    IN  /\ compareConf(after, before) <=> after = before
                        /\ compareConf(before, after) <=> after = before
  BY DEF CompareFindsChanges
<1>1. RemoveAt(refs, i) \in Seq(R)
  <2>1. i \in 1 .. Len(refs) /\ Len(refs) \in Nat
    OBVIOUS
  <2>2. SubSeq(refs, 1, i - 1) \in Seq(R)
    BY <2>1
  <2>3. SubSeq(refs, i + 1, Len(refs)) \in Seq(R)
    BY <2>1
  <2> QED BY <2>2, <2>3 DEF RemoveAt
<1> DEFINE before == ClusterRefsConf(refs)
           after  == ClusterRefsConf(RemoveAt(refs, i))
<1>2. before = [f \in DOMAIN before |-> before[f]] /\ IsFiniteSet(DOMAIN before)
  BY ConfIsFinite
<1>3. after = [f \in DOMAIN after |-> after[f]] /\ IsFiniteSet(DOMAIN after)
  BY <1>1, ConfIsFinite
<1> HIDE DEF before, after
<1>4. compareConf(after, before) <=> after = before
  BY <1>2, <1>3, CompareIsEquality
<1>5. compareConf(before, after) <=> before = after
  BY <1>2, <1>3, CompareIsEquality
<1> QED BY <1>4, <1>5 DEF before, after

-----------------------------------------------------------------------------
(* hive-site.xml *)

\* LastRef finds a reference of the type, and the two loops of
\* desiredClusterRefsConfigMap take the HDFS settings from the same one.
LEMMA LastRefFound ==
  ASSUME NEW R, NEW rs \in Seq(R), NEW t,
         \E i \in DOMAIN rs : rs[i].type = t
  PROVE  /\ LastRef(rs, t) \in R /\ LastRef(rs, t).type = t
         /\ t = "hdfs" => HdfsSource(rs) =
                            [coreSite |-> LastRef(rs, t).coreSite,
                             hdfsSite |-> LastRef(rs, t).hdfsSite]
<1> DEFINE I == {i \in 1 .. Len(rs) : rs[i].type = t}
<1>1. I # {} /\ I \subseteq 1 .. Len(rs) /\ Len(rs) \in Nat
  OBVIOUS
<1>2. Max(I) \in I
  <2> HIDE DEF I
  <2> QED BY <1>1, GreatestIndex
<1>3. SelectLastInSeq(rs, LAMBDA r : r.type = t) = Max(I)
  BY <1>1 DEF SelectLastInSeq
<1>4. Max(I) # 0 /\ rs[Max(I)] \in R /\ rs[Max(I)].type = t
  BY <1>2
<1>5. LastRef(rs, t) = rs[Max(I)]
  BY <1>3, <1>4 DEF LastRef
<1>6. ASSUME t = "hdfs"
      PROVE  HdfsSource(rs) = [coreSite |-> rs[Max(I)].coreSite,
                               hdfsSite |-> rs[Max(I)].hdfsSite]
  BY <1>3, <1>4, <1>6 DEF HdfsSource
<1> HIDE DEF I
<1> QED BY <1>4, <1>5, <1>6

\* What the name service conf of an hdfs-site has: its own settings, and the
\* failover provider.
LEMMA NameServiceKeys ==
  ASSUME NEW h, Has(h, DFSNameSpacesConfKey),
         h[DFSNameSpacesConfKey] = ns,
         NEW key \in DOMAIN NameServiceConf(h), key # FailoverProvider(ns)
  PROVE  /\ NameServiceConf(h)[key] = At(h, key)
         /\ key[1] \in {"dfs.nameservices", "dfs.ha.namenodes",
                        "dfs.namenode.rpc-address"}
<1>1. At(h, DFSNameSpacesConfKey) = ns
  BY DEF At
<1> DEFINE nodes == At(h, HaNameNodes(ns))
<1>2. CASE Has(h, HaNameNodes(ns))
  <2> DEFINE addresses == [k \in {HaRpcAddress(ns, nn) : nn \in ToSet(nodes)} |->
                             At(h, k)]
  <2>1. NameServiceConf(h) =
          Setting(DFSNameSpacesConfKey, ns) ++
          (Setting(HaNameNodes(ns), nodes) ++
           Setting(FailoverProvider(ns),
                   <<"ConfiguredFailoverProxyProvider">>) ++ addresses)
    BY <1>1, <1>2 DEF NameServiceConf
  <2>2. CASE key = DFSNameSpacesConfKey
    BY <1>1, <2>1, <2>2 DEF ++, Setting, DFSNameSpacesConfKey
  <2>3. CASE key # DFSNameSpacesConfKey /\ key = HaNameNodes(ns)
    BY <2>1, <2>3 DEF ++, Setting, HaNameNodes
  <2>4. CASE key # DFSNameSpacesConfKey /\ key # HaNameNodes(ns)
    <3> HIDE DEF nodes
    <3>1. key \in DOMAIN addresses /\ NameServiceConf(h)[key] = addresses[key]
      BY <2>1, <2>4 DEF ++, Setting
    <3>2. PICK nn \in ToSet(nodes) : key = HaRpcAddress(ns, nn)
      BY <3>1
    <3> QED BY <3>1, <3>2 DEF HaRpcAddress
  <2> QED BY <2>2, <2>3, <2>4
<1>3. CASE ~ Has(h, HaNameNodes(ns))
  <2>1. NameServiceConf(h) =
          Setting(DFSNameSpacesConfKey, ns) ++
          Setting(RpcAddress(ns), At(h, RpcAddress(ns)))
    BY <1>1, <1>3 DEF NameServiceConf
  <2>2. CASE key = DFSNameSpacesConfKey
    BY <1>1, <2>1, <2>2 DEF ++, Setting, DFSNameSpacesConfKey
  <2>3. CASE key # DFSNameSpacesConfKey
    <3>1. key = RpcAddress(ns) /\ NameServiceConf(h)[key] = At(h, RpcAddress(ns))
      BY <2>1, <2>3 DEF ++, Setting
    <3> QED BY <3>1 DEF RpcAddress
  <2> QED BY <2>2, <2>3
<1> QED BY <1>2, <1>3

\* The name service conf has the addresses of the namenodes.
LEMMA NameServiceAddresses ==
  ASSUME NEW h, Has(h, DFSNameSpacesConfKey),
         h[DFSNameSpacesConfKey] = ns
  PROVE  /\ Has(h, HaNameNodes(ns)) =>
               \A nn \in ToSet(h[HaNameNodes(ns)]) :
                   HaRpcAddress(ns, nn) \in DOMAIN NameServiceConf(h)
         /\ ~ Has(h, HaNameNodes(ns)) =>
               RpcAddress(ns) \in DOMAIN NameServiceConf(h)
<1>1. At(h, DFSNameSpacesConfKey) = ns
  BY DEF At
<1>2. ASSUME Has(h, HaNameNodes(ns)), NEW nn \in ToSet(h[HaNameNodes(ns)])
      PROVE  HaRpcAddress(ns, nn) \in DOMAIN NameServiceConf(h)
  <2> DEFINE nodes == At(h, HaNameNodes(ns))
             addresses == [k \in {HaRpcAddress(ns, n) : n \in ToSet(nodes)} |->
                             At(h, k)]
  <2>1. NameServiceConf(h) =
          Setting(DFSNameSpacesConfKey, ns) ++
          (Setting(HaNameNodes(ns), nodes) ++
           Setting(FailoverProvider(ns),
                   <<"ConfiguredFailoverProxyProvider">>) ++ addresses)
    BY <1>1, <1>2 DEF NameServiceConf
  <2>2. nn \in ToSet(nodes)
    BY <1>2 DEF At
  <2>3. HaRpcAddress(ns, nn) \in DOMAIN addresses
    BY <2>2
  <2> HIDE DEF addresses, nodes
  <2> QED BY <2>1, <2>3 DEF ++
<1>3. ASSUME ~ Has(h, HaNameNodes(ns))
      PROVE  RpcAddress(ns) \in DOMAIN NameServiceConf(h)
  BY <1>1, <1>3 DEF NameServiceConf, ++, Setting
<1> QED BY <1>2, <1>3

\* Each setting of a reference is where it belongs: core-site.xml has none about
\* the nameservice, hdfs-site.xml has no fs.defaultFS, and its nameservice is ns.
SitesApart(r) ==
    LET core == OrEmpty(r.coreSite)
        hdfs == OrEmpty(r.hdfsSite)
    IN  /\ \A key \in DOMAIN core :
              key[1] \notin {"dfs.nameservices", "dfs.ha.namenodes",
                             "dfs.namenode.rpc-address"}
        /\ FSDefaultFSConfKey \notin DOMAIN hdfs
        /\ DFSNameSpacesConfKey \in DOMAIN hdfs =>
              hdfs[DFSNameSpacesConfKey] = ns

\* An hdfs-site.xml gives addresses only of the namenodes that it names for its
\* nameservice, and hiveSite gives none.
AddressesNamed(r) ==
    LET hdfs == OrEmpty(r.hdfsSite)
    IN  /\ \A key \in DOMAIN hdfs : key[1] = RpcAddress(ns)[1] =>
              /\ DFSNameSpacesConfKey \in DOMAIN hdfs
              /\ IF HaNameNodes(ns) \in DOMAIN hdfs
                 THEN \E nn \in ToSet(hdfs[HaNameNodes(ns)]) :
                         key = HaRpcAddress(ns, nn)
                 ELSE key = RpcAddress(ns)
        /\ \A key \in DOMAIN OrEmpty(r.hiveSite) : key[1] # RpcAddress(ns)[1]

\* The references that the lemmas below are about.
Known(R) == \A r \in R : /\ r.type \in ClusterTypes
                         /\ SitesApart(r) /\ AddressesNamed(r)

\* Has and At, when the map is read with a `range'.
LEMMA HasOrEmpty ==
  ASSUME NEW m, NEW k
  PROVE  /\ Has(m, k) <=> k \in DOMAIN OrEmpty(m)
         /\ Has(m, k) => At(m, k) = OrEmpty(m)[k] /\ m[k] = OrEmpty(m)[k]
<1>1. CASE m = Nil
  <2>1. OrEmpty(m) = <<>> /\ DOMAIN <<>> = {}
    BY <1>1 DEF OrEmpty
  <2> QED BY <1>1, <2>1 DEF Has
<1>2. CASE m # Nil
  BY <1>2 DEF Has, At, OrEmpty
<1> QED BY <1>1, <1>2

\* The three files that both loops write, in terms of the references they take
\* them from.
LEMMA HiveFiles ==
  ASSUME NEW R, refs \in Seq(R), Known(R),
         {DefaultHiveSiteFile, DefaultHdfsSiteFile}
            \subseteq DOMAIN ClusterRefsConf(refs)
  PROVE  \E d, m \in R :
            /\ LastRef(refs, "metastore") = m
            /\ ClusterRefsConf(refs)[DefaultHdfsSiteFile] = OrEmpty(d.hdfsSite)
            /\ ClusterRefsConf(refs)[DefaultCoreSiteFile] = OrEmpty(d.coreSite)
            /\ ClusterRefsConf(refs)[DefaultHiveSiteFile] =
                 OrEmpty(m.hiveSite) ++
                 (IF Has(d.coreSite, FSDefaultFSConfKey)
                  THEN Setting(FSDefaultFSConfKey,
                               d.coreSite[FSDefaultFSConfKey])
                  ELSE <<>>) ++
                 (IF Has(d.hdfsSite, DFSNameSpacesConfKey)
                  THEN NameServiceConf(d.hdfsSite) ELSE <<>>)
<1> DEFINE D == UNION {FilesOf(refs[i].type) : i \in DOMAIN refs}
           d == LastRef(refs, "hdfs")
           m == LastRef(refs, "metastore")
<1>1. DOMAIN ClusterRefsConf(refs) = D
  BY DEF ClusterRefsConf
<1>2. \A i \in DOMAIN refs : refs[i].type \in ClusterTypes
  BY DEF Known
<1>3. \A t \in ClusterTypes :
        /\ DefaultHdfsSiteFile \in FilesOf(t) => t = "hdfs"
        /\ DefaultHiveSiteFile \in FilesOf(t) => t = "metastore"
  BY DEF ClusterTypes, FilesOf, DefaultHdfsSiteFile, DefaultHiveSiteFile,
         DefaultSparkConfFile, DefaultCoreSiteFile
<1>4. \E i \in DOMAIN refs : refs[i].type = "hdfs"
  BY <1>1, <1>2, <1>3
<1>5. \E i \in DOMAIN refs : refs[i].type = "metastore"
  BY <1>1, <1>2, <1>3
<1>6. d \in R /\ HdfsSource(refs) = [coreSite |-> d.coreSite,
                                     hdfsSite |-> d.hdfsSite]
  BY <1>4, LastRefFound
<1>7. m \in R
  BY <1>5, LastRefFound
<1>8. DefaultCoreSiteFile \in D
  BY <1>4 DEF FilesOf
<1>9. \A f \in D : ClusterRefsConf(refs)[f] = FileConf(refs, f)
  BY DEF ClusterRefsConf
<1> HIDE DEF D
<1>10. /\ ClusterRefsConf(refs)[DefaultHdfsSiteFile] = OrEmpty(d.hdfsSite)
       /\ ClusterRefsConf(refs)[DefaultCoreSiteFile] = OrEmpty(d.coreSite)
       /\ ClusterRefsConf(refs)[DefaultHiveSiteFile] = HiveConf(refs, m)
  BY <1>1, <1>8, <1>9 DEF FileConf, DefaultHdfsSiteFile, DefaultHiveSiteFile,
                          DefaultSparkConfFile, DefaultCoreSiteFile
<1> HIDE DEF d
<1>11. HiveConf(refs, m) =
         OrEmpty(m.hiveSite) ++
         (IF Has(d.coreSite, FSDefaultFSConfKey)
          THEN Setting(FSDefaultFSConfKey, d.coreSite[FSDefaultFSConfKey])
          ELSE <<>>) ++
         (IF Has(d.hdfsSite, DFSNameSpacesConfKey)
          THEN NameServiceConf(d.hdfsSite) ELSE <<>>)
  BY <1>6 DEF HiveConf
<1> QED BY <1>6, <1>7, <1>10, <1>11

\* HiveAgreesWithHdfs for every list of references whose settings are where
\* they belong.
LEMMA HiveAgrees ==
  ASSUME NEW R, refs \in Seq(R), Known(R)
  PROVE  HiveAgreesWithHdfs
<1> DEFINE conf == ClusterRefsConf(refs)
           hive == conf[DefaultHiveSiteFile]
           user == OrEmpty(LastRef(refs, "metastore").hiveSite)
<1> SUFFICES ASSUME {DefaultHiveSiteFile, DefaultHdfsSiteFile}
                      \subseteq DOMAIN conf,
                    NEW site \in {conf[DefaultHdfsSiteFile],
                                  conf[DefaultCoreSiteFile]},
                    NEW key \in DOMAIN hive, key \in DOMAIN site,
                    key \notin DOMAIN user, key # FailoverProvider(ns)
             PROVE  hive[key] = site[key]
  BY DEF HiveAgreesWithHdfs
<1> HIDE DEF conf
<1>1. PICK d \in R, m \in R :
        /\ LastRef(refs, "metastore") = m
        /\ conf[DefaultHdfsSiteFile] = OrEmpty(d.hdfsSite)
        /\ conf[DefaultCoreSiteFile] = OrEmpty(d.coreSite)
        /\ conf[DefaultHiveSiteFile] =
             OrEmpty(m.hiveSite) ++
             (IF Has(d.coreSite, FSDefaultFSConfKey)
              THEN Setting(FSDefaultFSConfKey, d.coreSite[FSDefaultFSConfKey])
              ELSE <<>>) ++
             (IF Has(d.hdfsSite, DFSNameSpacesConfKey)
              THEN NameServiceConf(d.hdfsSite) ELSE <<>>)
  BY HiveFiles DEF conf
<1>2. SitesApart(d)
  BY DEF Known
<1>3. CASE key = FSDefaultFSConfKey /\ Has(d.coreSite, FSDefaultFSConfKey)
  <2>1. hive[key] = d.coreSite[FSDefaultFSConfKey]
    BY <1>1, <1>3 DEF ++, Setting
  <2>2. site = OrEmpty(d.coreSite)
    BY <1>1, <1>2, <1>3 DEF SitesApart
  <2> QED BY <1>3, <2>1, <2>2, HasOrEmpty
<1>4. CASE ~ (key = FSDefaultFSConfKey /\ Has(d.coreSite, FSDefaultFSConfKey))
  <2>1. /\ Has(d.hdfsSite, DFSNameSpacesConfKey)
        /\ key \in DOMAIN NameServiceConf(d.hdfsSite)
        /\ hive[key] = NameServiceConf(d.hdfsSite)[key]
    <3> DEFINE fs == IF Has(d.coreSite, FSDefaultFSConfKey)
                     THEN Setting(FSDefaultFSConfKey,
                                  d.coreSite[FSDefaultFSConfKey])
                     ELSE <<>>
               name == IF Has(d.hdfsSite, DFSNameSpacesConfKey)
                       THEN NameServiceConf(d.hdfsSite) ELSE <<>>
    <3>1. key \notin DOMAIN fs
      BY <1>4 DEF Setting
    <3>2. hive = OrEmpty(m.hiveSite) ++ fs ++ name
      BY <1>1
    <3>3. user = OrEmpty(m.hiveSite)
      BY <1>1
    <3>4. DOMAIN <<>> = {}
      OBVIOUS
    <3> HIDE DEF fs, name, hive, user
    <3>5. key \in DOMAIN name /\ hive[key] = name[key]
      BY <3>1, <3>2, <3>3 DEF ++
    <3> QED BY <3>4, <3>5 DEF name
  <2>2. d.hdfsSite[DFSNameSpacesConfKey] = ns
    BY <1>2, <2>1, HasOrEmpty DEF SitesApart
  <2>3. /\ hive[key] = At(d.hdfsSite, key)
        /\ key[1] \in {"dfs.nameservices", "dfs.ha.namenodes",
                       "dfs.namenode.rpc-address"}
    BY <2>1, <2>2, NameServiceKeys
  <2>4. key \notin DOMAIN OrEmpty(d.coreSite)
    BY <1>2, <2>3 DEF SitesApart
  <2>5. site = OrEmpty(d.hdfsSite)
    BY <1>1, <2>4
  <2> QED BY <2>3, <2>5, HasOrEmpty
<1> QED BY <1>3, <1>4

\* HiveFindsNameNodes for every list of references whose hdfs-site.xml names
\* its namenodes.
LEMMA HiveFinds ==
  ASSUME NEW R, refs \in Seq(R), Known(R)
  PROVE  HiveFindsNameNodes
<1> DEFINE conf == ClusterRefsConf(refs)
           hive == conf[DefaultHiveSiteFile]
           site == conf[DefaultHdfsSiteFile]
<1> SUFFICES ASSUME {DefaultHiveSiteFile, DefaultHdfsSiteFile}
                      \subseteq DOMAIN conf,
                    NEW key \in DOMAIN site, key[1] = RpcAddress(ns)[1]
             PROVE  key \in DOMAIN hive /\ hive[key] = site[key]
  BY DEF HiveFindsNameNodes
<1> HIDE DEF conf
<1>1. PICK d \in R, m \in R :
        /\ LastRef(refs, "metastore") = m
        /\ conf[DefaultHdfsSiteFile] = OrEmpty(d.hdfsSite)
        /\ conf[DefaultCoreSiteFile] = OrEmpty(d.coreSite)
        /\ conf[DefaultHiveSiteFile] =
             OrEmpty(m.hiveSite) ++
             (IF Has(d.coreSite, FSDefaultFSConfKey)
              THEN Setting(FSDefaultFSConfKey, d.coreSite[FSDefaultFSConfKey])
              ELSE <<>>) ++
             (IF Has(d.hdfsSite, DFSNameSpacesConfKey)
              THEN NameServiceConf(d.hdfsSite) ELSE <<>>)
  BY HiveFiles DEF conf
<1> DEFINE h == d.hdfsSite
           fs == IF Has(d.coreSite, FSDefaultFSConfKey)
                 THEN Setting(FSDefaultFSConfKey, d.coreSite[FSDefaultFSConfKey])
                 ELSE <<>>
           name == IF Has(d.hdfsSite, DFSNameSpacesConfKey)
                   THEN NameServiceConf(d.hdfsSite) ELSE <<>>
<1>2. SitesApart(d) /\ AddressesNamed(d) /\ AddressesNamed(m)
  BY DEF Known
<1>3. key \in DOMAIN OrEmpty(h) /\ key[1] = "dfs.namenode.rpc-address"
  BY <1>1 DEF RpcAddress
<1>4. Has(h, DFSNameSpacesConfKey) /\ h[DFSNameSpacesConfKey] = ns
  BY <1>2, <1>3, HasOrEmpty DEF SitesApart, AddressesNamed
<1>5. key \in DOMAIN NameServiceConf(h)
  <2>1. CASE Has(h, HaNameNodes(ns))
    <3>1. \E nn \in ToSet(h[HaNameNodes(ns)]) : key = HaRpcAddress(ns, nn)
      BY <1>2, <1>3, <2>1, HasOrEmpty DEF AddressesNamed
    <3> QED BY <1>4, <2>1, <3>1, NameServiceAddresses
  <2>2. CASE ~ Has(h, HaNameNodes(ns))
    <3>1. key = RpcAddress(ns)
      BY <1>2, <1>3, <2>2, HasOrEmpty DEF AddressesNamed
    <3> QED BY <1>4, <2>2, <3>1, NameServiceAddresses
  <2> QED BY <2>1, <2>2
<1>6. key # FailoverProvider(ns) /\ key # FSDefaultFSConfKey
  BY <1>3 DEF FailoverProvider, FSDefaultFSConfKey
<1>7. NameServiceConf(h)[key] = At(h, key)
  BY <1>4, <1>5, <1>6, NameServiceKeys
<1>8. key \notin DOMAIN OrEmpty(m.hiveSite)
  BY <1>2 DEF AddressesNamed
<1>9. key \notin DOMAIN fs
  BY <1>6 DEF Setting
<1>10. hive = OrEmpty(m.hiveSite) ++ fs ++ name /\ name = NameServiceConf(h)
  BY <1>1, <1>4
<1> HIDE DEF hive, fs, name, h
<1>11. key \in DOMAIN hive /\ hive[key] = At(h, key)
  BY <1>5, <1>7, <1>8, <1>9, <1>10 DEF ++
<1> QED BY <1>1, <1>3, <1>11, HasOrEmpty DEF h

-----------------------------------------------------------------------------
(* The lists that MCManifests builds *)

\* The lemmas are about a reference whose settings, where it has any, are those
\* of the maps core, hdfs and hive.
LEMMA KnownBySettings ==
  ASSUME NEW r, NEW core, NEW hdfs, NEW hive,
         r.coreSite \in {Nil, core}, r.hdfsSite \in {Nil, hdfs},
         r.hiveSite \in {Nil, hive},
         \A key \in DOMAIN core :
            key[1] \in {"fs.defaultFS", "io.file.buffer.size"},
         FSDefaultFSConfKey \notin DOMAIN hdfs,
         DFSNameSpacesConfKey \in DOMAIN hdfs =>
            hdfs[DFSNameSpacesConfKey] = ns,
         \A key \in DOMAIN hdfs : key[1] = "dfs.namenode.rpc-address" =>
            /\ DFSNameSpacesConfKey \in DOMAIN hdfs
            /\ IF HaNameNodes(ns) \in DOMAIN hdfs
               THEN \E nn \in ToSet(hdfs[HaNameNodes(ns)]) :
                       key = HaRpcAddress(ns, nn)
               ELSE key = RpcAddress(ns),
         \A key \in DOMAIN hive : key[1] = "fs.defaultFS"
  PROVE  SitesApart(r) /\ AddressesNamed(r)
<1>1. /\ OrEmpty(r.coreSite) \in {<<>>, core}
      /\ OrEmpty(r.hdfsSite) \in {<<>>, hdfs}
      /\ OrEmpty(r.hiveSite) \in {<<>>, hive}
  BY DEF OrEmpty
<1>2. DOMAIN <<>> = {} /\ RpcAddress(ns)[1] = "dfs.namenode.rpc-address"
  BY DEF RpcAddress
<1>3. SitesApart(r)
  <2>1. \A key \in DOMAIN OrEmpty(r.coreSite) :
          key[1] \notin {"dfs.nameservices", "dfs.ha.namenodes",
                         "dfs.namenode.rpc-address"}
    BY <1>1, <1>2
  <2>2. /\ FSDefaultFSConfKey \notin DOMAIN OrEmpty(r.hdfsSite)
        /\ DFSNameSpacesConfKey \in DOMAIN OrEmpty(r.hdfsSite) =>
             OrEmpty(r.hdfsSite)[DFSNameSpacesConfKey] = ns
    BY <1>1, <1>2
  <2> QED BY <2>1, <2>2 DEF SitesApart
<1>4. AddressesNamed(r)
  <2>1. \A key \in DOMAIN OrEmpty(r.hiveSite) : key[1] # RpcAddress(ns)[1]
    BY <1>1, <1>2
  <2>2. CASE OrEmpty(r.hdfsSite) = <<>>
    BY <1>2, <2>1, <2>2 DEF AddressesNamed
  <2>3. CASE OrEmpty(r.hdfsSite) = hdfs
    BY <1>2, <2>1, <2>3 DEF AddressesNamed
  <2> QED BY <1>1, <2>2, <2>3
<1> QED BY <1>3, <1>4

\* So is a reference with no HDFS settings that overrides at most fs.defaultFS
\* for Hive.
LEMMA KnownWithoutHdfs ==
  ASSUME NEW r, r.coreSite = Nil, r.hdfsSite = Nil,
         r.hiveSite \in {Nil, Setting(FSDefaultFSConfKey, <<"hive">>)}
  PROVE  SitesApart(r) /\ AddressesNamed(r)
<1> DEFINE hive == Setting(FSDefaultFSConfKey, <<"hive">>)
<1>1. \A key \in DOMAIN hive : key[1] = "fs.defaultFS"
  BY DEF Setting, FSDefaultFSConfKey
<1> DEFINE none == <<>>
<1>2. DOMAIN none = {}
  OBVIOUS
<1> HIDE DEF hive, none
<1>3. /\ r.coreSite \in {Nil, none} /\ r.hdfsSite \in {Nil, none}
      /\ r.hiveSite \in {Nil, hive}
  BY DEF hive
<1> QED BY <1>1, <1>2, <1>3, KnownBySettings

\* The hdfs reference with two namenodes.
LEMMA HaHdfsKnown == SitesApart(HaHdfs) /\ AddressesNamed(HaHdfs)
<1> DEFINE core == Setting(FSDefaultFSConfKey, <<"hdfs://nine">>)
           hdfs == Setting(DFSNameSpacesConfKey, ns) ++
                   Setting(HaNameNodes(ns), <<"nn1", "nn2">>) ++
                   Setting(FailoverProvider(ns),
                           <<"RequestHedgingProxyProvider">>) ++
                   Setting(HaRpcAddress(ns, "nn1"), <<"host1">>) ++
                   Setting(HaRpcAddress(ns, "nn2"), <<"host2">>)
           none == <<>>
<1>1. /\ HaHdfs.coreSite = core /\ HaHdfs.hdfsSite = hdfs
      /\ HaHdfs.hiveSite = Nil
  BY DEF HaHdfs, Ref
<1>2. \A key \in DOMAIN core :
        key[1] \in {"fs.defaultFS", "io.file.buffer.size"}
  BY DEF Setting, FSDefaultFSConfKey
<1>3. DOMAIN hdfs = {DFSNameSpacesConfKey, HaNameNodes(ns),
                     FailoverProvider(ns), HaRpcAddress(ns, "nn1"),
                     HaRpcAddress(ns, "nn2")}
  BY DEF ++, Setting
<1>4. hdfs[DFSNameSpacesConfKey] = ns
  BY DEF ++, Setting
<1>5. ToSet(hdfs[HaNameNodes(ns)]) = {"nn1", "nn2"}
  <2>1. DFSNameSpacesConfKey # HaNameNodes(ns)
    BY DEF HaNameNodes, DFSNameSpacesConfKey
  <2>2. hdfs[HaNameNodes(ns)] = <<"nn1", "nn2">>
    BY <2>1 DEF ++, Setting
  <2> HIDE DEF hdfs
  <2> QED BY <2>2 DEF ToSet
<1>6. DOMAIN none = {}
  OBVIOUS
<1> HIDE DEF core, hdfs, none
<1>7. FSDefaultFSConfKey \notin DOMAIN hdfs
  BY <1>3 DEF FSDefaultFSConfKey, DFSNameSpacesConfKey, HaNameNodes,
              FailoverProvider, HaRpcAddress
<1>8. ASSUME NEW key \in DOMAIN hdfs, key[1] = "dfs.namenode.rpc-address"
      PROVE  \E nn \in ToSet(hdfs[HaNameNodes(ns)]) : key = HaRpcAddress(ns, nn)
  <2>1. key = HaRpcAddress(ns, "nn1") \/ key = HaRpcAddress(ns, "nn2")
    BY <1>3, <1>8 DEF DFSNameSpacesConfKey, HaNameNodes, FailoverProvider
  <2> QED BY <1>5, <2>1
<1>9. /\ DFSNameSpacesConfKey \in DOMAIN hdfs
      /\ HaNameNodes(ns) \in DOMAIN hdfs
  BY <1>3
<1>10. \A key \in DOMAIN hdfs : key[1] = "dfs.namenode.rpc-address" =>
         /\ DFSNameSpacesConfKey \in DOMAIN hdfs
         /\ IF HaNameNodes(ns) \in DOMAIN hdfs
            THEN \E nn \in ToSet(hdfs[HaNameNodes(ns)]) :
                    key = HaRpcAddress(ns, nn)
            ELSE key = RpcAddress(ns)
  BY <1>8, <1>9
<1>11. /\ HaHdfs.coreSite \in {Nil, core} /\ HaHdfs.hdfsSite \in {Nil, hdfs}
       /\ HaHdfs.hiveSite \in {Nil, none}
       /\ \A key \in DOMAIN none : key[1] = "fs.defaultFS"
  BY <1>1, <1>6
<1> QED BY SMTT(30), <1>2, <1>4, <1>7, <1>10, <1>11, KnownBySettings

\* The hdfs reference with one namenode.
LEMMA PlainHdfsKnown == SitesApart(PlainHdfs) /\ AddressesNamed(PlainHdfs)
<1> DEFINE core == Setting(FSDefaultFSConfKey, <<"hdfs://host">>) ++
                   Setting(<<"io.file.buffer.size">>, <<"1">>)
           hdfs == Setting(DFSNameSpacesConfKey, ns) ++
                   Setting(RpcAddress(ns), <<"host">>)
           none == <<>>
<1>1. /\ PlainHdfs.coreSite = core /\ PlainHdfs.hdfsSite = hdfs
      /\ PlainHdfs.hiveSite = Nil
  BY DEF PlainHdfs, Ref
<1>2. \A key \in DOMAIN core :
        key[1] \in {"fs.defaultFS", "io.file.buffer.size"}
  BY DEF ++, Setting, FSDefaultFSConfKey
<1>3. DOMAIN hdfs = {DFSNameSpacesConfKey, RpcAddress(ns)}
  BY DEF ++, Setting
<1>4. hdfs[DFSNameSpacesConfKey] = ns
  BY DEF ++, Setting
<1>5. DOMAIN none = {}
  OBVIOUS
<1> HIDE DEF core, hdfs, none
<1>6. /\ FSDefaultFSConfKey \notin DOMAIN hdfs
      /\ HaNameNodes(ns) \notin DOMAIN hdfs
  BY <1>3 DEF FSDefaultFSConfKey, DFSNameSpacesConfKey, HaNameNodes, RpcAddress
<1>7. ASSUME NEW key \in DOMAIN hdfs, key[1] = "dfs.namenode.rpc-address"
      PROVE  key = RpcAddress(ns)
  BY <1>3, <1>7 DEF DFSNameSpacesConfKey
<1>8. DFSNameSpacesConfKey \in DOMAIN hdfs
  BY <1>3
<1>9. \A key \in DOMAIN hdfs : key[1] = "dfs.namenode.rpc-address" =>
        /\ DFSNameSpacesConfKey \in DOMAIN hdfs
        /\ IF HaNameNodes(ns) \in DOMAIN hdfs
           THEN \E nn \in ToSet(hdfs[HaNameNodes(ns)]) :
                   key = HaRpcAddress(ns, nn)
           ELSE key = RpcAddress(ns)
  BY <1>6, <1>7, <1>8
<1>10. /\ PlainHdfs.coreSite \in {Nil, core}
       /\ PlainHdfs.hdfsSite \in {Nil, hdfs}
       /\ PlainHdfs.hiveSite \in {Nil, none}
       /\ \A key \in DOMAIN none : key[1] = "fs.defaultFS"
  BY <1>1, <1>5
<1>11. FSDefaultFSConfKey \notin DOMAIN hdfs
  BY <1>6
<1> QED BY SMTT(30), <1>2, <1>4, <1>9, <1>10, <1>11, KnownBySettings

\* The lemmas are about all references of MCManifests.
LEMMA RefsKnown == Known(Refs)
<1> SUFFICES ASSUME NEW r \in Refs
             PROVE  r.type \in ClusterTypes /\ SitesApart(r) /\ AddressesNamed(r)
  BY DEF Known
<1>1. CASE r = HaHdfs
  <2>1. HaHdfs.type = "hdfs"
    BY DEF HaHdfs, Ref
  <2> QED BY <1>1, <2>1, HaHdfsKnown DEF ClusterTypes
<1>2. CASE r = PlainHdfs
  <2>1. PlainHdfs.type = "hdfs"
    BY DEF PlainHdfs, Ref
  <2> QED BY <1>2, <2>1, PlainHdfsKnown DEF ClusterTypes
<1>3. CASE r \notin {HaHdfs, PlainHdfs}
  <2>1. /\ r.coreSite = Nil /\ r.hdfsSite = Nil
        /\ r.hiveSite \in {Nil, Setting(FSDefaultFSConfKey, <<"hive">>)}
        /\ r.type \in {"flink", "hdfs", "metastore", "spark"}
    <3>1. CASE r \in {Ref("flink"), Ref("hdfs"), Ref("metastore"), Ref("spark")}
      <4>1. PICK t \in {"flink", "hdfs", "metastore", "spark"} : r = Ref(t)
        BY <3>1
      <4>2. /\ Ref(t).coreSite = Nil /\ Ref(t).hdfsSite = Nil
            /\ Ref(t).hiveSite = Nil /\ Ref(t).type = t
        BY DEF Ref
      <4> QED BY <4>1, <4>2
    <3>2. CASE r = [Ref("metastore") EXCEPT
                      !.hiveSite = Setting(FSDefaultFSConfKey, <<"hive">>)]
      BY <3>2 DEF Ref
    <3>3. CASE r = [Ref("spark") EXCEPT
                      !.sparkDefaults = Setting(<<"spark.master">>, <<"local">>)]
      BY <3>3 DEF Ref
    <3> QED BY <1>3, <3>1, <3>2, <3>3 DEF Refs
  <2> QED BY <2>1, KnownWithoutHdfs DEF ClusterTypes
<1> QED BY <1>1, <1>2, <1>3

\* The list is always one of these references.
LEMMA RefsType == Spec => [](refs \in Seq(Refs))
<1>1. Init => refs \in Seq(Refs)
  BY DEF Init
<1>2. refs \in Seq(Refs) /\ [Next]_refs => (refs \in Seq(Refs))'
  <2> SUFFICES ASSUME refs \in Seq(Refs), [Next]_refs
               PROVE  refs' \in Seq(Refs)
    OBVIOUS
  <2>1. CASE Next
    <3>1. PICK r \in Refs : refs' = Append(refs, r)
      BY <2>1 DEF Next, AddRef
    <3> QED BY <3>1
  <2>2. CASE UNCHANGED refs
    BY <2>2
  <2> QED BY <2>1, <2>2
<1> QED BY <1>1, <1>2, PTL DEF Spec

\* Such a list satisfies each of the five invariants.
LEMMA InvariantsOfAList ==
  refs \in Seq(Refs) => /\ RefusedIffTwoOfAType /\ MountsFitConfigMaps
                        /\ HiveAgreesWithHdfs /\ HiveFindsNameNodes
                        /\ CompareFindsChanges
<1> HAVE refs \in Seq(Refs)
<1>1. Known(Refs)
  BY RefsKnown
<1>2. \A r \in Refs : r.type \in ClusterTypes
  BY <1>1 DEF Known
<1>3. Typed
  BY <1>2 DEF Typed
<1>4. RefusedIffTwoOfAType
  BY <1>3, Refused
<1>5. MountsFitConfigMaps
  BY <1>3, MountsFit
<1>6. HiveAgreesWithHdfs
  BY <1>1, HiveAgrees
<1>7. HiveFindsNameNodes
  BY <1>1, HiveFinds
<1>8. CompareFindsChanges
  BY <1>2, CompareFinds
<1> QED BY <1>4, <1>5, <1>6, <1>7, <1>8

\* The API server refuses the StatefulSet exactly when two references have the
\* same type (constructVolumes, constructVolumeMounts), however many there are.
THEOREM RefusedExactly == Spec => []RefusedIffTwoOfAType
<1>1. refs \in Seq(Refs) => RefusedIffTwoOfAType
  BY InvariantsOfAList
<1> QED BY <1>1, RefsType, PTL

\* Volumes, mounts and the files of the ConfigMaps, which four functions build,
\* fit together for lists of any length.
THEOREM WorkloadFitsConfigMaps == Spec => []MountsFitConfigMaps
<1>1. refs \in Seq(Refs) => MountsFitConfigMaps
  BY InvariantsOfAList
<1> QED BY <1>1, RefsType, PTL

\* The two loops of desiredClusterRefsConfigMap take the HDFS settings from the
\* same reference, so hive-site.xml does not contradict the files beside it.
THEOREM HiveNeverContradictsHdfs == Spec => []HiveAgreesWithHdfs
<1>1. refs \in Seq(Refs) => HiveAgreesWithHdfs
  BY InvariantsOfAList
<1> QED BY <1>1, RefsType, PTL

\* hive-site.xml has every namenode address that hdfs-site.xml has.
THEOREM HiveReachesNameNodes == Spec => []HiveFindsNameNodes
<1>1. refs \in Seq(Refs) => HiveFindsNameNodes
  BY InvariantsOfAList
<1> QED BY <1>1, RefsType, PTL

\* compareConf reports a change of the ConfigMap exactly when there is one.
THEOREM CompareIsExact == Spec => []CompareFindsChanges
<1>1. refs \in Seq(Refs) => CompareFindsChanges
  BY InvariantsOfAList
<1> QED BY <1>1, RefsType, PTL
=============================================================================
