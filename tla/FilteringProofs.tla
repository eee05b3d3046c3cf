--------------------------- MODULE FilteringProofs ---------------------------
(***************************************************************************)
(* What Without computes.  The provers cannot instantiate the library's      *)
(* induction theorems, whose parameter is an operator; the induction is      *)
(* therefore on the least element of the set of counterexamples, which       *)
(* WFMin gives for a set.                                                    *)
(***************************************************************************)
EXTENDS Filtering, TLAPS, WellFoundedInduction

\* A set of natural numbers that is not empty has a least element.
LEMMA LeastNumber ==
    ASSUME NEW T \in SUBSET Nat, T # {}
    PROVE  \E m \in T : \A k \in T : m <= k
<1>1. PICK m \in T : \A k \in T : ~(<<k, m>> \in OpToRel(<, Nat))
  BY WFMin, NatLessThanWellFounded, Zenon
<1>2. \A k \in T : ~(k < m)
  BY <1>1 DEF OpToRel
<1> QED
  BY <1>2

\* Induction along an interval that starts at 0: a set with 0 in it that contains
\* the successor of each of its elements contains the interval.
LEMMA IntervalInduction ==
    ASSUME NEW n \in Nat, NEW P, 0 \in P,
           \A i \in 0 .. n - 1 : i \in P => i + 1 \in P
    PROVE  0 .. n \subseteq P
<1> DEFINE Bad == {i \in 0 .. n : i \notin P}
<1>1. SUFFICES ASSUME Bad # {}
               PROVE  FALSE
  OBVIOUS
<1>2. PICK m \in Bad : \A k \in Bad : m <= k
  <2>1. Bad \in SUBSET Nat
    OBVIOUS
  <2> HIDE DEF Bad
  <2> QED
    BY <1>1, <2>1, LeastNumber
<1>3. m # 0 /\ m - 1 \in 0 .. n - 1 /\ m - 1 \notin Bad
  BY <1>2
<1>4. m - 1 \in P
  BY <1>3
<1>5. (m - 1) + 1 \in P
  BY <1>3, <1>4
<1> QED
  BY <1>2, <1>3, <1>5

\* The recursion equation of the function behind Without(s, T), for the first n
\* elements of s.
Equation(s, T, n, g) ==
    g = [i \in 0 .. n |-> IF i = 0 THEN <<>>
                          ELSE IF s[i] \in T THEN g[i - 1]
                          ELSE Append(g[i - 1], s[i])]

LEMMA EquationSolvable ==
    ASSUME NEW s, NEW T, NEW n \in Nat
    PROVE  \E g : Equation(s, T, n, g)
<1> DEFINE P == {k \in 0 .. n : \E g : Equation(s, T, k, g)}
<1>1. 0 \in P
  <2>1. Equation(s, T, 0, [i \in 0 .. 0 |-> <<>>])
    BY DEF Equation
  <2> QED
    BY <2>1
<1>2. ASSUME NEW k \in 0 .. n - 1, k \in P
      PROVE  k + 1 \in P
  <2>1. PICK g : Equation(s, T, k, g)
    BY <1>2
  <2> DEFINE last == IF s[k + 1] \in T THEN g[k] ELSE Append(g[k], s[k + 1])
             h == [i \in 0 .. k + 1 |-> IF i = k + 1 THEN last ELSE g[i]]
  <2>2. \A i \in 0 .. k : h[i] = g[i]
    OBVIOUS
  <2>3. \A i \in 0 .. k : g[i] = IF i = 0 THEN <<>>
                                ELSE IF s[i] \in T THEN g[i - 1]
                                ELSE Append(g[i - 1], s[i])
    BY <2>1 DEF Equation
  <2>4. ASSUME NEW i \in 0 .. k + 1
        PROVE  h[i] = IF i = 0 THEN <<>>
                      ELSE IF s[i] \in T THEN h[i - 1]
                      ELSE Append(h[i - 1], s[i])
    <3>1. CASE i \in 0 .. k
      <4>1. i # 0 => h[i - 1] = g[i - 1]
        BY <3>1, <2>2
      <4> QED
        BY <3>1, <2>2, <2>3, <4>1
    <3>2. CASE i = k + 1
      <4>1. h[i - 1] = g[k] /\ i # 0 /\ h[i] = last
        BY <3>2
      <4> QED
        BY <3>2, <4>1
    <3> QED
      BY <3>1, <3>2
  <2>5. h = [i \in 0 .. k + 1 |-> h[i]]
    OBVIOUS
  <2>6. Equation(s, T, k + 1, h)
    <3> HIDE DEF h
    <3> QED
      BY <2>4, <2>5 DEF Equation
  <2>7. k + 1 \in 0 .. n
    OBVIOUS
  <2> QED
    BY <2>6, <2>7
<1>3. 0 .. n \subseteq P
  <2> HIDE DEF P
  <2> QED
    BY <1>1, <1>2, IntervalInduction
<1>4. n \in P
  BY <1>3
<1> QED
  BY <1>4

LEMMA WithoutEquation ==
    ASSUME NEW S, NEW s \in Seq(S), NEW T
    PROVE  \E g : Equation(s, T, Len(s), g) /\ Without(s, T) = g[Len(s)]
<1> DEFINE g == CHOOSE f : Equation(s, T, Len(s), f)
<1>1. Equation(s, T, Len(s), g)
  <2>1. Len(s) \in Nat
    OBVIOUS
  <2>2. \E f : Equation(s, T, Len(s), f)
    BY <2>1, EquationSolvable
  <2> QED
    BY <2>2
<1>2. Without(s, T) = g[Len(s)]
  BY DEF Without, Equation
<1> HIDE DEF g
<1> QED
  BY <1>1, <1>2

\* t is what the first n elements of s leave: those that are not in T, all of
\* them, in their order.
Leaves(s, T, n, t) ==
    /\ Len(t) <= n
    /\ \A a \in 1 .. Len(t) : t[a] \notin T /\ \E j \in 1 .. n : s[j] = t[a]
    /\ \A j \in 1 .. n : s[j] \notin T => \E a \in 1 .. Len(t) : t[a] = s[j]
    /\ \A a, b \in 1 .. Len(t) : a < b =>
           \E j, k \in 1 .. n : j < k /\ s[j] = t[a] /\ s[k] = t[b]

LEMMA LeavesNext ==
    ASSUME NEW S, NEW s \in Seq(S), NEW T, NEW i \in 0 .. Len(s) - 1, NEW t \in Seq(S),
           Leaves(s, T, i, t), s[i + 1] \notin T
    PROVE  Append(t, s[i + 1]) \in Seq(S) /\ Leaves(s, T, i + 1, Append(t, s[i + 1]))
<1> DEFINE u == Append(t, s[i + 1])
<1>1. /\ s[i + 1] \in S /\ Len(t) \in Nat /\ i \in Nat
      /\ 1 .. i \subseteq 1 .. i + 1 /\ i + 1 \in 1 .. i + 1
  OBVIOUS
<1>2. /\ u \in Seq(S) /\ Len(u) = Len(t) + 1 /\ u[Len(t) + 1] = s[i + 1]
      /\ \A a \in 1 .. Len(t) : u[a] = t[a]
  BY <1>1
<1> HIDE DEF u
<1>3. \A a \in 1 .. Len(u) : u[a] \notin T /\ \E j \in 1 .. i + 1 : s[j] = u[a]
  <2> TAKE a \in 1 .. Len(u)
  <2>1. CASE a \in 1 .. Len(t)
    <3>1. PICK j \in 1 .. i : s[j] = t[a]
      BY <2>1 DEF Leaves
    <3>2. t[a] \notin T
      BY <2>1 DEF Leaves
    <3>3. j \in 1 .. i + 1 /\ u[a] = t[a]
      BY <1>1, <1>2, <2>1
    <3> QED
      BY <3>1, <3>2, <3>3
  <2>2. CASE a = Len(t) + 1
    BY <1>1, <1>2, <2>2
  <2> QED
    BY <1>1, <1>2, <2>1, <2>2
<1>4. \A j \in 1 .. i + 1 : s[j] \notin T => \E a \in 1 .. Len(u) : u[a] = s[j]
  <2> TAKE j \in 1 .. i + 1
  <2> HAVE s[j] \notin T
  <2>1. CASE j \in 1 .. i
    <3>1. PICK a \in 1 .. Len(t) : t[a] = s[j]
      BY <2>1 DEF Leaves
    <3> QED
      BY <1>1, <1>2, <3>1
  <2>2. CASE j = i + 1
    BY <1>1, <1>2, <2>2
  <2> QED
    BY <1>1, <2>1, <2>2
<1>5. \A a, b \in 1 .. Len(u) : a < b =>
          \E j, k \in 1 .. i + 1 : j < k /\ s[j] = u[a] /\ s[k] = u[b]
  <2> TAKE a, b \in 1 .. Len(u)
  <2> HAVE a < b
  <2>1. a \in 1 .. Len(t)
    BY <1>1, <1>2
  <2>2. CASE b \in 1 .. Len(t)
    <3>1. PICK j, k \in 1 .. i : j < k /\ s[j] = t[a] /\ s[k] = t[b]
      BY <2>1, <2>2 DEF Leaves
    <3> QED
      BY <1>1, <1>2, <2>1, <2>2, <3>1
  <2>3. CASE b = Len(t) + 1
    <3>1. PICK j \in 1 .. i : s[j] = t[a]
      BY <2>1 DEF Leaves
    <3>2. j < i + 1 /\ j \in 1 .. i + 1
      BY <1>1
    <3> QED
      BY <1>1, <1>2, <2>1, <2>3, <3>1, <3>2
  <2>4. b \in 1 .. Len(t) \/ b = Len(t) + 1
    BY <1>1, <1>2
  <2> QED
    BY <2>2, <2>3, <2>4
<1>6. Len(u) <= i + 1
  BY <1>1, <1>2 DEF Leaves
<1> QED
  BY <1>2, <1>3, <1>4, <1>5, <1>6 DEF Leaves, u

LEMMA LeavesSame ==
    ASSUME NEW S, NEW s \in Seq(S), NEW T, NEW i \in 0 .. Len(s) - 1, NEW t \in Seq(S),
           Leaves(s, T, i, t), s[i + 1] \in T
    PROVE  Leaves(s, T, i + 1, t)
<1>1. /\ Len(t) \in Nat /\ i \in Nat /\ 1 .. i \subseteq 1 .. i + 1
      /\ \A j \in 1 .. i + 1 : j \in 1 .. i \/ j = i + 1
  OBVIOUS
<1>2. Len(t) <= i + 1
  BY <1>1 DEF Leaves
<1>3. \A a \in 1 .. Len(t) : t[a] \notin T /\ \E j \in 1 .. i + 1 : s[j] = t[a]
  BY <1>1 DEF Leaves
<1>4. \A j \in 1 .. i + 1 : s[j] \notin T => \E a \in 1 .. Len(t) : t[a] = s[j]
  BY <1>1 DEF Leaves
<1>5. \A a, b \in 1 .. Len(t) : a < b =>
          \E j, k \in 1 .. i + 1 : j < k /\ s[j] = t[a] /\ s[k] = t[b]
  BY <1>1 DEF Leaves
<1> QED
  BY <1>2, <1>3, <1>4, <1>5 DEF Leaves

\* Without(s, T) is what s leaves when the elements of T are taken out of it: the
\* others, all of them, and in their order.  (The frames of writePump and the LRU
\* list of the policy cache are computed with it.)
THEOREM WithoutLeaves ==
    ASSUME NEW S, NEW s \in Seq(S), NEW T
    PROVE  Without(s, T) \in Seq(S) /\ Leaves(s, T, Len(s), Without(s, T))
<1>1. PICK g : Equation(s, T, Len(s), g) /\ Without(s, T) = g[Len(s)]
  BY WithoutEquation
<1>2. /\ g[0] = <<>>
      /\ \A i \in 0 .. Len(s) - 1 :
             g[i + 1] = IF s[i + 1] \in T THEN g[i] ELSE Append(g[i], s[i + 1])
  <2>1. Len(s) \in Nat
    OBVIOUS
  <2>2. \A i \in 0 .. Len(s) : g[i] = IF i = 0 THEN <<>>
                                     ELSE IF s[i] \in T THEN g[i - 1]
                                     ELSE Append(g[i - 1], s[i])
    BY <1>1 DEF Equation
  <2>3. ASSUME NEW i \in 0 .. Len(s) - 1
        PROVE  g[i + 1] = IF s[i + 1] \in T THEN g[i] ELSE Append(g[i], s[i + 1])
    <3>1. i + 1 \in 0 .. Len(s) /\ i + 1 # 0 /\ (i + 1) - 1 = i
      BY <2>1
    <3> QED
      BY <2>2, <3>1
  <2> QED
    BY <2>1, <2>2, <2>3
<1> DEFINE P == {i \in 0 .. Len(s) : g[i] \in Seq(S) /\ Leaves(s, T, i, g[i])}
<1>3. 0 \in P
  <2>1. Len(s) \in Nat /\ g[0] = <<>>
    BY <1>2
  <2>2. <<>> \in Seq(S) /\ Leaves(s, T, 0, <<>>)
    <3>1. Len(<<>>) = 0 /\ 1 .. 0 = {}
      OBVIOUS
    <3> QED
      BY <3>1 DEF Leaves
  <2>3. 0 \in 0 .. Len(s)
    BY <2>1
  <2> QED
    BY <2>1, <2>2, <2>3
<1>4. ASSUME NEW i \in 0 .. Len(s) - 1, i \in P
      PROVE  i + 1 \in P
  <2>1. i + 1 \in 0 .. Len(s) /\ g[i] \in Seq(S) /\ Leaves(s, T, i, g[i])
    BY <1>4
  <2>2. CASE s[i + 1] \in T
    BY <1>2, <2>1, <2>2, LeavesSame
  <2>3. CASE s[i + 1] \notin T
    <3>1. g[i + 1] = Append(g[i], s[i + 1])
      BY <1>2, <2>3
    <3>2. Append(g[i], s[i + 1]) \in Seq(S) /\ Leaves(s, T, i + 1, Append(g[i], s[i + 1]))
      <4> HIDE DEF P
      <4> QED
        BY <2>1, <2>3, LeavesNext
    <3> QED
      BY <2>1, <3>1, <3>2
  <2> QED
    BY <2>2, <2>3
<1>5. 0 .. Len(s) \subseteq P
  <2>1. Len(s) \in Nat
    OBVIOUS
  <2> HIDE DEF P
  <2> QED
    BY <1>3, <1>4, <2>1, IntervalInduction
<1>6. Len(s) \in P
  BY <1>5
<1> QED
  BY <1>1, <1>6

=============================================================================
