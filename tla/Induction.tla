------------------------------ MODULE Induction ------------------------------
(****************************************************************************)
(* Induction over the natural numbers, for proofs about sequences: stated   *)
(* about sets of numbers, so that a proof can cite it for any of them.      *)
(****************************************************************************)
EXTENDS Integers, WellFoundedInduction, TLAPS

\* A set of natural numbers that is not empty has a least member.
LEMMA LeastMember ==
  ASSUME NEW T \in SUBSET Nat, T # {}
  PROVE  \E n \in T : \A m \in T : n <= m
<1> DEFINE less == {ss \in Nat \X Nat : ss[1] < ss[2]}
<1>1. OpToRel(<, Nat) = less
  BY Zenon DEF OpToRel
<1>2. PICK n \in T : \A m \in T : ~(<<m, n>> \in less)
  BY <1>1, NatLessThanWellFounded, WFMin
<1>3. ASSUME NEW m \in Nat, NEW i \in Nat, m < i PROVE <<m, i>> \in less
  <2>1. <<m, i>> \in Nat \X Nat /\ <<m, i>>[1] = m /\ <<m, i>>[2] = i
    OBVIOUS
  <2> QED
    BY <2>1, <1>3
<1> HIDE DEF less
<1>4. ASSUME NEW m \in T PROVE n <= m
  <2>1. m \in Nat /\ n \in Nat /\ ~(m < n)
    BY <1>2, <1>3
  <2> QED
    BY <2>1
<1> QED
  BY <1>4

\* A set with 0 in it, and with every number the next one, holds them all.
LEMMA NumbersByInduction ==
  ASSUME NEW T, 0 \in T, \A n \in Nat : n \in T => n + 1 \in T
  PROVE  \A n \in Nat : n \in T
<1> DEFINE missing == Nat \ T
<1> SUFFICES ASSUME missing # {} PROVE FALSE
  OBVIOUS
<1>1. PICK n \in missing : \A m \in missing : n <= m
  BY LeastMember
<1>2. n \in Nat /\ n # 0 /\ n \notin T
  OBVIOUS
<1>3. n - 1 \in Nat /\ n - 1 \in T
  <2>1. n - 1 \in Nat /\ ~(n <= n - 1)
    BY <1>2
  <2> QED
    BY <1>1, <2>1
<1>4. (n - 1) + 1 \in T /\ (n - 1) + 1 = n
  BY <1>2, <1>3
<1> QED
  BY <1>2, <1>4

\* What holds from a number on, and of every number below if of all above it,
\* holds of all.
LEMMA DownInduction ==
  ASSUME NEW T, NEW B \in Nat,
         \A q \in Nat : (q < B => \A r \in Nat : q < r => r \in T) => q \in T
  PROVE  \A q \in Nat : q \in T
<1> DEFINE U == {n \in Nat : \A q \in Nat : q + n >= B => q \in T}
<1>1. 0 \in U
  OBVIOUS
<1>2. ASSUME NEW n \in Nat, n \in U PROVE n + 1 \in U
  <2>1. ASSUME NEW q \in Nat, q + (n + 1) >= B, NEW r \in Nat, q < r PROVE r \in T
    <3>1. r + n >= B
      BY <2>1
    <3> QED
      BY <1>2, <3>1
  <2> QED
    BY <2>1
<1>3. B \in U
  <2> HIDE DEF U
  <2> QED
    BY <1>1, <1>2, NumbersByInduction
<1> QED
  BY <1>3

\* A definition by recursion on larger numbers, up to some number, defines
\* a function: F gives the next approximation of it.
LEMMA RecursionDown ==
  ASSUME NEW S, S # {}, NEW B \in Nat,
         NEW F \in [S -> S],
         \A f, g \in S : (\A q \in Nat : f[q] = g[q]) => f = g,
         \A f, g \in S : \A q \in Nat :
           (q < B => \A r \in Nat : q < r => f[r] = g[r]) => F[f][q] = F[g][q]
  PROVE  \E f \in S : F[f] = f
<1> DEFINE T == {n \in Nat : \E f \in S : \A q \in Nat : q + n >= B => F[f][q] = f[q]}
<1>1. 0 \in T
  <2>1. PICK f : f \in S
    OBVIOUS
  <2>2. F[f] \in S
    BY <2>1
  <2>3. ASSUME NEW q \in Nat, q + 0 >= B PROVE F[F[f]][q] = F[f][q]
    <3>1. ~(q < B)
      BY <2>3
    <3> QED
      BY <2>1, <2>2, <3>1
  <2> QED
    BY <2>2, <2>3
<1>2. ASSUME NEW n \in Nat, n \in T PROVE n + 1 \in T
  <2>1. PICK f \in S : \A q \in Nat : q + n >= B => F[f][q] = f[q]
    BY <1>2
  <2>2. F[f] \in S
    OBVIOUS
  <2>3. ASSUME NEW q \in Nat, q + (n + 1) >= B PROVE F[F[f]][q] = F[f][q]
    <3>1. ASSUME NEW r \in Nat, q < r PROVE F[f][r] = f[r]
      <4>1. r + n >= B
        BY <2>3, <3>1
      <4> QED
        BY <2>1, <4>1
    <3> QED
      BY <2>2, <3>1
  <2> QED
    BY <2>2, <2>3
<1>3. B \in T
  <2> HIDE DEF T
  <2> QED
    BY <1>1, <1>2, NumbersByInduction
<1>4. PICK f \in S : \A q \in Nat : q + B >= B => F[f][q] = f[q]
  BY <1>3
<1>5. \A q \in Nat : F[f][q] = f[q]
  BY <1>4
<1>6. F[f] \in S
  OBVIOUS
<1> QED
  BY <1>5, <1>6

\* A definition by recursion on smaller numbers, up to some number, defines a
\* function.
LEMMA RecursionUp ==
  ASSUME NEW S, S # {}, NEW D \in SUBSET Nat, NEW B \in Nat, \A q \in D : q < B,
         NEW F \in [S -> S],
         \A f, g \in S : (\A q \in D : f[q] = g[q]) => f = g,
         \A f, g \in S : \A q \in D :
           (\A r \in D : r < q => f[r] = g[r]) => F[f][q] = F[g][q]
  PROVE  \E f \in S : F[f] = f
<1> DEFINE T == {n \in Nat : \E f \in S : \A q \in D : q < n => F[f][q] = f[q]}
<1>1. 0 \in T
  OBVIOUS
<1>2. ASSUME NEW n \in Nat, n \in T PROVE n + 1 \in T
  <2>1. PICK f \in S : \A q \in D : q < n => F[f][q] = f[q]
    BY <1>2
  <2>2. F[f] \in S
    OBVIOUS
  <2>3. ASSUME NEW q \in D, q < n + 1 PROVE F[F[f]][q] = F[f][q]
    <3>1. ASSUME NEW r \in D, r < q PROVE F[f][r] = f[r]
      <4>1. r < n
        BY <2>3, <3>1
      <4> QED
        BY <2>1, <4>1
    <3> QED
      BY <2>2, <3>1
  <2> QED
    BY <2>2, <2>3
<1>3. B \in T
  <2> HIDE DEF T
  <2> QED
    BY <1>1, <1>2, NumbersByInduction
<1>4. PICK f \in S : \A q \in D : q < B => F[f][q] = f[q]
  BY <1>3
<1>5. \A q \in D : F[f][q] = f[q]
  BY <1>4
<1>6. F[f] \in S
  OBVIOUS
<1> QED
  BY <1>5, <1>6
=============================================================================
