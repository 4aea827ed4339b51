--------------------------- MODULE RecencyProofs ---------------------------
(***************************************************************************)
(* What the operations on recency lists do to a list that has one element  *)
(* for every key of a set, for lists of every length.  Unlinked is a       *)
(* recursive function, so its lemmas go by induction, here over the members*)
(* of a set of numbers (UpTo), which comes from the least number principle.*)
(***************************************************************************)
EXTENDS Recency, FiniteSetTheorems, WellFoundedInduction, TLAPS

\* A nonempty set of natural numbers has a least element.
LEMMA LeastNat ==
    ASSUME NEW T, T \subseteq Nat, T # {}
    PROVE  \E m \in T : \A k \in T : m <= k
  <1> DEFINE R == OpToRel(<, Nat)
  <1>1. IsWellFoundedOn(R, Nat)
    BY NatLessThanWellFounded
  <1>2. \A x, y \in Nat : y < x => <<y, x>> \in R
    BY DEF OpToRel
  <1> HIDE DEF R
  <1>3. PICK x \in T : \A y \in T : ~ (<<y, x>> \in R)
    BY <1>1, WFMin
  <1>4. \A y \in T : ~(y < x)
    BY <1>2, <1>3
  <1> QED BY <1>4

\* Induction from 0 to n: a set with 0 that goes on from each k below n has all
\* of them.
LEMMA UpTo ==
    ASSUME NEW n \in Nat, NEW T, 0 \in T,
           \A k \in 0..n : k < n /\ k \in T => k + 1 \in T
    PROVE  \A k \in 0..n : k \in T
  <1> DEFINE U == {k \in 0..n : k \notin T}
  <1> SUFFICES ASSUME U # {} PROVE FALSE
    OBVIOUS
  <1>1. PICK m \in U : \A k \in U : m <= k
    <2> U \subseteq Nat
      OBVIOUS
    <2> HIDE DEF U
    <2> QED BY LeastNat
  <1>2. m \in 0..n /\ m # 0 /\ m - 1 \notin U
    BY <1>1
  <1>3. m - 1 \in T /\ m - 1 \in 0..n /\ m - 1 < n /\ (m - 1) + 1 = m
    BY <1>2
  <1> QED BY <1>1, <1>3

\* The recursion of Unlinked has a solution, which Unlinked takes its value from.
LEMMA UnlinkedDefined ==
    ASSUME NEW K, NEW s \in Seq(K), NEW S
    PROVE  \E kept : /\ kept[0] = <<>>
                     /\ \A n \in 1..Len(s) : kept[n] = IF s[n] \in S THEN kept[n - 1]
                                                       ELSE Append(kept[n - 1], s[n])
                     /\ Unlinked(s, S) = kept[Len(s)]
  <1> DEFINE Good(m, f) == f = [n \in 0..m |->
                          IF n = 0 THEN <<>> ELSE IF s[n] \in S THEN f[n - 1]
                          ELSE Append(f[n - 1], s[n])]
             kept == CHOOSE f : Good(Len(s), f)
             T == {m \in 0..Len(s) : \E f : Good(m, f)}
  <1>1. Unlinked(s, S) = kept[Len(s)]
    BY DEF Unlinked
  <1>2. 0 \in T
    <2>1. Good(0, [n \in 0..0 |-> <<>>])
      OBVIOUS
    <2> HIDE DEF Good
    <2> QED BY <2>1
  <1>3. ASSUME NEW m \in 0..Len(s), m < Len(s), m \in T
        PROVE  m + 1 \in T
    <2>1. PICK f : Good(m, f)
      BY <1>3
    <2> DEFINE g == [n \in 0..(m + 1) |-> IF n < m + 1 THEN f[n]
                          ELSE IF s[n] \in S THEN f[n - 1] ELSE Append(f[n - 1], s[n])]
    <2>2. Good(m + 1, g)
      <3>1. \A n \in 0..m : f[n] = IF n = 0 THEN <<>> ELSE IF s[n] \in S THEN f[n - 1]
                                   ELSE Append(f[n - 1], s[n])
        BY <2>1
      <3>2. \A n \in 0..(m+1) : g[n] = IF n = 0 THEN <<>> ELSE IF s[n] \in S THEN g[n - 1]
                                       ELSE Append(g[n - 1], s[n])
        BY <3>1
      <3> QED BY <3>2
    <2>3. m + 1 \in 0..Len(s)
      BY <1>3
    <2> HIDE DEF Good, g
    <2> QED BY <2>2, <2>3
  <1>4. Good(Len(s), kept)
    <2> HIDE DEF Good, T
    <2>1. \A k \in 0..Len(s) : k \in T
      <3>1. Len(s) \in Nat
        OBVIOUS
      <3> QED BY <1>2, <1>3, <3>1, UpTo
    <2>2. \E f : Good(Len(s), f)
      BY <2>1 DEF T
    <2> QED BY <2>2
  <1>5. Len(s) \in Nat
    OBVIOUS
  <1> HIDE DEF kept
  <1>6. \A n \in 0..Len(s) :
          kept[n] = IF n = 0 THEN <<>> ELSE IF s[n] \in S THEN kept[n - 1]
                    ELSE Append(kept[n - 1], s[n])
    BY <1>4
  <1>7. /\ kept[0] = <<>>
        /\ \A n \in 1..Len(s) : kept[n] = IF s[n] \in S THEN kept[n - 1]
                                          ELSE Append(kept[n - 1], s[n])
    BY <1>5, <1>6
  <1> QED BY <1>1, <1>7

\* OnceEach without the sequences in it, which the provers take to better.
LEMMA OnceFacts ==
    ASSUME NEW K, NEW s, OnceEach(s, K)
    PROVE  /\ s \in Seq(K) /\ Len(s) \in Nat
           /\ \A n \in 1..Len(s) : s[n] \in K
           /\ \A x \in K : \E n \in 1..Len(s) : s[n] = x
           /\ \A m, n \in 1..Len(s) : s[m] = s[n] => m = n
  BY DEF OnceEach

LEMMA OnceSeq ==
    ASSUME NEW K, NEW s, OnceEach(s, K), NEW T, K \subseteq T
    PROVE  s \in Seq(T)
  <1>1. s \in Seq(K)
    BY OnceFacts
  <1> QED BY <1>1

\* Unlinking the keys of S leaves one element for every other key.
LEMMA UnlinkedOnce ==
    ASSUME NEW K, NEW s, OnceEach(s, K), NEW S
    PROVE  OnceEach(Unlinked(s, S), K \ S)
  <1> DEFINE F == K \ S
  <1>0. /\ s \in Seq(K) /\ Len(s) \in Nat
        /\ \A n \in 1..Len(s) : s[n] \in K
        /\ \A x \in K : \E n \in 1..Len(s) : s[n] = x
        /\ \A m, n \in 1..Len(s) : s[m] = s[n] => m = n
    BY OnceFacts
  <1>1. PICK kept : /\ kept[0] = <<>>
                    /\ \A n \in 1..Len(s) : kept[n] = IF s[n] \in S THEN kept[n - 1]
                                                      ELSE Append(kept[n - 1], s[n])
                    /\ Unlinked(s, S) = kept[Len(s)]
    BY <1>0, UnlinkedDefined
  <1> DEFINE Once(p, n) == /\ p \in Seq(F)
                           /\ \A x \in F : (\E i \in 1..Len(p) : p[i] = x)
                                               <=> \E i \in 1..n : s[i] = x
                           /\ \A i, j \in 1..Len(p) : p[i] = p[j] => i = j
             Good(n) == Once(kept[n], n)
             T == {n \in 0..Len(s) : Good(n)}
  <1>2. 0 \in T
    <2>1. kept[0] = <<>>
      BY <1>1
    <2>2. Len(<<>>) = 0 /\ 1..0 = {} /\ <<>> \in Seq(F) /\ 0 \in 0..Len(s)
      BY <1>0
    <2>3. Good(0)
      BY <2>1, <2>2
    <2> HIDE DEF Good
    <2> QED BY <2>2, <2>3
  <1>3. ASSUME NEW n \in 0..Len(s), n < Len(s), n \in T
        PROVE  n + 1 \in T
    <2>1. n + 1 \in 1..Len(s) /\ n + 1 \in 0..Len(s) /\ (n + 1) - 1 = n /\ n + 1 # 0
      BY <1>0, <1>3
    <2>2. Good(n)
      BY <1>3
    <2>3. CASE s[n + 1] \in S
      <3>1. kept[n + 1] = kept[n]
        BY <1>1, <2>1, <2>3
      <3>2. \A x \in F : (\E i \in 1..n : s[i] = x) <=> \E i \in 1..(n + 1) : s[i] = x
        BY <2>1, <2>3
      <3>3. Once(kept[n], n + 1)
        BY <2>2, <3>2
      <3> HIDE DEF Once
      <3> QED BY <2>1, <3>1, <3>3
    <2>4. CASE s[n + 1] \notin S
      <3> DEFINE p == kept[n]
                 e == s[n + 1]
      <3>1. kept[n + 1] = Append(p, e) /\ e \in F
        BY <1>0, <1>1, <2>1, <2>4
      <3>2. \A i \in 1..n : s[i] # e
        BY <1>0, <2>1
      <3>3. p \in Seq(F) /\ Append(p, e) \in Seq(F) /\ Len(Append(p, e)) = Len(p) + 1
            /\ \A i \in 1..(Len(p) + 1) : Append(p, e)[i] = IF i = Len(p) + 1 THEN e ELSE p[i]
        BY <2>2, <3>1
      <3>4. \A i \in 1..Len(p) : p[i] # e
        BY <3>1, <3>2, <2>2
      <3> HIDE DEF p, e
      <3>5. \A x \in F : (\E i \in 1..Len(Append(p, e)) : Append(p, e)[i] = x)
                            <=> \E i \in 1..(n + 1) : s[i] = x
        <4>1. \A x \in F : (\E i \in 1..(n + 1) : s[i] = x) <=> x = e \/ \E i \in 1..n : s[i] = x
          BY <2>1 DEF e
        <4>2. \A x \in F : (\E i \in 1..Len(Append(p, e)) : Append(p, e)[i] = x)
                            <=> x = e \/ \E i \in 1..Len(p) : p[i] = x
          BY <3>3
        <4>3. \A x \in F : (\E i \in 1..Len(p) : p[i] = x) <=> \E i \in 1..n : s[i] = x
          BY <2>2 DEF p
        <4> QED BY <4>1, <4>2, <4>3
      <3>6. \A i, j \in 1..Len(p) : p[i] = p[j] => i = j
        BY <2>2 DEF p
      <3>7. \A i, j \in 1..Len(Append(p, e)) : Append(p, e)[i] = Append(p, e)[j] => i = j
        BY <3>3, <3>4, <3>6
      <3>8. Once(Append(p, e), n + 1)
        BY <3>3, <3>5, <3>7
      <3> HIDE DEF Once
      <3> QED BY <3>1, <3>8, <2>1
    <2> QED BY <2>3, <2>4
  <1>4. Good(Len(s))
    <2> HIDE DEF Good, T
    <2>1. \A k \in 0..Len(s) : k \in T
      BY <1>0, <1>2, <1>3, UpTo
    <2> QED BY <2>1, <1>0 DEF T
  <1>5. \A x \in F : \E i \in 1..Len(s) : s[i] = x
    BY <1>0
  <1> QED BY <1>1, <1>4, <1>5 DEF OnceEach

\* A new key at the back.
LEMMA AppendOnce ==
    ASSUME NEW K, NEW s, OnceEach(s, K), NEW x, x \notin K
    PROVE  OnceEach(Append(s, x), K \cup {x})
  <1> DEFINE t == Append(s, x)
             N == Len(s)
  <1>1. /\ N \in Nat
        /\ \A n \in 1..N : s[n] \in K
        /\ \A y \in K : \E n \in 1..N : s[n] = y
        /\ \A m, n \in 1..N : s[m] = s[n] => m = n
    BY OnceFacts
  <1>2. s \in Seq(K)
    BY OnceFacts
  <1>3. t \in Seq(K \cup {x}) /\ Len(t) = N + 1
    BY <1>2
  <1>4. t[N + 1] = x /\ \A n \in 1..N : t[n] = s[n]
    BY <1>2
  <1> HIDE DEF t, N
  <1>5. \A y \in K \cup {x} : \E n \in 1..(N + 1) : t[n] = y
    BY <1>1, <1>4
  <1>6. \A m, n \in 1..(N + 1) : t[m] = t[n] => m = n
    <2>1. \A n \in 1..N : t[n] # x
      BY <1>1, <1>4
    <2>2. \A n \in 1..(N + 1) : n \in 1..N \/ n = N + 1
      BY <1>1
    <2> QED BY <1>1, <1>4, <2>1, <2>2
  <1> QED BY <1>3, <1>5, <1>6 DEF OnceEach, t

\* Making a key the most recently used one.
LEMMA MovedOnce ==
    ASSUME NEW K, NEW s, OnceEach(s, K), NEW x
    PROVE  OnceEach(MovedToBack(s, x), K \cup {x})
  <1>1. OnceEach(Unlinked(s, {x}), K \ {x})
    BY UnlinkedOnce
  <1>2. OnceEach(Append(Unlinked(s, {x}), x), (K \ {x}) \cup {x})
    BY <1>1, AppendOnce
  <1>3. (K \ {x}) \cup {x} = K \cup {x}
    OBVIOUS
  <1> QED BY <1>2, <1>3 DEF MovedToBack

\* Dropping the n least recently used keys.
LEMMA SuffixOnce ==
    ASSUME NEW K, NEW s, OnceEach(s, K), NEW n \in 0..Len(s)
    PROVE  OnceEach(SubSeq(s, n + 1, Len(s)), K \ {s[i] : i \in 1..n})
  <1> DEFINE t == SubSeq(s, n + 1, Len(s))
             N == Len(s)
             G == K \ {s[i] : i \in 1..n}
  <1>1. /\ N \in Nat /\ n \in 0..N
        /\ \A i \in 1..N : s[i] \in K
        /\ \A y \in K : \E i \in 1..N : s[i] = y
        /\ \A i, j \in 1..N : s[i] = s[j] => i = j
    BY OnceFacts
  <1>2. s \in Seq(K)
    BY OnceFacts
  <1>3. t \in Seq(K) /\ Len(t) = N - n
    BY <1>1, <1>2
  <1>4. \A i \in 1..(N - n) : t[i] = s[n + i]
    BY <1>1, <1>2
  <1> HIDE DEF t, N
  <1>5. \A i \in 1..(N - n) : n + i \in 1..N
    BY <1>1
  <1>6. \A i \in 1..(N - n), j \in 1..n : n + i # j /\ j \in 1..N
    BY <1>1
  <1>7. \A i \in 1..(N - n) : t[i] \in G
    BY <1>1, <1>4, <1>5, <1>6
  <1>8. t \in Seq(G)
    BY <1>3, <1>7
  <1>9. ASSUME NEW x \in G PROVE \E i \in 1..(N - n) : t[i] = x
    <2>1. PICK i \in 1..N : s[i] = x
      BY <1>1
    <2>2. i - n \in 1..(N - n) /\ n + (i - n) = i
      BY <1>1, <2>1
    <2> QED BY <2>1, <2>2, <1>4
  <1>10. \A i, j \in 1..(N - n) : t[i] = t[j] => i = j
    <2>1. \A i, j \in 1..(N - n) : n + i = n + j => i = j
      BY <1>1
    <2> QED BY <2>1, <1>1, <1>4, <1>5
  <1> HIDE DEF G
  <1>11. OnceEach(t, G)
    BY <1>3, <1>8, <1>9, <1>10 DEF OnceEach
  <1> QED BY <1>11 DEF t, G

\* Dropping the least recently used key.
LEMMA TailOnce ==
    ASSUME NEW K, NEW s, OnceEach(s, K), K # {}
    PROVE  Head(s) \in K /\ OnceEach(Tail(s), K \ {Head(s)})
  <1>1. s \in Seq(K) /\ Len(s) \in Nat /\ 1 \in 1..Len(s) /\ 1 \in 0..Len(s)
    BY OnceFacts
  <1>2. Tail(s) = SubSeq(s, 1 + 1, Len(s)) /\ Head(s) = s[1] /\ s[1] \in K
    BY <1>1
  <1>3. {s[i] : i \in 1..1} = {s[1]}
    OBVIOUS
  <1>4. OnceEach(SubSeq(s, 1 + 1, Len(s)), K \ {s[i] : i \in 1..1})
    BY <1>1, SuffixOnce
  <1> QED BY <1>2, <1>3, <1>4

\* The list is as long as the set is large.
LEMMA OnceLength ==
    ASSUME NEW K, NEW s, OnceEach(s, K)
    PROVE  IsFiniteSet(K) /\ Cardinality(K) = Len(s)
  <1>0. /\ s \in Seq(K) /\ Len(s) \in Nat
        /\ \A i \in 1..Len(s) : s[i] \in K
        /\ \A y \in K : \E i \in 1..Len(s) : s[i] = y
        /\ \A i, j \in 1..Len(s) : s[i] = s[j] => i = j
    BY OnceFacts
  <1>1. s \in [1..Len(s) -> K]
    BY <1>0
  <1>2. s \in Bijection(1..Len(s), K)
    BY <1>0, <1>1 DEF Bijection, Injection, Surjection, IsInjective
  <1>3. IsFiniteSet(1..Len(s)) /\ Cardinality(1..Len(s)) = Len(s)
    <2>1. Len(s) \in Int /\ 1 \in Int /\ Len(s) = IF 1 > Len(s) THEN 0 ELSE Len(s) - 1 + 1
      BY <1>0
    <2> QED BY <2>1, FS_Interval
  <1>4. IsFiniteSet(K) /\ Cardinality(K) = Cardinality(1..Len(s))
    BY <1>2, <1>3, FS_Bijection DEF ExistsBijection
  <1> QED BY <1>3, <1>4
=============================================================================
