----------------------------- MODULE FlowProofs -----------------------------
(***************************************************************************)
(* Proofs about what becomes of a flow.  Routing: for any labels, depth of *)
(* names, width of addresses and number of rules.  TcpRelay: for any       *)
(* finite set of connections and any number of slots; what one             *)
(* connection's record may look like is ConnOK, and the slots are counted  *)
(* by the set of handlers.                                                 *)
(***************************************************************************)
EXTENDS Routing, TcpRelay, RecencyProofs

\* The values of a recursion over 0..n from a, with the step G[k] at k.
Unrolls(f, n, A, a, G) ==
    f \in [0..n -> A] /\ f[0] = a /\ \A k \in 1..n : f[k] = G[k][f[k - 1]]

\* Such a recursion is defined.
LEMMA Iterated ==
    ASSUME NEW n \in Nat, NEW A, NEW a \in A, NEW G \in [1..n -> [A -> A]]
    PROVE  \E f : Unrolls(f, n, A, a, G)
  <1> DEFINE Good(m, f) == /\ f \in [0..n -> A] /\ f[0] = a
                           /\ \A k \in 1..m : f[k] = G[k][f[k - 1]]
             T == {m \in 0..n : \E f : Good(m, f)}
  <1>1. 0 \in T
    <2>1. Good(0, [k \in 0..n |-> a])
      OBVIOUS
    <2> HIDE DEF Good
    <2> QED BY <2>1
  <1>2. ASSUME NEW m \in 0..n, m < n, m \in T
        PROVE  m + 1 \in T
    <2>1. PICK f : Good(m, f)
      BY <1>2
    <2> DEFINE g == [f EXCEPT ![m + 1] = G[m + 1][f[m]]]
    <2>2. m + 1 \in 1..n /\ m + 1 \in 0..n /\ m \in 0..n
      BY <1>2
    <2>3. G[m + 1][f[m]] \in A
      BY <2>1, <2>2
    <2>4. g \in [0..n -> A] /\ g[m + 1] = G[m + 1][f[m]]
          /\ \A k \in 0..n : k # m + 1 => g[k] = f[k]
      BY <2>1, <2>2, <2>3
    <2>5. ASSUME NEW k \in 1..(m + 1) PROVE g[k] = G[k][g[k - 1]]
      <3> HIDE DEF g
      <3>1. k - 1 \in 0..n /\ k - 1 # m + 1 /\ k \in 0..n
        BY <2>2
      <3>2. g[k - 1] = f[k - 1]
        BY <2>4, <3>1
      <3>3. CASE k = m + 1
        BY <2>4, <3>2, <3>3
      <3>4. CASE k # m + 1
        <4>1. k \in 1..m
          BY <3>4
        <4> QED BY <2>1, <2>4, <3>1, <3>2, <3>4, <4>1
      <3> QED BY <3>3, <3>4
    <2>6. g[0] = a
      BY <2>1, <2>2, <2>4
    <2>7. Good(m + 1, g)
      BY <2>4, <2>5, <2>6
    <2> QED BY <2>2, <2>7, Zenon
  <1> HIDE DEF T
  <1>3. \A k \in 0..n : k \in T
    BY <1>1, <1>2, UpTo, Zenon
  <1>4. n \in T
    BY <1>3
  <1> QED BY <1>4 DEF T, Unrolls

\* Paths and their prefixes.
LEMMA PathFacts ==
    ASSUME NEW S, NEW n \in Nat, NEW p \in Paths(S, n)
    PROVE  /\ p \in Seq(S) /\ Len(p) \in 0..n
           /\ SubSeq(p, 1, 0) = <<>> /\ SubSeq(p, 1, Len(p)) = p
           /\ \A k \in 0..Len(p) :
                /\ SubSeq(p, 1, k) \in Paths(S, n) /\ Len(SubSeq(p, 1, k)) = k
                /\ \A j \in 0..k : SubSeq(SubSeq(p, 1, k), 1, j) = SubSeq(p, 1, j)
  <1>1. PICK m \in 0..n : p \in [1..m -> S]
    BY DEF Paths
  <1>2. p \in Seq(S) /\ Len(p) = m
    BY <1>1
  <1>3. SubSeq(p, 1, 0) = <<>>
    BY <1>2
  <1>4. SubSeq(p, 1, Len(p)) = p
    BY <1>2
  <1>5. ASSUME NEW k \in 0..Len(p)
        PROVE  /\ SubSeq(p, 1, k) \in Paths(S, n) /\ Len(SubSeq(p, 1, k)) = k
               /\ \A j \in 0..k : SubSeq(SubSeq(p, 1, k), 1, j) = SubSeq(p, 1, j)
    <2> DEFINE q == SubSeq(p, 1, k)
    <2>1. q = [i \in 1..k |-> p[i]]
      BY <1>2
    <2> HIDE DEF q
    <2>2. q \in [1..k -> S] /\ k \in 0..n /\ \A i \in 1..k : q[i] = p[i]
      BY <1>1, <1>2, <2>1
    <2>3. q \in Seq(S) /\ Len(q) = k
      BY <2>2
    <2>4. q \in Paths(S, n)
      BY <2>2 DEF Paths
    <2>5. ASSUME NEW j \in 0..k PROVE SubSeq(q, 1, j) = SubSeq(p, 1, j)
      <3>1. SubSeq(q, 1, j) = [i \in 1..j |-> q[i]]
        BY <2>3
      <3>2. SubSeq(p, 1, j) = [i \in 1..j |-> p[i]]
        BY <1>2
      <3>3. \A i \in 1..j : q[i] = p[i]
        BY <2>2
      <3> QED BY <3>1, <3>2, <3>3
    <2> QED BY <2>3, <2>4, <2>5 DEF q
  <1> QED BY <1>2, <1>3, <1>4, <1>5

-----------------------------------------------------------------------------
Verdicts == RuleActions \cup {"unknown"}

\* Joining sets of rules joins their verdicts the way selectAction does.
LEMMA VerdictFacts ==
    ASSUME NEW S, \A r \in S : r.action \in RuleActions
    PROVE  /\ Verdict(S) \in Verdicts
           /\ Verdict(S) = "unknown" <=> S = {}
           /\ Verdict(S) = "proxy" <=> \E r \in S : r.action = "proxy"
  BY DEF Verdict, Verdicts, RuleActions

LEMMA VerdictUnion ==
    ASSUME NEW S, \A r \in S : r.action \in RuleActions,
           NEW U, \A r \in U : r.action \in RuleActions
    PROVE  Verdict(S \cup U) = selectAction(Verdict(S), Verdict(U))
  <1>1. CASE \E r \in S \cup U : r.action = "proxy"
    BY <1>1 DEF Verdict, selectAction
  <1>2. CASE ~\E r \in S \cup U : r.action = "proxy"
    <2>1. CASE U = {}
      <3>1. S \cup U = S /\ Verdict(U) = "unknown" /\ Verdict(S) # "proxy"
        BY <1>2, <2>1 DEF Verdict
      <3> QED BY <3>1 DEF selectAction
    <2>2. CASE U # {}
      <3>1. Verdict(U) = "direct" /\ Verdict(S) # "proxy" /\ Verdict(S \cup U) = "direct"
        BY <1>2, <2>2 DEF Verdict
      <3> QED BY <3>1 DEF selectAction
    <2> QED BY <2>1, <2>2
  <1> QED BY <1>1, <1>2

LEMMA VerdictPlus ==
    ASSUME NEW S, \A q \in S : q.action \in RuleActions, NEW r, r.action \in RuleActions
    PROVE  Verdict(S \cup {r}) = selectAction(Verdict(S), r.action)
  <1>1. Verdict({r}) = r.action
    BY DEF Verdict, RuleActions
  <1>2. \A q \in {r} : q.action \in RuleActions
    OBVIOUS
  <1> DEFINE U == {r}
  <1> HIDE DEF U
  <1>3. Verdict(S \cup U) = selectAction(Verdict(S), Verdict(U))
    BY <1>2, VerdictUnion DEF U
  <1> QED BY <1>1, <1>3 DEF U

LEMMA SelectFacts ==
    ASSUME NEW a \in Verdicts, NEW b \in Verdicts
    PROVE  selectAction(a, b) \in Verdicts /\ selectAction(a, "unknown") = a
  BY DEF selectAction, Verdicts, RuleActions

\* The walk of domainTree.match, label by label.
DomainWalkOf(w, tree, name) ==
    /\ w \in [0..Len(name) -> Verdicts]
    /\ w[0] = "unknown"
    /\ \A k \in 1..Len(name) :
         w[k] = IF SubSeq(name, 1, k) \notin DOMAIN tree THEN w[k - 1]
                ELSE selectAction(selectAction(w[k - 1], tree[SubSeq(name, 1, k)].suffix),
                         IF k = Len(name) THEN tree[SubSeq(name, 1, k)].exact ELSE "unknown")
    /\ MatchDomain(tree, name) = w[Len(name)]

LEMMA DomainWalk ==
    ASSUME NEW tree, NEW name, Len(name) \in Nat,
           \A p \in DOMAIN tree : tree[p].suffix \in Verdicts /\ tree[p].exact \in Verdicts
    PROVE  \E w : DomainWalkOf(w, tree, name)
  <1> DEFINE N == Len(name)
             At(k) == SubSeq(name, 1, k)
             Step(k, v) == IF At(k) \notin DOMAIN tree THEN v
                           ELSE selectAction(selectAction(v, tree[At(k)].suffix),
                                             IF k = N THEN tree[At(k)].exact ELSE "unknown")
             G == [k \in 1..N |-> [v \in Verdicts |-> Step(k, v)]]
             Eqn(w) == w = [k \in 0..N |-> IF k = 0 THEN "unknown" ELSE Step(k, w[k - 1])]
  <1>1. "unknown" \in Verdicts
    BY DEF Verdicts
  <1>2. ASSUME NEW k \in 1..N, NEW v \in Verdicts PROVE Step(k, v) \in Verdicts
    BY <1>1, SelectFacts
  <1>3. MatchDomain(tree, name) = (CHOOSE w : Eqn(w))[N]
    BY DEF MatchDomain
  <1> HIDE DEF Step
  <1>4. G \in [1..N -> [Verdicts -> Verdicts]]
    BY <1>2
  <1>5. PICK f \in [0..N -> Verdicts] : f[0] = "unknown" /\ \A k \in 1..N : f[k] = G[k][f[k - 1]]
    <2>1. N \in Nat
      OBVIOUS
    <2> HIDE DEF G, N
    <2>2. \E f : Unrolls(f, N, Verdicts, "unknown", G)
      BY <1>1, <1>4, <2>1, Iterated
    <2> QED BY <2>2, Zenon DEF Unrolls
  <1>6. \A k \in 1..N : k - 1 \in 0..N /\ f[k - 1] \in Verdicts
    <2>1. \A k \in 1..N : k - 1 \in 0..N
      OBVIOUS
    <2> QED BY <1>5, <2>1
  <1>7. \A k \in 1..N : f[k] = Step(k, f[k - 1])
    BY <1>5, <1>6, Zenon
  <1> HIDE DEF N
  <1>8. N \in Nat
    BY DEF N
  <1>9. Eqn(f)
    <2>1. \A k \in 0..N : k = 0 \/ k \in 1..N
      BY <1>8
    <2>2. \A k \in 0..N : f[k] = IF k = 0 THEN "unknown" ELSE Step(k, f[k - 1])
      BY <1>5, <1>7, <2>1
    <2> QED BY <1>5, <2>2, Zenon
  <1> DEFINE w == CHOOSE u : Eqn(u)
  <1>10. Eqn(w)
    <2> HIDE DEF Eqn
    <2> QED BY <1>9
  <1> HIDE DEF w
  <1>11. w[0] = "unknown" /\ \A k \in 1..N : w[k] = Step(k, w[k - 1])
    <2>1. 0 \in 0..N /\ \A k \in 1..N : k \in 0..N /\ k # 0
      BY <1>8
    <2> QED BY <1>10, <2>1, Zenon
  <1>12. w \in [0..N -> Verdicts]
    <2> DEFINE T == {k \in 0..N : w[k] \in Verdicts}
    <2>1. 0 \in T
      BY <1>1, <1>8, <1>11
    <2>2. ASSUME NEW k \in 0..N, k < N, k \in T PROVE k + 1 \in T
      <3>1. k + 1 \in 1..N /\ k + 1 \in 0..N /\ (k + 1) - 1 = k
        BY <1>8, <2>2
      <3>2. w[k + 1] = Step(k + 1, w[k]) /\ w[k] \in Verdicts
        BY <1>11, <2>2, <3>1
      <3>3. w[k + 1] \in Verdicts
        BY <1>2, <3>1, <3>2
      <3> QED BY <3>1, <3>3
    <2> HIDE DEF T
    <2>3. \A k \in 0..N : k \in T
      BY <1>8, <2>1, <2>2, UpTo
    <2>4. \A k \in 0..N : w[k] \in Verdicts
      BY <2>3 DEF T
    <2> QED BY <1>10, <2>4
  <1>13. MatchDomain(tree, name) = w[N]
    BY <1>3 DEF w
  <1>14. DomainWalkOf(w, tree, name)
    BY <1>11, <1>12, <1>13 DEF N, Step, DomainWalkOf
  <1> QED BY <1>14, Zenon

\* The walk of ipv4Tree.match, bit by bit.
PrefixWalkOf(w, tree, addr) ==
    /\ w \in [0..Width -> Verdicts]
    /\ w[0] = tree[<<>>]
    /\ \A k \in 1..Width :
         w[k] = IF SubSeq(addr, 1, k) \in DOMAIN tree /\ tree[SubSeq(addr, 1, k)] # "unknown"
                THEN tree[SubSeq(addr, 1, k)] ELSE w[k - 1]
    /\ MatchIPv4(tree, addr) = w[Width]

LEMMA PrefixWalk ==
    ASSUME NEW tree, NEW addr, <<>> \in DOMAIN tree, \A p \in DOMAIN tree : tree[p] \in Verdicts
    PROVE  \E w : PrefixWalkOf(w, tree, addr)
  <1> DEFINE At(k) == SubSeq(addr, 1, k)
             Step(k, v) == IF At(k) \in DOMAIN tree /\ tree[At(k)] # "unknown" THEN tree[At(k)] ELSE v
             G == [k \in 1..Width |-> [v \in Verdicts |-> Step(k, v)]]
             root == tree[<<>>]
             Eqn(w) == w = [k \in 0..Width |-> IF k = 0 THEN root ELSE Step(k, w[k - 1])]
  <1>0. Width \in Nat
    BY RoutingAssumption
  <1>1. root \in Verdicts
    OBVIOUS
  <1>2. ASSUME NEW k \in 1..Width, NEW v \in Verdicts PROVE Step(k, v) \in Verdicts
    OBVIOUS
  <1>3. MatchIPv4(tree, addr) = (CHOOSE w : Eqn(w))[Width]
    BY DEF MatchIPv4
  <1> HIDE DEF Step, root
  <1>4. G \in [1..Width -> [Verdicts -> Verdicts]]
    BY <1>2
  <1>5. PICK f \in [0..Width -> Verdicts] : f[0] = root /\ \A k \in 1..Width : f[k] = G[k][f[k - 1]]
    <2> HIDE DEF G
    <2>2. \E f : Unrolls(f, Width, Verdicts, root, G)
      BY <1>0, <1>1, <1>4, Iterated
    <2> QED BY <2>2, Zenon DEF Unrolls
  <1>6. \A k \in 1..Width : k - 1 \in 0..Width /\ f[k - 1] \in Verdicts
    <2>1. \A k \in 1..Width : k - 1 \in 0..Width
      BY <1>0
    <2> QED BY <1>5, <2>1
  <1>7. \A k \in 1..Width : f[k] = Step(k, f[k - 1])
    BY <1>5, <1>6, Zenon
  <1>9. Eqn(f)
    <2>1. \A k \in 0..Width : k = 0 \/ k \in 1..Width
      BY <1>0
    <2>2. \A k \in 0..Width : f[k] = IF k = 0 THEN root ELSE Step(k, f[k - 1])
      BY <1>5, <1>7, <2>1
    <2> QED BY <1>5, <2>2
  <1> DEFINE w == CHOOSE u : Eqn(u)
  <1>10. Eqn(w)
    <2> HIDE DEF Eqn
    <2> QED BY <1>9
  <1> HIDE DEF w
  <1>11. w[0] = root /\ \A k \in 1..Width : w[k] = Step(k, w[k - 1])
    <2>1. 0 \in 0..Width /\ \A k \in 1..Width : k \in 0..Width /\ k # 0
      BY <1>0
    <2> QED BY <1>10, <2>1, Zenon
  <1>12. w \in [0..Width -> Verdicts]
    <2> DEFINE T == {k \in 0..Width : w[k] \in Verdicts}
    <2>1. 0 \in T
      BY <1>0, <1>1, <1>11
    <2>2. ASSUME NEW k \in 0..Width, k < Width, k \in T PROVE k + 1 \in T
      <3>1. k + 1 \in 1..Width /\ k + 1 \in 0..Width /\ (k + 1) - 1 = k
        BY <1>0, <2>2
      <3>2. w[k + 1] = Step(k + 1, w[k]) /\ w[k] \in Verdicts
        BY <1>11, <2>2, <3>1
      <3>3. w[k + 1] \in Verdicts
        BY <1>2, <3>1, <3>2
      <3> QED BY <3>1, <3>3
    <2> HIDE DEF T
    <2>3. \A k \in 0..Width : k \in T
      BY <1>0, <2>1, <2>2, UpTo, Zenon
    <2>4. \A k \in 0..Width : w[k] \in Verdicts
      BY <2>3 DEF T
    <2> QED BY <1>10, <2>4
  <1>13. MatchIPv4(tree, addr) = w[Width]
    BY <1>3 DEF w
  <1>14. PrefixWalkOf(w, tree, addr)
    BY <1>11, <1>12, <1>13 DEF root, Step, PrefixWalkOf
  <1> QED BY <1>14, Zenon
-----------------------------------------------------------------------------
DomainTrees == {"explicitDomains", "chinaDomains"}
PrefixTrees == {"explicitIPv4", "chinaIPv4"}

\* The rules a classifier is built from.
RulesOK(R) == \A r \in R :
    /\ r.action \in RuleActions /\ r.exact \in BOOLEAN
    /\ r.tree \in DomainTrees => r.path \in Names
    /\ r.tree \in PrefixTrees => r.path \in Prefixes
    /\ r.tree = "chinaIPv4" => r.action = "direct"

SuffixRulesAt(R, T, p) == {r \in R : r.tree = T /\ r.path = p /\ ~r.exact}
ExactRulesAt(R, T, p) == {r \in R : r.tree = T /\ r.path = p /\ r.exact}
PrefixRulesAt(R, T, p) == {r \in R : r.tree = T /\ r.path = p}

\* What a tree holds for the rules added to it: a node for every rule and its
\* parents, with the verdict of the rules of that very path.
DomainTreeOK(tree, T, R) ==
    /\ DOMAIN tree \subseteq Paths(Labels, Depth)
    /\ tree \in [DOMAIN tree -> [suffix : Verdicts, exact : Verdicts]]
    /\ \A p \in DOMAIN tree : \A k \in 0..Len(p) : SubSeq(p, 1, k) \in DOMAIN tree
    /\ \A r \in R : r.tree = T => r.path \in DOMAIN tree
    /\ \A p \in DOMAIN tree : /\ tree[p].suffix = Verdict(SuffixRulesAt(R, T, p))
                              /\ tree[p].exact = Verdict(ExactRulesAt(R, T, p))

PrefixTreeOK(tree, T, R) ==
    /\ <<>> \in DOMAIN tree
    /\ DOMAIN tree \subseteq Prefixes
    /\ tree \in [DOMAIN tree -> Verdicts]
    /\ \A p \in DOMAIN tree : \A k \in 0..Len(p) : SubSeq(p, 1, k) \in DOMAIN tree
    /\ \A r \in R : r.tree = T => r.path \in DOMAIN tree
    /\ \A p \in DOMAIN tree : tree[p] = Verdict(PrefixRulesAt(R, T, p))

NameRules(R, T, name) ==
    {r \in R : r.tree = T /\ IF r.exact THEN r.path = name ELSE IsPrefixOf(r.path, name)}

\* domainTree.match gives the verdict of the rules on the name and its parents.
LEMMA MatchDomainCorrect ==
    ASSUME NEW R, RulesOK(R), NEW T \in DomainTrees, NEW tree, DomainTreeOK(tree, T, R),
           NEW name \in Names
    PROVE  MatchDomain(tree, name) = Verdict(NameRules(R, T, name))
  <1> DEFINE N == Len(name)
             At(k) == SubSeq(name, 1, k)
             Below(k) == {r \in R : /\ r.tree = T /\ IsPrefixOf(r.path, name) /\ Len(r.path) <= k
                                    /\ r.exact => k = N /\ r.path = name}
  <1>1. /\ name \in Paths(Labels, Depth) /\ name # <<>> /\ N \in Nat /\ N # 0 /\ At(N) = name
        /\ \A k \in 0..N : At(k) \in Paths(Labels, Depth) /\ Len(At(k)) = k
    <2>1. name \in Paths(Labels, Depth) /\ name # <<>> /\ Depth \in Nat
      BY RoutingAssumption DEF Names
    <2>2. /\ name \in Seq(Labels) /\ Len(name) \in 0..Depth /\ SubSeq(name, 1, Len(name)) = name
          /\ \A k \in 0..Len(name) : /\ SubSeq(name, 1, k) \in Paths(Labels, Depth)
                                     /\ Len(SubSeq(name, 1, k)) = k
      BY <2>1, PathFacts
    <2>3. Len(name) # 0
      BY <2>1, <2>2
    <2> QED BY <2>1, <2>2, <2>3
  <1>2. \A r \in R : r.tree = T => /\ r.action \in RuleActions /\ r.exact \in BOOLEAN
                                   /\ r.path \in Names /\ Len(r.path) \in Nat /\ Len(r.path) # 0
    <2>1. ASSUME NEW r \in R, r.tree = T
          PROVE  /\ r.action \in RuleActions /\ r.exact \in BOOLEAN
                 /\ r.path \in Names
      BY <2>1 DEF RulesOK
    <2>2. ASSUME NEW p \in Names PROVE Len(p) \in Nat /\ Len(p) # 0
      <3>1. p \in Paths(Labels, Depth) /\ p # <<>> /\ Depth \in Nat
        BY RoutingAssumption DEF Names
      <3>2. p \in Seq(Labels) /\ Len(p) \in 0..Depth
        BY <3>1, PathFacts
      <3> QED BY <3>1, <3>2
    <2> QED BY <2>1, <2>2
  <1>3. PICK w : DomainWalkOf(w, tree, name)
    <2>1. \A p \in DOMAIN tree : tree[p].suffix \in Verdicts /\ tree[p].exact \in Verdicts
      BY DEF DomainTreeOK
    <2> QED BY <1>1, <2>1, DomainWalk, Zenon
  <1>walk. /\ w \in [0..N -> Verdicts] /\ w[0] = "unknown" /\ MatchDomain(tree, name) = w[N]
           /\ \A k \in 1..N :
                w[k] = IF At(k) \notin DOMAIN tree THEN w[k - 1]
                       ELSE selectAction(selectAction(w[k - 1], tree[At(k)].suffix),
                                IF k = N THEN tree[At(k)].exact ELSE "unknown")
    BY <1>3, Zenon DEF DomainWalkOf
  <1> DEFINE U == {k \in 0..N : w[k] = Verdict(Below(k))}
  <1> HIDE DEF N, At
  <1>4. 0 \in U
    <2>1. Below(0) = {}
      BY <1>1, <1>2
    <2> QED BY <1>1, <1>walk, <2>1 DEF Verdict
  <1>5. ASSUME NEW j \in 0..N, j < N, j \in U PROVE j + 1 \in U
    <2> DEFINE k == j + 1
               p == At(k)
               S == SuffixRulesAt(R, T, p)
               E == IF k = N THEN ExactRulesAt(R, T, p) ELSE {}
    <2>1. k \in 1..N /\ k \in 0..N /\ k - 1 = j /\ w[j] = Verdict(Below(j)) /\ k \in Nat
      BY <1>1, <1>5
    <2>2. Below(k) = (Below(j) \cup S) \cup E
      <3>1. p = SubSeq(name, 1, k) /\ Len(p) = k /\ (k = N => p = name)
        BY <1>1, <2>1 DEF At
      <3>2. ASSUME NEW q, Len(q) \in Nat
            PROVE  IsPrefixOf(q, name) /\ Len(q) <= k <=> (IsPrefixOf(q, name) /\ Len(q) <= j) \/ q = p
        <4>1. CASE Len(q) = k
          <5> HIDE DEF k, p
          <5>1. IsPrefixOf(q, name) <=> k <= N /\ q = SubSeq(name, 1, k)
            BY <4>1 DEF IsPrefixOf, N
          <5>2. IsPrefixOf(q, name) <=> q = p
            BY <1>1, <2>1, <3>1, <5>1
          <5>3. ~(Len(q) <= j) /\ Len(q) <= k
            BY <2>1, <4>1
          <5> QED BY <5>2, <5>3
        <4>2. CASE Len(q) # k
          <5>1. q # p /\ (Len(q) <= k <=> Len(q) <= j)
            BY <2>1, <3>1, <3>2, <4>2
          <5> QED BY <5>1
        <4> QED BY <4>1, <4>2
      <3>3. ASSUME NEW r \in R, r.tree = T
            PROVE  r \in Below(k) <=> r \in (Below(j) \cup S) \cup E
        <4>1. r.exact \in BOOLEAN /\ Len(r.path) \in Nat
          BY <1>2, <3>3
        <4>2. CASE r.exact
          <5>1. r \notin Below(j) /\ r \notin S
            BY <1>5, <4>2 DEF SuffixRulesAt, ExactRulesAt
          <5>2. r \in Below(k) <=> k = N /\ r.path = name /\ IsPrefixOf(r.path, name) /\ Len(r.path) <= k
            BY <3>3, <4>2
          <5>3. r \in E <=> k = N /\ r.path = p
            BY <3>3, <4>1, <4>2 DEF SuffixRulesAt, ExactRulesAt
          <5> QED BY <3>1, <3>2, <4>1, <5>1, <5>2, <5>3
        <4>3. CASE ~r.exact
          <5>1. r \notin E /\ (r \in S <=> r.path = p)
            BY <3>3, <4>1, <4>3 DEF SuffixRulesAt, ExactRulesAt
          <5>2. /\ r \in Below(k) <=> IsPrefixOf(r.path, name) /\ Len(r.path) <= k
                /\ r \in Below(j) <=> IsPrefixOf(r.path, name) /\ Len(r.path) <= j
            BY <3>3, <4>3
          <5> QED BY <3>2, <4>1, <5>1, <5>2
        <4> QED BY <4>1, <4>2, <4>3
      <3>4. Below(k) \subseteq R /\ (Below(j) \cup S) \cup E \subseteq R
            /\ \A r \in Below(k) \cup ((Below(j) \cup S) \cup E) : r.tree = T
        BY DEF SuffixRulesAt, ExactRulesAt
      <3> HIDE DEF Below, S, E
      <3> QED BY <3>3, <3>4
    <2>3. /\ \A r \in Below(j) : r.action \in RuleActions
          /\ \A r \in S : r.action \in RuleActions
          /\ \A r \in E : r.action \in RuleActions
      BY <1>2 DEF SuffixRulesAt, ExactRulesAt
    <2> HIDE DEF Below
    <2>4. Verdict(Below(k)) = selectAction(selectAction(Verdict(Below(j)), Verdict(S)), Verdict(E))
      <3> HIDE DEF S, E
      <3>1. Verdict(Below(j) \cup S) = selectAction(Verdict(Below(j)), Verdict(S))
        BY <2>3, VerdictUnion
      <3>2. Verdict((Below(j) \cup S) \cup E) = selectAction(Verdict(Below(j) \cup S), Verdict(E))
        BY <2>3, VerdictUnion
      <3> QED BY <2>2, <3>1, <3>2, Zenon
    <2>5. w[k] = Verdict(Below(k))
      <3>1. CASE p \in DOMAIN tree
        <4>1. /\ tree[p].suffix = Verdict(S) /\ tree[p].exact = Verdict(ExactRulesAt(R, T, p))
          BY <3>1 DEF DomainTreeOK
        <4>2. Verdict({}) = "unknown"
          BY DEF Verdict
        <4>3. Verdict(E) = IF k = N THEN tree[p].exact ELSE "unknown"
          BY <4>1, <4>2
        <4> QED BY <1>walk, <2>1, <2>4, <3>1, <4>1, <4>3
      <3>2. CASE p \notin DOMAIN tree
        <4>1. S = {} /\ E = {}
          BY <3>2 DEF DomainTreeOK, SuffixRulesAt, ExactRulesAt
        <4>2. Below(k) = Below(j)
          BY <2>2, <4>1
        <4> QED BY <1>walk, <2>1, <3>2, <4>2
      <3> QED BY <3>1, <3>2
    <2> QED BY <2>1, <2>5
  <1> HIDE DEF U
  <1>6. \A k \in 0..N : k \in U
    BY <1>1, <1>4, <1>5, UpTo, Zenon
  <1>7. w[N] = Verdict(Below(N))
    BY <1>1, <1>6 DEF U
  <1>8. Below(N) = NameRules(R, T, name)
    BY <1>1, <1>2 DEF NameRules, IsPrefixOf, N, At
  <1> QED BY <1>walk, <1>7, <1>8, Zenon

Covering(R, T, addr) == {r \in R : r.tree = T /\ IsPrefixOf(r.path, addr)}
Longest(S) == {r \in S : \A q \in S : Len(q.path) <= Len(r.path)}

\* An address has its first k bits, which are a prefix.
LEMMA AddressFacts ==
    ASSUME NEW addr \in Addresses
    PROVE  /\ Len(addr) = Width
           /\ \A k \in 0..Width : /\ SubSeq(addr, 1, k) \in Prefixes
                                  /\ Len(SubSeq(addr, 1, k)) = k
           /\ SubSeq(addr, 1, 0) = <<>>
  <1>1. Width \in Nat
    BY RoutingAssumption
  <1>2. addr \in Paths(Bits, Width)
    BY <1>1 DEF Addresses, Paths
  <1>3. Len(addr) = Width
    BY <1>1 DEF Addresses
  <1>4. /\ SubSeq(addr, 1, 0) = <<>>
        /\ \A k \in 0..Len(addr) : /\ SubSeq(addr, 1, k) \in Paths(Bits, Width)
                                   /\ Len(SubSeq(addr, 1, k)) = k
    BY <1>1, <1>2, PathFacts
  <1> QED BY <1>3, <1>4, Zenon DEF Prefixes

LEMMA PrefixLength ==
    ASSUME NEW p \in Prefixes
    PROVE  Len(p) \in 0..Width /\ (Len(p) = 0 <=> p = <<>>)
  <1>1. Width \in Nat /\ p \in Paths(Bits, Width)
    BY RoutingAssumption DEF Prefixes
  <1>2. p \in Seq(Bits) /\ Len(p) \in 0..Width
    BY <1>1, PathFacts
  <1> QED BY <1>2

\* ipv4Tree.match gives the verdict of the rules of the longest prefix.
LEMMA MatchIPv4Correct ==
    ASSUME NEW R, RulesOK(R), NEW T \in PrefixTrees, NEW tree, PrefixTreeOK(tree, T, R),
           NEW addr \in Addresses
    PROVE  MatchIPv4(tree, addr) = Verdict(Longest(Covering(R, T, addr)))
  <1> DEFINE At(k) == SubSeq(addr, 1, k)
             Below(k) == {r \in Covering(R, T, addr) : Len(r.path) <= k}
  <1>0. Width \in Nat
    BY RoutingAssumption
  <1>1. /\ Len(addr) = Width /\ At(0) = <<>>
        /\ \A k \in 0..Width : At(k) \in Prefixes /\ Len(At(k)) = k
    BY AddressFacts
  <1>2. \A r \in Covering(R, T, addr) :
            /\ r \in R /\ r.tree = T /\ r.path \in Prefixes /\ Len(r.path) \in 0..Width
            /\ r.path = At(Len(r.path)) /\ r.action \in RuleActions
    <2>1. ASSUME NEW r \in Covering(R, T, addr)
          PROVE  /\ r \in R /\ r.tree = T /\ r.path \in Prefixes /\ r.action \in RuleActions
                 /\ r.path = At(Len(r.path))
      BY DEF Covering, RulesOK, IsPrefixOf
    <2> QED BY <2>1, PrefixLength
  <1>3. ASSUME NEW r \in R, r.tree = T, NEW k \in 0..Width, r.path = At(k)
        PROVE  r \in Covering(R, T, addr) /\ Len(r.path) = k
    <2>1. Len(r.path) = k
      BY <1>1, <1>3
    <2>2. IsPrefixOf(r.path, addr)
      BY <1>0, <1>1, <1>3, <2>1 DEF IsPrefixOf
    <2> QED BY <1>3, <2>1, <2>2, Zenon DEF Covering
  <1>4. PICK w : PrefixWalkOf(w, tree, addr)
    <2>1. <<>> \in DOMAIN tree /\ \A p \in DOMAIN tree : tree[p] \in Verdicts
      BY DEF PrefixTreeOK
    <2> QED BY <2>1, PrefixWalk, Zenon
  <1>walk. /\ w \in [0..Width -> Verdicts] /\ w[0] = tree[<<>>] /\ MatchIPv4(tree, addr) = w[Width]
           /\ \A k \in 1..Width : w[k] = IF At(k) \in DOMAIN tree /\ tree[At(k)] # "unknown"
                                         THEN tree[At(k)] ELSE w[k - 1]
    BY <1>4, Zenon DEF PrefixWalkOf
  <1> DEFINE U == {k \in 0..Width : w[k] = Verdict(Longest(Below(k)))}
  <1> HIDE DEF At
  <1>5. ASSUME NEW k \in 0..Width, PrefixRulesAt(R, T, At(k)) # {}
        PROVE  Longest(Below(k)) = PrefixRulesAt(R, T, At(k))
    <2> DEFINE P == PrefixRulesAt(R, T, At(k))
    <2>1. \A r \in P : r \in Below(k) /\ Len(r.path) = k
      BY <1>0, <1>3 DEF PrefixRulesAt
    <2>2. \A r \in Below(k) : Len(r.path) \in 0..Width /\ Len(r.path) <= k
      BY <1>2
    <2>3. ASSUME NEW r \in Below(k) PROVE Len(r.path) = k <=> r \in P
      BY <1>2, <2>1 DEF PrefixRulesAt
    <2>4. PICK s \in P : TRUE
      BY <1>5
    <2> HIDE DEF Below, P
    <2>5. ASSUME NEW r \in Longest(Below(k)) PROVE r \in P
      <3>1. r \in Below(k) /\ Len(s.path) <= Len(r.path)
        BY <2>1, <2>4 DEF Longest
      <3>2. Len(r.path) = k
        BY <1>0, <2>1, <2>2, <2>4, <3>1
      <3> QED BY <2>3, <3>1, <3>2
    <2>6. ASSUME NEW r \in P PROVE r \in Longest(Below(k))
      BY <2>1, <2>2 DEF Longest
    <2> QED BY <2>5, <2>6 DEF P
  <1>6. 0 \in U
    <2>1. <<>> \in DOMAIN tree /\ tree[<<>>] = Verdict(PrefixRulesAt(R, T, <<>>))
      BY DEF PrefixTreeOK
    <2>2. CASE PrefixRulesAt(R, T, <<>>) # {}
      BY <1>0, <1>1, <1>walk, <1>5, <2>1, <2>2
    <2>3. CASE PrefixRulesAt(R, T, <<>>) = {}
      <3>1. ASSUME NEW r \in Below(0) PROVE FALSE
        <4>1. r.path \in Prefixes /\ Len(r.path) \in 0..Width /\ Len(r.path) <= 0 /\ r \in R /\ r.tree = T
          BY <1>2
        <4>2. r.path = <<>>
          BY <1>0, <4>1, PrefixLength
        <4> QED BY <2>3, <4>1, <4>2 DEF PrefixRulesAt
      <3>2. Longest(Below(0)) = {}
        BY <3>1 DEF Longest
      <3>3. w[0] = Verdict(Longest(Below(0)))
        BY <1>walk, <2>1, <2>3, <3>2, Zenon
      <3> HIDE DEF Below
      <3> QED BY <1>0, <3>3
    <2> QED BY <2>2, <2>3
  <1>7. ASSUME NEW j \in 0..Width, j < Width, j \in U PROVE j + 1 \in U
    <2> DEFINE k == j + 1
               p == At(k)
    <2>1. k \in 1..Width /\ k \in 0..Width /\ k - 1 = j /\ w[j] = Verdict(Longest(Below(j)))
      BY <1>0, <1>7
    <2>2. CASE PrefixRulesAt(R, T, p) # {}
      <3>1. p \in DOMAIN tree
        BY <2>2 DEF PrefixTreeOK, PrefixRulesAt
      <3>2. tree[p] = Verdict(PrefixRulesAt(R, T, p)) /\ tree[p] # "unknown"
        BY <2>2, <3>1 DEF PrefixTreeOK, Verdict
      <3>3. w[k] = tree[p]
        BY <1>walk, <2>1, <3>1, <3>2
      <3>4. Longest(Below(k)) = PrefixRulesAt(R, T, p)
        BY <1>5, <2>1, <2>2
      <3> QED BY <2>1, <3>2, <3>3, <3>4, Zenon
    <2>3. CASE PrefixRulesAt(R, T, p) = {}
      <3>1. Below(k) = Below(j)
        <4>1. ASSUME NEW r \in Covering(R, T, addr) PROVE Len(r.path) <= k <=> Len(r.path) <= j
          <5>1. Len(r.path) # k
            BY <1>2, <2>3 DEF PrefixRulesAt
          <5> QED BY <1>0, <1>2, <5>1
        <4> QED BY <4>1
      <3>2. p \in DOMAIN tree => tree[p] = "unknown"
        BY <2>3 DEF PrefixTreeOK, Verdict
      <3>3. w[k] = w[j]
        BY <1>walk, <2>1, <3>2
      <3> QED BY <2>1, <3>1, <3>3, Zenon
    <2> QED BY <2>2, <2>3
  <1> HIDE DEF U
  <1>8. \A k \in 0..Width : k \in U
    BY <1>0, <1>6, <1>7, UpTo
  <1>9. w[Width] = Verdict(Longest(Below(Width)))
    BY <1>0, <1>8 DEF U
  <1>10. Below(Width) = Covering(R, T, addr)
    BY <1>0, <1>2
  <1> QED BY <1>walk, <1>9, <1>10, Zenon

-----------------------------------------------------------------------------
\* The way to a path is added, and nothing else changes.
LEMMA GrownFacts ==
    ASSUME NEW S, NEW n \in Nat, NEW tree, NEW path \in Paths(S, n), NEW blank,
           DOMAIN tree \subseteq Paths(S, n),
           \A p \in DOMAIN tree : \A k \in 0..Len(p) : SubSeq(p, 1, k) \in DOMAIN tree
    PROVE  LET grown == Grown(tree, path, blank)
           IN  /\ DOMAIN grown \subseteq Paths(S, n) /\ DOMAIN tree \subseteq DOMAIN grown
               /\ path \in DOMAIN grown
               /\ \A p \in DOMAIN grown : \A k \in 0..Len(p) : SubSeq(p, 1, k) \in DOMAIN grown
               /\ grown = [p \in DOMAIN grown |-> IF p \in DOMAIN tree THEN tree[p] ELSE blank]
  <1> DEFINE D == DOMAIN tree \cup {SubSeq(path, 1, k) : k \in 0..Len(path)}
             grown == Grown(tree, path, blank)
  <1>1. DOMAIN grown = D /\ grown = [p \in D |-> IF p \in DOMAIN tree THEN tree[p] ELSE blank]
    BY DEF Grown
  <1>2. /\ path \in Seq(S) /\ Len(path) \in Nat /\ SubSeq(path, 1, Len(path)) = path
        /\ \A k \in 0..Len(path) :
             /\ SubSeq(path, 1, k) \in Paths(S, n) /\ Len(SubSeq(path, 1, k)) = k
             /\ \A j \in 0..k : SubSeq(SubSeq(path, 1, k), 1, j) = SubSeq(path, 1, j)
    BY PathFacts
  <1>3. D \subseteq Paths(S, n)
    BY <1>2, Zenon
  <1>4. path \in D
    <2>1. Len(path) \in 0..Len(path)
      BY <1>2
    <2> QED BY <1>2, <2>1, Zenon
  <1>5. ASSUME NEW p \in D, NEW j \in 0..Len(p) PROVE SubSeq(p, 1, j) \in D
    <2>1. CASE p \in DOMAIN tree
      BY <2>1
    <2>2. CASE p \notin DOMAIN tree
      <3>1. PICK k \in 0..Len(path) : p = SubSeq(path, 1, k)
        BY <2>2
      <3>2. Len(p) = k /\ SubSeq(p, 1, j) = SubSeq(path, 1, j) /\ j \in 0..Len(path)
        BY <1>2, <3>1
      <3> QED BY <3>2
    <2> QED BY <2>1, <2>2
  <1> HIDE DEF grown, D
  <1>6. DOMAIN tree \subseteq D
    BY DEF D
  <1> QED BY <1>1, <1>3, <1>4, <1>5, <1>6 DEF grown

\* A rule leaves the trees it is not for as they were.
LEMMA OtherTree ==
    ASSUME NEW R, NEW r, NEW T, r.tree # T, NEW tree
    PROVE  /\ DomainTreeOK(tree, T, R) => DomainTreeOK(tree, T, R \cup {r})
           /\ PrefixTreeOK(tree, T, R) => PrefixTreeOK(tree, T, R \cup {r})
  <1>1. \A p : /\ SuffixRulesAt(R \cup {r}, T, p) = SuffixRulesAt(R, T, p)
               /\ ExactRulesAt(R \cup {r}, T, p) = ExactRulesAt(R, T, p)
    BY DEF SuffixRulesAt, ExactRulesAt
  <1>2. \A p : PrefixRulesAt(R \cup {r}, T, p) = PrefixRulesAt(R, T, p)
    BY DEF PrefixRulesAt
  <1>3. \A q \in R \cup {r} : q.tree = T => q \in R
    OBVIOUS
  <1> QED BY <1>1, <1>2, <1>3, Zenon DEF DomainTreeOK, PrefixTreeOK

\* domainTree.add.
LEMMA AddDomainCorrect ==
    ASSUME NEW R, RulesOK(R), NEW T \in DomainTrees, NEW tree, DomainTreeOK(tree, T, R),
           NEW name \in Names, NEW exact \in BOOLEAN, NEW action \in RuleActions,
           NEW r, r.tree = T, r.path = name, r.exact = exact, r.action = action
    PROVE  DomainTreeOK(AddDomain(tree, name, exact, action), T, R \cup {r})
  <1> DEFINE grown == Grown(tree, name, BlankDomain)
             D == DOMAIN grown
             new == AddDomain(tree, name, exact, action)
             Node == [suffix : Verdicts, exact : Verdicts]
             R2 == R \cup {r}
  <1>1. /\ D \subseteq Paths(Labels, Depth) /\ DOMAIN tree \subseteq D /\ name \in D
        /\ \A p \in D : \A k \in 0..Len(p) : SubSeq(p, 1, k) \in D
        /\ grown = [p \in D |-> IF p \in DOMAIN tree THEN tree[p] ELSE BlankDomain]
    BY RoutingAssumption, GrownFacts DEF DomainTreeOK, Names
  <1>2. BlankDomain \in Node /\ BlankDomain.suffix = "unknown" /\ BlankDomain.exact = "unknown"
    BY DEF BlankDomain, Verdicts
  <1>3. grown \in [D -> Node]
    <2> HIDE DEF grown, Node
    <2>1. \A p \in DOMAIN tree : tree[p] \in Node
      BY DEF DomainTreeOK, Node
    <2> QED BY <1>1, <1>2, <2>1
  <1>4. action \in Verdicts /\ \A v \in Verdicts : selectAction(v, action) \in Verdicts
    BY SelectFacts DEF Verdicts
  <1>5. /\ new \in [D -> Node] /\ DOMAIN new = D
        /\ \A p \in D : p # name => new[p] = grown[p]
        /\ exact => /\ new[name].exact = selectAction(grown[name].exact, action)
                    /\ new[name].suffix = grown[name].suffix
        /\ ~exact => /\ new[name].suffix = selectAction(grown[name].suffix, action)
                     /\ new[name].exact = grown[name].exact
    <2> HIDE DEF grown, D
    <2>1. /\ exact => new = [grown EXCEPT ![name].exact = selectAction(grown[name].exact, action)]
          /\ ~exact => new = [grown EXCEPT ![name].suffix = selectAction(grown[name].suffix, action)]
      BY DEF AddDomain, grown
    <2>2. grown[name].exact \in Verdicts /\ grown[name].suffix \in Verdicts /\ name \in D
      BY <1>1, <1>3
    <2> HIDE DEF new
    <2>3. CASE exact
      BY <1>3, <1>4, <2>1, <2>2, <2>3
    <2>4. CASE ~exact
      BY <1>3, <1>4, <2>1, <2>2, <2>4
    <2> QED BY <2>3, <2>4
  <1> HIDE DEF grown, new
  <1>6. \A p \in D : /\ grown[p].suffix = Verdict(SuffixRulesAt(R, T, p))
                     /\ grown[p].exact = Verdict(ExactRulesAt(R, T, p))
    <2>1. ASSUME NEW p \in D, p \in DOMAIN tree
          PROVE  /\ grown[p].suffix = Verdict(SuffixRulesAt(R, T, p))
                 /\ grown[p].exact = Verdict(ExactRulesAt(R, T, p))
      BY <1>1, <2>1 DEF DomainTreeOK
    <2>2. ASSUME NEW p \in D, p \notin DOMAIN tree
          PROVE  /\ grown[p].suffix = Verdict(SuffixRulesAt(R, T, p))
                 /\ grown[p].exact = Verdict(ExactRulesAt(R, T, p))
      <3>1. grown[p] = BlankDomain
        BY <1>1, <2>2
      <3>2. SuffixRulesAt(R, T, p) = {} /\ ExactRulesAt(R, T, p) = {}
        BY <2>2 DEF DomainTreeOK, SuffixRulesAt, ExactRulesAt
      <3> QED BY <1>2, <3>1, <3>2 DEF Verdict
    <2> QED BY <2>1, <2>2
  <1>7. /\ \A p : p # name => /\ SuffixRulesAt(R2, T, p) = SuffixRulesAt(R, T, p)
                              /\ ExactRulesAt(R2, T, p) = ExactRulesAt(R, T, p)
        /\ exact => /\ SuffixRulesAt(R2, T, name) = SuffixRulesAt(R, T, name)
                    /\ ExactRulesAt(R2, T, name) = ExactRulesAt(R, T, name) \cup {r}
        /\ ~exact => /\ SuffixRulesAt(R2, T, name) = SuffixRulesAt(R, T, name) \cup {r}
                     /\ ExactRulesAt(R2, T, name) = ExactRulesAt(R, T, name)
    BY DEF SuffixRulesAt, ExactRulesAt
  <1>8. /\ Verdict(SuffixRulesAt(R, T, name) \cup {r})
             = selectAction(Verdict(SuffixRulesAt(R, T, name)), action)
        /\ Verdict(ExactRulesAt(R, T, name) \cup {r})
             = selectAction(Verdict(ExactRulesAt(R, T, name)), action)
    <2>1. /\ \A q \in SuffixRulesAt(R, T, name) : q.action \in RuleActions
          /\ \A q \in ExactRulesAt(R, T, name) : q.action \in RuleActions
      BY DEF SuffixRulesAt, ExactRulesAt, RulesOK
    <2> QED BY <2>1, VerdictPlus
  <1>9. \A p \in D : /\ new[p].suffix = Verdict(SuffixRulesAt(R2, T, p))
                     /\ new[p].exact = Verdict(ExactRulesAt(R2, T, p))
    <2> HIDE DEF R2, D
    <2>1. ASSUME NEW p \in D, p # name
          PROVE  /\ new[p].suffix = Verdict(SuffixRulesAt(R2, T, p))
                 /\ new[p].exact = Verdict(ExactRulesAt(R2, T, p))
      BY <1>5, <1>6, <1>7, <2>1
    <2>2. /\ new[name].suffix = Verdict(SuffixRulesAt(R2, T, name))
          /\ new[name].exact = Verdict(ExactRulesAt(R2, T, name))
      <3>1. /\ grown[name].suffix = Verdict(SuffixRulesAt(R, T, name))
            /\ grown[name].exact = Verdict(ExactRulesAt(R, T, name))
        BY <1>1, <1>6
      <3>2. CASE exact
        BY <1>5, <1>7, <1>8, <3>1, <3>2
      <3>3. CASE ~exact
        BY <1>5, <1>7, <1>8, <3>1, <3>3
      <3> QED BY <3>2, <3>3
    <2> QED BY <2>1, <2>2
  <1>10. \A q \in R2 : q.tree = T => q.path \in D
    BY <1>1 DEF DomainTreeOK
  <1>11. /\ DOMAIN new \subseteq Paths(Labels, Depth) /\ new \in [DOMAIN new -> Node]
         /\ \A p \in DOMAIN new : \A k \in 0..Len(p) : SubSeq(p, 1, k) \in DOMAIN new
    <2> HIDE DEF D, Node
    <2> QED BY <1>1, <1>5
  <1>12. /\ \A q \in R2 : q.tree = T => q.path \in DOMAIN new
         /\ \A p \in DOMAIN new : /\ new[p].suffix = Verdict(SuffixRulesAt(R2, T, p))
                                  /\ new[p].exact = Verdict(ExactRulesAt(R2, T, p))
    <2> HIDE DEF D, R2
    <2> QED BY <1>5, <1>9, <1>10
  <1>13. DomainTreeOK(new, T, R2)
    <2> HIDE DEF R2, D
    <2> QED BY <1>11, <1>12 DEF DomainTreeOK
  <1> QED BY <1>13 DEF new

\* ipv4Tree.add.
LEMMA AddPrefixCorrect ==
    ASSUME NEW R, RulesOK(R), NEW T \in PrefixTrees, NEW tree, PrefixTreeOK(tree, T, R),
           NEW prefix \in Prefixes, NEW action \in RuleActions,
           NEW r, r.tree = T, r.path = prefix, r.action = action
    PROVE  PrefixTreeOK(AddPrefix(tree, prefix, action), T, R \cup {r})
  <1> DEFINE grown == Grown(tree, prefix, "unknown")
             D == DOMAIN grown
             new == AddPrefix(tree, prefix, action)
             R2 == R \cup {r}
  <1>1. /\ D \subseteq Prefixes /\ DOMAIN tree \subseteq D /\ prefix \in D
        /\ \A p \in D : \A k \in 0..Len(p) : SubSeq(p, 1, k) \in D
        /\ grown = [p \in D |-> IF p \in DOMAIN tree THEN tree[p] ELSE "unknown"]
    BY RoutingAssumption, GrownFacts DEF PrefixTreeOK, Prefixes
  <1>2. grown \in [D -> Verdicts]
    <2> HIDE DEF grown
    <2>1. "unknown" \in Verdicts /\ \A p \in DOMAIN tree : tree[p] \in Verdicts
      BY DEF PrefixTreeOK, Verdicts
    <2> QED BY <1>1, <2>1
  <1>3. action \in Verdicts /\ \A v \in Verdicts : selectAction(v, action) \in Verdicts
    BY SelectFacts DEF Verdicts
  <1>4. /\ new \in [D -> Verdicts] /\ DOMAIN new = D
        /\ \A p \in D : p # prefix => new[p] = grown[p]
        /\ new[prefix] = selectAction(grown[prefix], action)
    <2> HIDE DEF grown, D
    <2>1. new = [grown EXCEPT ![prefix] = selectAction(grown[prefix], action)]
      BY DEF AddPrefix, grown
    <2>2. grown[prefix] \in Verdicts /\ prefix \in D
      BY <1>1, <1>2
    <2> HIDE DEF new
    <2> QED BY <1>2, <1>3, <2>1, <2>2
  <1> HIDE DEF grown, new
  <1>5. \A p \in D : grown[p] = Verdict(PrefixRulesAt(R, T, p))
    <2>1. ASSUME NEW p \in D, p \in DOMAIN tree
          PROVE  grown[p] = Verdict(PrefixRulesAt(R, T, p))
      BY <1>1, <2>1 DEF PrefixTreeOK
    <2>2. ASSUME NEW p \in D, p \notin DOMAIN tree
          PROVE  grown[p] = Verdict(PrefixRulesAt(R, T, p))
      <3>1. grown[p] = "unknown"
        BY <1>1, <2>2
      <3>2. PrefixRulesAt(R, T, p) = {}
        BY <2>2 DEF PrefixTreeOK, PrefixRulesAt
      <3> QED BY <3>1, <3>2 DEF Verdict
    <2> QED BY <2>1, <2>2
  <1>6. /\ \A p : p # prefix => PrefixRulesAt(R2, T, p) = PrefixRulesAt(R, T, p)
        /\ PrefixRulesAt(R2, T, prefix) = PrefixRulesAt(R, T, prefix) \cup {r}
    BY DEF PrefixRulesAt
  <1>7. Verdict(PrefixRulesAt(R, T, prefix) \cup {r})
          = selectAction(Verdict(PrefixRulesAt(R, T, prefix)), action)
    <2>1. \A q \in PrefixRulesAt(R, T, prefix) : q.action \in RuleActions
      BY DEF PrefixRulesAt, RulesOK
    <2> QED BY <2>1, VerdictPlus
  <1>8. \A p \in D : new[p] = Verdict(PrefixRulesAt(R2, T, p))
    <2> HIDE DEF R2, D
    <2>1. ASSUME NEW p \in D, p # prefix
          PROVE  new[p] = Verdict(PrefixRulesAt(R2, T, p))
      BY <1>4, <1>5, <1>6, <2>1
    <2>2. new[prefix] = Verdict(PrefixRulesAt(R2, T, prefix))
      BY <1>1, <1>4, <1>5, <1>6, <1>7
    <2> QED BY <2>1, <2>2
  <1>9. \A q \in R2 : q.tree = T => q.path \in D
    BY <1>1 DEF PrefixTreeOK
  <1>10. <<>> \in D
    BY <1>1 DEF PrefixTreeOK
  <1>11. PrefixTreeOK(new, T, R2)
    <2> HIDE DEF R2, D
    <2> QED BY <1>1, <1>4, <1>8, <1>9, <1>10 DEF PrefixTreeOK
  <1> QED BY <1>11 DEF new
-----------------------------------------------------------------------------
\* The inductive invariant: each tree holds, node by node, the rules of its own.
RoutingInv ==
    /\ RulesOK(rules)
    /\ DomainTreeOK(explicitDomains, "explicitDomains", rules)
    /\ DomainTreeOK(chinaDomains, "chinaDomains", rules)
    /\ PrefixTreeOK(explicitIPv4, "explicitIPv4", rules)
    /\ PrefixTreeOK(chinaIPv4, "chinaIPv4", rules)

\* The empty trees of policy.New.
LEMMA RoutingInitInv == RoutingInit => RoutingInv
  <1> SUFFICES ASSUME RoutingInit PROVE RoutingInv
    OBVIOUS
  <1>1. rules = {} /\ RulesOK(rules)
    BY DEF RoutingInit, RulesOK
  <1>2. <<>> \in Paths(Labels, Depth) /\ <<>> \in Prefixes
    <2>1. ASSUME NEW S, NEW n \in Nat PROVE <<>> \in Paths(S, n)
      <3>1. 0 \in 0..n /\ <<>> \in [1..0 -> S]
        OBVIOUS
      <3> QED BY <3>1 DEF Paths
    <2> QED BY <2>1, RoutingAssumption DEF Prefixes
  <1>3. \A k \in 0..Len(<<>>) : SubSeq(<<>>, 1, k) = <<>>
    OBVIOUS
  <1>4. Verdict({}) = "unknown"
    BY DEF Verdict
  <1>5. ASSUME NEW T PROVE DomainTreeOK(Root(BlankDomain), T, {})
    <2> DEFINE tree == Root(BlankDomain)
    <2>1. DOMAIN tree = {<<>>} /\ tree[<<>>] = BlankDomain
      BY DEF Root
    <2>2. BlankDomain \in [suffix : Verdicts, exact : Verdicts]
          /\ BlankDomain.suffix = "unknown" /\ BlankDomain.exact = "unknown"
      BY DEF BlankDomain, Verdicts
    <2>3. tree \in [DOMAIN tree -> [suffix : Verdicts, exact : Verdicts]]
      BY <2>2 DEF Root
    <2>4. \A p : SuffixRulesAt({}, T, p) = {} /\ ExactRulesAt({}, T, p) = {}
      BY DEF SuffixRulesAt, ExactRulesAt
    <2> HIDE DEF tree
    <2>5. \A p \in DOMAIN tree : \A k \in 0..Len(p) : SubSeq(p, 1, k) \in DOMAIN tree
      BY <1>3, <2>1
    <2>6. \A p \in DOMAIN tree : /\ tree[p].suffix = Verdict(SuffixRulesAt({}, T, p))
                                 /\ tree[p].exact = Verdict(ExactRulesAt({}, T, p))
      BY <1>4, <2>1, <2>2, <2>4
    <2>7. DomainTreeOK(tree, T, {})
      BY <1>2, <2>1, <2>3, <2>5, <2>6 DEF DomainTreeOK
    <2> QED BY <2>7 DEF tree
  <1>6. ASSUME NEW T PROVE PrefixTreeOK(Root("unknown"), T, {})
    <2> DEFINE tree == Root("unknown")
    <2>1. DOMAIN tree = {<<>>} /\ tree[<<>>] = "unknown"
      BY DEF Root
    <2>2. tree \in [DOMAIN tree -> Verdicts]
      BY DEF Root, Verdicts
    <2>3. \A p : PrefixRulesAt({}, T, p) = {}
      BY DEF PrefixRulesAt
    <2> HIDE DEF tree
    <2>4. \A p \in DOMAIN tree : \A k \in 0..Len(p) : SubSeq(p, 1, k) \in DOMAIN tree
      BY <1>3, <2>1
    <2>5. \A p \in DOMAIN tree : tree[p] = Verdict(PrefixRulesAt({}, T, p))
      BY <1>4, <2>1, <2>3, Zenon
    <2>6. PrefixTreeOK(tree, T, {})
      BY <1>2, <2>1, <2>2, <2>4, <2>5 DEF PrefixTreeOK
    <2> QED BY <2>6 DEF tree
  <1> QED BY <1>1, <1>5, <1>6 DEF RoutingInit, RoutingInv

\* Every step adds one rule, of the kind policy.New adds to that tree.
LEMMA RoutingStepInv == RoutingInv /\ [RoutingNext]_routingVars => RoutingInv'
  <1> SUFFICES ASSUME RoutingInv, [RoutingNext]_routingVars PROVE RoutingInv'
    OBVIOUS
  <1> USE DEF DomainTrees, PrefixTrees
  <1>1. ASSUME NEW name \in Names, NEW exact \in BOOLEAN, AddChinaDomain(name, exact)
        PROVE  RoutingInv'
    <2> DEFINE r == [tree |-> "chinaDomains", path |-> name, exact |-> exact, action |-> "direct"]
    <2>1. rules' = rules \cup {r} /\ r.tree = "chinaDomains" /\ r.path = name /\ r.exact = exact
          /\ r.action = "direct" /\ "direct" \in RuleActions
      BY <1>1 DEF AddChinaDomain, Added, RuleActions
    <2> HIDE DEF r
    <2>2. RulesOK(rules')
      BY <2>1 DEF RoutingInv, RulesOK
    <2>3. DomainTreeOK(chinaDomains', "chinaDomains", rules')
      BY <1>1, <2>1, AddDomainCorrect DEF RoutingInv, AddChinaDomain
    <2> QED BY <1>1, <2>1, <2>2, <2>3, OtherTree DEF RoutingInv, AddChinaDomain
  <1>2. ASSUME NEW prefix \in Prefixes, AddChinaPrefix(prefix)
        PROVE  RoutingInv'
    <2> DEFINE r == [tree |-> "chinaIPv4", path |-> prefix, exact |-> FALSE, action |-> "direct"]
    <2>1. rules' = rules \cup {r} /\ r.tree = "chinaIPv4" /\ r.path = prefix /\ r.exact \in BOOLEAN
          /\ r.action = "direct" /\ "direct" \in RuleActions
      BY <1>2 DEF AddChinaPrefix, Added, RuleActions
    <2> HIDE DEF r
    <2>2. RulesOK(rules')
      BY <2>1 DEF RoutingInv, RulesOK
    <2>3. PrefixTreeOK(chinaIPv4', "chinaIPv4", rules')
      BY <1>2, <2>1, AddPrefixCorrect DEF RoutingInv, AddChinaPrefix
    <2> QED BY <1>2, <2>1, <2>2, <2>3, OtherTree DEF RoutingInv, AddChinaPrefix
  <1>3. ASSUME NEW name \in Names, NEW action \in RuleActions, AddDomainRule(name, action)
        PROVE  RoutingInv'
    <2> DEFINE r == [tree |-> "explicitDomains", path |-> name, exact |-> FALSE, action |-> action]
    <2>1. rules' = rules \cup {r} /\ r.tree = "explicitDomains" /\ r.path = name /\ r.exact = FALSE
          /\ r.action = action
      BY <1>3 DEF AddDomainRule, Added
    <2> HIDE DEF r
    <2>2. RulesOK(rules')
      BY <2>1, Zenon DEF RoutingInv, RulesOK
    <2>3. DomainTreeOK(explicitDomains', "explicitDomains", rules')
      BY <1>3, <2>1, AddDomainCorrect, Zenon DEF RoutingInv, AddDomainRule
    <2> QED BY <1>3, <2>1, <2>2, <2>3, OtherTree, Zenon DEF RoutingInv, AddDomainRule
  <1>4. ASSUME NEW prefix \in Prefixes, NEW action \in RuleActions, AddIPRule(prefix, action)
        PROVE  RoutingInv'
    <2> DEFINE r == [tree |-> "explicitIPv4", path |-> prefix, exact |-> FALSE, action |-> action]
    <2>1. rules' = rules \cup {r} /\ r.tree = "explicitIPv4" /\ r.path = prefix /\ r.exact \in BOOLEAN
          /\ r.action = action
      BY <1>4 DEF AddIPRule, Added
    <2> HIDE DEF r
    <2>2. RulesOK(rules')
      BY <2>1 DEF RoutingInv, RulesOK
    <2>3. PrefixTreeOK(explicitIPv4', "explicitIPv4", rules')
      BY <1>4, <2>1, AddPrefixCorrect DEF RoutingInv, AddIPRule
    <2> QED BY <1>4, <2>1, <2>2, <2>3, OtherTree DEF RoutingInv, AddIPRule
  <1>5. ASSUME UNCHANGED routingVars PROVE RoutingInv'
    BY <1>5 DEF RoutingInv, routingVars
  <1> QED BY <1>1, <1>2, <1>3, <1>4, <1>5 DEF RoutingNext
-----------------------------------------------------------------------------
\* The classifier's answers in terms of the rules.
LEMMA Matches ==
    ASSUME RoutingInv
    PROVE  /\ \A name \in Names :
                /\ MatchDomain(explicitDomains, name) = Verdict(RulesForName("explicitDomains", name))
                /\ MatchDomain(chinaDomains, name) = Verdict(RulesForName("chinaDomains", name))
           /\ \A addr \in Addresses :
                /\ MatchIPv4(explicitIPv4, addr) = Verdict(Longest(Covering(rules, "explicitIPv4", addr)))
                /\ MatchIPv4(chinaIPv4, addr) = Verdict(Longest(Covering(rules, "chinaIPv4", addr)))
  <1>1. \A T, name : RulesForName(T, name) = NameRules(rules, T, name)
    BY DEF RulesForName, NameRules
  <1>2. ASSUME NEW name \in Names
        PROVE  /\ MatchDomain(explicitDomains, name) = Verdict(NameRules(rules, "explicitDomains", name))
               /\ MatchDomain(chinaDomains, name) = Verdict(NameRules(rules, "chinaDomains", name))
    BY MatchDomainCorrect DEF RoutingInv, DomainTrees
  <1>3. ASSUME NEW addr \in Addresses
        PROVE  /\ MatchIPv4(explicitIPv4, addr) = Verdict(Longest(Covering(rules, "explicitIPv4", addr)))
               /\ MatchIPv4(chinaIPv4, addr) = Verdict(Longest(Covering(rules, "chinaIPv4", addr)))
    BY MatchIPv4Correct DEF RoutingInv, PrefixTrees
  <1> QED BY <1>1, <1>2, <1>3

\* The trees answer as the rules they were built from would, whatever the
\* order of the rules, for every depth of names and width of addresses
\* (policy/domains.go:34-82, ipv4.go:13-55).
THEOREM TreesCorrect == RoutingSpec => []TreesAsRules
  <1>1. RoutingInv => TreesAsRules
    <2> SUFFICES ASSUME RoutingInv PROVE TreesAsRules
      OBVIOUS
    <2>1. RoutingTypeOK
      <3>1. ASSUME NEW tree, NEW T, DomainTreeOK(tree, T, rules)
            PROVE  /\ DOMAIN tree \subseteq Paths(Labels, Depth)
                   /\ \A p \in DOMAIN tree : tree[p].suffix \in RuleActions \cup {"unknown"}
                                             /\ tree[p].exact \in RuleActions \cup {"unknown"}
                   /\ \A p \in DOMAIN tree : \A k \in 0..Len(p) : SubSeq(p, 1, k) \in DOMAIN tree
        BY <3>1 DEF DomainTreeOK, Verdicts
      <3>2. ASSUME NEW tree, NEW T, PrefixTreeOK(tree, T, rules)
            PROVE  /\ DOMAIN tree \subseteq Prefixes
                   /\ \A p \in DOMAIN tree : tree[p] \in RuleActions \cup {"unknown"}
                   /\ \A p \in DOMAIN tree : \A k \in 0..Len(p) : SubSeq(p, 1, k) \in DOMAIN tree
        BY <3>2 DEF PrefixTreeOK, Verdicts
      <3> QED BY <3>1, <3>2 DEF RoutingTypeOK, RoutingInv
    <2>2. \A T, addr : RulesForAddress(T, addr) = Longest(Covering(rules, T, addr))
      BY DEF RulesForAddress, Longest, Covering
    <2> QED BY <2>1, <2>2, Matches DEF TreesAsRules
  <1> QED BY <1>1, RoutingInitInv, RoutingStepInv, PTL DEF RoutingSpec

\* Of the rules that cover an address some are the longest.
LEMMA LongestExists ==
    ASSUME NEW S, S # {}, \A r \in S : Len(r.path) \in 0..Width
    PROVE  Longest(S) # {}
  <1> DEFINE A == {Width - Len(r.path) : r \in S}
  <1>0. Width \in Nat
    BY RoutingAssumption
  <1>1. A \subseteq Nat /\ A # {}
    BY <1>0
  <1>2. PICK m \in A : \A k \in A : m <= k
    <2> HIDE DEF A
    <2> QED BY <1>1, LeastNat, Zenon
  <1>3. PICK r \in S : m = Width - Len(r.path)
    BY <1>2
  <1>4. \A q \in S : Len(q.path) <= Len(r.path)
    <2>1. ASSUME NEW q \in S PROVE Len(q.path) <= Len(r.path)
      <3>1. m <= Width - Len(q.path)
        BY <1>2
      <3>2. Len(q.path) \in Int /\ Len(r.path) \in Int
        BY <1>0
      <3> QED BY <1>0, <1>3, <3>1, <3>2
    <2> QED BY <2>1
  <1> QED BY <1>4 DEF Longest

\* A prefix tree's answer for an address, from the rules that cover it.
LEMMA AnswerFacts ==
    ASSUME NEW R, RulesOK(R), NEW T \in PrefixTrees, NEW addr \in Addresses
    PROVE  LET S == Covering(R, T, addr)
               v == Verdict(Longest(S))
           IN  /\ \A r \in S : /\ r.action \in RuleActions /\ Len(r.path) \in 0..Width
                               /\ r.path = SubSeq(addr, 1, Len(r.path))
               /\ v \in Verdicts
               /\ v = "unknown" <=> S = {}
               /\ S # {} /\ (\A r \in S : r.action = "direct") => v = "direct"
  <1> DEFINE S == Covering(R, T, addr)
  <1>1. \A r \in S : r.action \in RuleActions /\ r.path \in Prefixes
                     /\ r.path = SubSeq(addr, 1, Len(r.path))
    BY DEF Covering, RulesOK, IsPrefixOf
  <1>2. \A r \in S : Len(r.path) \in 0..Width
    BY <1>1, PrefixLength
  <1> HIDE DEF S
  <1>3. Longest(S) \subseteq S
    BY DEF Longest
  <1>4. S # {} => Longest(S) # {}
    BY <1>2, LongestExists
  <1>5. \A r \in Longest(S) : r.action \in RuleActions
    BY <1>1, <1>3
  <1>6. /\ Verdict(Longest(S)) \in Verdicts
        /\ Verdict(Longest(S)) = "unknown" <=> Longest(S) = {}
        /\ Verdict(Longest(S)) = "proxy" <=> \E r \in Longest(S) : r.action = "proxy"
    BY <1>5, VerdictFacts
  <1>7. S # {} /\ (\A r \in S : r.action = "direct") => Verdict(Longest(S)) = "direct"
    <2> SUFFICES ASSUME S # {}, \A r \in S : r.action = "direct"
                 PROVE  Verdict(Longest(S)) = "direct"
      OBVIOUS
    <2>1. Verdict(Longest(S)) # "unknown" /\ Verdict(Longest(S)) # "proxy"
      BY <1>3, <1>4, <1>6
    <2> QED BY <1>6, <2>1 DEF Verdicts, RuleActions
  <1>8. Verdict(Longest(S)) = "unknown" <=> S = {}
    BY <1>3, <1>4, <1>6
  <1> QED BY <1>1, <1>2, <1>6, <1>7, <1>8 DEF S

\* The kernel's sets, TCP and UDP agree on every flow, for every set of rules,
\* every learned state and whatever dnsmasq resolved, but for a China address with a
\* proxy relation alone (generate.uc:453-470, tcp.go:102-143, udp.go:168-185).
THEOREM RoutesCorrect == RoutingSpec => []RoutesAgree
  <1>1. ASSUME RoutingInv, NEW addr \in Addresses, NEW learned \in Learned,
               NEW named \in SUBSET DomainActions,
               KernelBypasses(addr, learned, named), ~shouldDirect(addr, learned),
               "direct" \notin named
        PROVE  ProxyAlone(addr, learned)
    <2> DEFINE E == Covering(rules, "explicitIPv4", addr)
               C == Covering(rules, "chinaIPv4", addr)
    <2>1. /\ MatchIPv4(explicitIPv4, addr) = Verdict(Longest(E))
          /\ MatchIPv4(chinaIPv4, addr) = Verdict(Longest(C))
      BY <1>1, Matches
    <2>2. RulesOK(rules)
      BY <1>1 DEF RoutingInv
    <2>3. /\ \A r \in E : r.action \in RuleActions
          /\ Verdict(Longest(E)) = "unknown" <=> E = {}
          /\ E # {} /\ (\A r \in E : r.action = "direct") => Verdict(Longest(E)) = "direct"
      BY <2>2, AnswerFacts DEF PrefixTrees
    <2>4. C # {} /\ (\A r \in C : r.action = "direct") => Verdict(Longest(C)) = "direct"
      BY <2>2, AnswerFacts DEF PrefixTrees
    <2>5. \A r \in rules : r.tree \in PrefixTrees /\ r.path = SubSeq(addr, 1, Len(r.path))
                             => r \in Covering(rules, r.tree, addr)
      <3>1. ASSUME NEW r \in rules, r.tree \in PrefixTrees PROVE Len(r.path) <= Len(addr)
        <4>1. r.path \in Prefixes
          BY <2>2, <3>1 DEF RulesOK
        <4>2. Len(r.path) \in 0..Width /\ Len(addr) = Width /\ Width \in Nat
          BY <4>1, PrefixLength, AddressFacts, RoutingAssumption
        <4> QED BY <4>2
      <3> QED BY <3>1 DEF Covering, IsPrefixOf
    <2>6. \A a \in RuleActions : Covers(ExplicitPrefixes(a), addr) <=> \E r \in E : r.action = a
      <3> SUFFICES ASSUME NEW a \in RuleActions
                   PROVE  Covers(ExplicitPrefixes(a), addr) <=> \E r \in E : r.action = a
        OBVIOUS
      <3>1. ASSUME Covers(ExplicitPrefixes(a), addr) PROVE \E r \in E : r.action = a
        <4>1. PICK p \in ExplicitPrefixes(a) : p = SubSeq(addr, 1, Len(p))
          BY <3>1 DEF Covers
        <4>2. PICK r \in rules : r.tree = "explicitIPv4" /\ r.action = a /\ r.path = p
          BY DEF ExplicitPrefixes
        <4> QED BY <2>5, <4>1, <4>2 DEF PrefixTrees
      <3>2. ASSUME NEW r \in E, r.action = a PROVE Covers(ExplicitPrefixes(a), addr)
        BY <3>2 DEF Covers, ExplicitPrefixes, Covering, IsPrefixOf
      <3> QED BY <3>1, <3>2
    <2>7. Covers(ChinaPrefixes, addr) => C # {}
      <3> SUFFICES ASSUME Covers(ChinaPrefixes, addr) PROVE C # {}
        OBVIOUS
      <3>1. PICK p \in ChinaPrefixes : p = SubSeq(addr, 1, Len(p))
        BY DEF Covers
      <3>2. PICK r \in rules : r.tree = "chinaIPv4" /\ r.path = p
        BY DEF ChinaPrefixes
      <3> QED BY <2>5, <3>1, <3>2 DEF PrefixTrees
    <2>8. \A r \in C : r.action = "direct"
      BY <2>2 DEF Covering, RulesOK
    <2> HIDE DEF E, C
    <2>9. "direct" \in RuleActions /\ "proxy" \in RuleActions
          /\ \A a \in RuleActions : a = "direct" \/ a = "proxy"
      BY DEF RuleActions
    <2>10. \A r \in E : r.action = "direct"
      BY <1>1, <2>3, <2>6, <2>9 DEF KernelBypasses, Forced
    <2>11. CASE E # {}
      BY <1>1, <2>1, <2>3, <2>10, <2>11 DEF shouldDirect, IsExplicit, IP
    <2>12. CASE E = {}
      <3>1. ~IsExplicit(addr)
        BY <2>1, <2>3, <2>12 DEF IsExplicit
      <3>2. /\ SetState(learned) # "inspect4"
            /\ SetState(learned) = "direct4" \/ Covers(ChinaPrefixes, addr)
        BY <1>1, <2>6, <2>9, <2>12 DEF KernelBypasses, Forced
      <3>3. Covers(ChinaPrefixes, addr) => IP(addr) = "direct"
        BY <2>1, <2>4, <2>7, <2>8, <3>1 DEF IP
      <3>4. learned.direct \in BOOLEAN /\ learned.proxy \in BOOLEAN
        BY DEF Learned
      <3>5. learned.proxy => ~learned.direct /\ Covers(ChinaPrefixes, addr)
        BY <3>2, <3>4 DEF SetState
      <3>6. ~learned.proxy => learned.direct \/ Covers(ChinaPrefixes, addr)
        BY <3>2, <3>4 DEF SetState
      <3> QED BY <1>1, <3>1, <3>3, <3>5, <3>6 DEF shouldDirect, ProxyAlone
    <2> QED BY <2>11, <2>12
  <1>2. ASSUME NEW addr \in Addresses, NEW learned \in Learned
        PROVE  shouldDirect(addr, learned) <=> selectDialer(addr, NoName, learned) = "direct"
    BY DEF shouldDirect, selectDialer, Learned
  <1>3. ASSUME NEW addr \in Addresses, NEW learned \in Learned, NEW sniffed \in Sniffed,
               DialsByName(addr, sniffed)
        PROVE  selectDialer(addr, sniffed.domain, learned) = "proxy"
    BY <1>3 DEF DialsByName, selectDialer
  <1>4. RoutingInv => RoutesAgree
    BY <1>1, <1>2, <1>3 DEF RoutesAgree
  <1> QED BY <1>4, RoutingInitInv, RoutingStepInv, PTL DEF RoutingSpec

\* One more rule is among the longest, or leaves the longest as they were.
LEMMA LongestPlus ==
    ASSUME NEW S, NEW r, \A q \in S \cup {r} : Len(q.path) \in Nat
    PROVE  r \in Longest(S \cup {r}) \/ Longest(S \cup {r}) = Longest(S)
  <1> SUFFICES ASSUME r \notin Longest(S \cup {r}) PROVE Longest(S \cup {r}) = Longest(S)
    OBVIOUS
  <1>1. PICK q \in S : Len(q.path) > Len(r.path)
    BY DEF Longest
  <1>2. ASSUME NEW x \in Longest(S) PROVE x \in Longest(S \cup {r})
    <2>1. x \in S /\ Len(q.path) <= Len(x.path)
      BY DEF Longest
    <2>2. Len(r.path) <= Len(x.path)
      BY <1>1, <2>1
    <2> QED BY <2>1, <2>2 DEF Longest
  <1>3. ASSUME NEW x \in Longest(S \cup {r}) PROVE x \in Longest(S)
    BY DEF Longest
  <1> QED BY <1>2, <1>3, Zenon

\* No proxy rule, added to whatever rules there are, makes a name or an
\* address direct that was not (policy/domains.go:74-82, ipv4.go:31-55).
THEOREM ClosesCorrect == RoutingSpec => ProxyRuleOnlyCloses
  <1> DEFINE Closed == \A r \in rules' \ rules : r.action = "proxy" =>
                 /\ \A name \in Names : Domain(name) = "proxy" => Domain(name)' = "proxy"
                 /\ \A addr \in Addresses : IP(addr) = "proxy" => IP(addr)' = "proxy"
  <1>1. ASSUME RoutingInv, RoutingInv', [RoutingNext]_routingVars,
               NEW r \in rules' \ rules, r.action = "proxy"
        PROVE  /\ \A name \in Names : Domain(name) = "proxy" => Domain(name)' = "proxy"
               /\ \A addr \in Addresses : IP(addr) = "proxy" => IP(addr)' = "proxy"
    <2>1. /\ rules' = rules \cup {r}
          /\ \/ r.tree = "explicitDomains" /\ UNCHANGED <<chinaDomains, explicitIPv4, chinaIPv4>>
             \/ r.tree = "explicitIPv4" /\ UNCHANGED <<explicitDomains, chinaDomains, chinaIPv4>>
      <3>1. ~ UNCHANGED routingVars
        BY <1>1 DEF routingVars
      <3>2. ASSUME NEW name \in Names, NEW exact \in BOOLEAN PROVE ~ AddChinaDomain(name, exact)
        BY <1>1 DEF AddChinaDomain, Added
      <3>3. ASSUME NEW prefix \in Prefixes PROVE ~ AddChinaPrefix(prefix)
        BY <1>1 DEF AddChinaPrefix, Added
      <3>4. ASSUME NEW name \in Names, NEW action \in RuleActions, AddDomainRule(name, action)
            PROVE  /\ rules' = rules \cup {r} /\ r.tree = "explicitDomains"
                   /\ UNCHANGED <<chinaDomains, explicitIPv4, chinaIPv4>>
        <4> DEFINE x == [tree |-> "explicitDomains", path |-> name, exact |-> FALSE, action |-> action]
        <4>1. rules' = rules \cup {x} /\ x.tree = "explicitDomains"
          BY <3>4 DEF AddDomainRule, Added
        <4> HIDE DEF x
        <4>2. r = x
          BY <1>1, <4>1
        <4> QED BY <3>4, <4>1, <4>2 DEF AddDomainRule
      <3>5. ASSUME NEW prefix \in Prefixes, NEW action \in RuleActions, AddIPRule(prefix, action)
            PROVE  /\ rules' = rules \cup {r} /\ r.tree = "explicitIPv4"
                   /\ UNCHANGED <<explicitDomains, chinaDomains, chinaIPv4>>
        <4> DEFINE x == [tree |-> "explicitIPv4", path |-> prefix, exact |-> FALSE, action |-> action]
        <4>1. rules' = rules \cup {x} /\ x.tree = "explicitIPv4"
          BY <3>5 DEF AddIPRule, Added
        <4> HIDE DEF x
        <4>2. r = x
          BY <1>1, <4>1
        <4> QED BY <3>5, <4>1, <4>2 DEF AddIPRule
      <3> QED BY <1>1, <3>1, <3>2, <3>3, <3>4, <3>5 DEF RoutingNext
    <2>2. CASE r.tree = "explicitDomains" /\ UNCHANGED <<chinaDomains, explicitIPv4, chinaIPv4>>
      <3>1. ASSUME NEW addr \in Addresses PROVE IP(addr)' = IP(addr)
        BY <2>2 DEF IP, IsExplicit
      <3>2. ASSUME NEW name \in Names, Domain(name) = "proxy"
            PROVE  Domain(name)' = "proxy"
        <4> DEFINE S == NameRules(rules, "explicitDomains", name)
                   S2 == NameRules(rules', "explicitDomains", name)
        <4>1. /\ MatchDomain(explicitDomains, name) = Verdict(S)
              /\ MatchDomain(explicitDomains', name) = Verdict(S2)
          BY <1>1, MatchDomainCorrect DEF RoutingInv, DomainTrees
        <4>2. MatchDomain(chinaDomains', name) = MatchDomain(chinaDomains, name)
          BY <2>2
        <4>3. S2 = S \/ S2 = S \cup {r}
          BY <2>1 DEF NameRules
        <4> HIDE DEF S, S2
        <4>4. CASE S2 = S
          BY <3>2, <4>1, <4>2, <4>4 DEF Domain
        <4>5. CASE S2 = S \cup {r}
          <5>1. Verdict(S2) = "proxy"
            BY <1>1, <4>5 DEF Verdict
          <5> QED BY <4>1, <5>1 DEF Domain
        <4> QED BY <4>3, <4>4, <4>5
      <3> QED BY <3>1, <3>2
    <2>3. CASE r.tree = "explicitIPv4" /\ UNCHANGED <<explicitDomains, chinaDomains, chinaIPv4>>
      <3>1. ASSUME NEW name \in Names PROVE Domain(name)' = Domain(name)
        BY <2>3 DEF Domain
      <3>2. ASSUME NEW addr \in Addresses, IP(addr) = "proxy"
            PROVE  IP(addr)' = "proxy"
        <4> DEFINE S == Covering(rules, "explicitIPv4", addr)
                   S2 == Covering(rules', "explicitIPv4", addr)
        <4>1. /\ MatchIPv4(explicitIPv4, addr) = Verdict(Longest(S))
              /\ MatchIPv4(explicitIPv4', addr) = Verdict(Longest(S2))
          BY <1>1, MatchIPv4Correct DEF RoutingInv, PrefixTrees
        <4>2. MatchIPv4(chinaIPv4', addr) = MatchIPv4(chinaIPv4, addr)
          BY <2>3
        <4>3. S2 = S \/ S2 = S \cup {r}
          BY <2>1 DEF Covering
        <4>4. \A q \in S2 : Len(q.path) \in 0..Width
          BY <1>1, AnswerFacts DEF RoutingInv, PrefixTrees
        <4> HIDE DEF S, S2
        <4>5. CASE Longest(S2) = Longest(S)
          BY <3>2, <4>1, <4>2, <4>5 DEF IP, IsExplicit
        <4>6. CASE r \in Longest(S2)
          <5>1. Verdict(Longest(S2)) = "proxy"
            BY <1>1, <4>6 DEF Verdict
          <5> QED BY <4>1, <5>1 DEF IP, IsExplicit
        <4>7. S2 = S \cup {r} => r \in Longest(S2) \/ Longest(S2) = Longest(S)
          <5>1. \A q \in S2 : Len(q.path) \in Nat
            BY <4>4, RoutingAssumption
          <5> QED BY <5>1, LongestPlus
        <4> QED BY <4>3, <4>5, <4>6, <4>7
      <3> QED BY <3>1, <3>2
    <2> QED BY <2>1, <2>2, <2>3
  <1>2. RoutingInv /\ RoutingInv' /\ [RoutingNext]_routingVars => Closed
    BY <1>1
  <1>3. RoutingInv /\ RoutingInv' /\ [RoutingNext]_routingVars => [Closed]_routingVars
    BY <1>2
  <1> HIDE DEF Closed
  <1>4. RoutingSpec => [][Closed]_routingVars
    BY <1>3, RoutingInitInv, RoutingStepInv, PTL DEF RoutingSpec
  <1> QED BY <1>4 DEF Closed, ProxyRuleOnlyCloses
-----------------------------------------------------------------------------
\* Before the relay nothing of it has happened, and after it both copies have
\* sent.  completed holds a copy that has passed it.  A peer's error comes from
\* a reset; a local one is that of the second copy, after the first has closed
\* a stream without half-close.  A copy without an error has passed on all of its
\* source's stream, which has ended.
ConnOK(r) ==
    /\ r.stage \in {"none", "accepted", "peek", "dial"} =>
         ~r.outOpen /\ r.first = "none" /\ \A s \in Sides : r.copy[s] = "copying"
    /\ r.stage = "return" =>
         \A s \in Sides : r.copy[s] = IF r.first = "none" THEN "copying" ELSE "sent"
    /\ r.first = "none" => \A s \in Sides : r.copy[s] \in {"copying", "returned"}
    /\ \A s \in Sides : r.first = s => r.copy[s] \in {"marked", "sent"}
    /\ r.stage # "none" => r.inOpen
    /\ r.stage = "relay" /\ ~r.outOpen => ~r.half /\ r.copy["up"] = "sent"
    /\ \A s \in Sides : r.err[s] = "peer" => "reset" \in {r.client, r.server}
    /\ \A s \in Sides : r.err[s] = "local" => s = "down" /\ ~r.half /\ r.first = "up"
    /\ r.stage = "return" /\ r.first # "none" /\ "reset" \notin {r.client, r.server} => ~r.failed
    /\ \A s \in Sides : r.copy[s] # "copying" /\ r.err[s] = "none" =>
         /\ s \notin r.unread /\ s \notin r.unwritten
         /\ s = "up" => r.client # "open"
         /\ s = "down" => r.server # "open"
    /\ r.stage = "return" /\ r.first # "none" /\ ~r.failed =>
         \A s \in Sides : r.err[s] # "none" => s = "down" /\ r.first = "up" /\ ~r.half

Handled(r) == r.stage \notin {"none", "accepted"}

RelayInv ==
    /\ stopping \in BOOLEAN
    /\ conn \in [Conns -> Connection]
    /\ \A c \in Conns : ConnOK(conn[c])
    /\ slots \in Nat /\ slots <= MaxActive
    /\ slots = Cardinality(Handlers)

LEMMA UnusedOK == Unused \in Connection /\ ConnOK(Unused) /\ ~Handled(Unused)
<1>1. Unused \in Connection
  BY DEF Unused, Connection, Sides, Peer
<1> QED BY <1>1, Zenon DEF Unused, ConnOK, Handled, Sides

LEMMA HandlersFinite == IsFiniteSet(Handlers) /\ IsFiniteSet(Handlers)'
<1>1. Handlers \subseteq Conns /\ Handlers' \subseteq Conns
  BY DEF Handlers
<1> QED BY <1>1, FS_Subset, TcpAssumption

\* A step of one connection that leaves it handled or not handled.
LEMMA ConnStep ==
  ASSUME RelayInv, NEW c \in Conns, NEW r \in Connection, ConnOK(r), Becomes(c, r),
         Handled(r) <=> Handled(conn[c]), UNCHANGED <<slots, stopping>>
  PROVE  RelayInv' /\ Handlers' = Handlers
<1>1. conn' = [conn EXCEPT ![c] = r]
  BY DEF Becomes
<1>2. conn' \in [Conns -> Connection] /\ \A d \in Conns : ConnOK(conn'[d])
  BY <1>1 DEF RelayInv
<1>3. Handlers' = Handlers
  BY <1>1 DEF RelayInv, Handlers, Handled
<1> QED BY <1>2, <1>3 DEF RelayInv

LEMMA InitInv == Init => RelayInv /\ Handlers = {}
<1> SUFFICES ASSUME Init PROVE RelayInv /\ Handlers = {}
  OBVIOUS
<1>1. conn \in [Conns -> Connection] /\ \A c \in Conns : conn[c] = Unused
  BY UnusedOK DEF Init
<1>2. Handlers = {}
  BY <1>1, UnusedOK DEF Handlers, Handled
<1>3. Cardinality(Handlers) = 0
  BY <1>2, FS_EmptySet
<1>4. stopping \in BOOLEAN
  BY Zenon DEF Init
<1>5. slots = 0 /\ slots \in Nat /\ slots <= MaxActive
  BY TcpAssumption DEF Init
<1> QED BY <1>1, <1>2, <1>3, <1>4, <1>5, UnusedOK DEF RelayInv
-----------------------------------------------------------------------------
\* The accept loop and handle, apart from taking and freeing a slot.
LEMMA HandleKeeps ==
  ASSUME RelayInv, NEW c \in Conns,
         Accept(c) \/ Refuse(c) \/ HandleFails(c) \/ Peeked(c) \/ Dialed(c) \/ RelayEnds(c)
  PROVE  RelayInv' /\ Handlers' = Handlers
<1> DEFINE r == conn[c]
<1>0. r \in Connection /\ ConnOK(r) /\ UNCHANGED <<slots, stopping>>
  BY Zenon DEF RelayInv, Accept, Refuse, HandleFails, Peeked, Dialed, RelayEnds
<1>1. CASE Accept(c)
  <2> DEFINE n == [Unused EXCEPT !.stage = "accepted", !.inOpen = TRUE]
  <2>1. n \in Connection /\ ConnOK(n) /\ ~Handled(n)
    BY UnusedOK, Zenon DEF Connection, ConnOK, Handled, Unused, Sides
  <2> QED BY <1>0, <1>1, <2>1, ConnStep, Zenon DEF Accept, Handled
<1>2. CASE Refuse(c)
  BY <1>0, <1>2, UnusedOK, ConnStep DEF Refuse, Handled
<1>3. CASE HandleFails(c)
  <2> DEFINE n == [r EXCEPT !.stage = "return", !.failed = TRUE]
  <2>1. r.stage \in {"peek", "dial"} /\ Becomes(c, n)
    BY <1>3 DEF HandleFails
  <2>2. n \in Connection /\ ConnOK(n) /\ Handled(n) /\ Handled(r)
    BY <1>0, <2>1, Zenon DEF Connection, ConnOK, Handled, Sides
  <2> QED BY <1>0, <2>1, <2>2, ConnStep
<1>4. CASE Peeked(c)
  <2> DEFINE n == [r EXCEPT !.stage = "dial"]
  <2>1. r.stage = "peek" /\ Becomes(c, n)
    BY <1>4 DEF Peeked
  <2>2. n \in Connection /\ ConnOK(n) /\ Handled(n) /\ Handled(r)
    BY <1>0, <2>1 DEF Connection, ConnOK, Handled, Sides
  <2> QED BY <1>0, <2>1, <2>2, ConnStep
<1>5. CASE RelayEnds(c)
  <2> DEFINE n == [r EXCEPT !.stage = "return", !.failed = RelayFailed(c)]
  <2>1. r.stage = "relay" /\ (\A s \in Sides : r.copy[s] = "sent") /\ Becomes(c, n)
    BY <1>5 DEF RelayEnds
  <2>2. RelayFailed(c) \in BOOLEAN
    BY DEF RelayFailed
  <2>3. n \in Connection /\ Handled(n) /\ Handled(r)
    BY <1>0, <2>1, <2>2, Zenon DEF Connection, Handled
  <2>4. r.first \in Sides
    BY <1>0, <2>1 DEF ConnOK, Connection, Sides
  <2>5. "reset" \notin {r.client, r.server} => ~RelayFailed(c)
    <3> SUFFICES ASSUME "reset" \notin {r.client, r.server} PROVE ~RelayFailed(c)
      OBVIOUS
    <3>1. \A s \in Sides : r.err[s] \in {"none", "local"}
      BY <1>0, Zenon DEF ConnOK, Connection
    <3>2. r.err["up"] = "none"
      BY <1>0, <3>1, Zenon DEF ConnOK, Sides
    <3>3. r.err["down"] = "local" => ~r.half /\ r.first = "up"
      BY <1>0, Zenon DEF ConnOK, Sides
    <3> QED BY <2>4, <3>1, <3>2, <3>3 DEF RelayFailed, FullyCloses, Sides
  <2>6. ~RelayFailed(c) =>
          \A s \in Sides : r.err[s] # "none" => s = "down" /\ r.first = "up" /\ ~r.half
    <3> SUFFICES ASSUME ~RelayFailed(c), NEW s \in Sides, r.err[s] # "none"
                 PROVE  s = "down" /\ r.first = "up" /\ ~r.half
      OBVIOUS
    <3>1. s # r.first /\ FullyCloses(c, r.first)
      BY DEF RelayFailed
    <3> QED BY <3>1 DEF FullyCloses, Sides
  <2>7. ConnOK(n)
    BY <1>0, <2>1, <2>2, <2>4, <2>5, <2>6 DEF Connection, ConnOK, Sides
  <2> QED BY <1>0, <2>1, <2>3, <2>7, ConnStep
<1>6. CASE Dialed(c)
  <2>1. PICK h \in BOOLEAN :
          Becomes(c, [r EXCEPT !.stage = "relay", !.outOpen = TRUE, !.half = h])
    BY <1>6, Zenon DEF Dialed
  <2> DEFINE n == [r EXCEPT !.stage = "relay", !.outOpen = TRUE, !.half = h]
  <2>2. r.stage = "dial"
    BY <1>6, Zenon DEF Dialed
  <2>3. n \in Connection /\ ConnOK(n) /\ Handled(n) /\ Handled(r)
    BY <1>0, <2>2, Zenon DEF Connection, ConnOK, Handled, Sides
  <2> QED BY <1>0, <2>1, <2>3, ConnStep
<1> QED BY <1>1, <1>2, <1>3, <1>4, <1>5, <1>6

\* Only a client or a server that resets the stream makes an error of the
\* peer's, and what a peer has reset stays reset.
LEMMA PeerKeeps ==
  ASSUME RelayInv, NEW c \in Conns, PeerEnds(c)
  PROVE  RelayInv' /\ Handlers' = Handlers
<1> DEFINE r == conn[c]
<1>0. r \in Connection /\ ConnOK(r) /\ UNCHANGED <<slots, stopping>>
  BY DEF RelayInv, PeerEnds
<1>1. ASSUME NEW how \in {"fin", "reset"}, r.client # "reset",
             Becomes(c, [r EXCEPT !.client = how])
      PROVE  RelayInv' /\ Handlers' = Handlers
  <2> DEFINE n == [r EXCEPT !.client = how]
  <2>1. n \in Connection /\ ConnOK(n) /\ (Handled(n) <=> Handled(r))
    BY <1>0, <1>1 DEF Connection, ConnOK, Handled, Sides, Peer
  <2> QED BY <1>0, <1>1, <2>1, ConnStep
<1>2. ASSUME NEW how \in {"fin", "reset"}, r.server # "reset",
             Becomes(c, [r EXCEPT !.server = how])
      PROVE  RelayInv' /\ Handlers' = Handlers
  <2> DEFINE n == [r EXCEPT !.server = how]
  <2>1. n \in Connection /\ ConnOK(n) /\ (Handled(n) <=> Handled(r))
    BY <1>0, <1>2 DEF Connection, ConnOK, Handled, Sides, Peer
  <2> QED BY <1>0, <1>2, <2>1, ConnStep
<1> QED BY <1>1, <1>2, Zenon DEF PeerEnds

\* A copy that has ended without an error has a source that sends no more.
LEMMA SendsKeeps ==
  ASSUME RelayInv, NEW c \in Conns, NEW s \in Sides, PeerSends(c, s)
  PROVE  RelayInv' /\ Handlers' = Handlers
<1> DEFINE r == conn[c]
           n == [r EXCEPT !.unread = @ \cup {s}]
<1>0. r \in Connection /\ ConnOK(r) /\ UNCHANGED <<slots, stopping>> /\ Becomes(c, n)
  BY DEF RelayInv, PeerSends
<1>1. (s = "up" => r.client = "open") /\ (s = "down" => r.server = "open")
  BY DEF PeerSends, Source
<1>2. n \in Connection /\ (Handled(n) <=> Handled(r))
  BY <1>0 DEF Connection, Handled
<1>3. ConnOK(n)
  BY <1>0, <1>1 DEF Connection, ConnOK, Sides
<1> QED BY <1>0, <1>2, <1>3, ConnStep

\* The copies: they meet at completed and at closeWrite.
LEMMA CopyKeeps ==
  ASSUME RelayInv, NEW c \in Conns, NEW s \in Sides, CopyStep(c, s) \/ Written(c, s)
  PROVE  RelayInv' /\ Handlers' = Handlers
<1> DEFINE r == conn[c]
<1>0. r \in Connection /\ ConnOK(r) /\ UNCHANGED <<slots, stopping>>
  BY DEF RelayInv, CopyStep, Reads, ReadEnds, MarkFirst, SendResult, WriteFails, Written
<1>1. ASSUME NEW e \in {"none", "peer", "local"}, Copying(c, s), CopyEnds(c, s, e),
             e = "peer" => "reset" \in {r.client, r.server},
             e = "local" => s = "down" /\ ~r.outOpen,
             e = "none" => /\ s \notin r.unread /\ s \notin r.unwritten
                           /\ s = "up" => r.client # "open"
                           /\ s = "down" => r.server # "open"
      PROVE  RelayInv' /\ Handlers' = Handlers
  <2> DEFINE n == [r EXCEPT !.copy[s] = "returned", !.err[s] = e]
  <2>1. r.stage = "relay" /\ r.copy[s] = "copying" /\ Becomes(c, n)
    BY <1>1 DEF Copying, CopyEnds
  <2>2. n \in Connection /\ Handled(n) /\ Handled(r)
    BY <1>0, <2>1, Zenon DEF Connection, Handled
  <2>3. e = "local" => ~r.half /\ r.first = "up"
    BY <1>0, <1>1, <2>1 DEF ConnOK, Connection, Sides
  <2>4. ConnOK(n)
    BY <1>0, <1>1, <2>1, <2>3 DEF Connection, ConnOK, Sides
  <2> QED BY <1>0, <2>1, <2>2, <2>4, ConnStep
<1>2. CASE ReadEnds(c, s)
  BY <1>1, <1>2 DEF ReadEnds, ReadErrors, Readable, Writing, Source, Sides
<1>3. CASE WriteFails(c, s)
  BY <1>1, <1>3 DEF WriteFails, Writing, Sink
<1>4. CASE Reads(c, s) \/ Written(c, s)
  <2>1. PICK u \in SUBSET Sides, v \in SUBSET Sides :
          /\ Becomes(c, [r EXCEPT !.unread = u, !.unwritten = v])
          /\ u \ {s} = r.unread \ {s} /\ v \ {s} = r.unwritten \ {s}
    <3>1. r.unread \in SUBSET Sides /\ r.unwritten \in SUBSET Sides /\ r.unread = r.unread \cup {}
      BY <1>0 DEF Connection
    <3>2. CASE Reads(c, s)
      <4>1. Becomes(c, [r EXCEPT !.unread = r.unread \ {s}, !.unwritten = r.unwritten \cup {s}])
        BY <3>2 DEF Reads
      <4>2. r.unread \ {s} \in SUBSET Sides /\ r.unwritten \cup {s} \in SUBSET Sides
        BY <3>1
      <4> HIDE DEF r
      <4>3. (r.unread \ {s}) \ {s} = r.unread \ {s}
            /\ (r.unwritten \cup {s}) \ {s} = r.unwritten \ {s}
        OBVIOUS
      <4> QED BY <4>1, <4>2, <4>3, Zenon
    <3>3. CASE Written(c, s)
      <4>1. [r EXCEPT !.unwritten = @ \ {s}]
              = [r EXCEPT !.unread = r.unread, !.unwritten = r.unwritten \ {s}]
        BY <1>0, Zenon DEF Connection
      <4>2. Becomes(c, [r EXCEPT !.unread = r.unread, !.unwritten = r.unwritten \ {s}])
        BY <3>3, <4>1 DEF Written
      <4>3. r.unwritten \ {s} \in SUBSET Sides
        BY <3>1
      <4> HIDE DEF r
      <4>4. (r.unwritten \ {s}) \ {s} = r.unwritten \ {s}
        OBVIOUS
      <4> QED BY <3>1, <4>2, <4>3, <4>4, Zenon
    <3> QED BY <1>4, <3>2, <3>3, Zenon
  <2> DEFINE n == [r EXCEPT !.unread = u, !.unwritten = v]
  <2>2. r.stage = "relay" /\ r.copy[s] = "copying"
    BY <1>4 DEF Reads, Written, Writing, Copying
  <2>3. n \in Connection /\ (Handled(n) <=> Handled(r))
    BY <1>0, Zenon DEF Connection, Handled
  <2>4. ConnOK(n)
    BY <1>0, <2>1, <2>2 DEF Connection, ConnOK
  <2> QED BY <1>0, <2>1, <2>3, <2>4, ConnStep
<1>5. CASE MarkFirst(c, s)
  <2> DEFINE n == [r EXCEPT !.copy[s] = "marked", !.first = IF @ = "none" THEN s ELSE @]
  <2>1. r.copy[s] = "returned" /\ Becomes(c, n)
    BY <1>5 DEF MarkFirst
  <2>2. r.stage = "relay"
    BY <1>0, <2>1 DEF ConnOK, Connection
  <2>3. n \in Connection /\ Handled(n) /\ Handled(r)
    BY <1>0, <2>2, Zenon DEF Connection, Handled
  <2>4. ConnOK(n)
    BY <1>0, <2>1, <2>2 DEF Connection, ConnOK, Sides
  <2> QED BY <1>0, <2>1, <2>3, <2>4, ConnStep
<1>6. CASE SendResult(c, s)
  <2> DEFINE n == [r EXCEPT !.copy[s] = "sent", !.outOpen = @ /\ ~FullyCloses(c, s)]
  <2>1. r.copy[s] = "marked" /\ Becomes(c, n)
    BY <1>6 DEF SendResult
  <2>2. r.stage = "relay"
    BY <1>0, <2>1 DEF ConnOK, Connection
  <2>3. n \in Connection /\ Handled(n) /\ Handled(r)
    BY <1>0, <2>2, Zenon DEF Connection, Handled
  <2>4. ConnOK(n)
    BY <1>0, <2>1, <2>2 DEF Connection, ConnOK, Sides, FullyCloses
  <2> QED BY <1>0, <2>1, <2>3, <2>4, ConnStep
<1> QED BY <1>2, <1>3, <1>4, <1>5, <1>6 DEF CopyStep
-----------------------------------------------------------------------------
\* A connection is admitted into a free slot and becomes one more handler.
LEMMA AdmitTakes ==
  ASSUME RelayInv, NEW c \in Conns, Admit(c)
  PROVE  /\ c \notin Handlers /\ Handlers' = Handlers \cup {c}
         /\ Cardinality(Handlers) < MaxActive /\ RelayInv'
<1> DEFINE r == conn[c]
           n == [r EXCEPT !.stage = "peek"]
<1>1. r.stage = "accepted" /\ conn' = [conn EXCEPT ![c] = n] /\ slots < MaxActive
      /\ slots' = slots + 1 /\ stopping' = stopping
  BY DEF Admit, HasRoom, Becomes
<1>2. r \in Connection /\ ConnOK(r)
  BY DEF RelayInv
<1>3. n \in Connection /\ ConnOK(n) /\ n.stage = "peek"
  BY <1>1, <1>2 DEF Connection, ConnOK, Sides
<1>4. c \notin Handlers /\ Handlers' = Handlers \cup {c}
  <2> HIDE DEF n
  <2> QED BY <1>1, <1>3 DEF RelayInv, Handlers
<1>5. Cardinality(Handlers') = Cardinality(Handlers) + 1
  BY <1>4, HandlersFinite, FS_AddElement
<1>6. slots' = Cardinality(Handlers') /\ slots' \in Nat /\ slots' <= MaxActive
  BY <1>1, <1>5, TcpAssumption DEF RelayInv
<1>7. conn' \in [Conns -> Connection] /\ \A d \in Conns : ConnOK(conn'[d])
  <2> HIDE DEF n
  <2> QED BY <1>1, <1>3 DEF RelayInv
<1> QED BY <1>1, <1>4, <1>6, <1>7 DEF RelayInv

\* A handler returns once, whether it failed or relayed, and frees its slot.
LEMMA ReturnFrees ==
  ASSUME RelayInv, NEW c \in Conns, Return(c)
  PROVE  c \in Handlers /\ Handlers' = Handlers \ {c} /\ RelayInv'
<1>1. conn[c].stage = "return" /\ conn' = [conn EXCEPT ![c] = Unused]
      /\ slots' = slots - 1 /\ stopping' = stopping
  BY DEF Return, Release, Becomes
<1>2. c \in Handlers /\ Handlers' = Handlers \ {c}
  BY <1>1, UnusedOK DEF RelayInv, Handlers, Handled
<1>3. Cardinality(Handlers') = Cardinality(Handlers) - 1 /\ Cardinality(Handlers') \in Nat
      /\ Cardinality(Handlers) \in Nat
  BY <1>2, HandlersFinite, FS_RemoveElement, FS_CardinalityType
<1>4. slots' = Cardinality(Handlers') /\ slots' \in Nat /\ slots' <= MaxActive
  BY <1>1, <1>3, TcpAssumption DEF RelayInv
<1>5. conn' \in [Conns -> Connection] /\ \A d \in Conns : ConnOK(conn'[d])
  BY <1>1, UnusedOK DEF RelayInv
<1> QED BY <1>1, <1>2, <1>4, <1>5 DEF RelayInv

\* Every step keeps the invariant and is a step of the pool, or none.
LEMMA Step == RelayInv /\ [Next]_vars => RelayInv' /\ [Pool!Next]_Handlers
<1> SUFFICES ASSUME RelayInv, [Next]_vars PROVE RelayInv' /\ [Pool!Next]_Handlers
  OBVIOUS
<1>1. ASSUME NEW c \in Conns, Admit(c) PROVE RelayInv' /\ Pool!Next
  <2>1. Pool!Cardinality(Handlers) = Cardinality(Handlers)
    BY Zenon DEF Pool!Cardinality, Cardinality
  <2> QED BY <1>1, <2>1, AdmitTakes DEF Pool!Next, Pool!Acquire
<1>2. ASSUME NEW c \in Conns, Return(c) PROVE RelayInv' /\ Pool!Next
  BY <1>2, ReturnFrees DEF Pool!Next, Pool!Release
<1>3. CASE Stop \/ UNCHANGED vars
  <2>1. UNCHANGED <<conn, slots>> /\ stopping' \in BOOLEAN
    BY <1>3, Zenon DEF Stop, vars, RelayInv
  <2> QED BY <2>1 DEF RelayInv, Handlers
<1> QED BY <1>1, <1>2, <1>3, HandleKeeps, PeerKeeps, SendsKeeps, CopyKeeps DEF Next, Handle
-----------------------------------------------------------------------------
\* Every reachable state has its type, the slots within the capacity of the
\* channel active (tcp.go:54-73).
THEOREM TypeCorrect == Spec => []TypeOK
<1>1. RelayInv => TypeOK
  BY TcpAssumption DEF RelayInv, TypeOK
<1> QED BY <1>1, InitInv, Step, PTL DEF Spec

\* Every slot in use belongs to a connection being handled, and no outbound
\* stream is open outside a handler (tcp.go:54-100).
THEOREM SlotsCorrect == Spec => []SlotsMatchHandlers
<1>1. RelayInv => SlotsMatchHandlers
  BY DEF RelayInv, SlotsMatchHandlers, ConnOK, Connection
<1> QED BY <1>1, InitInv, Step, PTL DEF Spec

\* A relay whose peers only ended their streams returns no error, in every
\* order of the two copies (tcp.go:190-218).
THEOREM CleanEndCorrect == Spec => []CleanEndIsNoError
<1>1. RelayInv => CleanEndIsNoError
  BY DEF RelayInv, CleanEndIsNoError, ConnOK
<1> QED BY <1>1, InitInv, Step, PTL DEF Spec

\* A relay that returns no error has lost nothing its peers sent, in every order of
\* the two copies, but for what a server was sending when the client ended a stream
\* without half-close (tcp.go:190-230).
THEOREM DeliveryCorrect == Spec => []NothingCutSilently
<1>1. RelayInv => NothingCutSilently
  <2> SUFFICES ASSUME RelayInv, NEW c \in Conns,
                      conn[c].stage = "return", conn[c].first # "none", ~conn[c].failed,
                      NEW s \in conn[c].unread \cup conn[c].unwritten
               PROVE  s = "down" /\ conn[c].first = "up" /\ ~conn[c].half
    BY DEF NothingCutSilently
  <2>1. conn[c] \in Connection /\ ConnOK(conn[c])
    BY DEF RelayInv
  <2>2. s \in Sides
    BY <2>1 DEF Connection
  <2>3. conn[c].err[s] # "none"
    BY <2>1, <2>2 DEF ConnOK
  <2> QED BY <2>1, <2>2, <2>3 DEF ConnOK
<1> QED BY <1>1, InitInv, Step, PTL DEF Spec

\* The channel active is a pool of slots, each held by the handler it was taken
\* for and given back once (tcp.go:54-73, SlotPool).
THEOREM PoolRefined == Spec => HandlersPooled
<1>1. Init => Pool!Init
  BY InitInv DEF Pool!Init
<1> QED BY <1>1, InitInv, Step, PTL DEF Spec, HandlersPooled, Pool!Spec
=============================================================================
