------------------------------ MODULE Routing ------------------------------
(***************************************************************************)
(* How a flow is routed: the classifier of internal/policy with its domain *)
(* and prefix trees, the decisions that the TCP and UDP servers take with  *)
(* it, and the chain of nft rules that decides which flows reach the core. *)
(*                                                                         *)
(* The trees are built rule by rule, in every order.  A name is the        *)
(* sequence of its labels from the top level down, an address a sequence   *)
(* of Width bits, a tree a function on the paths it has nodes for.         *)
(***************************************************************************)
EXTENDS Naturals, Sequences, FiniteSets

CONSTANTS
    Labels,         \* labels of names
    Depth,          \* the most labels of a name
    Width,          \* the bits of an address, 32 in the code
    MaxRules        \* bound on the rules added

ASSUME RoutingAssumption ==
    /\ Depth \in Nat /\ Width \in Nat /\ MaxRules \in Nat

VARIABLES
    explicitDomains, chinaDomains,  \* classifier's domain trees
    explicitIPv4, chinaIPv4,        \* classifier's prefix trees
    rules                           \* history: the rules they were built from

routingVars == <<explicitDomains, chinaDomains, explicitIPv4, chinaIPv4, rules>>

Bits == {0, 1}
Paths(S, n) == UNION {[1..k -> S] : k \in 0..n}
Names == Paths(Labels, Depth) \ {<<>>}
Addresses == [1..Width -> Bits]
Prefixes == Paths(Bits, Width)
RuleActions == {"direct", "proxy"}
Learned == [direct : BOOLEAN, proxy : BOOLEAN]

\* What the sniffer makes of a flow's first bytes: no name, a name that is an
\* address, one that is not DNS syntax, or a proper one.
NoName == <<>>
Literal == <<"literal">>
Invalid == <<"invalid">>
Sniffed == [domain : Names \cup {NoName, Literal, Invalid}, tls : BOOLEAN,
            complete : BOOLEAN, ech : BOOLEAN]

\* The trees hold actions; every node's parent is a node (domains.go:37-47,
\* ipv4.go:16-29).
RoutingTypeOK ==
    /\ \A tree \in {explicitDomains, chinaDomains} :
        /\ DOMAIN tree \subseteq Paths(Labels, Depth)
        /\ \A p \in DOMAIN tree : tree[p].suffix \in RuleActions \cup {"unknown"}
                                  /\ tree[p].exact \in RuleActions \cup {"unknown"}
    /\ \A tree \in {explicitIPv4, chinaIPv4} :
        DOMAIN tree \subseteq Prefixes /\ \A p \in DOMAIN tree : tree[p] \in RuleActions \cup {"unknown"}
    /\ \A nodes \in {DOMAIN explicitDomains, DOMAIN chinaDomains,
                    DOMAIN explicitIPv4, DOMAIN chinaIPv4} :
        \A p \in nodes : \A k \in 0..Len(p) : SubSeq(p, 1, k) \in nodes

BlankDomain == [suffix |-> "unknown", exact |-> "unknown"]
Root(blank) == [p \in {<<>>} |-> blank]

RoutingInit ==
    /\ explicitDomains = Root(BlankDomain) /\ chinaDomains = Root(BlankDomain)
    /\ explicitIPv4 = Root("unknown") /\ chinaIPv4 = Root("unknown")
    /\ rules = {}
-----------------------------------------------------------------------------
\* Two actions for one node, or along a path: proxy wins.
selectAction(current, candidate) ==
    IF current = "proxy" \/ candidate = "proxy" THEN "proxy"
    ELSE IF candidate # "unknown" THEN candidate ELSE current

\* A variant of Grown: the nodes on the way are created anew.
GrownAnew(tree, path, blank) ==
    [p \in DOMAIN tree \cup {SubSeq(path, 1, k) : k \in 0..Len(path)} |->
        IF p \in DOMAIN tree /\ \A k \in 0..(Len(path) - 1) : p # SubSeq(path, 1, k)
        THEN tree[p] ELSE blank]

\* The nodes on the way to a path are created where they are missing.
Grown(tree, path, blank) ==
    [p \in DOMAIN tree \cup {SubSeq(path, 1, k) : k \in 0..Len(path)} |->
        IF p \in DOMAIN tree THEN tree[p] ELSE blank]

AddDomain(tree, name, exact, action) ==
    LET grown == Grown(tree, name, BlankDomain)
    IN  IF exact
        THEN [grown EXCEPT ![name].exact = selectAction(@, action)]
        ELSE [grown EXCEPT ![name].suffix = selectAction(@, action)]

AddPrefix(tree, prefix, action) ==
    [Grown(tree, prefix, "unknown") EXCEPT ![prefix] = selectAction(@, action)]

\* domainTree.match: down the labels until a node is missing; an exact action
\* counts at the last label only.
MatchDomain(tree, name) ==
    LET walk[k \in 0..Len(name)] ==
            LET p == SubSeq(name, 1, k)
            IN  IF k = 0 THEN "unknown"
                ELSE IF p \notin DOMAIN tree THEN walk[k - 1]
                ELSE selectAction(selectAction(walk[k - 1], tree[p].suffix),
                                  IF k = Len(name) THEN tree[p].exact ELSE "unknown")
    IN  walk[Len(name)]

\* A variant of MatchIPv4: the first action met is kept.
MatchIPv4First(tree, addr) ==
    LET walk[k \in 0..Width] ==
            LET p == SubSeq(addr, 1, k)
            IN  IF k = 0 THEN tree[<<>>]
                ELSE IF walk[k - 1] = "unknown" /\ p \in DOMAIN tree THEN tree[p]
                ELSE walk[k - 1]
    IN  walk[Width]

\* ipv4Tree.match: down the bits, keeping the last action met.
MatchIPv4(tree, addr) ==
    LET walk[k \in 0..Width] ==
            LET p == SubSeq(addr, 1, k)
            IN  IF k = 0 THEN tree[<<>>]
                ELSE IF p \in DOMAIN tree /\ tree[p] # "unknown" THEN tree[p]
                ELSE walk[k - 1]
    IN  walk[Width]

Domain(name) ==
    IF name \in {Invalid, Literal} THEN "proxy"
    ELSE IF MatchDomain(explicitDomains, name) # "unknown" THEN MatchDomain(explicitDomains, name)
    ELSE IF MatchDomain(chinaDomains, name) # "unknown" THEN MatchDomain(chinaDomains, name)
    ELSE "proxy"

IsExplicit(addr) == MatchIPv4(explicitIPv4, addr) # "unknown"

IP(addr) ==
    IF IsExplicit(addr) THEN MatchIPv4(explicitIPv4, addr)
    ELSE IF MatchIPv4(chinaIPv4, addr) # "unknown" THEN MatchIPv4(chinaIPv4, addr)
    ELSE "proxy"
-----------------------------------------------------------------------------
\* TCPServer.selectDialer.
selectDialer(addr, name, learned) ==
    IF name # NoName THEN Domain(name)
    ELSE IF IsExplicit(addr) THEN IP(addr)
    ELSE IF learned.direct /\ ~learned.proxy THEN "direct"
    ELSE IF learned.proxy THEN "proxy"
    ELSE IP(addr)

\* TCPServer.dialTarget: the name stands for the address the client chose.
DialsByName(addr, sniffed) ==
    /\ sniffed.tls /\ sniffed.complete /\ ~sniffed.ech
    /\ sniffed.domain \notin {NoName, Literal}
    /\ ~IsExplicit(addr)
    /\ Domain(sniffed.domain) = "proxy"

\* UDPServer.shouldDirect.
shouldDirect(addr, learned) ==
    IF IsExplicit(addr) THEN IP(addr) = "direct"
    ELSE IF learned.proxy THEN FALSE
    ELSE IF learned.direct THEN TRUE
    ELSE IP(addr) = "direct"

\* Learner.reconcile: the set of an address with these relations.  The table
\* reports inspect for an address with both.
SetState(learned) ==
    IF learned.direct /\ learned.proxy THEN "inspect4"
    ELSE IF learned.direct /\ ~learned.proxy THEN "direct4" ELSE "none"

\* dnsmasq (external) adds the addresses it resolves for a configured domain to the
\* force set of the domain's action.  named: the actions of the domains that an
\* address was resolved for.
DomainActions == {r.action : r \in {x \in rules : x.tree = "explicitDomains"}}

\* The force sets: the configured prefixes and what dnsmasq adds.
Covers(S, addr) == \E p \in S : p = SubSeq(addr, 1, Len(p))
ExplicitPrefixes(action) ==
    {r.path : r \in {x \in rules : x.tree = "explicitIPv4" /\ x.action = action}}
ChinaPrefixes == {r.path : r \in {x \in rules : x.tree = "chinaIPv4"}}
Forced(action, addr, named) == Covers(ExplicitPrefixes(action), addr) \/ action \in named

\* A variant of KernelBypasses: force_direct4 is looked at before force_proxy4.
KernelBypassesDirectFirst(addr, learned, named) ==
    \/ Forced("direct", addr, named)
    \/ /\ ~Forced("proxy", addr, named)
       /\ SetState(learned) # "inspect4"
       /\ SetState(learned) = "direct4" \/ Covers(ChinaPrefixes, addr)

\* The nft chain "active" for an address outside bypass4 and the private ranges:
\* force_proxy4, force_direct4, inspect4, direct4, china4, each a membership test.
KernelBypasses(addr, learned, named) ==
    /\ ~Forced("proxy", addr, named)
    /\ \/ Forced("direct", addr, named)
       \/ /\ SetState(learned) # "inspect4"
          /\ SetState(learned) = "direct4" \/ Covers(ChinaPrefixes, addr)
-----------------------------------------------------------------------------
\* policy.New adds the rules of the dataset and of the configuration.
Added(tree, path, exact, action) ==
    /\ Cardinality(rules) < MaxRules
    /\ rules' = rules \cup {[tree |-> tree, path |-> path, exact |-> exact, action |-> action]}

AddChinaDomain(name, exact) ==
    /\ Added("chinaDomains", name, exact, "direct")
    /\ chinaDomains' = AddDomain(chinaDomains, name, exact, "direct")
    /\ UNCHANGED <<explicitDomains, explicitIPv4, chinaIPv4>>

AddChinaPrefix(prefix) ==
    /\ Added("chinaIPv4", prefix, FALSE, "direct")
    /\ chinaIPv4' = AddPrefix(chinaIPv4, prefix, "direct")
    /\ UNCHANGED <<explicitDomains, chinaDomains, explicitIPv4>>

AddDomainRule(name, action) ==
    /\ Added("explicitDomains", name, FALSE, action)
    /\ explicitDomains' = AddDomain(explicitDomains, name, FALSE, action)
    /\ UNCHANGED <<chinaDomains, explicitIPv4, chinaIPv4>>

AddIPRule(prefix, action) ==
    /\ Added("explicitIPv4", prefix, FALSE, action)
    /\ explicitIPv4' = AddPrefix(explicitIPv4, prefix, action)
    /\ UNCHANGED <<explicitDomains, chinaDomains, chinaIPv4>>

RoutingNext ==
    \/ \E name \in Names, exact \in BOOLEAN : AddChinaDomain(name, exact)
    \/ \E prefix \in Prefixes : AddChinaPrefix(prefix)
    \/ \E name \in Names, action \in RuleActions : AddDomainRule(name, action)
    \/ \E prefix \in Prefixes, action \in RuleActions : AddIPRule(prefix, action)

RoutingSpec == RoutingInit /\ [][RoutingNext]_routingVars
-----------------------------------------------------------------------------
\* The reference: the rules of a tree that concern a name, or an address at
\* the greatest length, with a proxy rule winning.
IsPrefixOf(p, s) == Len(p) <= Len(s) /\ p = SubSeq(s, 1, Len(p))

Verdict(S) ==
    IF \E r \in S : r.action = "proxy" THEN "proxy"
    ELSE IF S # {} THEN "direct" ELSE "unknown"

RulesForName(tree, name) ==
    {r \in rules : r.tree = tree /\ IF r.exact THEN r.path = name ELSE IsPrefixOf(r.path, name)}

RulesForAddress(tree, addr) ==
    LET S == {r \in rules : r.tree = tree /\ IsPrefixOf(r.path, addr)}
    IN  {r \in S : \A q \in S : Len(q.path) <= Len(r.path)}

\* In whatever order the rules were added, the domain trees give every name
\* the verdict of the rules on it and its parents, the prefix trees every
\* address that of the longest prefix (policy/domains.go:34-82, ipv4.go:13-55).
TreesAsRules ==
    /\ RoutingTypeOK
    /\ \A name \in Names :
        /\ MatchDomain(explicitDomains, name) = Verdict(RulesForName("explicitDomains", name))
        /\ MatchDomain(chinaDomains, name) = Verdict(RulesForName("chinaDomains", name))
    /\ \A addr \in Addresses :
        /\ MatchIPv4(explicitIPv4, addr) = Verdict(RulesForAddress("explicitIPv4", addr))
        /\ MatchIPv4(chinaIPv4, addr) = Verdict(RulesForAddress("chinaIPv4", addr))

\* A China address without a rule of its own that only proxied domains resolve to:
\* reconcile puts it in no set.
ProxyAlone(addr, learned) ==
    ~IsExplicit(addr) /\ learned.proxy /\ ~learned.direct /\ IP(addr) = "direct"

\* The places that route a flow agree.  The kernel lets a flow pass the core only
\* where the core itself, without a name, would send it direct, or dnsmasq
\* resolved a domain configured direct to it, or in the one case where they differ:
\* a China address with a proxy relation alone passes by china4, although the core
\* would proxy it.  So the order of the nft sets and the longest prefix of the trees
\* never disagree to the loss of the proxy (generate.uc:453-470, learner.go:47-57,
\* tcp.go:116-143).  TCP without a name and UDP decide alike (udp.go:168-185).  A
\* name replaces the address only in a dial through the proxy (tcp.go:102-114).
RoutesAgree ==
    \A addr \in Addresses, learned \in Learned :
        /\ \A named \in SUBSET DomainActions :
            KernelBypasses(addr, learned, named) /\ ~shouldDirect(addr, learned)
                => "direct" \in named \/ ProxyAlone(addr, learned)
        /\ shouldDirect(addr, learned) <=> selectDialer(addr, NoName, learned) = "direct"
        /\ \A sniffed \in Sniffed :
            DialsByName(addr, sniffed) => selectDialer(addr, sniffed.domain, learned) = "proxy"

\* Adding a proxy rule never makes anything direct that was not
\* (policy/domains.go:74-82).
ProxyRuleOnlyCloses ==
    [][\A r \in rules' \ rules : r.action = "proxy" =>
        /\ \A name \in Names : Domain(name) = "proxy" => Domain(name)' = "proxy"
        /\ \A addr \in Addresses : IP(addr) = "proxy" => IP(addr)' = "proxy"]_routingVars
=============================================================================
