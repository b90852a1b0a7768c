---------------------------- MODULE PolicyGraph ----------------------------
(***************************************************************************)
(* Policy processing of a certification path (tc_x509_path_policies with   *)
(* x509_policy.c).  The code keeps a graph with one node for each policy   *)
(* and depth in caller storage; RFC 5280 describes a tree, which can grow  *)
(* exponentially.  The module runs the code's graph, and beside it the     *)
(* tree of the RFC as a set of chains, over every short path.              *)
(***************************************************************************)
EXTENDS Integers, Sequences, FiniteSets, SequencesExt

CONSTANTS
  PathLength,       \* certificates in the path
  NodeCapacity, EdgeCapacity, ExpectedCapacity    \* caller storage

VARIABLES
  graph,      \* nodes, edges <<parent, child>>, expected <<node, policy>>, depth
  counters,   \* explicit_policy, mapping, any
  todo,       \* certificates left
  answer,     \* status, and the policies reported
  tree,       \* reference: the chains of policies that reach the current depth
  means,      \* reference: what each policy of the last certificate is mapped to
  counted     \* reference: certificates so far that were not self-issued

vars == <<graph, counters, todo, answer, tree, means, counted>>

AnyPolicy == 0
A == 1
B == 2
Policies == {AnyPolicy, A, B}
None == 99        \* an absent constraint

(* Certificates, by what the policy pass reads of them. *)
Plain == [policies |-> {}, mappings |-> {}, self_issued |-> FALSE, critical_unknown |-> FALSE,
          require_explicit |-> None, inhibit_mapping |-> None, inhibit_any |-> None]
Mappings == {{<<A, B>>}, {<<A, B>>, <<B, A>>}, {<<B, A>>}, {<<A, AnyPolicy>>}}
Controls == {Plain, [Plain EXCEPT !.self_issued = TRUE], [Plain EXCEPT !.require_explicit = 0],
             [Plain EXCEPT !.inhibit_mapping = 0], [Plain EXCEPT !.inhibit_any = 0]}
Certificates ==
  {[c EXCEPT !.policies = p] : c \in Controls, p \in SUBSET Policies}
    \cup {[Plain EXCEPT !.policies = p, !.mappings = m] : p \in SUBSET Policies \ {{}}, m \in Mappings}
    \cup {[Plain EXCEPT !.policies = {A}, !.critical_unknown = TRUE]}

(* The graph. *)
NewGraph == [nodes |-> <<[oid |-> AnyPolicy, depth |-> 0, alive |-> TRUE, mapped |-> FALSE]>>,
             edges |-> {}, expected |-> {}, depth |-> 0, full |-> FALSE]

Live(g, depth) == {i \in DOMAIN g.nodes : g.nodes[i].alive /\ g.nodes[i].depth = depth}
Find(g, depth, oid) == {i \in Live(g, depth) : g.nodes[i].oid = oid}

\* Mutant: the last place of the storage is taken for free.
AddNodeOver(g, oid, parents) ==
  [g EXCEPT !.nodes = Append(@, [oid |-> oid, depth |-> g.depth, alive |-> TRUE, mapped |-> FALSE]),
            !.full = Len(g.nodes) > NodeCapacity,
            !.edges = @ \cup {<<p, Len(g.nodes) + 1>> : p \in parents}]

\* node and link: a node at the current depth, below the given parents.
AddNode(g, oid, parents) ==
  IF Len(g.nodes) = NodeCapacity \/ Cardinality(g.edges) + Cardinality(parents) > EdgeCapacity
  THEN [g EXCEPT !.full = TRUE]
  ELSE [g EXCEPT !.nodes = Append(@, [oid |-> oid, depth |-> g.depth, alive |-> TRUE, mapped |-> FALSE]),
                 !.edges = @ \cup {<<p, Len(g.nodes) + 1>> : p \in parents}]

Expects(g, i, oid) ==
  IF g.nodes[i].mapped THEN <<i, oid>> \in g.expected ELSE g.nodes[i].oid = oid

\* The child for one policy: below every parent that expects it, or else
\* below the anyPolicy node.
Child(g, oid) ==
  LET above == Live(g, g.depth - 1)
      matched == {i \in above : Expects(g, i, oid)}
      parents == IF matched # {} THEN matched ELSE {i \in above : g.nodes[i].oid = AnyPolicy}
  IN  IF g.full \/ Find(g, g.depth, oid) # {} \/ parents = {} THEN g ELSE AddNode(g, oid, parents)

\* From the last node to the first: a node above the current depth that has
\* no living child dies.
Prune(g) ==
  FoldLeft(LAMBDA h, i :
             [h EXCEPT !.nodes[i].alive =
                @ /\ \/ h.nodes[i].depth = h.depth
                     \/ \E e \in h.edges : e[1] = i /\ h.nodes[e[2]].alive],
           g, Reverse([i \in DOMAIN g.nodes |-> i]))

\* What the nodes above let an anyPolicy in the certificate stand for.
Wanted(g) ==
  UNION {IF g.nodes[i].mapped THEN {o \in Policies : <<i, o>> \in g.expected} ELSE {g.nodes[i].oid} :
           i \in Live(g, g.depth - 1)}

GraphStep(g, policies, allow_any) ==
  LET deeper == [g EXCEPT !.depth = @ + 1]
      named == FoldSet(LAMBDA o, h : Child(h, o), deeper, policies \ {AnyPolicy})
  IN  Prune(IF AnyPolicy \in policies /\ allow_any
            THEN FoldSet(LAMBDA o, h : Child(h, o), named, Wanted(deeper)) ELSE named)

\* One mapping where mapping is allowed: the node, or one made for it below
\* the anyPolicy node above, expects the subject's policy from now on.
MapOne(g, m) ==
  LET here == Find(g, g.depth, m[1])
      made == IF here = {} /\ Find(g, g.depth, AnyPolicy) # {}
              THEN AddNode(g, m[1], Find(g, g.depth - 1, AnyPolicy)) ELSE g
      node == Find(made, made.depth, m[1])
  IN  IF g.full \/ made.full \/ node = {} THEN made
      ELSE LET n == CHOOSE i \in node : TRUE
               fits == <<n, m[2]>> \in made.expected
                         \/ Cardinality(made.expected) < ExpectedCapacity
           IN  [made EXCEPT !.nodes[n].mapped = TRUE,
                            !.expected = IF fits THEN @ \cup {<<n, m[2]>>} ELSE @,
                            !.full = ~fits]

GraphMap(g, mappings, allow_mapping) ==
  IF allow_mapping THEN FoldSet(LAMBDA m, h : MapOne(h, m), g, mappings)
  ELSE Prune([g EXCEPT !.nodes = [i \in DOMAIN g.nodes |->
          [g.nodes[i] EXCEPT !.alive =
             @ /\ ~\E m \in mappings : i \in Find(g, g.depth, m[1])]]])

\* tc_x509_policy_graph_output: nodes below an anyPolicy node, and anyPolicy
\* at the end of the path, in the names of the caller and of the anchor.
Output(g, initial, anchor_set) ==
  LET authority == {g.nodes[i].oid : i \in {i \in DOMAIN g.nodes :
          /\ g.nodes[i].alive
          /\ IF g.nodes[i].oid = AnyPolicy THEN g.nodes[i].depth = g.depth
             ELSE \E e \in g.edges : e[2] = i /\ g.nodes[e[1]].oid = AnyPolicy}}
      unrestricted == initial = {} \/ AnyPolicy \in initial
      anchor_unrestricted == anchor_set = {} \/ AnyPolicy \in anchor_set
      named == (IF unrestricted THEN anchor_set
                ELSE IF anchor_unrestricted THEN initial ELSE initial \cap anchor_set) \ {AnyPolicy}
  IN  IF unrestricted /\ anchor_unrestricted THEN authority
      ELSE {p \in named : p \in authority \/ AnyPolicy \in authority}

(* The counters. *)
Down(n) == IF n > 0 THEN n - 1 ELSE 0
Smaller(a, b) == IF a < b THEN a ELSE b

\* tc_x509_policy_counters_advance for an intermediate.
Advance(c) ==
  LET down(n) == IF c.self_issued THEN n ELSE Down(n)
  IN  [explicit_policy |-> Smaller(down(counters.explicit_policy), c.require_explicit),
       mapping |-> Smaller(down(counters.mapping), c.inhibit_mapping),
       any |-> Smaller(down(counters.any), c.inhibit_any)]

(* Reference: the valid policy tree of RFC 5280, section 6.1, by chains.   *)
ExpectedSet(chain) == IF chain = <<>> THEN {AnyPolicy} ELSE means[Last(chain)]
IsWild(chain) == \A i \in DOMAIN chain : chain[i] = AnyPolicy

TreeStep(c, allow_any) ==
  LET named == {<<t, p>> \in tree \X (c.policies \ {AnyPolicy}) :
                  \/ p \in ExpectedSet(t)
                  \/ IsWild(t) /\ \A u \in tree : p \notin ExpectedSet(u)}
      wild == IF AnyPolicy \in c.policies /\ allow_any
              THEN {<<t, p>> \in tree \X Policies : p \in ExpectedSet(t)} ELSE {}
  IN  {Append(pair[1], pair[2]) : pair \in named \cup wild}

Identity == [p \in Policies |-> {p}]
MappedTo(c, p) == {q \in Policies : <<p, q>> \in c.mappings}
TreeMap(t, c, allow_mapping) ==
  LET mapped == {p \in Policies : MappedTo(c, p) # {}}
      wild == {u \in t : IsWild(u)}
  IN  IF ~allow_mapping THEN {u \in t : Last(u) \notin mapped}
      ELSE t \cup {Append(Front(u), p) : u \in wild,
                     p \in {p \in mapped : \A v \in t : Last(v) # p}}

FirstNamed(chain) ==
  IF IsWild(chain) THEN AnyPolicy
  ELSE chain[CHOOSE i \in DOMAIN chain : chain[i] # AnyPolicy /\ \A j \in 1 .. i - 1 : chain[j] = AnyPolicy]

Init ==
  /\ graph = NewGraph /\ todo = PathLength /\ tree = {<<>>} /\ means = Identity /\ counted = 0
  /\ answer = [status |-> "NONE", policies |-> {}, initial |-> {}, anchor |-> {}]
  /\ counters \in [explicit_policy : {0, PathLength + 1}, mapping : {0, PathLength + 1},
                   any : {0, PathLength + 1}]
  /\ Cardinality({f \in DOMAIN counters : counters[f] = 0}) <= 1

Return(status, policies) == answer' = [answer EXCEPT !.status = status, !.policies = policies]

\* One intermediate: policies, the explicit-policy check, mappings, counters.
Intermediate(c) ==
  LET allow_any == counters.any > 0 \/ c.self_issued
      allow_mapping == counters.mapping > 0
      fails(status) == Return(status, {}) /\ UNCHANGED <<graph, counters, todo, tree, means, counted>>
  IN  /\ todo > 1 /\ answer.status = "NONE"
      /\ \E stepped \in {GraphStep(graph, c.policies, allow_any)} :
         \E mapped \in {GraphMap(stepped, c.mappings, allow_mapping)} :
         IF c.critical_unknown THEN fails("UNSUPPORTED")
         ELSE IF stepped.full THEN fails("LIMIT")
         ELSE IF counters.explicit_policy = 0 /\ ~stepped.nodes[1].alive THEN fails("INVALID")
         ELSE IF \E m \in c.mappings : AnyPolicy \in {m[1], m[2]} THEN fails("INVALID")
         ELSE IF mapped.full THEN fails("LIMIT")
         ELSE /\ graph' = mapped /\ counters' = Advance(c) /\ todo' = todo - 1
              /\ \E grown \in {TreeStep(c, allow_any)} : tree' = TreeMap(grown, c, allow_mapping)
              /\ means' = IF allow_mapping
                          THEN [p \in Policies |-> IF MappedTo(c, p) = {} THEN {p} ELSE MappedTo(c, p)]
                          ELSE Identity
              /\ counted' = counted + (IF c.self_issued THEN 0 ELSE 1)
              /\ UNCHANGED answer

\* The target: policies, the check, the last counter, and the result.
Target(c, initial, anchor_set) ==
  LET explicit == IF c.require_explicit = 0 THEN 0 ELSE Down(counters.explicit_policy)
      returns(status, policies) ==
        answer' = [status |-> status, policies |-> policies, initial |-> initial, anchor |-> anchor_set]
  IN  /\ todo = 1 /\ answer.status = "NONE" /\ todo' = 0
      /\ \E stepped \in {GraphStep(graph, c.policies, counters.any > 0)} :
         \E output \in {Output(stepped, initial, anchor_set)} :
           /\ graph' = stepped
           /\ IF stepped.full THEN returns("LIMIT", {})
              ELSE IF counters.explicit_policy = 0 /\ ~stepped.nodes[1].alive
              THEN returns("INVALID", {})
              ELSE IF explicit > 0 \/ output # {} THEN returns("VALID", output)
              ELSE returns("INVALID", {})
      /\ tree' = TreeStep(c, counters.any > 0) /\ means' = Identity
      /\ counters' = [counters EXCEPT !.explicit_policy = explicit] /\ counted' = counted + 1

\* AnyPolicy charge on the way may find the work exhausted.
Exhausted ==
  /\ answer.status = "NONE" /\ Return("LIMIT", {})
  /\ UNCHANGED <<graph, counters, todo, tree, means, counted>>

UserSets == {{}, {A}, {A, B}, {AnyPolicy, B}}
AnchorSets == {{}, {A}, {B, AnyPolicy}}
Targets == {[Plain EXCEPT !.policies = p] : p \in SUBSET Policies}
             \cup {[Plain EXCEPT !.policies = {A}, !.require_explicit = 0]}

Next ==
  \/ \E c \in Certificates : Intermediate(c)
  \/ \E c \in Targets, u \in UserSets, s \in AnchorSets : Target(c, u, s)
  \/ Exhausted
  \/ answer.status # "NONE" /\ UNCHANGED vars

Spec == Init /\ [][Next]_vars

\* The storage is a layered graph: edges lead from a node to a later one, one
\* deeper, which is what lets the pruning make a single pass, and living
\* nodes of one depth differ in their policy.
TypeOK ==
  /\ Len(graph.nodes) <= NodeCapacity /\ Cardinality(graph.edges) <= EdgeCapacity
  /\ Cardinality(graph.expected) <= ExpectedCapacity
  /\ \A e \in graph.edges :
       e[1] < e[2] /\ graph.nodes[e[2]].depth = graph.nodes[e[1]].depth + 1
  /\ \A i, j \in DOMAIN graph.nodes :
       (i # j /\ graph.nodes[i].depth = graph.nodes[j].depth /\ graph.nodes[i].alive
          /\ graph.nodes[j].alive) => graph.nodes[i].oid # graph.nodes[j].oid
  /\ counters \in [explicit_policy : 0 .. PathLength + 1, mapping : 0 .. PathLength + 1,
                   any : 0 .. PathLength + 1]

\* The living nodes of every depth are the policies that the tree has there.
GraphIsTree ==
  ~graph.full => \A d \in 1 .. graph.depth :
    {graph.nodes[i].oid : i \in Live(graph, d)} = {chain[d] : chain \in tree}

\* A path reports the policies of the tree that the caller and the anchor
\* both allow, and is refused for its policies only when there are none and
\* an explicit policy is called for.
ReportedPoliciesExact ==
  LET allows(set, p) == set = {} \/ AnyPolicy \in set \/ p \in set
      limits == answer.initial \cup answer.anchor
  IN  todo = 0 =>
        \E authority \in {{FirstNamed(chain) : chain \in tree}} :
        \E policies \in {{p \in Policies :
                          /\ allows(answer.initial, p) /\ allows(answer.anchor, p)
                          /\ \/ p \in authority
                             \/ AnyPolicy \in authority /\ p # AnyPolicy /\ p \in limits
                                  /\ {s \in {answer.initial, answer.anchor} :
                                        s # {} /\ AnyPolicy \notin s} # {}}} :
          /\ answer.status = "VALID" =>
               answer.policies = policies /\ (policies = {} => counters.explicit_policy > 0)
          /\ answer.status = "INVALID" => policies = {} /\ counters.explicit_policy = 0

\* A counter is at zero, or it has counted the certificates that were not
\* self-issued (the constraints of these certificates are all zero).
CountersExact ==
  \A f \in DOMAIN counters :
    (todo > 0 \/ f = "explicit_policy") => counters[f] \in {0, PathLength + 1 - counted}

=============================================================================
