--------------------------- MODULE FusionPlanner ---------------------------
(***************************************************************************)
(* The two planners that rewrite a compute graph by fusing operations:     *)
(* fixpoint_fuse (iterative_fusion.pl), which takes the rules it is given  *)
(* in their order, and fuse_graph (graph_optimizer.pl over fusible.pl),    *)
(* which takes the first pair of operations any of its clauses accepts.    *)
(* Both rewrite the facts by apply_fusion.pl.  A block whose feed-forward  *)
(* part is still one opaque operation is expanded first (ffn_expander.pl). *)
(*                                                                         *)
(* An operation is [kind, in, takes, out, level, seq].  kind is the        *)
(* sequence of the operations fused into it, <<a, b, c>> for               *)
(* fused(fused(a, b), c), and takes says how many of the inputs came with  *)
(* each; out, which no two operations share, stands for its name.  A plan  *)
(* is the operations in the order of their op facts.  Tensors are numbers, *)
(* those from Given on are inputs of the graph.                            *)
(***************************************************************************)
EXTENDS Integers, Sequences, FiniteSets, SequencesExt

CONSTANTS
  Graphs,    \* compute graphs as lifted: sequences of operations
  RuleLists, \* the rules a caller of fixpoint_fuse names, in order
  Given      \* the first tensor that no operation writes; the context

VARIABLES
  graph,   \* the graph as lifted, for life
  rules,   \* the rules of fixpoint_fuse, or << >> for fuse_graph
  facts,   \* the plan so far
  planner  \* "expanding", "planning", "done", or "failed": no clause applies the fusion

plannerVars == <<graph, rules, facts, planner>>

---------------------------------------------------------------------------
(* Reading a plan                                                          *)

Reads(op)     == {op.in[i] : i \in DOMAIN op.in}
Written(p)    == {p[i].out : i \in DOMAIN p}
Readers(p, t) == {i \in DOMAIN p : t \in Reads(p[i])}
IsKind(op, kinds) == Len(op.kind) = 1 /\ op.kind[1] \in kinds

\* fusion_rules.pl's classes; a fused kind has none.
Matmul      == {"build_lora_mm", "ggml_mul_mat"}
Elementwise == {"ggml_add", "ggml_mul", "ggml_silu", "ggml_gelu", "ggml_rope_ext"}

\* auto_fuser.pl's classes, and the kinds of which region_inference.pl knows
\* that they read their operands elementwise or broadcast.
Spatial     == {"ggml_mul_mat", "conv2d"}
Reduction   == {"batchnorm", "softmax", "rmsnorm"}
PerElement   == {"ggml_add", "ggml_mul", "ggml_silu", "ggml_gelu", "ggml_scale", "sub"}
ReadsInLine == {"ggml_add", "ggml_mul", "ggml_silu", "sub"}

---------------------------------------------------------------------------
(* Expansion of build_ffn: five primitives in front of the other facts,    *)
(* numbered from the block's own number on.                                *)

Prim(kind, in, out, level, seq) ==
  [kind |-> <<kind>>, in |-> in, takes |-> <<Len(in)>>, out |-> out, level |-> level, seq |-> seq]

Expansion(ffn, last) ==
  LET x == ffn.in[1]  up == ffn.in[2]  gate == ffn.in[3]  down == ffn.in[4]
      t(n) == 10 * ffn.out + n
  IN << Prim("build_lora_mm", <<gate, x>>, t(1), "builder", ffn.seq),
        Prim("build_lora_mm", <<up, x>>, t(2), "builder", ffn.seq + 1),
        Prim("ggml_silu", <<t(1)>>, t(3), "primitive", ffn.seq + 2),
        Prim("ggml_mul", <<t(3), t(2)>>, t(4), "primitive", ffn.seq + 3),
        Prim("build_lora_mm", <<down, t(4)>>, ffn.out, "builder", last) >>

Primitives(ffn) == Expansion(ffn, ffn.seq + 4)

Without(p, gone) == SelectSeq(p, LAMBDA op : op.out \notin gone)

---------------------------------------------------------------------------
(* The rules: a fusion is [rule, ops], the ops as indices into the plan.   *)

SlipAnyConsumers(p, t, allowed) == TRUE
NoOtherConsumers(p, t, allowed) == Readers(p, t) \subseteq {allowed}

Feeds(p, i, j) == i # j /\ p[i].out \in Reads(p[j])

EpiloguePair(p, i, j) ==
  /\ IsKind(p[i], Matmul) /\ IsKind(p[j], Elementwise)
  /\ Feeds(p, i, j) /\ NoOtherConsumers(p, p[i].out, j)

ChainPair(p, i, j) ==
  /\ IsKind(p[i], Elementwise) /\ IsKind(p[j], Elementwise)
  /\ Feeds(p, i, j) /\ NoOtherConsumers(p, p[i].out, j)

LayoutPair(p, i, j) ==
  /\ IsKind(p[i], {"ggml_reshape_3d"}) /\ p[j].level # "builder"
  /\ Feeds(p, i, j) /\ NoOtherConsumers(p, p[i].out, j)

PairFor(rule, p, i, j) ==
  CASE rule = "epilogue_matmul_elementwise" -> EpiloguePair(p, i, j)
    [] rule = "elementwise_chain"           -> ChainPair(p, i, j)
    [] rule = "layout_transparent"          -> LayoutPair(p, i, j)

\* The clauses of fusible_pair, in order.
InLine(p, i, j) == Feeds(p, i, j) /\ IsKind(p[j], PerElement) /\ p[j].kind[1] \in ReadsInLine
Normalised(p, i, j) ==  \* a reduction between the two
  \E k \in DOMAIN p : IsKind(p[k], Reduction) /\ Feeds(p, i, k) /\ Feeds(p, k, j)

Clauses ==
  << "epilogue_matmul_elementwise", "elementwise_chain", "epilogue_of_fused",
     "layout_transparent", "scale_absorption", "spatial_reduction_elementwise",
     "spatial_reduction" >>

ClauseAccepts(rule, p, i, j) ==
  CASE rule = "epilogue_matmul_elementwise" -> IsKind(p[i], Spatial) /\ InLine(p, i, j)
    [] rule = "elementwise_chain" -> IsKind(p[i], PerElement) /\ InLine(p, i, j)
    [] rule = "epilogue_of_fused" ->
         Len(p[i].kind) = 2 /\ p[i].kind[1] \in Spatial /\ InLine(p, i, j)
    [] rule = "layout_transparent" -> IsKind(p[i], {"ggml_reshape_3d"}) /\ Feeds(p, i, j)
    [] rule = "scale_absorption" ->
         /\ IsKind(p[i], {"ggml_mul_mat"}) /\ IsKind(p[j], {"ggml_scale", "ggml_mul"})
         /\ Feeds(p, i, j) /\ Len(p[j].in) = 2
    [] rule = "spatial_reduction_elementwise" ->
         IsKind(p[i], Spatial) /\ IsKind(p[j], PerElement) /\ Normalised(p, i, j)
    [] rule = "spatial_reduction" ->
         IsKind(p[i], Spatial) /\ IsKind(p[j], Reduction) /\ Feeds(p, i, j)

\* The first in the order of three nested loops, by lexicographic rank.
Foremost(set) == CHOOSE f \in set : \A g \in set :
                   \/ f[1] < g[1]
                   \/ f[1] = g[1] /\ f[2] < g[2]
                   \/ f[1] = g[1] /\ f[2] = g[2] /\ f[3] <= g[3]

\* enumerate_with_facts: by rule, then by producer, then by consumer.
FixpointFusions(p) ==
  {<<r, i, j>> \in (DOMAIN rules) \X (DOMAIN p) \X (DOMAIN p) : PairFor(rules[r], p, i, j)}

\* find_fusion: by producer, then by consumer, then by clause.
GraphFusions(p) ==
  {<<i, j, r>> \in (DOMAIN p) \X (DOMAIN p) \X (DOMAIN Clauses) :
     i # j /\ ClauseAccepts(Clauses[r], p, i, j)}

---------------------------------------------------------------------------
(* The rewritings                                                          *)

\* apply_epilogue_fusion and apply_elementwise_chain_fusion: one operation in
\* front of the rest, with the producer's number and what is left to read.
Fused(p, i, j, level) ==
  LET a == p[i]  b == p[j]  rest == SelectSeq(b.in, LAMBDA t : t # a.out)
      one == [kind |-> a.kind \o b.kind, in |-> a.in \o rest, takes |-> Append(a.takes, Len(rest)),
              out |-> b.out, level |-> level, seq |-> a.seq]
  IN <<one>> \o Without(p, {a.out, b.out})

\* apply_layout_transparent_fusion: the consumer reads the reshape's source.
Rewired(p, i, j) ==
  LET source == p[i].in[IF Len(p[i].in) >= 2 THEN 2 ELSE 1]
      rewire(t) == IF t = p[i].out THEN source ELSE t
      reads == [n \in DOMAIN p[j].in |-> rewire(p[j].in[n])]
  IN Without([p EXCEPT ![j].in = reads], {p[i].out})

Applies(rule) == rule \notin {"scale_absorption", "spatial_reduction_elementwise", "spatial_reduction"}

Applied(rule, p, i, j) ==
  CASE rule = "layout_transparent" -> Rewired(p, i, j)
    [] rule = "elementwise_chain"  -> Fused(p, i, j, "primitive")
    [] OTHER                       -> Fused(p, i, j, "matmul")

---------------------------------------------------------------------------

PlannerInit ==
  /\ graph \in Graphs /\ rules \in RuleLists \cup {<< >>}
  /\ facts = graph /\ planner = "expanding"

\* expand_ffn_ops
Expand ==
  /\ planner = "expanding"
  /\ LET ffns == {i \in DOMAIN facts : IsKind(facts[i], {"build_ffn"})}
     IN IF ffns = {} THEN planner' = "planning" /\ UNCHANGED facts
        ELSE LET i == CHOOSE n \in ffns : \A m \in ffns : n <= m
             IN /\ facts' = Primitives(facts[i]) \o Without(facts, {facts[i].out})
                /\ UNCHANGED planner
  /\ UNCHANGED <<graph, rules>>

\* fixpoint_iterate
FixpointStep ==
  /\ planner = "planning" /\ rules # << >> /\ FixpointFusions(facts) # {}
  /\ LET f == Foremost(FixpointFusions(facts))
     IN facts' = Applied(rules[f[1]], facts, f[2], f[3])
  /\ UNCHANGED <<graph, rules, planner>>

\* fuse_graph_iter; a fusion without a clause of apply_fusion_to_facts fails it.
GraphStep ==
  /\ planner = "planning" /\ rules = << >> /\ GraphFusions(facts) # {}
  /\ LET f == Foremost(GraphFusions(facts))
         rule == Clauses[f[3]]
     IN IF Applies(rule) THEN facts' = Applied(rule, facts, f[1], f[2]) /\ UNCHANGED planner
                         ELSE planner' = "failed" /\ UNCHANGED facts
  /\ UNCHANGED <<graph, rules>>

FixpointReached ==
  /\ planner = "planning"
  /\ IF rules = << >> THEN GraphFusions(facts) = {} ELSE FixpointFusions(facts) = {}
  /\ planner' = "done"
  /\ UNCHANGED <<graph, rules, facts>>

PlannerNext == Expand \/ FixpointStep \/ GraphStep \/ FixpointReached

---------------------------------------------------------------------------
(* What a plan computes                                                    *)

\* The operands of an operation as a set of terms: the kinds in use commute, but
\* for "sub", and a reshape is a view.  A tensor that nobody writes has no value.
RECURSIVE Value(_, _, _)
Value(p, t, fuel) ==
  LET writers == {i \in DOMAIN p : p[i].out = t}
      At(u)   == Value(p, u, fuel - 1)
      Side(in, n) == <<IF n = 1 THEN "left" ELSE "right", {At(in[n])}>>
  IN IF t >= Given THEN <<ToString(t), {}>>
     ELSE IF writers = {} \/ fuel = 0 THEN <<"unwritten", {}>>
     ELSE LET op == p[CHOOSE i \in writers : TRUE]
              Upto(k)  == FoldLeft(LAMBDA a, b : a + b, 0, SubSeq(op.takes, 1, k))
              Brings(k) == {At(op.in[n]) : n \in (Upto(k - 1) + 1)..Upto(k)}
              First == CASE op.kind[1] = "ggml_reshape_3d" -> At(op.in[2])
                         [] op.kind[1] = "sub" -> <<"sub", {Side(op.in, 1), Side(op.in, 2)}>>
                         [] OTHER -> <<op.kind[1], Brings(1)>>
              Then(v, k) == <<op.kind[k], Brings(k) \cup {v}>>
          IN FoldLeft(Then, First, [n \in 1..(Len(op.kind) - 1) |-> n + 1])

\* The graph with its feed-forward blocks written out, and its results.
Meant == LET ffns == {i \in DOMAIN graph : IsKind(graph[i], {"build_ffn"})}
         IN IF ffns = {} THEN graph
            ELSE FoldLeft(LAMBDA p, i : IF i \in ffns THEN Primitives(graph[i]) \o p
                                                      ELSE Append(p, graph[i]),
                          << >>, [i \in DOMAIN graph |-> i])
Results == {t \in Written(Meant) : Readers(Meant, t) = {}}

OneReader == \A t \in Written(Meant) : Cardinality(Readers(Meant, t)) <= 1
Commutes  == \A i \in DOMAIN graph : ~IsKind(graph[i], {"sub"})

(* Whatever order the rules come in, the plan of fixpoint_fuse writes every
   result of the graph and writes the value the graph means.  fuse_graph, whose
   clauses look for no other consumer and whose merged inputs do not say where
   the fused operand goes, does so for graphs whose tensors have one reader
   each and whose operations commute. *)
PlanComputes ==
  (planner # "expanding" /\ (rules # << >> \/ (OneReader /\ Commutes))) =>
    \A t \in Results : Value(facts, t, 12) = Value(Meant, t, 12)

\* No operation of the graph waits for two others, and a feed-forward block, whose
\* primitives take the numbers of what follows it, comes last.
NoJoin == \A i \in DOMAIN graph :
            /\ Cardinality(Reads(graph[i]) \cap Written(graph)) <= 1
            /\ IsKind(graph[i], {"build_ffn"}) => i = Len(graph)

\* The order in which generate_from_bpd emits: by number, then by op fact.
Before(p, i, j) == p[i].seq < p[j].seq \/ (p[i].seq = p[j].seq /\ i < j)

(* A fused operation takes the number of its producer, and the generator emits
   by number: for a graph without joins nothing is emitted before what it reads. *)
PlanInOrder ==
  (planner = "done" /\ NoJoin /\ (rules # << >> \/ OneReader)) =>
    \A i, j \in DOMAIN facts : Feeds(facts, i, j) => Before(facts, i, j)

\* A plan can be run as it is emitted, and computes what its graph means.
PlanIsItsGraph == PlanComputes /\ PlanInOrder
=============================================================================
