----------------------------- MODULE RobustTable -----------------------------
(***************************************************************************)
(* From a measurement to a tile of the dashboard of robust operations: the *)
(* kernels are judged against PyTorch (bench/stanford_referee), a harness  *)
(* reports what its recipes promise (verify_robust_ops_auto), and          *)
(* wire_referees_to_dashboard joins the two, the lower tier winning.       *)
(***************************************************************************)
EXTENDS Integers, Sequences, FiniteSets, FiniteSetsExt, SequencesExt

CONSTANTS Measurements, \* per operation, what running it would show
          Recipes       \* the operations the harness has a recipe of

\* The measured operations are those of the problem files, the recipes those the
\* harness module lists; a count of edge cases is a number.
ASSUME TableAssumption ==
  /\ IsFiniteSet(Recipes)
  /\ \A all \in Measurements :
       IsFiniteSet(DOMAIN all) /\ \A op \in DOMAIN all : all[op].edges \in Nat

VARIABLES measured, \* of this build
          wired,    \* which of the referees' outputs are given
          facts,    \* not yet joined
          table     \* per operation its tier and all tiers reported for it

tableVars == <<measured, wired, facts, table>>

(***************************************************************************)
(* A measurement is [kind, problem, kernel, ulps, edges]: whether the      *)
(* problem file and the kernel exist, the largest difference at each       *)
(* shape, and on the vector of edge cases, which a matmul is not run on.   *)
(***************************************************************************)

TierOrder == <<"untested", "bronze", "silver", "gold">>
Rank(tier) == CHOOSE i \in DOMAIN TierOrder : TierOrder[i] = tier

Identical(m) == IF m.kind = "unary" /\ m.edges > 0 THEN "ROBUST_GAP" ELSE "BIT_IDENTICAL"
SlipFirstShape(m) ==
  IF ~m.problem THEN "NO_FILE"
  ELSE IF ~m.kernel THEN "MISSING_KERNEL"
  ELSE IF m.ulps[1] = 0 THEN Identical(m) ELSE "DIVERGENT"
Status(m) ==
  IF ~m.problem THEN "NO_FILE"
  ELSE IF ~m.kernel THEN "MISSING_KERNEL"
  ELSE IF ToSet(m.ulps) = {0} THEN Identical(m)
  ELSE IF m.ulps[1] = 0 THEN "SHAPE_DIVERGENT" ELSE "DIVERGENT"

\* Only a unary kernel's detail is marked +robust; only DIVERGENT looks at how far.
StanfordTier(m) ==
  LET status == Status(m)
  IN CASE status = "BIT_IDENTICAL"   -> IF m.kind = "unary" THEN "gold" ELSE "silver"
       [] status = "ROBUST_GAP"      -> "silver"
       [] status = "SHAPE_DIVERGENT" -> "bronze"
       [] status = "DIVERGENT"       -> IF Max(ToSet(m.ulps)) <= 4 THEN "bronze" ELSE "untested"
       [] OTHER                      -> "untested"

\* The harness runs no kernel: a recipe is of 0 ULP and stable by construction.
HarnessTier == "gold"

Fact(op, tier) == [op |-> op, tier |-> tier]
StanfordFacts == [i \in 1..Cardinality(DOMAIN measured) |->
                   LET op == SetToSeq(DOMAIN measured)[i] IN Fact(op, StanfordTier(measured[op]))]
HarnessFacts  == [i \in 1..Cardinality(Recipes) |-> Fact(SetToSeq(Recipes)[i], HarnessTier)]

TableInit ==
  /\ measured \in Measurements /\ wired \in SUBSET {"stanford", "harness"}
  /\ facts = << >> /\ table = << >>

ReadReferees ==
  /\ facts = << >> /\ DOMAIN table = {} /\ wired # {}
  /\ facts' = (IF "stanford" \in wired THEN StanfordFacts ELSE << >>)
                \o (IF "harness" \in wired THEN HarnessFacts ELSE << >>)
  /\ UNCHANGED <<measured, wired, table>>

\* Equal tiers keep the first; of two others the lower is kept with what the
\* higher one said as its evidence.
MergeFact ==
  /\ facts # << >>
  /\ LET f   == Head(facts)
         old == table[f.op]
     IN table' = IF f.op \notin DOMAIN table
                 THEN [op \in DOMAIN table \cup {f.op} |->
                        IF op = f.op THEN [tier |-> f.tier, seen |-> {f.tier}] ELSE table[op]]
                 ELSE [table EXCEPT ![f.op] =
                        [tier |-> IF Rank(f.tier) < Rank(old.tier) THEN f.tier ELSE old.tier,
                         seen |-> old.seen \cup {f.tier}]]
  /\ facts' = Tail(facts)
  /\ UNCHANGED <<measured, wired>>

TableNext == ReadReferees \/ MergeFact
TableSpec == TableInit /\ [][TableNext]_tableVars

(***************************************************************************)
(* Once all facts are joined, and the kernels were judged at all, a gold   *)
(* tile means a kernel with no differing bit at any shape or edge case, a  *)
(* silver one none at any shape, and no tile hides a tier below its own;   *)
(* a recipe's promise alone makes nothing gold                             *)
(* (wire_referees_to_dashboard.merge_facts).                               *)
(***************************************************************************)
GoldIsMeasured ==
  "stanford" \in wired /\ facts = << >> =>
    \A op \in DOMAIN table \cap DOMAIN measured :
      LET m == measured[op]
      IN /\ table[op].tier \in {"gold", "silver"} => m.problem /\ m.kernel /\ ToSet(m.ulps) = {0}
         /\ table[op].tier = "gold" => m.kind = "unary" /\ m.edges = 0
         /\ \A tier \in table[op].seen : Rank(table[op].tier) <= Rank(tier)
=============================================================================
