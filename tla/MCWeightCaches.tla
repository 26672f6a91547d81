--------------------------- MODULE MCWeightCaches ---------------------------
(* Instances of WeightCaches: the sample of a weight is the weight itself. *)
EXTENDS WeightCaches

CONSTANTS a, b

MCModels  == {a, b}
MCSamples == Weights
MCSample  == [w \in Weights |-> w]

\* One model whose flags flip, and two models without fusion.
Safe == { [models |-> {a}, settings |-> {"fused", "split"}],
          [models |-> {a, b}, settings |-> {"split"}] }

\* Two models in the production profile, which fuses.
BothFused == {[models |-> {a, b}, settings |-> {"fused"}]}
=============================================================================
