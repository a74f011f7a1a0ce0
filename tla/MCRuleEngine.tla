---------------------------- MODULE MCRuleEngine ----------------------------
(* RuleEngine for TLC: bodies of rules with one condition, with two on one    *)
(* sensor, and with an operator that is not known.                            *)
EXTENDS RuleEngine, TLC

CONSTANTS temperature, r1, r2

MCBody == {{[sensor |-> temperature, op |-> ">", threshold |-> 0]},
           {[sensor |-> temperature, op |-> ">=", threshold |-> 1],
            [sensor |-> temperature, op |-> "is", threshold |-> 1]}}

Symmetry == Permutations({r1, r2})
=============================================================================
