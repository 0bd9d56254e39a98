-------------------------- MODULE MCRuleMonitoring --------------------------
(* Instances of RuleMonitoring for TLC. *)
EXTENDS RuleMonitoring

CONSTANTS runner, cli, alertA, alertB

\* Two thresholds, both instruments, and a level recorded without a binding.
MCRules == {[threshold |-> 1, binding |-> "WARRANT"], [threshold |-> 2, binding |-> "WARRANT"],
            [threshold |-> 2, binding |-> "UNDERLYING"], [threshold |-> 2, binding |-> "NONE"]}

\* Either instrument may stand above the other.
MCQuotes == {[UNDERLYING |-> 1, WARRANT |-> 1], [UNDERLYING |-> 1, WARRANT |-> 2],
             [UNDERLYING |-> 2, WARRANT |-> 1]}
=============================================================================
