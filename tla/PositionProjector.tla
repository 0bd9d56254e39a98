-------------------------- MODULE PositionProjector --------------------------
(***************************************************************************)
(* The position of a trade as PositionProjector._project derives it from   *)
(* the executions of the trade (trade_position/domain/projector.py), with  *)
(* the choice of the effective executions (list_effective_for_trade and    *)
(* correct_execution). Prices and amounts of money are left out.           *)
(*                                                                         *)
(* A history is a sequence of executions in the order of their recording;  *)
(* the place in it stands for recorded_at and the id, which break ties of  *)
(* executed_at.                                                            *)
(*                                                                         *)
(* NothingSuperseded, RecordedBefore and OversellAllowed are plausible     *)
(* bugs: one of them in the place of the definition that follows it makes  *)
(* a property of a run fail.                                               *)
(***************************************************************************)
EXTENDS Naturals, Sequences, FiniteSets

\* A correction supersedes one earlier execution. The superseded one stays in
\* the history.
NothingSuperseded(history) == {}
Superseded(history) == {history[i].replaces : i \in DOMAIN history}
Effective(history)  == DOMAIN history \ Superseded(history)

Before(history, i, j) ==
    \/ history[i].at < history[j].at
    \/ history[i].at = history[j].at /\ i < j

\* The k-th effective execution in the order of the projection.
Nth(history, k) ==
    history[CHOOSE i \in Effective(history) :
              Cardinality({j \in Effective(history) : Before(history, j, i)}) = k - 1]

\* open: units held; begun, ended: opened_at and closed_at are set;
\* possible: no ValueError so far.
Nothing == [open |-> 0, begun |-> FALSE, ended |-> FALSE, possible |-> TRUE]

Buy(p, quantity) ==
    [p EXCEPT !.open = @ + quantity, !.begun = TRUE, !.possible = @ /\ ~p.ended]

OversellAllowed(p, quantity) == TRUE
Covered(p, quantity) == p.begun /\ quantity <= p.open

Sell(p, quantity) ==
    IF Covered(p, quantity)
    THEN [p EXCEPT !.open = @ - quantity, !.ended = @ \/ quantity = p.open]
    ELSE [p EXCEPT !.possible = FALSE]

Apply(p, e) == IF e.side = "BUY" THEN Buy(p, e.quantity) ELSE Sell(p, e.quantity)

Projection(history) ==
    LET count == Cardinality(Effective(history))
        after[k \in 0..count] ==
            IF k = 0 THEN Nothing ELSE Apply(after[k - 1], Nth(history, k))
    IN  after[count]

OpenQuantity(history) == Projection(history).open

\* The projection raises no error: _project ends by asking for a BUY, and
\* Position for a quantity that is not negative.
Possible(history) ==
    /\ Projection(history).possible
    /\ Projection(history).begun
    /\ OpenQuantity(history) \in Nat
=============================================================================
