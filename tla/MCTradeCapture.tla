---------------------------- MODULE MCTradeCapture ----------------------------
(* Instances of TradeCapture for TLC. *)
EXTENDS TradeCapture, TLC

CONSTANTS clientA, clientB, warrant, request

\* Every trade is about the same warrant.
OneProduct == [t \in Trades |-> warrant]

ClientSymmetry == Permutations(Sessions)
=============================================================================
