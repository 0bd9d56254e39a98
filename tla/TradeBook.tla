------------------------------ MODULE TradeBook ------------------------------
(***************************************************************************)
(* What the trade capture promises (docs/trade-capture-safety.md, and the  *)
(* constraints and triggers of migration 0036) about the recorded trades,  *)
(* as if every request were one atomic step: executions are only appended, *)
(* in every trade they can be projected, a request key is used once, a     *)
(* trade becomes open only if no other trade of its product is, and a      *)
(* cancelled trade has purchases only, is not reviewed and is never        *)
(* touched again.                                                          *)
(*                                                                         *)
(* TradeCapture implements this module (property ImplementsBook there).    *)
(***************************************************************************)
EXTENDS PositionProjector

CONSTANTS Trades, ProductOf, Executions, NoKey

VARIABLES book, cancelled, duplicateOf, reviewed

bookVars == <<book, cancelled, duplicateOf, reviewed>>

Held(t)   == t \notin cancelled /\ OpenQuantity(book[t]) > 0
Rivals(t) == {o \in Trades \ {t} : ProductOf[o] = ProductOf[t] /\ Held(o)}
KeyIsNew(k) ==
    k # NoKey => \A t \in Trades : \A i \in DOMAIN book[t] : book[t][i].key # k

----------------------------------------------------------------------------

\* Duplicates from before the migration may be there.
BookInit ==
    /\ book \in [Trades -> {<<>>} \cup {<<e>> : e \in Executions}]
    /\ \A t \in Trades : book[t] # <<>> => Possible(book[t]) /\ book[t][1].replaces = 0
    /\ cancelled = {}
    /\ duplicateOf = [t \in Trades |-> 0]
    /\ reviewed = {}

Record(t, e) ==
    /\ book' = [book EXCEPT ![t] = Append(@, e)]
    /\ t \notin cancelled
    /\ e.replaces # 0 => e.replaces \in Effective(book[t])
    /\ e.side = "SELL" /\ e.replaces = 0 => Held(t)
    /\ KeyIsNew(e.key)
    /\ Possible(Append(book[t], e))
    /\ ~Held(t) /\ OpenQuantity(Append(book[t], e)) > 0 => Rivals(t) = {}
    /\ UNCHANGED <<cancelled, duplicateOf, reviewed>>

\* d is the retained trade of which t was a duplicate, or 0.
Cancel(t, d) ==
    /\ Held(t)
    /\ \A i \in DOMAIN book[t] : book[t][i].side = "BUY"
    /\ t \notin reviewed
    /\ d # 0 => d \in Rivals(t)
    /\ cancelled' = cancelled \cup {t}
    /\ duplicateOf' = [duplicateOf EXCEPT ![t] = d]
    /\ UNCHANGED <<book, reviewed>>

Review(t) ==
    /\ book[t] # <<>>
    /\ t \notin cancelled
    /\ reviewed' = reviewed \cup {t}
    /\ UNCHANGED <<book, cancelled, duplicateOf>>

BookNext ==
    \E t \in Trades : \/ \E e \in Executions : Record(t, e)
                      \/ \E d \in Trades \cup {0} : Cancel(t, d)
                      \/ Review(t)

BookSpec == BookInit /\ [][BookNext]_bookVars
=============================================================================
