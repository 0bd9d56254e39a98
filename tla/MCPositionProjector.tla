------------------------- MODULE MCPositionProjector -------------------------
(***************************************************************************)
(* The projection of a position against its meaning, over every history    *)
(* that trade capture can record within the bounds: only a history that    *)
(* can be projected is recorded (TradeCapture), in any order of times.     *)
(***************************************************************************)
EXTENDS PositionProjector, Integers, FiniteSetsExt

CONSTANTS Quantities, Times, MaxHistory

VARIABLE history

Candidates ==
    [side : {"BUY", "SELL"}, quantity : Quantities, at : Times,
     replaces : {0} \cup Effective(history)]

Init == history = <<>>

Next ==
    /\ Len(history) < MaxHistory
    /\ \E e \in Candidates : /\ Possible(Append(history, e))
                             /\ history' = Append(history, e)

Spec == Init /\ [][Next]_history

----------------------------------------------------------------------------

Total(h, side, S) == MapThenSumSet(LAMBDA i : h[i].quantity, {i \in S : h[i].side = side})
Balance(h, S) == Total(h, "BUY", S) - Total(h, "SELL", S)

Earlier(h, i) == {j \in Effective(h) : Before(h, j, i)}

Closes(h, i) == h[i].side = "SELL" /\ h[i].quantity = Balance(h, Earlier(h, i))

\* A ledger of units: every sale is covered by what was bought and not yet sold
\* at its time, and nothing is bought after the sale of the last unit.
Consistent(h) ==
    /\ \E i \in Effective(h) : h[i].side = "BUY"
    /\ \A i \in Effective(h) :
         IF h[i].side = "SELL" THEN h[i].quantity <= Balance(h, Earlier(h, i))
         ELSE \A j \in Earlier(h, i) : ~Closes(h, j)

\* The loop of _project raises an error exactly for the histories that are
\* not a ledger, and otherwise ends with its balance.
ProjectionIsLedger ==
    \A e \in Candidates :
        LET h == Append(history, e)
        IN  /\ Possible(h) <=> Consistent(h)
            /\ Possible(h) => OpenQuantity(h) = Balance(h, Effective(h))

\* Executions that happened at different times may be recorded in any order:
\* the sort of _project makes the position the same.
RecordingOrderIsIrrelevant ==
    \A e \in Candidates :
        LET h == Append(history, e)
            swapped(i) == [h EXCEPT ![i] = h[i + 1], ![i + 1] = h[i]]
        IN  Possible(h) /\ (\A k \in DOMAIN h : h[k].replaces = 0) =>
                \A i \in DOMAIN history :
                    h[i].at # h[i + 1].at => Projection(swapped(i)) = Projection(h)

\* A correction leaves the position that would be there if the corrected
\* execution had been recorded right at once. (Among executions of the same
\* time the correction comes last; that case is excluded.)
CorrectionIsSubstitution ==
    \A e \in Candidates :
        e.replaces # 0 /\ (\A k \in DOMAIN history : k # e.replaces => history[k].at # e.at) =>
            Projection(Append(history, e)) =
              Projection([history EXCEPT ![e.replaces] = [e EXCEPT !.replaces = history[e.replaces].replaces]])
=============================================================================
