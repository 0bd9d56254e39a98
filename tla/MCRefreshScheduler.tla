------------------------ MODULE MCRefreshScheduler ------------------------
EXTENDS RefreshScheduler

CONSTANTS leader, standby, warrantA, warrantB, quotes, discovery

\* The route of one warrant is looked for, the other one is quoted anyway.
TwoWarrants == {<<quotes, warrantA>>, <<discovery, warrantA>>, <<quotes, warrantB>>}

\* Three scopes: one replica with both warrants, two replicas with the second
\* warrant only, and one replica whose catalog changes and cannot be read once.
Alone == runner[leader] = "waiting" /\ runner[standby] = "absent"
Bounded(l, f, e) == losses = l /\ faults = f /\ edits = e
MCInit ==
    /\ Init
    /\ \/ Alone /\ catalog = Items /\ Bounded(0, MaxFaults, MaxEdits)
       \/ ~Alone /\ "absent" \notin {runner[r] : r \in Replicas} /\ catalog = {warrantB}
          /\ Bounded(0, MaxFaults, MaxEdits)
       \/ Alone /\ catalog = {warrantB} /\ Bounded(MaxLosses, 0, 0)
MCSpec == MCInit /\ [][Next]_vars /\ Fairness
=============================================================================
