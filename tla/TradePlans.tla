----------------------------- MODULE TradePlans -----------------------------
(***************************************************************************)
(* A trade plan and its versions (trade_plan/service/application.py) with  *)
(* the deletion of the plan (hard_delete.py).  Every command locks the     *)
(* plan's row, reads the versions and writes them with its commit; the     *)
(* deletion reads first and locks nothing before it deletes.               *)
(***************************************************************************)
EXTENDS Naturals, Sequences, FiniteSets

CONSTANTS
    Planners,       \* requests under way at the same time
    Versions,       \* bound: version numbers from 1
    MaxReviews      \* bound: events of a version before its approval

VARIABLES
    plan,           \* the row of the plan: "none", "there" or "deleted"
    version,        \* number -> status of the version, "none" without one
    approvals,      \* versions with an approval record
    events,         \* number -> its events: pairs of statuses, from and to
    command         \* planner -> its request

planVars == <<plan, version, approvals, events, command>>

Statuses == {"none", "DRAFT", "READY_FOR_REVIEW", "APPROVED", "ABANDONED", "SUPERSEDED"}
Commands == {"amend", "READY_FOR_REVIEW", "DRAFT", "ABANDONED", "approve", "delete"}
Idle == [does |-> "nothing"]

\* What a request has read when it holds the lock, or before it deletes.
Reads(does, v) == [does |-> does, version |-> v, seen |-> version, recorded |-> approvals]
Requests == [does : Commands, version : Versions, seen : [Versions -> Statuses],
             recorded : SUBSET Versions]

TypeOK ==
    /\ plan \in {"none", "there", "deleted"}
    /\ version \in [Versions -> Statuses]
    /\ approvals \subseteq Versions
    /\ events \in [Versions -> Seq(Statuses \X Statuses)]
    /\ command \in [Planners -> Requests \cup {Idle}]

Init ==
    /\ plan = "none"
    /\ version = [v \in Versions |-> "none"]
    /\ approvals = {}
    /\ events = [v \in Versions |-> <<>>]
    /\ command = [c \in Planners |-> Idle]

-----------------------------------------------------------------------------

Existing(versions) == {v \in Versions : versions[v] # "none"}
ApprovedIn(versions) == {v \in Versions : versions[v] = "APPROVED"}
Latest(versions, v) == \A w \in Existing(versions) : w <= v
\* MAX(version) + 1.
Next_version(versions, n) ==
    n \in Versions \ Existing(versions) /\ \A v \in Versions : v < n <=> v \in Existing(versions)

\* domain/lifecycle.py.
Allowed(from, to) ==
    \/ from = "DRAFT" /\ to \in {"READY_FOR_REVIEW", "ABANDONED"}
    \/ from = "READY_FOR_REVIEW" /\ to \in {"DRAFT", "APPROVED", "ABANDONED"}
    \/ from = "APPROVED" /\ to = "SUPERSEDED"

Holds(d) == command[d].does \notin {"nothing", "delete"}
\* SELECT ... FOR UPDATE of the plan: no other command holds it.
LockFree(c) == \A d \in Planners \ {c} : ~Holds(d)

Log(v, from, to) == [events EXCEPT ![v] = Append(@, <<from, to>>)]
Done(c) == command' = [command EXCEPT ![c] = Idle]

-----------------------------------------------------------------------------

\* create_manual, create_from_candidate: plan and first version in one commit.
Create(c) ==
    /\ command[c].does = "nothing"
    /\ plan = "none"
    /\ plan' = "there"
    /\ \E v \in Versions :
        /\ Next_version(version, v)
        /\ version' = [version EXCEPT ![v] = "DRAFT"]
        /\ events' = Log(v, "none", "DRAFT")
    /\ UNCHANGED <<approvals, command>>

\* A command has locked the plan and read its versions.
Lock(c, does, v) ==
    /\ command[c].does = "nothing"
    /\ does \in Commands \ {"delete"}
    /\ plan = "there"
    /\ LockFree(c)
    /\ version[v] # "none"
    /\ command' = [command EXCEPT ![c] = Reads(does, v)]
    /\ UNCHANGED <<plan, version, approvals, events>>

\* amend: a new draft on the base of an approved version.
Amend(c) ==
    LET q == command[c] IN
    /\ q.does = "amend"
    /\ q.seen[q.version] = "APPROVED"
    /\ \E n \in Versions :
        /\ Next_version(q.seen, n)
        /\ version[n] = "none"              \* uq_trade_plan_versions_plan_version
        /\ version' = [version EXCEPT ![n] = "DRAFT"]
        /\ events' = Log(n, "none", "DRAFT")
    /\ Done(c)
    /\ UNCHANGED <<plan, approvals>>

\* submit_for_review, return_to_draft, abandon.
Transition(c) ==
    LET q == command[c]
        from == q.seen[q.version] IN
    /\ q.does \in Statuses
    /\ Allowed(from, q.does)
    /\ Len(events[q.version]) < MaxReviews
    /\ version' = [version EXCEPT ![q.version] = q.does]
    /\ events' = Log(q.version, from, q.does)
    /\ Done(c)
    /\ UNCHANGED <<plan, approvals>>

\* approve: the latest version, once; a version approved before is superseded.
Superseded(v, seen) == ApprovedIn(seen) \ {v}
Approve(c) ==
    LET q == command[c]
        v == q.version
        old == Superseded(v, q.seen) IN
    /\ q.does = "approve"
    /\ q.seen[v] = "READY_FOR_REVIEW"
    /\ v \notin q.recorded
    /\ Latest(q.seen, v)
    /\ Cardinality(ApprovedIn(q.seen)) <= 1
    /\ v \notin approvals                   \* uq_trade_plan_approvals_version
    /\ version' = [w \in Versions |->
            CASE w = v -> "APPROVED"
              [] w \in old -> "SUPERSEDED"
              [] w \notin {v} \cup old -> version[w]]
    /\ approvals' = approvals \cup {v}
    /\ events' = [w \in Versions |->
            CASE w = v -> Append(events[w], <<"READY_FOR_REVIEW", "APPROVED">>)
              [] w \in old -> Append(events[w], <<"APPROVED", "SUPERSEDED">>)
              [] w \notin {v} \cup old -> events[w]]
    /\ Done(c)
    /\ UNCHANGED plan

\* hard_delete.py reads the ids of everything that hangs on the plan ...
FindForDeletion(c, v) ==
    /\ command[c].does = "nothing"
    /\ plan = "there"
    /\ version[v] # "none"
    /\ command' = [command EXCEPT ![c] = Reads("delete", v)]
    /\ UNCHANGED <<plan, version, approvals, events>>

\* ... and deletes it.  The rows wait for a command that has locked the plan; a
\* version it has not read is an error of the foreign key.
Delete(c) ==
    LET q == command[c] IN
    /\ q.does = "delete"
    /\ plan = "there"
    /\ LockFree(c)
    /\ Existing(version) \subseteq Existing(q.seen)
    /\ plan' = "deleted"
    /\ version' = [v \in Versions |-> "none"]
    /\ events' = [v \in Versions |-> <<>>]
    /\ approvals' = approvals \ Existing(q.seen)
    /\ Done(c)

\* A refusal, an idempotent answer, a rollback: the request ends without effect.
Refuse(c) ==
    /\ command[c].does # "nothing"
    /\ Done(c)
    /\ UNCHANGED <<plan, version, approvals, events>>

Next ==
    \E c \in Planners :
        \/ Create(c)
        \/ \E does \in Commands, v \in Versions : Lock(c, does, v)
        \/ Amend(c) \/ Transition(c) \/ Approve(c)
        \/ \E v \in Versions : FindForDeletion(c, v)
        \/ Delete(c)
        \/ Refuse(c)

Spec == Init /\ [][Next]_planVars

-----------------------------------------------------------------------------
(* Properties *)

\* A plan never has two approved versions, although versions are amended,
\* reviewed and approved by requests that overlap (the lock of the plan's row).
OneApproved == \A v, w \in ApprovedIn(version) : v = w

\* The approval records are those of the versions that were approved, and the
\* events of every version lead without a gap from its creation to its status:
\* no overlapping request has overwritten what another one has decided.
HistoryTellsStatus ==
    \A v \in Versions :
        /\ v \in approvals <=> version[v] \in {"APPROVED", "SUPERSEDED"}
        /\ version[v] = "none" <=> events[v] = <<>>
        /\ version[v] # "none" =>
            /\ events[v][1][1] = "none"
            /\ events[v][Len(events[v])][2] = version[v]
            /\ \A i \in 1..(Len(events[v]) - 1) : events[v][i][2] = events[v][i + 1][1]
=============================================================================
