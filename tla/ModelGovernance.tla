--------------------------- MODULE ModelGovernance ---------------------------
(***************************************************************************)
(* The governance of one model: hypotheses, proposals to change it, their  *)
(* validation and approval, which makes a version, and the activation of a *)
(* version for the runtime (model/service/application.py,                  *)
(* runtime_activation_service.py).  Nothing is locked: a request reads,    *)
(* and commits what it has decided; a column is written only if the value  *)
(* differs from what the request has read.                                 *)
(***************************************************************************)
EXTENDS Naturals, FiniteSets

CONSTANTS
    Governors,      \* requests under way at the same time
    Versions,       \* bound: version numbers from 1
    Proposals,      \* bound: proposals
    Hypotheses,     \* bound: hypotheses
    MaxActivations  \* bound: activations of a version

VARIABLES
    modelVersion,   \* number -> status and the proposal it was made from
    proposal,       \* proposal -> status, base version and hypothesis
    hypothesis,     \* hypothesis -> its status
    granted,        \* versions with an approval record
    activation,     \* records of activations: version and time
    clock,          \* activations that have taken their time
    task            \* governor -> its request

governanceVars == <<modelVersion, proposal, hypothesis, granted, activation, clock, task>>

Nobody == "nobody"
Initial == 1

ModelAssumption ==
    /\ Versions \subseteq Nat /\ Initial \in Versions
    /\ Proposals # {} /\ Nobody \notin Proposals
    /\ Hypotheses # {} /\ MaxActivations \in Nat
VersionStatuses == {"none", "DRAFT", "APPROVED"}
ProposalStatuses == {"none", "DRAFT", "VALIDATED", "APPROVED"}
HypothesisStatuses == {"none", "OPEN", "PROPOSED", "CLOSED"}
Tasks ==
    [does : {"nothing", "approveInitial", "propose", "validate", "approve", "activate"},
     version : Versions,                \* approved, base of the proposal or activated
     proposal : Proposals, hypothesis : Hypotheses,
     seen : ProposalStatuses,           \* of the proposal, as read
     seenHypothesis : HypothesisStatuses,
     at : 0..MaxActivations]            \* activated_at
NoTask ==
    [does |-> "nothing", version |-> Initial, proposal |-> CHOOSE p \in Proposals : TRUE,
     hypothesis |-> CHOOSE h \in Hypotheses : TRUE, seen |-> "none", seenHypothesis |-> "none", at |-> 0]

TypeOK ==
    /\ modelVersion \in [Versions -> [status : VersionStatuses, proposal : Proposals \cup {Nobody}]]
    /\ proposal \in [Proposals -> [status : ProposalStatuses, base : Versions, hypothesis : Hypotheses]]
    /\ hypothesis \in [Hypotheses -> HypothesisStatuses]
    /\ granted \subseteq Versions
    /\ activation \subseteq [version : Versions, at : 1..MaxActivations]
    /\ clock \in 0..MaxActivations
    /\ task \in [Governors -> Tasks]

\* create_model: the model with its first version, a draft.
Init ==
    /\ modelVersion = [v \in Versions |-> [status |-> IF v = Initial THEN "DRAFT" ELSE "none",
                                           proposal |-> Nobody]]
    /\ proposal = [p \in Proposals |-> [status |-> "none", base |-> Initial,
                                        hypothesis |-> CHOOSE h \in Hypotheses : TRUE]]
    /\ hypothesis = [h \in Hypotheses |-> "none"]
    /\ granted = {}
    /\ activation = {}
    /\ clock = 0
    /\ task = [g \in Governors |-> NoTask]

-----------------------------------------------------------------------------

Merged(present, read, value) == IF value = read THEN present ELSE value

Existing == {v \in Versions : modelVersion[v].status # "none"}
LatestVersion == CHOOSE v \in Existing : \A w \in Existing : w <= v

\* _get_current_for_model: the latest activation.
Active(v) == \E a \in activation : a.version = v /\ \A b \in activation : b.at <= a.at

StaleAllowed(p) == TRUE
\* "proposal base version is stale; rebase before approval".
BaseIsLatest(p) == proposal[p].base = LatestVersion

AlreadyActive(v) == Active(v)

Asks(g, t) ==
    /\ task[g].does = "nothing"
    /\ task' = [task EXCEPT ![g] = t]
Done(g) == task' = [task EXCEPT ![g] = NoTask]

-----------------------------------------------------------------------------
(* What a request reads and checks *)

ReadInitial(g) ==
    /\ modelVersion[Initial].status = "DRAFT"
    /\ Initial \notin granted
    /\ Asks(g, [NoTask EXCEPT !.does = "approveInitial"])
    /\ UNCHANGED <<modelVersion, proposal, hypothesis, granted, activation, clock>>

ReadForProposal(g, v, h) ==
    /\ modelVersion[v].status = "APPROVED"
    /\ hypothesis[h] \in {"OPEN", "PROPOSED"}
    /\ Asks(g, [NoTask EXCEPT !.does = "propose", !.version = v, !.hypothesis = h,
                              !.seenHypothesis = hypothesis[h]])
    /\ UNCHANGED <<modelVersion, proposal, hypothesis, granted, activation, clock>>

ReadForValidation(g, p) ==
    /\ proposal[p].status \in {"DRAFT", "VALIDATED"}
    /\ Asks(g, [NoTask EXCEPT !.does = "validate", !.proposal = p, !.seen = proposal[p].status])
    /\ UNCHANGED <<modelVersion, proposal, hypothesis, granted, activation, clock>>

ReadForApproval(g, p) ==
    LET h == proposal[p].hypothesis IN
    /\ proposal[p].status = "VALIDATED"
    /\ BaseIsLatest(p)
    /\ Asks(g, [NoTask EXCEPT !.does = "approve", !.proposal = p, !.version = LatestVersion,
                              !.hypothesis = h, !.seenHypothesis = hypothesis[h]])
    /\ UNCHANGED <<modelVersion, proposal, hypothesis, granted, activation, clock>>

\* The time is taken before the commit.
ReadForActivation(g, v) ==
    /\ modelVersion[v].status = "APPROVED"
    /\ ~AlreadyActive(v)
    /\ clock < MaxActivations
    /\ clock' = clock + 1
    /\ Asks(g, [NoTask EXCEPT !.does = "activate", !.version = v, !.at = clock + 1])
    /\ UNCHANGED <<modelVersion, proposal, hypothesis, granted, activation>>

-----------------------------------------------------------------------------
(* What a request commits *)

CreateHypothesis(h) ==
    /\ hypothesis[h] = "none"
    /\ hypothesis' = [hypothesis EXCEPT ![h] = "OPEN"]
    /\ UNCHANGED <<modelVersion, proposal, granted, activation, clock, task>>

ApproveInitial(g) ==
    /\ task[g].does = "approveInitial"
    /\ Initial \notin granted                       \* uq_model_approvals_version
    /\ modelVersion' = [modelVersion EXCEPT ![Initial].status = "APPROVED"]
    /\ granted' = granted \cup {Initial}
    /\ Done(g)
    /\ UNCHANGED <<proposal, hypothesis, activation, clock>>

CreateProposal(g, p) ==
    LET t == task[g] IN
    /\ t.does = "propose"
    /\ proposal[p].status = "none"
    /\ proposal' = [proposal EXCEPT ![p] =
            [status |-> "DRAFT", base |-> t.version, hypothesis |-> t.hypothesis]]
    /\ hypothesis' = [hypothesis EXCEPT ![t.hypothesis] = Merged(@, t.seenHypothesis, "PROPOSED")]
    /\ Done(g)
    /\ UNCHANGED <<modelVersion, granted, activation, clock>>

ValidateProposal(g) ==
    LET t == task[g] IN
    /\ t.does = "validate"
    /\ proposal' = [proposal EXCEPT ![t.proposal].status = Merged(@, t.seen, "VALIDATED")]
    /\ Done(g)
    /\ UNCHANGED <<modelVersion, hypothesis, granted, activation, clock>>

\* uq_governed_model_versions_model_version, uq_governed_model_versions_previous.
NumberFree(v) == modelVersion[v].status = "none"

\* The next version, its approval, and the decisions about proposal and hypothesis.
ApproveProposal(g) ==
    LET t == task[g]
        v == t.version + 1 IN
    /\ t.does = "approve"
    /\ v \in Versions
    /\ NumberFree(v)
    /\ \A w \in Versions : modelVersion[w].proposal # t.proposal    \* uq_model_approvals_proposal
    /\ modelVersion' = [modelVersion EXCEPT ![v] = [status |-> "APPROVED", proposal |-> t.proposal]]
    /\ granted' = granted \cup {v}
    /\ proposal' = [proposal EXCEPT ![t.proposal].status = "APPROVED"]
    /\ hypothesis' = [hypothesis EXCEPT ![t.hypothesis] = Merged(@, t.seenHypothesis, "CLOSED")]
    /\ Done(g)
    /\ UNCHANGED <<activation, clock>>

Activate(g) ==
    LET t == task[g] IN
    /\ t.does = "activate"
    /\ activation' = activation \cup {[version |-> t.version, at |-> t.at]}
    /\ Done(g)
    /\ UNCHANGED <<modelVersion, proposal, hypothesis, granted, clock>>

\* A refusal, a constraint, a client that is gone.
GiveUp(g) ==
    /\ task[g].does # "nothing"
    /\ Done(g)
    /\ UNCHANGED <<modelVersion, proposal, hypothesis, granted, activation, clock>>

Next ==
    \/ \E h \in Hypotheses : CreateHypothesis(h)
    \/ \E g \in Governors :
        \/ ReadInitial(g) \/ ApproveInitial(g)
        \/ \E v \in Versions, h \in Hypotheses : ReadForProposal(g, v, h)
        \/ \E p \in Proposals : CreateProposal(g, p) \/ ReadForValidation(g, p) \/ ReadForApproval(g, p)
        \/ ValidateProposal(g) \/ ApproveProposal(g)
        \/ \E v \in Versions : ReadForActivation(g, v)
        \/ Activate(g)
        \/ GiveUp(g)

Spec == Init /\ [][Next]_governanceVars

-----------------------------------------------------------------------------
(* Properties *)

\* The versions of a model are one line, whatever requests overlap: every
\* version after the first was made from one approved proposal, the proposal was
\* based on the version before, no proposal has made two versions and no version
\* was written over (FT-013: "A proposal whose base is no longer the latest
\* version is stale and cannot be approved").
VersionsAreOneLine ==
    /\ \A v \in Existing \ {Initial} :
        LET p == modelVersion[v].proposal IN
        /\ v - 1 \in granted
        /\ p # Nobody /\ proposal[p].base = v - 1
        /\ \A w \in Existing : modelVersion[w].proposal = p => w = v
    /\ \A v \in Versions : v \in granted <=> modelVersion[v].status = "APPROVED"
    /\ \A p \in Proposals :
        proposal[p].status = "APPROVED" => \E v \in Versions : modelVersion[v].proposal = p
=============================================================================
