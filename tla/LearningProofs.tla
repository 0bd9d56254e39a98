--------------------------- MODULE LearningProofs ---------------------------
(***************************************************************************)
(* Proofs about the services of decisions and of what is learnt from       *)
(* them, for any number of requests, versions and rules: the versions of   *)
(* a model and of a plan, the warnings of a configuration, imported        *)
(* observations, lessons, exit reviews, the trades that observations are   *)
(* linked to, and the journal of a trade with its page.                    *)
(***************************************************************************)
EXTENDS Naturals, Sequences, FiniteSets, FiniteSetTheorems, TLAPS

CONSTANTS
    Governors, Numbers, Proposals, Hypotheses, MaxActivations, Planners, MaxReviews, Bases,
    LastSession, LastRevision, MaxRaised, Trends, Volatilities, ConfirmationSessions,
    MaxRevised, MaxRestarts, Clients, Jobs, Contents, Files, Outcomes, Versions, Signals, Keys,
    MaxTransitions, Metadata, Exits, Series, LastVersion, LastJournal, MaxChanges, Trades,
    First, Links, LinkKeys, LastLinked, Begun, Texts, OtherOps, MaxVersions, MaxRevision,
    MaxSource, MaxCommands

VARIABLES
    modelVersion, proposal, hypothesis, granted, activation, clock, task, plan, version,
    approvals, events, command, market, held, setting, snapshots, latest, edge, warning, told,
    sweep, restarts, changes, job, file, row, imported, request, lesson, versions, signals,
    transitions, sent, stored, promised, editing, facts, observation, review, evidence, journal,
    session, altered, trade, link, referenced, receipt, work, drafts, proven, basis, applied,
    page, attempt, call, reading, late, keys, memory

MG == INSTANCE ModelGovernance WITH Versions <- Numbers
TP == INSTANCE TradePlans WITH Versions <- Numbers
RA == INSTANCE RiskAlerts WITH MaxChanges <- MaxRevised
IJ == INSTANCE ImportJob
LS == INSTANCE Lessons
TR == INSTANCE TradeReview
TL == INSTANCE TradeLinks WITH Keys <- LinkKeys, LastVersion <- LastLinked
JP == INSTANCE JournalPage WITH
    versions <- drafts, evidence <- proven, source <- basis, receipts <- applied, read <- reading,
    lost <- late

-----------------------------------------------------------------------------
(* Versions of a model. *)

\* Rows stay: a version that was made names its proposal, a proposal the granted
\* version it is based on.
ModelRows ==
    /\ \A p \in Proposals : proposal[p].status # "none" => proposal[p].base \in granted
    /\ \A v \in Numbers :
        /\ modelVersion[v].proposal # MG!Nobody =>
            proposal[modelVersion[v].proposal].status # "none" /\ modelVersion[v].status # "none"
        /\ modelVersion[v].status = "none" => modelVersion[v].proposal = MG!Nobody
    /\ modelVersion[MG!Initial].status # "none"

\* What a request has read of rows that do not change any more.
TaskHolds(g) ==
    /\ task[g].does = "propose" => task[g].version \in granted
    /\ task[g].does = "approve" =>
        /\ task[g].version = proposal[task[g].proposal].base
        /\ proposal[task[g].proposal].status # "none"
    /\ task[g].does = "validate" => proposal[task[g].proposal].status # "none"
    /\ task[g].does = "activate" => task[g].at # 0
ModelInv ==
    /\ MG!TypeOK /\ MG!VersionsAreOneLine /\ ModelRows
    /\ \A g \in Governors : TaskHolds(g)

\* A request that does nothing.
LEMMA NoTaskIsTask == ASSUME MG!ModelAssumption PROVE MG!NoTask \in MG!Tasks /\ MG!NoTask.does = "nothing"
  BY DEF MG!ModelAssumption, MG!NoTask, MG!Tasks, MG!Initial, MG!ProposalStatuses, MG!HypothesisStatuses

\* No proposal, one version.
LEMMA ModelInit == ASSUME MG!ModelAssumption PROVE MG!Init => ModelInv
  <1> SUFFICES ASSUME MG!Init PROVE ModelInv
    OBVIOUS
  <1> USE DEF MG!ModelAssumption, MG!Init, MG!Initial, MG!Nobody
  <1>1. task \in [Governors -> MG!Tasks] /\ \A g \in Governors : TaskHolds(g)
    BY NoTaskIsTask DEF TaskHolds
  <1>2. MG!TypeOK
    BY <1>1 DEF MG!TypeOK, MG!VersionStatuses, MG!ProposalStatuses, MG!HypothesisStatuses
  <1>3. MG!VersionsAreOneLine /\ ModelRows
    BY DEF MG!VersionsAreOneLine, MG!Existing, ModelRows
  <1> QED BY <1>1, <1>2, <1>3 DEF ModelInv

\* A request goes on, and the others stay.
LEMMA TaskSet ==
  ASSUME task \in [Governors -> MG!Tasks], NEW g \in Governors, NEW t \in MG!Tasks, task' = [task EXCEPT ![g] = t]
  PROVE  /\ task' \in [Governors -> MG!Tasks] /\ task'[g] = t
         /\ \A h \in Governors : h # g => task'[h] = task[h]
  OBVIOUS

\* A request that reads, or ends: the rows stay as they are.
LEMMA ModelRead ==
  ASSUME MG!ModelAssumption, ModelInv, NEW g \in Governors, NEW t \in MG!Tasks, task' = [task EXCEPT ![g] = t],
         UNCHANGED <<modelVersion, proposal, granted>>,
         hypothesis' \in [Hypotheses -> MG!HypothesisStatuses],
         activation' \subseteq [version : Numbers, at : 1..MaxActivations], clock' \in 0..MaxActivations,
         t.does = "propose" => t.version \in granted,
         t.does = "approve" => t.version = proposal[t.proposal].base /\ proposal[t.proposal].status # "none",
         t.does = "validate" => proposal[t.proposal].status # "none",
         t.does = "activate" => t.at # 0
  PROVE  ModelInv'
  <1>1. /\ task' \in [Governors -> MG!Tasks] /\ task'[g] = t
        /\ \A h \in Governors : h # g => task'[h] = task[h]
    BY TaskSet DEF ModelInv, MG!TypeOK
  <1>2. MG!TypeOK'
    BY <1>1 DEF ModelInv, MG!TypeOK
  <1>3. MG!VersionsAreOneLine' /\ ModelRows'
    BY DEF ModelInv, MG!VersionsAreOneLine, MG!Existing, ModelRows
  <1>4. \A h \in Governors : TaskHolds(h)'
    BY <1>1 DEF ModelInv, TaskHolds
  <1> QED BY <1>2, <1>3, <1>4 DEF ModelInv

\* No request lets go of the row it has locked before it has written it.
LEMMA ModelNext == ASSUME MG!ModelAssumption, ModelInv, [MG!Next]_(MG!governanceVars) PROVE ModelInv'
  <1>0. /\ MG!TypeOK /\ ModelRows /\ MG!VersionsAreOneLine
        /\ \A g \in Governors : task[g] \in MG!Tasks /\ TaskHolds(g)
    BY DEF ModelInv, MG!TypeOK
  <1>1. ASSUME NEW h \in Hypotheses, MG!CreateHypothesis(h) PROVE ModelInv'
    <2>1. hypothesis' \in [Hypotheses -> MG!HypothesisStatuses]
          /\ UNCHANGED <<modelVersion, proposal, granted, activation, clock, task>>
      BY <1>0, <1>1 DEF MG!CreateHypothesis, MG!TypeOK, MG!HypothesisStatuses
    <2> QED BY <2>1 DEF ModelInv, MG!TypeOK, MG!VersionsAreOneLine, MG!Existing, ModelRows, TaskHolds
  <1>2. ASSUME NEW g \in Governors, MG!ReadInitial(g) PROVE ModelInv'
    <2> DEFINE t == [MG!NoTask EXCEPT !.does = "approveInitial"]
    <2>1. t \in MG!Tasks /\ t.does = "approveInitial"
      BY NoTaskIsTask DEF MG!Tasks
    <2>2. task' = [task EXCEPT ![g] = t] /\ UNCHANGED <<modelVersion, proposal, hypothesis, granted, activation, clock>>
      BY <1>2 DEF MG!ReadInitial, MG!Asks
    <2> HIDE DEF t
    <2> QED BY <1>0, <2>1, <2>2, ModelRead DEF MG!TypeOK
  <1>3. ASSUME NEW g \in Governors, MG!GiveUp(g) PROVE ModelInv'
    <2>1. task' = [task EXCEPT ![g] = MG!NoTask] /\ UNCHANGED <<modelVersion, proposal, hypothesis, granted, activation, clock>>
      BY <1>3 DEF MG!GiveUp, MG!Done
    <2> QED BY <1>0, <2>1, NoTaskIsTask, ModelRead DEF MG!TypeOK
  <1>4. ASSUME NEW g \in Governors, NEW v \in Numbers, NEW h \in Hypotheses, MG!ReadForProposal(g, v, h) PROVE ModelInv'
    <2> DEFINE t == [MG!NoTask EXCEPT !.does = "propose", !.version = v, !.hypothesis = h, !.seenHypothesis = hypothesis[h]]
    <2>1. t \in MG!Tasks /\ t.does = "propose" /\ t.version = v
      BY <1>0, NoTaskIsTask DEF MG!Tasks, MG!TypeOK
    <2>2. /\ task' = [task EXCEPT ![g] = t] /\ UNCHANGED <<modelVersion, proposal, hypothesis, granted, activation, clock>>
          /\ modelVersion[v].status = "APPROVED"
      BY <1>4 DEF MG!ReadForProposal, MG!Asks
    <2>3. v \in granted
      BY <1>0, <2>2 DEF MG!VersionsAreOneLine
    <2> HIDE DEF t
    <2> QED BY <1>0, <2>1, <2>2, <2>3, ModelRead DEF MG!TypeOK
  <1>5. ASSUME NEW g \in Governors, NEW p \in Proposals, MG!ReadForValidation(g, p) PROVE ModelInv'
    <2> DEFINE t == [MG!NoTask EXCEPT !.does = "validate", !.proposal = p, !.seen = proposal[p].status]
    <2>1. t \in MG!Tasks /\ t.does = "validate" /\ t.proposal = p
      BY <1>0, NoTaskIsTask DEF MG!Tasks, MG!TypeOK
    <2>2. task' = [task EXCEPT ![g] = t] /\ UNCHANGED <<modelVersion, proposal, hypothesis, granted, activation, clock>>
          /\ proposal[p].status # "none"
      BY <1>5 DEF MG!ReadForValidation, MG!Asks
    <2> HIDE DEF t
    <2> QED BY <1>0, <2>1, <2>2, ModelRead DEF MG!TypeOK
  <1>6. ASSUME NEW g \in Governors, NEW p \in Proposals, MG!ReadForApproval(g, p) PROVE ModelInv'
    <2> DEFINE t == [MG!NoTask EXCEPT !.does = "approve", !.proposal = p, !.version = MG!LatestVersion,
                        !.hypothesis = proposal[p].hypothesis, !.seenHypothesis = hypothesis[proposal[p].hypothesis]]
    <2>1. /\ task' = [task EXCEPT ![g] = t] /\ UNCHANGED <<modelVersion, proposal, hypothesis, granted, activation, clock>>
          /\ proposal[p].status = "VALIDATED" /\ proposal[p].base = MG!LatestVersion
      BY <1>6 DEF MG!ReadForApproval, MG!Asks, MG!BaseIsLatest
    <2>2. /\ proposal[p].base \in Numbers /\ proposal[p].hypothesis \in Hypotheses
          /\ hypothesis[proposal[p].hypothesis] \in MG!HypothesisStatuses
      BY <1>0 DEF MG!TypeOK
    <2>3. t \in MG!Tasks /\ t.does = "approve" /\ t.version = proposal[p].base /\ t.proposal = p
      BY <2>1, <2>2, NoTaskIsTask DEF MG!Tasks
    <2> HIDE DEF t
    <2> QED BY <1>0, <2>1, <2>3, ModelRead DEF MG!TypeOK
  <1>7. ASSUME NEW g \in Governors, NEW v \in Numbers, MG!ReadForActivation(g, v) PROVE ModelInv'
    <2> DEFINE t == [MG!NoTask EXCEPT !.does = "activate", !.version = v, !.at = clock + 1]
    <2>1. /\ task' = [task EXCEPT ![g] = t] /\ UNCHANGED <<modelVersion, proposal, hypothesis, granted, activation>>
          /\ clock < MaxActivations /\ clock' = clock + 1
      BY <1>7 DEF MG!ReadForActivation, MG!Asks
    <2>2. clock + 1 \in 0..MaxActivations /\ clock + 1 # 0
      BY <1>0, <2>1 DEF MG!TypeOK, MG!ModelAssumption
    <2>3. t \in MG!Tasks /\ t.does = "activate" /\ t.at # 0
      BY <2>2, NoTaskIsTask DEF MG!Tasks
    <2> HIDE DEF t
    <2> QED BY <1>0, <2>1, <2>2, <2>3, ModelRead DEF MG!TypeOK
  <1>8. ASSUME NEW g \in Governors, MG!Activate(g) PROVE ModelInv'
    <2>1. /\ task' = [task EXCEPT ![g] = MG!NoTask] /\ UNCHANGED <<modelVersion, proposal, hypothesis, granted, clock>>
          /\ activation' = activation \cup {[version |-> task[g].version, at |-> task[g].at]}
          /\ task[g].does = "activate"
      BY <1>8 DEF MG!Activate, MG!Done
    <2>2. task[g].version \in Numbers /\ task[g].at \in 1..MaxActivations
      BY <1>0, <2>1 DEF MG!Tasks, TaskHolds, MG!ModelAssumption
    <2>3. activation' \subseteq [version : Numbers, at : 1..MaxActivations]
      BY <1>0, <2>1, <2>2 DEF MG!TypeOK
    <2> QED BY <1>0, <2>1, <2>3, NoTaskIsTask, ModelRead DEF MG!TypeOK
  <1>9. ASSUME NEW g \in Governors, MG!ApproveInitial(g) PROVE ModelInv'
    <2>1. /\ task' = [task EXCEPT ![g] = MG!NoTask] /\ UNCHANGED <<proposal, hypothesis, activation, clock>>
          /\ modelVersion' = [modelVersion EXCEPT ![MG!Initial].status = "APPROVED"]
          /\ granted' = granted \cup {MG!Initial}
      BY <1>9 DEF MG!ApproveInitial, MG!Done
    <2>2. /\ task' \in [Governors -> MG!Tasks] /\ task'[g] = MG!NoTask
          /\ \A h \in Governors : h # g => task'[h] = task[h]
      BY <1>0, <2>1, TaskSet, NoTaskIsTask DEF MG!TypeOK
    <2>3. /\ modelVersion' \in [Numbers -> [status : MG!VersionStatuses, proposal : Proposals \cup {MG!Nobody}]]
          /\ \A v \in Numbers : modelVersion'[v].proposal = modelVersion[v].proposal
          /\ \A v \in Numbers : v # MG!Initial => modelVersion'[v].status = modelVersion[v].status
          /\ modelVersion'[MG!Initial].status = "APPROVED"
      BY <1>0, <2>1 DEF MG!TypeOK, MG!ModelAssumption, MG!VersionStatuses
    <2>4. MG!TypeOK'
      BY <1>0, <2>1, <2>2, <2>3 DEF MG!TypeOK, MG!ModelAssumption
    <2>5. MG!VersionsAreOneLine'
      BY <1>0, <2>1, <2>3 DEF MG!VersionsAreOneLine, MG!Existing, ModelRows
    <2>6. ModelRows'
      BY <1>0, <2>1, <2>3 DEF ModelRows
    <2>7. \A h \in Governors : TaskHolds(h)'
      BY <1>0, <2>1, <2>2, NoTaskIsTask DEF TaskHolds
    <2> QED BY <2>4, <2>5, <2>6, <2>7 DEF ModelInv
  <1>10. ASSUME NEW g \in Governors, NEW p \in Proposals, MG!CreateProposal(g, p) PROVE ModelInv'
    <2> DEFINE t == task[g]
    <2>1. /\ task' = [task EXCEPT ![g] = MG!NoTask] /\ UNCHANGED <<modelVersion, granted, activation, clock>>
          /\ proposal[p].status = "none" /\ t.does = "propose"
          /\ proposal' = [proposal EXCEPT ![p] = [status |-> "DRAFT", base |-> t.version, hypothesis |-> t.hypothesis]]
          /\ hypothesis' = [hypothesis EXCEPT ![t.hypothesis] = MG!Merged(@, t.seenHypothesis, "PROPOSED")]
      BY <1>10 DEF MG!CreateProposal, MG!Done
    <2>2. /\ task' \in [Governors -> MG!Tasks] /\ task'[g] = MG!NoTask
          /\ \A h \in Governors : h # g => task'[h] = task[h]
      BY <1>0, <2>1, TaskSet, NoTaskIsTask DEF MG!TypeOK
    <2>3. t.version \in granted /\ t.version \in Numbers /\ t.hypothesis \in Hypotheses
      BY <1>0, <2>1 DEF TaskHolds, MG!Tasks
    <2>4. /\ proposal' \in [Proposals -> [status : MG!ProposalStatuses, base : Numbers, hypothesis : Hypotheses]]
          /\ proposal'[p].status = "DRAFT" /\ proposal'[p].base = t.version
          /\ \A q \in Proposals : q # p => proposal'[q] = proposal[q]
      BY <1>0, <2>1, <2>3 DEF MG!TypeOK, MG!ProposalStatuses
    <2>5. hypothesis' \in [Hypotheses -> MG!HypothesisStatuses]
      BY <1>0, <2>1, <2>3 DEF MG!TypeOK, MG!HypothesisStatuses, MG!Merged
    <2>6. MG!TypeOK'
      BY <1>0, <2>1, <2>2, <2>4, <2>5 DEF MG!TypeOK
    <2>7. \A v \in Numbers : modelVersion[v].proposal # p
      BY <1>0, <2>1 DEF ModelRows, MG!ModelAssumption
    <2>8. MG!VersionsAreOneLine'
      BY <1>0, <2>1, <2>4, <2>7 DEF MG!VersionsAreOneLine, MG!Existing, MG!TypeOK
    <2>9. ModelRows'
      BY <1>0, <2>1, <2>3, <2>4 DEF ModelRows, MG!TypeOK
    <2>10. \A h \in Governors : TaskHolds(h)'
      BY <1>0, <2>1, <2>2, <2>4, NoTaskIsTask DEF TaskHolds, MG!Tasks
    <2> QED BY <2>6, <2>8, <2>9, <2>10 DEF ModelInv
  <1>11. ASSUME NEW g \in Governors, MG!ValidateProposal(g) PROVE ModelInv'
    <2> DEFINE t == task[g]
    <2>1. /\ task' = [task EXCEPT ![g] = MG!NoTask] /\ UNCHANGED <<modelVersion, hypothesis, granted, activation, clock>>
          /\ proposal' = [proposal EXCEPT ![t.proposal].status = MG!Merged(@, t.seen, "VALIDATED")]
          /\ t.proposal \in Proposals /\ proposal[t.proposal].status # "none"
      BY <1>0, <1>11 DEF MG!ValidateProposal, MG!Done, TaskHolds, MG!Tasks
    <2>2. /\ task' \in [Governors -> MG!Tasks] /\ task'[g] = MG!NoTask
          /\ \A h \in Governors : h # g => task'[h] = task[h]
      BY <1>0, <2>1, TaskSet, NoTaskIsTask DEF MG!TypeOK
    <2>3. /\ proposal' \in [Proposals -> [status : MG!ProposalStatuses, base : Numbers, hypothesis : Hypotheses]]
          /\ \A q \in Proposals : /\ proposal'[q].base = proposal[q].base
                                  /\ proposal'[q].status \in {"VALIDATED", proposal[q].status}
                                  /\ proposal[q].status = "none" => proposal'[q] = proposal[q]
      BY SMTT(30), <1>0, <2>1 DEF MG!TypeOK, MG!ProposalStatuses, MG!Tasks, MG!Merged
    <2>4. MG!TypeOK'
      BY <1>0, <2>1, <2>2, <2>3 DEF MG!TypeOK
    <2>5. MG!VersionsAreOneLine'
      BY <1>0, <2>1, <2>3 DEF MG!VersionsAreOneLine, MG!Existing, MG!TypeOK
    <2>6. ModelRows'
      BY <1>0, <2>1, <2>3 DEF ModelRows, MG!TypeOK
    <2>7. \A h \in Governors : TaskHolds(h)'
      BY <1>0, <2>1, <2>2, <2>3, NoTaskIsTask DEF TaskHolds, MG!Tasks
    <2> QED BY <2>4, <2>5, <2>6, <2>7 DEF ModelInv
  <1>12. ASSUME NEW g \in Governors, MG!ApproveProposal(g) PROVE ModelInv'
    <2> DEFINE t == task[g]
               v == t.version + 1
    <2>1. /\ task' = [task EXCEPT ![g] = MG!NoTask] /\ UNCHANGED <<activation, clock>>
          /\ t.does = "approve" /\ v \in Numbers /\ modelVersion[v].status = "none"
          /\ \A w \in Numbers : modelVersion[w].proposal # t.proposal
          /\ modelVersion' = [modelVersion EXCEPT ![v] = [status |-> "APPROVED", proposal |-> t.proposal]]
          /\ granted' = granted \cup {v}
          /\ proposal' = [proposal EXCEPT ![t.proposal].status = "APPROVED"]
          /\ hypothesis' = [hypothesis EXCEPT ![t.hypothesis] = MG!Merged(@, t.seenHypothesis, "CLOSED")]
      BY <1>12 DEF MG!ApproveProposal, MG!Done, MG!NumberFree
    <2>2. /\ task' \in [Governors -> MG!Tasks] /\ task'[g] = MG!NoTask
          /\ \A h \in Governors : h # g => task'[h] = task[h]
      BY <1>0, <2>1, TaskSet, NoTaskIsTask DEF MG!TypeOK
    <2>3. /\ t.version \in Numbers /\ t.version \in Nat /\ t.proposal \in Proposals /\ t.hypothesis \in Hypotheses
          /\ t.version = proposal[t.proposal].base /\ t.version \in granted /\ v # MG!Initial /\ v - 1 = t.version
          /\ t.proposal # MG!Nobody
      <3>1. t.version \in Numbers /\ t.proposal \in Proposals /\ t.hypothesis \in Hypotheses
        BY <1>0 DEF MG!Tasks
      <3>2. t.version = proposal[t.proposal].base /\ t.version \in granted
        BY <1>0, <2>1, <3>1 DEF TaskHolds, ModelRows
      <3>3. t.version \in Nat /\ t.proposal # MG!Nobody
        BY <3>1 DEF MG!ModelAssumption
      <3>4. v # MG!Initial
        BY <1>0, <2>1 DEF ModelRows
      <3> QED BY <3>1, <3>2, <3>3, <3>4
    <2> HIDE DEF v
    <2>4. /\ proposal' \in [Proposals -> [status : MG!ProposalStatuses, base : Numbers, hypothesis : Hypotheses]]
          /\ \A q \in Proposals : proposal'[q].base = proposal[q].base
          /\ proposal'[t.proposal].status = "APPROVED"
          /\ \A q \in Proposals : q # t.proposal => proposal'[q] = proposal[q]
      BY SMTT(30), <1>0, <2>1, <2>3 DEF MG!TypeOK, MG!ProposalStatuses
    <2>5. hypothesis' \in [Hypotheses -> MG!HypothesisStatuses]
      BY <1>0, <2>1, <2>3 DEF MG!TypeOK, MG!HypothesisStatuses, MG!Merged
    <2>6. /\ modelVersion' \in [Numbers -> [status : MG!VersionStatuses, proposal : Proposals \cup {MG!Nobody}]]
          /\ modelVersion'[v].status = "APPROVED" /\ modelVersion'[v].proposal = t.proposal
          /\ \A w \in Numbers : w # v => modelVersion'[w] = modelVersion[w]
      BY <1>0, <2>1, <2>3 DEF MG!TypeOK, MG!VersionStatuses
    <2>7. MG!TypeOK'
      BY <1>0, <2>1, <2>2, <2>4, <2>5, <2>6 DEF MG!TypeOK
    <2>8. MG!VersionsAreOneLine'
      <3>1. ASSUME NEW w \in MG!Existing' \ {MG!Initial}
            PROVE  /\ w - 1 \in granted' /\ modelVersion'[w].proposal # MG!Nobody
                   /\ proposal'[modelVersion'[w].proposal].base = w - 1
                   /\ \A u \in MG!Existing' : modelVersion'[u].proposal = modelVersion'[w].proposal => u = w
        <4>1. CASE w = v
          BY <4>1, <2>1, <2>3, <2>4, <2>6 DEF MG!Existing
        <4>2. CASE w # v
          <5>1. w \in MG!Existing \ {MG!Initial} /\ modelVersion'[w] = modelVersion[w]
            BY <4>2, <2>6 DEF MG!Existing
          <5>2. /\ w - 1 \in granted /\ modelVersion[w].proposal # MG!Nobody
                /\ proposal[modelVersion[w].proposal].base = w - 1
                /\ \A u \in MG!Existing : modelVersion[u].proposal = modelVersion[w].proposal => u = w
            BY <5>1, <1>0 DEF MG!VersionsAreOneLine
          <5>3. modelVersion[w].proposal \in Proposals /\ modelVersion[w].proposal # t.proposal
            BY <5>1, <5>2, <1>0, <2>1 DEF MG!TypeOK, MG!Existing
          <5> QED BY <5>1, <5>2, <5>3, <2>1, <2>4, <2>6 DEF MG!Existing
        <4> QED BY <4>1, <4>2
      <3>2. \A w \in Numbers : w \in granted' <=> modelVersion'[w].status = "APPROVED"
        BY <1>0, <2>1, <2>6 DEF MG!VersionsAreOneLine
      <3>3. \A q \in Proposals : proposal'[q].status = "APPROVED" => \E w \in Numbers : modelVersion'[w].proposal = q
        <4>1. ASSUME NEW q \in Proposals, q # t.proposal, proposal'[q].status = "APPROVED"
              PROVE  \E w \in Numbers : modelVersion'[w].proposal = q
          <5>1. PICK w \in Numbers : modelVersion[w].proposal = q
            BY <4>1, <1>0, <2>4 DEF MG!VersionsAreOneLine
          <5>2. w # v
            BY <5>1, <1>0, <2>1, <4>1 DEF ModelRows, MG!ModelAssumption
          <5> QED BY <5>1, <5>2, <2>6
        <4> QED BY <4>1, <2>1, <2>6
      <3> QED BY <3>1, <3>2, <3>3 DEF MG!VersionsAreOneLine
    <2>9. ModelRows'
      BY <1>0, <2>1, <2>3, <2>4, <2>6 DEF ModelRows, MG!TypeOK
    <2>10. \A h \in Governors : TaskHolds(h)'
      BY <1>0, <2>1, <2>2, <2>4, NoTaskIsTask DEF TaskHolds, MG!Tasks
    <2> QED BY <2>7, <2>8, <2>9, <2>10 DEF ModelInv
  <1>13. CASE UNCHANGED MG!governanceVars
    BY <1>13 DEF MG!governanceVars, ModelInv, MG!TypeOK, MG!VersionsAreOneLine, MG!Existing, ModelRows, TaskHolds
  <1> QED BY <1>1, <1>2, <1>3, <1>4, <1>5, <1>6, <1>7, <1>8, <1>9, <1>10, <1>11, <1>12, <1>13 DEF MG!Next

\* The invariant implies what is promised.
LEMMA ModelInvSuffices == ModelInv => MG!TypeOK /\ MG!VersionsAreOneLine
  BY DEF ModelInv

\* Whatever requests run at the same time, approvals write one line of versions: each after the
\* first was made from a proposal of its own, whose base is the version before, and that was
\* granted; what is granted is approved, and a proposal that is approved has a version.
THEOREM ModelVersionsAreOneLine ==
  ASSUME MG!ModelAssumption PROVE MG!Spec => [](MG!TypeOK /\ MG!VersionsAreOneLine)
  BY ModelInit, ModelNext, ModelInvSuffices, PTL DEF MG!Spec

-----------------------------------------------------------------------------
(* Versions of a plan. *)

\* The events e of a version lead to the status s.
Tells(e, s) ==
    /\ s = "none" <=> e = <<>>
    /\ s # "none" =>
        /\ e[1][1] = "none" /\ e[Len(e)][2] = s
        /\ \A i \in 1..(Len(e) - 1) : e[i][2] = e[i + 1][1]

\* What a command that holds the lock has read is so.
PlanLock ==
    /\ \A c, d \in Planners : TP!Holds(c) /\ TP!Holds(d) => c = d
    /\ \A c \in Planners : TP!Holds(c) =>
        plan = "there" /\ command[c].seen = version /\ command[c].recorded = approvals
PlanHistory ==
    \A v \in Numbers :
        /\ v \in approvals <=> version[v] \in {"APPROVED", "SUPERSEDED"}
        /\ Tells(events[v], version[v])
PlanInv == TP!TypeOK /\ PlanLock /\ PlanHistory /\ TP!OneApproved

\* One more event leads to the next status.
LEMMA TellsOneMore ==
  ASSUME NEW S, NEW e \in Seq(S \X S), NEW from \in S, NEW to \in S, to # "none", Tells(e, from)
  PROVE  Tells(Append(e, <<from, to>>), to) /\ Append(e, <<from, to>>) \in Seq(S \X S)
  <1> DEFINE f == Append(e, <<from, to>>)
  <1>1. f \in Seq(S \X S) /\ Len(f) = Len(e) + 1 /\ f[Len(f)] = <<from, to>>
        /\ \A i \in 1..Len(e) : f[i] = e[i]
    OBVIOUS
  <1>2. Len(e) \in Nat /\ (Len(e) = 0 <=> e = <<>>)
    OBVIOUS
  <1> HIDE DEF f
  <1>3. f # <<>>
    BY <1>1, <1>2
  <1>4. f[1][1] = "none"
    BY SMTT(20), <1>1, <1>2 DEF Tells
  <1>5. ASSUME NEW i \in 1..(Len(f) - 1) PROVE f[i][2] = f[i + 1][1]
    <2>1. CASE i = Len(e)
      BY <1>1, <1>2, <2>1 DEF Tells
    <2>2. CASE i # Len(e)
      <3>1. i \in 1..(Len(e) - 1) /\ i \in 1..Len(e) /\ i + 1 \in 1..Len(e) /\ from # "none"
        BY <1>1, <1>2, <2>2 DEF Tells
      <3> QED BY <1>1, <3>1 DEF Tells
    <2> QED BY <2>1, <2>2
  <1> QED BY <1>1, <1>3, <1>4, <1>5 DEF Tells, f

\* A plan without versions.
LEMMA PlanInit == TP!Init => PlanInv
  BY DEF TP!Init, PlanInv, TP!TypeOK, PlanLock, PlanHistory, Tells, TP!OneApproved, TP!ApprovedIn, TP!Holds, TP!Idle,
     TP!Statuses

\* What holds of a command's planner and the others when it ends or begins.
LEMMA PlanCommand ==
  ASSUME PlanInv, NEW c \in Planners, NEW q \in TP!Requests \cup {TP!Idle}, command' = [command EXCEPT ![c] = q]
  PROVE  /\ command' \in [Planners -> TP!Requests \cup {TP!Idle}] /\ command'[c] = q
         /\ \A d \in Planners : d # c => command'[d] = command[d]
  BY DEF PlanInv, TP!TypeOK

\* A command that holds the lock and ends, having written or not; nobody else holds it.
LEMMA PlanEnds ==
  ASSUME PlanInv, NEW c \in Planners, TP!Done(c),
         \/ UNCHANGED <<plan, version, approvals>>
         \/ TP!Holds(c)
         \/ \A d \in Planners \ {c} : ~TP!Holds(d)
  PROVE  command' \in [Planners -> TP!Requests \cup {TP!Idle}] /\ PlanLock'
  <1>1. /\ command' \in [Planners -> TP!Requests \cup {TP!Idle}] /\ command'[c] = TP!Idle
        /\ \A d \in Planners : d # c => command'[d] = command[d]
    BY PlanCommand DEF TP!Done
  <1>2. ~TP!Holds(c)' /\ \A d \in Planners : d # c => (TP!Holds(d)' <=> TP!Holds(d))
    BY <1>1 DEF TP!Holds, TP!Idle
  <1>3. CASE UNCHANGED <<plan, version, approvals>>
    BY <1>1, <1>2, <1>3 DEF PlanInv, PlanLock
  <1>4. CASE TP!Holds(c) \/ \A d \in Planners \ {c} : ~TP!Holds(d)
    <2>1. \A d \in Planners : ~TP!Holds(d)'
      BY <1>2, <1>4 DEF PlanInv, PlanLock
    <2> QED BY <1>1, <2>1 DEF PlanLock
  <1> QED BY <1>1, <1>3, <1>4

\* A version that gets one more event.
LEMMA PlanOneEvent ==
  ASSUME PlanInv, NEW v \in Numbers, NEW to \in TP!Statuses, to \notin {"none", "APPROVED", "SUPERSEDED"},
         version[v] \notin {"APPROVED", "SUPERSEDED"},
         version' = [version EXCEPT ![v] = to], events' = TP!Log(v, version[v], to), UNCHANGED approvals
  PROVE  /\ version' \in [Numbers -> TP!Statuses]
         /\ events' \in [Numbers -> Seq(TP!Statuses \X TP!Statuses)]
         /\ PlanHistory' /\ TP!OneApproved'
  <1>1. /\ version \in [Numbers -> TP!Statuses] /\ events \in [Numbers -> Seq(TP!Statuses \X TP!Statuses)]
        /\ PlanHistory /\ TP!OneApproved
    BY DEF PlanInv, TP!TypeOK
  <1>2. /\ version' \in [Numbers -> TP!Statuses] /\ version'[v] = to
        /\ \A w \in Numbers : w # v => version'[w] = version[w]
    BY <1>1
  <1>3. Tells(events[v], version[v]) /\ version[v] \in TP!Statuses /\ events[v] \in Seq(TP!Statuses \X TP!Statuses)
    BY <1>1 DEF PlanHistory
  <1>4. /\ Tells(Append(events[v], <<version[v], to>>), to)
        /\ Append(events[v], <<version[v], to>>) \in Seq(TP!Statuses \X TP!Statuses)
    BY <1>3, TellsOneMore
  <1>5. events' = [events EXCEPT ![v] = Append(events[v], <<version[v], to>>)]
    BY DEF TP!Log
  <1>6. /\ events' \in [Numbers -> Seq(TP!Statuses \X TP!Statuses)]
        /\ events'[v] = Append(events[v], <<version[v], to>>)
        /\ \A w \in Numbers : w # v => events'[w] = events[w]
    BY <1>1, <1>4, <1>5
  <1>7. PlanHistory'
    BY <1>1, <1>2, <1>4, <1>6 DEF PlanHistory
  <1>8. TP!OneApproved'
    BY <1>1, <1>2 DEF TP!OneApproved, TP!ApprovedIn
  <1> QED BY <1>2, <1>6, <1>7, <1>8

\* A command holds the lock of the plan while it writes.
LEMMA PlanNext == ASSUME PlanInv, [TP!Next]_(TP!planVars) PROVE PlanInv'
  <1>0. /\ TP!TypeOK /\ PlanLock /\ PlanHistory /\ TP!OneApproved
        /\ plan \in {"none", "there", "deleted"} /\ version \in [Numbers -> TP!Statuses]
        /\ approvals \subseteq Numbers /\ events \in [Numbers -> Seq(TP!Statuses \X TP!Statuses)]
        /\ command \in [Planners -> TP!Requests \cup {TP!Idle}]
    BY DEF PlanInv, TP!TypeOK
  <1>1. ASSUME NEW c \in Planners, TP!Create(c) PROVE PlanInv'
    <2>1. PICK v \in Numbers : /\ TP!Next_version(version, v) /\ version' = [version EXCEPT ![v] = "DRAFT"]
                                /\ events' = TP!Log(v, "none", "DRAFT")
      BY <1>1 DEF TP!Create
    <2>2. plan = "none" /\ plan' = "there" /\ UNCHANGED <<approvals, command>> /\ version[v] = "none"
      BY <1>1, <2>1 DEF TP!Create, TP!Next_version, TP!Existing
    <2>3. /\ version' \in [Numbers -> TP!Statuses] /\ events' \in [Numbers -> Seq(TP!Statuses \X TP!Statuses)]
          /\ PlanHistory' /\ TP!OneApproved'
      BY <2>1, <2>2, PlanOneEvent DEF TP!Statuses
    <2>4. PlanLock'
      BY <1>0, <2>2 DEF PlanLock, TP!Holds
    <2> QED BY <1>0, <2>2, <2>3, <2>4 DEF PlanInv, TP!TypeOK
  <1>2. ASSUME NEW c \in Planners, NEW does \in TP!Commands, NEW v \in Numbers,
               TP!Lock(c, does, v) \/ TP!FindForDeletion(c, v) PROVE PlanInv'
    <2>1. PICK d \in TP!Commands : /\ command' = [command EXCEPT ![c] = TP!Reads(d, v)]
                                   /\ d # "delete" => plan = "there" /\ TP!LockFree(c)
      BY <1>2 DEF TP!Lock, TP!FindForDeletion, TP!Commands
    <2>2. UNCHANGED <<plan, version, approvals, events>>
      BY <1>2 DEF TP!Lock, TP!FindForDeletion
    <2>3. /\ TP!Reads(d, v) \in TP!Requests /\ TP!Reads(d, v).does = d /\ d # "nothing"
          /\ TP!Reads(d, v).seen = version /\ TP!Reads(d, v).recorded = approvals
      BY <1>0 DEF TP!Reads, TP!Requests, TP!Commands
    <2>4. /\ command' \in [Planners -> TP!Requests \cup {TP!Idle}] /\ command'[c] = TP!Reads(d, v)
          /\ \A e \in Planners : e # c => command'[e] = command[e]
      BY <2>1, <2>3, PlanCommand, <1>0 DEF PlanInv
    <2>5. PlanLock'
      BY <1>0, <2>1, <2>2, <2>3, <2>4 DEF PlanLock, TP!Holds, TP!LockFree
    <2> QED BY <1>0, <2>2, <2>4, <2>5 DEF PlanInv, TP!TypeOK, PlanHistory, TP!OneApproved, TP!ApprovedIn
  <1>3. ASSUME NEW c \in Planners, TP!Amend(c) PROVE PlanInv'
    <2>1. TP!Holds(c) /\ command[c].seen = version
      BY <1>0, <1>3 DEF TP!Amend, TP!Holds, PlanLock
    <2>2. PICK v \in Numbers : /\ version[v] = "none" /\ version' = [version EXCEPT ![v] = "DRAFT"]
                                /\ events' = TP!Log(v, "none", "DRAFT")
      BY <1>3 DEF TP!Amend
    <2>3. TP!Done(c) /\ UNCHANGED <<plan, approvals>>
      BY <1>3 DEF TP!Amend
    <2>4. /\ version' \in [Numbers -> TP!Statuses] /\ events' \in [Numbers -> Seq(TP!Statuses \X TP!Statuses)]
          /\ PlanHistory' /\ TP!OneApproved'
      BY <2>2, <2>3, PlanOneEvent DEF TP!Statuses
    <2>5. command' \in [Planners -> TP!Requests \cup {TP!Idle}] /\ PlanLock'
      BY <2>1, <2>3, PlanEnds
    <2> QED BY <1>0, <2>3, <2>4, <2>5 DEF PlanInv, TP!TypeOK
  <1>4. ASSUME NEW c \in Planners, TP!Transition(c) PROVE PlanInv'
    <2> DEFINE v == command[c].version
    <2>1. command[c] \in TP!Requests
      BY <1>0, <1>4 DEF TP!Transition, TP!Idle, TP!Statuses
    <2>2. /\ v \in Numbers /\ command[c].does \in TP!Commands \cap TP!Statuses /\ TP!Holds(c) /\ command[c].seen = version
      BY <1>0, <1>4, <2>1 DEF TP!Requests, TP!Transition, TP!Commands, TP!Statuses, TP!Holds, PlanLock
    <2>3. /\ TP!Allowed(version[v], command[c].does) /\ version' = [version EXCEPT ![v] = command[c].does]
          /\ events' = TP!Log(v, version[v], command[c].does) /\ TP!Done(c) /\ UNCHANGED <<plan, approvals>>
      BY <1>4, <2>2 DEF TP!Transition
    <2>4. /\ command[c].does \in {"READY_FOR_REVIEW", "DRAFT", "ABANDONED"}
          /\ version[v] \in {"DRAFT", "READY_FOR_REVIEW"}
      BY <2>2, <2>3 DEF TP!Commands, TP!Statuses, TP!Allowed
    <2>5. /\ version' \in [Numbers -> TP!Statuses] /\ events' \in [Numbers -> Seq(TP!Statuses \X TP!Statuses)]
          /\ PlanHistory' /\ TP!OneApproved'
      BY <2>2, <2>3, <2>4, PlanOneEvent DEF TP!Statuses
    <2>6. command' \in [Planners -> TP!Requests \cup {TP!Idle}] /\ PlanLock'
      BY <2>2, <2>3, PlanEnds
    <2> QED BY <1>0, <2>3, <2>5, <2>6 DEF PlanInv, TP!TypeOK
  <1>5. ASSUME NEW c \in Planners, TP!Approve(c) PROVE PlanInv'
    <2> DEFINE v == command[c].version
               old == TP!Superseded(v, version)
    <2>1. command[c] \in TP!Requests /\ TP!Holds(c) /\ command[c].seen = version
      BY <1>0, <1>5 DEF TP!Approve, TP!Idle, TP!Holds, PlanLock
    <2>2. v \in Numbers /\ version[v] = "READY_FOR_REVIEW" /\ old = TP!ApprovedIn(version) /\ v \notin old
      BY <1>5, <2>1 DEF TP!Requests, TP!Approve, TP!Superseded, TP!ApprovedIn
    <2>3. /\ version' = [w \in Numbers |-> CASE w = v -> "APPROVED" [] w \in old -> "SUPERSEDED"
                                              [] w \notin {v} \cup old -> version[w]]
          /\ events' = [w \in Numbers |-> CASE w = v -> Append(events[w], <<"READY_FOR_REVIEW", "APPROVED">>)
                                             [] w \in old -> Append(events[w], <<"APPROVED", "SUPERSEDED">>)
                                             [] w \notin {v} \cup old -> events[w]]
          /\ approvals' = approvals \cup {v} /\ TP!Done(c) /\ UNCHANGED plan
      BY <1>5, <2>1 DEF TP!Approve
    <2> HIDE DEF old
    <2>4. ASSUME NEW w \in Numbers
          PROVE  /\ w = v => version'[w] = "APPROVED" /\ events'[w] = Append(events[w], <<version[w], "APPROVED">>)
                 /\ w \in old => /\ version[w] = "APPROVED" /\ version'[w] = "SUPERSEDED"
                                 /\ events'[w] = Append(events[w], <<version[w], "SUPERSEDED">>)
                 /\ w # v /\ w \notin old =>
                        version[w] # "APPROVED" /\ version'[w] = version[w] /\ events'[w] = events[w]
      BY <2>2, <2>3 DEF TP!ApprovedIn
    <2>5. ASSUME NEW w \in Numbers
          PROVE  /\ version'[w] \in TP!Statuses /\ events'[w] \in Seq(TP!Statuses \X TP!Statuses)
                 /\ Tells(events'[w], version'[w])
      <3>1. /\ version[w] \in TP!Statuses /\ events[w] \in Seq(TP!Statuses \X TP!Statuses)
            /\ Tells(events[w], version[w]) /\ "APPROVED" \in TP!Statuses /\ "SUPERSEDED" \in TP!Statuses
        BY <1>0 DEF PlanHistory, TP!Statuses
      <3>2. CASE w = v
        <4>1. /\ Tells(Append(events[w], <<version[w], "APPROVED">>), "APPROVED")
              /\ Append(events[w], <<version[w], "APPROVED">>) \in Seq(TP!Statuses \X TP!Statuses)
          BY <3>1, TellsOneMore
        <4> QED BY <3>1, <3>2, <4>1, <2>4
      <3>3. CASE w \in old
        <4>1. /\ Tells(Append(events[w], <<version[w], "SUPERSEDED">>), "SUPERSEDED")
              /\ Append(events[w], <<version[w], "SUPERSEDED">>) \in Seq(TP!Statuses \X TP!Statuses)
          BY <3>1, TellsOneMore
        <4> QED BY <3>1, <3>3, <4>1, <2>4
      <3>4. CASE w # v /\ w \notin old
        BY <3>1, <3>4, <2>4
      <3> QED BY <3>2, <3>3, <3>4
    <2>6. version' \in [Numbers -> TP!Statuses] /\ events' \in [Numbers -> Seq(TP!Statuses \X TP!Statuses)]
      BY <2>3, <2>5
    <2>7. PlanHistory'
      BY <1>0, <2>2, <2>3, <2>4, <2>5 DEF PlanHistory
    <2>8. TP!OneApproved'
      BY <2>4 DEF TP!OneApproved, TP!ApprovedIn
    <2>9. command' \in [Planners -> TP!Requests \cup {TP!Idle}] /\ PlanLock'
      BY <2>1, <2>3, PlanEnds
    <2> QED BY <1>0, <2>2, <2>3, <2>6, <2>7, <2>8, <2>9 DEF PlanInv, TP!TypeOK
  <1>6. ASSUME NEW c \in Planners, TP!Delete(c) PROVE PlanInv'
    <2>1. /\ TP!Existing(version) \subseteq TP!Existing(command[c].seen) /\ plan' = "deleted" /\ TP!Done(c)
          /\ \A d \in Planners \ {c} : ~TP!Holds(d)
          /\ version' = [v \in Numbers |-> "none"] /\ events' = [v \in Numbers |-> <<>>]
          /\ approvals' = approvals \ TP!Existing(command[c].seen)
      BY <1>6 DEF TP!Delete, TP!LockFree
    <2>2. approvals' = {}
      BY <1>0, <2>1 DEF PlanHistory, TP!Existing
    <2>3. PlanHistory' /\ TP!OneApproved'
      BY <2>1, <2>2 DEF PlanHistory, Tells, TP!OneApproved, TP!ApprovedIn
    <2>4. command' \in [Planners -> TP!Requests \cup {TP!Idle}] /\ PlanLock'
      BY <2>1, PlanEnds
    <2>5. version' \in [Numbers -> TP!Statuses] /\ events' \in [Numbers -> Seq(TP!Statuses \X TP!Statuses)]
      BY <2>1 DEF TP!Statuses
    <2> QED BY <2>1, <2>2, <2>3, <2>4, <2>5 DEF PlanInv, TP!TypeOK
  <1>7. ASSUME NEW c \in Planners, TP!Refuse(c) PROVE PlanInv'
    <2>1. TP!Done(c) /\ UNCHANGED <<plan, version, approvals, events>>
      BY <1>7 DEF TP!Refuse
    <2>2. command' \in [Planners -> TP!Requests \cup {TP!Idle}] /\ PlanLock'
      BY <2>1, PlanEnds
    <2> QED BY <1>0, <2>1, <2>2 DEF PlanInv, TP!TypeOK, PlanHistory, TP!OneApproved, TP!ApprovedIn
  <1>8. CASE UNCHANGED TP!planVars
    BY <1>0, <1>8 DEF TP!planVars, PlanInv, TP!TypeOK, PlanLock, TP!Holds, PlanHistory, TP!OneApproved, TP!ApprovedIn
  <1> QED BY <1>1, <1>2, <1>3, <1>4, <1>5, <1>6, <1>7, <1>8 DEF TP!Next, TP!Commands

\* The invariant implies what is promised.
LEMMA PlanInvSuffices == PlanInv => TP!TypeOK /\ TP!OneApproved /\ TP!HistoryTellsStatus
  BY DEF PlanInv, PlanHistory, Tells, TP!HistoryTellsStatus

\* At most one version of a plan is approved, and the events of each version lead to its
\* status, whatever commands run at the same time.
THEOREM PlanTellsStatus == TP!Spec => [](TP!TypeOK /\ TP!OneApproved /\ TP!HistoryTellsStatus)
  BY PlanInit, PlanNext, PlanInvSuffices, PTL DEF TP!Spec

-----------------------------------------------------------------------------
(* Risk warnings. *)

\* The types of what an evaluation reads and writes, and of the sweep.
Evaluated ==
    /\ market \in RA!Markets
    /\ held \in {"OPEN", "SOLD", "CANCELLED"}
    /\ setting \in [revision : 0..LastRevision, enabled : BOOLEAN] /\ (setting.enabled => setting.revision # 0)
    /\ \A f \in snapshots : f.revision <= setting.revision /\ f.market \in RA!Markets /\ f.basis \in Bases
    /\ latest = {} \/ \E s \in RA!Snapshots : latest = {s}
    /\ told \subseteq RA!Raised
    /\ sweep \in [stage : {"idle", "listed", "evaluated"}, late : BOOLEAN, alerts : SUBSET RA!Raised]
Kept ==
    /\ edge \in [RA!Keys -> [triggered : BOOLEAN, active : 0..MaxRaised]]
    /\ warning \in [RA!Raised -> {"none", "OPEN", "RESOLVED", "INVALIDATED"}]
RiskInv == Evaluated /\ Kept /\ RA!OpenWarningsAgree

\* No warnings yet.
LEMMA RiskInit == ASSUME RA!RiskAssumption PROVE RA!Init => RiskInv
  <1> SUFFICES ASSUME RA!Init PROVE RiskInv
    OBVIOUS
  <1>1. market \in RA!Markets
    BY DEF RA!Init, RA!Markets, RA!RiskAssumption
  <1>2. Evaluated
    BY <1>1 DEF RA!Init, Evaluated, RA!RiskAssumption, RA!Idle
  <1>3. Kept /\ \A w \in RA!Raised : warning[w] = "none"
    BY DEF RA!Init, Kept, RA!RiskAssumption
  <1> QED BY <1>2, <1>3 DEF RiskInv, RA!OpenWarningsAgree

\* What an evaluation reads.
LEMMA RiskReads ==
  ASSUME RA!RiskAssumption, Evaluated
  PROVE  /\ RA!ViewBasis \in Bases /\ RA!Previous \in RA!States
         /\ RA!Fingerprint.revision = setting.revision /\ RA!Fingerprint.market \in RA!Markets
         /\ RA!Fingerprint.basis \in Bases
  <1>1. ASSUME RA!Last # {} PROVE \E s \in RA!Snapshots : RA!Last = {s}
    BY <1>1 DEF RA!Last, Evaluated
  <1>2. RA!ViewBasis \in Bases
    <2>1. market.basis \in Bases
      BY DEF Evaluated, RA!Markets
    <2>2. ASSUME RA!Last # {} PROVE (CHOOSE s \in RA!Last : TRUE).basis \in Bases
      BY <1>1, <2>2 DEF RA!Snapshots
    <2> QED BY <2>1, <2>2 DEF RA!ViewBasis
  <1>3. RA!Previous \in RA!States
    <2> DEFINE same == {s \in RA!Last : s.basis = RA!ViewBasis}
    <2>1. RA!Uninitialized \in RA!States
      BY DEF RA!Uninitialized, RA!States, RA!RiskAssumption
    <2>2. ASSUME same # {} PROVE (CHOOSE s \in same : TRUE).state \in RA!States
      <3>1. PICK s \in RA!Snapshots : same = {s}
        BY <1>1, <2>2
      <3> QED BY <3>1 DEF RA!Snapshots
    <2> QED BY <2>1, <2>2 DEF RA!Previous
  <1> QED BY <1>2, <1>3 DEF RA!Fingerprint, Evaluated

\* The rules are those of an available market.
LEMMA RiskAssessed ==
  ASSUME RA!RiskAssumption, Evaluated, NEW old \in RA!States
  PROVE  /\ RA!Assessed(old).state \in RA!States /\ RA!Assessed(old).judged \subseteq RA!Rules
         /\ RA!Assessed(old).judged # {} => market.available
  <1>1. /\ market.session \in 1..LastSession /\ market.trend \in Trends /\ market.available \in BOOLEAN
        /\ old.session \in 0..LastSession /\ old.count \in 0..ConfirmationSessions
        /\ old.warnings \subseteq RA!Rules /\ old.trend \in {"UNINITIALIZED", "ABOVE", "BELOW", "IN_BAND"}
        /\ 1..LastSession \subseteq 0..LastSession
    BY DEF Evaluated, RA!Markets, RA!States
  <1>2. RA!Crossing(old) \in Nat /\ (RA!Crossing(old) # 0 => market.trend # "IN_BAND")
    BY <1>1 DEF RA!Crossing
  <1>3. market.trend \in {"ABOVE", "BELOW", "IN_BAND"}
    BY <1>1 DEF RA!RiskAssumption
  <1> DEFINE v == IF RA!Volatile(old) THEN {"VOLATILITY"} ELSE {}
             count == RA!Crossing(old)
             crossed == count >= ConfirmationSessions
             broken == IF crossed THEN market.trend = "BELOW" ELSE "TREND" \in old.warnings
             quiet == [old EXCEPT !.continuous = FALSE, !.pending = "NONE", !.count = 0]
             new == [RA!Uninitialized EXCEPT !.session = market.session, !.trend = market.trend,
                                             !.continuous = TRUE, !.warnings = v]
             next == [session |-> market.session, continuous |-> TRUE,
                      trend |-> IF crossed THEN market.trend ELSE old.trend,
                      pending |-> IF count = 0 \/ crossed THEN "NONE" ELSE market.trend,
                      count |-> IF crossed THEN 0 ELSE count,
                      warnings |-> v \cup (IF broken THEN {"TREND"} ELSE {})]
  <1>4. v \in SUBSET RA!Rules /\ v \cup (IF broken THEN {"TREND"} ELSE {}) \in SUBSET RA!Rules
    BY DEF RA!Rules
  <1>5. quiet \in RA!States
    <2>1. 0 \in 0..ConfirmationSessions
      BY DEF RA!RiskAssumption
    <2>2. \A x \in RA!States : [x EXCEPT !.continuous = FALSE] \in RA!States
      BY DEF RA!States
    <2>3. \A x \in RA!States : [x EXCEPT !.pending = "NONE"] \in RA!States
      BY DEF RA!States
    <2>4. \A x \in RA!States : [x EXCEPT !.count = 0] \in RA!States
      BY <2>1 DEF RA!States
    <2>5. [[[old EXCEPT !.continuous = FALSE] EXCEPT !.pending = "NONE"] EXCEPT !.count = 0] \in RA!States
      <3>1. [old EXCEPT !.continuous = FALSE] \in RA!States
        BY <2>2
      <3>2. [[old EXCEPT !.continuous = FALSE] EXCEPT !.pending = "NONE"] \in RA!States
        BY <2>3, <3>1
      <3> QED BY <2>4, <3>2
    <2> QED BY <2>5
  <1>6. new \in RA!States
    <2>1. RA!Uninitialized \in RA!States
      BY DEF RA!Uninitialized, RA!States, RA!RiskAssumption
    <2>2. \A x \in RA!States : [x EXCEPT !.session = market.session] \in RA!States
      BY <1>1 DEF RA!States
    <2>3. \A x \in RA!States : [x EXCEPT !.trend = market.trend] \in RA!States
      BY <1>3 DEF RA!States
    <2>4. \A x \in RA!States : [x EXCEPT !.continuous = TRUE] \in RA!States
      BY DEF RA!States
    <2>5. \A x \in RA!States : [x EXCEPT !.warnings = v] \in RA!States
      <3> HIDE DEF v
      <3> QED BY <1>4 DEF RA!States
    <2>6. [[[[RA!Uninitialized EXCEPT !.session = market.session] EXCEPT !.trend = market.trend]
            EXCEPT !.continuous = TRUE] EXCEPT !.warnings = v] \in RA!States
      <3> HIDE DEF v
      <3>1. [RA!Uninitialized EXCEPT !.session = market.session] \in RA!States
        BY <2>1, <2>2
      <3>2. [[RA!Uninitialized EXCEPT !.session = market.session] EXCEPT !.trend = market.trend] \in RA!States
        BY <2>3, <3>1
      <3>3. [[[RA!Uninitialized EXCEPT !.session = market.session] EXCEPT !.trend = market.trend]
              EXCEPT !.continuous = TRUE] \in RA!States
        BY <2>4, <3>2
      <3> QED BY <2>5, <3>3
    <2> QED BY <2>6
  <1>7. next \in RA!States
    <2>1. (IF crossed THEN 0 ELSE count) \in 0..ConfirmationSessions
      BY <1>2 DEF RA!RiskAssumption
    <2>2. (IF count = 0 \/ crossed THEN "NONE" ELSE market.trend) \in {"NONE", "ABOVE", "BELOW"}
      BY <1>2, <1>3
    <2>3. (IF crossed THEN market.trend ELSE old.trend) \in {"UNINITIALIZED", "ABOVE", "BELOW", "IN_BAND"}
      BY <1>1, <1>3
    <2> HIDE DEF count, crossed, broken, v
    <2> QED BY <1>1, <1>4, <2>1, <2>2, <2>3 DEF RA!States
  <1>8. RA!Assessed(old) = IF ~market.available THEN [state |-> quiet, judged |-> {}]
                           ELSE IF market.session <= old.session THEN [state |-> old, judged |-> {}]
                           ELSE IF old.trend = "UNINITIALIZED" THEN [state |-> new, judged |-> {}]
                           ELSE [state |-> next, judged |-> RA!Rules]
    BY DEF RA!Assessed
  <1> HIDE DEF quiet, new, next
  <1> QED BY <1>5, <1>6, <1>7, <1>8

\* The keys of an evaluation differ by their rules.
LEMMA RiskKeys ==
  ASSUME RA!RiskAssumption, Evaluated, setting.enabled, NEW r \in RA!Rules
  PROVE  RA!KeyOf(r) \in RA!Keys /\ RA!KeyOf(r).rule = r /\ RA!KeyOf(r).revision = setting.revision
  <1>1. RA!ViewBasis \in Bases
    BY RiskReads
  <1> QED BY <1>1 DEF RA!KeyOf, RA!Keys, Evaluated

\* Warnings are numbered from 1.
LEMMA RiskNumber == ASSUME RA!RiskAssumption, NEW k PROVE RA!Number(k) \in Nat \ {0}
  <1> DEFINE used == {n \in 1..MaxRaised : warning[<<k, n>>] # "none"}
  <1>1. IsFiniteSet(used) /\ Cardinality(used) \in Nat
    <2>1. IsFiniteSet(1..MaxRaised)
      BY FS_Interval DEF RA!RiskAssumption
    <2>2. used \subseteq 1..MaxRaised
      OBVIOUS
    <2> HIDE DEF used
    <2>3. IsFiniteSet(used)
      BY <2>1, <2>2, FS_Subset
    <2> QED BY <2>3, FS_CardinalityType
  <1>2. RA!Number(k) = 1 + Cardinality(used)
    BY DEF RA!Number, RA!Cardinality, Cardinality
  <1> HIDE DEF used
  <1> QED BY <1>1, <1>2

\* The warnings of an evaluation of present inputs.
LEMMA RiskProcess ==
  ASSUME RA!RiskAssumption, RiskInv, setting.enabled, NEW assessed,
         assessed.judged \subseteq RA!Rules, assessed.judged # {} => market.available,
         RA!Process(assessed), setting' = setting
  PROVE  Kept' /\ RA!OpenWarningsAgree'
  <1> DEFINE entered == RA!Entered(assessed)
             exited == RA!Exited(assessed)
  <1>1. /\ \A k \in entered : \E r \in RA!Rules : k = RA!KeyOf(r) /\ k.rule = r
        /\ \A k \in entered : k \in RA!Keys /\ ~edge[k].triggered /\ k.revision = setting.revision /\ k \notin exited
        /\ \A k \in exited : k \in RA!Keys
        /\ entered # {} => market.available
    <2>1. \A k \in entered : \E r \in assessed.judged : k = RA!KeyOf(r) /\ ~edge[RA!KeyOf(r)].triggered
      BY DEF RA!Entered
    <2>2. \A k \in exited : \E r \in assessed.judged : k = RA!KeyOf(r) /\ edge[RA!KeyOf(r)].triggered
      BY DEF RA!Exited
    <2> HIDE DEF entered, exited
    <2> QED BY <2>1, <2>2, RiskKeys DEF RiskInv
  <1>2. \A k \in entered : RA!Number(k) \in 1..MaxRaised
    BY RiskNumber DEF RA!Process, RA!RiskAssumption
  <1>3. /\ edge' = [k \in RA!Keys |-> IF k \in entered THEN [triggered |-> TRUE, active |-> RA!Number(k)]
                                      ELSE IF k \in exited THEN [triggered |-> FALSE, active |-> 0] ELSE edge[k]]
        /\ warning' = [w \in RA!Raised |->
              IF w[1] \in entered /\ w[2] = RA!Number(w[1]) THEN "OPEN"
              ELSE IF w[1] \in exited /\ w[2] = edge[w[1]].active /\ warning[w] # "INVALIDATED" THEN "RESOLVED"
              ELSE IF market.available /\ warning[w] = "OPEN" /\ RA!Superseded(w[1]) THEN "INVALIDATED"
              ELSE warning[w]]
    BY DEF RA!Process
  <1>4. Kept'
    <2> HIDE DEF entered, exited
    <2>1. edge' \in [RA!Keys -> [triggered : BOOLEAN, active : 0..MaxRaised]]
      BY <1>2, <1>3 DEF RiskInv, Kept, RA!RiskAssumption
    <2>2. warning' \in [RA!Raised -> {"none", "OPEN", "RESOLVED", "INVALIDATED"}]
      BY <1>3 DEF RiskInv, Kept
    <2> QED BY <2>1, <2>2 DEF Kept
  \* An open warning has been raised now, or goes on.
  <1>5. ASSUME NEW w \in RA!Raised, warning'[w] = "OPEN"
        PROVE  \/ w[1] \in entered /\ w[2] = RA!Number(w[1])
               \/ /\ w[1] \notin entered /\ warning[w] = "OPEN" /\ edge'[w[1]] = edge[w[1]]
                  /\ entered # {} => ~RA!Superseded(w[1])
    <2>1. w[1] \in RA!Keys
      BY DEF RA!Raised
    <2>2. CASE w[1] \in entered /\ w[2] = RA!Number(w[1])
      BY <2>2
    <2>3. CASE ~(w[1] \in entered /\ w[2] = RA!Number(w[1]))
      <3>1. warning[w] = "OPEN" /\ (market.available => ~RA!Superseded(w[1]))
            /\ ~(w[1] \in exited /\ w[2] = edge[w[1]].active)
        <4> HIDE DEF entered, exited
        <4> QED BY <1>3, <1>5, <2>3
      <3>2. edge[w[1]] = [triggered |-> TRUE, active |-> w[2]]
        BY <3>1 DEF RiskInv, RA!OpenWarningsAgree
      <3> HIDE DEF entered, exited
      <3> QED BY <1>1, <1>3, <2>1, <3>1, <3>2
    <2> QED BY <2>2, <2>3
  <1>6. ASSUME NEW w \in RA!Raised, NEW x \in RA!Raised, warning'[w] = "OPEN", warning'[x] = "OPEN",
               w[1].rule = x[1].rule
        PROVE  w = x
    <2>1. w = <<w[1], w[2]>> /\ x = <<x[1], x[2]>>
      BY DEF RA!Raised
    <2>2. ASSUME NEW y \in RA!Raised, ~RA!Superseded(y[1]), NEW k \in entered, y[1].rule = k.rule PROVE y[1] = k
      <3>1. PICK r \in RA!Rules : y[1] = RA!KeyOf(r)
        BY <2>2 DEF RA!Superseded
      <3>2. y[1].rule = r
        BY <3>1, RiskKeys DEF RiskInv
      <3> QED BY <1>1, <2>2, <3>1, <3>2
    <2>3. CASE w[1] \in entered /\ x[1] \in entered
      <3>1. w[1] = x[1]
        BY <1>1, <1>6, <2>3
      <3> HIDE DEF entered, exited
      <3> QED BY <1>5, <1>6, <2>1, <2>3, <3>1
    <2>4. CASE w[1] \notin entered /\ x[1] \notin entered
      <3>1. warning[w] = "OPEN" /\ warning[x] = "OPEN"
        BY <1>5, <1>6, <2>4
      <3> QED BY <1>6, <3>1 DEF RiskInv, RA!OpenWarningsAgree
    <2>5. CASE w[1] \in entered /\ x[1] \notin entered
      BY <1>5, <1>6, <2>2, <2>5
    <2>6. CASE w[1] \notin entered /\ x[1] \in entered
      BY <1>5, <1>6, <2>2, <2>6
    <2> QED BY <2>3, <2>4, <2>5, <2>6
  <1>7. ASSUME NEW w \in RA!Raised, warning'[w] = "OPEN"
        PROVE  w[1].revision = setting.revision /\ edge'[w[1]] = [triggered |-> TRUE, active |-> w[2]]
    <2>1. w[1] \in RA!Keys
      BY DEF RA!Raised
    <2>2. CASE w[1] \in entered /\ w[2] = RA!Number(w[1])
      <3> HIDE DEF entered, exited
      <3> QED BY <1>1, <1>3, <2>1, <2>2
    <2>3. CASE warning[w] = "OPEN" /\ edge'[w[1]] = edge[w[1]]
      BY <2>3 DEF RiskInv, RA!OpenWarningsAgree
    <2> QED BY <1>5, <1>7, <2>2, <2>3
  <1>8. RA!OpenWarningsAgree'
    BY <1>6, <1>7 DEF RA!OpenWarningsAgree
  <1> QED BY <1>4, <1>8

\* An evaluation, by hand or in the sweep.
LEMMA RiskEvaluate ==
  ASSUME RA!RiskAssumption, RiskInv, NEW older, RA!Evaluate(older), UNCHANGED <<market, held, setting, told>>,
         sweep' \in [stage : {"idle", "listed", "evaluated"}, late : BOOLEAN, alerts : SUBSET RA!Raised]
  PROVE  RiskInv'
  <1>1. RA!Previous \in RA!States
    BY RiskReads DEF RiskInv
  <1> DEFINE assessed == RA!Assessed(RA!Previous)
  <1>2. /\ assessed.state \in RA!States /\ assessed.judged \subseteq RA!Rules
        /\ assessed.judged # {} => market.available
    BY <1>1, RiskAssessed DEF RiskInv
  <1>3. Evaluated'
    <2>1. \A f \in snapshots' : f.revision <= setting.revision /\ f.market \in RA!Markets /\ f.basis \in Bases
      <3>1. setting.revision \in Nat
        BY DEF RiskInv, Evaluated, RA!RiskAssumption
      <3>2. snapshots' = snapshots \cup {RA!Fingerprint}
        BY DEF RA!Evaluate
      <3> QED BY <3>1, <3>2, RiskReads DEF RiskInv, Evaluated
    <2>2. latest' = latest \/ \E s \in RA!Snapshots : latest' = {s}
      <3> DEFINE s == [revision |-> setting.revision, basis |-> RA!ViewBasis, state |-> assessed.state]
      <3>1. latest' = latest \/ latest' = {s}
        BY DEF RA!Evaluate
      <3>2. s \in RA!Snapshots
        <4>1. RA!ViewBasis \in Bases /\ setting.revision \in 0..LastRevision
          BY RiskReads DEF RiskInv, Evaluated
        <4> HIDE DEF assessed
        <4> QED BY <1>2, <4>1 DEF RA!Snapshots
      <3> HIDE DEF s
      <3> QED BY <3>1, <3>2
    <2> QED BY <2>1, <2>2 DEF RiskInv, Evaluated
  <1>4. Kept' /\ RA!OpenWarningsAgree'
    <2>1. CASE UNCHANGED <<edge, warning>>
      BY <2>1 DEF RiskInv, Kept, RA!OpenWarningsAgree
    <2>2. CASE setting.enabled /\ RA!Process(assessed)
      BY <1>2, <2>2, RiskProcess
    <2> QED BY <2>1, <2>2 DEF RA!Evaluate
  <1> QED BY <1>3, <1>4 DEF RiskInv

\* Every other step keeps the warnings, or closes all of them.
LEMMA RiskNext == ASSUME RA!RiskAssumption, RiskInv, [RA!Next]_RA!riskVars PROVE RiskInv'
  <1> USE DEF RiskInv
  \* The warnings stay.
  <1>1. ASSUME UNCHANGED <<setting, edge, warning>>, Evaluated' PROVE RiskInv'
    BY <1>1 DEF Kept, RA!OpenWarningsAgree
  <1>2. CASE UNCHANGED RA!riskVars
    BY <1>1, <1>2 DEF RA!riskVars, Evaluated
  <1>3. ASSUME NEW s \in 1..LastSession, NEW t \in Trends, NEW v \in Volatilities, RA!NewSession(s, t, v)
        PROVE  RiskInv'
    <2>1. market' \in RA!Markets
      BY <1>3 DEF RA!NewSession, Evaluated, RA!Markets
    <2> QED BY <1>1, <1>3, <2>1 DEF RA!NewSession, Evaluated
  <1>4. ASSUME NEW b \in Bases, RA!Rebase(b) PROVE RiskInv'
    <2>1. market' \in RA!Markets
      BY <1>4 DEF RA!Rebase, Evaluated, RA!Markets
    <2> QED BY <1>1, <1>4, <2>1 DEF RA!Rebase, Evaluated
  <1>5. CASE RA!Qualify
    <2>1. market' \in RA!Markets
      BY <1>5 DEF RA!Qualify, Evaluated, RA!Markets
    <2> QED BY <1>1, <1>5, <2>1 DEF RA!Qualify, Evaluated
  <1>6. CASE RA!Sell \/ RA!Reopen
    BY <1>1, <1>6 DEF RA!Sell, RA!Reopen, Evaluated
  <1>7. CASE RA!CancelTrade
    <2>1. warning' \in [RA!Raised -> {"none", "OPEN", "RESOLVED", "INVALIDATED"}]
          /\ \A w \in RA!Raised : warning'[w] # "OPEN"
      BY <1>7 DEF RA!CancelTrade, Kept
    <2> QED BY <1>7, <2>1 DEF RA!CancelTrade, Evaluated, Kept, RA!OpenWarningsAgree
  <1>8. CASE RA!EvaluateByHand
    <2>1. sweep' \in [stage : {"idle", "listed", "evaluated"}, late : BOOLEAN, alerts : SUBSET RA!Raised]
      BY <1>8 DEF RA!EvaluateByHand, Evaluated
    <2> QED BY <1>8, <2>1, RiskEvaluate DEF RA!EvaluateByHand
  <1>9. ASSUME NEW n \in 0..LastRevision, NEW e \in BOOLEAN, RA!Configure(n, e) PROVE RiskInv'
    <2>1. warning' \in [RA!Raised -> {"none", "OPEN", "RESOLVED", "INVALIDATED"}]
          /\ \A w \in RA!Raised : warning'[w] # "OPEN"
      BY <1>9 DEF RA!Configure, Kept
    <2>2. setting' \in [revision : 0..LastRevision, enabled : BOOLEAN] /\ setting'.revision # 0
      BY <1>9 DEF RA!Configure, RA!RiskAssumption
    <2> QED BY <1>9, <2>1, <2>2 DEF RA!Configure, Evaluated, Kept, RA!OpenWarningsAgree
  <1>10. CASE RA!List
    <2>1. sweep' \in [stage : {"idle", "listed", "evaluated"}, late : BOOLEAN, alerts : SUBSET RA!Raised]
      BY <1>10 DEF RA!List, RA!Idle
    <2> QED BY <1>1, <1>10, <2>1 DEF RA!List, Evaluated
  <1>11. CASE RA!EvaluateInSweep
    <2>1. sweep' \in [stage : {"idle", "listed", "evaluated"}, late : BOOLEAN, alerts : SUBSET RA!Raised]
      BY <1>11 DEF RA!EvaluateInSweep, RA!Replayed
    <2> QED BY <1>11, <2>1, RiskEvaluate DEF RA!EvaluateInSweep
  <1>12. CASE RA!NothingFound \/ RA!EndOfSweep \/ RA!Crash
    <2>1. sweep' \in [stage : {"idle", "listed", "evaluated"}, late : BOOLEAN, alerts : SUBSET RA!Raised]
      <3>1. sweep' = RA!Idle
        BY <1>12 DEF RA!NothingFound, RA!EndOfSweep, RA!Crash
      <3> QED BY <3>1 DEF RA!Idle
    <2> QED BY <1>1, <1>12, <2>1 DEF RA!NothingFound, RA!EndOfSweep, RA!Crash, Evaluated
  <1>13. ASSUME NEW w \in RA!Raised, RA!Notify(w) PROVE RiskInv'
    <2>1. sweep' \in [stage : {"idle", "listed", "evaluated"}, late : BOOLEAN, alerts : SUBSET RA!Raised]
      BY <1>13 DEF RA!Notify, Evaluated
    <2> QED BY <1>1, <1>13, <2>1 DEF RA!Notify, Evaluated
  <1> QED
    BY <1>2, <1>3, <1>4, <1>5, <1>6, <1>7, <1>8, <1>9, <1>10, <1>11, <1>12, <1>13 DEF RA!Next, RA!Step

\* The invariant implies what is promised.
LEMMA RiskInvSuffices == ASSUME RiskInv PROVE RA!TypeOK /\ RA!OpenWarningsAgree
  <1>1. latest \subseteq RA!Snapshots /\ Cardinality(latest) <= 1
    <2>1. Cardinality({}) = 0 /\ \A s \in RA!Snapshots : Cardinality({s}) = 1
      BY FS_EmptySet, FS_Singleton
    <2>2. Cardinality(latest) = 0 \/ Cardinality(latest) = 1
      BY <2>1 DEF RiskInv, Evaluated
    <2>3. latest \subseteq RA!Snapshots
      BY DEF RiskInv, Evaluated
    <2> QED BY <2>2, <2>3
  <1>2. RA!Cardinality(latest) = Cardinality(latest)
    BY DEF RA!Cardinality, Cardinality
  <1> QED BY <1>1, <1>2 DEF RiskInv, Evaluated, Kept, RA!TypeOK

\* An open warning is of the present configuration and the active one of its row, and a rule has
\* one at most, whatever prices, bases and configurations change and however often inputs are
\* evaluated again.
THEOREM OpenWarningsAreActive ==
  ASSUME RA!RiskAssumption PROVE RA!Spec => [](RA!TypeOK /\ RA!OpenWarningsAgree)
  BY RiskInit, RiskNext, RiskInvSuffices, PTL DEF RA!Spec

-----------------------------------------------------------------------------
(* The import of observations. *)

\* A row that is about to be discarded is not accepted meanwhile.
DiscardHolds ==
    \A c \in Clients : request[c].at = "flushed" /\ request[c].does = "discard" =>
        \A r \in request[c].rows : row[r].disposition # "ACCEPTED"
ImportInv == IJ!TypeOK /\ DiscardHolds /\ IJ!AcceptedOnce

Rows == [valid : BOOLEAN, versions : Nat, disposition : {"none", "PENDING", "ACCEPTED", "DISCARDED"}]
FilesAre == [job : Jobs, content : Contents, status : IJ!FileStatuses, row : Files \cup {IJ!None}]

\* The types, by variable.
LEMMA ImportTypes ==
  IJ!TypeOK <=>
    /\ job \in [Jobs -> IJ!JobStatuses] /\ file \in [Files -> FilesAre] /\ row \in [Files -> Rows]
    /\ imported \in [Contents -> Nat] /\ request \in [Clients -> IJ!Requests]
  BY DEF IJ!TypeOK, Rows, FilesAre

\* A request that does nothing.
LEMMA NoRequestIsRequest ==
  ASSUME IJ!ImportAssumption
  PROVE  IJ!NoRequest \in IJ!Requests /\ IJ!NoRequest.at = "idle" /\ IJ!NoRequest.does = "nothing"
  BY DEF IJ!ImportAssumption, IJ!NoRequest, IJ!Requests, IJ!JobStatuses, IJ!FileStatuses

\* What files are summed up to is a status of a job.
LEMMA SummaryIsStatus == ASSUME NEW S PROVE IJ!Summary(S) \in IJ!JobStatuses
  BY DEF IJ!Summary, IJ!JobStatuses

\* No job yet.
LEMMA ImportInit == ASSUME IJ!ImportAssumption PROVE IJ!Init => ImportInv
  <1> SUFFICES ASSUME IJ!Init PROVE ImportInv
    OBVIOUS
  <1>1. request \in [Clients -> IJ!Requests] /\ \A c \in Clients : request[c].at = "idle"
    BY NoRequestIsRequest DEF IJ!Init
  <1>2. IJ!NoFile \in FilesAre /\ IJ!NoRow \in Rows /\ IJ!NoRow.versions = 0 /\ IJ!NoRow.disposition = "none"
    BY DEF IJ!NoFile, IJ!NoRow, FilesAre, Rows, IJ!ImportAssumption, IJ!FileStatuses
  <1>3. job \in [Jobs -> IJ!JobStatuses] /\ file \in [Files -> FilesAre] /\ row \in [Files -> Rows]
        /\ imported \in [Contents -> Nat] /\ \A r \in Files : row[r] = IJ!NoRow
    BY <1>2 DEF IJ!Init, IJ!JobStatuses
  <1>4. DiscardHolds /\ IJ!AcceptedOnce
    BY <1>1, <1>2, <1>3 DEF DiscardHolds, IJ!AcceptedOnce
  <1> QED BY <1>1, <1>3, <1>4, ImportTypes DEF ImportInv

\* A request goes on, and the others stay.
LEMMA ImportSends ==
  ASSUME ImportInv, NEW c \in Clients, NEW q \in IJ!Requests, IJ!Sends(c, q)
  PROVE  /\ request' \in [Clients -> IJ!Requests] /\ request'[c] = q
         /\ \A d \in Clients : d # c => request'[d] = request[d]
  BY ImportTypes DEF ImportInv, IJ!Sends

\* A step that accepts and discards no row.
LEMMA ImportGoesOn ==
  ASSUME ImportInv, NEW c \in Clients, NEW q \in IJ!Requests, IJ!Sends(c, q),
         q.at = "flushed" /\ q.does = "discard" => \A r \in q.rows : row[r].disposition # "ACCEPTED",
         job' \in [Jobs -> IJ!JobStatuses], file' \in [Files -> FilesAre], row' \in [Files -> Rows],
         imported' \in [Contents -> Nat],
         \A r \in Files : /\ row'[r].disposition = "ACCEPTED" <=> row[r].disposition = "ACCEPTED"
                          /\ row'[r].versions = row[r].versions
  PROVE  ImportInv'
  <1>1. /\ request' \in [Clients -> IJ!Requests] /\ request'[c] = q
        /\ \A d \in Clients : d # c => request'[d] = request[d]
    BY ImportSends
  <1>2. \A d \in Clients : request[d].rows \subseteq Files /\ q.rows \subseteq Files
    BY ImportTypes DEF ImportInv, IJ!Requests
  <1>3. DiscardHolds'
    BY <1>1, <1>2 DEF ImportInv, DiscardHolds
  <1>4. IJ!AcceptedOnce'
    BY DEF ImportInv, IJ!AcceptedOnce
  <1>5. IJ!TypeOK'
    BY <1>1, ImportTypes DEF IJ!TypeOK, Rows, FilesAre
  <1> QED BY <1>3, <1>4, <1>5 DEF ImportInv

\* Uploads and the creation of the job.
LEMMA ImportUploads ==
  ASSUME IJ!ImportAssumption, ImportInv, NEW c \in Clients,
         \/ \E j \in Jobs : IJ!CreateJob(c, j) \/ IJ!AddFiles(c, j)
         \/ \E x \in Contents : IJ!FindContent(c, x)
         \/ IJ!FlushDuplicate(c) \/ IJ!CommitDuplicate(c) \/ IJ!Leave(c)
  PROVE  ImportInv'
  <1>0. /\ job \in [Jobs -> IJ!JobStatuses] /\ file \in [Files -> FilesAre] /\ row \in [Files -> Rows]
        /\ imported \in [Contents -> Nat] /\ request[c] \in IJ!Requests
    BY SMTT(30), ImportTypes DEF ImportInv
  <1>1. ASSUME NEW j \in Jobs, IJ!CreateJob(c, j) \/ IJ!AddFiles(c, j) PROVE ImportInv'
    <2> DEFINE Q(s) == [IJ!NoRequest EXCEPT !.at = "upload", !.does = "upload", !.job = j, !.seen = s]
    <2>1. PICK s \in IJ!JobStatuses :
            /\ IJ!Sends(c, Q(s)) /\ (UNCHANGED job \/ job' = [job EXCEPT ![j] = "OPEN"])
            /\ UNCHANGED <<file, row, imported>>
      BY <1>0, <1>1 DEF IJ!CreateJob, IJ!AddFiles, IJ!JobStatuses
    <2>2. Q(s) \in IJ!Requests /\ Q(s).at = "upload"
      BY ZenonT(60), NoRequestIsRequest DEF IJ!Requests
    <2>3. job' \in [Jobs -> IJ!JobStatuses]
      BY <1>0, <2>1 DEF IJ!JobStatuses
    <2> HIDE DEF Q
    <2> QED BY SMTT(30), <1>0, <2>1, <2>2, <2>3, ImportGoesOn
  <1>2. ASSUME NEW x \in Contents, IJ!FindContent(c, x) PROVE ImportInv'
    <2> DEFINE Q(fs, does) == [request[c] EXCEPT !.at = "found", !.content = x, !.files = fs, !.does = does]
    <2>1. PICK fs \in SUBSET Files, does \in {"upload", "duplicate", request[c].does} : IJ!Sends(c, Q(fs, does))
      <3>1. CASE IJ!FailedBefore(request[c].job, x) # {}
        <4>1. PICK f \in IJ!FailedBefore(request[c].job, x) :
                IJ!Sends(c, [request[c] EXCEPT !.at = "found", !.content = x, !.files = {f}])
          BY ZenonT(60), <1>2, <3>1 DEF IJ!FindContent
        <4>2. f \in Files
          BY SMTT(30) DEF IJ!FailedBefore, IJ!FilesOf
        <4>3. [request[c] EXCEPT !.at = "found", !.content = x, !.files = {f}] = Q({f}, request[c].does)
          BY <1>0 DEF IJ!Requests
        <4> QED BY <4>1, <4>2, <4>3
      <3>2. CASE IJ!FailedBefore(request[c].job, x) = {}
        BY <1>2, <3>2 DEF IJ!FindContent
      <3> QED BY ZenonT(60), <3>1, <3>2
    <2>2. Q(fs, does) \in IJ!Requests /\ Q(fs, does).at = "found"
      BY <1>0 DEF IJ!Requests
    <2>3. UNCHANGED <<job, file, row, imported>>
      BY <1>2 DEF IJ!FindContent
    <2> HIDE DEF Q
    <2> QED BY SMTT(30), <1>0, <2>1, <2>2, <2>3, ImportGoesOn
  <1>3. CASE IJ!FlushDuplicate(c)
    <2> DEFINE Q(s) == [request[c] EXCEPT !.at = "flushed", !.next = s]
    <2>1. PICK s \in IJ!JobStatuses : IJ!Sends(c, Q(s))
      BY <1>3, SummaryIsStatus DEF IJ!FlushDuplicate
    <2>2. UNCHANGED <<job, file, row, imported>> /\ request[c].does = "duplicate"
      BY <1>3 DEF IJ!FlushDuplicate
    <2>3. Q(s) \in IJ!Requests /\ Q(s).does = "duplicate"
      BY <1>0, <2>2 DEF IJ!Requests
    <2> HIDE DEF Q
    <2> QED BY <1>0, <2>1, <2>2, <2>3, ImportGoesOn
  <1>4. CASE IJ!CommitDuplicate(c)
    <2> DEFINE q == request[c]
               w == [q EXCEPT !.at = "upload", !.does = "upload", !.seen = q.next]
    <2>1. IJ!Sends(c, w) /\ UNCHANGED <<row, imported>>
          /\ job' = [job EXCEPT ![q.job] = IJ!Merged(@, q.seen, q.next)]
      BY <1>4 DEF IJ!CommitDuplicate
    <2>2. PICK f \in Files : file' = [file EXCEPT ![f] = [job |-> q.job, content |-> q.content, status |-> "DUPLICATE",
                                                          row |-> IJ!None]]
      BY <1>4 DEF IJ!CommitDuplicate
    <2>3. w \in IJ!Requests /\ w.at = "upload" /\ q.job \in Jobs /\ q.content \in Contents /\ q.next \in IJ!JobStatuses
      BY <1>0 DEF IJ!Requests
    <2>4. job' \in [Jobs -> IJ!JobStatuses]
      BY <1>0, <2>1, <2>3 DEF IJ!Merged
    <2>5. file' \in [Files -> FilesAre]
      BY <1>0, <2>2, <2>3 DEF FilesAre, IJ!FileStatuses
    <2> HIDE DEF w
    <2> QED BY <1>0, <2>1, <2>3, <2>4, <2>5, ImportGoesOn
  <1>5. CASE IJ!Leave(c)
    BY <1>0, <1>5, NoRequestIsRequest, ImportGoesOn DEF IJ!Leave
  <1> QED BY <1>1, <1>2, <1>3, <1>4, <1>5

\* A file that is parsed gets its rows.
LEMMA ImportParses ==
  ASSUME IJ!ImportAssumption, ImportInv, NEW c \in Clients, NEW outcome, IJ!ParseFile(c, outcome)
  PROVE  ImportInv'
  <1> DEFINE q == request[c]
             w == [q EXCEPT !.at = "upload", !.files = {}, !.seen = IJ!StatusOf(file', q.job)]
  <1>0. /\ job \in [Jobs -> IJ!JobStatuses] /\ file \in [Files -> FilesAre] /\ row \in [Files -> Rows]
        /\ imported \in [Contents -> Nat] /\ q \in IJ!Requests /\ q.job \in Jobs /\ q.content \in Contents
    BY ImportTypes DEF ImportInv, IJ!Requests
  <1>1. IJ!StatusOf(file', q.job) \in IJ!JobStatuses
    BY SummaryIsStatus DEF IJ!StatusOf
  <1>2. /\ IJ!Sends(c, w) /\ UNCHANGED imported /\ job' = [job EXCEPT ![q.job] = IJ!StatusOf(file', q.job)]
    BY DEF IJ!ParseFile
  <1>3. w \in IJ!Requests /\ w.at = "upload" /\ job' \in [Jobs -> IJ!JobStatuses]
    BY <1>0, <1>1, <1>2 DEF IJ!Requests
  <1>4. PICK f \in Files :
          \/ /\ file' = [file EXCEPT ![f] = [job |-> q.job, content |-> q.content, status |-> "FAILED", row |-> @.row]]
             /\ UNCHANGED row
          \/ \E r \in Files :
              /\ IJ!FreshRow(r)
              /\ row' = [row EXCEPT ![r] = [valid |-> outcome = "VALID", disposition |-> "PENDING", versions |-> 0]]
              /\ file' = [file EXCEPT ![f] =
                    [job |-> q.job, content |-> q.content, row |-> r,
                     status |-> IF outcome = "VALID" THEN "PARSED" ELSE "REVIEW_REQUIRED"]]
    BY DEF IJ!ParseFile
  <1> HIDE DEF w
  <1>5. CASE /\ file' = [file EXCEPT ![f] = [job |-> q.job, content |-> q.content, status |-> "FAILED", row |-> @.row]]
             /\ UNCHANGED row
    <2>1. file' \in [Files -> FilesAre]
      BY <1>0, <1>5 DEF FilesAre, IJ!FileStatuses
    <2> QED BY <1>0, <1>2, <1>3, <1>5, <2>1, ImportGoesOn
  <1>6. ASSUME NEW r \in Files, IJ!FreshRow(r),
               row' = [row EXCEPT ![r] = [valid |-> outcome = "VALID", disposition |-> "PENDING", versions |-> 0]],
               file' = [file EXCEPT ![f] =
                    [job |-> q.job, content |-> q.content, row |-> r,
                     status |-> IF outcome = "VALID" THEN "PARSED" ELSE "REVIEW_REQUIRED"]]
        PROVE  ImportInv'
    <2>1. file' \in [Files -> FilesAre]
      BY <1>0, <1>6 DEF FilesAre, IJ!FileStatuses
    <2>2. row[r].disposition = "none" /\ row[r].versions = 0
      BY <1>6 DEF IJ!FreshRow, IJ!Fresh, ImportInv, IJ!AcceptedOnce
    <2>3. [valid |-> outcome = "VALID", disposition |-> "PENDING", versions |-> 0] \in Rows
      BY DEF Rows
    <2>4. row' \in [Files -> Rows]
      BY <1>0, <1>6, <2>3
    <2>5. \A s \in Files : /\ row'[s].disposition = "ACCEPTED" <=> row[s].disposition = "ACCEPTED"
                           /\ row'[s].versions = row[s].versions
      BY <1>0, <1>6, <2>2
    <2> QED BY <1>0, <1>2, <1>3, <2>1, <2>4, <2>5, ImportGoesOn
  <1> QED BY <1>4, <1>5, <1>6

\* Rows that are corrected, accepted or discarded.
LEMMA ImportReviews ==
  ASSUME IJ!ImportAssumption, ImportInv, NEW c \in Clients,
         \/ \E f \in Files, what \in {"resolve", "discard"} : IJ!ReadRow(c, f, what)
         \/ \E j \in Jobs : IJ!ReadConfirm(c, j)
         \/ IJ!FlushRow(c) \/ IJ!CommitRow(c)
  PROVE  ImportInv'
  <1> DEFINE q == request[c]
  <1>0. /\ job \in [Jobs -> IJ!JobStatuses] /\ file \in [Files -> FilesAre] /\ row \in [Files -> Rows]
        /\ imported \in [Contents -> Nat] /\ q \in IJ!Requests
    BY SMTT(30), ImportTypes DEF ImportInv
  <1>1. ASSUME NEW f \in Files, NEW what \in {"resolve", "discard"}, IJ!ReadRow(c, f, what) PROVE ImportInv'
    <2> DEFINE w == [IJ!NoRequest EXCEPT !.at = "read", !.does = what, !.job = file[f].job, !.seen = job[file[f].job],
                        !.files = {f}, !.rows = {file[f].row}, !.seenFile = file[f].status]
    <2>1. IJ!Sends(c, w) /\ UNCHANGED <<job, file, row, imported>> /\ file[f].row # IJ!None
      BY <1>1 DEF IJ!ReadRow
    <2>2. file[f].job \in Jobs /\ job[file[f].job] \in IJ!JobStatuses /\ file[f].row \in Files /\ file[f].status \in IJ!FileStatuses
      BY <1>0, <2>1 DEF FilesAre
    <2>3. w \in IJ!Requests /\ w.at = "read"
      BY <2>2, NoRequestIsRequest DEF IJ!Requests
    <2> HIDE DEF w
    <2> QED BY SMTT(30), <1>0, <2>1, <2>3, ImportGoesOn
  <1>2. ASSUME NEW j \in Jobs, IJ!ReadConfirm(c, j) PROVE ImportInv'
    <2> DEFINE w == [IJ!NoRequest EXCEPT !.at = "read", !.does = "confirm", !.job = j, !.seen = job[j],
                        !.files = IJ!PendingFiles(j), !.rows = {file[f].row : f \in IJ!PendingFiles(j)}]
    <2>1. IJ!Sends(c, w) /\ UNCHANGED <<job, file, row, imported>>
      BY <1>2 DEF IJ!ReadConfirm
    <2>2. IJ!PendingFiles(j) \subseteq Files /\ {file[f].row : f \in IJ!PendingFiles(j)} \subseteq Files
      BY <1>0 DEF IJ!PendingFiles, IJ!FilesOf, FilesAre, IJ!None
    <2>3. w \in IJ!Requests /\ w.at = "read"
      BY <1>0, <2>2, NoRequestIsRequest DEF IJ!Requests
    <2> HIDE DEF w
    <2> QED BY SMTT(30), <1>0, <2>1, <2>3, ImportGoesOn
  <1>3. CASE IJ!FlushRow(c)
    <2> DEFINE Q(s) == [q EXCEPT !.at = "flushed", !.next = s]
    <2>1. PICK s \in IJ!JobStatuses : IJ!Sends(c, Q(s))
      BY <1>3, SummaryIsStatus DEF IJ!FlushRow
    <2>2. UNCHANGED <<job, file, row, imported>> /\ (q.does = "discard" => \A r \in q.rows : row[r].disposition # "ACCEPTED")
      BY <1>3 DEF IJ!FlushRow, IJ!LifecycleKept
    <2>3. Q(s) \in IJ!Requests /\ Q(s).does = q.does /\ Q(s).rows = q.rows
      BY <1>0 DEF IJ!Requests
    <2> HIDE DEF Q
    <2> QED BY <1>0, <2>1, <2>2, <2>3, ImportGoesOn
  <1>4. CASE IJ!CommitRow(c)
    <2>1. /\ q.at = "flushed" /\ q.does \in {"resolve", "discard"} /\ IJ!Sends(c, IJ!NoRequest) /\ UNCHANGED imported
          /\ row' = [r \in Files |->
                CASE r \in q.rows /\ q.does = "resolve" -> [row[r] EXCEPT !.valid = TRUE]
                  [] r \in q.rows /\ q.does = "discard" -> [row[r] EXCEPT !.disposition = "DISCARDED"]
                  [] r \notin q.rows -> row[r]]
          /\ file' = [f \in Files |-> IF f \in q.files THEN [file[f] EXCEPT !.status = IJ!FileAfter(q, f)] ELSE file[f]]
          /\ job' = [job EXCEPT ![q.job] = IJ!JobAfter(q)]
      BY <1>4 DEF IJ!CommitRow
    <2>2. \A f \in Files : IJ!FileAfter(q, f) \in IJ!FileStatuses
      BY <1>0 DEF IJ!FileAfter, IJ!Merged, FilesAre, IJ!FileStatuses
    <2>3. file' \in [Files -> FilesAre]
      BY <1>0, <2>1, <2>2 DEF FilesAre
    <2>4. IJ!JobAfter(q) \in IJ!JobStatuses /\ q.job \in Jobs
      BY <1>0 DEF IJ!JobAfter, IJ!Merged, IJ!Requests
    <2>5. job' \in [Jobs -> IJ!JobStatuses]
      BY <1>0, <2>1, <2>4
    <2>6. ASSUME NEW r \in Files
          PROVE  /\ row'[r] \in Rows /\ row'[r].versions = row[r].versions
                 /\ row'[r].disposition = "ACCEPTED" <=> row[r].disposition = "ACCEPTED"
      <3>1. row[r] \in Rows
        BY <1>0
      <3>2. CASE r \in q.rows /\ q.does = "resolve"
        BY <2>1, <3>1, <3>2 DEF Rows
      <3>3. CASE r \in q.rows /\ q.does = "discard"
        <4>1. row[r].disposition # "ACCEPTED"
          BY <2>1, <3>3 DEF ImportInv, DiscardHolds
        <4>2. row'[r] = [row[r] EXCEPT !.disposition = "DISCARDED"]
          BY <2>1, <3>3
        <4> QED BY <3>1, <4>1, <4>2 DEF Rows
      <3>4. CASE r \notin q.rows
        BY <2>1, <3>1, <3>4
      <3> QED BY <2>1, <3>2, <3>3, <3>4
    <2>7. row' \in [Files -> Rows]
      BY <2>1, <2>6
    <2> QED BY <1>0, <2>1, <2>3, <2>5, <2>6, <2>7, NoRequestIsRequest, ImportGoesOn
  <1> QED BY <1>1, <1>2, <1>3, <1>4

\* A confirmation accepts the rows of its batch that are neither accepted nor discarded.
LEMMA ImportConfirms ==
  ASSUME IJ!ImportAssumption, ImportInv, NEW c \in Clients, IJ!CommitConfirm(c)
  PROVE  ImportInv'
  <1> DEFINE q == request[c]
  <1>0. /\ job \in [Jobs -> IJ!JobStatuses] /\ file \in [Files -> FilesAre] /\ row \in [Files -> Rows]
        /\ imported \in [Contents -> Nat] /\ q \in IJ!Requests
        /\ q.job \in Jobs /\ q.files \subseteq Files /\ q.rows \subseteq Files
    BY ImportTypes DEF ImportInv, IJ!Requests
  <1>1. /\ ~IJ!Locked(c, q.files, q.rows) /\ IJ!NotYetObserved(q.rows) /\ IJ!Sends(c, IJ!NoRequest)
        /\ row' = [r \in Files |->
              IF r \in q.rows THEN [row[r] EXCEPT !.disposition = "ACCEPTED", !.versions = @ + 1] ELSE row[r]]
        /\ file' = [f \in Files |-> IF f \in q.files THEN [file[f] EXCEPT !.status = "COMPLETED"] ELSE file[f]]
        /\ imported' = [x \in Contents |-> imported[x] + IJ!Cardinality({f \in q.files : file[f].content = x})]
        /\ job' = [job EXCEPT ![q.job] = "COMPLETED"]
    BY DEF IJ!CommitConfirm
  <1>2. ASSUME NEW r \in Files
        PROVE  /\ row'[r] \in Rows
               /\ r \in q.rows => row'[r].disposition = "ACCEPTED" /\ row'[r].versions = 1
               /\ r \notin q.rows => row'[r] = row[r]
    <2>1. CASE r \in q.rows
      <3>1. row[r] \in Rows /\ row[r].versions = 0
        BY <1>0, <1>1, <2>1 DEF IJ!NotYetObserved
      <3>2. row'[r] = [row[r] EXCEPT !.disposition = "ACCEPTED", !.versions = row[r].versions + 1]
        BY <1>1, <2>1
      <3>3. row'[r].disposition = "ACCEPTED" /\ row'[r].versions = 1 /\ row'[r].valid = row[r].valid
        BY <3>1, <3>2 DEF Rows
      <3>4. row'[r] = [row[r] EXCEPT !.disposition = "ACCEPTED", !.versions = 1]
        BY <3>1, <3>2
      <3>5. ASSUME NEW x \in Rows PROVE [x EXCEPT !.disposition = "ACCEPTED", !.versions = 1] \in Rows
        BY DEF Rows
      <3>6. row'[r] \in Rows
        BY <3>1, <3>4, <3>5
      <3> QED BY <2>1, <3>3, <3>6
    <2>2. CASE r \notin q.rows
      BY <1>0, <1>1, <2>2
    <2> QED BY <2>1, <2>2
  <1>3. row' \in [Files -> Rows] /\ job' \in [Jobs -> IJ!JobStatuses]
    BY <1>0, <1>1, <1>2 DEF IJ!JobStatuses
  <1>4. file' \in [Files -> FilesAre]
    BY ZenonT(30), <1>0, <1>1 DEF FilesAre, IJ!FileStatuses
  <1>5. \A x \in Contents : IJ!Cardinality({f \in q.files : file[f].content = x}) \in Nat
    <2> SUFFICES ASSUME NEW x \in Contents PROVE IJ!Cardinality({f \in q.files : file[f].content = x}) \in Nat
      OBVIOUS
    <2> DEFINE S == {f \in q.files : file[f].content = x}
    <2>1. S \subseteq Files
      BY <1>0
    <2> HIDE DEF S
    <2>2. IsFiniteSet(S)
      <3>1. IsFiniteSet(Files)
        BY DEF IJ!ImportAssumption, IJ!IsFiniteSet, IsFiniteSet
      <3> QED BY <2>1, <3>1, FS_Subset
    <2>3. IJ!Cardinality(S) = Cardinality(S)
      BY DEF IJ!Cardinality, Cardinality
    <2>4. IJ!Cardinality(S) \in Nat
      BY <2>2, <2>3, FS_CardinalityType
    <2> QED BY <2>4 DEF S
  <1>6. imported' \in [Contents -> Nat]
    <2> DEFINE N(x) == IJ!Cardinality({f \in q.files : file[f].content = x})
    <2>1. imported' = [x \in Contents |-> imported[x] + N(x)] /\ \A x \in Contents : N(x) \in Nat
      BY <1>1, <1>5
    <2> HIDE DEF N
    <2> QED BY <1>0, <2>1
  <1>7. /\ request' \in [Clients -> IJ!Requests] /\ request'[c] = IJ!NoRequest
        /\ \A d \in Clients : d # c => request'[d] = request[d]
    BY <1>1, ImportSends, NoRequestIsRequest
  <1>8. ASSUME NEW d \in Clients, request'[d].at = "flushed", request'[d].does = "discard", NEW r \in request'[d].rows
        PROVE  row'[r].disposition # "ACCEPTED"
    <2>1. d # c /\ request'[d] = request[d]
      BY <1>7, <1>8, NoRequestIsRequest
    <2>2. r \in Files /\ row[r].disposition # "ACCEPTED"
      BY <1>8, <2>1, ImportTypes DEF ImportInv, DiscardHolds, IJ!Requests
    <2>3. r \notin q.rows
      BY <1>1, <1>8, <2>1 DEF IJ!Locked
    <2> QED BY <1>2, <2>2, <2>3
  <1>9. DiscardHolds'
    BY <1>8 DEF DiscardHolds
  <1>10. IJ!AcceptedOnce'
    BY <1>2 DEF ImportInv, IJ!AcceptedOnce
  <1>11. IJ!TypeOK'
    BY <1>3, <1>4, <1>6, <1>7 DEF IJ!TypeOK, Rows, FilesAre
  <1> QED BY <1>9, <1>10, <1>11 DEF ImportInv

\* Every step is of one of the groups above.
LEMMA ImportNext == ASSUME IJ!ImportAssumption, ImportInv, [IJ!Next]_(IJ!importVars) PROVE ImportInv'
  <1>1. CASE UNCHANGED IJ!importVars
    BY <1>1 DEF IJ!importVars, ImportInv, IJ!TypeOK, DiscardHolds, IJ!AcceptedOnce
  <1>2. ASSUME NEW c \in Clients, NEW j \in Jobs, IJ!CreateJob(c, j) \/ IJ!AddFiles(c, j) PROVE ImportInv'
    BY <1>2, ImportUploads
  <1>3. ASSUME NEW c \in Clients, NEW j \in Jobs, IJ!ReadConfirm(c, j) PROVE ImportInv'
    BY <1>3, ImportReviews
  <1>4. ASSUME NEW c \in Clients, NEW x \in Contents, IJ!FindContent(c, x) PROVE ImportInv'
    BY <1>4, ImportUploads
  <1>5. ASSUME NEW c \in Clients, IJ!FlushDuplicate(c) \/ IJ!CommitDuplicate(c) \/ IJ!Leave(c) PROVE ImportInv'
    BY <1>5, ImportUploads
  <1>6. ASSUME NEW c \in Clients, NEW f \in Files, NEW what \in {"resolve", "discard"}, IJ!ReadRow(c, f, what) PROVE ImportInv'
    BY <1>6, ImportReviews
  <1>7. ASSUME NEW c \in Clients, IJ!FlushRow(c) \/ IJ!CommitRow(c) PROVE ImportInv'
    BY <1>7, ImportReviews
  <1> QED BY <1>1, <1>2, <1>3, <1>4, <1>5, <1>6, <1>7, ImportParses, ImportConfirms DEF IJ!Next

\* The invariant implies what is promised.
LEMMA ImportInvSuffices == ImportInv => IJ!TypeOK /\ IJ!AcceptedOnce
  BY DEF ImportInv

\* A row is accepted at most once and never after it was discarded, whatever requests
\* review and confirm it at the same time.
THEOREM ImportAcceptsOnce == ASSUME IJ!ImportAssumption PROVE IJ!Spec => [](IJ!TypeOK /\ IJ!AcceptedOnce)
  BY ImportInit, ImportNext, ImportInvSuffices, PTL DEF IJ!Spec

(* One request at a time. *)

\* A file has a row as soon as it is parsed, and waits as long as its row does.
Waits == {"PARSED", "REVIEW_REQUIRED"}
FilesFit == \A f \in Files :
    /\ file[f].row = IJ!None <=> file[f].status \in {"none", "FAILED", "DUPLICATE"}
    /\ file[f].status \in Waits => row[file[f].row].disposition = "PENDING"
    /\ file[f].status = "COMPLETED" => row[file[f].row].disposition \in {"ACCEPTED", "DISCARDED"}
RowsOwned ==
    /\ \A f, g \in Files : file[f].row = file[g].row /\ file[f].row # IJ!None => f = g
    /\ \A r \in Files : row[r].disposition = "PENDING" => \E f \in Files : file[f].row = r
\* What a job tells of its files, and a request of both.
JobFits(js, fs, j) ==
    /\ js[j] = "none" => IJ!FilesOf(fs, j) = {}
    /\ js[j] = "COMPLETED" => \A f \in IJ!FilesOf(fs, j) : fs[f].status \in {"DUPLICATE", "COMPLETED"}
    /\ js[j] \notin {"none", "COMPLETED"} => js[j] = IJ!StatusOf(fs, j)
Waiting(fs, j) == {f \in IJ!FilesOf(fs, j) : fs[f].status \in Waits}
Verdict(q) == IF q.does = "resolve" THEN "PARSED" ELSE "COMPLETED"
Found(q, fs) == \A f \in q.files : f \in IJ!FilesOf(fs, q.job) /\ fs[f].status = "FAILED"
Reviewed(q, fs) == \E f \in Waiting(fs, q.job) : q.files = {f} /\ q.rows = {fs[f].row} /\ q.seenFile = fs[f].status
Confirmed(q, fs) ==
    /\ q.files = Waiting(fs, q.job) /\ q.rows = {fs[f].row : f \in q.files}
    /\ \A f \in IJ!FilesOf(fs, q.job) : fs[f].status # "FAILED"
Flushed(q, fs) ==
    q.next = IF q.does = "duplicate"
             THEN IJ!Summary({fs[f].status : f \in IJ!FilesOf(fs, q.job)} \cup {"DUPLICATE"})
             ELSE IJ!Summary({IF f \in q.files THEN Verdict(q) ELSE fs[f].status : f \in IJ!FilesOf(fs, q.job)})
RequestFits(q, js, fs) ==
    /\ q.at # "idle" => q.seen = js[q.job] /\ js[q.job] # "none"
    /\ q.at \in {"found", "read", "flushed"} => js[q.job] # "COMPLETED"
    /\ q.at = "upload" => q.does = "upload"
    /\ q.at = "found" => q.does \in {"upload", "duplicate"} /\ Found(q, fs)
    /\ q.at = "read" => q.does \in {"resolve", "discard", "confirm"}
    /\ q.at = "flushed" => q.does \in {"resolve", "discard", "duplicate"} /\ Flushed(q, fs)
    /\ q.at # "idle" /\ q.does \in {"resolve", "discard"} => Reviewed(q, fs)
    /\ q.at # "idle" /\ q.does = "confirm" => Confirmed(q, fs)
JobsInv ==
    /\ FilesFit /\ RowsOwned
    /\ \A j \in Jobs : JobFits(job, file, j)
    /\ \A c \in Clients : RequestFits(request[c], job, file)

\* The files of other jobs stay, and with them what these tell.
LEMMA OtherJobsStay ==
  ASSUME ImportInv, NEW k \in Jobs, NEW s, job' = [job EXCEPT ![k] = s],
         \A f \in Files : \/ file'[f] = file[f]
                          \/ file'[f].job = k /\ (file[f].status = "none" \/ file[f].job = k),
         NEW j \in Jobs, j # k, JobFits(job, file, j)
  PROVE  JobFits(job', file', j)
  <1>1. job'[j] = job[j]
    BY ImportTypes DEF ImportInv
  <1>2. IJ!FilesOf(file', j) = IJ!FilesOf(file, j) /\ \A f \in IJ!FilesOf(file, j) : file'[f] = file[f]
    BY DEF IJ!FilesOf
  <1>3. {file'[f].status : f \in IJ!FilesOf(file', j)} = {file[f].status : f \in IJ!FilesOf(file, j)}
    BY <1>2
  <1>4. IJ!StatusOf(file', j) = IJ!StatusOf(file, j)
    BY <1>3 DEF IJ!StatusOf
  <1> QED BY <1>1, <1>2, <1>4 DEF JobFits

\* The only request goes on.
LEMMA SoloGoesOn ==
  ASSUME ImportInv, NEW c \in Clients, Clients = {c}, NEW w \in IJ!Requests, IJ!Sends(c, w),
         FilesFit', RowsOwned', \A j \in Jobs : JobFits(job', file', j), RequestFits(w, job', file')
  PROVE  JobsInv'
  <1>1. request'[c] = w
    BY ImportSends
  <1> QED BY <1>1 DEF JobsInv

LEMMA SoloReads ==
  ASSUME ImportInv, JobsInv, NEW c \in Clients, Clients = {c}, NEW w \in IJ!Requests, IJ!Sends(c, w),
         UNCHANGED <<job, file, row>>, RequestFits(w, job, file)
  PROVE  JobsInv'
  <1>1. FilesFit' /\ RowsOwned'
    BY DEF JobsInv, FilesFit, RowsOwned
  <1>2. job' = job /\ file' = file /\ \A j \in Jobs : JobFits(job, file, j)
    BY DEF JobsInv
  <1> QED BY <1>1, <1>2, SoloGoesOn

\* No job yet.
LEMMA SoloInit == ASSUME IJ!ImportAssumption PROVE IJ!Init => JobsInv
  <1> SUFFICES ASSUME IJ!Init PROVE JobsInv
    OBVIOUS
  <1>1. \A f \in Files : file[f].row = IJ!None /\ file[f].status = "none" /\ row[f].disposition = "none"
    BY DEF IJ!Init, IJ!NoFile, IJ!NoRow
  <1>2. FilesFit /\ RowsOwned
    BY <1>1 DEF FilesFit, RowsOwned, Waits
  <1>3. \A j \in Jobs : JobFits(job, file, j)
    BY <1>1 DEF JobFits, IJ!FilesOf, IJ!Init
  <1>4. \A c \in Clients : request[c].at = "idle"
    BY NoRequestIsRequest DEF IJ!Init
  <1> QED BY <1>2, <1>3, <1>4 DEF JobsInv, RequestFits

\* A job is created, or a request begins to upload more files of it.
LEMMA SoloCreates ==
  ASSUME IJ!ImportAssumption, ImportInv, JobsInv, NEW c \in Clients, Clients = {c}, NEW j \in Jobs,
         IJ!CreateJob(c, j) \/ IJ!AddFiles(c, j)
  PROVE  JobsInv'
  <1> DEFINE Q(s) == [IJ!NoRequest EXCEPT !.at = "upload", !.does = "upload", !.job = j, !.seen = s]
  <1>0. job \in [Jobs -> IJ!JobStatuses]
    BY ImportTypes DEF ImportInv
  <1>1. ASSUME NEW s \in IJ!JobStatuses PROVE Q(s) \in IJ!Requests /\ Q(s).at = "upload" /\ Q(s).does = "upload" /\ Q(s).job = j /\ Q(s).seen = s
    BY NoRequestIsRequest DEF IJ!Requests
  <1>2. CASE IJ!CreateJob(c, j)
    <2>1. /\ job[j] = "none" /\ job' = [job EXCEPT ![j] = "OPEN"] /\ IJ!Sends(c, Q("OPEN"))
          /\ file' = file /\ row' = row
      BY <1>2 DEF IJ!CreateJob
    <2>2. "OPEN" \in IJ!JobStatuses
      BY DEF IJ!JobStatuses
    <2>3. job'[j] = "OPEN"
      BY <1>0, <2>1
    <2>4. FilesFit' /\ RowsOwned'
      BY <2>1 DEF JobsInv, FilesFit, RowsOwned
    <2>5. JobFits(job', file', j)
      <3>1. IJ!FilesOf(file', j) = {}
        BY <2>1 DEF JobsInv, JobFits
      <3>2. {file'[f].status : f \in IJ!FilesOf(file', j)} = {}
        BY <3>1
      <3>3. IJ!StatusOf(file', j) = "OPEN"
        BY <3>2 DEF IJ!StatusOf, IJ!Summary
      <3> QED BY <2>3, <3>3 DEF JobFits
    <2>6. \A k \in Jobs : JobFits(job', file', k)
      BY <2>1, <2>5, OtherJobsStay DEF JobsInv
    <2>7. RequestFits(Q("OPEN"), job', file')
      BY <1>1, <2>2, <2>3 DEF RequestFits
    <2> HIDE DEF Q
    <2> QED BY <1>1, <2>1, <2>2, <2>4, <2>6, <2>7, SoloGoesOn
  <1>3. CASE IJ!AddFiles(c, j)
    <2>1. job[j] \notin {"none", "COMPLETED"} /\ UNCHANGED <<job, file, row>> /\ IJ!Sends(c, Q(job[j])) /\ job[j] \in IJ!JobStatuses
      BY <1>0, <1>3 DEF IJ!AddFiles
    <2>2. RequestFits(Q(job[j]), job, file)
      BY ZenonT(60), <1>1, <2>1 DEF RequestFits
    <2> HIDE DEF Q
    <2> QED BY <1>1, <2>1, <2>2, SoloReads
  <1> QED BY <1>2, <1>3

\* The next file is looked for.
LEMMA SoloFinds ==
  ASSUME IJ!ImportAssumption, ImportInv, JobsInv, NEW c \in Clients, Clients = {c}, NEW x \in Contents, IJ!FindContent(c, x)
  PROVE  JobsInv'
  <1> DEFINE q == request[c]
             Q(fs, does) == [q EXCEPT !.at = "found", !.content = x, !.files = fs, !.does = does]
  <1>0. q \in IJ!Requests /\ RequestFits(q, job, file) /\ q.at = "upload" /\ q.seen # "COMPLETED" /\ UNCHANGED <<job, file, row>>
    BY ZenonT(60), ImportTypes DEF ImportInv, JobsInv, IJ!FindContent
  <1>1. PICK fs \in SUBSET IJ!FailedBefore(q.job, x), does \in {"upload", "duplicate"} : IJ!Sends(c, Q(fs, does))
    <2>1. CASE IJ!FailedBefore(q.job, x) # {}
      <3>1. PICK f \in IJ!FailedBefore(q.job, x) :
              IJ!Sends(c, [q EXCEPT !.at = "found", !.content = x, !.files = {f}])
        BY <2>1 DEF IJ!FindContent
      <3>2. q.does = "upload"
        BY SMTT(30), <1>0 DEF RequestFits
      <3>3. [q EXCEPT !.at = "found", !.content = x, !.files = {f}] = Q({f}, "upload")
        BY <1>0, <3>2 DEF IJ!Requests
      <3> QED BY <3>1, <3>3
    <2>2. CASE IJ!FailedBefore(q.job, x) = {}
      BY <2>2 DEF IJ!FindContent
    <2> QED BY <2>1, <2>2
  <1> DEFINE w == Q(fs, does)
  <1>2. /\ w \in IJ!Requests /\ w.at = "found" /\ w.does \in {"upload", "duplicate"} /\ w.job = q.job /\ w.seen = q.seen
        /\ w.files = fs
    <2>1. fs \in SUBSET Files
      BY DEF IJ!FailedBefore, IJ!FilesOf
    <2> QED BY <1>0, <2>1 DEF IJ!Requests
  <1> HIDE DEF w
  <1>3. Found(w, file)
    BY <1>2 DEF Found, IJ!FailedBefore
  <1>4. RequestFits(w, job, file)
    BY <1>0, <1>2, <1>3 DEF RequestFits
  <1>5. IJ!Sends(c, w)
    BY <1>1 DEF w
  <1> QED BY SMTT(30), <1>0, <1>2, <1>4, <1>5, SoloReads

\* A file that is parsed.
LEMMA SoloParses ==
  ASSUME IJ!ImportAssumption, ImportInv, JobsInv, NEW c \in Clients, Clients = {c}, NEW outcome, IJ!ParseFile(c, outcome)
  PROVE  JobsInv'
  <1> DEFINE q == request[c]
             s == IJ!StatusOf(file', q.job)
             w == [q EXCEPT !.at = "upload", !.files = {}, !.seen = s]
  <1>0. /\ job \in [Jobs -> IJ!JobStatuses] /\ file \in [Files -> FilesAre] /\ row \in [Files -> Rows]
        /\ q \in IJ!Requests /\ q.job \in Jobs /\ q.content \in Contents
    BY ImportTypes DEF ImportInv, IJ!Requests
  <1>1. /\ RequestFits(q, job, file) /\ q.at = "found" /\ q.does = "upload" /\ IJ!Sends(c, w)
        /\ job' = [job EXCEPT ![q.job] = s]
    BY DEF JobsInv, IJ!ParseFile
  <1>2. PICK f \in Files :
          /\ IF q.files = {} THEN IJ!FreshFile(f) ELSE f \in q.files
          /\ \/ /\ file' = [file EXCEPT ![f] = [job |-> q.job, content |-> q.content, status |-> "FAILED", row |-> @.row]]
                /\ UNCHANGED row
             \/ \E r \in Files :
                 /\ IJ!FreshRow(r)
                 /\ row' = [row EXCEPT ![r] = [valid |-> outcome = "VALID", disposition |-> "PENDING", versions |-> 0]]
                 /\ file' = [file EXCEPT ![f] =
                       [job |-> q.job, content |-> q.content, row |-> r,
                        status |-> IF outcome = "VALID" THEN "PARSED" ELSE "REVIEW_REQUIRED"]]
    BY DEF IJ!ParseFile
  <1>3. file[f].status \in {"none", "FAILED"} /\ (file[f].status = "FAILED" => file[f].job = q.job) /\ file[f].row = IJ!None
    <2>1. CASE q.files = {}
      BY <1>2, <2>1 DEF IJ!FreshFile, IJ!Fresh, JobsInv, FilesFit
    <2>2. CASE q.files # {}
      BY <1>1, <1>2, <2>2 DEF RequestFits, Found, IJ!FilesOf, JobsInv, FilesFit
    <2> QED BY <2>1, <2>2
  <1>4. /\ FilesFit' /\ RowsOwned' /\ file'[f].job = q.job /\ file'[f].status \in {"FAILED", "PARSED", "REVIEW_REQUIRED"}
        /\ \A g \in Files : g # f => file'[g] = file[g]
    <2>1. CASE /\ file' = [file EXCEPT ![f] = [job |-> q.job, content |-> q.content, status |-> "FAILED", row |-> @.row]]
               /\ UNCHANGED row
      <3>1. file'[f].row = IJ!None /\ file'[f].status = "FAILED" /\ file'[f].job = q.job /\ \A g \in Files : g # f => file'[g] = file[g]
        BY <1>0, <1>3, <2>1
      <3>2. FilesFit'
        BY <2>1, <3>1 DEF JobsInv, FilesFit, Waits
      <3>3. \A g \in Files : file'[g].row = file[g].row
        BY <1>3, <3>1
      <3>4. RowsOwned'
        BY <2>1, <3>3 DEF JobsInv, RowsOwned
      <3> QED BY <3>1, <3>2, <3>4
    <2>2. ASSUME NEW r \in Files, IJ!FreshRow(r),
                 row' = [row EXCEPT ![r] = [valid |-> outcome = "VALID", disposition |-> "PENDING", versions |-> 0]],
                 file' = [file EXCEPT ![f] =
                       [job |-> q.job, content |-> q.content, row |-> r,
                        status |-> IF outcome = "VALID" THEN "PARSED" ELSE "REVIEW_REQUIRED"]]
          PROVE  /\ FilesFit' /\ RowsOwned' /\ file'[f].job = q.job /\ file'[f].status \in {"PARSED", "REVIEW_REQUIRED"}
                 /\ \A g \in Files : g # f => file'[g] = file[g]
      <3>1. /\ file'[f].row = r /\ file'[f].status \in Waits /\ file'[f].job = q.job
            /\ \A g \in Files : g # f => file'[g] = file[g]
        BY <1>0, <2>2 DEF Waits
      <3>2. row[r].disposition = "none" /\ row'[r].disposition = "PENDING" /\ \A k \in Files : k # r => row'[k] = row[k]
        BY <1>0, <2>2 DEF IJ!FreshRow, IJ!Fresh
      <3>3. \A g \in Files : file[g] \in FilesAre
        BY <1>0
      <3>4. \A g \in Files : file[g].row # r
        <4>1. \A g \in Files : file[g].status \in IJ!FileStatuses
          BY <3>3 DEF FilesAre
        <4>2. r # IJ!None
          BY DEF IJ!ImportAssumption, IJ!None
        <4> QED BY <3>2, <4>1, <4>2 DEF JobsInv, FilesFit, Waits, IJ!FileStatuses
      <3>5. FilesFit'
        <4>1. \A g \in Files : g # f => row'[file[g].row] = row[file[g].row] \/ file[g].row \notin Files
          BY <3>2, <3>4
        <4>2. \A g \in Files : file[g].row \in Files \cup {IJ!None}
          BY <3>3 DEF FilesAre
        <4>3. r # IJ!None
          BY DEF IJ!ImportAssumption, IJ!None
        <4> QED BY <3>1, <3>2, <4>1, <4>2, <4>3 DEF JobsInv, FilesFit, Waits
      <3>6. RowsOwned'
        <4>1. \A k \in Files : k # IJ!None
          BY DEF IJ!ImportAssumption, IJ!None
        <4> QED BY <1>3, <3>1, <3>2, <3>4, <4>1 DEF JobsInv, RowsOwned
      <3> QED BY <3>1, <3>5, <3>6 DEF Waits
    <2> QED BY <1>2, <2>1, <2>2
  <1>5. s \in IJ!JobStatuses /\ s \notin {"none", "COMPLETED"}
    BY SummaryIsStatus DEF IJ!StatusOf, IJ!Summary
  <1>6. job'[q.job] = s
    BY <1>0, <1>1
  <1>7. \A j \in Jobs : JobFits(job', file', j)
    <2>1. JobFits(job', file', q.job)
      BY <1>5, <1>6 DEF JobFits
    <2>2. \A g \in Files : \/ file'[g] = file[g]
                           \/ file'[g].job = q.job /\ (file[g].status = "none" \/ file[g].job = q.job)
      BY <1>3, <1>4
    <2> HIDE DEF s, q
    <2>3. ASSUME NEW j \in Jobs, j # q.job PROVE JobFits(job', file', j)
      <3>1. JobFits(job, file, j)
        BY DEF JobsInv
      <3> QED BY <1>0, <1>1, <2>2, <2>3, <3>1, OtherJobsStay
    <2> QED BY <2>1, <2>3
  <1>8. w \in IJ!Requests /\ w.at = "upload" /\ w.does = "upload" /\ w.job = q.job /\ w.seen = s
    BY <1>0, <1>1, <1>5 DEF IJ!Requests
  <1>9. RequestFits(w, job', file')
    <2> HIDE DEF w, s
    <2> QED BY <1>5, <1>6, <1>8 DEF RequestFits
  <1> HIDE DEF w
  <1> QED BY <1>1, <1>4, <1>7, <1>8, <1>9, SoloGoesOn

\* A duplicate is told, and its statuses are read before it is written.
LEMMA SoloDuplicates ==
  ASSUME IJ!ImportAssumption, ImportInv, JobsInv, NEW c \in Clients, Clients = {c}, IJ!FlushDuplicate(c) \/ IJ!CommitDuplicate(c)
  PROVE  JobsInv'
  <1> DEFINE q == request[c]
  <1>0. /\ job \in [Jobs -> IJ!JobStatuses] /\ file \in [Files -> FilesAre] /\ row \in [Files -> Rows]
        /\ q \in IJ!Requests /\ q.job \in Jobs /\ q.content \in Contents /\ q.next \in IJ!JobStatuses /\ RequestFits(q, job, file)
    BY ImportTypes DEF ImportInv, IJ!Requests, JobsInv
  <1>1. CASE IJ!FlushDuplicate(c)
    <2> DEFINE s == IJ!Summary({file[f].status : f \in IJ!FilesOf(file, q.job)} \cup {"DUPLICATE"})
               w == [q EXCEPT !.at = "flushed", !.next = s]
    <2>1. q.at = "found" /\ q.does = "duplicate" /\ IJ!Sends(c, w) /\ UNCHANGED <<job, file, row>>
      BY <1>1 DEF IJ!FlushDuplicate
    <2>2. /\ w \in IJ!Requests /\ w.at = "flushed" /\ w.does = "duplicate" /\ w.job = q.job /\ w.seen = q.seen
          /\ w.next = s
      BY <1>0, <2>1, SummaryIsStatus DEF IJ!Requests
    <2>3. Flushed(w, file)
      <3> HIDE DEF w
      <3> QED BY <2>2 DEF Flushed
    <2> HIDE DEF w, s
    <2>4. RequestFits(w, job, file)
      BY <1>0, <2>1, <2>2, <2>3 DEF RequestFits
    <2> QED BY <2>1, <2>2, <2>4, SoloReads
  <1>2. CASE IJ!CommitDuplicate(c)
    <2> DEFINE w == [q EXCEPT !.at = "upload", !.does = "upload", !.seen = q.next]
    <2>1. /\ q.at = "flushed" /\ q.does = "duplicate" /\ IJ!Sends(c, w) /\ row' = row
          /\ job' = [job EXCEPT ![q.job] = IJ!Merged(@, q.seen, q.next)]
      BY <1>2 DEF IJ!CommitDuplicate
    <2>2. PICK f \in Files :
            /\ file' = [file EXCEPT ![f] = [job |-> q.job, content |-> q.content, status |-> "DUPLICATE", row |-> IJ!None]]
            /\ IJ!FreshFile(f)
      BY <1>2 DEF IJ!CommitDuplicate
    <2>3. /\ file[f].status = "none" /\ file[f].row = IJ!None
          /\ file'[f].job = q.job /\ file'[f].status = "DUPLICATE" /\ file'[f].row = IJ!None
          /\ \A g \in Files : g # f => file'[g] = file[g]
      BY <1>0, <2>2 DEF IJ!FreshFile, IJ!Fresh, JobsInv, FilesFit
    <2>4. FilesFit'
      BY <2>1, <2>3 DEF JobsInv, FilesFit, Waits
    <2>5. RowsOwned'
      <3>1. \A g \in Files : file'[g].row = file[g].row
        BY <2>3
      <3> QED BY <2>1, <3>1 DEF JobsInv, RowsOwned
    <2>6. job'[q.job] = q.next /\ job' = [job EXCEPT ![q.job] = q.next]
      BY <1>0, <2>1 DEF RequestFits, IJ!Merged
    <2>7. q.next = IJ!StatusOf(file', q.job) /\ q.next \notin {"none", "COMPLETED"}
      <3>1. q.next = IJ!Summary({file[g].status : g \in IJ!FilesOf(file, q.job)} \cup {"DUPLICATE"})
        BY <1>0, <2>1 DEF RequestFits, Flushed
      <3>2. IJ!FilesOf(file', q.job) = IJ!FilesOf(file, q.job) \cup {f} /\ f \notin IJ!FilesOf(file, q.job)
        BY <2>3 DEF IJ!FilesOf
      <3>3. \A g \in IJ!FilesOf(file, q.job) : file'[g].status = file[g].status
        BY <2>3, <3>2 DEF IJ!FilesOf
      <3>4. {file'[g].status : g \in IJ!FilesOf(file', q.job)} = {file[g].status : g \in IJ!FilesOf(file, q.job)} \cup {"DUPLICATE"}
        BY <2>3, <3>2, <3>3
      <3> QED BY <3>1, <3>4 DEF IJ!StatusOf, IJ!Summary
    <2>8. \A j \in Jobs : JobFits(job', file', j)
      <3>1. JobFits(job', file', q.job)
        BY <2>6, <2>7 DEF JobFits
      <3>2. \A g \in Files : \/ file'[g] = file[g]
                             \/ file'[g].job = q.job /\ (file[g].status = "none" \/ file[g].job = q.job)
        BY <2>3
      <3> HIDE DEF q
      <3>3. ASSUME NEW j \in Jobs, j # q.job PROVE JobFits(job', file', j)
        <4>1. JobFits(job, file, j)
          BY DEF JobsInv
        <4> QED BY <1>0, <2>6, <3>2, <3>3, <4>1, OtherJobsStay
      <3> QED BY <3>1, <3>3
    <2>9. w \in IJ!Requests /\ w.at = "upload" /\ w.does = "upload" /\ w.job = q.job /\ w.seen = q.next
      BY <1>0 DEF IJ!Requests
    <2> HIDE DEF w
    <2>10. RequestFits(w, job', file')
      BY <2>6, <2>7, <2>9 DEF RequestFits
    <2> QED BY <2>1, <2>4, <2>5, <2>8, <2>9, <2>10, SoloGoesOn
  <1> QED BY <1>1, <1>2

\* What waits has a row that is pending, and no other file has.
LEMMA WaitingIsPending ==
  ASSUME IJ!ImportAssumption, ImportInv, JobsInv
  PROVE  \A j : IJ!PendingFiles(j) = Waiting(file, j)
  <1>1. \A f \in Files : file[f].status \in IJ!FileStatuses
    BY ImportTypes DEF ImportInv, FilesAre
  <1>2. \A f \in Files : (file[f].row # IJ!None /\ row[file[f].row].disposition = "PENDING") <=> file[f].status \in Waits
    BY <1>1 DEF JobsInv, FilesFit, Waits, IJ!FileStatuses
  <1> QED BY <1>2 DEF IJ!PendingFiles, Waiting, IJ!FilesOf

\* A row is read, or the rows of a job.
LEMMA SoloReviews ==
  ASSUME IJ!ImportAssumption, ImportInv, JobsInv, NEW c \in Clients, Clients = {c},
         \/ \E f \in Files, what \in {"resolve", "discard"} : IJ!ReadRow(c, f, what)
         \/ \E j \in Jobs : IJ!ReadConfirm(c, j)
         \/ IJ!FlushRow(c) \/ IJ!Leave(c)
  PROVE  JobsInv'
  <1> DEFINE q == request[c]
  <1>0. /\ job \in [Jobs -> IJ!JobStatuses] /\ file \in [Files -> FilesAre] /\ row \in [Files -> Rows]
        /\ q \in IJ!Requests /\ RequestFits(q, job, file)
    BY SMTT(30), ImportTypes DEF ImportInv, JobsInv
  <1>1. ASSUME NEW f \in Files, NEW what \in {"resolve", "discard"}, IJ!ReadRow(c, f, what) PROVE JobsInv'
    <2> DEFINE j == file[f].job
               w == [IJ!NoRequest EXCEPT !.at = "read", !.does = what, !.job = j, !.seen = job[j],
                        !.files = {f}, !.rows = {file[f].row}, !.seenFile = file[f].status]
    <2>1. /\ IJ!Sends(c, w) /\ UNCHANGED <<job, file, row>> /\ file[f].row # IJ!None /\ job[j] # "COMPLETED"
          /\ row[file[f].row].disposition = "PENDING"
      BY <1>1 DEF IJ!ReadRow
    <2>2. j \in Jobs /\ job[j] \in IJ!JobStatuses /\ file[f].row \in Files /\ file[f].status \in IJ!FileStatuses
      BY <1>0, <2>1 DEF FilesAre
    <2>3. /\ w \in IJ!Requests /\ w.at = "read" /\ w.does = what /\ w.job = j /\ w.seen = job[j]
          /\ w.files = {f} /\ w.rows = {file[f].row} /\ w.seenFile = file[f].status
      BY <2>2, NoRequestIsRequest DEF IJ!Requests
    <2> HIDE DEF w
    <2>4. f \in Waiting(file, j)
      <3>1. file[f].status \in Waits
        BY <2>1, <2>2 DEF JobsInv, FilesFit, Waits, IJ!FileStatuses
      <3> QED BY <3>1 DEF Waiting, IJ!FilesOf, Waits
    <2>5. job[j] # "none"
      BY <2>2, <2>4 DEF JobsInv, JobFits, Waiting
    <2>6. Reviewed(w, file)
      BY <2>3, <2>4 DEF Reviewed
    <2>7. RequestFits(w, job, file)
      <3> HIDE DEF j
      <3> QED BY SMTT(30), <2>1, <2>3, <2>5, <2>6 DEF RequestFits
    <2> QED BY SMTT(30), <2>1, <2>3, <2>7, SoloReads
  <1>2. ASSUME NEW j \in Jobs, IJ!ReadConfirm(c, j) PROVE JobsInv'
    <2> DEFINE w == [IJ!NoRequest EXCEPT !.at = "read", !.does = "confirm", !.job = j, !.seen = job[j],
                        !.files = IJ!PendingFiles(j), !.rows = {file[f].row : f \in IJ!PendingFiles(j)}]
    <2>1. /\ IJ!Sends(c, w) /\ UNCHANGED <<job, file, row>> /\ job[j] \notin {"none", "COMPLETED"}
          /\ \A f \in IJ!FilesOf(file, j) : file[f].status # "FAILED"
      BY <1>2 DEF IJ!ReadConfirm
    <2>2. /\ IJ!PendingFiles(j) \subseteq Files /\ {file[f].row : f \in IJ!PendingFiles(j)} \subseteq Files
          /\ job[j] \in IJ!JobStatuses
      BY <1>0 DEF IJ!PendingFiles, IJ!FilesOf, FilesAre, IJ!None
    <2>3. /\ w \in IJ!Requests /\ w.at = "read" /\ w.does = "confirm" /\ w.job = j /\ w.seen = job[j]
          /\ w.files = IJ!PendingFiles(j) /\ w.rows = {file[f].row : f \in IJ!PendingFiles(j)}
      BY <1>0, <2>2, NoRequestIsRequest DEF IJ!Requests
    <2> HIDE DEF w
    <2>4. Confirmed(w, file)
      BY <2>1, <2>3, WaitingIsPending DEF Confirmed
    <2>5. RequestFits(w, job, file)
      BY <2>1, <2>3, <2>4 DEF RequestFits
    <2> QED BY SMTT(30), <2>1, <2>3, <2>5, SoloReads
  <1>3. CASE IJ!FlushRow(c)
    <2> DEFINE s == IJ!Summary({IF f \in q.files THEN IJ!FileAfter(q, f) ELSE file[f].status : f \in IJ!FilesOf(file, q.job)})
               w == [q EXCEPT !.at = "flushed", !.next = s]
    <2>1. q.at = "read" /\ q.does \in {"resolve", "discard"} /\ IJ!Sends(c, w) /\ UNCHANGED <<job, file, row>>
      BY <1>3 DEF IJ!FlushRow
    <2>2. /\ w \in IJ!Requests /\ w.at = "flushed" /\ w.does = q.does /\ w.job = q.job /\ w.seen = q.seen
          /\ w.files = q.files /\ w.rows = q.rows /\ w.seenFile = q.seenFile /\ w.next = s
      BY <1>0, SummaryIsStatus DEF IJ!Requests
    <2>3. Reviewed(q, file)
      BY <1>0, <2>1 DEF RequestFits
    <2>4. \A f \in q.files : IJ!FileAfter(q, f) = Verdict(q)
      BY <2>3 DEF Reviewed, IJ!FileAfter, IJ!Merged, Verdict
    <2>5. s = IJ!Summary({IF f \in q.files THEN Verdict(q) ELSE file[f].status : f \in IJ!FilesOf(file, q.job)})
      <3>1. {IF f \in q.files THEN IJ!FileAfter(q, f) ELSE file[f].status : f \in IJ!FilesOf(file, q.job)}
            = {IF f \in q.files THEN Verdict(q) ELSE file[f].status : f \in IJ!FilesOf(file, q.job)}
        BY <2>4
      <3> QED BY <3>1
    <2> HIDE DEF w
    <2>6. Reviewed(w, file)
      BY <2>2, <2>3 DEF Reviewed
    <2>7. Verdict(w) = Verdict(q)
      BY <2>2 DEF Verdict
    <2>8. Flushed(w, file)
      <3> HIDE DEF s
      <3> QED BY <2>1, <2>2, <2>5, <2>7 DEF Flushed
    <2>9. RequestFits(w, job, file)
      <3> HIDE DEF s
      <3> QED BY <1>0, <2>1, <2>2, <2>6, <2>8 DEF RequestFits
    <2> QED BY <2>1, <2>2, <2>9, SoloReads
  <1>4. CASE IJ!Leave(c)
    <2>1. RequestFits(IJ!NoRequest, job, file)
      BY NoRequestIsRequest DEF RequestFits
    <2> QED BY <1>4, <2>1, NoRequestIsRequest, SoloReads DEF IJ!Leave
  <1> QED BY <1>1, <1>2, <1>3, <1>4

\* The files of a job are written, and it is told.
LEMMA SoloWrites ==
  ASSUME IJ!ImportAssumption, ImportInv, JobsInv, NEW c \in Clients, Clients = {c}, IJ!Sends(c, IJ!NoRequest),
         NEW fs \in SUBSET Files, NEW k \in Jobs, \A f \in fs : f \in Waiting(file, k),
         NEW settled \in {"PARSED", "COMPLETED"}, NEW s, job' = [job EXCEPT ![k] = s],
         file' \in [Files -> FilesAre],
         \A f \in Files : f \notin fs => file'[f] = file[f],
         \A f \in fs : file'[f].status = settled /\ file'[f].row = file[f].row /\ file'[f].job = file[f].job,
         \A r \in Files : (\A f \in fs : file[f].row # r) => row'[r].disposition = row[r].disposition,
         \A f \in fs : IF settled = "PARSED" THEN row'[file[f].row].disposition = "PENDING"
                       ELSE row'[file[f].row].disposition \in {"ACCEPTED", "DISCARDED"},
         s = IJ!StatusOf(file', k) \/ (s = "COMPLETED" /\ \A f \in IJ!FilesOf(file', k) : file'[f].status \in {"DUPLICATE", "COMPLETED"})
  PROVE  JobsInv'
  <1>0. /\ job \in [Jobs -> IJ!JobStatuses] /\ file \in [Files -> FilesAre] /\ \A f \in Files : f # IJ!None
    BY ImportTypes DEF ImportInv, IJ!ImportAssumption, IJ!None
  <1>1. \A f \in Files : file'[f].row = file[f].row /\ file[f].row \in Files \cup {IJ!None}
    BY <1>0 DEF FilesAre
  <1>2. \A f \in fs : file[f].status \in Waits /\ file[f].row # IJ!None /\ file[f].job = k
    BY DEF Waiting, IJ!FilesOf, JobsInv, FilesFit, Waits
  <1>3. \A f \in Files : f \notin fs => \A g \in fs : file[g].row # file[f].row
    BY <1>2 DEF JobsInv, RowsOwned
  <1>4. FilesFit'
    <2> SUFFICES ASSUME NEW f \in Files
                 PROVE  /\ file'[f].row = IJ!None <=> file'[f].status \in {"none", "FAILED", "DUPLICATE"}
                        /\ file'[f].status \in Waits => row'[file'[f].row].disposition = "PENDING"
                        /\ file'[f].status = "COMPLETED" => row'[file'[f].row].disposition \in {"ACCEPTED", "DISCARDED"}
      BY DEF FilesFit
    <2>1. CASE f \in fs
      BY <1>1, <1>2, <2>1 DEF Waits
    <2>2. CASE f \notin fs
      <3>1. file[f].row # IJ!None => row'[file[f].row].disposition = row[file[f].row].disposition
        BY <1>1, <1>3, <2>2
      <3> QED BY <1>1, <2>2, <3>1 DEF JobsInv, FilesFit, Waits
    <2> QED BY <2>1, <2>2
  <1>5. RowsOwned'
    <2>1. ASSUME NEW r \in Files, row'[r].disposition = "PENDING" PROVE \E f \in Files : file[f].row = r
      BY <2>1 DEF JobsInv, RowsOwned
    <2> QED BY <1>1, <2>1 DEF JobsInv, RowsOwned
  <1>6. job'[k] = s
    BY <1>0
  <1>7. JobFits(job', file', k)
    BY <1>6 DEF JobFits, IJ!StatusOf, IJ!Summary
  <1>8. \A g \in Files : \/ file'[g] = file[g]
                         \/ file'[g].job = k /\ (file[g].status = "none" \/ file[g].job = k)
    BY <1>2
  <1>9. ASSUME NEW j \in Jobs, j # k PROVE JobFits(job', file', j)
    <2>1. JobFits(job, file, j)
      BY DEF JobsInv
    <2> QED BY <1>8, <1>9, <2>1, OtherJobsStay
  <1>10. RequestFits(IJ!NoRequest, job', file')
    BY NoRequestIsRequest DEF RequestFits
  <1> QED BY <1>4, <1>5, <1>7, <1>9, <1>10, NoRequestIsRequest, SoloGoesOn

\* A row is corrected or discarded, and its file with it.
LEMMA SoloCommitsRow ==
  ASSUME IJ!ImportAssumption, ImportInv, ImportInv', JobsInv, NEW c \in Clients, Clients = {c}, IJ!CommitRow(c)
  PROVE  JobsInv'
  <1> DEFINE q == request[c]
  <1>0. /\ job \in [Jobs -> IJ!JobStatuses] /\ file \in [Files -> FilesAre] /\ row \in [Files -> Rows]
        /\ q \in IJ!Requests /\ q.job \in Jobs /\ RequestFits(q, job, file) /\ file' \in [Files -> FilesAre]
    BY ImportTypes DEF ImportInv, JobsInv, IJ!TypeOK, FilesAre, IJ!Requests
  <1>1. /\ q.at = "flushed" /\ q.does \in {"resolve", "discard"} /\ IJ!Sends(c, IJ!NoRequest)
        /\ row' = [r \in Files |->
              CASE r \in q.rows /\ q.does = "resolve" -> [row[r] EXCEPT !.valid = TRUE]
                [] r \in q.rows /\ q.does = "discard" -> [row[r] EXCEPT !.disposition = "DISCARDED"]
                [] r \notin q.rows -> row[r]]
        /\ file' = [f \in Files |-> IF f \in q.files THEN [file[f] EXCEPT !.status = IJ!FileAfter(q, f)] ELSE file[f]]
        /\ job' = [job EXCEPT ![q.job] = IJ!JobAfter(q)]
    BY DEF IJ!CommitRow
  <1>2. PICK f \in Waiting(file, q.job) : q.files = {f} /\ q.rows = {file[f].row} /\ q.seenFile = file[f].status
    BY <1>0, <1>1 DEF RequestFits, Reviewed
  <1>3. f \in Files /\ file[f].row # IJ!None /\ f \in IJ!FilesOf(file, q.job) /\ row[file[f].row].disposition = "PENDING"
        /\ file[f].row \in Files
    BY <1>0, <1>2 DEF Waiting, IJ!FilesOf, Waits, JobsInv, FilesFit, FilesAre
  <1>4. IJ!FileAfter(q, f) = Verdict(q) /\ IJ!JobAfter(q) = q.next
    BY <1>0, <1>1, <1>2 DEF IJ!FileAfter, IJ!JobAfter, IJ!Merged, Verdict, RequestFits
  <1>5. /\ file'[f].status = Verdict(q) /\ file'[f].row = file[f].row /\ file'[f].job = file[f].job
        /\ \A g \in Files : g # f => file'[g] = file[g]
    <2>1. file'[f] = [file[f] EXCEPT !.status = Verdict(q)]
      BY SMTT(30), <1>1, <1>2, <1>3, <1>4
    <2>2. file[f] \in FilesAre
      BY SMTT(30), <1>0, <1>3
    <2> QED BY <1>1, <1>2, <2>1, <2>2 DEF FilesAre
  <1>6. Verdict(q) \in {"PARSED", "COMPLETED"}
    BY SMTT(30) DEF Verdict
  <1>7. /\ \A r \in Files : r # file[f].row => row'[r] = row[r]
        /\ IF Verdict(q) = "PARSED" THEN row'[file[f].row].disposition = "PENDING"
           ELSE row'[file[f].row].disposition \in {"ACCEPTED", "DISCARDED"}
    <2>1. row[file[f].row] \in Rows
      BY <1>0, <1>3
    <2>2. \A r \in Files : r # file[f].row => row'[r] = row[r]
      BY <1>1, <1>2
    <2>3. CASE q.does = "resolve"
      <3>1. row'[file[f].row] = [row[file[f].row] EXCEPT !.valid = TRUE]
        BY <1>1, <1>2, <1>3, <2>3
      <3> QED BY <1>3, <2>1, <2>2, <2>3, <3>1 DEF Verdict, Rows
    <2>4. CASE q.does = "discard"
      <3>1. row'[file[f].row] = [row[file[f].row] EXCEPT !.disposition = "DISCARDED"]
        BY <1>1, <1>2, <1>3, <2>4
      <3> QED BY <2>1, <2>2, <2>4, <3>1 DEF Verdict, Rows
    <2> QED BY <1>1, <2>3, <2>4
  <1>8. q.next = IJ!StatusOf(file', q.job)
    <2>1. q.next = IJ!Summary({IF g \in q.files THEN Verdict(q) ELSE file[g].status : g \in IJ!FilesOf(file, q.job)})
      BY <1>0, <1>1 DEF RequestFits, Flushed
    <2>2. IJ!FilesOf(file', q.job) = IJ!FilesOf(file, q.job)
      BY <1>3, <1>5, <1>6 DEF IJ!FilesOf
    <2>3. \A g \in IJ!FilesOf(file, q.job) : file'[g].status = IF g \in q.files THEN Verdict(q) ELSE file[g].status
      BY <1>2, <1>5 DEF IJ!FilesOf
    <2>4. {file'[g].status : g \in IJ!FilesOf(file', q.job)}
          = {IF g \in q.files THEN Verdict(q) ELSE file[g].status : g \in IJ!FilesOf(file, q.job)}
      BY <2>2, <2>3
    <2> QED BY <2>1, <2>4 DEF IJ!StatusOf
  <1>9. job' = [job EXCEPT ![q.job] = q.next]
    BY <1>1, <1>4
  <1> HIDE DEF q
  <1> DEFINE fs == {f}
  <1>10. /\ fs \in SUBSET Files /\ \A g \in fs : g \in Waiting(file, q.job)
         /\ \A g \in Files : g \notin fs => file'[g] = file[g]
         /\ \A g \in fs : file'[g].status = Verdict(q) /\ file'[g].row = file[g].row /\ file'[g].job = file[g].job
         /\ \A r \in Files : (\A g \in fs : file[g].row # r) => row'[r].disposition = row[r].disposition
         /\ \A g \in fs : IF Verdict(q) = "PARSED" THEN row'[file[g].row].disposition = "PENDING"
                            ELSE row'[file[g].row].disposition \in {"ACCEPTED", "DISCARDED"}
    BY <1>3, <1>5, <1>7
  <1> HIDE DEF fs
  <1> DEFINE v == Verdict(q)
             k == q.job
             s == q.next
  <1>11. /\ k \in Jobs /\ v \in {"PARSED", "COMPLETED"} /\ job' = [job EXCEPT ![k] = s] /\ s = IJ!StatusOf(file', k)
         /\ fs \in SUBSET Files /\ \A g \in fs : g \in Waiting(file, k)
         /\ \A g \in Files : g \notin fs => file'[g] = file[g]
         /\ \A g \in fs : file'[g].status = v /\ file'[g].row = file[g].row /\ file'[g].job = file[g].job
         /\ \A r \in Files : (\A g \in fs : file[g].row # r) => row'[r].disposition = row[r].disposition
         /\ \A g \in fs : IF v = "PARSED" THEN row'[file[g].row].disposition = "PENDING"
                            ELSE row'[file[g].row].disposition \in {"ACCEPTED", "DISCARDED"}
    BY <1>0, <1>6, <1>8, <1>9, <1>10
  <1>12. IJ!Sends(c, IJ!NoRequest) /\ file' \in [Files -> FilesAre]
    BY <1>0, <1>1
  <1> HIDE DEF v, k, s
  <1> QED BY <1>11, <1>12, SoloWrites

\* The rows of a job are accepted, and it is completed.
LEMMA SoloConfirms ==
  ASSUME IJ!ImportAssumption, ImportInv, ImportInv', JobsInv, NEW c \in Clients, Clients = {c}, IJ!CommitConfirm(c)
  PROVE  JobsInv'
  <1> DEFINE q == request[c]
             fs == q.files
  <1>0. /\ job \in [Jobs -> IJ!JobStatuses] /\ file \in [Files -> FilesAre] /\ row \in [Files -> Rows]
        /\ q \in IJ!Requests /\ q.job \in Jobs /\ RequestFits(q, job, file) /\ file' \in [Files -> FilesAre]
        /\ fs \in SUBSET Files
    BY ImportTypes DEF ImportInv, JobsInv, IJ!TypeOK, FilesAre, IJ!Requests
  <1>1. /\ q.at = "read" /\ q.does = "confirm" /\ IJ!Sends(c, IJ!NoRequest)
        /\ row' = [r \in Files |->
              IF r \in q.rows THEN [row[r] EXCEPT !.disposition = "ACCEPTED", !.versions = @ + 1] ELSE row[r]]
        /\ file' = [f \in Files |-> IF f \in q.files THEN [file[f] EXCEPT !.status = "COMPLETED"] ELSE file[f]]
        /\ job' = [job EXCEPT ![q.job] = "COMPLETED"]
    BY DEF IJ!CommitConfirm
  <1>2. fs = Waiting(file, q.job) /\ q.rows = {file[f].row : f \in fs} /\ \A f \in IJ!FilesOf(file, q.job) : file[f].status # "FAILED"
    BY <1>0, <1>1 DEF RequestFits, Confirmed
  <1>3. \A f \in fs : file[f].row \in Files
    BY <1>0, <1>2 DEF Waiting, IJ!FilesOf, Waits, JobsInv, FilesFit, FilesAre
  <1>4. /\ \A f \in Files : f \notin fs => file'[f] = file[f]
        /\ \A f \in fs : file'[f].status = "COMPLETED" /\ file'[f].row = file[f].row /\ file'[f].job = file[f].job
    <2>1. \A f \in Files : f \notin fs => file'[f] = file[f]
      BY <1>1
    <2>2. ASSUME NEW f \in fs PROVE file'[f].status = "COMPLETED" /\ file'[f].row = file[f].row /\ file'[f].job = file[f].job
      <3>1. file[f] \in FilesAre /\ file'[f] = [file[f] EXCEPT !.status = "COMPLETED"]
        BY <1>0, <1>1
      <3> QED BY <3>1 DEF FilesAre
    <2> QED BY <2>1, <2>2
  <1>5. /\ \A r \in Files : (\A f \in fs : file[f].row # r) => row'[r].disposition = row[r].disposition
        /\ \A f \in fs : row'[file[f].row].disposition = "ACCEPTED"
    <2>1. ASSUME NEW r \in Files, \A f \in fs : file[f].row # r PROVE row'[r].disposition = row[r].disposition
      <3>1. r \notin q.rows
        BY <1>2, <2>1
      <3> QED BY <1>1, <3>1
    <2>2. ASSUME NEW f \in fs PROVE row'[file[f].row].disposition = "ACCEPTED"
      <3>1. file[f].row \in q.rows /\ file[f].row \in Files
        BY <1>2, <1>3
      <3>2. row'[file[f].row] = [row[file[f].row] EXCEPT !.disposition = "ACCEPTED", !.versions = row[file[f].row].versions + 1]
        BY <1>1, <3>1
      <3>3. row[file[f].row] \in Rows
        BY <1>0, <3>1
      <3> QED BY <3>2, <3>3 DEF Rows
    <2> QED BY <2>1, <2>2
  <1>6. \A f \in IJ!FilesOf(file', q.job) : file'[f].status \in {"DUPLICATE", "COMPLETED"}
    <2>1. IJ!FilesOf(file', q.job) = IJ!FilesOf(file, q.job)
      BY SMTT(30), <1>2, <1>4 DEF IJ!FilesOf, Waiting
    <2>2. \A f \in IJ!FilesOf(file, q.job) : f \in Files /\ file[f].status \in IJ!FileStatuses /\ file[f].status # "none"
      BY SMTT(30), <1>0 DEF IJ!FilesOf, FilesAre
    <2> QED BY <1>2, <1>4, <2>1, <2>2 DEF Waiting, Waits, IJ!FileStatuses
  <1>7. \A f \in fs : f \in Waiting(file, q.job)
    BY SMTT(30), <1>2
  <1>8. /\ job' = [job EXCEPT ![q.job] = "COMPLETED"] /\ IJ!Sends(c, IJ!NoRequest)
        /\ \A f \in fs : IF "COMPLETED" = "PARSED" THEN row'[file[f].row].disposition = "PENDING"
                           ELSE row'[file[f].row].disposition \in {"ACCEPTED", "DISCARDED"}
    BY <1>1, <1>5
  <1> HIDE DEF fs, q
  <1>9. q.job \in Jobs /\ fs \in SUBSET Files /\ file' \in [Files -> FilesAre]
    BY <1>0
  <1> QED BY <1>4, <1>5, <1>6, <1>7, <1>8, <1>9, SoloWrites

\* Every step is one of the above.
LEMMA SoloNext ==
  ASSUME IJ!ImportAssumption, ImportInv, JobsInv, NEW c \in Clients, Clients = {c}, [IJ!Next]_(IJ!importVars)
  PROVE  JobsInv'
  <1>0. ImportInv'
    BY ImportNext
  <1>1. CASE UNCHANGED IJ!importVars
    BY <1>1 DEF IJ!importVars, JobsInv, FilesFit, RowsOwned
  <1>2. ASSUME NEW j \in Jobs, IJ!CreateJob(c, j) \/ IJ!AddFiles(c, j) PROVE JobsInv'
    BY <1>2, SoloCreates
  <1>3. ASSUME NEW x \in Contents, IJ!FindContent(c, x) PROVE JobsInv'
    BY <1>3, SoloFinds
  <1>4. ASSUME NEW outcome, IJ!ParseFile(c, outcome) PROVE JobsInv'
    BY <1>4, SoloParses
  <1>5. CASE IJ!FlushDuplicate(c) \/ IJ!CommitDuplicate(c)
    BY <1>5, SoloDuplicates
  <1>6. ASSUME (\E f \in Files, what \in {"resolve", "discard"} : IJ!ReadRow(c, f, what))
               \/ (\E j \in Jobs : IJ!ReadConfirm(c, j)) \/ IJ!FlushRow(c) \/ IJ!Leave(c)
        PROVE  JobsInv'
    BY <1>6, SoloReviews
  <1>7. CASE IJ!CommitRow(c)
    BY <1>0, <1>7, SoloCommitsRow
  <1>8. CASE IJ!CommitConfirm(c)
    BY <1>0, <1>8, SoloConfirms
  <1> QED BY <1>1, <1>2, <1>3, <1>4, <1>5, <1>6, <1>7, <1>8 DEF IJ!Next

\* One request at a time keeps all of it; what requests at the same time keep is above.
ImportsInv == ImportInv /\ (IJ!OneClient => JobsInv)
LEMMA ImportsInit == ASSUME IJ!ImportAssumption PROVE IJ!Init => ImportsInv
  BY ImportInit, SoloInit DEF ImportsInv
LEMMA ImportsNext == ASSUME IJ!ImportAssumption, ImportsInv, [IJ!Next]_(IJ!importVars) PROVE ImportsInv'
  <1>1. ImportInv'
    BY ImportNext DEF ImportsInv
  <1>2. ASSUME IJ!OneClient PROVE JobsInv'
    <2>1. Cardinality(Clients) = 1 /\ IsFiniteSet(Clients)
      BY <1>2 DEF IJ!OneClient, IJ!Cardinality, Cardinality, IJ!ImportAssumption, IJ!IsFiniteSet, IsFiniteSet
    <2>2. PICK c : Clients = {c}
      BY <2>1, FS_Singleton
    <2> QED BY <1>2, <2>2, SoloNext DEF ImportsInv
  <1> QED BY <1>1, <1>2 DEF ImportsInv, IJ!OneClient

\* Both imply what is promised.
LEMMA ImportsInvSuffices ==
  ASSUME IJ!ImportAssumption, ImportsInv PROVE IJ!TypeOK /\ IJ!AcceptedOnce /\ IJ!JobTellsItsFiles
  <1>1. ASSUME JobsInv, NEW j \in Jobs
        PROVE  /\ job[j] = "COMPLETED" => IJ!PendingFiles(j) = {} /\ \A f \in IJ!FilesOf(file, j) : file[f].status \in {"DUPLICATE", "COMPLETED"}
               /\ job[j] \notin {"none", "COMPLETED"} => job[j] = IJ!StatusOf(file, j)
    <2>1. IJ!PendingFiles(j) = Waiting(file, j) /\ JobFits(job, file, j)
      BY <1>1, WaitingIsPending DEF ImportsInv, JobsInv
    <2> QED BY <2>1 DEF JobFits, Waiting, Waits
  <1>2. IJ!JobTellsItsFiles
    BY <1>1 DEF ImportsInv, JobsInv, RowsOwned, IJ!JobTellsItsFiles
  <1> QED BY <1>2, ImportInvSuffices DEF ImportsInv

\* With one request at a time a job tells what its files need: nothing is left to do in a
\* completed one, and no row is lost to a file that is tried again.
THEOREM JobTellsWhatItsFilesNeed == ASSUME IJ!ImportAssumption PROVE IJ!Spec => []IJ!JobTellsItsFiles
  BY ImportsInit, ImportsNext, ImportsInvSuffices, PTL DEF IJ!Spec

-----------------------------------------------------------------------------
(* Lessons. *)

\* An open signal contradicts the current version, and is the only one.
SignalsFit ==
    \A s \in Signals : signals[s].status = "OPEN" =>
        /\ \A t \in Signals : signals[t].status = "OPEN" => s = t
        /\ lesson.state = "REVIEW_RECOMMENDED"
        /\ lesson.current # 0 /\ signals[s].version = lesson.current
        /\ versions[lesson.current].evidence = "CONTRADICTS"
\* The versions are the ones up to the current one.
VersionsFit ==
    /\ lesson.current = 0 => lesson.state = "CURRENT"
    /\ \A v \in Versions :
        /\ versions[v].evidence # "none" <=> v <= lesson.current
        /\ versions[v].evidence # "none" => versions[v].seen = v - 1
\* The transitions lead to the state, and tell every key once.
TransitionsFit ==
    /\ \A i, j \in 1..Len(transitions) :
        transitions[i].key # 0 /\ transitions[i].key = transitions[j].key => i = j
    /\ \A i \in 1..(Len(transitions) - 1) : transitions[i].to = transitions[i + 1].from
    /\ transitions # <<>> => transitions[Len(transitions)].to = lesson.state
LessonsInv == LS!TypeOK /\ SignalsFit /\ VersionsFit /\ TransitionsFit

Lessons == [current : Versions \cup {0}, state : LS!States]
Written == [evidence : LS!Relations, seen : Versions \cup {0}]
SignalsAre == [status : {"none", "OPEN", "RESOLVED"}, version : Versions \cup {0}]
TransitionsAre == [from : LS!States \cup {"none"}, to : LS!States, key : Keys \cup {0}]

\* The types, by variable.
LEMMA LessonTypes ==
  LS!TypeOK <=>
    /\ lesson \in Lessons /\ versions \in [Versions -> Written] /\ signals \in [Signals -> SignalsAre]
    /\ transitions \in Seq(TransitionsAre)
    /\ sent \subseteq [key : Keys, does : LS!Operations, seen : LS!Contexts]
    /\ stored \in [Metadata -> {"old", "new"}] /\ promised \in [Metadata -> {"old", "new"}]
    /\ editing \in Metadata \cup {"nothing"}
  BY DEF LS!TypeOK, Lessons, Written, SignalsAre, TransitionsAre, LS!None

\* Versions are numbered from 1 without gaps.
LEMMA VersionsAreNaturals == ASSUME LS!LessonsAssumption PROVE \A v \in Versions : v \in Nat \ {0} /\ 1..v \subseteq Versions
  <1>1. IsFiniteSet(Versions) /\ LS!Cardinality(Versions) = Cardinality(Versions)
    BY DEF LS!LessonsAssumption, LS!IsFiniteSet, IsFiniteSet, LS!Cardinality, Cardinality
  <1>2. Versions = 1..Cardinality(Versions) /\ Cardinality(Versions) \in Nat
    BY <1>1, FS_CardinalityType DEF LS!LessonsAssumption
  <1> QED BY <1>2

\* A lesson without signals.
LEMMA LessonsInit == ASSUME LS!LessonsAssumption PROVE LS!Init => LessonsInv
  <1> SUFFICES ASSUME LS!Init PROVE LessonsInv
    OBVIOUS
  <1>1. LS!TypeOK
    <2>1. lesson \in Lessons /\ versions \in [Versions -> Written] /\ signals \in [Signals -> SignalsAre]
      BY DEF LS!Init, Lessons, Written, SignalsAre, LS!None, LS!States, LS!Relations
    <2>2. transitions \in Seq(TransitionsAre) /\ sent = {} /\ editing = "nothing"
      BY DEF LS!Init
    <2>3. stored \in [Metadata -> {"old", "new"}] /\ promised \in [Metadata -> {"old", "new"}]
      BY DEF LS!Init
    <2> QED BY <2>1, <2>2, <2>3, LessonTypes
  <1>2. SignalsFit
    BY DEF LS!Init, SignalsFit
  <1>3. VersionsFit
    BY VersionsAreNaturals DEF LS!Init, VersionsFit, LS!None
  <1>4. TransitionsFit
    BY DEF LS!Init, TransitionsFit
  <1> QED BY <1>1, <1>2, <1>3, <1>4 DEF LessonsInv

\* The next version, whose author has seen the current one.
WritesNext(e, v) ==
    /\ LS!First(v, Versions, LS!Written)
    /\ versions' = [versions EXCEPT ![v] = [evidence |-> e, seen |-> lesson.current]]

\* A new version and the signal that its evidence opens.
LEMMA LessonVersion ==
  ASSUME LS!LessonsAssumption, LessonsInv, NEW e \in LS!Relations \ {"none"}, NEW v \in Versions, WritesNext(e, v),
         lesson' \in Lessons, lesson'.current = v
  PROVE  versions' \in [Versions -> Written] /\ VersionsFit'
  <1>1. lesson \in Lessons /\ versions \in [Versions -> Written] /\ VersionsFit
    BY LessonTypes DEF LessonsInv
  <1>2. \A w \in Versions : w \in Nat \ {0} /\ 1..w \subseteq Versions
    BY VersionsAreNaturals
  <1>3. v \in Nat \ {0} /\ 1..v \subseteq Versions /\ lesson.current \in Nat
    BY <1>1, <1>2 DEF Lessons
  <1>4. v = lesson.current + 1
    <2>1. ~(v <= lesson.current)
      BY <1>1 DEF WritesNext, LS!First, LS!Written, VersionsFit
    <2>2. v = 1 \/ v - 1 <= lesson.current
      <3>1. CASE v # 1
        <4>1. v - 1 \in Versions /\ v - 1 < v
          BY <1>3, <3>1
        <4> QED BY <4>1, <1>1 DEF WritesNext, LS!First, LS!Written, VersionsFit
      <3> QED BY <3>1
    <2> QED BY <1>3, <2>1, <2>2
  <1>5. [evidence |-> e, seen |-> lesson.current] \in Written
    BY <1>1 DEF Lessons, Written
  <1>6. versions' \in [Versions -> Written]
    BY <1>1, <1>5 DEF WritesNext
  <1>7. ASSUME NEW w \in Versions
        PROVE  /\ versions'[w].evidence # "none" <=> w <= v
               /\ versions'[w].evidence # "none" => versions'[w].seen = w - 1
    <2>1. CASE w = v
      <3>1. versions'[w] = [evidence |-> e, seen |-> lesson.current]
        BY <1>1, <2>1 DEF WritesNext
      <3> QED BY <1>3, <1>4, <2>1, <3>1
    <2>2. CASE w # v
      <3>1. versions'[w] = versions[w]
        BY <1>1, <2>2 DEF WritesNext
      <3>2. w <= v <=> w <= lesson.current
        BY <1>2, <1>3, <1>4, <2>2
      <3> QED BY <1>1, <3>1, <3>2 DEF VersionsFit
    <2> QED BY <2>1, <2>2
  <1> QED BY <1>3, <1>6, <1>7 DEF VersionsFit

\* A transition, which closes a review of the current version.
LEMMA LessonMoves ==
  ASSUME LessonsInv, NEW to \in LS!States, NEW key \in Keys \cup {0}, LS!Moves(to, key), ~LS!Receipted(key),
         lesson'.state = to
  PROVE  transitions' \in Seq(TransitionsAre) /\ TransitionsFit'
  <1> DEFINE x == [from |-> lesson.state, to |-> to, key |-> key]
  <1>1. transitions \in Seq(TransitionsAre) /\ lesson \in Lessons /\ TransitionsFit
    BY LessonTypes DEF LessonsInv
  <1>2. x \in TransitionsAre /\ x.from = lesson.state /\ x.to = to /\ x.key = key
    BY <1>1 DEF TransitionsAre, Lessons
  <1>3. transitions' = Append(transitions, x)
    BY DEF LS!Moves
  <1>4. key # 0 => \A i \in 1..Len(transitions) : transitions[i].key # key
    BY <1>1 DEF LS!Receipted, LS!None
  <1> HIDE DEF x
  <1>5. /\ transitions' \in Seq(TransitionsAre) /\ Len(transitions') = Len(transitions) + 1 /\ Len(transitions) \in Nat
        /\ transitions'[Len(transitions')] = x /\ \A i \in 1..Len(transitions) : transitions'[i] = transitions[i]
        /\ (Len(transitions) = 0 <=> transitions = <<>>)
    BY <1>1, <1>2, <1>3
  <1>6. ASSUME NEW i \in 1..Len(transitions'), NEW j \in 1..Len(transitions'),
               transitions'[i].key # 0, transitions'[i].key = transitions'[j].key
        PROVE  i = j
    <2>1. CASE i = Len(transitions') /\ j # Len(transitions')
      <3>1. j \in 1..Len(transitions)
        BY <1>5, <2>1
      <3> QED BY <1>2, <1>4, <1>5, <1>6, <2>1, <3>1
    <2>2. CASE i # Len(transitions') /\ j = Len(transitions')
      <3>1. i \in 1..Len(transitions)
        BY <1>5, <2>2
      <3> QED BY <1>2, <1>4, <1>5, <1>6, <2>2, <3>1
    <2>3. CASE i # Len(transitions') /\ j # Len(transitions')
      <3>1. i \in 1..Len(transitions) /\ j \in 1..Len(transitions)
        BY <1>5, <2>3
      <3> QED BY <1>1, <1>5, <1>6, <3>1 DEF TransitionsFit
    <2> QED BY <2>1, <2>2, <2>3
  <1>7. ASSUME NEW i \in 1..(Len(transitions') - 1) PROVE transitions'[i].to = transitions'[i + 1].from
    <2>1. CASE i = Len(transitions)
      BY <1>1, <1>2, <1>5, <2>1 DEF TransitionsFit
    <2>2. CASE i # Len(transitions)
      <3>1. i \in 1..(Len(transitions) - 1) /\ i \in 1..Len(transitions) /\ i + 1 \in 1..Len(transitions)
        BY <1>5, <2>2
      <3> QED BY <1>1, <1>5, <3>1 DEF TransitionsFit
    <2> QED BY <2>1, <2>2
  <1>8. transitions'[Len(transitions')].to = lesson'.state
    BY <1>2, <1>5
  <1> QED BY <1>5, <1>6, <1>7, <1>8 DEF TransitionsFit

\* What an endpoint or a review command with a key does to the lesson.
LessonStep(key) ==
    LET relations == LS!Relations \ {"none"} IN
    \/ \E e \in relations, v \in Versions :
        /\ LS!NoOpenSignal /\ WritesNext(e, v) /\ lesson' = [lesson EXCEPT !.current = v]
        /\ UNCHANGED <<signals, transitions>>
    \/ \E to \in LS!States :
        /\ LS!NoOpenSignal /\ LS!Moves(to, key) /\ lesson' = [lesson EXCEPT !.state = to]
        /\ UNCHANGED <<versions, signals>>
    \/ LS!OpenReview(key)
    \/ \E s \in Signals, to \in LS!States : LS!Resolved(s, to, key)
    \/ \E s \in Signals, e \in relations, v \in Versions :
        /\ LS!Resolvable(s) /\ LS!Resolves(s) /\ LS!Moves("CURRENT", key) /\ WritesNext(e, v)
        /\ lesson' = [current |-> v, state |-> "CURRENT"]
    \/ \E e \in relations, v \in Versions :
        /\ LS!NoOpenSignal /\ WritesNext(e, v) /\ LS!Moves("CURRENT", key)
        /\ lesson' = [current |-> v, state |-> "CURRENT"] /\ UNCHANGED signals

\* An endpoint without a key is a step.
LEMMA EndpointSteps == ASSUME LessonsInv, LS!Endpoint PROVE LessonStep(0)
  <1>1. \/ \E e \in LS!Relations \ {"none"}, v \in Versions :
            /\ LS!NoOpenSignal /\ WritesNext(e, v) /\ lesson' = [lesson EXCEPT !.current = v]
            /\ UNCHANGED <<signals, transitions>>
        \/ \E to \in LS!States :
            /\ LS!NoOpenSignal /\ LS!Moves(to, 0) /\ lesson' = [lesson EXCEPT !.state = to]
            /\ UNCHANGED <<versions, signals>>
        \/ LS!OpenReview(0)
        \/ \E s \in Signals : LS!Resolved(s, "CURRENT", 0) \/ LS!Resolved(s, "RETIRED", 0)
        \/ \E s \in Signals, e \in LS!Relations \ {"none"} : LS!ResolveWithVersion(s, e, LS!Context, 0)
    BY DEF LS!Endpoint, LS!NewVersion, LS!Transition, LS!ResolveUnchanged, LS!ResolveRetired, LS!Writes, WritesNext,
       LS!Context, LS!None
  <1>2. ASSUME NEW s \in Signals, NEW e \in LS!Relations \ {"none"}, LS!ResolveWithVersion(s, e, LS!Context, 0)
        PROVE  \E v \in Versions :
                 /\ LS!Resolvable(s) /\ LS!Resolves(s) /\ LS!Moves("CURRENT", 0) /\ WritesNext(e, v)
                 /\ lesson' = [current |-> v, state |-> "CURRENT"]
    BY <1>2 DEF LS!ResolveWithVersion, LS!Writes, WritesNext, LS!Context
  <1> QED BY <1>1, <1>2 DEF LessonStep, LS!States

\* So is a command with a key, or it is replayed.
LEMMA ExecuteSteps ==
  ASSUME LessonsInv, NEW m \in sent, LS!Execute(m)
  PROVE  m.key \in Keys /\ ~LS!Receipted(m.key) /\ LessonStep(m.key)
  <1>1. /\ m.key \in Keys /\ m.does \in LS!Operations /\ m.seen \in LS!Contexts /\ m.seen = LS!Context
        /\ ~LS!Receipted(m.key)
        /\ IF m.seen.signal = 0 /\ m.does # "OPEN_CONTRADICTION_REVIEW" THEN LS!SourceReview(m) ELSE LS!SignalReview(m)
        /\ LS!Opens(m) => m.seen.signal = 0
    BY LessonTypes DEF LessonsInv, LS!Execute, LS!SeenIsCurrent, LS!None
  <1>2. m.seen.current = lesson.current /\ m.seen.signal \in Signals \cup {0}
    BY <1>1 DEF LS!Context, LS!Contexts, LS!None
  <1>3. CASE m.seen.signal = 0 /\ m.does # "OPEN_CONTRADICTION_REVIEW"
    <2>0. LS!SourceReview(m)
      BY <1>1, <1>3
    <2>1. CASE m.does \in {"OPEN_SOURCE_REVIEW", "CONFIRM_UNCHANGED", "RETIRE"}
      <3>1. PICK to \in LS!States :
              /\ LS!Transition(to, m.key) /\ lesson' = [lesson EXCEPT !.state = to]
              /\ UNCHANGED <<versions, signals>>
        <4>1. CASE m.does = "OPEN_SOURCE_REVIEW"
          BY <2>0, <4>1 DEF LS!SourceReview, LS!States
        <4>2. CASE m.does = "CONFIRM_UNCHANGED"
          BY <2>0, <4>2 DEF LS!SourceReview, LS!States
        <4>3. CASE m.does = "RETIRE"
          BY <2>0, <4>3 DEF LS!SourceReview, LS!States
        <4> QED BY <2>1, <4>1, <4>2, <4>3
      <3> QED BY <1>1, <3>1 DEF LS!Transition, LessonStep
    <2>2. CASE m.does \notin {"OPEN_SOURCE_REVIEW", "CONFIRM_UNCHANGED", "RETIRE"}
      <3>1. PICK e \in LS!Relations \ {"none"}, v \in Versions :
              /\ LS!NewVersion(e, m.seen, v) /\ LS!Transition("CURRENT", m.key)
              /\ lesson' = [current |-> v, state |-> "CURRENT"] /\ UNCHANGED signals
        BY <2>0, <2>2 DEF LS!SourceReview
      <3>2. WritesNext(e, v) /\ LS!NoOpenSignal /\ LS!Moves("CURRENT", m.key)
        BY <1>2, <3>1 DEF LS!NewVersion, LS!Transition, LS!Writes, WritesNext
      <3> QED BY <1>1, <3>1, <3>2 DEF LessonStep
    <2> QED BY <2>1, <2>2
  <1>4. CASE m.seen.signal # 0 /\ m.does # "OPEN_CONTRADICTION_REVIEW"
    <2>1. m.seen.signal \in Signals /\ LS!SignalReview(m)
      BY <1>1, <1>2, <1>4
    <2>2. CASE m.does = "CONFIRM_UNCHANGED"
      BY <1>1, <2>1, <2>2 DEF LS!SignalReview, LS!ResolveUnchanged, LessonStep, LS!States
    <2>3. CASE m.does = "RETIRE"
      BY <1>1, <2>1, <2>3 DEF LS!SignalReview, LS!ResolveRetired, LessonStep, LS!States
    <2>4. CASE m.does = "NEW_VERSION"
      <3>1. PICK e \in LS!Relations \ {"none"} : LS!ResolveWithVersion(m.seen.signal, e, m.seen, m.key)
        BY <2>1, <2>4 DEF LS!SignalReview
      <3>2. PICK v \in Versions :
              /\ LS!Writes(v, e, m.seen) /\ lesson' = [current |-> v, state |-> "CURRENT"]
              /\ LS!Resolvable(m.seen.signal) /\ LS!Resolves(m.seen.signal) /\ LS!Moves("CURRENT", m.key)
        BY <3>1 DEF LS!ResolveWithVersion
      <3>3. WritesNext(e, v)
        BY <1>2, <3>2 DEF LS!Writes, WritesNext
      <3> QED BY <1>1, <2>1, <3>2, <3>3 DEF LessonStep
    <2> QED BY <1>4, <2>1, <2>2, <2>3, <2>4 DEF LS!SignalReview
  <1>5. CASE m.does = "OPEN_CONTRADICTION_REVIEW"
    BY <1>1, <1>5 DEF LS!SignalReview, LessonStep
  <1> QED BY <1>1, <1>3, <1>4, <1>5

\* A step of the lesson keeps the signals, versions and transitions in accord.
LEMMA LessonStepFits ==
  ASSUME LS!LessonsAssumption, LessonsInv, lesson.current # 0,
         NEW key \in Keys \cup {0}, ~LS!Receipted(key), LessonStep(key),
         UNCHANGED <<sent, stored, promised, editing>>
  PROVE  LessonsInv'
  <1> DEFINE Fits == /\ lesson' \in Lessons /\ versions' \in [Versions -> Written] /\ signals' \in [Signals -> SignalsAre]
                     /\ transitions' \in Seq(TransitionsAre) /\ SignalsFit' /\ VersionsFit' /\ TransitionsFit'
  <1>0. /\ lesson \in Lessons /\ versions \in [Versions -> Written] /\ signals \in [Signals -> SignalsAre]
        /\ transitions \in Seq(TransitionsAre) /\ SignalsFit /\ VersionsFit /\ TransitionsFit
    BY LessonTypes DEF LessonsInv
  <1>1. SUFFICES Fits
    <2>1. /\ sent' \subseteq [key : Keys, does : LS!Operations, seen : LS!Contexts]
          /\ stored' \in [Metadata -> {"old", "new"}] /\ promised' \in [Metadata -> {"old", "new"}]
          /\ editing' \in Metadata \cup {"nothing"}
      BY LessonTypes DEF LessonsInv
    <2>2. Fits => LS!TypeOK'
      BY <2>1, LessonTypes DEF LS!TypeOK, Lessons, Written, SignalsAre, TransitionsAre, LS!None
    <2> QED BY <2>2 DEF LessonsInv
  <1>2. ASSUME NEW e \in LS!Relations \ {"none"}, NEW v \in Versions, LS!NoOpenSignal, WritesNext(e, v),
               lesson' = [lesson EXCEPT !.current = v], UNCHANGED <<signals, transitions>>
        PROVE  Fits
    <2>1. lesson' \in Lessons /\ lesson'.current = v /\ lesson'.state = lesson.state
      BY <1>0, <1>2 DEF Lessons
    <2>2. versions' \in [Versions -> Written] /\ VersionsFit'
      BY <1>2, <2>1, LessonVersion
    <2>3. SignalsFit'
      BY <1>2 DEF LS!NoOpenSignal, LS!Opened, SignalsFit
    <2>4. TransitionsFit'
      BY <1>0, <1>2, <2>1 DEF TransitionsFit
    <2> QED BY <1>0, <1>2, <2>1, <2>2, <2>3, <2>4
  <1>3. ASSUME NEW to \in LS!States, LS!NoOpenSignal, LS!Moves(to, key), lesson' = [lesson EXCEPT !.state = to],
               UNCHANGED <<versions, signals>>
        PROVE  Fits
    <2>1. lesson' \in Lessons /\ lesson'.state = to /\ lesson'.current = lesson.current
      BY <1>0, <1>3 DEF Lessons
    <2>2. transitions' \in Seq(TransitionsAre) /\ TransitionsFit'
      BY <1>3, <2>1, LessonMoves
    <2>3. SignalsFit'
      BY <1>3 DEF LS!NoOpenSignal, LS!Opened, SignalsFit
    <2>4. VersionsFit'
      BY <1>0, <1>3, <2>1 DEF VersionsFit
    <2> QED BY <1>0, <1>3, <2>1, <2>2, <2>3, <2>4
  <1>4. CASE LS!OpenReview(key)
    <2>1. PICK s \in Signals :
            /\ signals' = [signals EXCEPT ![s] = [status |-> "OPEN", version |-> lesson.current]]
            /\ lesson' = [lesson EXCEPT !.state = "REVIEW_RECOMMENDED"]
            /\ LS!Moves("REVIEW_RECOMMENDED", key) /\ UNCHANGED versions
            /\ LS!Opened = {} /\ versions[lesson.current].evidence = "CONTRADICTS"
      BY <1>4 DEF LS!OpenReview
    <2>2. lesson' \in Lessons /\ lesson'.state = "REVIEW_RECOMMENDED" /\ lesson'.current = lesson.current
      BY <1>0, <2>1 DEF Lessons, LS!States
    <2>3. transitions' \in Seq(TransitionsAre) /\ TransitionsFit'
      BY <2>1, <2>2, LessonMoves DEF LS!States
    <2>4. [status |-> "OPEN", version |-> lesson.current] \in SignalsAre
      BY <1>0 DEF SignalsAre, Lessons
    <2>5. signals' \in [Signals -> SignalsAre] /\ signals'[s].version = lesson.current
          /\ \A t \in Signals : signals'[t].status = "OPEN" => t = s
      BY <1>0, <2>1, <2>4 DEF LS!Opened
    <2>6. SignalsFit'
      BY <2>1, <2>2, <2>5 DEF SignalsFit
    <2>7. VersionsFit'
      BY <1>0, <2>1, <2>2 DEF VersionsFit
    <2> QED BY <1>0, <2>1, <2>2, <2>3, <2>5, <2>6, <2>7
  <1>5. ASSUME NEW s \in Signals, LS!Resolvable(s), LS!Resolves(s)
        PROVE  signals' \in [Signals -> SignalsAre] /\ \A t \in Signals : signals'[t].status # "OPEN"
    <2>1. signals' = [signals EXCEPT ![s].status = "RESOLVED"] /\ signals[s].status = "OPEN"
      BY <1>5 DEF LS!Resolves, LS!Resolvable
    <2>2. \A t \in Signals : signals[t].status = "OPEN" => t = s
      BY <1>0, <2>1 DEF SignalsFit
    <2>3. [signals[s] EXCEPT !.status = "RESOLVED"] \in SignalsAre /\ [signals[s] EXCEPT !.status = "RESOLVED"].status = "RESOLVED"
      BY <1>0 DEF SignalsAre
    <2> QED BY <1>0, <2>1, <2>2, <2>3
  <1>6. ASSUME NEW s \in Signals, NEW to \in LS!States, LS!Resolved(s, to, key)
        PROVE  Fits
    <2>1. /\ LS!Resolvable(s) /\ LS!Resolves(s) /\ LS!Moves(to, key) /\ lesson' = [lesson EXCEPT !.state = to]
          /\ UNCHANGED versions
      BY <1>6 DEF LS!Resolved
    <2>2. lesson' \in Lessons /\ lesson'.state = to /\ lesson'.current = lesson.current
      BY <1>0, <2>1 DEF Lessons
    <2>3. transitions' \in Seq(TransitionsAre) /\ TransitionsFit'
      BY <2>1, <2>2, LessonMoves
    <2>4. signals' \in [Signals -> SignalsAre] /\ SignalsFit'
      BY <1>5, <2>1 DEF SignalsFit
    <2>5. VersionsFit'
      BY <1>0, <2>1, <2>2 DEF VersionsFit
    <2> QED BY <1>0, <2>1, <2>2, <2>3, <2>4, <2>5
  <1>7. ASSUME NEW e \in LS!Relations \ {"none"}, NEW v \in Versions, WritesNext(e, v), LS!Moves("CURRENT", key),
               lesson' = [current |-> v, state |-> "CURRENT"],
               signals' \in [Signals -> SignalsAre], \A t \in Signals : signals'[t].status # "OPEN"
        PROVE  Fits
    <2>1. lesson' \in Lessons /\ lesson'.state = "CURRENT" /\ lesson'.current = v
      BY <1>7 DEF Lessons, LS!States
    <2>2. versions' \in [Versions -> Written] /\ VersionsFit'
      BY <1>7, <2>1, LessonVersion
    <2>3. transitions' \in Seq(TransitionsAre) /\ TransitionsFit'
      BY <1>7, <2>1, LessonMoves DEF LS!States
    <2>4. SignalsFit'
      BY <1>7 DEF SignalsFit
    <2> QED BY <1>7, <2>1, <2>2, <2>3, <2>4
  <1>8. ASSUME NEW s \in Signals, NEW e \in LS!Relations \ {"none"}, NEW v \in Versions,
               LS!Resolvable(s), LS!Resolves(s), LS!Moves("CURRENT", key), WritesNext(e, v),
               lesson' = [current |-> v, state |-> "CURRENT"]
        PROVE  Fits
    BY <1>5, <1>7, <1>8
  <1>9. ASSUME NEW e \in LS!Relations \ {"none"}, NEW v \in Versions, LS!NoOpenSignal, WritesNext(e, v),
               LS!Moves("CURRENT", key), lesson' = [current |-> v, state |-> "CURRENT"], UNCHANGED signals
        PROVE  Fits
    <2>1. signals' \in [Signals -> SignalsAre] /\ \A t \in Signals : signals'[t].status # "OPEN"
      BY <1>0, <1>9 DEF LS!NoOpenSignal, LS!Opened
    <2> QED BY <1>7, <1>9, <2>1
  <1> HIDE DEF Fits
  <1> QED BY <1>2, <1>3, <1>4, <1>6, <1>8, <1>9 DEF LessonStep

\* Every step is a step of the lesson, or sends or repeats one.
LEMMA LessonsNext == ASSUME LS!LessonsAssumption, LessonsInv, [LS!Next]_(LS!lessonVars) PROVE LessonsInv'
  <1>0. /\ lesson \in Lessons /\ versions \in [Versions -> Written] /\ signals \in [Signals -> SignalsAre]
        /\ transitions \in Seq(TransitionsAre) /\ SignalsFit /\ VersionsFit /\ TransitionsFit
    BY LessonTypes DEF LessonsInv
  <1>1. CASE UNCHANGED <<lesson, versions, signals, transitions>>
             /\ sent' \subseteq [key : Keys, does : LS!Operations, seen : LS!Contexts]
             /\ stored' \in [Metadata -> {"old", "new"}] /\ promised' \in [Metadata -> {"old", "new"}]
             /\ editing' \in Metadata \cup {"nothing"}
    <2>1. LS!TypeOK'
      BY <1>0, <1>1 DEF LS!TypeOK, Lessons, Written, SignalsAre, TransitionsAre, LS!None
    <2>2. SignalsFit' /\ VersionsFit' /\ TransitionsFit'
      BY <1>0, <1>1 DEF SignalsFit, VersionsFit, TransitionsFit
    <2> QED BY <2>1, <2>2 DEF LessonsInv
  <1>2. CASE UNCHANGED LS!lessonVars
    BY <1>1, <1>2, LessonTypes DEF LS!lessonVars, LessonsInv
  <1>3. ASSUME NEW e \in LS!Relations \ {"none"}, LS!Create(e) PROVE LessonsInv'
    <2>1. PICK v \in Versions :
            /\ LS!Writes(v, e, LS!Context) /\ lesson' = [lesson EXCEPT !.current = v] /\ lesson.current = 0
            /\ transitions' = <<[from |-> "none", to |-> "CURRENT", key |-> 0]>>
            /\ UNCHANGED <<signals, sent, stored, promised, editing>>
      BY <1>3 DEF LS!Create, LS!None
    <2>2. WritesNext(e, v)
      BY <2>1 DEF LS!Writes, LS!Context, WritesNext
    <2>3. lesson' \in Lessons /\ lesson'.current = v /\ lesson'.state = lesson.state
      BY <1>0, <2>1 DEF Lessons
    <2>4. versions' \in [Versions -> Written] /\ VersionsFit'
      BY <2>2, <2>3, LessonVersion
    <2>5. SignalsFit'
      BY <1>0, <2>1 DEF SignalsFit
    <2>6. [from |-> "none", to |-> "CURRENT", key |-> 0] \in TransitionsAre
      BY DEF TransitionsAre, LS!States
    <2>7. transitions' \in Seq(TransitionsAre) /\ TransitionsFit'
      BY <1>0, <2>1, <2>3, <2>6 DEF TransitionsFit, VersionsFit
    <2>8. LS!TypeOK'
      BY <1>0, <2>1, <2>3, <2>4, <2>7, LessonTypes
         DEF LessonsInv, LS!TypeOK, Lessons, Written, SignalsAre, TransitionsAre, LS!None
    <2> QED BY <2>4, <2>5, <2>7, <2>8 DEF LessonsInv
  <1>4. CASE LS!Endpoint
    <2>1. lesson.current # 0 /\ UNCHANGED <<sent, stored, promised, editing>> /\ ~LS!Receipted(0)
      BY <1>4 DEF LS!Endpoint, LS!Locks, LS!None, LS!Receipted
    <2> QED BY <1>4, <2>1, EndpointSteps, LessonStepFits
  <1>5. ASSUME NEW m \in sent, LS!Execute(m) PROVE LessonsInv'
    <2>1. lesson.current # 0 /\ UNCHANGED <<sent, stored, promised, editing>>
      BY <1>5 DEF LS!Execute, LS!Locks, LS!None
    <2> QED BY <1>5, <2>1, ExecuteSteps, LessonStepFits
  <1>6. ASSUME NEW key \in Keys, NEW does \in LS!Operations, LS!Send(key, does) PROVE LessonsInv'
    <2>1. LS!OpenSignal \in Signals \cup {0}
      BY DEF LS!OpenSignal, LS!Opened, LS!None
    <2>2. LS!Context \in LS!Contexts
      BY <1>0, <2>1 DEF LS!Context, LS!Contexts, Lessons, LS!None
    <2>3. sent' \subseteq [key : Keys, does : LS!Operations, seen : LS!Contexts]
      BY <1>6, <2>2, LessonTypes DEF LS!Send, LessonsInv
    <2> QED BY <1>1, <1>6, <2>3, LessonTypes DEF LS!Send, LessonsInv
  <1>7. ASSUME NEW what \in Metadata, LS!Flushes(what) PROVE LessonsInv'
    BY <1>1, <1>7, LessonTypes DEF LS!Flushes, LessonsInv
  <1>8. CASE LS!UpdateTitle \/ LS!ReplaceTags \/ LS!RejectSuggestion \/ LS!ConfirmSuggestion
    BY <1>7, <1>8 DEF LS!UpdateTitle, LS!ReplaceTags, LS!RejectSuggestion, LS!ConfirmSuggestion, LS!Flushes
  <1>9. CASE LS!Answer
    BY <1>1, <1>9, LessonTypes DEF LS!Answer, LessonsInv
  <1> QED BY <1>2, <1>3, <1>4, <1>5, <1>6, <1>8, <1>9 DEF LS!Next

\* At most one signal is open.
LEMMA OneSignal == ASSUME SignalsFit PROVE LS!Cardinality(LS!Opened) <= 1
  <1>1. LS!Cardinality(LS!Opened) = Cardinality(LS!Opened)
    BY DEF LS!Cardinality, Cardinality
  <1>2. CASE LS!Opened = {}
    BY <1>1, <1>2, FS_EmptySet
  <1>3. CASE LS!Opened # {}
    <2>1. PICK s \in LS!Opened : TRUE
      BY <1>3
    <2>2. LS!Opened = {s}
      BY <2>1 DEF LS!Opened, SignalsFit
    <2>3. Cardinality({s}) = 1
      BY FS_Singleton
    <2> QED BY <1>1, <2>2, <2>3
  <1> QED BY <1>2, <1>3

\* The invariant implies what is promised.
LEMMA LessonsInvSuffices ==
  ASSUME LessonsInv PROVE LS!TypeOK /\ LS!ContradictionIsNotBypassed /\ LS!ReviewedAsSeen
  <1>1. LS!ContradictionIsNotBypassed
    BY OneSignal DEF LessonsInv, SignalsFit, LS!ContradictionIsNotBypassed, LS!Opened
  <1>2. LS!ReviewedAsSeen
    <2>1. DOMAIN transitions = 1..Len(transitions)
      BY LessonTypes DEF LessonsInv
    <2> QED BY <2>1 DEF LessonsInv, TransitionsFit, VersionsFit, LS!ReviewedAsSeen, LS!Written, LS!None
  <1> QED BY <1>1, <1>2 DEF LessonsInv

\* No edit or transition bypasses an open contradiction, and a review is only applied to the
\* version that the reviewer had seen, however commands are sent, delayed and repeated.
THEOREM LessonIsReviewedAsSeen ==
  ASSUME LS!LessonsAssumption
  PROVE  LS!Spec => [](LS!TypeOK /\ LS!ContradictionIsNotBypassed /\ LS!ReviewedAsSeen)
  BY LessonsInit, LessonsNext, LessonsInvSuffices, PTL DEF LS!Spec

-----------------------------------------------------------------------------
(* Exit reviews. *)

Sessions == [does : {"nothing", "materialize"} \cup TR!ReviewRequests \cup TR!JournalRequests,
             version : 0..LastVersion, read : SUBSET TR!Facts, locks : SUBSET TR!Rows]
Reviews == [status : {"none", "DRAFT", "FINALIZED"}, stale : BOOLEAN, print : SUBSET TR!Facts]
ReviewTypes ==
    /\ TR!TypeOK
    /\ session \in [Clients -> Sessions] /\ review \in [1..LastVersion -> Reviews]

\* What a request holds: the rows of the source it has inspected, or, to
\* finalize or refresh a review, facts.
Holds(c) ==
    /\ session[c].version # 0 =>
        /\ session[c].does # "nothing"
        /\ session[c].does = "materialize" => session[c].locks = TR!Rows
    /\ session[c].does \in TR!JournalRequests => "Trade" \in session[c].locks
    /\ session[c].does \in TR!ReviewRequests => session[c].version # 0
    /\ session[c].does = "refresh" => session[c].read # {}
    /\ session[c].does = "finalize" /\ session[c].locks # {} => session[c].read # {}
\* What it has inspected is still so.
StillSo(c) ==
    session[c].version # 0 =>
        /\ session[c].does = "materialize" => session[c].read = {facts} /\ TR!Current(session[c].version)
        /\ session[c].does \in TR!JournalRequests => \A f \in session[c].read : f.exit = facts.exit
ReviewInv == ReviewTypes /\ \A c \in Clients : Holds(c) /\ StillSo(c)

\* No review yet.
LEMMA ReviewInit == ASSUME TR!ReviewAssumption PROVE TR!Init => ReviewInv
  <1> SUFFICES ASSUME TR!Init PROVE ReviewInv
    OBVIOUS
  <1>1. TR!Idle \in Sessions /\ TR!Idle.version = 0 /\ TR!Idle.does = "nothing"
    BY DEF TR!Idle, Sessions, TR!ReviewAssumption
  <1>2. session \in [Clients -> Sessions] /\ \A c \in Clients : session[c] = TR!Idle
    BY <1>1 DEF TR!Init
  <1>3. TR!Unwritten \in Reviews /\ TR!Unwritten.print = {} /\ TR!Unwritten.status = "none"
    BY DEF TR!Unwritten, Reviews
  <1>4. review \in [1..LastVersion -> Reviews] /\ \A v \in 1..LastVersion : review[v] = TR!Unwritten
    BY <1>3 DEF TR!Init
  <1>5. facts \in TR!Facts
    <2>1. PICK e \in Exits, s \in Series : e # "open" /\ s # "short"
      BY DEF TR!ReviewAssumption
    <2>2. [exit |-> e, series |-> s] \in TR!Facts
      BY DEF TR!Facts
    <2>3. \E f \in TR!Facts : f.exit # "open" /\ f.series # "short"
      BY <2>1, <2>2
    <2> QED BY <2>3 DEF TR!Init
  <1>6. journal \in [1..LastJournal -> [status : {"none", "DRAFT", "FINALIZED"}, source : 0..LastVersion, evident : BOOLEAN]]
    BY DEF TR!Init, TR!NoJournal, TR!ReviewAssumption
  <1>7. TR!TypeOK
    <2>1. \A v \in 1..LastVersion :
            /\ review[v].status \in {"none", "DRAFT", "FINALIZED"} /\ review[v].stale \in BOOLEAN
            /\ review[v].print \subseteq TR!Facts /\ (review[v].print # {} <=> review[v].status = "FINALIZED")
      BY <1>3, <1>4 DEF Reviews
    <2>2. \A c \in Clients : session[c] \in Sessions
      BY <1>2
    <2> QED BY <1>5, <1>6, <2>1, <2>2 DEF TR!TypeOK, TR!Init, Sessions
  <1>8. \A c \in Clients : Holds(c) /\ StillSo(c)
    BY <1>1, <1>2 DEF Holds, StillSo, TR!ReviewRequests, TR!JournalRequests
  <1> QED BY <1>2, <1>4, <1>7, <1>8 DEF ReviewInv, ReviewTypes

\* A request goes on, and no row changes that another one looks at.
LEMMA ReviewGoesOn ==
  ASSUME ReviewInv, NEW c \in Clients, NEW s \in Sessions, session' = [session EXCEPT ![c] = s],
         UNCHANGED <<facts, observation, review>>,
         evidence' \subseteq 1..LastVersion,
         journal' \in [1..LastJournal -> [status : {"none", "DRAFT", "FINALIZED"}, source : 0..LastVersion,
                                         evident : BOOLEAN]],
         session'[c] = s => Holds(c)' /\ StillSo(c)'
  PROVE  ReviewInv'
  <1>1. session' \in [Clients -> Sessions] /\ session'[c] = s /\ \A d \in Clients : d # c => session'[d] = session[d]
    BY DEF ReviewInv, ReviewTypes
  <1>2. \A v \in 1..LastVersion : TR!Current(v)' = TR!Current(v)
    BY DEF TR!Current, TR!Latest, TR!Written, TR!Complete
  <1>3. ASSUME NEW d \in Clients PROVE Holds(d)' /\ StillSo(d)'
    <2>1. CASE d = c
      BY <1>1, <2>1
    <2>2. CASE d # c
      <3>1. session'[d] = session[d] /\ session[d] \in Sessions /\ Holds(d) /\ StillSo(d)
        BY <1>1, <2>2 DEF ReviewInv, ReviewTypes
      <3>2. session[d].version # 0 => session[d].version \in 1..LastVersion
        BY <3>1 DEF Sessions
      <3>3. Holds(d)'
        BY <3>1 DEF Holds
      <3>4. StillSo(d)'
        BY <3>1, <3>2, <1>2 DEF StillSo
      <3> QED BY <3>3, <3>4
    <2> QED BY <2>1, <2>2
  <1>4. ReviewTypes'
    <2>1. \A d \in Clients : session'[d] \in Sessions
      BY <1>1
    <2> QED BY <1>1, <2>1 DEF ReviewInv, ReviewTypes, TR!TypeOK, Sessions
  <1> QED BY <1>3, <1>4 DEF ReviewInv

\* The facts, the observation or a review changes, which is no review that is
\* inspected by a request, and no request goes on but the one that changes it.
LEMMA ReviewChanges ==
  ASSUME ReviewInv, session' \in [Clients -> Sessions],
         \A d \in Clients : session'[d] = session[d] \/ session'[d] = TR!Idle,
         UNCHANGED <<evidence, journal>>,
         facts' \in TR!Facts, observation' \in {"none", "ACTIVE", "COMPLETED"}, review' \in [1..LastVersion -> Reviews],
         \A v \in 1..LastVersion : review'[v].print # {} <=> review'[v].status = "FINALIZED",
         \A d \in Clients : session[d].version # 0 /\ session[d].does \in TR!JournalRequests => facts'.exit = facts.exit,
         \A d \in Clients : session[d].version # 0 /\ session[d].does = "materialize" /\ session'[d] = session[d] =>
            facts' = facts /\ TR!Current(session[d].version)'
  PROVE  ReviewInv'
  <1>1. ASSUME NEW d \in Clients PROVE Holds(d)' /\ StillSo(d)'
    <2>1. CASE session'[d] = TR!Idle
      BY <2>1 DEF Holds, StillSo, TR!Idle, TR!ReviewRequests, TR!JournalRequests
    <2>2. CASE session'[d] = session[d]
      <3>1. Holds(d) /\ StillSo(d)
        BY DEF ReviewInv
      <3>2. Holds(d)'
        BY <2>2, <3>1 DEF Holds
      <3>3. StillSo(d)'
        BY <2>2, <3>1 DEF StillSo
      <3> QED BY <3>2, <3>3
    <2> QED BY <2>1, <2>2
  <1>2. TR!TypeOK'
    <2>1. \A d \in Clients : session'[d] \in Sessions
      OBVIOUS
    <2>2. \A v \in 1..LastVersion : review'[v] \in Reviews
      OBVIOUS
    <2> QED BY <2>1, <2>2 DEF ReviewInv, ReviewTypes, TR!TypeOK, Sessions, Reviews
  <1> QED BY <1>1, <1>2 DEF ReviewInv, ReviewTypes

\* Executions, prices and the observation.
LEMMA ReviewFacts ==
  ASSUME TR!ReviewAssumption, ReviewInv,
         \/ \E e \in Exits : TR!Correct(e)
         \/ \E p \in Series : TR!Refresh(p)
         \/ TR!Start \/ TR!CompleteObservation
  PROVE  ReviewInv'
  <1>0. /\ facts \in TR!Facts /\ observation \in {"none", "ACTIVE", "COMPLETED"} /\ review \in [1..LastVersion -> Reviews]
        /\ session \in [Clients -> Sessions]
        /\ \A v \in 1..LastVersion : review[v].print # {} <=> review[v].status = "FINALIZED"
    BY DEF ReviewInv, ReviewTypes, TR!TypeOK
  <1>1. /\ UNCHANGED <<review, evidence, journal, session>> /\ facts' \in TR!Facts
        /\ observation' \in {"none", "ACTIVE", "COMPLETED"}
    BY <1>0 DEF TR!Correct, TR!Refresh, TR!Start, TR!CompleteObservation, TR!Facts
  <1>2. ASSUME NEW d \in Clients, session[d].version # 0, session[d].does = "materialize"
        PROVE  facts' = facts /\ TR!Current(session[d].version)'
    <2>1. session[d].locks = TR!Rows /\ TR!Current(session[d].version)
      BY <1>2 DEF ReviewInv, Holds, StillSo
    <2>2. ~TR!Free({"Trade"}) /\ ~TR!Free({"Prices"})
      BY <2>1 DEF TR!Free, TR!Rows
    <2>3. observation = "COMPLETED"
      BY <2>1 DEF TR!Current
    <2> QED BY <2>2, <2>3 DEF TR!Correct, TR!Refresh, TR!Start, TR!CompleteObservation, TR!TradeLock
  <1>3. ASSUME NEW d \in Clients, session[d].version # 0, session[d].does \in TR!JournalRequests
        PROVE  facts'.exit = facts.exit
    <2>1. "Trade" \in session[d].locks
      BY <1>3 DEF ReviewInv, Holds
    <2>2. ~TR!Free({"Trade"})
      BY <2>1 DEF TR!Free
    <2>3. (\E p \in Series : TR!Refresh(p)) \/ facts' = facts
      BY <2>2 DEF TR!Correct, TR!Start, TR!CompleteObservation, TR!TradeLock
    <2> QED BY <1>0, <2>3 DEF TR!Refresh, TR!Facts
  <1> QED BY <1>0, <1>1, <1>2, <1>3, ReviewChanges

\* A version is begun, saved, finalized or marked as stale.
LEMMA ReviewWrites ==
  ASSUME TR!ReviewAssumption, ReviewInv, NEW c \in Clients,
         (\E v \in 1..LastVersion : TR!CreateDraft(v)) \/ TR!Replace(c)
  PROVE  ReviewInv'
  <1>0. /\ facts \in TR!Facts /\ observation \in {"none", "ACTIVE", "COMPLETED"} /\ review \in [1..LastVersion -> Reviews]
        /\ session \in [Clients -> Sessions]
        /\ \A v \in 1..LastVersion : review[v].print # {} <=> review[v].status = "FINALIZED"
    BY DEF ReviewInv, ReviewTypes, TR!TypeOK
  <1>1. TR!Free({"Review"}) /\ UNCHANGED <<facts, observation, evidence, journal>>
    BY DEF TR!CreateDraft, TR!Replace
  <1>2. \A d \in Clients : ~(session[d].version # 0 /\ session[d].does = "materialize")
    BY <1>1 DEF ReviewInv, Holds, TR!Free, TR!Rows
  <1>3. TR!Draft \in Reviews /\ TR!Draft.print = {} /\ TR!Draft.status # "FINALIZED"
    BY DEF TR!Draft, TR!Unwritten, Reviews
  <1>4. ASSUME NEW v \in 1..LastVersion, TR!CreateDraft(v) PROVE ReviewInv'
    <2>1. review' = [review EXCEPT ![v] = TR!Draft] /\ UNCHANGED session
      BY <1>4 DEF TR!CreateDraft
    <2>2. review' \in [1..LastVersion -> Reviews]
          /\ \A w \in 1..LastVersion : review'[w].print # {} <=> review'[w].status = "FINALIZED"
      BY <1>0, <1>3, <2>1
    <2> QED BY <1>0, <1>1, <1>2, <2>1, <2>2, ReviewChanges
  <1>5. CASE TR!Replace(c)
    <2> DEFINE s == session[c]
    <2>1. s.does \in TR!ReviewRequests /\ (s.does # "save" => s.locks = TR!TradeLock) /\ TR!Ends(c)
      BY <1>5 DEF TR!Replace
    <2>2. s \in Sessions /\ s.version \in 1..LastVersion
      BY <1>0, <2>1 DEF ReviewInv, Holds, Sessions
    <2>3. s.does # "save" => s.read # {} /\ s.read \in SUBSET TR!Facts
      BY <2>1, <2>2 DEF ReviewInv, Holds, TR!TradeLock, TR!ReviewRequests, Sessions
    <2>4. PICK stale \in {s.does = "refresh", review[s.version].stale \/ s.does = "refresh"} :
            review' = [review EXCEPT ![s.version] =
                IF s.does = "save" THEN TR!Draft ELSE [status |-> "FINALIZED", stale |-> stale, print |-> s.read]]
      BY <1>5 DEF TR!Replace
    <2>5. stale \in BOOLEAN
      OBVIOUS
    <2> DEFINE R == IF s.does = "save" THEN TR!Draft ELSE [status |-> "FINALIZED", stale |-> stale, print |-> s.read]
    <2>6. R \in Reviews /\ (R.print # {} <=> R.status = "FINALIZED")
      <3>1. CASE s.does = "save"
        BY <3>1, <1>3
      <3>2. CASE s.does # "save"
        BY <3>2, <2>3, <2>5 DEF Reviews
      <3> QED BY <3>1, <3>2
    <2>7. review' = [review EXCEPT ![s.version] = R]
      BY <2>4
    <2> HIDE DEF R
    <2>8. review' \in [1..LastVersion -> Reviews]
          /\ \A w \in 1..LastVersion : review'[w].print # {} <=> review'[w].status = "FINALIZED"
      BY <1>0, <2>2, <2>6, <2>7
    <2>9. session' \in [Clients -> Sessions] /\ \A d \in Clients : session'[d] = session[d] \/ session'[d] = TR!Idle
      <3>1. TR!Idle \in Sessions
        BY DEF TR!Idle, Sessions, TR!ReviewAssumption
      <3> QED BY <1>0, <2>1, <3>1 DEF TR!Ends
    <2> QED BY <1>0, <1>1, <1>2, <2>8, <2>9, ReviewChanges
  <1> QED BY <1>4, <1>5

\* The requests of the review, as they read.
LEMMA ReviewReads ==
  ASSUME TR!ReviewAssumption, ReviewInv, NEW c \in Clients,
         \/ \E d \in TR!ReviewRequests, v \in 1..LastVersion : TR!Read(c, d, v)
         \/ TR!ReadFacts(c)
  PROVE  ReviewInv'
  <1>0. /\ facts \in TR!Facts /\ review \in [1..LastVersion -> Reviews] /\ session[c] \in Sessions
        /\ evidence \subseteq 1..LastVersion
        /\ journal \in [1..LastJournal -> [status : {"none", "DRAFT", "FINALIZED"}, source : 0..LastVersion,
                                         evident : BOOLEAN]]
        /\ \A v \in 1..LastVersion : review[v].print # {} <=> review[v].status = "FINALIZED"
    BY DEF ReviewInv, ReviewTypes, TR!TypeOK
  <1>1. ASSUME NEW d \in TR!ReviewRequests, NEW v \in 1..LastVersion, TR!Read(c, d, v) PROVE ReviewInv'
    <2> DEFINE s == [does |-> d, version |-> v, read |-> review[v].print, locks |-> {}]
    <2>1. session' = [session EXCEPT ![c] = s] /\ UNCHANGED <<facts, observation, review, evidence, journal>>
      BY <1>1 DEF TR!Read, TR!Sets
    <2>2. d = "refresh" => review[v].print # {}
      BY <1>0, <1>1 DEF TR!Read
    <2>3. /\ s \in Sessions /\ s.does = d /\ s.version = v /\ s.locks = {} /\ s.read = review[v].print
      BY <1>0 DEF Sessions, Reviews
    <2> HIDE DEF s
    <2>4. session'[c] = s => Holds(c)' /\ StillSo(c)'
      BY <2>2, <2>3 DEF Holds, StillSo, TR!ReviewRequests, TR!JournalRequests
    <2> QED BY <1>0, <2>1, <2>3, <2>4, ReviewGoesOn
  <1>2. CASE TR!ReadFacts(c)
    <2> DEFINE p == session[c]
               s == [does |-> p.does, version |-> p.version, read |-> IF p.does = "finalize" THEN {facts} ELSE p.read,
                     locks |-> {"Trade"}]
    <2>1. session' = [session EXCEPT ![c] = s] /\ UNCHANGED <<facts, observation, review, evidence, journal>>
      BY <1>2 DEF TR!ReadFacts, TR!Sets, TR!TradeLock
    <2>2. p.does \in {"finalize", "refresh"}
      BY <1>2 DEF TR!ReadFacts
    <2>3. /\ p.version # 0 /\ (p.does = "refresh" => p.read # {})
          /\ s \in Sessions /\ s.does = p.does /\ s.version = p.version /\ s.locks = {"Trade"} /\ s.read # {}
      <3>1. Holds(c)
        BY DEF ReviewInv
      <3>2. p.version # 0 /\ (p.does = "refresh" => p.read # {})
        <4>1. p.does \in TR!ReviewRequests
          BY <2>2 DEF TR!ReviewRequests
        <4> QED BY <3>1, <4>1 DEF Holds
      <3>3. s.read # {} /\ s.read \in SUBSET TR!Facts
        BY <1>0, <2>2, <3>2 DEF Sessions
      <3> QED BY <1>0, <3>2, <3>3 DEF Sessions, TR!Rows
    <2> HIDE DEF s
    <2>4. session'[c] = s => Holds(c)' /\ StillSo(c)'
      BY <2>2, <2>3 DEF Holds, StillSo, TR!ReviewRequests, TR!JournalRequests
    <2> QED BY <1>0, <2>1, <2>3, <2>4, ReviewGoesOn
  <1> QED BY <1>1, <1>2

\* The materialization, and requests that end.
LEMMA ReviewMaterializes ==
  ASSUME TR!ReviewAssumption, ReviewInv, NEW c \in Clients,
         \/ TR!Materialize(c) \/ TR!Record(c) \/ TR!GiveUp(c)
         \/ \E r \in TR!Rows : TR!Lock(c, r)
         \/ \E v \in 1..LastVersion : TR!Inspect(c, v)
  PROVE  ReviewInv'
  <1>0. /\ facts \in TR!Facts /\ session[c] \in Sessions /\ evidence \subseteq 1..LastVersion
        /\ session \in [Clients -> Sessions]
        /\ journal \in [1..LastJournal -> [status : {"none", "DRAFT", "FINALIZED"}, source : 0..LastVersion,
                                         evident : BOOLEAN]]
    BY DEF ReviewInv, ReviewTypes, TR!TypeOK
  <1>1. CASE TR!Materialize(c)
    <2> DEFINE s == [does |-> "materialize", version |-> 0, read |-> {}, locks |-> {}]
    <2>1. session' = [session EXCEPT ![c] = s] /\ UNCHANGED <<facts, observation, review, evidence, journal>>
      BY <1>1 DEF TR!Materialize, TR!Sets
    <2>2. s \in Sessions /\ s.does = "materialize" /\ s.version = 0
      BY DEF Sessions, TR!ReviewAssumption
    <2> HIDE DEF s
    <2>3. session'[c] = s => Holds(c)' /\ StillSo(c)'
      BY <2>2 DEF Holds, StillSo, TR!ReviewRequests, TR!JournalRequests
    <2> QED BY <1>0, <2>1, <2>2, <2>3, ReviewGoesOn
  <1>2. CASE TR!Record(c) \/ TR!GiveUp(c)
    <2>1. session' = [session EXCEPT ![c] = TR!Idle] /\ UNCHANGED <<facts, observation, review, journal>>
      BY <1>2 DEF TR!Record, TR!GiveUp, TR!Ends
    <2>2. TR!Idle \in Sessions /\ TR!Idle.does = "nothing" /\ TR!Idle.version = 0
      BY DEF TR!Idle, Sessions, TR!ReviewAssumption
    <2>3. session'[c] = TR!Idle => Holds(c)' /\ StillSo(c)'
      BY <2>2 DEF Holds, StillSo, TR!ReviewRequests, TR!JournalRequests
    <2>4. evidence' \subseteq 1..LastVersion
      <3>1. session[c].version # 0 => session[c].version \in 1..LastVersion
        BY <1>0 DEF Sessions, TR!ReviewAssumption
      <3>2. evidence' \subseteq evidence \cup {session[c].version} /\ (session[c].version = 0 => evidence' = evidence)
        BY <1>2 DEF TR!Record, TR!GiveUp
      <3> QED BY <1>0, <3>1, <3>2
    <2> QED BY <1>0, <2>1, <2>2, <2>3, <2>4, ReviewGoesOn
  <1>3. ASSUME NEW r \in TR!Rows, TR!Lock(c, r) PROVE ReviewInv'
    <2> DEFINE s == [session[c] EXCEPT !.locks = @ \cup {r}]
    <2>1. /\ session' = [session EXCEPT ![c] = s] /\ UNCHANGED <<facts, observation, review, evidence, journal>>
          /\ session[c].does = "materialize" /\ r \notin session[c].locks
      BY <1>3 DEF TR!Lock, TR!Guarded
    <2>2. session[c].version = 0
      BY <2>1 DEF ReviewInv, Holds
    <2>3. s \in Sessions /\ s.does = "materialize" /\ s.version = 0
      BY <1>0, <2>1, <2>2 DEF Sessions
    <2> HIDE DEF s
    <2>4. session'[c] = s => Holds(c)' /\ StillSo(c)'
      BY <2>3 DEF Holds, StillSo, TR!ReviewRequests, TR!JournalRequests
    <2> QED BY <1>0, <2>1, <2>3, <2>4, ReviewGoesOn
  <1>4. ASSUME NEW v \in 1..LastVersion, TR!Inspect(c, v) PROVE ReviewInv'
    <2> DEFINE s == [does |-> "materialize", version |-> v, read |-> {facts}, locks |-> TR!Rows]
    <2>1. /\ session' = [session EXCEPT ![c] = s] /\ UNCHANGED <<facts, observation, review, evidence, journal>>
          /\ TR!Current(v)
      BY <1>4 DEF TR!Inspect, TR!Guarded, TR!Sets
    <2>2. /\ s \in Sessions /\ s.does = "materialize" /\ s.version = v /\ s.read = {facts} /\ s.locks = TR!Rows
      BY <1>0 DEF Sessions
    <2> HIDE DEF s
    <2>3. TR!Current(v)'
      BY <2>1 DEF TR!Current, TR!Latest, TR!Written, TR!Complete
    <2>4. session'[c] = s => Holds(c)' /\ StillSo(c)'
      BY <2>1, <2>2, <2>3 DEF Holds, StillSo, TR!ReviewRequests, TR!JournalRequests
    <2> QED BY <1>0, <2>1, <2>2, <2>4, ReviewGoesOn
  <1> QED BY <1>1, <1>2, <1>3, <1>4

\* The journal.
LEMMA ReviewJournals ==
  ASSUME TR!ReviewAssumption, ReviewInv, NEW c \in Clients,
         \/ \E d \in TR!JournalRequests : TR!BeginJournal(c, d)
         \/ \E v \in 1..LastVersion : TR!RequireSource(c, v)
         \/ \E j \in 1..LastJournal : TR!Apply(c, j)
  PROVE  ReviewInv'
  <1> DEFINE Journals == [status : {"none", "DRAFT", "FINALIZED"}, source : 0..LastVersion, evident : BOOLEAN]
  <1>0. /\ facts \in TR!Facts /\ session[c] \in Sessions /\ evidence \subseteq 1..LastVersion
        /\ session \in [Clients -> Sessions] /\ journal \in [1..LastJournal -> Journals]
    BY DEF ReviewInv, ReviewTypes, TR!TypeOK
  <1>1. ASSUME NEW d \in TR!JournalRequests, TR!BeginJournal(c, d) PROVE ReviewInv'
    <2> DEFINE s == [does |-> d, version |-> 0, read |-> {}, locks |-> {"Trade"}]
    <2>1. session' = [session EXCEPT ![c] = s] /\ UNCHANGED <<facts, observation, review, evidence, journal>>
      BY <1>1 DEF TR!BeginJournal, TR!Sets, TR!JournalLocks, TR!TradeLock
    <2>2. s \in Sessions /\ s.does = d /\ s.version = 0 /\ s.locks = {"Trade"}
      BY DEF Sessions, TR!ReviewAssumption, TR!Rows
    <2> HIDE DEF s
    <2>3. session'[c] = s => Holds(c)' /\ StillSo(c)'
      BY <2>2 DEF Holds, StillSo, TR!ReviewRequests, TR!JournalRequests
    <2> QED BY <1>0, <2>1, <2>2, <2>3, ReviewGoesOn
  <1>2. ASSUME NEW v \in 1..LastVersion, TR!RequireSource(c, v) PROVE ReviewInv'
    <2> DEFINE s == [does |-> session[c].does, version |-> v, read |-> {facts}, locks |-> session[c].locks]
    <2>1. /\ session' = [session EXCEPT ![c] = s] /\ UNCHANGED <<facts, observation, review, evidence, journal>>
          /\ session[c].does \in TR!JournalRequests /\ session[c].version = 0
      BY <1>2 DEF TR!RequireSource, TR!Sets
    <2>2. /\ s \in Sessions /\ s.does = session[c].does /\ s.version = v /\ s.read = {facts}
          /\ s.locks = session[c].locks
      BY <1>0 DEF Sessions
    <2>3. "Trade" \in session[c].locks
      BY <2>1 DEF ReviewInv, Holds
    <2> HIDE DEF s
    <2>4. session'[c] = s => Holds(c)' /\ StillSo(c)'
      BY <2>1, <2>2, <2>3 DEF Holds, StillSo, TR!ReviewRequests, TR!JournalRequests
    <2> QED BY <1>0, <2>1, <2>2, <2>4, ReviewGoesOn
  <1>3. ASSUME NEW j \in 1..LastJournal, TR!Apply(c, j) PROVE ReviewInv'
    <2>1. session' = [session EXCEPT ![c] = TR!Idle] /\ UNCHANGED <<facts, observation, review, evidence>>
      BY <1>3 DEF TR!Apply, TR!Ends
    <2>2. TR!Idle \in Sessions /\ TR!Idle.does = "nothing" /\ TR!Idle.version = 0
      BY DEF TR!Idle, Sessions, TR!ReviewAssumption
    <2>3. session'[c] = TR!Idle => Holds(c)' /\ StillSo(c)'
      BY <2>2 DEF Holds, StillSo, TR!ReviewRequests, TR!JournalRequests
    <2>4. session[c].version \in 0..LastVersion
      BY <1>0 DEF Sessions
    <2>5. journal' \in [1..LastJournal -> Journals]
      <3> DEFINE v == session[c].version
      <3>1. \/ journal' = [journal EXCEPT ![j] = [TR!NoJournal EXCEPT !.status = "DRAFT", !.source = v]]
            \/ journal' = [journal EXCEPT ![j].source = v]
            \/ journal' = [journal EXCEPT ![j].status = "FINALIZED"]
        BY <1>3 DEF TR!Apply
      <3> HIDE DEF v
      <3>2. v \in 0..LastVersion
        BY <2>4 DEF v
      <3>3. [TR!NoJournal EXCEPT !.status = "DRAFT", !.source = v] \in Journals
        BY <3>2 DEF TR!NoJournal
      <3>4. [journal[j] EXCEPT !.source = v] \in Journals /\ [journal[j] EXCEPT !.status = "FINALIZED"] \in Journals
        BY <1>0, <3>2
      <3> HIDE DEF Journals
      <3> QED BY <1>0, <3>1, <3>3, <3>4
    <2> QED BY <1>0, <2>1, <2>2, <2>3, <2>5, ReviewGoesOn
  <1> QED BY <1>1, <1>2, <1>3

\* Every step is of one of the groups above.
LEMMA ReviewNext == ASSUME TR!ReviewAssumption, ReviewInv, [TR!Next]_(TR!reviewVars) PROVE ReviewInv'
  <1>1. CASE UNCHANGED TR!reviewVars
    <2>1. UNCHANGED <<facts, observation, review, evidence, journal, session>>
      BY <1>1 DEF TR!reviewVars
    <2>2. \A v \in 1..LastVersion : TR!Current(v)' = TR!Current(v)
      BY <2>1 DEF TR!Current, TR!Latest, TR!Written, TR!Complete
    <2>3. ReviewTypes'
      BY <2>1 DEF ReviewInv, ReviewTypes, TR!TypeOK
    <2>4. ASSUME NEW c \in Clients PROVE Holds(c)' /\ StillSo(c)'
      <3>1. Holds(c) /\ StillSo(c) /\ (session[c].version # 0 => session[c].version \in 1..LastVersion)
        BY DEF ReviewInv, ReviewTypes, Sessions
      <3> QED BY <2>1, <2>2, <3>1 DEF Holds, StillSo
    <2> QED BY <2>3, <2>4 DEF ReviewInv
  <1>2. ASSUME NEW j \in 1..LastJournal, TR!JournalEvidence(j) PROVE ReviewInv'
    <2> DEFINE Journals == [status : {"none", "DRAFT", "FINALIZED"}, source : 0..LastVersion, evident : BOOLEAN]
    <2>1. journal' \in [1..LastJournal -> Journals] /\ UNCHANGED <<facts, observation, review, evidence, session>>
      BY <1>2 DEF TR!JournalEvidence, ReviewInv, ReviewTypes, TR!TypeOK
    <2>2. \A v \in 1..LastVersion : TR!Current(v)' = TR!Current(v)
      BY <2>1 DEF TR!Current, TR!Latest, TR!Written, TR!Complete
    <2>3. ReviewTypes'
      BY <2>1 DEF ReviewInv, ReviewTypes, TR!TypeOK
    <2>4. ASSUME NEW c \in Clients PROVE Holds(c)' /\ StillSo(c)'
      <3>1. Holds(c) /\ StillSo(c) /\ (session[c].version # 0 => session[c].version \in 1..LastVersion)
        BY DEF ReviewInv, ReviewTypes, Sessions
      <3> QED BY <2>1, <2>2, <3>1 DEF Holds, StillSo
    <2> QED BY <2>3, <2>4 DEF ReviewInv
  <1>3. ASSUME (\E e \in Exits : TR!Correct(e)) \/ (\E p \in Series : TR!Refresh(p)) \/ TR!Start \/ TR!CompleteObservation
        PROVE  ReviewInv'
    BY <1>3, ReviewFacts
  <1>4. ASSUME NEW v \in 1..LastVersion, TR!CreateDraft(v) PROVE ReviewInv'
    <2>1. CASE Clients = {}
      <3>1. /\ review' = [review EXCEPT ![v] = TR!Draft] /\ UNCHANGED <<facts, observation, evidence, journal, session>>
        BY <1>4 DEF TR!CreateDraft
      <3>2. TR!Draft \in Reviews /\ TR!Draft.print = {} /\ TR!Draft.status # "FINALIZED"
        BY DEF TR!Draft, TR!Unwritten, Reviews
      <3>3. /\ review' \in [1..LastVersion -> Reviews]
            /\ \A w \in 1..LastVersion : review'[w].print # {} <=> review'[w].status = "FINALIZED"
        BY <3>1, <3>2 DEF ReviewInv, ReviewTypes, TR!TypeOK
      <3> QED BY <2>1, <3>1, <3>3, ReviewChanges DEF ReviewInv, ReviewTypes, TR!TypeOK
    <2>2. CASE Clients # {}
      BY <1>4, <2>2, ReviewWrites
    <2> QED BY <2>1, <2>2
  <1>5. ASSUME NEW c \in Clients, TR!Replace(c) PROVE ReviewInv'
    BY <1>5, ReviewWrites
  <1>6. ASSUME NEW c \in Clients,
               (\E d \in TR!ReviewRequests, v \in 1..LastVersion : TR!Read(c, d, v)) \/ TR!ReadFacts(c)
        PROVE ReviewInv'
    BY <1>6, ReviewReads
  <1>7. ASSUME NEW c \in Clients,
               \/ TR!Materialize(c) \/ TR!Record(c) \/ TR!GiveUp(c)
               \/ \E r \in TR!Rows : TR!Lock(c, r)
               \/ \E v \in 1..LastVersion : TR!Inspect(c, v)
        PROVE ReviewInv'
    BY <1>7, ReviewMaterializes
  <1>8. ASSUME NEW c \in Clients,
               \/ \E d \in TR!JournalRequests : TR!BeginJournal(c, d)
               \/ \E v \in 1..LastVersion : TR!RequireSource(c, v)
               \/ \E j \in 1..LastJournal : TR!Apply(c, j)
        PROVE ReviewInv'
    BY <1>8, ReviewJournals
  <1> QED BY <1>1, <1>2, <1>3, <1>4, <1>5, <1>6, <1>7, <1>8 DEF TR!Next

\* The invariant implies what is promised.
LEMMA ReviewInvSuffices == ReviewInv => TR!TypeOK /\ TR!SourceHoldsStill
  BY DEF ReviewInv, ReviewTypes, TR!SourceHoldsStill, StillSo

\* A materialization commits what its guard has inspected: neither executions and prices
\* nor the review change before it ends, and a journal refers to a current review when it is written.
THEOREM MaterializedSourceHolds == ASSUME TR!ReviewAssumption PROVE TR!Spec => [](TR!TypeOK /\ TR!SourceHoldsStill)
  BY ReviewInit, ReviewNext, ReviewInvSuffices, PTL DEF TR!Spec

-----------------------------------------------------------------------------
(* Links to trades. *)

Works == [does : TL!Commands \cup {"nothing"}, link : Links \cup {0}, trade : Trades \cup {0},
          key : LinkKeys \cup {"none"}, linked : BOOLEAN, locks : SUBSET TL!Rows]
LinkTypes ==
    /\ TL!TypeOK
    /\ work \in [Clients -> Works]
    /\ trade[First] # "none"
    /\ \A l \in Links : link[l].version = 0 => link[l] = TL!NoLink

\* A row is locked by one request.
LinkLocks == \A c, d \in Clients : \A r \in work[c].locks : r \in work[d].locks => c = d

\* What a request has locked.
Locked(c) ==
    /\ work[c].does = "create" => TL!Observation \in work[c].locks
    /\ work[c].link # 0 =>
        work[c].does \in {"correct_target", "reactivate"} /\ <<"link", work[c].link>> \in work[c].locks
    /\ work[c].does \in {"correct_target", "reactivate"} => work[c].link # 0
    /\ work[c].does = "execute" => work[c].key \in LinkKeys /\ <<"key", work[c].key>> \in work[c].locks
    /\ work[c].trade # 0 =>
        /\ work[c].does # "nothing"
        /\ TL!Observation \in work[c].locks /\ <<"trade", work[c].trade>> \in work[c].locks
    /\ work[c].linked => work[c].does = "execute" /\ work[c].trade # 0
    /\ \A t \in Trades : <<"trade", t>> \in work[c].locks => t = work[c].trade

\* What a request has found is still so when it commits.
FoundIsSo(c) ==
    /\ work[c].does = "execute" => receipt[work[c].key] = TL!NoReceipt
    /\ work[c].link # 0 => link[work[c].link].version \in 1..LastLinked - 1
    /\ work[c].trade # 0 /\ work[c].does # "execute" =>
        trade[work[c].trade] \in {"open", "closed"} /\ ~TL!PairExists(work[c].trade, work[c].link)
    /\ work[c].trade # 0 /\ work[c].does = "execute" => trade[work[c].trade] = "none"
    /\ work[c].linked => ~TL!PairExists(work[c].trade, 0)

LinksInv ==
    /\ LinkTypes /\ LinkLocks
    /\ \A c \in Clients : Locked(c) /\ FoundIsSo(c)
    /\ TL!OneActivePair /\ TL!LinkedTradeStands /\ TL!ExecutedOnce

\* What is locked are rows.
LEMMA LinkRows ==
    /\ TL!Observation \in TL!Rows
    /\ \A l \in Links : <<"link", l>> \in TL!Rows
    /\ \A t \in Trades : <<"trade", t>> \in TL!Rows
    /\ \A k \in LinkKeys : <<"key", k>> \in TL!Rows
  BY DEF TL!Rows, TL!Observation

\* Nothing is linked.
LEMMA LinksInit == ASSUME TL!LinksAssumption PROVE TL!Init => LinksInv
  <1> SUFFICES ASSUME TL!Init PROVE LinksInv
    OBVIOUS
  <1>1. \A c \in Clients : work[c] = TL!Idle
    BY DEF TL!Init
  <1> USE DEF TL!LinksAssumption, TL!Init, TL!Idle, TL!NoLink, TL!NoReceipt
  <1>2. LinkTypes
    <2>1. TL!Idle \in Works
      BY DEF Works, TL!Commands
    <2>2. work \in [Clients -> Works]
      BY <1>1, <2>1
    <2>3. \A c \in Clients : work[c] \in Works
      BY <1>1, <2>1
    <2>4. trade \in [Trades -> {"none", "open", "closed", "cancelled"}]
      OBVIOUS
    <2>5. link \in [Links -> [version : 0..LastLinked, status : {"none", "ACTIVE", "RETRACTED"}, trade : Trades \cup {0}]]
      OBVIOUS
    <2>6. TL!TypeOK
      BY <2>3, <2>4, <2>5 DEF TL!TypeOK, Works
    <2> QED BY <2>2, <2>6 DEF LinkTypes
  <1>3. \A c \in Clients : Locked(c) /\ FoundIsSo(c)
    BY <1>1 DEF Locked, FoundIsSo
  <1>4. LinkLocks
    BY <1>1 DEF LinkLocks
  <1>5. TL!OneActivePair /\ TL!LinkedTradeStands
    BY DEF TL!OneActivePair, TL!LinkedTradeStands
  <1>6. TL!ExecutedOnce
    BY DEF TL!ExecutedOnce
  <1> QED BY <1>2, <1>3, <1>4, <1>5, <1>6 DEF LinksInv

\* A request that goes on leaves the others as they are.
LEMMA LinksOthers ==
  ASSUME work \in [Clients -> Works], NEW c \in Clients, NEW w \in Works, TL!Sets(c, w)
  PROVE  /\ work' \in [Clients -> Works] /\ work'[c] = w
         /\ \A d \in Clients : d # c => work'[d] = work[d]
  BY DEF TL!Sets

\* It locks one row more, which is free, or it lets go of its rows.
LEMMA LinkLocksGrow ==
  ASSUME LinkLocks, NEW c \in Clients,
         \A r \in work'[c].locks : r \notin work[c].locks => \A d \in Clients : d # c => r \notin work[d].locks,
         \A d \in Clients : d # c => work'[d] = work[d]
  PROVE  LinkLocks'
  <1> SUFFICES ASSUME NEW d \in Clients, NEW e \in Clients, NEW x \in work'[d].locks, x \in work'[e].locks
               PROVE  d = e
    BY DEF LinkLocks
  <1>1. CASE d = c /\ e = c
    BY <1>1
  <1>2. CASE d = c /\ e # c
    BY <1>2 DEF LinkLocks
  <1>3. CASE d # c /\ e = c
    BY <1>3 DEF LinkLocks
  <1>4. CASE d # c /\ e # c
    BY <1>4 DEF LinkLocks
  <1> QED BY <1>1, <1>2, <1>3, <1>4

\* A request that has found a trade is alone with the observation.
LEMMA LinksAlone ==
  ASSUME LinksInv, NEW c \in Clients, TL!Observation \in work[c].locks
  PROVE  \A d \in Clients : d # c => work[d].trade = 0 /\ ~work[d].linked
  BY DEF LinksInv, LinkLocks, Locked

\* What a request that stays has locked and found, when another one goes on that
\* changes no row.
LEMMA LinksStay ==
  ASSUME NEW d \in Clients, Locked(d), FoundIsSo(d), work'[d] = work[d], UNCHANGED <<trade, link, receipt>>
  PROVE  Locked(d)' /\ FoundIsSo(d)'
  BY DEF Locked, FoundIsSo, TL!PairExists

\* A step of one request that changes no row of the database.
LEMMA LinksWork ==
  ASSUME TL!LinksAssumption, LinksInv, NEW c \in Clients, NEW w \in Works, TL!Sets(c, w),
         UNCHANGED <<trade, link, referenced, receipt>>,
         \A r \in w.locks : r \notin work[c].locks => \A d \in Clients : d # c => r \notin work[d].locks,
         work'[c] = w => Locked(c)' /\ FoundIsSo(c)'
  PROVE  LinksInv'
  <1>1. /\ work' \in [Clients -> Works] /\ work'[c] = w
        /\ \A d \in Clients : d # c => work'[d] = work[d]
    BY LinksOthers DEF LinksInv, LinkTypes
  <1>2. LinkTypes'
    BY <1>1 DEF LinksInv, LinkTypes, TL!TypeOK, Works
  <1>3. LinkLocks'
    BY <1>1, LinkLocksGrow DEF LinksInv
  <1>4. \A d \in Clients : Locked(d)' /\ FoundIsSo(d)'
    BY <1>1, LinksStay DEF LinksInv
  <1>5. TL!OneActivePair' /\ TL!LinkedTradeStands' /\ TL!ExecutedOnce'
    BY DEF LinksInv, TL!OneActivePair, TL!LinkedTradeStands, TL!ExecutedOnce
  <1> QED BY <1>2, <1>3, <1>4, <1>5 DEF LinksInv

\* A request locks its rows.
LEMMA LinkBegins ==
  ASSUME TL!LinksAssumption, LinksInv, NEW c \in Clients,
         \/ TL!Create(c)
         \/ \E k \in LinkKeys : TL!Execute(c, k)
         \/ \E l \in Links, does \in {"correct_target", "reactivate"} : TL!Change(c, does, l)
  PROVE  LinksInv'
  <1> USE DEF TL!LinksAssumption
  <1>0. work[c] \in Works
    BY DEF LinksInv, LinkTypes
  <1>1. CASE TL!Create(c)
    <2> DEFINE w == [TL!Idle EXCEPT !.does = "create", !.locks = {TL!Observation}]
    <2>1. w \in Works /\ w.locks = {TL!Observation} /\ w.does = "create" /\ w.link = 0 /\ w.trade = 0 /\ ~w.linked
      BY LinkRows DEF Works, TL!Commands, TL!Rows, TL!Idle, TL!Observation
    <2>2. TL!Sets(c, w) /\ UNCHANGED <<trade, link, referenced, receipt>>
          /\ \A d \in Clients : TL!Observation \notin work[d].locks
      BY <1>1 DEF TL!Create, TL!Free
    <2>3. work'[c] = w => Locked(c)' /\ FoundIsSo(c)'
      BY <2>1 DEF Locked, FoundIsSo, TL!Observation
    <2> HIDE DEF w
    <2> QED BY <2>1, <2>2, <2>3, LinksWork
  <1>2. ASSUME NEW k \in LinkKeys, TL!Execute(c, k) PROVE LinksInv'
    <2> DEFINE w == [TL!Idle EXCEPT !.does = "execute", !.key = k, !.locks = {<<"key", k>>}]
    <2>1. w \in Works /\ w.locks = {<<"key", k>>} /\ w.does = "execute" /\ w.key = k /\ w.link = 0 /\ w.trade = 0 /\ ~w.linked
      BY LinkRows DEF Works, TL!Commands, TL!Idle
    <2>2. TL!Sets(c, w) /\ UNCHANGED <<trade, link, referenced, receipt>> /\ receipt[k] = TL!NoReceipt
          /\ \A d \in Clients : <<"key", k>> \notin work[d].locks
      BY <1>2 DEF TL!Execute, TL!Free
    <2>3. work'[c] = w => Locked(c)' /\ FoundIsSo(c)'
      BY <2>1, <2>2 DEF Locked, FoundIsSo
    <2> HIDE DEF w
    <2> QED BY <2>1, <2>2, <2>3, LinksWork
  <1>3. ASSUME NEW l \in Links, NEW does \in {"correct_target", "reactivate"}, TL!Change(c, does, l) PROVE LinksInv'
    <2> DEFINE w == [TL!Idle EXCEPT !.does = does, !.link = l, !.locks = {<<"link", l>>}]
    <2>1. w \in Works /\ w.locks = {<<"link", l>>} /\ w.does = does /\ w.link = l /\ w.trade = 0 /\ ~w.linked
      BY LinkRows DEF Works, TL!Commands, TL!Idle
    <2>2. TL!Sets(c, w) /\ UNCHANGED <<trade, link, referenced, receipt>> /\ link[l].version \in 1..LastLinked - 1
          /\ \A d \in Clients : <<"link", l>> \notin work[d].locks
      BY <1>3 DEF TL!Change, TL!Free
    <2>3. work'[c] = w => Locked(c)' /\ FoundIsSo(c)'
      BY <2>1, <2>2 DEF Locked, FoundIsSo
    <2> HIDE DEF w
    <2> QED BY <2>1, <2>2, <2>3, LinksWork
  <1> QED BY <1>1, <1>2, <1>3

\* It looks for the link, the trade and the receipt.
LEMMA LinkGoesOn ==
  ASSUME TL!LinksAssumption, LinksInv, NEW c \in Clients,
         \/ TL!LockObservation(c) \/ TL!CreateLink(c) \/ TL!GiveUp(c)
         \/ \E t \in Trades : TL!Validate(c, t) \/ TL!CreateTrade(c, t)
  PROVE  LinksInv'
  <1> USE DEF TL!LinksAssumption
  <1>0. work[c] \in Works /\ Locked(c) /\ FoundIsSo(c)
    BY DEF LinksInv, LinkTypes
  <1>1. CASE TL!LockObservation(c)
    <2> DEFINE w == [work[c] EXCEPT !.locks = @ \cup {TL!Observation}]
    <2>1. /\ w \in Works /\ w.locks = work[c].locks \cup {TL!Observation} /\ w.does = work[c].does /\ w.key = work[c].key
          /\ w.link = work[c].link /\ w.trade = work[c].trade /\ w.linked = work[c].linked
      BY <1>0, LinkRows DEF Works, TL!Observation
    <2>2. TL!Sets(c, w) /\ UNCHANGED <<trade, link, referenced, receipt>>
          /\ \A d \in Clients : TL!Observation \notin work[d].locks
      BY <1>1 DEF TL!LockObservation, TL!Free, TL!Locks
    <2>3. work'[c] = w => Locked(c)' /\ FoundIsSo(c)'
      BY <2>1, <2>2, <1>0 DEF Locked, FoundIsSo, TL!PairExists, TL!Observation
    <2> HIDE DEF w
    <2> QED BY <2>1, <2>2, <2>3, LinksWork
  <1>2. CASE TL!CreateLink(c)
    <2> DEFINE w == [work[c] EXCEPT !.linked = TRUE]
    <2>1. /\ w \in Works /\ w.locks = work[c].locks /\ w.does = work[c].does /\ w.key = work[c].key
          /\ w.link = work[c].link /\ w.trade = work[c].trade /\ w.linked = TRUE
      BY <1>0, LinkRows DEF Works
    <2>2. /\ TL!Sets(c, w) /\ UNCHANGED <<trade, link, referenced, receipt>>
          /\ work[c].does = "execute" /\ work[c].trade # 0 /\ ~TL!PairExists(work[c].trade, 0)
      BY <1>2 DEF TL!CreateLink, TL!Linking
    <2>3. work'[c] = w => Locked(c)' /\ FoundIsSo(c)'
      BY <2>1, <2>2, <1>0 DEF Locked, FoundIsSo, TL!PairExists
    <2> HIDE DEF w
    <2> QED BY <2>1, <2>2, <2>3, LinksWork
  <1>3. CASE TL!GiveUp(c)
    <2>1. TL!Idle \in Works /\ TL!Idle.locks = {} /\ TL!Idle.does = "nothing" /\ TL!Idle.link = 0 /\ TL!Idle.trade = 0 /\ ~TL!Idle.linked
      BY LinkRows DEF Works, TL!Commands, TL!Idle
    <2>2. TL!Sets(c, TL!Idle) /\ UNCHANGED <<trade, link, referenced, receipt>>
      BY <1>3 DEF TL!GiveUp
    <2>3. work'[c] = TL!Idle => Locked(c)' /\ FoundIsSo(c)'
      BY <2>1 DEF Locked, FoundIsSo
    <2> QED BY <2>1, <2>2, <2>3, LinksWork
  <1>4. ASSUME NEW t \in Trades, TL!Validate(c, t) PROVE LinksInv'
    <2> DEFINE w == [work[c] EXCEPT !.trade = t, !.locks = @ \cup {TL!TradeLock(t)}]
    <2>1. /\ w \in Works /\ w.locks = work[c].locks \cup {TL!TradeLock(t)} /\ w.does = work[c].does /\ w.key = work[c].key
          /\ w.link = work[c].link /\ w.trade = t /\ w.linked = work[c].linked
      BY <1>0, LinkRows DEF Works, TL!TradeLock
    <2>2. /\ TL!Sets(c, w) /\ UNCHANGED <<trade, link, referenced, receipt>>
          /\ \A d \in Clients : TL!TradeLock(t) \notin work[d].locks
          /\ TL!Observation \in work[c].locks /\ work[c].does \notin {"nothing", "execute"}
          /\ trade[t] \in {"open", "closed"} /\ ~TL!PairExists(t, work[c].link) /\ work[c].trade = 0
      BY <1>4 DEF TL!Validate, TL!Free, TL!Holds
    <2>3. work'[c] = w => Locked(c)' /\ FoundIsSo(c)'
      BY <2>1, <2>2, <1>0 DEF Locked, FoundIsSo, TL!PairExists, TL!TradeLock
    <2> HIDE DEF w
    <2> QED BY SMTT(30), <2>1, <2>2, <2>3, LinksWork
  <1>5. ASSUME NEW t \in Trades, TL!CreateTrade(c, t) PROVE LinksInv'
    <2> DEFINE w == [work[c] EXCEPT !.trade = t, !.locks = @ \cup {<<"trade", t>>}]
    <2>1. /\ w \in Works /\ w.locks = work[c].locks \cup {<<"trade", t>>} /\ w.does = work[c].does /\ w.key = work[c].key
          /\ w.link = work[c].link /\ w.trade = t /\ w.linked = work[c].linked
      BY <1>0, LinkRows DEF Works
    <2>2. /\ TL!Sets(c, w) /\ UNCHANGED <<trade, link, referenced, receipt>>
          /\ TL!Observation \in work[c].locks /\ work[c].does = "execute"
          /\ trade[t] = "none" /\ work[c].trade = 0
      BY <1>5 DEF TL!CreateTrade, TL!Holds
    <2>3. work'[c] = w => Locked(c)' /\ FoundIsSo(c)'
      BY <2>1, <2>2, <1>0 DEF Locked, FoundIsSo, TL!PairExists
    <2>4. \A d \in Clients : d # c => <<"trade", t>> \notin work[d].locks
      BY ZenonT(30), <2>2, LinksAlone DEF LinksInv, Locked
    <2> HIDE DEF w
    <2> QED BY <2>1, <2>2, <2>3, <2>4, LinksWork
  <1> QED BY <1>1, <1>2, <1>3, <1>4, <1>5
\* A request that commits a link: the observation is its own.
LEMMA LinkCommits ==
  ASSUME TL!LinksAssumption, LinksInv, NEW c \in Clients, NEW l \in Links, TL!Commit(c, l) \/ TL!Succeed(c, l)
  PROVE  LinksInv'
  <1> DEFINE t == work[c].trade
  <1> USE DEF TL!LinksAssumption
  <1>1. /\ work[c] \in Works /\ Locked(c) /\ FoundIsSo(c)
        /\ link \in [Links -> [version : 0..LastLinked, status : {"none", "ACTIVE", "RETRACTED"}, trade : Trades \cup {0}]]
    BY DEF LinksInv, LinkTypes, TL!TypeOK
  <1>2. TL!Sets(c, TL!Idle) /\ TL!LinksTo(c, l)
    BY DEF TL!Commit, TL!Succeed
  <1>3. TL!Idle \in Works /\ TL!Idle.locks = {} /\ TL!Idle.does = "nothing" /\ TL!Idle.link = 0 /\ TL!Idle.trade = 0 /\ ~TL!Idle.linked
    BY DEF Works, TL!Commands, TL!Idle
  <1>4. /\ work' \in [Clients -> Works] /\ work'[c] = TL!Idle
        /\ \A d \in Clients : d # c => work'[d] = work[d]
    BY <1>2, <1>3, LinksOthers DEF LinksInv, LinkTypes
  <1>5. t \in Trades /\ work[c].does # "nothing" /\ TL!Observation \in work[c].locks
    BY <1>1 DEF TL!Commit, TL!Succeed, Locked, Works
  <1>6. /\ \A d \in Clients : d # c => work[d].trade = 0 /\ ~work[d].linked
    BY <1>5, LinksAlone
  <1>7. /\ link' \in [Links -> [version : 0..LastLinked, status : {"none", "ACTIVE", "RETRACTED"}, trade : Trades \cup {0}]]
        /\ link'[l].version \in 1..LastLinked /\ link'[l].trade = t /\ link'[l].status = "ACTIVE"
        /\ \A m \in Links : m # l => link'[m] = link[m]
        /\ referenced' = referenced \cup {t}
    <2>1. link[l].version + 1 \in 1..LastLinked
      BY <1>1, <1>2 DEF TL!LinksTo, TL!NoLink, FoundIsSo
    <2>2. link' = [link EXCEPT ![l] = [version |-> link[l].version + 1, status |-> "ACTIVE", trade |-> t]]
          /\ referenced' = referenced \cup {t}
      BY <1>2 DEF TL!LinksTo
    <2> QED BY <1>1, <1>5, <2>1, <2>2
  <1>8. \A m \in Links : m # l /\ link[m].status = "ACTIVE" => link[m].trade # t
    <2>1. CASE TL!Commit(c, l)
      <3>1. ~TL!PairExists(t, work[c].link) /\ (work[c].link = 0 \/ work[c].link = l)
        BY <2>1, <1>1, <1>2, <1>5 DEF FoundIsSo, TL!Commit, TL!LinksTo
      <3> QED BY <3>1 DEF TL!PairExists
    <2>2. CASE TL!Succeed(c, l)
      BY <2>2, <1>1 DEF FoundIsSo, TL!Succeed, TL!PairExists
    <2> QED BY <2>1, <2>2
  <1>9. TL!OneActivePair'
    BY <1>7, <1>8 DEF LinksInv, TL!OneActivePair
  <1>10. \A d \in Clients : d # c => work[d].link # l
    <2> SUFFICES ASSUME NEW d \in Clients, d # c, work[d].link = l PROVE FALSE
      OBVIOUS
    <2>1. Locked(d) /\ FoundIsSo(d) /\ work[d].link # 0
      BY DEF LinksInv
    <2>2. link[l].version # 0 /\ <<"link", l>> \in work[d].locks
      BY <2>1 DEF Locked, FoundIsSo
    <2>3. work[c].link = l
      BY <2>2, <1>2 DEF TL!LinksTo, TL!NoLink
    <2> QED BY <2>2, <2>3, <1>1 DEF Locked, LinksInv, LinkLocks
  <1>11. LinkLocks'
    BY <1>3, <1>4, LinkLocksGrow DEF LinksInv
  <1>12. CASE TL!Commit(c, l)
    <2>1. UNCHANGED <<trade, receipt>>
      BY <1>12 DEF TL!Commit
    <2>2. LinkTypes'
      BY <2>1, <1>4, <1>5, <1>7 DEF LinksInv, LinkTypes, TL!TypeOK, Works
    <2>3. \A d \in Clients : Locked(d)' /\ FoundIsSo(d)'
      <3>1. Locked(c)' /\ FoundIsSo(c)'
        BY <1>3, <1>4 DEF Locked, FoundIsSo
      <3>2. ASSUME NEW d \in Clients, d # c PROVE Locked(d)' /\ FoundIsSo(d)'
        <4>1. Locked(d) /\ FoundIsSo(d) /\ work[d] \in Works /\ work[d].trade = 0 /\ ~work[d].linked
              /\ work[d].link # l /\ work'[d] = work[d]
          BY <3>2, <1>4, <1>6, <1>10 DEF LinksInv, LinkTypes
        <4> QED BY <4>1, <2>1, <1>7 DEF Locked, FoundIsSo, Works
      <3> QED BY <3>1, <3>2
    <2>4. trade[t] \in {"open", "closed"}
      BY <1>12, <1>1, <1>5 DEF TL!Commit, FoundIsSo
    <2>5. TL!LinkedTradeStands'
      BY <2>1, <2>4, <1>7 DEF LinksInv, TL!LinkedTradeStands
    <2>6. TL!ExecutedOnce'
      BY <2>1, <1>7 DEF LinksInv, TL!ExecutedOnce
    <2> QED BY <2>2, <2>3, <2>5, <2>6, <1>9, <1>11 DEF LinksInv
  <1>13. CASE TL!Succeed(c, l)
    <2> DEFINE k == work[c].key
    <2>1. /\ work[c].does = "execute" /\ k \in LinkKeys /\ <<"key", k>> \in work[c].locks
          /\ receipt[k] = TL!NoReceipt /\ trade[t] = "none" /\ t # First
      BY <1>13, <1>1, <1>5 DEF TL!Succeed, Locked, FoundIsSo, LinksInv, LinkTypes
    <2>2. /\ receipt' = [receipt EXCEPT ![k] = [status |-> "SUCCEEDED", trade |-> t]]
          /\ trade' = [trade EXCEPT ![t] = "open"]
      BY <1>13 DEF TL!Succeed, TL!Makes
    <2>3. /\ receipt'[k].status = "SUCCEEDED" /\ receipt'[k].trade = t
          /\ \A j \in LinkKeys : j # k => receipt'[j] = receipt[j]
          /\ trade'[t] = "open" /\ \A u \in Trades : u # t => trade'[u] = trade[u]
      BY <2>1, <2>2, <1>5 DEF LinksInv, LinkTypes, TL!TypeOK
    <2>4. LinkTypes'
      <3>1. trade' \in [Trades -> {"none", "open", "closed", "cancelled"}] /\ trade'[First] # "none"
        BY <2>1, <2>2, <2>3, <1>5 DEF LinksInv, LinkTypes, TL!TypeOK
      <3>2. receipt' \in [LinkKeys -> [status : {"none", "IN_PROGRESS", "SUCCEEDED"}, trade : Trades \cup {0}]]
        BY <2>1, <2>2, <1>5 DEF LinksInv, LinkTypes, TL!TypeOK
      <3>3. referenced' \subseteq Trades /\ \A m \in Links : link'[m].version = 0 => link'[m] = TL!NoLink
        BY <1>5, <1>7 DEF LinksInv, LinkTypes, TL!TypeOK
      <3> QED BY <3>1, <3>2, <3>3, <1>4, <1>7 DEF LinkTypes, TL!TypeOK, Works
    <2>5. \A d \in Clients : d # c /\ work[d].does = "execute" => work[d].key # k /\ work[d].key \in LinkKeys
      BY <2>1 DEF LinksInv, LinkLocks, Locked
    <2>6. \A d \in Clients : Locked(d)' /\ FoundIsSo(d)'
      <3>1. Locked(c)' /\ FoundIsSo(c)'
        BY <1>3, <1>4 DEF Locked, FoundIsSo
      <3>2. ASSUME NEW d \in Clients, d # c PROVE Locked(d)' /\ FoundIsSo(d)'
        <4>1. Locked(d) /\ FoundIsSo(d) /\ work[d] \in Works /\ work[d].trade = 0 /\ ~work[d].linked
              /\ work[d].link # l /\ work'[d] = work[d]
          BY <3>2, <1>4, <1>6, <1>10 DEF LinksInv, LinkTypes
        <4> QED BY <4>1, <3>2, <2>3, <2>5, <1>7 DEF Locked, FoundIsSo, Works
      <3> QED BY <3>1, <3>2
    <2>7. TL!LinkedTradeStands'
      <3>1. \A u \in referenced' : u = t \/ (u \in referenced /\ u \in Trades /\ u # t)
        BY <1>5, <1>7 DEF LinksInv, LinkTypes, TL!TypeOK
      <3> QED BY <2>3, <3>1 DEF LinksInv, TL!LinkedTradeStands
    <2>8. TL!ExecutedOnce'
      <3> DEFINE made == {u \in Trades \ {First} : trade[u] # "none"}
                 succeeded == {j \in LinkKeys : receipt[j].status = "SUCCEEDED"}
      <3>1. made' = made \cup {t}
        BY <2>1, <2>3, <1>5
      <3>2. succeeded' = succeeded \cup {k} /\ k \notin succeeded /\ t \notin made
        BY <2>1, <2>3 DEF TL!NoReceipt
      <3>3. {receipt'[j].trade : j \in succeeded'} = {receipt[j].trade : j \in succeeded} \cup {t}
        BY <3>2, <2>3
      <3>4. \A j \in succeeded : receipt[j].trade \in made
        BY DEF LinksInv, TL!ExecutedOnce
      <3> QED BY <3>1, <3>2, <3>3, <3>4, <2>3, <1>7 DEF LinksInv, TL!ExecutedOnce
    <2> QED BY <2>4, <2>6, <2>7, <2>8, <1>9, <1>11 DEF LinksInv
  <1> QED BY <1>12, <1>13

\* A link that is retracted, a trade that is sold or cancelled.
LEMMA LinkedChanges ==
  ASSUME TL!LinksAssumption, LinksInv,
         \/ \E c \in Clients, l \in Links : TL!Retract(c, l)
         \/ \E t \in Trades : TL!Sell(t) \/ TL!Cancel(t)
  PROVE  LinksInv'
  <1> USE DEF TL!LinksAssumption
  <1>1. ASSUME NEW c \in Clients, NEW l \in Links, TL!Retract(c, l) PROVE LinksInv'
    <2>1. /\ \A d \in Clients : <<"link", l>> \notin work[d].locks
          /\ link[l].version < LastLinked /\ link[l].status = "ACTIVE"
          /\ UNCHANGED <<trade, referenced, receipt, work>>
          /\ link' = [link EXCEPT ![l].version = @ + 1, ![l].status = "RETRACTED"]
      BY <1>1 DEF TL!Retract, TL!Free
    <2>2. link \in [Links -> [version : 0..LastLinked, status : {"none", "ACTIVE", "RETRACTED"}, trade : Trades \cup {0}]]
      BY DEF LinksInv, LinkTypes, TL!TypeOK
    <2>3. /\ link' \in [Links -> [version : 0..LastLinked, status : {"none", "ACTIVE", "RETRACTED"}, trade : Trades \cup {0}]]
          /\ link'[l].status = "RETRACTED" /\ link'[l].version # 0
          /\ \A m \in Links : m # l => link'[m] = link[m]
      BY <2>1, <2>2
    <2>4. LinkTypes'
      BY <2>1, <2>3 DEF LinksInv, LinkTypes, TL!TypeOK
    <2>5. LinkLocks' /\ TL!OneActivePair' /\ TL!LinkedTradeStands' /\ TL!ExecutedOnce'
      BY <2>1, <2>3 DEF LinksInv, LinkLocks, TL!OneActivePair, TL!LinkedTradeStands, TL!ExecutedOnce
    <2>6. \A d \in Clients : work[d].link # l
      BY <2>1 DEF LinksInv, Locked
    <2>7. \A d \in Clients : Locked(d)' /\ FoundIsSo(d)'
      BY <2>1, <2>3, <2>6 DEF LinksInv, LinkTypes, Works, Locked, FoundIsSo, TL!PairExists
    <2> QED BY <2>4, <2>5, <2>7 DEF LinksInv
  <1>2. ASSUME NEW t \in Trades, TL!Sell(t) \/ TL!Cancel(t) PROVE LinksInv'
    <2>1. /\ trade[t] = "open" /\ \A d \in Clients : <<"trade", t>> \notin work[d].locks
          /\ UNCHANGED <<link, referenced, receipt, work>>
          /\ \/ trade' = [trade EXCEPT ![t] = "closed"]
             \/ trade' = [trade EXCEPT ![t] = "cancelled"] /\ t \notin referenced
      BY <1>2 DEF TL!Sell, TL!Cancel, TL!Free
    <2>2. trade \in [Trades -> {"none", "open", "closed", "cancelled"}]
      BY DEF LinksInv, LinkTypes, TL!TypeOK
    <2>3. /\ trade' \in [Trades -> {"none", "open", "closed", "cancelled"}]
          /\ trade'[t] # "none" /\ (t \in referenced => trade'[t] = "closed")
          /\ \A u \in Trades : u # t => trade'[u] = trade[u]
      BY <2>1, <2>2
    <2>4. LinkTypes' /\ LinkLocks' /\ TL!OneActivePair' /\ TL!LinkedTradeStands'
      BY SMTT(30), <2>1, <2>3 DEF LinksInv, LinkTypes, TL!TypeOK, LinkLocks, TL!OneActivePair, TL!LinkedTradeStands
    <2>5. TL!ExecutedOnce'
      BY <2>1, <2>3 DEF LinksInv, TL!ExecutedOnce
    <2>6. \A d \in Clients : work[d].trade # t
      BY <2>1 DEF LinksInv, Locked
    <2>7. ASSUME NEW d \in Clients PROVE Locked(d)' /\ FoundIsSo(d)'
      <3>1. Locked(d) /\ FoundIsSo(d) /\ work[d] \in Works /\ work[d].trade # t
        BY <2>6 DEF LinksInv, LinkTypes
      <3>2. work[d].trade # 0 => trade'[work[d].trade] = trade[work[d].trade]
        BY <3>1, <2>3 DEF Works
      <3> QED BY <3>1, <3>2, <2>1 DEF Locked, FoundIsSo, TL!PairExists
    <2> QED BY <2>4, <2>5, <2>7 DEF LinksInv
  <1> QED BY <1>1, <1>2

\* Every step is of one of the groups above.
LEMMA LinksNext == ASSUME TL!LinksAssumption, LinksInv, [TL!Next]_(TL!linkVars) PROVE LinksInv'
  <1>1. CASE TL!Next
    <2>1. ASSUME NEW c \in Clients, TL!Create(c) \/ \E k \in LinkKeys : TL!Execute(c, k) PROVE LinksInv'
      BY <2>1, LinkBegins
    <2>2. ASSUME NEW c \in Clients, NEW l \in Links, NEW does \in {"correct_target", "reactivate"},
                 TL!Change(c, does, l) PROVE LinksInv'
      BY <2>2, LinkBegins
    <2>3. ASSUME NEW c \in Clients, TL!LockObservation(c) \/ TL!CreateLink(c) \/ TL!GiveUp(c) PROVE LinksInv'
      BY <2>3, LinkGoesOn
    <2>4. ASSUME NEW c \in Clients, NEW t \in Trades, TL!Validate(c, t) \/ TL!CreateTrade(c, t) PROVE LinksInv'
      BY <2>4, LinkGoesOn
    <2>5. ASSUME NEW c \in Clients, NEW l \in Links, TL!Commit(c, l) \/ TL!Succeed(c, l) PROVE LinksInv'
      BY <2>5, LinkCommits
    <2>6. ASSUME NEW c \in Clients, NEW l \in Links, TL!Retract(c, l) PROVE LinksInv'
      BY <2>6, LinkedChanges
    <2>7. ASSUME NEW t \in Trades, TL!Sell(t) \/ TL!Cancel(t) PROVE LinksInv'
      BY <2>7, LinkedChanges
    <2> QED BY <1>1, <2>1, <2>2, <2>3, <2>4, <2>5, <2>6, <2>7 DEF TL!Next
  <1>2. CASE UNCHANGED TL!linkVars
    <2>1. UNCHANGED <<trade, link, referenced, receipt, work>>
      BY <1>2 DEF TL!linkVars
    <2>2. LinkTypes' /\ LinkLocks'
      BY <2>1 DEF LinksInv, LinkTypes, LinkLocks, TL!TypeOK
    <2>3. \A c \in Clients : Locked(c)' /\ FoundIsSo(c)'
      BY <2>1, LinksStay DEF LinksInv
    <2>4. TL!OneActivePair' /\ TL!LinkedTradeStands' /\ TL!ExecutedOnce'
      BY <2>1 DEF LinksInv, TL!OneActivePair, TL!LinkedTradeStands, TL!ExecutedOnce
    <2> QED BY <2>2, <2>3, <2>4 DEF LinksInv
  <1> QED BY <1>1, <1>2

\* The invariant implies what is promised.
LEMMA LinksInvSuffices == LinksInv => TL!TypeOK /\ TL!OneActivePair /\ TL!LinkedTradeStands /\ TL!ExecutedOnce
  BY DEF LinksInv, LinkTypes

\* An observation has one active link; a trade that is linked stands, neither sold before it was
\* nor cancelled; and an observation is executed once, whatever requests run at the same time.
THEOREM LinkedOnce ==
  ASSUME TL!LinksAssumption
  PROVE  TL!Spec => [](TL!TypeOK /\ TL!OneActivePair /\ TL!LinkedTradeStands /\ TL!ExecutedOnce)
  BY LinksInit, LinksNext, LinksInvSuffices, PTL DEF TL!Spec

-----------------------------------------------------------------------------
(* The journal of a trade, and its page. *)

\* Versions, commands and what a page has read of them.
Texted == Texts \cup {"empty"}
Drafts == [final : BOOLEAN, revision : Nat, text : Texted, source : Nat]
JournalOps == {"none", "create", "save", "rebind", "finalize", "materialize"}
Commands == [key : Nat, op : JournalOps, id : Nat, base : Drafts, text : Texted, source : Nat]
Origins == [version : Nat, ready : BOOLEAN]
Histories == [versions : Seq(Drafts), evidence : SUBSET Nat, source : Origins]
Editors == [base : Drafts, text : Texted]
Confirmations == [command : Commands, current : BOOLEAN]
Pages == [shown : Histories, selected : Nat, editor : Editors, confirmation : Confirmations,
          status : {"loading", "ready", "error"}, pending : BOOLEAN, reconcile : BOOLEAN, open : Nat]
Attempts == [outcome : {"none", "running", "unknown", "confirmed"}, command : Commands]
Calls == [phase : {"none", "sent", "answered", "refused", "unready"}, command : Commands]
Reads == [phase : {"none", "asked", "answered"}, history : Histories, confirms : BOOLEAN,
          discards : BOOLEAN, behind : BOOLEAN]
Memories == [typed : [text : Texted, id : Nat], told : Commands, refused : SUBSET Nat]
Applied == [command : Commands, found : Drafts]
ServiceTypes ==
    /\ drafts \in Seq(Drafts) /\ proven \subseteq 1..Len(drafts) /\ basis \in Origins /\ applied \subseteq Applied
PageTypes ==
    /\ page \in Pages /\ attempt \in Attempts /\ call \in Calls /\ reading \in Reads
    /\ late \subseteq Commands /\ keys \in Nat /\ memory \in Memories

\* What may follow a version: what is final stays, a draft that is written has another revision.
Later(a, b) == a.revision <= b.revision /\ (a.revision = b.revision => a = b) /\ (a.final = TRUE => a = b)
\* What was read once of the journal.
SeenOf(h) ==
    /\ Len(h.versions) <= Len(drafts)
    /\ \A v \in 1..Len(h.versions) : Later(h.versions[v], drafts[v])
    /\ h.source.version <= basis.version
\* What was seen when a command was made, of a journal that has gone on.
Fit(c) ==
    /\ c.id <= Len(drafts) /\ c.source <= basis.version
    /\ c.op \in {"create", "materialize"} => c.base = JP!VersionOf(c.id) /\ (c.id # 0 => c.base.final = TRUE)
    /\ c.op # "create" => c.id # 0 /\ Later(c.base, drafts[c.id])
    /\ c.op = "finalize" => c.source = c.base.source
    /\ c.op = "rebind" => c.text = c.base.text
    /\ c.op # "none"
\* The journal has the result of a command.
Shows(h, c) ==
    /\ c.op = "create" => Len(h.versions) > c.id
    /\ c.op = "materialize" => c.id \in h.evidence
    /\ c.op \notin {"create", "materialize"} =>
          c.id \in 1..Len(h.versions) /\ h.versions[c.id].revision > c.base.revision

IsSent(c) ==
    \/ c \in late
    \/ call.phase # "none" /\ call.command = c
    \/ attempt.outcome # "none" /\ attempt.command = c
    \/ \E r \in applied : r.command = c
Done(c) == \E r \in applied : r.command = c
Answered(c) == \E r \in applied : r.command.key = c.key
InHand(c) ==
    \/ call.phase # "none" /\ call.command = c
    \/ attempt.outcome # "none" /\ attempt.command = c

\* Only the last version may be a draft.
OneDraft(vs) == \A v \in 1..Len(vs) : v < Len(vs) => vs[v].final = TRUE
\* The page has read of the journal what was there, and reads what is there later.
SeenInv ==
    /\ SeenOf(page.shown) /\ SeenOf(reading.history)
    /\ OneDraft(page.shown.versions) /\ OneDraft(reading.history.versions)
    /\ reading.phase = "answered" => \A v \in 1..Len(page.shown.versions) :
          v <= Len(reading.history.versions) /\ Later(page.shown.versions[v], reading.history.versions[v])
\* A command under way was made for what was seen, and its key is its own.
SentInv ==
    /\ \A c \in Commands : IsSent(c) => Fit(c) /\ c.key \in 1..keys
    /\ \A c, d \in Commands : IsSent(c) /\ IsSent(d) /\ c.key = d.key => c = d
\* A command that the user is asked to confirm.
OpenInv == page.confirmation # JP!NoConfirmation =>
    /\ Fit(page.confirmation.command) /\ page.confirmation.command.key = keys + 1 /\ keys < MaxCommands
    /\ page.confirmation.command.op # "save" /\ ~JP!Dirty
    /\ page.confirmation.command.op # "create" => page.confirmation.command.id = page.selected
\* A receipt tells what was found and done, and an answer has one.
AppliedInv ==
    /\ \A r \in applied : r.found = r.command.base /\ Shows(JP!History, r.command)
    /\ \A r, s \in applied : r.command.key = s.command.key => r = s
    /\ call.phase = "answered" => Done(call.command)
    /\ attempt.outcome = "confirmed" => Done(attempt.command)
    /\ memory.told # JP!NoCommand => Done(memory.told)
\* What was refused as outdated cannot be applied any more.
RefusedInv ==
    /\ \A c \in Commands : call.phase = "refused" /\ call.command = c => ~Answered(c) /\ JP!Outdated(c)
    /\ memory.refused \subseteq 1..keys
    /\ \A c \in Commands : IsSent(c) /\ c.key \in memory.refused => ~Answered(c) /\ JP!Outdated(c)
\* A read that is answered, and a page that is ready, have the result the page was told of.
ShowInv ==
    /\ page.selected <= Len(drafts)
    /\ reading.phase = "answered" =>
          /\ page.selected <= Len(reading.history.versions)
          /\ memory.told # JP!NoCommand => Shows(reading.history, memory.told)
    /\ page.status = "ready" =>
          /\ page.selected <= Len(page.shown.versions)
          /\ memory.told # JP!NoCommand => Shows(page.shown, memory.told)
    /\ reading.confirms = TRUE => attempt.outcome = "confirmed"
\* The draft that was created is not opened any more.
KeepsClosed == page.open = 0 \/ page.open # page.selected \/
    (page.selected \in 1..Len(page.shown.versions) /\ page.shown.versions[page.selected].final = TRUE)
\* A command whose outcome is not known is about what the editor is about.
HandInv ==
    /\ call.phase = "none" => call = JP!NoCall
    /\ attempt.outcome = "none" => attempt = JP!NoAttempt
    /\ call # JP!NoCall => page.pending = TRUE
    /\ attempt.outcome = "confirmed" => call = JP!NoCall
    /\ \A c \in Commands : InHand(c) =>
          /\ KeepsClosed
          /\ IF c.op = "create" THEN page.editor = JP!NoEditor ELSE c.id = page.selected
          /\ c.op = "rebind" /\ page.editor # JP!NoEditor => page.editor.base = c.base
\* What is edited, and what was typed.
EditorInv ==
    /\ page.open # 0 /\ page.open = page.selected /\ page.selected \in 1..Len(page.shown.versions) =>
          page.shown.versions[page.selected].final = TRUE
    /\ page.selected = 0 => page.open = 0
    /\ page.editor # JP!NoEditor =>
          page.open # page.selected /\ page.editor.base.final = FALSE /\ page.selected # 0
    /\ memory.typed # JP!Untyped =>
          /\ page.editor # JP!NoEditor /\ page.editor.text = memory.typed.text
          /\ memory.typed.id = page.selected /\ memory.typed.text # page.editor.base.text
BoundInv ==
    /\ Len(drafts) <= MaxVersions
    /\ \A v \in 1..Len(drafts) : drafts[v].revision \in 1..MaxRevision /\ drafts[v].source \in 1..MaxSource
    /\ basis.version \in 1..MaxSource /\ keys <= MaxCommands /\ OneDraft(drafts)
PageInv == SeenInv /\ SentInv /\ OpenInv /\ AppliedInv /\ RefusedInv /\ ShowInv /\ HandInv /\ EditorInv
JournalInv == ServiceTypes /\ PageTypes /\ PageInv /\ BoundInv

\* The journal and its evidence only grow, and so does the review it refers to.
Grows ==
    /\ Len(drafts) <= Len(drafts') /\ \A v \in 1..Len(drafts) : Later(drafts[v], drafts'[v])
    /\ proven \subseteq proven' /\ applied \subseteq applied'
    /\ basis.version <= basis'.version

\* What there is at first.
LEMMA NothingYet ==
  /\ JP!NoVersion \in Drafts /\ JP!NoVersion.revision = 0 /\ JP!NoVersion.final = FALSE
  /\ JP!NoCommand \in Commands /\ JP!NoCommand.op = "none" /\ JP!NoEditor \in Editors /\ JP!NoConfirmation \in Confirmations
  /\ JP!NoAttempt \in Attempts /\ JP!NoAttempt.outcome = "none" /\ JP!NoCall \in Calls /\ JP!NoCall.phase = "none"
  /\ JP!Unread \in Histories /\ Len(JP!Unread.versions) = 0 /\ JP!Unread.source.version = 0
  /\ JP!NoRead \in Reads /\ JP!NoRead.phase = "none" /\ JP!NoRead.confirms = FALSE /\ JP!NoRead.history = JP!Unread
  /\ JP!Asked \in Reads /\ JP!Asked.phase = "asked" /\ JP!Asked.confirms = FALSE /\ JP!Asked.history = JP!Unread
  /\ JP!Untyped.text \in Texted /\ JP!Untyped.id = 0
  <1>1. JP!NoVersion \in Drafts /\ JP!NoVersion.revision = 0 /\ JP!NoVersion.final = FALSE
    BY DEF JP!NoVersion, JP!Version, Drafts, Texted
  <1>2. JP!NoCommand \in Commands /\ JP!NoCommand.op = "none"
    BY <1>1 DEF JP!NoCommand, Commands, JournalOps, Texted
  <1>3. JP!NoEditor \in Editors /\ JP!NoConfirmation \in Confirmations
    BY <1>1, <1>2 DEF JP!NoEditor, Editors, JP!NoConfirmation, Confirmations, Texted
  <1>4. JP!NoAttempt \in Attempts /\ JP!NoAttempt.outcome = "none" /\ JP!NoCall \in Calls /\ JP!NoCall.phase = "none"
    BY <1>2 DEF JP!NoAttempt, Attempts, JP!NoCall, Calls
  <1>5. JP!Unread \in Histories /\ Len(JP!Unread.versions) = 0 /\ JP!Unread.source.version = 0
    BY DEF JP!Unread, Histories, Origins
  <1>6. JP!NoRead \in Reads /\ JP!NoRead.phase = "none" /\ JP!NoRead.confirms = FALSE /\ JP!NoRead.history = JP!Unread
    BY <1>5 DEF JP!NoRead, Reads
  <1>7. JP!Asked \in Reads /\ JP!Asked.phase = "asked" /\ JP!Asked.confirms = FALSE /\ JP!Asked.history = JP!Unread
    BY <1>6 DEF JP!Asked, Reads
  <1> QED BY <1>1, <1>2, <1>3, <1>4, <1>5, <1>6, <1>7 DEF JP!Untyped, Texted

\* A version follows itself, and what follows it.
LEMMA LaterOn ==
  /\ \A a \in Drafts : Later(a, a)
  /\ \A a, b, d \in Drafts : Later(a, b) /\ Later(b, d) => Later(a, d)
  BY DEF Later, Drafts

\* What was seen of a journal remains what was seen of it.
LEMMA SeenGoesOn ==
  ASSUME ServiceTypes, ServiceTypes', Grows, NEW h \in Histories, SeenOf(h) PROVE SeenOf(h)'
  <1>1. ASSUME NEW v \in 1..Len(h.versions) PROVE Later(h.versions[v], drafts'[v])
    <2>1. h.versions[v] \in Drafts /\ v \in 1..Len(drafts) /\ drafts[v] \in Drafts /\ v \in 1..Len(drafts')
          /\ drafts'[v] \in Drafts
      BY <1>1 DEF Histories, SeenOf, ServiceTypes, Grows
    <2> QED BY <1>1, <2>1, LaterOn DEF SeenOf, Grows
  <1> QED BY <1>1 DEF SeenOf, Grows, ServiceTypes, Histories, Origins

\* A command that was made for what was seen.
LEMMA FitGoesOn ==
  ASSUME ServiceTypes, ServiceTypes', Grows, NEW c \in Commands, Fit(c) PROVE Fit(c)'
  <1>1. c.base \in Drafts /\ c.id \in Nat
    BY DEF Commands
  <1>2. c.op # "create" => c.id # 0 /\ Later(c.base, drafts'[c.id])
    <2> SUFFICES ASSUME c.op # "create" PROVE c.id # 0 /\ Later(c.base, drafts'[c.id])
      OBVIOUS
    <2>1. c.id \in 1..Len(drafts) /\ drafts[c.id] \in Drafts /\ c.id \in 1..Len(drafts') /\ drafts'[c.id] \in Drafts
      BY <1>1 DEF Fit, ServiceTypes, Grows
    <2> QED BY <1>1, <2>1, LaterOn DEF Fit, Grows
  <1>3. ASSUME c.op \in {"create", "materialize"}, c.id # 0 PROVE drafts'[c.id] = drafts[c.id]
    <2>1. c.id \in 1..Len(drafts) /\ drafts[c.id].final = TRUE
      BY <1>1, <1>3 DEF Fit, ServiceTypes, JP!VersionOf
    <2> QED BY <2>1 DEF Grows, Later
  <1>4. c.op \in {"create", "materialize"} => JP!VersionOf(c.id)' = JP!VersionOf(c.id)
    BY <1>3 DEF JP!VersionOf
  <1>5. c.id <= Len(drafts') /\ c.source <= basis'.version
    BY DEF Fit, Grows, ServiceTypes, Origins, Commands
  <1> QED BY <1>2, <1>4, <1>5 DEF Fit

\* What is outdated once is outdated for ever.
LEMMA OutdatedGoesOn ==
  ASSUME ServiceTypes, ServiceTypes', Grows, NEW c \in Commands, Fit(c), JP!Outdated(c)
  PROVE  JP!Outdated(c)'
  <1>1. c.base \in Drafts /\ c.id \in Nat /\ c.source \in Nat /\ Fit(c)'
    BY FitGoesOn DEF Commands
  <1>2. CASE JP!Refers(c) /\ basis.version # c.source
    <2>1. basis'.version # c.source
      BY <1>1, <1>2 DEF Fit, Grows, ServiceTypes, Origins
    <2> QED BY <1>2, <2>1 DEF JP!Outdated, JP!Refers
  <1>3. CASE c.op = "create" /\ (c.id # Len(drafts) \/ (Len(drafts) > 0 /\ ~drafts[Len(drafts)].final))
    <2>1. c.id = Len(drafts') => c.id = Len(drafts)
      BY <1>1 DEF Fit, Grows, ServiceTypes
    <2>2. c.id = Len(drafts) => (Len(drafts) > 0 => drafts[Len(drafts)].final = TRUE)
      BY <1>3 DEF Fit, JP!VersionOf, ServiceTypes
    <2> QED BY <1>3, <2>1, <2>2 DEF JP!Outdated, JP!Latest
  <1>4. CASE c.op = "materialize"
    BY <1>4 DEF JP!Outdated, JP!Refers, Fit, JP!VersionOf
  <1>5. CASE /\ c.op \in {"save", "rebind", "finalize"}
             /\ \/ drafts[c.id].final \/ drafts[c.id].revision # c.base.revision
                \/ c.op = "finalize" /\ c.source # drafts[c.id].source
    <2>1. c.id \in 1..Len(drafts) /\ drafts[c.id] \in Drafts /\ c.id \in 1..Len(drafts') /\ drafts'[c.id] \in Drafts
      BY <1>1, <1>5 DEF Fit, ServiceTypes, Grows
    <2>2. Later(c.base, drafts[c.id]) /\ Later(drafts[c.id], drafts'[c.id])
      BY <1>5, <2>1 DEF Fit, Grows
    <2>3. drafts'[c.id].revision = c.base.revision => drafts[c.id].revision = c.base.revision /\ drafts'[c.id] = drafts[c.id]
      BY <1>1, <2>1, <2>2 DEF Later, Drafts
    <2> QED BY <1>5, <2>3 DEF JP!Outdated
  <1> QED BY <1>2, <1>3, <1>4, <1>5 DEF JP!Outdated, JP!Latest

\* What a command has brought about stays.
LEMMA ResultStays ==
  ASSUME ServiceTypes, ServiceTypes', Grows, NEW c \in Commands, Shows(JP!History, c) PROVE Shows(JP!History, c)'
  <1>1. Len(drafts) \in Nat /\ Len(drafts') \in Nat /\ c.id \in Nat /\ c.base.revision \in Nat
    BY DEF ServiceTypes, Commands, Drafts
  <1>2. ASSUME c.id \in 1..Len(drafts) PROVE drafts[c.id].revision <= drafts'[c.id].revision /\ drafts[c.id].revision \in Nat
          /\ c.id \in 1..Len(drafts') /\ drafts'[c.id].revision \in Nat
    <2>1. c.id \in 1..Len(drafts') /\ drafts[c.id] \in Drafts
      BY <1>1, <1>2 DEF Grows, ServiceTypes
    <2>2. drafts'[c.id] \in Drafts
      BY <2>1 DEF ServiceTypes
    <2> QED BY <1>2, <2>1, <2>2 DEF Grows, Later, Drafts
  <1> QED BY <1>1, <1>2 DEF Shows, JP!History, Grows

\* What a command writes goes on from what is there, and is its result.
LEMMA ApplyGrows ==
  ASSUME ServiceTypes, NEW c \in Commands, c.id <= Len(drafts), c.op # "create" => c.id # 0, c.op # "none",
         JP!Applicable(c), JP!Apply(c), UNCHANGED basis, applied \subseteq applied', applied' \subseteq Applied
  PROVE  ServiceTypes' /\ Grows /\ Shows(JP!History, c)'
  <1>1. PICK n \in Nat : n = Len(drafts) /\ DOMAIN drafts = 1..n /\ drafts \in [1..n -> Drafts]
    BY DEF ServiceTypes
  <1>2. c.id \in Nat /\ c.source \in Nat /\ c.text \in Texted /\ c.base \in Drafts
    BY DEF Commands
  <1>3. /\ \A a \in Drafts : Later(a, a)
        /\ applied \subseteq applied' /\ basis.version <= basis'.version
    BY LaterOn DEF ServiceTypes, Origins
  <1>4. CASE c.op = "create"
    <2> DEFINE d == JP!Version(JP!VersionOf(c.id).text, c.source)
    <2>1. JP!VersionOf(c.id).text \in Texted
      BY <1>1, <1>2 DEF JP!VersionOf, JP!NoVersion, JP!Version, Drafts, Texted
    <2>2. d \in Drafts
      BY <1>2, <2>1 DEF JP!Version, Drafts
    <2> HIDE DEF d
    <2>3. drafts' = Append(drafts, d) /\ proven' = proven
      BY <1>4 DEF JP!Apply, d
    <2>4. drafts' \in Seq(Drafts) /\ Len(drafts') = n + 1 /\ \A v \in 1..n : drafts'[v] = drafts[v]
      BY <1>1, <2>2, <2>3 DEF ServiceTypes
    <2>5. ServiceTypes'
      BY <1>1, <2>3, <2>4 DEF ServiceTypes
    <2>6. Grows
      BY <1>1, <1>3, <2>3, <2>4 DEF Grows
    <2>7. Shows(JP!History, c)'
      BY <1>1, <1>2, <1>4, <2>4 DEF Shows, JP!History
    <2> QED BY <2>5, <2>6, <2>7
  <1>5. CASE c.op = "materialize"
    <2>1. drafts' = drafts /\ proven' = proven \cup {c.id} /\ c.id \in 1..n
      BY <1>1, <1>2, <1>5 DEF JP!Apply
    <2>2. ServiceTypes'
      BY <1>1, <2>1 DEF ServiceTypes
    <2>3. Grows
      BY <1>1, <1>3, <2>1 DEF Grows, ServiceTypes
    <2> QED BY <1>5, <2>1, <2>2, <2>3 DEF Shows, JP!History
  <1>6. CASE c.op \in {"save", "rebind", "finalize"}
    <2>1. c.id \in 1..n /\ drafts[c.id] \in Drafts /\ proven' = proven
      BY SMTT(20), <1>1, <1>2, <1>6 DEF JP!Apply
    <2>2. ~drafts[c.id].final /\ drafts[c.id].revision = c.base.revision
      BY <1>6 DEF JP!Applicable, JP!Outdated
    <2>3. PICK d \in Drafts : drafts' = [drafts EXCEPT ![c.id] = d] /\ d.revision = drafts[c.id].revision + 1
      <3>1. CASE c.op = "save"
        <4> DEFINE i == drafts[c.id].revision + 1
                   d == [drafts[c.id] EXCEPT !.text = c.text, !.revision = i]
        <4>1. i \in Nat
          BY <2>1 DEF Drafts
        <4>2. drafts' = [drafts EXCEPT ![c.id] = d]
          BY <1>1, <2>1, <3>1 DEF JP!Apply, Drafts
        <4>3. d.revision = i
          BY <1>2, <2>1 DEF Drafts
        <4> HIDE DEF i
        <4>4. d \in Drafts
          BY <1>2, <2>1, <4>1 DEF Drafts
        <4> QED BY <4>2, <4>3, <4>4 DEF i
      <3>2. CASE c.op = "rebind"
        <4> DEFINE i == drafts[c.id].revision + 1
                   d == [drafts[c.id] EXCEPT !.source = c.source, !.revision = i]
        <4>1. i \in Nat
          BY <2>1 DEF Drafts
        <4>2. drafts' = [drafts EXCEPT ![c.id] = d]
          BY <1>1, <2>1, <3>2 DEF JP!Apply, Drafts
        <4>3. d.revision = i
          BY <1>2, <2>1 DEF Drafts
        <4> HIDE DEF i
        <4>4. d \in Drafts
          BY <1>2, <2>1, <4>1 DEF Drafts
        <4> QED BY <4>2, <4>3, <4>4 DEF i
      <3>3. CASE c.op = "finalize"
        <4> DEFINE i == drafts[c.id].revision + 1
                   d == [drafts[c.id] EXCEPT !.final = TRUE, !.revision = i]
        <4>1. i \in Nat
          BY <2>1 DEF Drafts
        <4>2. drafts' = [drafts EXCEPT ![c.id] = d]
          BY <1>1, <2>1, <3>3 DEF JP!Apply, Drafts
        <4>3. d.revision = i
          BY <1>2, <2>1 DEF Drafts
        <4> HIDE DEF i
        <4>4. d \in Drafts
          BY <1>2, <2>1, <4>1 DEF Drafts
        <4> QED BY <4>2, <4>3, <4>4 DEF i
      <3> QED BY <1>6, <3>1, <3>2, <3>3
    <2>4. drafts' \in Seq(Drafts) /\ Len(drafts') = n /\ \A v \in 1..n : drafts'[v] = IF v = c.id THEN d ELSE drafts[v]
      BY <1>1, <2>1, <2>3 DEF ServiceTypes
    <2>5. Later(drafts[c.id], d)
      BY <2>1, <2>2, <2>3 DEF Later, Drafts
    <2>6. ServiceTypes'
      BY <1>1, <2>1, <2>4 DEF ServiceTypes
    <2>7. Grows
      BY <1>1, <1>3, <2>1, <2>4, <2>5 DEF Grows, ServiceTypes
    <2>8. Shows(JP!History, c)'
      BY <1>1, <1>2, <1>6, <2>1, <2>2, <2>3, <2>4 DEF Shows, JP!History, Drafts
    <2> QED BY <2>6, <2>7, <2>8
  <1> QED BY <1>4, <1>5, <1>6 DEF Commands, JournalOps

\* The service applies at most one command, which was sent and may be applied.
LEMMA ServiceGoesOn ==
  ASSUME ServiceTypes, PageTypes, PageInv, ServiceTypes', Grows, UNCHANGED <<page, attempt, reading, keys, memory>>,
         late' \subseteq late, call' \in Calls, call'.command = call.command,
         call'.phase = "none" <=> call.phase = "none", call.phase = "none" => call' = call,
         \A r \in applied' : r \in applied \/ (/\ IsSent(r.command) /\ ~Answered(r.command)
                                              /\ JP!Applicable(r.command) /\ r.found = r.command.base
                                              /\ Shows(JP!History, r.command)'),
         \A r, s \in applied' \ applied : r = s,
         call'.phase = "answered" => Done(call.command)',
         call'.phase = "refused" => (applied' = applied /\ ~Answered(call.command) /\ JP!Outdated(call.command))
                                    \/ call.phase = "refused"
  PROVE  PageTypes' /\ PageInv'
  <1>1. PageTypes'
    BY DEF PageTypes
  <1>2. SeenInv'
    <2>1. SeenOf(page.shown)' /\ SeenOf(reading.history)'
      BY SeenGoesOn DEF PageInv, SeenInv, PageTypes, Pages, Reads
    <2> QED BY <2>1 DEF PageInv, SeenInv, OneDraft
  <1>3. ASSUME NEW c \in Commands, IsSent(c)' PROVE IsSent(c)
    BY <1>3 DEF IsSent
  <1>4. SentInv'
    BY <1>3, FitGoesOn DEF PageInv, SentInv
  <1>5. OpenInv'
    <2>1. page.confirmation.command \in Commands
      BY DEF PageTypes, Pages, Confirmations
    <2> QED BY <2>1, FitGoesOn DEF PageInv, OpenInv, JP!Dirty
  <1>6. AppliedInv'
    <2>1. \A r \in applied' : r.command \in Commands
      BY DEF ServiceTypes, Applied
    <2>2. ASSUME NEW r \in applied' PROVE r.found = r.command.base /\ Shows(JP!History, r.command)'
      <3>1. CASE r \in applied
        BY <2>1, <3>1, ResultStays DEF PageInv, AppliedInv
      <3>2. CASE r \notin applied
        BY <3>2
      <3> QED BY <3>1, <3>2
    <2>3. ASSUME NEW r \in applied', NEW s \in applied', r.command.key = s.command.key PROVE r = s
      <3>1. CASE r \in applied /\ s \in applied
        BY <2>3, <3>1 DEF PageInv, AppliedInv
      <3>2. CASE r \in applied /\ s \notin applied
        BY <2>3, <3>2 DEF Answered
      <3>3. CASE r \notin applied /\ s \in applied
        BY <2>3, <3>3 DEF Answered
      <3>4. CASE r \notin applied /\ s \notin applied
        BY <3>4
      <3> QED BY <3>1, <3>2, <3>3, <3>4
    <2>4. \A c \in Commands : Done(c) => Done(c)'
      BY DEF Done, Grows
    <2>5. attempt.command \in Commands /\ memory.told \in Commands
      BY DEF PageTypes, Attempts, Memories
    <2>6. call'.phase = "answered" => Done(call.command)'
      OBVIOUS
    <2> QED BY <2>2, <2>3, <2>4, <2>5, <2>6 DEF PageInv, AppliedInv, Done
  <1>7. RefusedInv'
    <2>1. call.command \in Commands /\ (call.phase # "none" => IsSent(call.command))
      BY DEF PageTypes, Calls, IsSent
    <2>2. ASSUME NEW c \in Commands, IsSent(c), ~Answered(c), JP!Outdated(c)
          PROVE ~Answered(c)' /\ JP!Outdated(c)'
      <3>1. JP!Outdated(c)'
        BY <2>2, OutdatedGoesOn DEF PageInv, SentInv
      <3>2. ASSUME NEW r \in applied', r.command.key = c.key PROVE FALSE
        <4>1. r.command \in Commands
          BY DEF ServiceTypes, Applied
        <4>2. r \notin applied
          BY <2>2, <3>2 DEF Answered
        <4>3. IsSent(r.command) /\ ~JP!Outdated(r.command)
          BY <3>2, <4>2 DEF JP!Applicable
        <4>4. r.command = c
          BY <2>2, <3>2, <4>1, <4>3 DEF PageInv, SentInv
        <4> QED BY <2>2, <4>3, <4>4
      <3> QED BY <3>1, <3>2 DEF Answered
    <2>3. ASSUME NEW c \in Commands, call'.phase = "refused", call'.command = c
          PROVE  ~Answered(c)' /\ JP!Outdated(c)'
      <3>1. ~Answered(c) /\ JP!Outdated(c)
        BY <2>3 DEF PageInv, RefusedInv
      <3>2. call.phase # "none"
        BY <2>3
      <3> QED BY <2>1, <2>2, <2>3, <3>1, <3>2
    <2>4. memory'.refused \subseteq 1..keys'
      BY DEF PageInv, RefusedInv
    <2>5. ASSUME NEW c \in Commands, IsSent(c)', c.key \in memory'.refused PROVE ~Answered(c)' /\ JP!Outdated(c)'
      BY <1>3, <2>2, <2>5 DEF PageInv, RefusedInv
    <2> QED BY <2>3, <2>4, <2>5 DEF RefusedInv
  <1>8. ShowInv'
    BY DEF PageInv, ShowInv, Grows, PageTypes, Pages, ServiceTypes
  <1>9. HandInv'
    BY DEF PageInv, HandInv, InHand, JP!NoCall, KeepsClosed
  <1>10. EditorInv'
    BY DEF PageInv, EditorInv
  <1> QED BY <1>1, <1>2, <1>4, <1>5, <1>6, <1>7, <1>8, <1>9, <1>10 DEF PageInv

\* What is written stays within the bounds.
LEMMA ApplyBounds ==
  ASSUME JP!JournalAssumption, ServiceTypes, BoundInv, NEW c \in Commands, c.id <= Len(drafts), c.op # "create" => c.id # 0,
         c.op # "none", JP!Applicable(c), JP!Apply(c), UNCHANGED <<basis, keys>>
  PROVE  BoundInv'
  <1>1. PICK n \in Nat : n = Len(drafts) /\ DOMAIN drafts = 1..n /\ drafts \in [1..n -> Drafts]
    BY DEF ServiceTypes
  <1>2. c.id \in Nat /\ c.source \in Nat
    BY DEF Commands
  <1>3. Len(drafts') <= MaxVersions /\ \A v \in 1..Len(drafts') : drafts'[v].revision <= MaxRevision
    BY DEF JP!Apply
  <1>4. basis' = basis /\ keys' = keys /\ (JP!Refers(c) => c.source \in 1..MaxSource)
    BY DEF BoundInv, JP!Applicable, JP!Outdated
  <1>5. MaxRevision \in Nat /\ MaxRevision >= 2 /\ \A v \in 1..n : drafts[v].revision \in 1..MaxRevision /\ drafts[v].source \in 1..MaxSource
    BY <1>1 DEF BoundInv, JP!JournalAssumption
  <1>6. \A v \in 1..Len(drafts') : drafts'[v].revision \in 1..MaxRevision /\ drafts'[v].source \in 1..MaxSource
    <2>1. CASE c.op = "create"
      <3> DEFINE d == JP!Version(JP!VersionOf(c.id).text, c.source)
      <3>1. d.revision = 1 /\ d.source \in 1..MaxSource
        BY <1>4, <2>1 DEF JP!Version, JP!Refers
      <3>2. drafts' = Append(drafts, d)
        BY <2>1 DEF JP!Apply
      <3> HIDE DEF d
      <3>3. Len(drafts') = n + 1 /\ drafts'[n + 1] = d /\ \A v \in 1..n : drafts'[v] = drafts[v]
        BY <1>1, <3>2
      <3> QED BY <1>1, <1>5, <3>1, <3>3
    <2>2. CASE c.op = "materialize"
      BY <1>1, <1>5, <2>2 DEF JP!Apply
    <2>3. CASE c.op \in {"save", "rebind", "finalize"}
      <3>1. c.id \in 1..n /\ drafts[c.id] \in Drafts
        BY <1>1, <1>2, <2>3
      <3>2. Len(drafts') = n /\ \A v \in 1..n : v # c.id => drafts'[v] = drafts[v]
        <4>1. c.op = "save" => drafts' = [drafts EXCEPT ![c.id] = [drafts[c.id] EXCEPT !.text = c.text, !.revision = @ + 1]]
          BY <1>1, <2>3, <3>1 DEF JP!Apply, Drafts
        <4>2. c.op = "rebind" => drafts' = [drafts EXCEPT ![c.id] = [drafts[c.id] EXCEPT !.source = c.source, !.revision = @ + 1]]
          BY <1>1, <2>3, <3>1 DEF JP!Apply, Drafts
        <4>3. c.op = "finalize" => drafts' = [drafts EXCEPT ![c.id] = [drafts[c.id] EXCEPT !.final = TRUE, !.revision = @ + 1]]
          BY <1>1, <2>3, <3>1 DEF JP!Apply, Drafts
        <4>4. PICK d : drafts' = [drafts EXCEPT ![c.id] = d]
          BY SMTT(30), <2>3, <4>1, <4>2, <4>3
        <4> QED BY <1>1, <3>1, <4>4
      <3>3. drafts'[c.id].revision = drafts[c.id].revision + 1
        BY <1>1, <2>3, <3>1 DEF JP!Apply, Drafts
      <3>4. drafts'[c.id].source = drafts[c.id].source \/ (drafts'[c.id].source = c.source /\ c.op = "rebind")
        BY <1>1, <2>3, <3>1 DEF JP!Apply, Drafts
      <3>5. c.op = "rebind" => JP!Refers(c)
        BY DEF JP!Refers
      <3>6. drafts'[c.id].revision \in 1..MaxRevision
        BY <1>1, <1>3, <1>5, <3>1, <3>2, <3>3
      <3> QED BY <1>1, <1>4, <1>5, <3>1, <3>2, <3>4, <3>5, <3>6
    <2> QED BY <2>1, <2>2, <2>3 DEF Commands, JournalOps
  <1>7. OneDraft(drafts')
    <2>1. \A v \in 1..n : v < n => drafts[v].final = TRUE
      BY <1>1 DEF BoundInv, OneDraft
    <2>2. CASE c.op = "create"
      <3>1. \A v \in 1..n : drafts[v].final = TRUE
        <4>1. n > 0 => drafts[n].final = TRUE
          BY <1>1, <2>2 DEF JP!Applicable, JP!Outdated, JP!Latest, ServiceTypes, Drafts
        <4> QED BY <2>1, <4>1
      <3>2. Len(drafts') = n + 1 /\ \A v \in 1..n : drafts'[v] = drafts[v]
        BY <1>1, <2>2 DEF JP!Apply
      <3> QED BY <3>1, <3>2 DEF OneDraft
    <2>3. CASE c.op = "materialize"
      BY <1>1, <2>1, <2>3 DEF JP!Apply, OneDraft
    <2>4. CASE c.op \in {"save", "rebind", "finalize"}
      <3>1. c.id \in 1..n /\ drafts[c.id] \in Drafts /\ ~drafts[c.id].final
        BY <1>1, <1>2, <2>4 DEF JP!Applicable, JP!Outdated
      <3>2. c.id = n
        BY <2>1, <3>1
      <3>3. PICK d : drafts' = [drafts EXCEPT ![c.id] = d]
        <4>1. c.op = "save" => drafts' = [drafts EXCEPT ![c.id] = [drafts[c.id] EXCEPT !.text = c.text, !.revision = @ + 1]]
          BY <1>1, <2>4, <3>1 DEF JP!Apply, Drafts
        <4>2. c.op = "rebind" => drafts' = [drafts EXCEPT ![c.id] = [drafts[c.id] EXCEPT !.source = c.source, !.revision = @ + 1]]
          BY <1>1, <2>4, <3>1 DEF JP!Apply, Drafts
        <4>3. c.op = "finalize" => drafts' = [drafts EXCEPT ![c.id] = [drafts[c.id] EXCEPT !.final = TRUE, !.revision = @ + 1]]
          BY <1>1, <2>4, <3>1 DEF JP!Apply, Drafts
        <4> QED BY <2>4, <4>1, <4>2, <4>3
      <3>4. Len(drafts') = n /\ \A v \in 1..n : v # c.id => drafts'[v] = drafts[v]
        BY <1>1, <3>1, <3>3
      <3>5. ASSUME NEW v \in 1..n, v < n PROVE drafts'[v].final = TRUE
        <4>1. v # c.id /\ drafts[v].final = TRUE
          BY <2>1, <3>2, <3>5
        <4>2. drafts'[v] = drafts[v]
          BY <3>4, <4>1
        <4> QED BY <4>1, <4>2
      <3> QED BY <1>1, <3>4, <3>5 DEF OneDraft
    <2> QED BY <2>2, <2>3, <2>4 DEF Commands, JournalOps
  <1> QED BY <1>3, <1>4, <1>6, <1>7 DEF BoundInv, OneDraft

\* A command that may be applied finds what was seen.
LEMMA FindsSeen ==
  ASSUME ServiceTypes, NEW c \in Commands, Fit(c), JP!Applicable(c)
  PROVE  JP!VersionOf(c.id) = c.base /\ c.base \in Drafts /\ c.id <= Len(drafts) /\ (c.op # "create" => c.id # 0) /\ c.op # "none"
  <1>1. c.base \in Drafts /\ c.id \in Nat
    BY DEF Commands
  <1>2. CASE c.op \in {"create", "materialize"}
    BY <1>1, <1>2 DEF Fit
  <1>3. CASE c.op \notin {"create", "materialize"}
    <2>1. c.op \in {"save", "rebind", "finalize"}
      BY <1>3 DEF Fit, Commands, JournalOps
    <2> QED BY <1>1, <2>1 DEF Fit, JP!Applicable, JP!Outdated, JP!VersionOf, Later
  <1> QED BY <1>1, <1>2, <1>3 DEF Fit

\* A command that is executed.
LEMMA ExecutionGoesOn ==
  ASSUME JP!JournalAssumption, JournalInv, NEW c \in Commands, IsSent(c), JP!Execute(c), UNCHANGED <<basis, keys>>
  PROVE  /\ ServiceTypes' /\ Grows /\ BoundInv' /\ Done(c)'
         /\ \A r \in applied' : r \in applied \/ (/\ IsSent(r.command) /\ ~Answered(r.command)
                                                 /\ JP!Applicable(r.command) /\ r.found = r.command.base
                                                 /\ Shows(JP!History, r.command)')
         /\ \A r, s \in applied' \ applied : r = s
  <1> USE DEF JournalInv
  <1>1. CASE JP!ReceiptFor(c) = {} /\ JP!Applicable(c)
    <2> DEFINE x == [command |-> c, found |-> JP!VersionOf(c.id)]
    <2>1. Fit(c)
      BY DEF PageInv, SentInv
    <2>2. JP!VersionOf(c.id) = c.base /\ c.base \in Drafts /\ c.id <= Len(drafts) /\ (c.op # "create" => c.id # 0) /\ c.op # "none"
      BY <1>1, <2>1, FindsSeen
    <2>3. x \in Applied /\ x.command = c /\ x.found = c.base
      BY <2>2 DEF Applied
    <2>4. JP!Apply(c) /\ applied' = applied \cup {x}
      BY <1>1 DEF JP!Execute
    <2>5. ~Answered(c)
      BY <1>1 DEF JP!ReceiptFor, Answered
    <2> HIDE DEF x
    <2>6. applied \subseteq applied' /\ applied' \subseteq Applied /\ x \in applied'
      BY <2>3, <2>4 DEF ServiceTypes
    <2>7. ServiceTypes' /\ Grows /\ Shows(JP!History, c)'
      BY <1>1, <2>2, <2>4, <2>6, ApplyGrows
    <2>8. BoundInv'
      BY <1>1, <2>2, <2>4, ApplyBounds
    <2>9. Done(c)'
      BY <2>3, <2>6 DEF Done
    <2>10. \A r \in applied' : r \in applied \/ r = x
      BY <2>4
    <2> QED BY <1>1, <2>3, <2>5, <2>7, <2>8, <2>9, <2>10
  <1>2. CASE JP!ReceiptFor(c) # {} /\ UNCHANGED <<drafts, proven, applied>>
    <2>1. PICK r \in applied : r.command.key = c.key
      BY <1>2 DEF JP!ReceiptFor
    <2>2. r.command = c
      BY <2>1 DEF PageInv, SentInv, IsSent, ServiceTypes, Applied
    <2>3. ServiceTypes' /\ BoundInv' /\ Done(c)'
      BY <1>2, <2>1, <2>2 DEF ServiceTypes, BoundInv, Done
    <2>4. Grows
      BY <1>2, LaterOn DEF Grows, ServiceTypes, Origins
    <2> QED BY <1>2, <2>3, <2>4
  <1> QED BY <1>1, <1>2 DEF JP!Execute

LEMMA ServeKeeps == ASSUME JP!JournalAssumption, JournalInv, JP!Serve PROVE JournalInv'
  <1> DEFINE c == call.command
  <1>1. call \in Calls /\ c \in Commands /\ IsSent(c) /\ call.phase = "sent"
    BY DEF JP!Serve, JournalInv, PageTypes, Calls, IsSent
  <1>2. UNCHANGED <<basis, keys, page, attempt, reading, late, memory>>
    BY DEF JP!Serve
  <1>3. CASE JP!Execute(c) /\ call' = [call EXCEPT !.phase = "answered"]
    <2>1. call' \in Calls /\ call'.command = c /\ call'.phase = "answered"
      BY <1>1, <1>3 DEF Calls
    <2>2. /\ ServiceTypes' /\ Grows /\ BoundInv' /\ Done(c)'
          /\ \A r \in applied' : r \in applied \/ (/\ IsSent(r.command) /\ ~Answered(r.command)
                                                  /\ JP!Applicable(r.command) /\ r.found = r.command.base
                                                  /\ Shows(JP!History, r.command)')
          /\ \A r, s \in applied' \ applied : r = s
      BY <1>1, <1>2, <1>3, ExecutionGoesOn
    <2>3. Done(call.command)'
      BY <2>1, <2>2 DEF Done
    <2>4. PageTypes' /\ PageInv'
      BY <1>1, <1>2, <2>1, <2>2, <2>3, ServiceGoesOn DEF JournalInv
    <2> QED BY <2>2, <2>4 DEF JournalInv
  <1>4. CASE JP!ReceiptFor(c) = {} /\ ~JP!Applicable(c) /\ UNCHANGED <<drafts, proven, applied>>
             /\ call' = [call EXCEPT !.phase = IF JP!Outdated(c) THEN "refused" ELSE "unready"]
    <2>1. /\ call' \in Calls /\ call'.command = c /\ call'.phase \in {"refused", "unready"}
          /\ call'.phase = "refused" => JP!Outdated(c)
      <3>1. CASE JP!Outdated(c)
        BY <1>1, <1>4, <3>1 DEF Calls
      <3>2. CASE ~JP!Outdated(c)
        BY <1>1, <1>4, <3>2 DEF Calls
      <3> QED BY <3>1, <3>2
    <2>2. ServiceTypes' /\ Grows /\ BoundInv'
      BY <1>2, <1>4, LaterOn DEF Grows, ServiceTypes, Origins, BoundInv, JournalInv
    <2>3. ~Answered(c)
      BY <1>4 DEF JP!ReceiptFor, Answered
    <2>4. PageTypes' /\ PageInv'
      BY <1>1, <1>2, <1>4, <2>1, <2>2, <2>3, ServiceGoesOn DEF JournalInv
    <2> QED BY <2>2, <2>4 DEF JournalInv
  <1> QED BY <1>3, <1>4 DEF JP!Serve

\* A request that nobody waits for arrives.
LEMMA ServeLostKeeps ==
  ASSUME JP!JournalAssumption, JournalInv, NEW c \in late, JP!ServeLost(c) PROVE JournalInv'
  <1>1. call \in Calls /\ c \in Commands /\ IsSent(c)
    BY DEF JournalInv, PageTypes, IsSent
  <1>2. UNCHANGED <<basis, keys, page, attempt, call, reading, memory>> /\ late' \subseteq late
    BY DEF JP!ServeLost
  <1>3. \A d \in Commands : Done(d) /\ applied \subseteq applied' => Done(d)'
    BY DEF Done
  <1>4. call.command \in Commands /\ (call.phase = "answered" => Done(call.command))
    BY <1>1 DEF Calls, JournalInv, PageInv, AppliedInv
  <1>5. CASE JP!Execute(c)
    <2>1. /\ ServiceTypes' /\ Grows /\ BoundInv' /\ Done(c)'
          /\ \A r \in applied' : r \in applied \/ (/\ IsSent(r.command) /\ ~Answered(r.command)
                                                  /\ JP!Applicable(r.command) /\ r.found = r.command.base
                                                  /\ Shows(JP!History, r.command)')
          /\ \A r, s \in applied' \ applied : r = s
      BY <1>1, <1>2, <1>5, ExecutionGoesOn
    <2>2. call'.phase = "answered" => Done(call.command)'
      <3>1. applied \subseteq applied' /\ call' = call
        BY <1>2, <2>1 DEF Grows
      <3> QED BY <1>4, <3>1 DEF Done
    <2>3. PageTypes' /\ PageInv'
      BY <1>1, <1>2, <2>1, <2>2, ServiceGoesOn DEF JournalInv
    <2> QED BY <2>1, <2>3 DEF JournalInv
  <1>6. CASE JP!ReceiptFor(c) = {} /\ ~JP!Applicable(c) /\ UNCHANGED <<drafts, proven, applied>>
    <2>1. ServiceTypes' /\ Grows /\ BoundInv'
      BY <1>2, <1>6, LaterOn DEF Grows, ServiceTypes, Origins, BoundInv, JournalInv
    <2>2. call'.phase = "answered" => Done(call.command)'
      BY <1>2, <1>4, <1>6 DEF Done
    <2>3. PageTypes' /\ PageInv'
      BY <1>1, <1>2, <1>6, <2>1, <2>2, ServiceGoesOn DEF JournalInv
    <2> QED BY <2>1, <2>3 DEF JournalInv
  <1> QED BY <1>5, <1>6 DEF JP!ServeLost

\* Another tab writes, which has no receipt here; or the review is followed by another.
LEMMA OthersKeep ==
  ASSUME JP!JournalAssumption, JournalInv, JP!OtherTab \/ JP!SourceChanges PROVE JournalInv'
  <1>1. call \in Calls /\ call.command \in Commands
    BY DEF JournalInv, PageTypes, Calls
  <1>2. UNCHANGED <<keys, page, attempt, call, late, reading, memory, applied>>
    BY DEF JP!OtherTab, JP!SourceChanges
  <1>3. call'.phase = "answered" => Done(call.command)'
    BY <1>1, <1>2 DEF Done, JournalInv, PageInv, AppliedInv
  <1>4. CASE JP!OtherTab
    <2>1. PICK op \in OtherOps, text \in Texted :
             LET c == JP!Command(op, JP!Latest, JP!VersionOf(JP!Latest), text, basis.version)
             IN  (op # "create" => JP!Latest > 0) /\ JP!Applicable(c) /\ JP!Apply(c)
      BY <1>4 DEF JP!OtherTab, Texted
    <2> DEFINE c == JP!Command(op, JP!Latest, JP!VersionOf(JP!Latest), text, basis.version)
    <2>2. Len(drafts) \in Nat /\ JP!VersionOf(JP!Latest) \in Drafts /\ basis.version \in Nat /\ op \in JournalOps /\ op # "none"
      <3>1. PICK n \in Nat : n = Len(drafts) /\ drafts \in [1..n -> Drafts]
        BY DEF JournalInv, ServiceTypes
      <3>2. JP!VersionOf(JP!Latest) \in Drafts
        BY <3>1, NothingYet DEF JP!VersionOf, JP!Latest
      <3>3. op \in JournalOps /\ op # "none" /\ basis.version \in Nat
        BY DEF JP!JournalAssumption, JournalOps, JournalInv, ServiceTypes, Origins
      <3> QED BY <3>1, <3>2, <3>3
    <2>3. c \in Commands /\ c.id = Len(drafts) /\ c.op = op
      BY <2>2 DEF JP!Command, Commands, JP!Latest, JournalInv, PageTypes
    <2>4. JP!Applicable(c) /\ JP!Apply(c) /\ (op # "create" => Len(drafts) > 0)
      BY <2>1 DEF JP!Latest
    <2> HIDE DEF c
    <2>5. UNCHANGED basis
      BY <1>4 DEF JP!OtherTab
    <2>6. ServiceTypes' /\ Grows
      BY <1>2, <2>2, <2>3, <2>4, <2>5, ApplyGrows DEF JournalInv, ServiceTypes
    <2>7. BoundInv'
      BY <1>2, <2>2, <2>3, <2>4, <2>5, ApplyBounds DEF JournalInv
    <2>8. PageTypes' /\ PageInv'
      BY <1>1, <1>2, <1>3, <2>6, ServiceGoesOn DEF JournalInv
    <2> QED BY <2>6, <2>7, <2>8 DEF JournalInv
  <1>5. CASE JP!SourceChanges
    <2>1. UNCHANGED <<drafts, proven>> /\ basis' \in Origins /\ basis'.version \in 1..MaxSource /\ basis.version <= basis'.version
      <3>1. basis \in Origins /\ basis.version \in 1..MaxSource /\ MaxSource \in Nat
        BY DEF JournalInv, ServiceTypes, BoundInv, JP!JournalAssumption
      <3>2. CASE basis' = [basis EXCEPT !.ready = ~basis.ready]
        <4>1. basis' \in Origins /\ basis'.version = basis.version
          BY <3>1, <3>2 DEF Origins
        <4>2. UNCHANGED <<drafts, proven>> /\ basis.version <= basis.version
          BY <1>5, <3>1 DEF JP!SourceChanges
        <4> QED BY <3>1, <4>1, <4>2
      <3>3. CASE basis.version < MaxSource /\ basis' = [version |-> basis.version + 1, ready |-> TRUE]
        BY <1>5, <3>1, <3>3 DEF JP!SourceChanges, Origins
      <3> QED BY <1>5, <3>2, <3>3 DEF JP!SourceChanges
    <2>2. ServiceTypes' /\ BoundInv' /\ Grows
      BY <1>2, <2>1, LaterOn DEF JournalInv, ServiceTypes, BoundInv, Grows
    <2>3. PageTypes' /\ PageInv'
      BY <1>1, <1>2, <1>3, <2>2, ServiceGoesOn DEF JournalInv
    <2> QED BY <2>2, <2>3 DEF JournalInv
  <1> QED BY <1>4, <1>5


\* A command that is sent for the first time.
Fresh(c) == Fit(c) /\ c.key = keys + 1 /\ keys' = keys + 1

\* What the page does leaves the service alone, and commands as they were sent.
LEMMA CommandsGoOn ==
  ASSUME JournalInv, UNCHANGED <<drafts, proven, basis, applied>>, PageTypes',
         \A c \in Commands : IsSent(c)' => IsSent(c) \/ Fresh(c),
         keys' = keys \/ (keys' = keys + 1 /\ \A c, d \in Commands : IsSent(c)' /\ IsSent(d)' /\ Fresh(c) /\ Fresh(d) => c = d),
         \A k \in memory'.refused : k \in memory.refused \/ (call.phase = "refused" /\ k = call.command.key),
         call'.phase \in {"answered", "refused"} => call' = call,
         memory'.told = memory.told \/ memory'.told = JP!NoCommand \/ (call.phase = "answered" /\ memory'.told = call.command),
         attempt'.outcome = "confirmed" => attempt' = attempt \/ (call.phase = "answered" /\ attempt'.command = call.command)
  PROVE  ServiceTypes' /\ SentInv' /\ AppliedInv' /\ RefusedInv'
  <1> USE DEF JournalInv
  <1>1. ServiceTypes'
    BY DEF ServiceTypes
  <1>2. keys \in Nat /\ keys' \in Nat /\ keys <= keys'
    BY DEF PageTypes
  <1>3. \A c \in Commands : Fit(c)' = Fit(c)
    BY DEF Fit, JP!VersionOf
  <1>4. \A c \in Commands : (Done(c)' <=> Done(c)) /\ (Answered(c)' <=> Answered(c)) /\ JP!Outdated(c)' = JP!Outdated(c)
    BY DEF Done, Answered, JP!Outdated, JP!Refers, JP!Latest
  <1>5. call.command \in Commands /\ call'.command \in Commands /\ attempt.command \in Commands /\ memory.told \in Commands
        /\ attempt'.command \in Commands /\ memory'.told \in Commands
    BY DEF PageTypes, Calls, Attempts, Memories
  <1>6. \A c \in Commands : IsSent(c) => Fit(c) /\ c.key \in 1..keys
    BY DEF PageInv, SentInv
  <1>7. SentInv'
    <2>1. ASSUME NEW c \in Commands, IsSent(c)' PROVE Fit(c)' /\ c.key \in 1..keys'
      BY <1>2, <1>3, <1>6, <2>1 DEF Fresh
    <2>2. ASSUME NEW c \in Commands, NEW d \in Commands, IsSent(c)', IsSent(d)', c.key = d.key PROVE c = d
      <3>1. CASE IsSent(c) /\ IsSent(d)
        BY <2>2, <3>1 DEF PageInv, SentInv
      <3>2. CASE Fresh(c) /\ Fresh(d)
        BY <1>2, <2>2, <3>2 DEF Fresh
      <3>3. CASE (IsSent(c) /\ Fresh(d)) \/ (Fresh(c) /\ IsSent(d))
        BY <1>2, <1>6, <2>2, <3>3 DEF Fresh
      <3> QED BY <2>2, <3>1, <3>2, <3>3
    <2> QED BY <2>1, <2>2 DEF SentInv
  <1>8. AppliedInv'
    <2>1. \A r \in applied' : r.found = r.command.base /\ Shows(JP!History, r.command)'
      BY DEF PageInv, AppliedInv, Shows, JP!History
    <2>2. \A r, s \in applied' : r.command.key = s.command.key => r = s
      BY DEF PageInv, AppliedInv
    <2>3. call'.phase = "answered" => Done(call.command) /\ call' = call
      BY DEF PageInv, AppliedInv
    <2>4. attempt'.outcome = "confirmed" => Done(attempt'.command)
      BY DEF PageInv, AppliedInv
    <2>5. memory'.told # JP!NoCommand => Done(memory'.told)
      BY DEF PageInv, AppliedInv
    <2>6. /\ call'.phase = "answered" => \E r \in applied' : r.command = call'.command
          /\ attempt'.outcome = "confirmed" => \E r \in applied' : r.command = attempt'.command
          /\ memory'.told # JP!NoCommand => \E r \in applied' : r.command = memory'.told
      BY <2>3, <2>4, <2>5 DEF Done
    <2> QED BY <2>1, <2>2, <2>6 DEF AppliedInv, Done, JP!NoCommand
  <1>9. RefusedInv'
    <2>1. call.phase = "refused" => IsSent(call.command) /\ ~Answered(call.command) /\ JP!Outdated(call.command)
      BY <1>5 DEF PageInv, RefusedInv, IsSent
    <2>2. memory.refused \subseteq 1..keys /\ \A c \in Commands : IsSent(c) /\ c.key \in memory.refused => ~Answered(c) /\ JP!Outdated(c)
      BY DEF PageInv, RefusedInv
    <2>3. memory'.refused \subseteq 1..keys
      BY <1>5, <1>6, <2>1, <2>2
    <2>4. ASSUME NEW c \in Commands, call'.phase = "refused", call'.command = c PROVE ~Answered(c)' /\ JP!Outdated(c)'
      BY <1>4, <2>1, <2>4
    <2>5. ASSUME NEW c \in Commands, IsSent(c)', c.key \in memory'.refused PROVE ~Answered(c)' /\ JP!Outdated(c)'
      <3>1. IsSent(c)
        BY <1>2, <2>3, <2>5 DEF Fresh
      <3>2. CASE c.key \in memory.refused
        BY <1>4, <2>2, <3>1, <3>2
      <3>3. CASE call.phase = "refused" /\ c.key = call.command.key
        <4>1. c = call.command
          BY <1>5, <2>1, <3>1, <3>3 DEF PageInv, SentInv
        <4> QED BY <1>4, <2>1, <3>3, <4>1
      <3> QED BY <2>5, <3>2, <3>3
    <2>6. memory'.refused \subseteq 1..keys'
      BY <1>2, <2>3
    <2> QED BY <2>4, <2>5, <2>6 DEF RefusedInv
  <1> QED BY <1>1, <1>7, <1>8, <1>9

\* The bounds of the page's commands.
LEMMA BoundsGoOn ==
  ASSUME BoundInv, UNCHANGED <<drafts, basis>>, keys' <= MaxCommands PROVE BoundInv'
  BY DEF BoundInv

\* The read of the journal is answered.
LEMMA ReadServedKeeps == ASSUME JP!JournalAssumption, JournalInv, JP!ServeRead PROVE JournalInv'
  <1> USE DEF JournalInv
  <1>1. UNCHANGED <<drafts, proven, basis, applied, page, attempt, call, late, keys, memory>>
    BY DEF JP!ServeRead
  <1>2. JP!History \in Histories /\ Len(drafts) \in Nat /\ \A v \in 1..Len(drafts) : drafts[v] \in Drafts
    BY DEF ServiceTypes, JP!History, Histories
  <1>3. reading' \in Reads /\ reading'.history = JP!History /\ reading'.phase = "answered" /\ reading'.confirms = reading.confirms
    BY <1>2 DEF JP!ServeRead, PageTypes, Reads
  <1>4. PageTypes'
    BY <1>1, <1>3 DEF PageTypes
  <1>5. \A c \in Commands : IsSent(c)' => IsSent(c)
    BY <1>1 DEF IsSent
  <1>6. ServiceTypes' /\ SentInv' /\ AppliedInv' /\ RefusedInv'
    BY <1>1, <1>4, <1>5, CommandsGoOn
  <1>7. SeenInv'
    <2>1. SeenOf(page.shown) /\ OneDraft(page.shown.versions)
      BY DEF PageInv, SeenInv
    <2>2. SeenOf(page.shown)' /\ OneDraft(page.shown.versions)'
      BY <1>1, <2>1 DEF SeenOf, OneDraft
    <2>3. JP!History.versions = drafts /\ JP!History.source = basis
      BY DEF JP!History
    <2>4. SeenOf(reading.history)' /\ OneDraft(reading.history.versions)'
      BY <1>1, <1>2, <1>3, <2>3, LaterOn DEF SeenOf, OneDraft, BoundInv, ServiceTypes, Origins
    <2>5. \A v \in 1..Len(page.shown.versions) : v <= Len(drafts) /\ Later(page.shown.versions[v], drafts[v])
      <3>1. Len(page.shown.versions) \in Nat
        BY DEF PageTypes, Pages, Histories
      <3> QED BY <1>2, <2>1, <3>1 DEF SeenOf
    <2> QED BY <1>1, <1>3, <2>2, <2>3, <2>4, <2>5 DEF SeenInv
  <1>8. OpenInv'
    BY <1>1 DEF PageInv, OpenInv, JP!Dirty, Fit, JP!VersionOf
  <1>9. ShowInv'
    <2>1. memory.told # JP!NoCommand => Shows(JP!History, memory.told)
      BY DEF PageInv, AppliedInv, Done
    <2> QED BY <1>1, <1>3, <2>1 DEF PageInv, ShowInv, JP!History, JP!NoCommand, Shows
  <1>10. HandInv'
    BY <1>1 DEF PageInv, HandInv, InHand, KeepsClosed
  <1>11. EditorInv'
    BY <1>1 DEF PageInv, EditorInv
  <1>12. BoundInv'
    BY <1>1, BoundsGoOn DEF BoundInv
  <1> QED BY <1>4, <1>6, <1>7, <1>8, <1>9, <1>10, <1>11, <1>12 DEF PageInv

\* Nothing that is unread was seen.
LEMMA UnreadIsSeen == ASSUME ServiceTypes PROVE SeenOf(JP!Unread) /\ OneDraft(JP!Unread.versions)
  BY NothingYet DEF SeenOf, OneDraft, ServiceTypes, Origins

\* A step that changes neither what the page shows nor what it edits.
LEMMA QuietKeeps ==
  ASSUME JournalInv, UNCHANGED <<drafts, proven, basis, applied, attempt, call, late, keys, memory>>,
         page' \in Pages, reading' \in Reads, page'.shown = page.shown, page'.selected = page.selected,
         page'.editor = page.editor, page'.open = page.open,
         page'.confirmation = page.confirmation \/ page'.confirmation = JP!NoConfirmation,
         call # JP!NoCall => page'.pending = TRUE, page'.status = "ready" => page.status = "ready",
         \/ reading'.history = reading.history /\ reading'.phase = reading.phase /\ reading'.confirms = reading.confirms
         \/ /\ reading'.history = JP!Unread /\ reading'.phase # "answered"
            /\ reading'.confirms = TRUE => attempt.outcome = "confirmed"
  PROVE  JournalInv'
  <1> USE DEF JournalInv
  <1>1. PageTypes'
    BY DEF PageTypes
  <1>2. \A c \in Commands : IsSent(c)' => IsSent(c)
    BY DEF IsSent
  <1>3. ServiceTypes' /\ SentInv' /\ AppliedInv' /\ RefusedInv'
    BY <1>1, <1>2, CommandsGoOn
  <1>4. SeenInv'
    <2>1. SeenOf(page.shown)' /\ OneDraft(page.shown.versions)'
      BY DEF PageInv, SeenInv, SeenOf, OneDraft
    <2>2. SeenOf(reading.history)' /\ OneDraft(reading.history.versions)'
      <3>1. CASE reading'.history = reading.history
        BY <3>1 DEF PageInv, SeenInv, SeenOf, OneDraft
      <3>2. CASE reading'.history = JP!Unread
        BY <3>2, UnreadIsSeen DEF SeenOf, OneDraft
      <3> QED BY <3>1, <3>2
    <2> QED BY <2>1, <2>2 DEF PageInv, SeenInv
  <1>5. OpenInv'
    <2>1. page'.confirmation # JP!NoConfirmation => page'.confirmation = page.confirmation
      OBVIOUS
    <2>2. page.confirmation # JP!NoConfirmation => ~JP!Dirty'
      BY DEF PageInv, OpenInv, JP!Dirty
    <2>3. page.confirmation # JP!NoConfirmation => Fit(page.confirmation.command)
      BY DEF PageInv, OpenInv
    <2>4. page'.confirmation # JP!NoConfirmation => Fit(page.confirmation.command)'
      BY <2>1, <2>3 DEF Fit, JP!VersionOf
    <2> QED BY <2>1, <2>2, <2>4 DEF PageInv, OpenInv, JP!NoConfirmation
  <1>6. ShowInv'
    BY DEF PageInv, ShowInv, Shows, JP!NoCommand
  <1>7. HandInv'
    BY DEF PageInv, HandInv, InHand, KeepsClosed, JP!NoCall, JP!NoAttempt, JP!NoEditor
  <1>8. EditorInv'
    BY DEF PageInv, EditorInv, JP!NoEditor, JP!Untyped
  <1>9. BoundInv'
    BY BoundsGoOn DEF BoundInv
  <1> QED BY <1>1, <1>3, <1>4, <1>5, <1>6, <1>7, <1>8, <1>9 DEF PageInv

\* A read begins, or fails, or will be followed by another; a confirmation is given up.
LEMMA ReadingKeeps ==
  ASSUME JournalInv, (\E discards \in BOOLEAN : JP!Load(discards)) \/ JP!Bump \/ JP!ReadFails \/ JP!CancelConfirmation
  PROVE  JournalInv'
  <1>1. page \in Pages /\ reading \in Reads /\ JP!NoRead \in Reads /\ JP!Asked \in Reads /\ JP!NoConfirmation \in Confirmations
        /\ (call # JP!NoCall => page.pending = TRUE)
    BY NothingYet DEF JournalInv, PageTypes, PageInv, HandInv
  <1>2. JP!NoRead.history = JP!Unread /\ JP!Asked.history = JP!Unread /\ JP!NoRead.phase # "answered"
        /\ JP!Asked.phase # "answered" /\ JP!NoRead.confirms = FALSE
    BY NothingYet
  <1>3. ASSUME NEW discards \in BOOLEAN, JP!Load(discards) PROVE JournalInv'
    <2>1. UNCHANGED <<drafts, proven, basis, applied, attempt, call, late, keys, memory>> /\ ~page.pending
          /\ page' = [page EXCEPT !.status = "loading"]
          /\ reading' = [JP!Asked EXCEPT !.confirms = (attempt.outcome = "confirmed"), !.discards = discards]
      BY <1>3 DEF JP!Load, JP!Begin
    <2>2. /\ page' \in Pages /\ page'.shown = page.shown /\ page'.selected = page.selected /\ page'.editor = page.editor
          /\ page'.open = page.open /\ page'.confirmation = page.confirmation /\ page'.status = "loading" /\ page'.pending = page.pending
      BY <1>1, <2>1 DEF Pages
    <2>3. /\ reading' \in Reads /\ reading'.history = JP!Unread /\ reading'.phase # "answered"
          /\ reading'.confirms = TRUE => attempt.outcome = "confirmed"
      BY <1>1, <1>2, <2>1 DEF Reads
    <2> QED BY <1>1, <2>1, <2>2, <2>3, QuietKeeps
  <1>4. CASE JP!Bump
    <2>1. UNCHANGED <<drafts, proven, basis, applied, page, attempt, call, late, keys, memory>>
          /\ reading' = [reading EXCEPT !.behind = TRUE]
      BY <1>4 DEF JP!Bump
    <2>2. reading' \in Reads /\ reading'.history = reading.history /\ reading'.phase = reading.phase /\ reading'.confirms = reading.confirms
      BY <1>1, <2>1 DEF Reads
    <2> QED BY <1>1, <2>1, <2>2, QuietKeeps
  <1>5. CASE JP!ReadFails
    <2>1. UNCHANGED <<drafts, proven, basis, applied, attempt, call, late, keys, memory>> /\ reading' = JP!NoRead
          /\ page' = [page EXCEPT !.status = "error", !.pending = @ /\ call # JP!NoCall]
      BY <1>5 DEF JP!ReadFails
    <2>2. /\ page' \in Pages /\ page'.shown = page.shown /\ page'.selected = page.selected /\ page'.editor = page.editor
          /\ page'.open = page.open /\ page'.confirmation = page.confirmation /\ page'.status = "error"
          /\ page'.pending = (page.pending /\ call # JP!NoCall)
      BY <1>1, <2>1 DEF Pages
    <2> QED BY <1>1, <1>2, <2>1, <2>2, QuietKeeps
  <1>6. CASE JP!CancelConfirmation
    <2>1. UNCHANGED <<drafts, proven, basis, applied, attempt, call, reading, late, keys, memory>>
          /\ page' = [page EXCEPT !.confirmation = JP!NoConfirmation]
      BY <1>6 DEF JP!CancelConfirmation
    <2>2. /\ page' \in Pages /\ page'.shown = page.shown /\ page'.selected = page.selected /\ page'.editor = page.editor
          /\ page'.open = page.open /\ page'.confirmation = JP!NoConfirmation /\ page'.status = page.status /\ page'.pending = page.pending
      BY <1>1, <2>1 DEF Pages
    <2> QED BY <1>1, <2>1, <2>2, QuietKeeps
  <1> QED BY <1>3, <1>4, <1>5, <1>6

\* A step that changes only what the page edits or asks.
LEMMA EditingKeeps ==
  ASSUME JournalInv, UNCHANGED <<drafts, proven, basis, applied, attempt, call, reading, late, keys>>,
         page' \in Pages, memory' \in Memories, memory'.told = memory.told, memory'.refused = memory.refused,
         page'.shown = page.shown, page'.selected = page.selected, page'.open = page.open,
         page'.pending = page.pending, page'.status = page.status
  PROVE  /\ ServiceTypes' /\ PageTypes' /\ SeenInv' /\ SentInv' /\ AppliedInv' /\ RefusedInv' /\ ShowInv' /\ BoundInv'
         /\ \A c \in Commands : (InHand(c)' => InHand(c)) /\ Fit(c)' = Fit(c)
         /\ KeepsClosed' = KeepsClosed
  <1> USE DEF JournalInv
  <1>1. PageTypes'
    BY DEF PageTypes
  <1>2. \A c \in Commands : IsSent(c)' => IsSent(c)
    BY DEF IsSent
  <1>3. ServiceTypes' /\ SentInv' /\ AppliedInv' /\ RefusedInv'
    BY <1>1, <1>2, CommandsGoOn
  <1>4. SeenInv'
    BY DEF PageInv, SeenInv, SeenOf, OneDraft
  <1>5. ShowInv'
    BY DEF PageInv, ShowInv, Shows, JP!NoCommand
  <1>6. BoundInv'
    BY BoundsGoOn DEF BoundInv
  <1>7. \A c \in Commands : (InHand(c)' => InHand(c)) /\ Fit(c)' = Fit(c)
    BY DEF InHand, Fit, JP!VersionOf
  <1>8. KeepsClosed' = KeepsClosed
    BY DEF KeepsClosed
  <1> QED BY <1>1, <1>3, <1>4, <1>5, <1>6, <1>7, <1>8

\* A page that may act has nothing under way, and is at a version that it shows.
LEMMA ActingPage ==
  ASSUME JournalInv, JP!CanAct
  PROVE  /\ \A c \in Commands : ~InHand(c)
         /\ attempt = JP!NoAttempt /\ call = JP!NoCall /\ page.pending = FALSE /\ reading.confirms = FALSE
         /\ page.selected \in 0..Len(page.shown.versions) /\ KeepsClosed /\ ~JP!Conflict /\ page.status = "ready"
         /\ JP!Entry \in Drafts
         /\ page.selected # 0 => JP!Entry = page.shown.versions[page.selected]
         /\ page.selected = 0 => JP!Entry = JP!NoVersion
  <1> USE DEF JournalInv
  <1>1. page.status = "ready" /\ ~page.pending /\ attempt = JP!NoAttempt /\ ~JP!Conflict
    BY DEF JP!CanAct
  <1>2. page \in Pages /\ page.pending \in BOOLEAN /\ page.selected \in Nat /\ page.shown.versions \in Seq(Drafts)
        /\ reading.confirms \in BOOLEAN
    BY DEF PageTypes, Pages, Histories, Reads
  <1>3. call = JP!NoCall /\ page.pending = FALSE
    BY <1>1, <1>2 DEF PageInv, HandInv
  <1>4. reading.confirms = FALSE /\ \A c \in Commands : ~InHand(c)
    BY <1>1, <1>2, <1>3, NothingYet DEF PageInv, ShowInv, InHand
  <1>5. page.selected \in 0..Len(page.shown.versions)
    BY <1>1, <1>2 DEF PageInv, ShowInv
  <1>6. KeepsClosed
    BY <1>2, <1>5 DEF PageInv, EditorInv, KeepsClosed
  <1>7. /\ page.selected # 0 => JP!Entry = page.shown.versions[page.selected] /\ JP!Entry \in Drafts
        /\ page.selected = 0 => JP!Entry = JP!NoVersion /\ JP!Entry \in Drafts
    BY <1>2, <1>5, NothingYet DEF JP!Entry, JP!Shown
  <1> QED BY <1>1, <1>3, <1>4, <1>5, <1>6, <1>7

\* A draft is opened for editing.
LEMMA EditKeeps == ASSUME JournalInv, JP!Edit PROVE JournalInv'
  <1>1. /\ JP!CanAct /\ page.confirmation = JP!NoConfirmation /\ page.editor = JP!NoEditor
        /\ JP!Entry # JP!NoVersion /\ ~JP!Entry.final
        /\ UNCHANGED <<drafts, proven, basis, applied, attempt, call, reading, late, keys, memory>>
    BY DEF JP!Edit
  <1>2. /\ \A c \in Commands : ~InHand(c)
        /\ page.selected \in 0..Len(page.shown.versions) /\ KeepsClosed
        /\ JP!Entry \in Drafts /\ page.selected # 0 /\ JP!Entry = page.shown.versions[page.selected]
    BY <1>1, ActingPage
  <1>3. page \in Pages /\ memory \in Memories
    BY DEF JournalInv, PageTypes
  <1> DEFINE e == [base |-> JP!Entry, text |-> JP!Entry.text]
  <1>4. e \in Editors /\ e.base = JP!Entry /\ e.text = e.base.text
    BY <1>2 DEF Editors, Drafts
  <1>5. page' = [page EXCEPT !.editor = e]
    BY DEF JP!Edit
  <1> HIDE DEF e
  <1>6. /\ page' \in Pages /\ page'.shown = page.shown /\ page'.selected = page.selected /\ page'.open = page.open
        /\ page'.pending = page.pending /\ page'.status = page.status /\ page'.editor = e
        /\ page'.confirmation = page.confirmation
    BY <1>3, <1>4, <1>5 DEF Pages
  <1>7. /\ ServiceTypes' /\ PageTypes' /\ SeenInv' /\ SentInv' /\ AppliedInv' /\ RefusedInv' /\ ShowInv' /\ BoundInv'
        /\ \A c \in Commands : (InHand(c)' => InHand(c)) /\ Fit(c)' = Fit(c)
        /\ KeepsClosed' = KeepsClosed
    BY <1>1, <1>3, <1>6, EditingKeeps
  <1>8. OpenInv'
    BY <1>1, <1>6 DEF OpenInv, JP!NoConfirmation
  <1>9. HandInv'
    <2>1. /\ call.phase = "none" => call = JP!NoCall
          /\ attempt.outcome = "none" => attempt = JP!NoAttempt
          /\ call # JP!NoCall => page.pending = TRUE
          /\ attempt.outcome = "confirmed" => call = JP!NoCall
      BY DEF JournalInv, PageInv, HandInv
    <2>2. \A c \in Commands : ~InHand(c)'
      BY <1>2, <1>7
    <2> QED BY <1>1, <1>6, <2>1, <2>2 DEF HandInv, JP!NoCall, JP!NoAttempt
  <1>10. EditorInv'
    <2>1. page.open # page.selected
      BY <1>1, <1>2 DEF KeepsClosed
    <2>2. JP!Entry.final = FALSE
      BY <1>1, <1>2 DEF Drafts
    <2>3. memory.typed = JP!Untyped
      BY <1>1 DEF JournalInv, PageInv, EditorInv
    <2>4. page'.editor # JP!NoEditor =>
             page'.open # page'.selected /\ page'.editor.base.final = FALSE /\ page'.selected # 0
      BY <1>2, <1>4, <1>6, <2>1, <2>2
    <2>5. memory'.typed = JP!Untyped
      BY <1>1, <2>3
    <2> QED BY <1>2, <1>6, <2>1, <2>4, <2>5 DEF EditorInv, JP!NoEditor, JP!Untyped
  <1> QED BY <1>7, <1>8, <1>9, <1>10 DEF JournalInv, PageInv

\* The user types.
LEMMA TypeKeeps ==
  ASSUME JournalInv, NEW text \in Texts, JP!Type(text) PROVE JournalInv'
  <1>1. /\ page.editor # JP!NoEditor /\ page.confirmation = JP!NoConfirmation
        /\ UNCHANGED <<drafts, proven, basis, applied, attempt, call, reading, late, keys>>
        /\ page' = [page EXCEPT !.editor.text = text]
    BY DEF JP!Type
  <1>2. page \in Pages /\ memory \in Memories /\ text \in Texted /\ page.editor \in Editors /\ page.selected \in Nat
    BY DEF JournalInv, PageTypes, Texted, Pages
  <1> DEFINE e == [page.editor EXCEPT !.text = text]
             t == IF text = page.editor.base.text THEN JP!Untyped ELSE [text |-> text, id |-> page.selected]
  <1>3. e \in Editors /\ e.base = page.editor.base /\ e.text = text
    BY <1>2 DEF Editors
  <1>4. page' = [page EXCEPT !.editor = e]
    BY <1>1, <1>2 DEF Pages
  <1>5. t \in [text : Texted, id : Nat] /\ (t # JP!Untyped => t.text = text /\ t.id = page.selected /\ text # page.editor.base.text)
    BY <1>2 DEF JP!Untyped, Texted
  <1>6. memory' = [memory EXCEPT !.typed = t]
    BY DEF JP!Type
  <1> HIDE DEF e, t
  <1>7. /\ page' \in Pages /\ page'.shown = page.shown /\ page'.selected = page.selected /\ page'.open = page.open
        /\ page'.pending = page.pending /\ page'.status = page.status /\ page'.editor = e
        /\ page'.confirmation = page.confirmation
    BY <1>2, <1>3, <1>4 DEF Pages
  <1>8. memory' \in Memories /\ memory'.told = memory.told /\ memory'.refused = memory.refused /\ memory'.typed = t
    BY <1>2, <1>5, <1>6 DEF Memories
  <1>9. /\ ServiceTypes' /\ PageTypes' /\ SeenInv' /\ SentInv' /\ AppliedInv' /\ RefusedInv' /\ ShowInv' /\ BoundInv'
        /\ \A c \in Commands : (InHand(c)' => InHand(c)) /\ Fit(c)' = Fit(c)
        /\ KeepsClosed' = KeepsClosed
    BY <1>1, <1>7, <1>8, EditingKeeps
  <1>10. OpenInv'
    BY <1>1, <1>7 DEF OpenInv, JP!NoConfirmation
  <1>11. HandInv'
    <2>1. /\ call.phase = "none" => call = JP!NoCall
          /\ attempt.outcome = "none" => attempt = JP!NoAttempt
          /\ call # JP!NoCall => page.pending = TRUE
          /\ attempt.outcome = "confirmed" => call = JP!NoCall
      BY DEF JournalInv, PageInv, HandInv
    <2>2. \A c \in Commands : InHand(c)' =>
             KeepsClosed /\ c.op # "create" /\ c.id = page.selected /\ (c.op = "rebind" => page.editor.base = c.base)
      BY <1>1, <1>9 DEF JournalInv, PageInv, HandInv
    <2>3. \A c \in Commands : InHand(c)' =>
             KeepsClosed' /\ c.op # "create" /\ c.id = page'.selected /\ (c.op = "rebind" => page'.editor.base = c.base)
      BY <1>3, <1>7, <1>9, <2>2
    <2> QED BY <1>1, <1>7, <2>1, <2>3 DEF HandInv, JP!NoCall, JP!NoAttempt, JP!NoEditor
  <1>12. EditorInv'
    <2>1. page.open # page.selected /\ page.editor.base.final = FALSE /\ page.selected # 0
      BY <1>1 DEF JournalInv, PageInv, EditorInv
    <2>2. t # JP!Untyped => e # JP!NoEditor
      BY <1>3, <1>5, NothingYet DEF JP!NoEditor, JP!NoVersion, JP!Version
    <2>3. /\ page'.open # page'.selected /\ page'.selected # 0 /\ page'.editor.base.final = FALSE
      BY <1>3, <1>7, <2>1
    <2>4. memory'.typed # JP!Untyped =>
          /\ page'.editor # JP!NoEditor /\ page'.editor.text = memory'.typed.text
          /\ memory'.typed.id = page'.selected /\ memory'.typed.text # page'.editor.base.text
      BY <1>3, <1>5, <1>7, <1>8, <2>2
    <2> QED BY <2>3, <2>4 DEF EditorInv, JP!NoEditor, JP!Untyped
  <1> QED BY <1>9, <1>10, <1>11, <1>12 DEF JournalInv, PageInv

\* Editing is given up.
LEMMA CancelEditKeeps == ASSUME JournalInv, JP!CancelEdit PROVE JournalInv'
  <1>1. /\ page.confirmation = JP!NoConfirmation
        /\ UNCHANGED <<drafts, proven, basis, applied, attempt, call, reading, late, keys>>
        /\ page' = [page EXCEPT !.editor = JP!NoEditor, !.reconcile = FALSE]
        /\ memory' = [memory EXCEPT !.typed = JP!Untyped]
    BY DEF JP!CancelEdit
  <1>2. page \in Pages /\ memory \in Memories /\ JP!NoEditor \in Editors /\ JP!Untyped \in [text : Texted, id : Nat]
    BY NothingYet DEF JournalInv, PageTypes, JP!Untyped
  <1>3. /\ page' \in Pages /\ page'.shown = page.shown /\ page'.selected = page.selected /\ page'.open = page.open
        /\ page'.pending = page.pending /\ page'.status = page.status /\ page'.editor = JP!NoEditor
        /\ page'.confirmation = page.confirmation
    BY <1>1, <1>2 DEF Pages
  <1>4. memory' \in Memories /\ memory'.told = memory.told /\ memory'.refused = memory.refused /\ memory'.typed = JP!Untyped
    BY <1>1, <1>2 DEF Memories
  <1>5. /\ ServiceTypes' /\ PageTypes' /\ SeenInv' /\ SentInv' /\ AppliedInv' /\ RefusedInv' /\ ShowInv' /\ BoundInv'
        /\ \A c \in Commands : (InHand(c)' => InHand(c)) /\ Fit(c)' = Fit(c)
        /\ KeepsClosed' = KeepsClosed
    BY <1>1, <1>3, <1>4, EditingKeeps
  <1>6. OpenInv'
    BY <1>1, <1>3 DEF OpenInv, JP!NoConfirmation
  <1>7. HandInv'
    BY <1>1, <1>3, <1>5 DEF JournalInv, PageInv, HandInv, JP!NoCall, JP!NoAttempt, JP!NoEditor
  <1>8. EditorInv'
    BY <1>3, <1>4 DEF JournalInv, PageInv, EditorInv, JP!NoEditor, JP!Untyped
  <1> QED BY <1>5, <1>6, <1>7, <1>8 DEF JournalInv, PageInv

\* The user is asked to confirm a command, which is made for what the page shows.
LEMMA OpenKeeps ==
  ASSUME JournalInv, NEW op \in {"create", "rebind", "finalize", "materialize"}, JP!OpenConfirmation(op)
  PROVE  JournalInv'
  <1> DEFINE id == IF op = "create" THEN Len(page.shown.versions) ELSE page.selected
             base == IF id = 0 THEN JP!NoVersion ELSE page.shown.versions[id]
             c == JP!Command(op, id, base, base.text, page.shown.source.version)
             w == [command |-> c, current |-> JP!Current(base)]
  <1>1. /\ JP!CanAct /\ ~JP!Dirty /\ JP!Offered(op) /\ keys < MaxCommands
        /\ UNCHANGED <<drafts, proven, basis, applied, attempt, call, reading, late, keys, memory>>
        /\ page' = [page EXCEPT !.confirmation = w]
    BY DEF JP!OpenConfirmation, JP!ShownLatest, JP!Shown
  <1>2. page \in Pages /\ memory \in Memories /\ keys \in Nat /\ page.selected \in Nat /\ page.shown \in Histories
        /\ page.shown.versions \in Seq(Drafts) /\ page.shown.source \in Origins
    BY DEF JournalInv, PageTypes, Pages, Histories
  <1>3. /\ \A d \in Commands : ~InHand(d)
        /\ page.selected \in 0..Len(page.shown.versions) /\ JP!Entry \in Drafts
        /\ page.selected # 0 => JP!Entry = page.shown.versions[page.selected]
        /\ page.selected = 0 => JP!Entry = JP!NoVersion
    BY <1>1, ActingPage
  <1>4. id \in 0..Len(page.shown.versions) /\ base \in Drafts /\ (id # 0 => base = page.shown.versions[id])
        /\ (op # "create" => id = page.selected /\ base = JP!Entry)
    BY <1>2, <1>3, NothingYet
  <1>5. /\ op # "create" => id # 0
        /\ op \in {"create", "materialize"} /\ id # 0 => base.final = TRUE
        /\ op = "finalize" => page.shown.source.version = base.source
    <2>1. CASE op = "create"
      BY <1>1, <1>2, <1>4, <2>1 DEF JP!Offered, JP!ShownLatest, JP!Shown, Drafts
    <2>2. CASE op # "create"
      <3>1. id # 0
        BY <1>1, <1>3, <1>4, <2>2 DEF JP!Offered
      <3>2. op = "materialize" => base.final = TRUE
        BY <1>1, <1>4, <2>2 DEF JP!Offered, Drafts
      <3>3. op = "finalize" => page.shown.source.version = base.source
        BY <1>1, <1>4, <2>2 DEF JP!Offered, JP!Current
      <3> QED BY <2>2, <3>1, <3>2, <3>3
    <2> QED BY <2>1, <2>2
  <1> HIDE DEF id, base
  <1>6. c \in Commands /\ c.id = id /\ c.op = op /\ c.base = base /\ c.text = base.text /\ c.source = page.shown.source.version
        /\ c.key = keys + 1
    <2>1. base.text \in Texted /\ page.shown.source.version \in Nat /\ id \in Nat /\ op \in JournalOps /\ keys + 1 \in Nat
      BY <1>2, <1>4 DEF Drafts, Origins, JournalOps
    <2> QED BY <1>4, <2>1 DEF JP!Command, Commands
  <1> HIDE DEF c
  <1>7. Fit(c)
    <2>1. SeenOf(page.shown) /\ Len(page.shown.versions) \in Nat /\ Len(drafts) \in Nat
      BY <1>2 DEF JournalInv, PageInv, SeenInv, ServiceTypes
    <2>2. id <= Len(drafts) /\ c.source <= basis.version
      BY <1>4, <1>6, <2>1 DEF SeenOf
    <2>3. id # 0 => Later(base, drafts[id])
      BY <1>4, <2>1 DEF SeenOf
    <2>4. op \in {"create", "materialize"} => base = JP!VersionOf(id)
      <3>1. CASE id = 0
        BY <3>1 DEF JP!VersionOf, base
      <3>2. CASE id # 0
        BY <1>5, <2>3, <3>2 DEF JP!VersionOf, Later
      <3> QED BY <3>1, <3>2
    <2> QED BY <1>5, <1>6, <2>2, <2>3, <2>4 DEF Fit
  <1>8. w \in Confirmations /\ w.command = c
    BY <1>2, <1>4, <1>6 DEF Confirmations, JP!Current, Origins, Drafts
  <1> HIDE DEF w
  <1>9. /\ page' \in Pages /\ page'.shown = page.shown /\ page'.selected = page.selected /\ page'.open = page.open
        /\ page'.pending = page.pending /\ page'.status = page.status /\ page'.editor = page.editor
        /\ page'.confirmation = w
    BY <1>1, <1>2, <1>8 DEF Pages
  <1>10. /\ ServiceTypes' /\ PageTypes' /\ SeenInv' /\ SentInv' /\ AppliedInv' /\ RefusedInv' /\ ShowInv' /\ BoundInv'
         /\ \A d \in Commands : (InHand(d)' => InHand(d)) /\ Fit(d)' = Fit(d)
         /\ KeepsClosed' = KeepsClosed
    BY <1>1, <1>2, <1>9, EditingKeeps
  <1>11. OpenInv'
    <2>1. ~JP!Dirty'
      BY <1>1, <1>9 DEF JP!Dirty
    <2>2. PICK k \in Commands : k = c
      BY <1>6
    <2>3. page'.confirmation.command = k
      BY <1>8, <1>9, <2>2
    <2>4. Fit(k)'
      BY <1>7, <1>10, <2>2
    <2>5. Fit(page.confirmation.command)'
      BY <2>3, <2>4 DEF Fit, JP!VersionOf
    <2> QED BY <1>1, <1>4, <1>6, <1>9, <2>1, <2>2, <2>3, <2>5 DEF OpenInv
  <1>12. HandInv'
    BY <1>1, <1>3, <1>9, <1>10 DEF JournalInv, PageInv, HandInv, JP!NoCall, JP!NoAttempt, JP!NoEditor
  <1>13. EditorInv'
    BY <1>1, <1>9 DEF JournalInv, PageInv, EditorInv, JP!NoEditor, JP!Untyped
  <1> QED BY <1>10, <1>11, <1>12, <1>13 DEF JournalInv, PageInv

\* A command is sent, or sent again as it was.
LEMMA PerformKeeps ==
  ASSUME JP!JournalAssumption, JournalInv, NEW c \in Commands, JP!Perform(c), call = JP!NoCall, reading.confirms = FALSE, KeepsClosed,
         IF c.op = "create" THEN page.editor = JP!NoEditor ELSE c.id = page.selected,
         c.op = "rebind" /\ page.editor # JP!NoEditor => page.editor.base = c.base,
         (IsSent(c) /\ keys' = keys) \/ (Fresh(c) /\ attempt = JP!NoAttempt /\ keys < MaxCommands)
  PROVE  JournalInv'
  <1> USE DEF JournalInv
  <1>1. /\ UNCHANGED <<drafts, proven, basis, applied, reading, late, memory>>
        /\ page' = [page EXCEPT !.pending = TRUE, !.confirmation = JP!NoConfirmation]
        /\ attempt' = [outcome |-> "running", command |-> c] /\ call' = [phase |-> "sent", command |-> c]
    BY DEF JP!Perform
  <1>2. page \in Pages /\ keys \in Nat /\ keys' \in Nat /\ keys' <= MaxCommands
    BY DEF PageTypes, Fresh, BoundInv, JP!JournalAssumption
  <1>3. /\ page' \in Pages /\ page'.shown = page.shown /\ page'.selected = page.selected /\ page'.open = page.open
        /\ page'.pending = TRUE /\ page'.status = page.status /\ page'.editor = page.editor
        /\ page'.confirmation = JP!NoConfirmation
    BY <1>1, <1>2, NothingYet DEF Pages
  <1>4. attempt' \in Attempts /\ attempt'.outcome = "running" /\ attempt'.command = c
        /\ call' \in Calls /\ call'.phase = "sent" /\ call'.command = c
    BY <1>1 DEF Attempts, Calls
  <1>5. PageTypes'
    BY <1>1, <1>2, <1>3, <1>4 DEF PageTypes
  <1>6. \A d \in Commands : IsSent(d)' => IsSent(d) \/ d = c
    BY <1>1, <1>4 DEF IsSent
  <1>7. ServiceTypes' /\ SentInv' /\ AppliedInv' /\ RefusedInv'
    <2>1. \A d \in Commands : IsSent(d)' => IsSent(d) \/ Fresh(d)
      BY <1>6
    <2>2. keys' = keys \/ (keys' = keys + 1 /\ \A d, e \in Commands : IsSent(d)' /\ IsSent(e)' /\ Fresh(d) /\ Fresh(e) => d = e)
      <3>1. CASE keys' = keys
        BY <3>1
      <3>2. CASE keys' # keys
        <4>1. \A d \in Commands : IsSent(d) => d.key \in 1..keys
          BY DEF PageInv, SentInv
        <4> QED BY <1>2, <1>6, <3>2, <4>1 DEF Fresh
      <3> QED BY <3>1, <3>2
    <2> QED BY <1>1, <1>4, <1>5, <2>1, <2>2, CommandsGoOn
  <1>8. SeenInv'
    BY <1>1, <1>3 DEF PageInv, SeenInv, SeenOf, OneDraft
  <1>9. OpenInv'
    BY <1>3 DEF OpenInv, JP!NoConfirmation
  <1>10. ShowInv'
    BY <1>1, <1>3 DEF PageInv, ShowInv, Shows, JP!NoCommand
  <1>11. HandInv'
    <2>1. \A d \in Commands : InHand(d)' => d = c
      BY <1>4 DEF InHand
    <2>2. KeepsClosed'
      BY <1>3 DEF KeepsClosed
    <2> QED BY <1>3, <1>4, <2>1, <2>2 DEF HandInv, JP!NoEditor
  <1>12. EditorInv'
    BY <1>1, <1>3 DEF PageInv, EditorInv, JP!NoEditor, JP!Untyped
  <1>13. BoundInv'
    BY <1>1, <1>2, BoundsGoOn
  <1> QED BY <1>5, <1>7, <1>8, <1>9, <1>10, <1>11, <1>12, <1>13 DEF PageInv

\* What was edited is saved.
LEMMA SaveKeeps == ASSUME JP!JournalAssumption, JournalInv, JP!Save PROVE JournalInv'
  <1> DEFINE c == JP!Command("save", page.selected, page.editor.base, page.editor.text, 0)
  <1>1. JP!CanAct /\ JP!Dirty /\ keys < MaxCommands /\ JP!Perform(c) /\ keys' = keys + 1
    BY DEF JP!Save
  <1>2. /\ attempt = JP!NoAttempt /\ call = JP!NoCall /\ reading.confirms = FALSE
        /\ page.selected \in 0..Len(page.shown.versions) /\ KeepsClosed /\ ~JP!Conflict
        /\ page.selected # 0 => JP!Entry = page.shown.versions[page.selected]
    BY <1>1, ActingPage
  <1>3. page.selected \in Nat /\ page.editor \in Editors /\ keys \in Nat /\ basis \in Origins
    BY DEF JournalInv, PageTypes, Pages, ServiceTypes
  <1>4. page.editor # JP!NoEditor /\ page.selected # 0 /\ page.editor.base = JP!Entry
    BY <1>1, <1>2 DEF JP!Dirty, JP!Conflict, JournalInv, PageInv, EditorInv
  <1>5. c \in Commands /\ c.id = page.selected /\ c.op = "save" /\ c.base = page.editor.base /\ c.source = 0 /\ c.key = keys + 1
    BY <1>3 DEF JP!Command, Commands, JournalOps, Editors
  <1> HIDE DEF c
  <1>6. Fit(c)
    <2>1. SeenOf(page.shown) /\ Len(page.shown.versions) \in Nat /\ Len(drafts) \in Nat
      BY DEF JournalInv, PageInv, SeenInv, ServiceTypes, PageTypes, Pages, Histories
    <2>2. c.id <= Len(drafts) /\ Later(c.base, drafts[c.id])
      BY <1>2, <1>4, <1>5, <2>1 DEF SeenOf
    <2> QED BY <1>3, <1>4, <1>5, <2>2 DEF Fit, Origins
  <1>7. Fresh(c)
    BY <1>1, <1>5, <1>6 DEF Fresh
  <1> QED BY <1>1, <1>2, <1>5, <1>7, PerformKeeps

\* What was confirmed is sent.
LEMMA ConfirmKeeps == ASSUME JP!JournalAssumption, JournalInv, JP!Confirm PROVE JournalInv'
  <1> DEFINE c == page.confirmation.command
  <1>1. JP!CanAct /\ page.confirmation # JP!NoConfirmation /\ JP!Confirmable(c, page.confirmation.current)
        /\ JP!Perform(c) /\ keys' = keys + 1
    BY DEF JP!Confirm
  <1>2. /\ attempt = JP!NoAttempt /\ call = JP!NoCall /\ reading.confirms = FALSE
        /\ page.selected \in 0..Len(page.shown.versions) /\ KeepsClosed /\ ~JP!Conflict
        /\ page.selected # 0 => JP!Entry = page.shown.versions[page.selected]
    BY <1>1, ActingPage
  <1>3. c \in Commands
    BY DEF JournalInv, PageTypes, Pages, Confirmations
  <1>4. Fit(c) /\ c.key = keys + 1 /\ keys < MaxCommands /\ (c.op # "create" => c.id = page.selected)
    BY <1>1 DEF JournalInv, PageInv, OpenInv
  <1>5. page.editor # JP!NoEditor => page.editor.base = JP!Entry /\ page.editor.base.final = FALSE /\ page.selected # 0
    BY <1>2 DEF JP!Conflict, JournalInv, PageInv, EditorInv
  <1>6. ASSUME c.op = "create" PROVE page.editor = JP!NoEditor
    <2> SUFFICES ASSUME page.editor # JP!NoEditor PROVE FALSE
      OBVIOUS
    <2>1. page.selected \in 1..Len(page.shown.versions) /\ page.shown.versions[page.selected].final = FALSE
          /\ Len(page.shown.versions) \in Nat /\ Len(page.shown.versions) > 0
      BY <1>2, <1>5 DEF JournalInv, PageTypes, Pages, Histories
    <2>2. page.shown.versions[Len(page.shown.versions)] \in Drafts
      BY <2>1 DEF JournalInv, PageTypes, Pages, Histories
    <2>3. page.shown.versions[Len(page.shown.versions)].final = TRUE
      BY <1>1, <1>6, <2>1, <2>2 DEF JP!Confirmable, JP!ShownLatest, JP!Shown, Drafts
    <2>4. OneDraft(page.shown.versions)
      BY DEF JournalInv, PageInv, SeenInv
    <2> QED BY <2>1, <2>3, <2>4 DEF OneDraft
  <1>7. c.op = "rebind" => JP!Entry = c.base
    BY <1>1 DEF JP!Confirmable
  <1>8. Fresh(c)
    BY <1>1, <1>4 DEF Fresh
  <1> HIDE DEF c
  <1> QED BY <1>1, <1>2, <1>3, <1>4, <1>5, <1>6, <1>7, <1>8, PerformKeeps

\* A command whose outcome is not known is sent again.
LEMMA RetryKeeps == ASSUME JP!JournalAssumption, JournalInv, JP!Retry PROVE JournalInv'
  <1>1. attempt.outcome = "unknown" /\ ~page.pending /\ JP!Perform(attempt.command) /\ keys' = keys
    BY DEF JP!Retry
  <1>2. attempt.command \in Commands /\ reading.confirms \in BOOLEAN
    BY DEF JournalInv, PageTypes, Attempts, Reads
  <1>3. call = JP!NoCall /\ reading.confirms = FALSE
    BY <1>1, <1>2 DEF JournalInv, PageInv, HandInv, ShowInv
  <1>4. InHand(attempt.command) /\ IsSent(attempt.command)
    BY <1>1 DEF InHand, IsSent
  <1> QED BY <1>1, <1>2, <1>3, <1>4, PerformKeeps DEF JournalInv, PageInv, HandInv

\* The page is told that its command was applied, and reads its result.
LEMMA ReceiptKeeps == ASSUME JournalInv, JP!Receipt PROVE JournalInv'
  <1> USE DEF JournalInv
  <1>1. /\ call.phase = "answered" /\ UNCHANGED <<drafts, proven, basis, applied, late, keys>>
        /\ call' = JP!NoCall /\ attempt' = [outcome |-> "confirmed", command |-> call.command]
        /\ memory' = [memory EXCEPT !.told = call.command]
        /\ reading' = [JP!Asked EXCEPT !.confirms = TRUE, !.discards = FALSE]
        /\ page' = [page EXCEPT !.status = "loading"]
    BY DEF JP!Receipt, JP!Begin
  <1>2. page \in Pages /\ memory \in Memories /\ call.command \in Commands /\ JP!Asked \in Reads
    BY NothingYet DEF PageTypes, Calls
  <1>3. /\ page' \in Pages /\ page'.shown = page.shown /\ page'.selected = page.selected /\ page'.open = page.open
        /\ page'.pending = page.pending /\ page'.status = "loading" /\ page'.editor = page.editor
        /\ page'.confirmation = page.confirmation
    BY <1>1, <1>2 DEF Pages
  <1>4. memory' \in Memories /\ memory'.told = call.command /\ memory'.refused = memory.refused /\ memory'.typed = memory.typed
    BY <1>1, <1>2 DEF Memories
  <1>5. reading' \in Reads /\ reading'.history = JP!Unread /\ reading'.phase = "asked"
    BY <1>1, <1>2, NothingYet DEF Reads
  <1>6. attempt' \in Attempts /\ attempt'.outcome = "confirmed" /\ attempt'.command = call.command /\ call' \in Calls
        /\ call'.phase = "none" /\ call' = JP!NoCall
    BY <1>1, <1>2, NothingYet DEF Attempts
  <1>7. PageTypes'
    BY <1>1, <1>3, <1>4, <1>5, <1>6 DEF PageTypes
  <1>8. \A c \in Commands : IsSent(c)' => IsSent(c)
    BY <1>1, <1>6 DEF IsSent
  <1>9. ServiceTypes' /\ SentInv' /\ AppliedInv' /\ RefusedInv'
    BY <1>1, <1>4, <1>6, <1>7, <1>8, CommandsGoOn
  <1>10. SeenInv'
    <2>1. SeenOf(page.shown)' /\ OneDraft(page.shown.versions)'
      BY <1>1, <1>3 DEF PageInv, SeenInv, SeenOf, OneDraft
    <2>2. SeenOf(reading.history)' /\ OneDraft(reading.history.versions)'
      BY <1>1, <1>5, UnreadIsSeen DEF SeenOf, OneDraft
    <2> QED BY <1>5, <2>1, <2>2 DEF SeenInv
  <1>11. OpenInv'
    BY <1>1, <1>3 DEF PageInv, OpenInv, Fit, JP!VersionOf, JP!Dirty, JP!NoConfirmation, JP!NoEditor
  <1>12. ShowInv'
    BY <1>1, <1>3, <1>5, <1>6 DEF PageInv, ShowInv
  <1>13. HandInv'
    <2>1. ASSUME NEW c \in Commands, InHand(c)' PROVE InHand(c)
      <3>1. c = call.command
        BY <1>6, <2>1 DEF InHand
      <3> QED BY <1>1, <3>1 DEF InHand
    <2>2. KeepsClosed' = KeepsClosed
      BY <1>3 DEF KeepsClosed
    <2>3. \A c \in Commands : InHand(c)' =>
          /\ KeepsClosed'
          /\ IF c.op = "create" THEN page'.editor = JP!NoEditor ELSE c.id = page'.selected
          /\ c.op = "rebind" /\ page'.editor # JP!NoEditor => page'.editor.base = c.base
      BY <1>3, <2>1, <2>2 DEF PageInv, HandInv
    <2> QED BY <1>6, <2>3 DEF HandInv, JP!NoCall, JP!NoEditor
  <1>14. EditorInv'
    BY <1>3, <1>4 DEF PageInv, EditorInv, JP!NoEditor, JP!Untyped
  <1>15. BoundInv'
    BY <1>1, BoundsGoOn DEF BoundInv
  <1> QED BY <1>7, <1>9, <1>10, <1>11, <1>12, <1>13, <1>14, <1>15 DEF PageInv

\* The page is told that its command was refused, or does not hear of it.
LEMMA EndKeeps == ASSUME JournalInv, JP!Refused \/ JP!NoAnswer PROVE JournalInv'
  <1> USE DEF JournalInv
  <1>1. /\ call.phase # "none" /\ UNCHANGED <<drafts, proven, basis, applied, reading, keys>>
        /\ call' = JP!NoCall /\ page' = [page EXCEPT !.pending = FALSE, !.status = "error"]
        /\ late' = late \/ late' = late \cup {call.command}
    BY DEF JP!Refused, JP!NoAnswer, JP!Orphan, PageInv, HandInv
  <1>2. page \in Pages /\ memory \in Memories /\ call.command \in Commands /\ late \subseteq Commands /\ reading.confirms \in BOOLEAN
        /\ call.command.key \in Nat
    BY DEF PageTypes, Calls, Reads, Commands
  <1>3. /\ page' \in Pages /\ page'.shown = page.shown /\ page'.selected = page.selected /\ page'.open = page.open
        /\ page'.pending = FALSE /\ page'.status = "error" /\ page'.editor = page.editor
        /\ page'.confirmation = page.confirmation
    BY <1>1, <1>2 DEF Pages
  <1>4. /\ memory' \in Memories /\ memory'.told = memory.told /\ memory'.typed = memory.typed
        /\ \A k \in memory'.refused : k \in memory.refused \/ (call.phase = "refused" /\ k = call.command.key)
    <2>1. CASE JP!Refused
      <3>1. \/ memory' = [memory EXCEPT !.refused = memory.refused \cup {call.command.key}] /\ call.phase = "refused"
            \/ memory' = memory
        BY <1>2, <2>1 DEF JP!Refused, Memories
      <3>2. memory.refused \cup {call.command.key} \subseteq Nat
        BY <1>2 DEF Memories
      <3> QED BY <1>2, <3>1, <3>2 DEF Memories
    <2>2. CASE JP!NoAnswer
      BY <1>2, <2>2 DEF JP!NoAnswer
    <2> QED BY <2>1, <2>2
  <1>5. /\ attempt' \in Attempts /\ (attempt'.outcome # "none" => attempt'.command = call.command) /\ attempt'.outcome \in {"none", "unknown"}
        /\ attempt'.outcome = "none" => attempt' = JP!NoAttempt
    <2>1. CASE JP!Refused
      BY <2>1, NothingYet DEF JP!Refused
    <2>2. CASE JP!NoAnswer
      BY <1>2, <2>2 DEF JP!NoAnswer, Attempts
    <2> QED BY <2>1, <2>2
  <1>6. call' \in Calls /\ call'.phase = "none" /\ late' \subseteq Commands
    BY <1>1, <1>2, NothingYet
  <1>7. PageTypes'
    BY <1>1, <1>3, <1>4, <1>5, <1>6 DEF PageTypes
  <1>8. ASSUME NEW c \in Commands PROVE (IsSent(c)' => IsSent(c)) /\ (InHand(c)' => InHand(c))
    <2>1. InHand(c)' => c = call.command
      BY <1>5, <1>6 DEF InHand
    <2>2. InHand(c)' => InHand(c)
      BY <1>1, <2>1 DEF InHand
    <2>3. IsSent(c)' => IsSent(c)
      BY <1>1, <1>5, <1>6 DEF IsSent
    <2> QED BY <2>2, <2>3
  <1>9. ServiceTypes' /\ SentInv' /\ AppliedInv' /\ RefusedInv'
    BY <1>1, <1>4, <1>5, <1>6, <1>7, <1>8, CommandsGoOn
  <1>10. SeenInv'
    BY <1>1, <1>3 DEF PageInv, SeenInv, SeenOf, OneDraft
  <1>11. OpenInv'
    BY <1>1, <1>3 DEF PageInv, OpenInv, Fit, JP!VersionOf, JP!Dirty, JP!NoConfirmation, JP!NoEditor
  <1>12. ShowInv'
    <2>1. reading.confirms = FALSE
      BY <1>1, <1>2, NothingYet DEF PageInv, ShowInv, HandInv
    <2> QED BY <1>1, <1>3, <1>4, <2>1 DEF PageInv, ShowInv, Shows, JP!NoCommand
  <1>13. HandInv'
    <2>1. KeepsClosed' = KeepsClosed
      BY <1>3 DEF KeepsClosed
    <2>2. \A c \in Commands : InHand(c)' =>
          /\ KeepsClosed'
          /\ IF c.op = "create" THEN page'.editor = JP!NoEditor ELSE c.id = page'.selected
          /\ c.op = "rebind" /\ page'.editor # JP!NoEditor => page'.editor.base = c.base
      BY <1>3, <1>8, <2>1 DEF PageInv, HandInv
    <2> QED BY <1>1, <1>5, <1>6, <2>2 DEF HandInv, JP!NoCall, JP!NoEditor, JP!NoAttempt
  <1>14. EditorInv'
    BY <1>3, <1>4 DEF PageInv, EditorInv, JP!NoEditor, JP!Untyped
  <1>15. BoundInv'
    BY <1>1, BoundsGoOn DEF BoundInv
  <1> QED BY <1>7, <1>9, <1>10, <1>11, <1>12, <1>13, <1>14, <1>15 DEF PageInv

\* A page as it is opened.
LEMMA BlankPage ==
  ASSUME NEW at \in Nat, NEW open \in Nat
  PROVE  /\ JP!Blank(at, open) \in Pages /\ JP!Blank(at, open).shown = JP!Unread /\ JP!Blank(at, open).selected = at
         /\ JP!Blank(at, open).open = open /\ JP!Blank(at, open).pending = FALSE /\ JP!Blank(at, open).status = "loading"
         /\ JP!Blank(at, open).editor = JP!NoEditor /\ JP!Blank(at, open).confirmation = JP!NoConfirmation
  BY NothingYet DEF JP!Blank, Pages

\* A page is opened anew, at a version that is there; nothing of what it did is in hand.
LEMMA OpenedKeeps ==
  ASSUME JournalInv, UNCHANGED <<drafts, proven, basis, applied, keys>>,
         NEW at \in 0..Len(drafts), NEW open \in Nat, at = 0 => open = 0,
         page' = JP!Blank(at, open), reading' = JP!Asked, attempt' = JP!NoAttempt, call' = JP!NoCall,
         late' = late \/ (late' = late \cup {call.command} /\ call.phase # "none"),
         memory' \in Memories, memory'.typed = JP!Untyped, memory'.refused = memory.refused,
         memory'.told = memory.told \/ memory'.told = JP!NoCommand
  PROVE  JournalInv'
  <1> USE DEF JournalInv
  <1>1. at \in Nat /\ at <= Len(drafts)
    BY DEF ServiceTypes
  <1>2. /\ page' \in Pages /\ page'.shown = JP!Unread /\ page'.selected = at /\ page'.open = open
        /\ page'.pending = FALSE /\ page'.status = "loading" /\ page'.editor = JP!NoEditor
        /\ page'.confirmation = JP!NoConfirmation
    BY ZenonT(30), <1>1, BlankPage
  <1>3. /\ reading' \in Reads /\ reading'.history = JP!Unread /\ reading'.phase = "asked" /\ reading'.confirms = FALSE
        /\ attempt' \in Attempts /\ attempt'.outcome = "none" /\ call' \in Calls /\ call'.phase = "none"
    BY NothingYet
  <1>4. PageTypes'
    BY <1>2, <1>3 DEF PageTypes, Calls
  <1>5. \A c \in Commands : IsSent(c)' => IsSent(c)
    BY <1>3 DEF IsSent
  <1>6. ServiceTypes' /\ SentInv' /\ AppliedInv' /\ RefusedInv'
    BY <1>3, <1>4, <1>5, CommandsGoOn
  <1>7. SeenInv'
    BY <1>2, <1>3, UnreadIsSeen DEF SeenInv, SeenOf, OneDraft
  <1>8. OpenInv'
    BY <1>2 DEF OpenInv, JP!NoConfirmation
  <1>9. ShowInv'
    BY <1>1, <1>2, <1>3 DEF ShowInv
  <1>10. HandInv'
    BY <1>2, <1>3 DEF HandInv, InHand, JP!NoCall, JP!NoAttempt
  <1>11. EditorInv'
    BY <1>2, NothingYet DEF EditorInv, JP!NoEditor, JP!Untyped
  <1>12. BoundInv'
    BY BoundsGoOn DEF BoundInv
  <1> QED BY <1>4, <1>6, <1>7, <1>8, <1>9, <1>10, <1>11, <1>12 DEF PageInv

\* Another version, a reload, or coming back.
LEMMA LeaveKeeps ==
  ASSUME JournalInv, NEW at \in 0..MaxVersions, JP!Leave(at) PROVE JournalInv'
  <1>1. PICK open \in (IF at = 0 THEN {0} ELSE {0, page.open}) : page' = JP!Blank(at, open)
    BY DEF JP!Leave
  <1>2. /\ at = 0 \/ at <= Len(page.shown.versions)
        /\ UNCHANGED <<drafts, proven, basis, applied, keys>>
        /\ reading' = JP!Asked /\ attempt' = JP!NoAttempt /\ call' = JP!NoCall
        /\ late' = late \/ (late' = late \cup {call.command} /\ call.phase # "none")
        /\ memory' = [memory EXCEPT !.typed = JP!Untyped, !.told = JP!NoCommand]
    BY DEF JP!Leave, JP!Orphan, JP!ShownLatest, JP!Shown
  <1>3. page.open \in Nat /\ memory \in Memories /\ Len(drafts) \in Nat /\ Len(page.shown.versions) <= Len(drafts)
        /\ Len(page.shown.versions) \in Nat
    BY DEF JournalInv, PageTypes, Pages, Histories, ServiceTypes, PageInv, SeenInv, SeenOf
  <1>4. at \in 0..Len(drafts) /\ open \in Nat /\ (at = 0 => open = 0)
    BY <1>1, <1>2, <1>3
  <1>5. memory' \in Memories /\ memory'.typed = JP!Untyped /\ memory'.refused = memory.refused /\ memory'.told = JP!NoCommand
    <2>1. JP!Untyped \in [text : Texted, id : Nat] /\ JP!NoCommand \in Commands
      BY NothingYet DEF JP!Untyped
    <2> QED BY <1>2, <1>3, <2>1 DEF Memories
  <1> QED BY <1>1, <1>2, <1>4, <1>5, OpenedKeeps

\* What is known of a command whose result is read.
LEMMA ConfirmedCommand ==
  ASSUME JournalInv, reading.confirms = TRUE
  PROVE  /\ attempt.command \in Commands /\ attempt.outcome = "confirmed" /\ InHand(attempt.command) /\ call = JP!NoCall
         /\ Fit(attempt.command) /\ Shows(JP!History, attempt.command) /\ KeepsClosed
         /\ IF attempt.command.op = "create" THEN page.editor = JP!NoEditor ELSE attempt.command.id = page.selected
         /\ attempt.command.op = "rebind" /\ page.editor # JP!NoEditor => page.editor.base = attempt.command.base
  <1> USE DEF JournalInv
  <1>1. attempt.command \in Commands /\ attempt.outcome = "confirmed"
    BY DEF PageTypes, Attempts, PageInv, ShowInv
  <1>2. InHand(attempt.command) /\ IsSent(attempt.command)
    BY <1>1 DEF InHand, IsSent
  <1>3. Fit(attempt.command)
    BY <1>1, <1>2 DEF PageInv, SentInv
  <1>4. Shows(JP!History, attempt.command)
    BY <1>1 DEF PageInv, AppliedInv, Done
  <1> QED BY <1>1, <1>2, <1>3, <1>4 DEF PageInv, HandInv

\* The result of a creation has been read: another address is opened.
LEMMA CreatedKeeps ==
  ASSUME JournalInv, JP!Arrive, reading.confirms = TRUE, attempt.command.op = "create" PROVE JournalInv'
  <1> DEFINE n == attempt.command.id + 1
  <1>1. /\ UNCHANGED <<drafts, proven, basis, applied, call, late, keys>>
        /\ page' = JP!Blank(n, n) /\ reading' = JP!Asked /\ attempt' = JP!NoAttempt
        /\ memory' = memory \/ memory' = [memory EXCEPT !.typed = JP!Untyped]
    BY DEF JP!Arrive
  <1>2. call = JP!NoCall /\ Shows(JP!History, attempt.command) /\ page.editor = JP!NoEditor /\ attempt.command.id \in Nat
    BY ConfirmedCommand DEF Commands
  <1>3. Len(drafts) > attempt.command.id /\ Len(drafts) \in Nat
    BY <1>2 DEF Shows, JP!History, JournalInv, ServiceTypes
  <1>4. n \in 0..Len(drafts) /\ n # 0 /\ n \in Nat
    BY <1>2, <1>3
  <1>5. memory.typed = JP!Untyped /\ memory \in Memories
    BY <1>2 DEF JournalInv, PageTypes, PageInv, EditorInv
  <1>6. memory' \in Memories /\ memory'.typed = JP!Untyped /\ memory'.refused = memory.refused /\ memory'.told = memory.told
    <2>1. JP!Untyped \in [text : Texted, id : Nat]
      BY <1>5 DEF Memories
    <2> QED BY <1>1, <1>5, <2>1 DEF Memories
  <1> HIDE DEF n
  <1> QED BY <1>1, <1>2, <1>4, <1>6, OpenedKeeps

\* What the page shows and edits after a read.
LEMMA ArrivedPage ==
  ASSUME JournalInv, JP!Arrive, ~(reading.confirms /\ attempt.command.op = "create")
  PROVE  LET h == reading.history
             sel == JP!SelectedAfter
             opens == sel # 0 /\ JP!OpensDraft(sel)
         IN  /\ UNCHANGED <<drafts, proven, basis, applied, call, late, keys>>
             /\ page' \in Pages /\ page'.shown = h /\ page'.selected = sel /\ sel \in 0..Len(h.versions)
             /\ page.selected # 0 => sel = page.selected
             /\ opens => page'.editor.base = h.versions[sel] /\ page'.editor.text = h.versions[sel].text /\ page'.open = 0
             /\ ~opens => page'.editor = JP!EditorAfter /\ page'.open = page.open
             /\ page'.confirmation = page.confirmation \/ page'.confirmation = JP!NoConfirmation
             /\ page'.pending = (page.pending /\ call # JP!NoCall)
             /\ (reading' = JP!Asked \/ reading' = JP!NoRead)
             /\ attempt' \in Attempts /\ (attempt' = attempt \/ attempt' = JP!NoAttempt)
             /\ memory' \in Memories /\ memory'.told = memory.told /\ memory'.refused = memory.refused
             /\ memory'.typed = IF reading.discards \/ (reading.confirms /\ JP!Disposes(attempt.command, memory.typed))
                                THEN JP!Untyped ELSE memory.typed
  <1> USE DEF JournalInv
  <1>1. /\ page \in Pages /\ reading \in Reads /\ memory \in Memories /\ attempt \in Attempts
        /\ reading.history \in Histories /\ reading.history.versions \in Seq(Drafts) /\ Len(reading.history.versions) \in Nat
        /\ page.selected \in Nat /\ page.editor \in Editors /\ page.open \in Nat /\ page.pending \in BOOLEAN
        /\ page.reconcile \in BOOLEAN /\ page.confirmation \in Confirmations
    BY DEF PageTypes, Pages, Reads, Histories
  <1>2. page.selected <= Len(reading.history.versions)
    BY DEF JP!Arrive, PageInv, ShowInv
  <1> DEFINE h == reading.history
             sel == JP!SelectedAfter
             opens == sel # 0 /\ JP!OpensDraft(sel)
             base == IF sel = 0 THEN JP!NoVersion ELSE h.versions[sel]
             again == page.pending /\ reading.behind /\ call = JP!NoCall
             ed == IF opens THEN [base |-> base, text |-> base.text] ELSE JP!EditorAfter
             op == IF opens THEN 0 ELSE page.open
             rec == IF reading.discards THEN FALSE
                    ELSE IF JP!Saves(attempt.command) THEN ~JP!Settled(attempt.command) ELSE page.reconcile
             con == IF reading.discards THEN JP!NoConfirmation ELSE page.confirmation
             pen == page.pending /\ call # JP!NoCall
             sta == IF again THEN "loading" ELSE "ready"
  <1>3. sel \in 0..Len(h.versions) /\ (page.selected # 0 => sel = page.selected)
    BY <1>1, <1>2 DEF JP!SelectedAfter
  <1>4. base \in Drafts /\ (sel # 0 => base = h.versions[sel])
    BY <1>1, <1>3, NothingYet
  <1>5. ed \in Editors /\ (opens => ed.base = base /\ ed.text = base.text) /\ (~opens => ed = JP!EditorAfter)
    <2>1. JP!EditorAfter \in Editors
      BY <1>1, NothingYet DEF JP!EditorAfter
    <2>2. [base |-> base, text |-> base.text] \in Editors
      BY <1>4 DEF Editors, Drafts
    <2> QED BY <2>1, <2>2
  <1>6. op \in Nat /\ rec \in BOOLEAN /\ con \in Confirmations /\ pen \in BOOLEAN /\ sta \in {"loading", "ready", "error"}
    BY <1>1, NothingYet
  <1>7. /\ page' = [page EXCEPT !.shown = h, !.selected = sel, !.editor = ed, !.open = op, !.reconcile = rec,
                                !.confirmation = con, !.pending = pen, !.status = sta]
        /\ reading' = IF again THEN JP!Asked ELSE JP!NoRead
    BY <1>1 DEF JP!Arrive
  <1>8. /\ UNCHANGED <<drafts, proven, basis, applied, call, late, keys>>
        /\ attempt' = attempt \/ attempt' = JP!NoAttempt
        /\ memory' = IF reading.discards \/ (reading.confirms /\ JP!Disposes(attempt.command, memory.typed))
                     THEN [memory EXCEPT !.typed = JP!Untyped] ELSE memory
    BY DEF JP!Arrive
  <1>9. sel \in Nat
    BY <1>1, <1>3
  <1>10. opens => op = 0
    OBVIOUS
  <1>11. ~opens => op = page.open
    OBVIOUS
  <1>12. con = page.confirmation \/ con = JP!NoConfirmation
    OBVIOUS
  <1> HIDE DEF h, sel, ed, op, rec, con, pen, sta, again, base
  <1>13. /\ page' \in Pages /\ page'.shown = h /\ page'.selected = sel /\ page'.editor = ed /\ page'.open = op
         /\ page'.confirmation = con /\ page'.pending = pen
    BY <1>1, <1>5, <1>6, <1>7, <1>9 DEF Pages, h
  <1>14. /\ memory' \in Memories /\ memory'.told = memory.told /\ memory'.refused = memory.refused
         /\ memory'.typed = IF reading.discards \/ (reading.confirms /\ JP!Disposes(attempt.command, memory.typed))
                            THEN JP!Untyped ELSE memory.typed
    <2>1. JP!Untyped \in [text : Texted, id : Nat]
      BY NothingYet DEF JP!Untyped
    <2> QED BY <1>1, <1>8, <2>1 DEF Memories
  <1>15. attempt' \in Attempts /\ (reading' = JP!Asked \/ reading' = JP!NoRead)
    BY <1>1, <1>7, <1>8, NothingYet
  <1> QED BY <1>3, <1>4, <1>5, <1>8, <1>10, <1>11, <1>12, <1>13, <1>14, <1>15 DEF h, sel, pen

\* The page shows what it has read.
LEMMA ArriveKeeps == ASSUME JournalInv, JP!Arrive PROVE JournalInv'
  <1> USE DEF JournalInv
  <1>1. CASE reading.confirms = TRUE /\ attempt.command.op = "create"
    BY <1>1, CreatedKeeps
  <1>2. CASE ~(reading.confirms = TRUE /\ attempt.command.op = "create")
    <2> DEFINE h == reading.history
               sel == JP!SelectedAfter
               opens == sel # 0 /\ JP!OpensDraft(sel)
    <2>1. reading.confirms \in BOOLEAN /\ h \in Histories /\ h.versions \in Seq(Drafts) /\ Len(h.versions) \in Nat
          /\ page.selected \in Nat /\ page.open \in Nat /\ Len(page.shown.versions) \in Nat
          /\ page.confirmation.command \in Commands
      BY DEF PageTypes, Reads, Pages, Histories, Confirmations
    <2>2. /\ UNCHANGED <<drafts, proven, basis, applied, call, late, keys>>
          /\ page' \in Pages /\ page'.shown = h /\ page'.selected = sel /\ sel \in 0..Len(h.versions)
          /\ page.selected # 0 => sel = page.selected
          /\ opens => page'.editor.base = h.versions[sel] /\ page'.editor.text = h.versions[sel].text /\ page'.open = 0
          /\ ~opens => page'.editor = JP!EditorAfter /\ page'.open = page.open
          /\ page'.confirmation = page.confirmation \/ page'.confirmation = JP!NoConfirmation
          /\ page'.pending = (page.pending /\ call # JP!NoCall)
          /\ (reading' = JP!Asked \/ reading' = JP!NoRead)
          /\ attempt' \in Attempts /\ (attempt' = attempt \/ attempt' = JP!NoAttempt)
          /\ memory' \in Memories /\ memory'.told = memory.told /\ memory'.refused = memory.refused
          /\ memory'.typed = IF reading.discards \/ (reading.confirms /\ JP!Disposes(attempt.command, memory.typed))
                             THEN JP!Untyped ELSE memory.typed
      BY <1>2, <2>1, ArrivedPage
    <2>3. reading' \in Reads /\ reading'.history = JP!Unread /\ reading'.phase # "answered" /\ reading'.confirms = FALSE
      BY <2>2, NothingYet
    <2>4. PageTypes'
      BY <2>2, <2>3 DEF PageTypes
    <2>5. \A c \in Commands : (InHand(c)' => InHand(c)) /\ (IsSent(c)' => IsSent(c))
      BY <2>2, NothingYet DEF InHand, IsSent
    <2>6. ServiceTypes' /\ SentInv' /\ AppliedInv' /\ RefusedInv'
      BY <2>2, <2>4, <2>5, NothingYet, CommandsGoOn
    <2>7. reading.phase = "answered" /\ SeenOf(h) /\ OneDraft(h.versions)
          /\ \A v \in 1..Len(page.shown.versions) : v <= Len(h.versions) /\ Later(page.shown.versions[v], h.versions[v])
      BY DEF JP!Arrive, PageInv, SeenInv
    <2>8. sel # 0 => h.versions[sel] \in Drafts
      BY <2>1, <2>2
    <2>9. opens => sel # 0 /\ sel = page.open /\ h.versions[sel].final = FALSE
      BY <2>8 DEF JP!OpensDraft, Drafts
    <2>10. ~opens /\ sel # 0 /\ sel = page.open => h.versions[sel].final = TRUE
      BY <2>8 DEF JP!OpensDraft, Drafts
    <2>11. page.selected = 0 => page.open = 0
      BY DEF PageInv, EditorInv
    <2>12. opens => page.selected # 0 /\ sel = page.selected /\ page.open = page.selected
      BY <2>2, <2>9, <2>11
    <2>13. SeenInv'
      <3>1. SeenOf(page.shown)' /\ OneDraft(page.shown.versions)'
        BY <2>2, <2>7 DEF SeenOf, OneDraft
      <3>2. SeenOf(reading.history)' /\ OneDraft(reading.history.versions)'
        BY <2>2, <2>3, UnreadIsSeen DEF SeenOf, OneDraft
      <3> QED BY <2>3, <3>1, <3>2 DEF SeenInv
    <2> HIDE DEF opens, sel, h
    <2>14. page'.editor = JP!NoEditor \/ page'.editor = page.editor \/ (opens /\ page'.editor.text = page'.editor.base.text)
      BY <2>2 DEF JP!EditorAfter
    <2>15. OpenInv'
      <3>1. CASE page'.confirmation = JP!NoConfirmation
        BY <3>1 DEF OpenInv, JP!NoConfirmation
      <3>2. CASE page'.confirmation = page.confirmation /\ page.confirmation # JP!NoConfirmation
        <4>1. Fit(page.confirmation.command) /\ ~JP!Dirty /\ page.confirmation.command.key = keys + 1 /\ keys < MaxCommands
              /\ page.confirmation.command.op # "save"
              /\ (page.confirmation.command.op # "create" => page.confirmation.command.id = page.selected)
          BY <3>2 DEF PageInv, OpenInv
        <4>2. Fit(page.confirmation.command)'
          BY <2>2, <3>2, <4>1 DEF Fit, JP!VersionOf
        <4>3. ~JP!Dirty'
          BY <2>14, <4>1 DEF JP!Dirty, JP!NoEditor
        <4>4. page.confirmation.command.op # "create" => page.confirmation.command.id = page'.selected
          BY <2>2, <4>1 DEF Fit
        <4> QED BY <2>2, <3>2, <4>1, <4>2, <4>3, <4>4 DEF OpenInv
      <3> QED BY <2>2, <3>1, <3>2
    <2>16. ShowInv'
      <3>1. Len(h.versions) <= Len(drafts) /\ Len(drafts) \in Nat
        BY <2>7 DEF SeenOf, ServiceTypes
      <3>2. memory.told # JP!NoCommand => Shows(h, memory.told)
        BY <2>7 DEF PageInv, ShowInv, h
      <3>3. memory'.told # JP!NoCommand => Shows(page.shown, memory.told)'
        BY <2>2, <3>2 DEF Shows
      <3> QED BY <2>1, <2>2, <2>3, <3>1, <3>3 DEF ShowInv, JP!NoCommand
    <2>17. ASSUME NEW c \in Commands, InHand(c)
           PROVE  ~opens /\ KeepsClosed' /\ c.op # "none" /\ (c.op # "create" => c.id = sel)
      <3>1. KeepsClosed /\ IsSent(c)
        BY <2>17 DEF PageInv, HandInv, InHand, IsSent
      <3>2. c.op # "create" => c.id # 0 /\ c.id = page.selected
        BY <2>17, <3>1 DEF PageInv, HandInv, SentInv, Fit
      <3>3. page.selected \in 1..Len(page.shown.versions) /\ page.shown.versions[page.selected].final = TRUE =>
               h.versions[page.selected] = page.shown.versions[page.selected]
        BY <2>7 DEF Later
      <3>4. ~opens
        BY <2>9, <2>12, <3>1, <3>3 DEF KeepsClosed
      <3>5. KeepsClosed'
        <4>1. CASE page.selected = 0
          BY <2>2, <2>11, <3>4, <4>1 DEF KeepsClosed
        <4>2. CASE page.selected # 0 /\ page.open = page.selected /\ page.open # 0
          BY <2>2, <2>10, <3>4, <4>2 DEF KeepsClosed
        <4>3. CASE page.selected # 0 /\ (page.open # page.selected \/ page.open = 0)
          BY <2>2, <3>4, <4>3 DEF KeepsClosed
        <4> QED BY <4>1, <4>2, <4>3
      <3>6. c.op # "none"
        BY <3>1 DEF PageInv, SentInv, Fit
      <3> QED BY <2>2, <3>2, <3>4, <3>5, <3>6
    <2>18. HandInv'
      <3>1. ASSUME NEW c \in Commands, InHand(c)'
            PROVE  /\ KeepsClosed'
                   /\ IF c.op = "create" THEN page'.editor = JP!NoEditor ELSE c.id = page'.selected
                   /\ c.op = "rebind" /\ page'.editor # JP!NoEditor => page'.editor.base = c.base
        <4>1. InHand(c)
          BY <2>5, <3>1
        <4>2. ~opens /\ KeepsClosed' /\ (c.op # "create" => c.id = sel)
          BY <2>17, <4>1
        <4>3. page'.editor = JP!NoEditor \/ page'.editor = page.editor
          BY <2>14, <4>2
        <4>4. /\ c.op = "create" => page.editor = JP!NoEditor
              /\ c.op = "rebind" /\ page.editor # JP!NoEditor => page.editor.base = c.base
          BY <4>1 DEF PageInv, HandInv
        <4> QED BY <2>2, <4>2, <4>3, <4>4
      <3>2. /\ call.phase = "none" => call = JP!NoCall
            /\ attempt.outcome = "none" => attempt = JP!NoAttempt
            /\ call # JP!NoCall => page.pending = TRUE
            /\ attempt.outcome = "confirmed" => call = JP!NoCall
        BY DEF PageInv, HandInv
      <3>3. call # JP!NoCall => page'.pending = TRUE
        BY <2>2, <3>2
      <3>4. (attempt'.outcome = "none" => attempt' = JP!NoAttempt) /\ (attempt'.outcome = "confirmed" => call = JP!NoCall)
        BY <2>2, <3>2, NothingYet
      <3> QED BY <2>2, <3>1, <3>2, <3>3, <3>4 DEF HandInv, JP!NoCall, JP!NoAttempt, JP!NoEditor
    <2>19. EditorInv'
      <3>1. /\ page.editor # JP!NoEditor =>
                 page.open # page.selected /\ page.editor.base.final = FALSE /\ page.selected # 0
            /\ memory.typed # JP!Untyped =>
                 /\ page.editor # JP!NoEditor /\ page.editor.text = memory.typed.text
                 /\ memory.typed.id = page.selected /\ memory.typed.text # page.editor.base.text
        BY DEF PageInv, EditorInv
      <3>2. page'.open # 0 /\ page'.open = page'.selected /\ page'.selected \in 1..Len(page'.shown.versions) =>
              page'.shown.versions[page'.selected].final = TRUE
        BY <2>2, <2>10
      <3>3. page'.selected = 0 => page'.open = 0
        BY <2>2, <2>11
      <3>4. page'.editor # JP!NoEditor =>
              page'.open # page'.selected /\ page'.editor.base.final = FALSE /\ page'.selected # 0
        <4>1. CASE opens
          BY <2>2, <2>9, <4>1
        <4>2. CASE ~opens
          BY <2>2, <2>14, <3>1, <4>2
        <4> QED BY <4>1, <4>2
      <3>5. ASSUME memory'.typed # JP!Untyped
            PROVE  /\ page'.editor # JP!NoEditor /\ page'.editor.text = memory'.typed.text
                   /\ memory'.typed.id = page'.selected /\ memory'.typed.text # page'.editor.base.text
        <4>1. memory'.typed = memory.typed /\ ~reading.discards /\ ~(reading.confirms /\ JP!Disposes(attempt.command, memory.typed))
          BY <2>2, <3>5
        <4>2. page.editor # JP!NoEditor /\ page.open # page.selected /\ page.selected # 0 /\ sel = page.selected
              /\ memory.typed.id = page.selected /\ page.editor.text = memory.typed.text
              /\ memory.typed.text # page.editor.base.text
          BY <2>2, <3>1, <3>5, <4>1
        <4>3. ~opens
          BY <2>12, <4>2
        <4>4. ~(reading.confirms /\ attempt.command.op = "finalize")
          BY <4>1 DEF JP!Disposes
        <4>5. ASSUME JP!Saves(attempt.command), JP!Settled(attempt.command) PROVE FALSE
          <5>1. reading.confirms = TRUE /\ attempt.command.op \in {"save", "rebind"} /\ page.editor.text = attempt.command.text
            BY <2>1, <4>2, <4>5 DEF JP!Saves, JP!Settled
          <5>2. attempt.command.id = page.selected /\ Fit(attempt.command)
                /\ (attempt.command.op = "rebind" => page.editor.base = attempt.command.base)
            BY <4>2, <5>1, ConfirmedCommand
          <5>3. CASE attempt.command.op = "save"
            BY <4>1, <4>2, <5>1, <5>2, <5>3 DEF JP!Disposes
          <5>4. CASE attempt.command.op = "rebind"
            BY <4>2, <5>1, <5>2, <5>4 DEF Fit
          <5> QED BY <5>1, <5>3, <5>4
        <4>6. page'.editor = page.editor
          BY <2>2, <4>1, <4>3, <4>4, <4>5 DEF JP!EditorAfter
        <4> QED BY <2>2, <4>1, <4>2, <4>6
      <3> QED BY <3>2, <3>3, <3>4, <3>5 DEF EditorInv, JP!NoEditor, JP!Untyped
    <2>20. BoundInv'
      BY <2>2, BoundsGoOn DEF BoundInv
    <2> QED BY <2>4, <2>6, <2>13, <2>15, <2>16, <2>18, <2>19, <2>20 DEF PageInv
  <1> QED BY <1>1, <1>2

\* At first.
LEMMA JournalStarts == ASSUME JP!JournalAssumption, JP!Init PROVE JournalInv
  <1>1. drafts \in Seq(Drafts) /\ Len(drafts) \in 0..1
        /\ \A v \in 1..Len(drafts) : drafts[v].revision \in 1..MaxRevision /\ drafts[v].source \in 1..MaxSource
    <2> DEFINE a == JP!Version("empty", 1)
               z == [a EXCEPT !.final = TRUE, !.revision = 2]
    <2>1. a \in Drafts /\ a.revision = 1 /\ a.source = 1 /\ z \in Drafts /\ z.revision = 2 /\ z.source = 1
      BY DEF JP!Version, Drafts, Texted
    <2>2. drafts = <<>> \/ drafts = <<a>> \/ drafts = <<z>>
      BY DEF JP!Init, JP!JournalAssumption
    <2>3. MaxRevision \in Nat /\ MaxRevision >= 2 /\ MaxSource \in Nat /\ MaxSource >= 1
      BY DEF JP!JournalAssumption
    <2> HIDE DEF a, z
    <2>4. CASE drafts = <<>>
      BY <2>4
    <2>5. CASE drafts = <<a>>
      BY <2>1, <2>3, <2>5
    <2>6. CASE drafts = <<z>>
      BY <2>1, <2>3, <2>6
    <2> QED BY <2>2, <2>4, <2>5, <2>6
  <1>2. /\ proven = {} /\ applied = {} /\ late = {} /\ keys = 0
        /\ basis = [version |-> 1, ready |-> TRUE]
        /\ page = JP!Blank(0, 0) /\ reading = JP!Asked
        /\ attempt = JP!NoAttempt /\ call = JP!NoCall
        /\ memory = [typed |-> JP!Untyped, told |-> JP!NoCommand, refused |-> {}]
    BY DEF JP!Init
  <1>3. /\ page \in Pages /\ page.shown = JP!Unread /\ page.selected = 0
        /\ page.open = 0 /\ page.pending = FALSE /\ page.status = "loading"
        /\ page.editor = JP!NoEditor /\ page.confirmation = JP!NoConfirmation
    <2>1. 0 \in Nat
      OBVIOUS
    <2> QED BY <1>2, <2>1, BlankPage
  <1>4. memory \in Memories /\ memory.typed = JP!Untyped /\ memory.told = JP!NoCommand /\ memory.refused = {}
    BY <1>2, NothingYet DEF Memories, JP!Untyped
  <1>5. basis \in Origins /\ basis.version = 1
    BY <1>2 DEF Origins
  <1>6. ServiceTypes
    BY <1>1, <1>2, <1>5 DEF ServiceTypes
  <1>7. PageTypes
    BY <1>2, <1>3, <1>4, NothingYet DEF PageTypes
  <1>8. SeenInv
    BY <1>2, <1>3, <1>6, NothingYet, UnreadIsSeen DEF SeenInv
  <1>9. \A c \in Commands : ~IsSent(c) /\ ~InHand(c)
    BY <1>2, NothingYet DEF IsSent, InHand
  <1>10. SentInv /\ OpenInv /\ AppliedInv /\ RefusedInv
    BY <1>2, <1>3, <1>4, <1>9, NothingYet DEF SentInv, OpenInv, AppliedInv, RefusedInv
  <1>11. ShowInv /\ HandInv /\ EditorInv
    BY <1>1, <1>2, <1>3, <1>4, <1>9, NothingYet DEF ShowInv, HandInv, EditorInv
  <1>12. BoundInv
    BY <1>1, <1>2, <1>5 DEF BoundInv, OneDraft, JP!JournalAssumption
  <1> QED BY <1>6, <1>7, <1>8, <1>10, <1>11, <1>12 DEF JournalInv, PageInv

\* The invariant of the journal and its page.
LEMMA JournalKeeps ==
  ASSUME JP!JournalAssumption, JournalInv, JP!Next \/ UNCHANGED JP!journalVars PROVE JournalInv'
  <1>1. CASE UNCHANGED JP!journalVars
    <2>1. UNCHANGED <<drafts, proven, basis, applied, page, attempt, call, reading, late, keys, memory>>
      BY <1>1 DEF JP!journalVars
    <2>2. page \in Pages /\ reading \in Reads /\ (call # JP!NoCall => page.pending = TRUE)
      BY DEF JournalInv, PageTypes, PageInv, HandInv
    <2> QED BY <2>1, <2>2, QuietKeeps
  <1>2. CASE JP!Next
    <2>1. CASE JP!Serve \/ JP!OtherTab \/ JP!SourceChanges \/ JP!ServeRead
      BY <2>1, ServeKeeps, OthersKeep, ReadServedKeeps
    <2>2. CASE \E c \in late : JP!ServeLost(c)
      BY <2>2, ServeLostKeeps
    <2>3. CASE (\E discards \in BOOLEAN : JP!Load(discards)) \/ JP!Bump \/ JP!ReadFails \/ JP!CancelConfirmation
      BY <2>3, ReadingKeeps
    <2>4. CASE JP!Edit \/ JP!CancelEdit
      BY <2>4, EditKeeps, CancelEditKeeps
    <2>5. CASE \E text \in Texts : JP!Type(text)
      BY <2>5, TypeKeeps
    <2>6. CASE \E op \in {"create", "rebind", "finalize", "materialize"} : JP!OpenConfirmation(op)
      BY <2>6, OpenKeeps
    <2>7. CASE JP!Save \/ JP!Confirm \/ JP!Retry
      BY <2>7, SaveKeeps, ConfirmKeeps, RetryKeeps
    <2>8. CASE JP!Receipt \/ JP!Refused \/ JP!NoAnswer \/ JP!Arrive
      BY <2>8, ReceiptKeeps, EndKeeps, ArriveKeeps
    <2>9. CASE \E at \in 0..MaxVersions : JP!Leave(at)
      BY <2>9, LeaveKeeps
    <2> QED BY <1>2, <2>1, <2>2, <2>3, <2>4, <2>5, <2>6, <2>7, <2>8, <2>9 DEF JP!Next
  <1> QED BY <1>1, <1>2

\* What the invariant says of the properties.
LEMMA JournalSays ==
  ASSUME JP!JournalAssumption, JournalInv
  PROVE  JP!TypeOK /\ JP!RefusedIsNotApplied /\ JP!FoundAsSeen /\ JP!TypedIsKept /\ JP!ResultIsShown
  <1> USE DEF JournalInv
  <1>1. JP!TypeOK
    <2>1. \A v \in 1..Len(drafts) : drafts[v] \in Drafts
      BY DEF ServiceTypes
    <2>2. page.selected \in 0..MaxVersions /\ keys \in 0..MaxCommands
      BY DEF PageTypes, Pages, PageInv, ShowInv, BoundInv, ServiceTypes, JP!JournalAssumption
    <2>3. basis \in [version : 1..MaxSource, ready : BOOLEAN]
      BY DEF ServiceTypes, Origins, BoundInv
    <2> QED BY <2>1, <2>2, <2>3
        DEF JP!TypeOK, ServiceTypes, PageTypes, BoundInv, Drafts, Texted, Pages, Attempts, Calls, Reads
  <1>2. JP!RefusedIsNotApplied
    <2>1. ASSUME NEW r \in applied PROVE r.command.key \notin memory.refused
      <3>1. r.command \in Commands /\ IsSent(r.command) /\ Answered(r.command)
        BY DEF ServiceTypes, Applied, IsSent, Answered
      <3> QED BY <3>1 DEF PageInv, RefusedInv
    <2> QED BY <2>1 DEF JP!RefusedIsNotApplied, PageInv, AppliedInv
  <1>3. JP!FoundAsSeen
    BY DEF JP!FoundAsSeen, PageInv, AppliedInv
  <1>4. JP!TypedIsKept
    BY DEF JP!TypedIsKept, PageInv, EditorInv
  <1>5. JP!ResultIsShown
    <2>1. JP!CanAct => page.status = "ready"
      BY DEF JP!CanAct
    <2>2. page.status = "ready" /\ memory.told # JP!NoCommand => Shows(page.shown, memory.told)
      BY DEF PageInv, ShowInv
    <2>3. ASSUME JP!CanAct, memory.told # JP!NoCommand
          PROVE  /\ memory.told.op = "create" => Len(page.shown.versions) > memory.told.id
                 /\ memory.told.op = "materialize" => memory.told.id \in page.shown.evidence
                 /\ memory.told.op \notin {"create", "materialize"} =>
                       page.shown.versions[memory.told.id].revision > memory.told.base.revision
      BY <2>1, <2>2, <2>3 DEF Shows
    <2>4. CASE ~JP!CanAct \/ memory.told = JP!NoCommand
      BY <2>4, NothingYet DEF JP!ResultIsShown
    <2>5. CASE JP!CanAct /\ memory.told # JP!NoCommand /\ memory.told.op = "create"
      BY <2>3, <2>5 DEF JP!ResultIsShown, JP!Shown
    <2>6. CASE JP!CanAct /\ memory.told # JP!NoCommand /\ memory.told.op = "materialize"
      BY <2>3, <2>6 DEF JP!ResultIsShown, JP!Shown
    <2>7. CASE JP!CanAct /\ memory.told # JP!NoCommand /\ memory.told.op \notin {"create", "materialize"}
      BY <2>3, <2>7 DEF JP!ResultIsShown, JP!Shown
    <2> QED BY <2>4, <2>5, <2>6, <2>7
  <1> QED BY <1>1, <1>2, <1>3, <1>4, <1>5

\* The page of a journal that two tabs use, and whose answers are lost: it is of its
\* type, a command that was refused as outdated is never applied, a command is applied to
\* the version that was seen, what was typed is kept, and what is confirmed is shown before
\* the owner acts again.
THEOREM JournalPageIsCurrent ==
  ASSUME JP!JournalAssumption
  PROVE  JP!Spec => [](/\ JP!TypeOK /\ JP!RefusedIsNotApplied /\ JP!FoundAsSeen
                       /\ JP!TypedIsKept /\ JP!ResultIsShown)
  <1>1. JP!Init => JournalInv
    BY JournalStarts
  <1>2. JournalInv /\ [JP!Next]_(JP!journalVars) => JournalInv'
    BY JournalKeeps
  <1>3. JournalInv => /\ JP!TypeOK /\ JP!RefusedIsNotApplied /\ JP!FoundAsSeen
                      /\ JP!TypedIsKept /\ JP!ResultIsShown
    BY JournalSays
  <1> QED BY <1>1, <1>2, <1>3, PTL DEF JP!Spec
=============================================================================
