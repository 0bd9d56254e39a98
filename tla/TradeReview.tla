------------------------------ MODULE TradeReview ------------------------------
(***************************************************************************)
(* What is learnt from one closed trade: the observation of the time after *)
(* it, the versions of its exit review, the evidence made of them and the  *)
(* journal (post_trade/application, learning/application/                  *)
(* ft011_materialization_service.py and journal_service.py).               *)
(*                                                                         *)
(* The services of the review read versions without a lock, and what a     *)
(* review is about under the lock of the trade, which the journal takes    *)
(* too; the materialization locks what it reads, row by row and without    *)
(* waiting.  A repeated request is answered from its receipt, or refused   *)
(* by the receipt's key, and changes nothing: requests here are new ones,  *)
(* and name what is stored (others are refused).                           *)
(***************************************************************************)
EXTENDS Naturals

CONSTANTS
    Clients,        \* requests at a time
    Exits,          \* of the trade; "open" is none
    Series,         \* of prices after the exit; "short" is incomplete
    LastVersion,    \* bound: versions of the review
    LastJournal,    \* bound: versions of the journal
    MaxChanges      \* bound: corrections and new prices

ReviewAssumption ==
    /\ LastVersion \in Nat
    /\ Exits \ {"open"} # {} /\ Series \ {"short"} # {}

VARIABLES
    facts,          \* what reviews are about: executions and prices
    observation,    \* status of the observation
    review,         \* version -> its status, stale or not, fingerprint {facts}
    evidence,       \* versions of the review that are evidence
    journal,        \* version -> its status, source and evidence
    session,        \* what each request has read and locked
    altered         \* changes so far

reviewVars == <<facts, observation, review, evidence, journal, session, altered>>

Rows == {"Trade", "Review", "Prices"}
Facts == [exit : Exits, series : Series]
Unwritten == [status |-> "none", stale |-> FALSE, print |-> {}]
Draft == [Unwritten EXCEPT !.status = "DRAFT"]
NoJournal == [status |-> "none", source |-> 0, evident |-> FALSE]
Idle == [does |-> "nothing", version |-> 0, read |-> {}, locks |-> {}]
ReviewRequests == {"save", "finalize", "refresh"}
JournalRequests == {"create", "rebind", "finish"}

TypeOK ==
    /\ facts \in Facts
    /\ observation \in {"none", "ACTIVE", "COMPLETED"}
    /\ \A v \in 1..LastVersion :
        /\ review[v].status \in {"none", "DRAFT", "FINALIZED"} /\ review[v].stale \in BOOLEAN
        /\ review[v].print \subseteq Facts /\ (review[v].print # {} <=> review[v].status = "FINALIZED")
    /\ evidence \subseteq 1..LastVersion
    /\ journal \in [1..LastJournal -> [status : {"none", "DRAFT", "FINALIZED"},
                                       source : 0..LastVersion, evident : BOOLEAN]]
    /\ \A c \in Clients :
        /\ session[c].does \in {"nothing", "materialize"} \cup ReviewRequests \cup JournalRequests
        /\ session[c].version \in 0..LastVersion
        /\ session[c].read \subseteq Facts /\ session[c].locks \subseteq Rows

Init ==
    /\ facts = CHOOSE f \in Facts : f.exit # "open" /\ f.series # "short"
    /\ observation = "none"
    /\ review = [v \in 1..LastVersion |-> Unwritten]
    /\ evidence = {}
    /\ journal = [j \in 1..LastJournal |-> NoJournal]
    /\ session = [c \in Clients |-> Idle]
    /\ altered = 0

-----------------------------------------------------------------------------

Written == {v \in 1..LastVersion : review[v].status # "none"}
Latest(v) == v \in Written /\ \A w \in Written : w <= v
OpenDraft == {v \in Written : review[v].status = "DRAFT"}
Complete == facts.exit # "open" /\ facts.series # "short"

\* No transaction holds the rows.
Free(rows) == \A c \in Clients : session[c].locks \cap rows = {}
TradeLock == {"Trade"}
Sets(c, does, version, read, locks) ==
    session' = [session EXCEPT ![c] = [does |-> does, version |-> version, read |-> read, locks |-> locks]]
Ends(c) == session' = [session EXCEPT ![c] = Idle]

\* Executions are recorded or corrected under the lock of the trade; prices are
\* inserted or replaced.
Correct(exit) ==
    /\ altered < MaxChanges
    /\ Free(TradeLock)
    /\ facts' = [facts EXCEPT !.exit = exit]
    /\ altered' = altered + 1
    /\ UNCHANGED <<observation, review, evidence, journal, session>>

Refresh(series) ==
    /\ altered < MaxChanges
    /\ Free({"Prices"})
    /\ facts' = [facts EXCEPT !.series = series]
    /\ altered' = altered + 1
    /\ UNCHANGED <<observation, review, evidence, journal, session>>

\* The observation: one per trade, completed for good.
Start ==
    /\ observation = "none"
    /\ Free(TradeLock)
    /\ facts.exit # "open"
    /\ observation' = "ACTIVE"
    /\ UNCHANGED <<facts, review, evidence, journal, session, altered>>

CompleteObservation ==
    /\ observation = "ACTIVE"
    /\ Free(TradeLock)
    /\ Complete
    /\ observation' = "COMPLETED"
    /\ UNCHANGED <<facts, review, evidence, journal, session, altered>>

-----------------------------------------------------------------------------
(* The review *)

\* get_or_create_draft: the number is taken under the lock of the review, and an
\* index allows one open draft.
CreateDraft(v) ==
    /\ observation = "COMPLETED"
    /\ OpenDraft = {}
    /\ Free({"Review"})
    /\ v \notin Written /\ \A w \in 1..(v - 1) : w \in Written
    /\ review' = [review EXCEPT ![v] = Draft]
    /\ UNCHANGED <<facts, observation, evidence, journal, session, altered>>

\* update_draft and finalize read the version; refresh_currentness the latest one
\* that is finalized and current.
Read(c, does, v) ==
    /\ session[c] = Idle
    /\ does \in ReviewRequests
    /\ v \in Written
    /\ does = "save" => review[v].status = "DRAFT"
    /\ does = "finalize" => review[v].status # "FINALIZED" /\ observation = "COMPLETED"
    /\ does = "refresh" => /\ review[v].status = "FINALIZED" /\ ~review[v].stale
                           /\ \A w \in Written : w > v => review[w].status # "FINALIZED" \/ review[w].stale
    /\ Sets(c, does, v, review[v].print, {})
    /\ UNCHANGED <<facts, observation, review, evidence, journal, altered>>

\* _review_inputs of finalize and refresh_currentness: the trade stays locked
\* until the commit.
ReadFacts(c) ==
    LET s == session[c] IN
    /\ s.does \in {"finalize", "refresh"} /\ s.locks = {}
    /\ Free(TradeLock)
    /\ IF s.does = "finalize" THEN Complete ELSE facts.exit # "open" /\ s.read # {facts}
    /\ Sets(c, s.does, s.version, IF s.does = "finalize" THEN {facts} ELSE s.read, TradeLock)
    /\ UNCHANGED <<facts, observation, review, evidence, journal, altered>>

\* replace: the row is written as it was read and changed; a flag that is not
\* changed by the request may also stay as another one has just written it.
Replace(c) ==
    LET s == session[c] IN
    /\ s.does \in ReviewRequests
    /\ s.does # "save" => s.locks = TradeLock
    /\ Free({"Review"})
    /\ s.does = "save" => OpenDraft \subseteq {s.version}
    /\ \E stale \in {s.does = "refresh", review[s.version].stale \/ s.does = "refresh"} :
        review' = [review EXCEPT ![s.version] =
            IF s.does = "save" THEN Draft
            ELSE [status |-> "FINALIZED", stale |-> stale, print |-> s.read]]
    /\ Ends(c)
    /\ UNCHANGED <<facts, observation, evidence, journal, altered>>

\* inspect_version_currentness, of a version the handoff calls ready.
Current(v) ==
    /\ observation = "COMPLETED"
    /\ Latest(v)
    /\ review[v].status = "FINALIZED" /\ ~review[v].stale
    /\ review[v].print = {facts}
    /\ Complete

-----------------------------------------------------------------------------
(* Evidence *)

Materialize(c) ==
    /\ session[c] = Idle
    /\ Sets(c, "materialize", 0, {}, {})
    /\ UNCHANGED <<facts, observation, review, evidence, journal, altered>>

\* SqlAlchemyMaterializationSourceGuard: the rows that are locked, in this order.
Guarded == Rows
Precedes(r, s) == r = "Trade" \/ s = "Prices"

\* One lock, without waiting for it.
Lock(c, r) ==
    /\ session[c].does = "materialize"
    /\ r \in Guarded \ session[c].locks
    /\ \A s \in Guarded \ session[c].locks : Precedes(r, s)
    /\ Free({r})
    /\ session' = [session EXCEPT ![c].locks = @ \cup {r}]
    /\ UNCHANGED <<facts, observation, review, evidence, journal, altered>>

\* The handoff, with what the client expects of it.
Inspect(c, v) ==
    /\ session[c].does = "materialize" /\ session[c].version = 0
    /\ session[c].locks = Guarded
    /\ Current(v)
    /\ Sets(c, "materialize", v, {facts}, Guarded)
    /\ UNCHANGED <<facts, observation, review, evidence, journal, altered>>

\* Evidence there is already of the version is answered.
Record(c) ==
    /\ session[c].does = "materialize" /\ session[c].version # 0
    /\ evidence' = evidence \cup {session[c].version}
    /\ Ends(c)
    /\ UNCHANGED <<facts, observation, review, journal, altered>>

-----------------------------------------------------------------------------
(* The journal *)

JournalDraft == {j \in 1..LastJournal : journal[j].status = "DRAFT"}

Unlocked == {}
\* SqlAlchemyTradeReader.get: the trade is locked for the transaction.
JournalLocks == TradeLock

BeginJournal(c, does) ==
    /\ session[c] = Idle
    /\ does \in JournalRequests
    /\ Free(JournalLocks)
    /\ Sets(c, does, 0, {}, JournalLocks)
    /\ UNCHANGED <<facts, observation, review, evidence, journal, altered>>

\* _require_source
RequireSource(c, v) ==
    /\ session[c].does \in JournalRequests /\ session[c].version = 0
    /\ Current(v)
    /\ Sets(c, session[c].does, v, {facts}, session[c].locks)
    /\ UNCHANGED <<facts, observation, review, evidence, journal, altered>>

\* _apply; a trigger refuses a source that is not finalized.
Apply(c, j) ==
    LET s == session[c] IN
    /\ s.does \in JournalRequests /\ s.version # 0
    /\ review[s.version].status = "FINALIZED"
    /\ \/ /\ s.does = "create"
          /\ JournalDraft = {} /\ journal[j].status = "none"
          /\ \A i \in 1..(j - 1) : journal[i].status = "FINALIZED"
          /\ journal' = [journal EXCEPT ![j] = [NoJournal EXCEPT !.status = "DRAFT", !.source = s.version]]
       \/ /\ s.does = "rebind"
          /\ j \in JournalDraft
          /\ journal' = [journal EXCEPT ![j].source = s.version]
       \/ /\ s.does = "finish"
          /\ j \in JournalDraft /\ journal[j].source = s.version
          /\ journal' = [journal EXCEPT ![j].status = "FINALIZED"]
    /\ Ends(c)
    /\ UNCHANGED <<facts, observation, review, evidence, altered>>

\* MATERIALIZE
JournalEvidence(j) ==
    /\ Free(JournalLocks)
    /\ journal[j].status = "FINALIZED"
    /\ journal' = [journal EXCEPT ![j].evident = TRUE]
    /\ UNCHANGED <<facts, observation, review, evidence, session, altered>>

\* A lock that is not free, a source that is not ready, a conflict or a crash.
GiveUp(c) ==
    /\ session[c] # Idle
    /\ Ends(c)
    /\ UNCHANGED <<facts, observation, review, evidence, journal, altered>>

Next ==
    \/ \E e \in Exits : Correct(e)
    \/ \E p \in Series : Refresh(p)
    \/ Start \/ CompleteObservation
    \/ \E v \in 1..LastVersion : CreateDraft(v)
    \/ \E j \in 1..LastJournal : JournalEvidence(j)
    \/ \E c \in Clients :
        \/ \E v \in 1..LastVersion :
            \/ \E d \in ReviewRequests : Read(c, d, v)
            \/ Inspect(c, v) \/ RequireSource(c, v)
        \/ ReadFacts(c) \/ Replace(c)
        \/ Materialize(c) \/ Record(c) \/ GiveUp(c)
        \/ \E r \in Rows : Lock(c, r)
        \/ \E d \in JournalRequests : BeginJournal(c, d)
        \/ \E j \in 1..LastJournal : Apply(c, j)

Spec == Init /\ [][Next]_reviewVars

-----------------------------------------------------------------------------
(* Properties *)

\* What a materialization has inspected is the latest review, final and current,
\* and about the facts of the moment, until it commits, although the services of
\* the review do not lock its versions and prices arrive meanwhile; and a journal is about
\* the executions that its source was inspected with
\* (FT011_MATERIALIZATION_CONSISTENCY_DOR.md, materialization_guard.py).
SourceHoldsStill ==
    \A c \in Clients :
        LET s == session[c] IN
        s.version # 0 =>
            /\ s.does = "materialize" => s.read = {facts} /\ Current(s.version)
            /\ s.does \in JournalRequests => \A f \in s.read : f.exit = facts.exit
=============================================================================
