------------------------------- MODULE Warrants -------------------------------
(***************************************************************************)
(* One warrant, its terms, the audit of its identifiers and the evidence   *)
(* that somebody has reviewed for its valuation (product/service).  An     *)
(* edit reads the row, and its commit is refused when the version is no    *)
(* longer the one it has read (the WHERE of version_id_col); whoever needs *)
(* the row to stand still locks it (FOR UPDATE) until the commit.          *)
(***************************************************************************)
EXTENDS Naturals, Sequences

CONSTANTS
    Clients,        \* requests at a time
    Identifiers,    \* bound: ISINs
    FirstIsin,      \* the one of them it was created with
    Changes,        \* bound: edits that are made ("identifiers", "status", "terms")
    LastVersion,    \* bound: version of the row
    LastRevision    \* bound: pieces of evidence

WarrantAssumption ==
    /\ FirstIsin \in Identifiers
    /\ Changes \subseteq {"identifiers", "status", "terms"}
    /\ LastVersion \in Nat \ {0} /\ LastRevision \in Nat

VARIABLES
    warrant,        \* the row; version 0: deleted
    terms,          \* number of its versions of terms, the last of which is open
    audits,         \* events of corrections, in order
    valuations,     \* evidence by revision: ISIN and version of terms it is for
    edit            \* what each request has read, and does

warrantVars == <<warrant, terms, audits, valuations, edit>>

Idle == [does |-> "nothing", version |-> 0, old |-> FirstIsin, new |-> FirstIsin,
         terms |-> 0, revision |-> 0]
Exists == warrant.version > 0

TypeOK ==
    /\ warrant \in [isin : Identifiers, active : BOOLEAN, version : 0..LastVersion]
    /\ terms \in 1..LastVersion
    /\ audits \in Seq([before : 1..LastVersion, after : 1..LastVersion,
                       old : Identifiers, new : Identifiers])
    /\ valuations \in Seq([isin : Identifiers, terms : 1..LastVersion])
    /\ Len(valuations) <= LastRevision
    /\ edit \in [Clients -> [does : {"nothing", "reviews", "records", "configures"} \cup Changes,
                             version : 0..LastVersion, old : Identifiers, new : Identifiers,
                             terms : 0..LastVersion, revision : 0..LastRevision]]

Init ==
    /\ warrant = [isin |-> FirstIsin, active |-> TRUE, version |-> 1]
    /\ terms = 1
    /\ audits = <<>>
    /\ valuations = <<>>
    /\ edit = [c \in Clients |-> Idle]

-----------------------------------------------------------------------------

NoLock(c) == TRUE
\* Nobody else holds the row: a recorder, or the configuration of a route.
Unlocked(c) == \A d \in Clients \ {c} : edit[d].does \notin {"records", "configures"}

Ends(c) == edit' = [edit EXCEPT ![c] = Idle]

\* get, and what the request compares and computes with the row it has read.
Reads(c, does, new) ==
    /\ edit[c] = Idle
    /\ Exists
    /\ edit' = [edit EXCEPT ![c] =
        [does |-> does, version |-> warrant.version, old |-> warrant.isin, new |-> new,
         terms |-> terms, revision |-> Len(valuations)]]

BeginEdit(c, change, new) ==
    /\ change \in Changes
    /\ warrant.version < LastVersion
    /\ (change = "identifiers") <=> (new # warrant.isin)
    /\ Reads(c, change, new)
    /\ UNCHANGED <<warrant, terms, audits, valuations>>

\* The row is updated WHERE its version is the one read.
Unchanged(c) == warrant.version = edit[c].version

\* change_status, add_terms_version, correct_identifiers.
Applies(c) ==
    LET e == edit[c] IN
    /\ warrant' = [warrant EXCEPT
        !.version = e.version + 1,
        !.active = IF e.does = "status" THEN ~@ ELSE @,
        !.isin = IF e.does = "identifiers" THEN e.new ELSE @]
    /\ terms' = IF e.does = "terms" THEN e.terms + 1 ELSE terms
    /\ audits' = IF e.does # "identifiers" THEN audits
                 ELSE Append(audits, [before |-> e.version, after |-> e.version + 1,
                                      old |-> e.old, new |-> e.new])

Commits(c) ==
    /\ edit[c].does \in Changes
    /\ Unlocked(c)
    /\ Unchanged(c)
    /\ Applies(c)
    /\ Ends(c)
    /\ UNCHANGED valuations

\* StaleDataError.
Refused(c) ==
    /\ edit[c].does \in Changes
    /\ Unlocked(c)
    /\ ~Unchanged(c)
    /\ Ends(c)
    /\ UNCHANGED <<warrant, terms, audits, valuations>>

-----------------------------------------------------------------------------
(* valuation_evidence.py: a document is reviewed for the product and the   *)
(* terms that its author sees, and recorded for nothing else.              *)

BeginReview(c) ==
    /\ Len(valuations) < LastRevision
    /\ Reads(c, "reviews", warrant.isin)
    /\ UNCHANGED <<warrant, terms, audits, valuations>>

\* The version of the product, the open terms and the last revision are those
\* that the request names.
AsReviewed(c) == Unchanged(c) /\ edit[c].terms = terms /\ edit[c].revision = Len(valuations)

LockForEvidence(c) ==
    /\ edit[c].does = "reviews"
    /\ Unlocked(c)
    /\ edit' = [edit EXCEPT ![c] = IF AsReviewed(c) THEN [@ EXCEPT !.does = "records"] ELSE Idle]
    /\ UNCHANGED <<warrant, terms, audits, valuations>>

Record(c) ==
    /\ edit[c].does = "records"
    /\ valuations' = Append(valuations, [isin |-> edit[c].old, terms |-> edit[c].terms])
    /\ Ends(c)
    /\ UNCHANGED <<warrant, terms, audits>>

\* hard_delete.py: nothing that is kept refers to the product.
Deletes(c) ==
    /\ edit[c] = Idle
    /\ Exists
    /\ Unlocked(c)
    /\ valuations = <<>>
    /\ warrant' = [warrant EXCEPT !.version = 0]
    /\ UNCHANGED <<terms, audits, valuations, edit>>

Next ==
    \E c \in Clients :
        \/ \E change \in Changes, new \in Identifiers : BeginEdit(c, change, new)
        \/ Commits(c) \/ Refused(c)
        \/ BeginReview(c) \/ LockForEvidence(c) \/ Record(c)
        \/ Deletes(c)

Spec == Init /\ [][Next]_warrantVars

-----------------------------------------------------------------------------

\* The audit tells the identifier of the product whoever corrects it at once:
\* every event continues the one before it, and the last one ends at the row.
AuditTellsIdentity ==
    LET new(i) == IF i = 0 THEN FirstIsin ELSE audits[i].new IN
    /\ new(Len(audits)) = warrant.isin
    /\ \A i \in DOMAIN audits :
        /\ audits[i].old = new(i - 1)
        /\ audits[i].after = audits[i].before + 1
        /\ i > 1 => audits[i - 1].after <= audits[i].before

\* While evidence is being recorded, the product and its open terms remain those
\* that its author has reviewed, and no other evidence comes first.
EvidenceIsAsReviewed ==
    \A c \in Clients : edit[c].does = "records" =>
        /\ warrant.isin = edit[c].old /\ terms = edit[c].terms /\ Exists
        /\ Len(valuations) = edit[c].revision
=============================================================================
