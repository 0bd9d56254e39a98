--------------------------- MODULE CandidateSources ---------------------------
(***************************************************************************)
(* From what a candidate is evaluated: the reference of its market, that   *)
(* of its sector, and its own analysis.  The evaluation resolves them      *)
(* (candidate/service/source_resolution.py); the live workflow tells       *)
(* beforehand whether it can (live_workflow.py, runtime_readiness.py), by  *)
(* queries of its own.                                                     *)
(*                                                                         *)
(* The rows are those of today: an assignment is a row of good or of poor  *)
(* (INSUFFICIENT) quality that is valid today, two are an overlap.  All    *)
(* rows are of one workspace.                                              *)
(***************************************************************************)
EXTENDS Naturals, FiniteSets

CONSTANT MaxMissing     \* bound: how far the rows are from complete ones

VARIABLES
    assigned,   \* kind of assignment -> qualities of its rows
    active,     \* references and the sector that are active
    native,     \* reference -> its own instrument, with a complete analysis or not
    listing,    \* listing of a reference or the underlying -> what there is of it
    model       \* the runtime model: "none", "incompatible" or "executable"

sourceVars == <<assigned, active, native, listing, model>>

References == {"market", "sector index"}
Kinds == {"benchmark", "sector", "sector reference"} \cup References
Switched == References \cup {"sector"}
Owners == References \cup {"underlying"}
Parts == {"primary", "mapping", "prices", "analysis"}

TypeOK ==
    /\ assigned \in [Kinds -> SUBSET {"good", "poor"}]
    /\ active \subseteq Switched
    /\ native \in [References -> {"none", "partial", "complete"}]
    /\ listing \in [Owners -> SUBSET Parts]
    /\ model \in {"none", "incompatible", "executable"}

\* How many facts keep the candidate from being evaluated by its listings.
Missing(as, ac, na, li, mo) ==
    Cardinality({k \in Kinds : as[k] # {"good"}}) + Cardinality(Switched \ ac)
        + Cardinality({r \in References : na[r] # "none"})
        + Cardinality({part \in Owners \X Parts : part[2] \notin li[part[1]]})
        + IF mo = "executable" THEN 0 ELSE 1
Bounded == Missing(assigned', active', native', listing', model') <= MaxMissing

\* A workspace that is set up; what is missing is missing at first, or goes.
Init ==
    /\ assigned = [k \in Kinds |-> {"good"}]
    /\ active = Switched
    /\ native = [r \in References |-> "none"]
    /\ listing = [o \in Owners |-> Parts]
    /\ model = "executable"

-----------------------------------------------------------------------------
(* Administration (market/service/top_down_administration.py and the       *)
(* modules of listings, prices, analyses and models): what is there at     *)
(* another day, or in another workspace, may be less.                      *)

\* The overlap is looked for without a lock: two requests may both insert.
\* Rows become valid, and cease to be, as the days pass.
Assign(k, quality) ==
    /\ assigned' = [assigned EXCEPT ![k] = @ \cup {quality}]
    /\ UNCHANGED <<active, native, listing, model>> /\ Bounded

Lapse(k, quality) ==
    /\ assigned' = [assigned EXCEPT ![k] = @ \ {quality}]
    /\ UNCHANGED <<active, native, listing, model>> /\ Bounded

SetActive(r, yes) ==
    /\ active' = IF yes THEN active \cup {r} ELSE active \ {r}
    /\ UNCHANGED <<assigned, native, listing, model>> /\ Bounded

\* An instrument of the reference's own, then a completed analysis of it.
Materialize(r) ==
    /\ native[r] # "complete"
    /\ native' = [native EXCEPT ![r] = IF @ = "none" THEN "partial" ELSE "complete"]
    /\ UNCHANGED <<assigned, active, listing, model>> /\ Bounded

Have(o, part) ==
    /\ listing' = [listing EXCEPT ![o] = @ \cup {part}]
    /\ UNCHANGED <<assigned, active, native, model>> /\ Bounded

Lack(o, part) ==
    /\ listing' = [listing EXCEPT ![o] = @ \ {part}]
    /\ UNCHANGED <<assigned, active, native, model>> /\ Bounded

Activate(m) ==
    /\ model' = m
    /\ UNCHANGED <<assigned, active, native, listing>> /\ Bounded

Next ==
    \/ \E k \in Kinds, quality \in {"good", "poor"} : Assign(k, quality) \/ Lapse(k, quality)
    \/ \E r \in Switched : \E yes \in BOOLEAN : SetActive(r, yes)
    \/ \E r \in References : Materialize(r)
    \/ \E o \in Owners, part \in Parts : Have(o, part) \/ Lack(o, part)
    \/ \E m \in {"none", "incompatible", "executable"} : Activate(m)

Spec == Init /\ [][Next]_sourceVars

-----------------------------------------------------------------------------
(* The evaluation: each of these must be found, or it is refused *)

\* One row is valid, and of sufficient quality.
OneValid(k) == assigned[k] = {"good"}

\* native_reference_source: an instrument of its own excludes the listing.
NativeSource(r) == native[r] = "complete"
SourceForReference(r) ==
    \/ NativeSource(r)
    \/ native[r] = "none" /\ OneValid(r) /\ "analysis" \in listing[r]

Resolved ==
    /\ OneValid("benchmark") /\ "market" \in active
    /\ OneValid("sector")
    /\ OneValid("sector reference") /\ "sector index" \in active
    /\ \A r \in References : SourceForReference(r)
    /\ "analysis" \in listing["underlying"]

\* evaluate_auto
Evaluated == Resolved /\ model = "executable"

-----------------------------------------------------------------------------
(* The live workflow: the steps that block *)

FirstActive(k) == \E quality \in assigned[k] : quality = "good"
\* _one_active: no row if there are two.
OneActive(k) == Cardinality(assigned[k]) = 1 /\ "poor" \notin assigned[k]

\* The reference that a pipeline is about is only known if these are complete.
BenchmarkKnown == OneActive("benchmark") /\ "market" \in active
SectorKnown == OneActive("sector") /\ "sector" \in active
SectorReferenceKnown == SectorKnown /\ OneActive("sector reference") /\ "sector index" \in active

\* _append_listing_pipeline stops at the first step that is missing.
ListingPipeline(o) ==
    CASE "mapping" \notin listing[o] -> {<<o, "PROVIDER_MAPPING">>}
      [] "mapping" \in listing[o] /\ "prices" \notin listing[o] -> {<<o, "PRICE_HISTORY">>}
      [] {"mapping", "prices"} \subseteq listing[o] ->
            IF "analysis" \in listing[o] THEN {} ELSE {<<o, "ANALYSIS">>}

ReferencePipeline(r) ==
    CASE native[r] = "partial" -> {<<r, "ANALYSIS">>}
      [] native[r] = "complete" -> {}
      [] native[r] = "none" -> IF OneActive(r) THEN ListingPipeline(r) ELSE {<<r, "LISTING">>}

UnderlyingPipeline ==
    IF "primary" \in listing["underlying"] THEN ListingPipeline("underlying")
    ELSE {<<"underlying", "LISTING">>}

RuntimeStep == IF model = "executable" THEN {} ELSE {<<"runtime", "MODEL">>}

Blocked ==
    (IF BenchmarkKnown THEN ReferencePipeline("market") ELSE {<<"market", "ASSIGNMENT">>})
    \cup (IF SectorReferenceKnown THEN ReferencePipeline("sector index")
          ELSE {<<"sector", IF SectorKnown THEN "REFERENCE" ELSE "ASSIGNMENT">>})
    \cup UnderlyingPipeline \cup RuntimeStep

-----------------------------------------------------------------------------

\* A workflow without a blocked step says "can evaluate", and the evaluation is
\* then not refused: what the workflow reads agrees with what the resolver reads,
\* for overlapping and insufficient assignments, and for a reference with an
\* instrument of its own, which must not fall back to a listing.
ReadyIsEvaluable == Blocked = {} => Evaluated
=============================================================================
