----------------------------- MODULE QuoteRoutes -----------------------------
(***************************************************************************)
(* From where a warrant's positions get their quotes.  The refresh process *)
(* finds routes: one at the issuer, by a page that it fetches without a    *)
(* transaction (market_data/service/issuer_discovery.py), and one at an    *)
(* exchange, by a price that it fetches holding the product's row          *)
(* (providers/frankfurt_quotes/configure.py).  A position is bound to the  *)
(* only route that is verified (position_quote_source.py), when it is      *)
(* bought or later.  The product may be edited all the while (Warrants).   *)
(* There is one listing, in euros, and every provider is allowed.          *)
(***************************************************************************)
EXTENDS Warrants, FiniteSets

CONSTANTS
    Positions,
    MaxDecisions    \* bound: selections of a position

RoutesAssumption == WarrantAssumption /\ 0 \notin Positions /\ MaxDecisions \in Nat

VARIABLES
    listed,         \* the row of the listing
    mapping,        \* provider -> its route
    affected,       \* routes that a correction has read as ACTIVE
    seeker,         \* what a request looks for, and the rows it has read
    selections      \* decisions for each position, the last of which is active

routeVars == <<warrantVars, listed, mapping, affected, seeker, selections>>

Providers == {"ISSUER", "EXCHANGE"}
NoRoute == [status |-> "none", symbol |-> FirstIsin, seen |-> <<0, 0>>, born |-> 0]
Waiting == [does |-> "nothing", position |-> 0, isin |-> FirstIsin, active |-> FALSE, seen |-> <<0, 0>>]

RoutesTypeOK ==
    /\ TypeOK
    /\ listed \in [active : BOOLEAN, version : 1..2]
    /\ mapping \in [Providers -> [status : {"none", "ACTIVE", "INVALID"}, symbol : Identifiers,
                                  seen : (0..LastVersion) \X (0..2), born : 0..LastVersion]]
    /\ affected \in [Clients -> SUBSET Providers]
    /\ seeker \in [Clients -> [does : {"nothing", "fetches", "buys", "reconciles"},
                               position : Positions \cup {0}, isin : Identifiers, active : BOOLEAN,
                               seen : (0..LastVersion) \X (0..2)]]
    /\ \A p \in Positions : Len(selections[p]) <= MaxDecisions

RoutesInit ==
    /\ Init
    /\ listed = [active |-> TRUE, version |-> 1]
    /\ mapping = [p \in Providers |-> NoRoute]
    /\ affected = [c \in Clients |-> {}]
    /\ seeker = [c \in Clients |-> Waiting]
    /\ selections = [p \in Positions |-> <<>>]

-----------------------------------------------------------------------------
(* The edits of the product and of its listing. *)

Free(c) == edit[c] = Idle /\ seeker[c] = Waiting

\* A correction reads the active routes, and makes them invalid with its commit.
Edit(c, change, new) ==
    /\ Free(c)
    /\ BeginEdit(c, change, new)
    /\ affected' = [affected EXCEPT ![c] =
        IF change # "identifiers" THEN {} ELSE {p \in Providers : mapping[p].status = "ACTIVE"}]
    /\ UNCHANGED <<listed, mapping, seeker, selections>>

CommitEdit(c) ==
    /\ Commits(c)
    /\ mapping' = [p \in Providers |->
        IF p \in affected[c] THEN [mapping[p] EXCEPT !.status = "INVALID"] ELSE mapping[p]]
    /\ affected' = [affected EXCEPT ![c] = {}]
    /\ UNCHANGED <<listed, seeker, selections>>

RefuseEdit(c) ==
    /\ Refused(c)
    /\ affected' = [affected EXCEPT ![c] = {}]
    /\ UNCHANGED <<listed, mapping, seeker, selections>>

DeactivateListing ==
    /\ listed.active
    /\ listed' = [active |-> FALSE, version |-> 2]
    /\ UNCHANGED <<warrantVars, mapping, affected, seeker, selections>>

-----------------------------------------------------------------------------
(* The routes. *)

Current == <<warrant.version, listed.version>>
Eligible == Exists /\ warrant.active /\ listed.active

\* inspect_candidate: a product that has no route of the provider yet.
Inspect(c) ==
    /\ Free(c)
    /\ Eligible
    /\ mapping["ISSUER"].status = "none"
    /\ seeker' = [seeker EXCEPT ![c] = [Waiting EXCEPT !.does = "fetches", !.isin = warrant.isin,
                                                       !.seen = Current]]
    /\ UNCHANGED <<warrantVars, listed, mapping, affected, selections>>

Another(c) == Eligible /\ mapping["ISSUER"].status = "none"
\* Inspected again with the rows locked, it is what the page was fetched for.
SameAsBefore(c) ==
    /\ Another(c)
    /\ seeker[c].isin = warrant.isin /\ seeker[c].seen = Current

Route(isin, seen) == [status |-> "ACTIVE", symbol |-> isin, seen |-> seen, born |-> warrant.version]

\* discover_issuer_route, once the page has arrived.
CreateRoute(c) ==
    /\ seeker[c].does = "fetches"
    /\ Unlocked(c)
    /\ SameAsBefore(c)
    /\ mapping' = [mapping EXCEPT !["ISSUER"] = Route(seeker[c].isin, seeker[c].seen)]
    /\ seeker' = [seeker EXCEPT ![c] = Waiting]
    /\ UNCHANGED <<warrantVars, listed, affected, selections>>

\* Blocked, or no page.
FindNothing(c) ==
    /\ seeker[c].does = "fetches"
    /\ seeker' = [seeker EXCEPT ![c] = Waiting]
    /\ UNCHANGED <<warrantVars, listed, mapping, affected, selections>>

\* configure_warrant holds the row of the product while it fetches a price.
Configure(c) ==
    /\ Free(c)
    /\ warrant.active
    /\ Unlocked(c)
    /\ Reads(c, "configures", warrant.isin)
    /\ UNCHANGED <<warrant, terms, audits, valuations, listed, mapping, affected, seeker, selections>>

\* What exists is left alone, and so it is without a price.
Configured(c) ==
    /\ edit[c].does = "configures"
    /\ \/ /\ listed.active /\ mapping["EXCHANGE"].status = "none"
          /\ mapping' = [mapping EXCEPT !["EXCHANGE"] = Route(edit[c].old, <<0, 0>>)]
       \/ UNCHANGED mapping
    /\ Ends(c)
    /\ UNCHANGED <<warrant, terms, audits, valuations, listed, affected, seeker, selections>>

-----------------------------------------------------------------------------
(* The selections. *)

\* verified_identity, of the rows and the route.  The evidence of an issuer's
\* page is of one version of the product and the listing.
Verified(p, row) ==
    /\ row.active
    /\ mapping[p].status = "ACTIVE" /\ mapping[p].symbol = row.isin
    /\ p = "ISSUER" => mapping[p].seen = row.seen

\* verified_candidates: the routes are read after the rows of product and listing.
Candidates(row) == {[provider |-> p, isin |-> row.isin, seen |-> row.seen] :
                    p \in {q \in Providers : Verified(q, row)}}

Nowhere == [provider |-> "none", isin |-> FirstIsin, seen |-> <<0, 0>>]
Policy(route) == IF route.provider = "ISSUER" THEN "CONTRACT" ELSE "V1"
\* choose_position_quote_source: the only route, or none.
Chosen(cs) == IF Cardinality(cs) = 1 THEN CHOOSE r \in cs : TRUE ELSE Nowhere
Decision(cs, policy) == [route |-> Chosen(cs), of |-> cs, policy |-> policy]
Selected(s) == s.route # Nowhere

\* The position is locked (that of a purchase is not visible yet), the rows are read.
Looks(c, does, p) ==
    /\ Free(c)
    /\ \A d \in Clients : seeker[d].position # p
    /\ Len(selections[p]) < MaxDecisions
    /\ seeker' = [seeker EXCEPT ![c] = [does |-> does, position |-> p, isin |-> warrant.isin,
                                        active |-> Eligible, seen |-> Current]]
    /\ UNCHANGED <<warrantVars, listed, mapping, affected, selections>>

\* record_purchase; the product cannot be deleted any more.
Buy(c, p) == Exists /\ selections[p] = <<>> /\ Looks(c, "buys", p)
\* reconcile.
Reconcile(c, p) == selections[p] # <<>> /\ Looks(c, "reconciles", p)

Appends(c, decision) ==
    /\ selections' = [selections EXCEPT ![seeker[c].position] = Append(@, decision)]
    /\ seeker' = [seeker EXCEPT ![c] = Waiting]

\* select_once.  Earlier releases have stored every selection under policy V1.
SelectOnce(c) ==
    LET cs == Candidates(seeker[c]) IN
    /\ seeker[c].does = "buys"
    /\ \E policy \in {Policy(Chosen(cs)), "V1"} : Appends(c, Decision(cs, policy))
    /\ UNCHANGED <<warrantVars, listed, mapping, affected>>

\* An issuer's route that was selected is looked for as it was.
Kept(old, cs) == IF Selected(old) THEN cs \cap {old.route} ELSE cs

\* A successor of the active decision: it repairs the policy of an issuer's
\* route, or answers to other candidates than before.
Decide(c) ==
    LET before == selections[seeker[c].position]
        old == before[Len(before)]
        cs == Kept(old, Candidates(seeker[c])) IN
    /\ seeker[c].does = "reconciles"
    /\ IF /\ old.policy = "V1"
          /\ Selected(old) => old.route.provider = "ISSUER" /\ Cardinality(cs) = 1
          /\ Selected(old) \/ cs # old.of
       THEN Appends(c, Decision(cs, Policy(Chosen(cs))))
       ELSE seeker' = [seeker EXCEPT ![c] = Waiting] /\ UNCHANGED selections
    /\ UNCHANGED <<warrantVars, listed, mapping, affected>>

\* Deleting the listing deletes its routes; a position, or a selection, forbids it.
Delete(c) ==
    /\ Free(c)
    /\ \A p \in Positions : selections[p] = <<>>
    /\ \A d \in Clients : seeker[d].does # "buys"
    /\ Deletes(c)
    /\ mapping' = [p \in Providers |-> NoRoute]
    /\ UNCHANGED <<listed, affected, seeker, selections>>

RoutesNext ==
    \/ DeactivateListing
    \/ \E c \in Clients :
        \/ \E change \in Changes, new \in Identifiers : Edit(c, change, new)
        \/ CommitEdit(c) \/ RefuseEdit(c) \/ Delete(c)
        \/ Inspect(c) \/ CreateRoute(c) \/ FindNothing(c) \/ Configure(c) \/ Configured(c)
        \/ SelectOnce(c) \/ Decide(c)
        \/ \E p \in Positions : Buy(c, p) \/ Reconcile(c, p)

RoutesSpec == RoutesInit /\ [][RoutesNext]_routeVars

-----------------------------------------------------------------------------

\* A route is of the product as it was when the route was created (whatever was
\* corrected while the page or the price was fetched): of the identifier that
\* the audit tells for that version, and for an issuer of no other version.
RouteIsAsInspected ==
    LET isinAt(v) ==
        LET past == {i \in DOMAIN audits : audits[i].after <= v} IN
        IF past = {} THEN FirstIsin ELSE audits[Cardinality(past)].new IN
    \A p \in Providers : mapping[p].status # "none" =>
        /\ mapping[p].symbol = isinAt(mapping[p].born)
        /\ p = "ISSUER" => mapping[p].seen[1] = mapping[p].born

\* Once a position has a route it keeps it, by whatever edits, discoveries and
\* reconciliations: every later decision selects the same one.
RouteIsKept ==
    \A p \in Positions : \A i, j \in DOMAIN selections[p] :
        i < j /\ Selected(selections[p][i]) => selections[p][j].route = selections[p][i].route
=============================================================================
