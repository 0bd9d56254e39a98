----------------------------- MODULE Underlyings -----------------------------
(***************************************************************************)
(* An underlying, its listings and the venue they trade at (FT-001, FT-002 *)
(* of market/service).  A request reads rows without a lock, checks what   *)
(* it has read and writes the columns it changes; the WHERE of             *)
(* version_id_col refuses the commit when one of the written rows is no    *)
(* longer of the version that was read.  Rows that were read only, as the  *)
(* listings of an underlying that is verified, may have changed.           *)
(***************************************************************************)
EXTENDS Naturals, FiniteSets

CONSTANTS
    Clients,        \* requests at a time
    Listings,       \* bound: listings of the underlying
    LastVersion,    \* bound: version of a row
    MaxEvents,      \* bound: events of the audit
    Operations      \* the requests that are sent

UnderlyingsAssumption ==
    /\ {"underlying", "venue"} \cap Listings = {} /\ IsFiniteSet(Listings)
    /\ LastVersion \in Nat \ {0}

VARIABLES
    row,            \* rows by name; version 0: there is none
    told,           \* events of the audit about each
    used,           \* whether an analysis, a warrant or a candidate refers to it
    request         \* what each request does, and the rows it has read

underlyingVars == <<row, told, used, request>>

Rows == {"underlying", "venue"} \cup Listings
OfUnderlying == {"rename", "deactivate", "reactivate", "verify", "delete"}
OfListing == {"edit", "retire", "revive"}
OfVenue == {"open", "close"}
Idle == [op |-> "none", target |-> "venue", primary |-> FALSE, seen |-> <<>>, checked |-> FALSE]

Of(rows, r) == rows[r].version > 0
Stored(rows) == {r \in Rows : Of(rows, r)}
\* The rows of a set, as a query returns them.
Select(rows) == [r \in rows |-> row[r]]
\* f, and what g has besides.
Over(f, g) == [x \in DOMAIN f \cup DOMAIN g |-> IF x \in DOMAIN f THEN f[x] ELSE g[x]]

\* ensure_operational_listing_invariant counts these.
ActivePrimaries(rows) ==
    {l \in Listings \cap DOMAIN rows : rows[l].version > 0 /\ rows[l].active /\ rows[l].primary}
OnePrimary(rows) == Cardinality(ActivePrimaries(rows)) = 1

TypeOK ==
    /\ \A r \in Rows : row[r].version \in 0..LastVersion /\ row[r].active \in BOOLEAN
    /\ \A l \in Listings : row[l].primary \in BOOLEAN
    /\ row["underlying"].quality \in {"DRAFT", "COMPLETE", "VERIFIED"}
    /\ told \in [Rows -> 0..LastVersion + 1]
    /\ used \in BOOLEAN
    /\ \A c \in Clients : request[c].target \in Rows /\ DOMAIN request[c].seen \subseteq Rows

Init ==
    /\ row = [r \in Rows |->
                 CASE r = "underlying" -> [version |-> 0, active |-> TRUE, quality |-> "DRAFT"]
                   [] r = "venue" -> [version |-> 1, active |-> TRUE]
                   [] OTHER -> [version |-> 0, active |-> TRUE, primary |-> FALSE]]
    /\ told = [r \in Rows |-> IF r = "venue" THEN 1 ELSE 0]
    /\ used = FALSE
    /\ request = [c \in Clients |-> Idle]

-----------------------------------------------------------------------------

\* create: the underlying and its first listing, complete if that is primary.  (A
\* second creation fails at the unique index of its ISIN.)
Create(l, primary) ==
    /\ \A r \in Rows \ {"venue"} : told[r] = 0
    /\ row["venue"].active
    /\ row' = [row EXCEPT
                 !["underlying"] = [version |-> 1, active |-> TRUE,
                                    quality |-> IF primary THEN "COMPLETE" ELSE "DRAFT"],
                 ![l] = [version |-> 1, active |-> TRUE, primary |-> primary]]
    /\ told' = [told EXCEPT !["underlying"] = 1, ![l] = 1]
    /\ UNCHANGED <<used, request>>

\* Another feature refers to the underlying.
Refer ==
    /\ Of(row, "underlying")
    /\ ~used
    /\ used' = TRUE
    /\ UNCHANGED <<row, told, request>>

-----------------------------------------------------------------------------
(* What a request would change, and whether it may, by what it has seen. *)

\* The columns it sets.  A verified underlying that is edited is complete.
Columns(q, r) ==
    CASE q.op = "rename" ->
            [quality |-> IF q.seen[r].quality = "VERIFIED" THEN "COMPLETE" ELSE q.seen[r].quality]
      [] q.op \in {"deactivate", "close", "retire"} -> [active |-> FALSE]
      [] q.op \in {"reactivate", "open", "revive"} -> [active |-> TRUE]
      [] q.op = "verify" -> [quality |-> "VERIFIED"]
      [] q.op = "edit" -> [active |-> q.seen[r].active]
      [] q.op = "add" -> [active |-> TRUE, primary |-> q.primary]
      [] q.op = "promote" -> [primary |-> r = q.target]

\* The rows it changes: set_primary demotes all other primary ones.
Changed(q) ==
    IF q.op = "promote"
    THEN {l \in Listings \cap DOMAIN q.seen :
             q.seen[l].version > 0 /\ q.seen[l].primary # (l = q.target)}
    ELSE {q.target}

After(q) == [r \in DOMAIN q.seen |->
                IF r \in Changed(q)
                THEN Over([version |-> q.seen[r].version + 1], Over(Columns(q, r), q.seen[r]))
                ELSE q.seen[r]]

\* Nothing is written where nothing changes.
Differs(q) ==
    /\ q.op \in {"deactivate", "close", "retire"} => q.seen[q.target].active
    /\ q.op \in {"reactivate", "open", "revive"} => ~q.seen[q.target].active
    /\ q.op = "verify" => q.seen[q.target].quality # "VERIFIED"
    /\ Changed(q) # {}

\* with_master_data, deactivate, reactivate and verify of the underlying, add,
\* update and set_primary of its listings: the errors they raise.
Allowed(q) ==
    /\ Differs(q)
    /\ q.op \in {"reactivate", "verify"} =>
          OnePrimary(q.seen) /\ q.seen["underlying"].quality # "DRAFT"
    /\ q.op \in OfListing \cup {"promote"} => OnePrimary(After(q))
    /\ q.op = "promote" => q.seen[q.target].active
    /\ q.op = "add" /\ q.primary => OnePrimary(After(q))

Listed(op) == op \in OfListing \cup {"add", "reactivate", "verify", "delete"}

\* A request is sent with the version of its target that somebody has seen, and
\* refused when it is not the one that is read; what remains is what it reads
\* first.  A listing needs a venue that is active.
Begin(c, op, target, primary) ==
    /\ request[c] = Idle
    /\ op \in Operations
    /\ LET seen == IF op = "promote" THEN Stored(row) \cap Listings
                   ELSE IF op = "add" THEN {target, "underlying"} ELSE {target}
           q == [op |-> op, target |-> target, primary |-> primary,
                 seen |-> Select(seen), checked |-> ~Listed(op)]
       IN /\ IF op = "add" THEN Of(row, "underlying") /\ told[target] = 0 ELSE Of(row, target)
          /\ op \in OfListing \cup {"add"} => row["venue"].active
          /\ q.checked => Allowed(q)
          /\ request' = [request EXCEPT ![c] = q]
    /\ UNCHANGED <<row, told, used>>

\* list_for_underlying, in a statement of its own: a row that the session has
\* loaded before stays as it was.  Deletion asks for the uses first.
List(c) ==
    /\ request[c] # Idle /\ ~request[c].checked
    /\ LET q == [request[c] EXCEPT !.seen = Over(@, Select(Stored(row) \cap Listings)),
                                   !.checked = TRUE]
       IN request' = [request EXCEPT ![c] =
                          IF IF q.op = "delete" THEN ~used ELSE Allowed(q) THEN q ELSE Idle]
    /\ UNCHANGED <<row, told, used>>

\* UPDATE or DELETE ... WHERE version finds the row; a new one needs its underlying.
Fresh(q, r) ==
    /\ row[r].version = q.seen[r].version
    /\ q.op = "add" => Of(row, "underlying")

\* The partial unique index of the active primary listing.
IndexHolds(rows) == Cardinality(ActivePrimaries(rows)) <= 1

Written(q) == [r \in Rows |->
                  IF r \in Changed(q)
                  THEN Over([version |-> row[r].version + 1], Over(Columns(q, r), row[r]))
                  ELSE row[r]]

Commit(c) ==
    /\ request[c].checked /\ request[c].op # "delete"
    /\ request' = [request EXCEPT ![c] = Idle]
    /\ IF (\A r \in Changed(request[c]) : Fresh(request[c], r)) /\ IndexHolds(Written(request[c]))
       THEN /\ row' = Written(request[c])
            /\ told' = [r \in Rows |-> IF r \in Changed(request[c]) THEN told[r] + 1 ELSE told[r]]
       ELSE UNCHANGED <<row, told>>
    /\ UNCHANGED used

\* delete: the listings go with the underlying, those that were added meanwhile too;
\* the foreign keys of what refers to it forbid it.
Delete(c) ==
    /\ request[c].checked /\ request[c].op = "delete"
    /\ request' = [request EXCEPT ![c] = Idle]
    /\ IF Fresh(request[c], "underlying") /\ ~used
       THEN /\ row' = [r \in Rows |-> IF r = "venue" THEN row[r] ELSE [row[r] EXCEPT !.version = 0]]
            /\ told' = [r \in Rows |-> IF r \in DOMAIN request[c].seen THEN told[r] + 1 ELSE told[r]]
       ELSE UNCHANGED <<row, told>>
    /\ UNCHANGED used

\* The events of the audit that tell of these, by row and number.
Events(count) == {e \in Rows \X (1..LastVersion + 1) : e[2] <= count[e[1]]}

Bounded ==
    /\ \A r \in Rows : row'[r].version <= LastVersion
    /\ Cardinality(Events(told')) <= MaxEvents

Next ==
    /\ \/ \E l \in Listings, primary \in BOOLEAN : Create(l, primary)
       \/ Refer
       \/ \E c \in Clients :
             \/ \E op \in OfUnderlying : Begin(c, op, "underlying", FALSE)
             \/ \E op \in OfVenue : Begin(c, op, "venue", FALSE)
             \/ \E op \in OfListing \cup {"promote"}, l \in Listings : Begin(c, op, l, FALSE)
             \/ \E l \in Listings, primary \in BOOLEAN : Begin(c, "add", l, primary)
             \/ List(c)
             \/ Commit(c)
             \/ Delete(c)
    /\ Bounded

Spec == Init /\ [][Next]_underlyingVars

-----------------------------------------------------------------------------

\* An underlying that is complete or verified has exactly one active primary listing,
\* although listings are changed without its row and verification looks at the listings
\* without holding them: the rows that two requests write overlap wherever it could break.
OperationalHasPrimary ==
    Of(row, "underlying") /\ row["underlying"].quality # "DRAFT" => OnePrimary(row)

\* The audit has one event for every version of a row that there is (what it tells of
\* listings that were added while their underlying was deleted is lost).
AuditTellsVersions == \A r \in Rows : Of(row, r) => told[r] = row[r].version
=============================================================================
