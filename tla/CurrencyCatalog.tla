--------------------------- MODULE CurrencyCatalog ---------------------------
(***************************************************************************)
(* The catalog of currencies and the currencies that are permitted here    *)
(* (market/service/currency_administration.py, the route and the tool that *)
(* call it).  A catalog is previewed, or a currency shown, without a lock; *)
(* the write that follows holds one advisory lock for all of them, reads   *)
(* again and compares with the token of what was seen.                     *)
(***************************************************************************)
EXTENDS Naturals, Sequences

CONSTANTS
    Admins,         \* browsers and operators at the command line
    Codes,          \* currencies
    Document,       \* catalogs by name: version, day of publication, minor units
    Seeded,         \* the minor units of the currencies the first migration permits
    MaxEvents       \* bound: events of the audit

CatalogAssumption ==
    /\ MaxEvents \in Nat /\ "nobody" \notin Admins
    /\ {"none"} \cap (Codes \cup DOMAIN Document) = {} /\ Codes \cap DOMAIN Document = {}
    /\ \A k \in Codes \cap DOMAIN Seeded : Seeded[k] \in 0..6
    /\ \A c \in DOMAIN Document :
          /\ Document[c].published \in Nat
          /\ \A k \in DOMAIN Document[c].units : Document[c].units[k] \in 0..6

VARIABLES
    current,        \* the catalog in force, or None
    releases,       \* the catalogs that were imported
    currency,       \* the local row of each code; change 0: there is none
    log,            \* the audit: imports and permissions, in order
    lock,           \* who holds the advisory lock
    admin           \* what each has seen, and does

catalogVars == <<current, releases, currency, log, lock, admin>>

None == "none"
Nobody == "nobody"
Catalogs == DOMAIN Document
Idle == [does |-> "nothing", what |-> None, active |-> FALSE, seen |-> <<>>, read |-> <<>>]
Missing == [active |-> FALSE, unit |-> 0, change |-> 0]

TypeOK ==
    /\ current \in Catalogs \cup {None}
    /\ releases \subseteq Catalogs
    /\ currency \in [Codes -> [active : BOOLEAN, unit : 0..6, change : 0..MaxEvents + 1]]
    /\ Len(log) <= MaxEvents
    /\ lock \in Admins \cup {Nobody}
    /\ \A a \in Admins :
          /\ admin[a].does \in {"nothing", "previewed", "shown", "imports", "switches"}
          /\ admin[a].what \in Catalogs \cup Codes \cup {None}

Init ==
    /\ current = None
    /\ releases = {}
    /\ currency = [k \in Codes |-> IF k \in DOMAIN Seeded
                                   THEN [active |-> TRUE, unit |-> Seeded[k], change |-> 1]
                                   ELSE Missing]
    /\ log = <<>>
    /\ lock = Nobody
    /\ admin = [a \in Admins |-> Idle]

-----------------------------------------------------------------------------

\* preview: a version is imported with one content, and never after a later source.
VersionTaken(catalog, imported) ==
    \E r \in imported \ {catalog} : Document[r].version = Document[catalog].version
Older(catalog, inForce) ==
    inForce # None /\ Document[catalog].published < Document[inForce].published
Previewable(catalog, inForce, imported) ==
    ~VersionTaken(catalog, imported) /\ ~Older(catalog, inForce)

\* The tokens: checksums of what an import replaces, and of what a permission is about.
Preview(a, catalog) ==
    /\ admin[a] = Idle
    /\ Previewable(catalog, current, releases)
    /\ admin' = [admin EXCEPT ![a] = [Idle EXCEPT !.does = "previewed", !.what = catalog,
                                                  !.seen = <<current>>]]
    /\ UNCHANGED <<current, releases, currency, log, lock>>

Show(a, code, active) ==
    /\ admin[a] = Idle
    /\ admin' = [admin EXCEPT ![a] = [Idle EXCEPT !.does = "shown", !.what = code, !.active = active,
                                                  !.seen = <<currency[code], current>>]]
    /\ UNCHANGED <<current, releases, currency, log, lock>>

Lockable(a) == lock = Nobody
\* pg_advisory_xact_lock, and what is read under it.
Lock(a) ==
    /\ admin[a].does \in {"previewed", "shown"}
    /\ Lockable(a)
    /\ lock' = a
    /\ admin' = [admin EXCEPT
                   ![a].does = IF @ = "previewed" THEN "imports" ELSE "switches",
                   ![a].read = IF admin[a].does = "previewed" THEN <<current>>
                               ELSE <<currency[admin[a].what], current>>]
    /\ UNCHANGED <<current, releases, currency, log>>

Release(a) ==
    /\ lock' = IF lock = a THEN Nobody ELSE lock
    /\ admin' = [admin EXCEPT ![a] = Idle]

\* import_catalog.  A catalog that is in force already is not imported again,
\* whatever the token; one that was in force before can come back.
Import(a) ==
    /\ admin[a].does = "imports"
    /\ LET q == admin[a] IN
          IF /\ Previewable(q.what, q.read[1], releases)
             /\ q.read[1] # q.what
             /\ q.read = q.seen
          THEN /\ Len(log) < MaxEvents
               /\ current' = q.what
               /\ releases' = releases \cup {q.what}
               /\ log' = Append(log, [what |-> q.what, catalog |-> q.read[1], unit |-> 0])
          ELSE UNCHANGED <<current, releases, log>>
    /\ Release(a)
    /\ UNCHANGED currency

\* change_status: a currency is permitted from the catalog in force, with its minor
\* unit, and forbidden whatever the catalog says.
Activatable(code, local, inForce) ==
    /\ inForce # None
    /\ code \in DOMAIN Document[inForce].units
    /\ local.change > 0 => local.unit = Document[inForce].units[code]

Switch(a) ==
    /\ admin[a].does = "switches"
    /\ LET q == admin[a]
           local == q.read[1]
           inForce == q.read[2]
       IN IF /\ q.read = q.seen
             /\ IF q.active THEN Activatable(q.what, local, inForce) ELSE local.change > 0
             /\ local.active # q.active \/ local.change = 0
          THEN /\ Len(log) < MaxEvents
               /\ currency' = [currency EXCEPT ![q.what] =
                     [active |-> q.active, change |-> @.change + 1,
                      unit |-> IF local.change = 0 THEN Document[inForce].units[q.what] ELSE local.unit]]
               /\ log' = Append(log, [what |-> q.what, catalog |-> inForce,
                                      unit |-> currency'[q.what].unit])
          ELSE UNCHANGED <<currency, log>>
    /\ Release(a)
    /\ UNCHANGED <<current, releases>>

Next ==
    \E a \in Admins :
       \/ \E catalog \in Catalogs : Preview(a, catalog)
       \/ \E code \in Codes, active \in BOOLEAN : Show(a, code, active)
       \/ Lock(a)
       \/ Import(a)
       \/ Switch(a)

Spec == Init /\ [][Next]_catalogVars

-----------------------------------------------------------------------------

Imports(n) == {i \in 1..n : log[i].what \in Catalogs}
\* The catalog in force after the first n events.
AfterEvents(n) ==
    IF Imports(n) = {} THEN None
    ELSE log[CHOOSE i \in Imports(n) : \A j \in Imports(n) : j <= i].what

\* Every event of the audit names the catalog that was in force before it, so that the
\* history of imports is one line that ends with the present one and never goes back
\* to an older source, and each currency was permitted from the catalog of its time.
AuditTellsCatalog ==
    /\ current = AfterEvents(Len(log))
    /\ \A i \in 1..Len(log) : log[i].catalog = AfterEvents(i - 1)
    /\ \A i \in Imports(Len(log)) : log[i].catalog # None =>
          Document[log[i].catalog].published <= Document[log[i].what].published

\* A minor unit never changes: amounts were stored with it.
UnitsStay == \A i \in 1..Len(log) : log[i].what \in Codes => log[i].unit = currency[log[i].what].unit
=============================================================================
