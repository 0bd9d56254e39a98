-------------------------- MODULE CurrencyResolution --------------------------
(***************************************************************************)
(* In which currency an execution was paid, derived from what a trade's    *)
(* executions, confirmations and reviewed sources say                      *)
(* (trade_position/domain/currency_resolution.py and                       *)
(* historical_currency_resolution.py).  Nothing of it is stored.           *)
(*                                                                         *)
(*   executions     id -> [side, at, day, replaces]; ids in the order they *)
(*                  were recorded; `day` says that only the day is known   *)
(*   confirmations  id -> [of, currency, replaces]                         *)
(*   sources        id -> [of, currency, venue, from, to, entries,         *)
(*                  complete, replaces, revoked]; a document of execution  *)
(*                  `of`, or a historical listing if `of` is 0             *)
(* `replaces` is 0 where nothing is.  A day is DayLength moments.          *)
(***************************************************************************)
EXTENDS Naturals, FiniteSets

CONSTANT DayLength

Unknown == "UNKNOWN"
Replaced(rows) == {rows[r].replaces : r \in DOMAIN rows}
Standing(rows) == DOMAIN rows \ Replaced(rows)

\* (A fault: declarations still count after another one has replaced them.)
AnyConfirmations(confirmations, x) == {c \in DOMAIN confirmations : confirmations[c].of = x}
\* The declarations that no other replaces.
CurrentConfirmations(confirmations, x) ==
    {c \in Standing(confirmations) : confirmations[c].of = x}

\* The reviewed sources that no other replaces, nor revokes.
InForce(sources) == {s \in Standing(sources) : ~sources[s].revoked}

Resolution(code, source, reason, confirmed, used) ==
    [code |-> code, source |-> source, reason |-> reason, confirmations |-> confirmed, sources |-> used]
Unresolved == Resolution(Unknown, "UNKNOWN", "", {}, {})

\* The moments that an execution may have happened at.
Window(e) == e.at .. IF e.day THEN e.at + DayLength - 1 ELSE e.at

\* What the reviewed sources say of an execution: its own document, then the
\* listings of its known venue, then those of every venue, without a gap.
Historical(sources, x, e) ==
    LET documents == {s \in InForce(sources) : sources[s].of = x}
        codes == {sources[s].currency : s \in documents} \ {Unknown}
        venues == {sources[s].venue : s \in documents} \ {Unknown}
        listings == {s \in InForce(sources) : sources[s].of = 0}
        overlapping == {s \in listings : \E t \in Window(e) : t \in sources[s].from .. sources[s].to - 1}
        names(s) == venues \subseteq DOMAIN sources[s].entries
        relevant == {s \in overlapping : names(s) \/ sources[s].complete}
        quoted(s) == IF venues = {} THEN DOMAIN sources[s].entries
                     ELSE venues \cap DOMAIN sources[s].entries
        entries == UNION {{<<v, sources[s].entries[v]>> : v \in quoted(s)} : s \in relevant}
        quotes == {p[2] : p \in entries} \ {Unknown}
        covering == {s \in relevant : IF venues = {} THEN sources[s].complete ELSE names(s)}
        covered == \A t \in Window(e) : \E s \in covering : t \in sources[s].from .. sources[s].to - 1
        used == documents \cup relevant
    IN  IF Cardinality(codes) > 1 \/ Cardinality(venues) > 1
            THEN Resolution(Unknown, "CONFLICT", "DOCUMENT_CONFLICT", {}, documents)
        ELSE IF codes # {}
            THEN Resolution(CHOOSE c \in codes : TRUE, "EXECUTION_DOCUMENT", "", {}, documents)
        ELSE IF overlapping = {}
            THEN Resolution(Unknown, "UNKNOWN", "NO_HISTORICAL_EVIDENCE", {}, documents)
        ELSE IF \E p, q \in entries : p[1] = q[1] /\ p[2] # q[2] /\ Unknown \notin {p[2], q[2]}
            THEN Resolution(Unknown, "CONFLICT", "LISTING_CONFLICT", {}, used)
        ELSE IF Cardinality(quotes) > 1
            THEN Resolution(Unknown, "MIXED", "MULTIPLE_LISTING_CURRENCIES", {}, used)
        ELSE IF \/ ~covered
                \/ quotes = {}
                \/ \E p \in entries : p[2] = Unknown
                \/ \E s \in relevant : sources[s].complete /\ ~names(s)
            THEN Resolution(Unknown, "UNKNOWN", "LISTING_HISTORY_INCOMPLETE", {}, used)
        ELSE Resolution(CHOOSE c \in quotes : TRUE,
                        IF venues = {} THEN "HISTORICAL_LISTINGS" ELSE "HISTORICAL_LISTING", "", {}, used)

\* Whether the sources have anything to say: then nothing else is asked.
Says(r) == r.source # "UNKNOWN" \/ r.sources # {} \/ r.reason \notin {"", "NO_HISTORICAL_EVIDENCE"}

\* The own declaration, then the own sources, then those of the execution that
\* is corrected, if its side was right.
Bases(executions, confirmations, sources) ==
    LET own(x) ==
            IF CurrentConfirmations(confirmations, x) # {}
            THEN LET c == CHOOSE c \in CurrentConfirmations(confirmations, x) : TRUE
                 IN  Resolution(confirmations[c].currency, "USER_CONFIRMED", "", {c}, {})
            ELSE LET h == Historical(sources, x, executions[x]) IN IF Says(h) THEN h ELSE Unresolved
        inherit(r) ==
            IF r.source \in {"USER_CONFIRMED", "REPLACED_EXECUTION"}
                THEN [r EXCEPT !.source = "REPLACED_EXECUTION"]
            ELSE IF Says(r)
                THEN [r EXCEPT !.code = Unknown, !.source = "UNKNOWN",
                               !.reason = "CORRECTION_SOURCE_REVIEW_REQUIRED"]
            ELSE Unresolved
        base[x \in DOMAIN executions] ==
            LET p == executions[x].replaces
            IN  IF own(x) # Unresolved THEN own(x)
                ELSE IF p \in DOMAIN executions /\ executions[p].side = executions[x].side
                    THEN inherit(base[p])
                ELSE Unresolved
    IN  base

\* The order in which executions happened, those of one moment as recorded.
Precedes(executions, x, y) ==
    \/ executions[x].at < executions[y].at
    \/ executions[x].at = executions[y].at /\ x < y

\* The purchases before an execution that no correction replaces.
PriorBuys(executions, x) ==
    {y \in Standing(executions) : executions[y].side = "BUY" /\ Precedes(executions, y, x)}

\* resolve_execution_currencies: where an execution has no source at all it is
\* taken to be paid as all purchases before it, if these are of one currency.
Resolve(executions, confirmations, sources) ==
    LET bases == Bases(executions, confirmations, sources)
        resolve[x \in DOMAIN executions] ==
            LET prior == {resolve[y] : y \in PriorBuys(executions, x)}
                codes == {r.code : r \in prior} \ {Unknown}
                mixed == Cardinality(codes) > 1 \/ \E r \in prior : r.code = Unknown /\ r.source = "MIXED"
                usable == /\ prior # {}
                          /\ ~mixed
                          /\ \A r \in prior : /\ r.code # Unknown
                                              /\ r.source \in {"USER_CONFIRMED", "REPLACED_EXECUTION", "PRIOR_BUYS"}
            IN  IF bases[x] # Unresolved \/ x \in Replaced(executions) THEN bases[x]
                ELSE Resolution(
                        IF usable THEN CHOOSE c \in codes : TRUE ELSE Unknown,
                        IF usable THEN "PRIOR_BUYS" ELSE IF mixed THEN "MIXED" ELSE "UNKNOWN", "",
                        UNION {r.confirmations : r \in prior}, {})
    IN  resolve
=============================================================================
