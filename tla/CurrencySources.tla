--------------------------- MODULE CurrencySources ---------------------------
(***************************************************************************)
(* The currency of the executions of one trade: what its owner declares    *)
(* (trade_position/service/currency_confirmations.py) and which sources    *)
(* were reviewed (currency_evidence.py), beside purchases, sales and       *)
(* corrections (application.py) that go on.  All rows are only ever added. *)
(*                                                                         *)
(* Declarations and executions lock the row of the trade, sources that of  *)
(* the product, and a document then that of the trade.  A new execution    *)
(* refers to the product, and waits for whoever has locked it: a document  *)
(* and an execution may wait for each other, and PostgreSQL ends one.      *)
(***************************************************************************)
EXTENDS Naturals, FiniteSets, Functions

CONSTANTS
    DayLength,
    Clients,        \* who record documents and executions
    Moments,        \* when executions happen
    Currencies,
    Documents,      \* what a document may say: [currency, venue]
    Listings,       \* what a historical source may say: [from, to, entries, complete]
    MaxRows         \* bound: executions, declarations and sources

SourcesAssumption == \E t \in Moments : \A u \in Moments : t <= u

VARIABLES
    executions,     \* id -> [side, at, day, replaces]
    confirmations,  \* id -> [of, currency, replaces]
    sources,        \* id -> [of, currency, venue, from, to, entries, complete, replaces, revoked]
    withdrawn,      \* the trade is cancelled
    desk            \* client -> what it has under way, whose lock it holds
currencyVars == <<executions, confirmations, sources, withdrawn, desk>>

R == INSTANCE CurrencyResolution

Rows == Cardinality(DOMAIN executions) + Cardinality(DOMAIN confirmations) + Cardinality(DOMAIN sources)
          + Cardinality({c \in Clients : desk[c] # "nothing"})
NewId(rows) == Cardinality(DOMAIN rows) + 1
Add(rows, row) == [r \in DOMAIN rows \cup {NewId(rows)} |-> IF r \in DOMAIN rows THEN rows[r] ELSE row]

Document(x, d, p, revoked) ==
    [of |-> x, currency |-> d.currency, venue |-> d.venue, from |-> 0, to |-> 0,
     entries |-> <<>>, complete |-> FALSE, replaces |-> p, revoked |-> revoked]
Listing(l, p, revoked) ==
    [of |-> 0, currency |-> R!Unknown, venue |-> R!Unknown, from |-> l.from, to |-> l.to,
     entries |-> l.entries, complete |-> l.complete, replaces |-> p, revoked |-> revoked]
Execution(side, t, day, p) == [side |-> side, at |-> t, day |-> day, replaces |-> p]

TypeOK ==
    /\ \A x \in DOMAIN executions :
         executions[x] \in [side : {"BUY", "SELL"}, at : Moments, day : BOOLEAN, replaces : 0..x - 1]
    /\ \A c \in DOMAIN confirmations :
         confirmations[c] \in [of : DOMAIN executions, currency : Currencies, replaces : 0..c - 1]
    /\ \A s \in DOMAIN sources :
         \/ \E x \in DOMAIN executions, d \in Documents, p \in 0..s - 1, r \in BOOLEAN :
              sources[s] = Document(x, d, p, r)
         \/ \E l \in Listings, p \in 0..s - 1, r \in BOOLEAN : sources[s] = Listing(l, p, r)
    /\ withdrawn \in BOOLEAN
    /\ desk \in [Clients -> {"nothing", "document", "execution"}]

\* A trade begins with its first purchase, which may be declared at once.
Init ==
    /\ executions = [x \in {1} |-> Execution("BUY", CHOOSE t \in Moments : \A u \in Moments : t <= u, FALSE, 0)]
    /\ confirmations = <<>>
    /\ sources = <<>>
    /\ withdrawn = FALSE
    /\ desk = [c \in Clients |-> "nothing"]

-----------------------------------------------------------------------------

TradeFree == \A c \in Clients : desk[c] # "execution"
ProductFree == \A c \in Clients : desk[c] # "document"

\* Units are bought before they are sold (PositionProjector; every execution
\* stands for one unit, as no quantity decides a currency).
Ledger(rows) ==
    \A x \in R!Standing(rows) :
        LET before(side) == {y \in R!Standing(rows) : rows[y].side = side /\ R!Precedes(rows, y, x)}
        IN  rows[x].side = "SELL" => Cardinality(before("SELL")) < Cardinality(before("BUY"))

\* record_additional_purchase, record_sale and correct_execution lock the trade.
BeginExecution(c) ==
    /\ desk[c] = "nothing" /\ TradeFree /\ ~withdrawn
    /\ Rows < MaxRows
    /\ desk' = [desk EXCEPT ![c] = "execution"]
    /\ UNCHANGED <<executions, confirmations, sources, withdrawn>>

\* What happened, when, and on which side, which a correction may change as
\* well.  The insert waits for the product; the declaration comes with it.
FinishExecution(c) ==
    /\ desk[c] = "execution" /\ ProductFree
    /\ \E side \in {"BUY", "SELL"}, t \in Moments, day \in BOOLEAN,
          p \in R!Standing(executions) \cup {0} :
         /\ executions' = Add(executions, Execution(side, t, day, p))
         /\ Ledger(executions')
    /\ \/ UNCHANGED confirmations
       \/ \E k \in Currencies :
            confirmations' = Add(confirmations, [of |-> NewId(executions), currency |-> k, replaces |-> 0])
    /\ desk' = [desk EXCEPT ![c] = "nothing"]
    /\ UNCHANGED <<sources, withdrawn>>

\* The declaration in force, which the next one must name (0: there is none).
InForce(x) == R!CurrentConfirmations(confirmations, x)
\* confirm: its author has seen the declaration it replaces.
Confirm ==
    /\ TradeFree /\ ~withdrawn
    /\ \E x \in DOMAIN executions, k \in Currencies, p \in DOMAIN confirmations \cup {0} :
         /\ IF p = 0 THEN InForce(x) = {} ELSE p \in InForce(x)
         /\ confirmations' = Add(confirmations, [of |-> x, currency |-> k, replaces |-> p])
    /\ Rows < MaxRows
    /\ UNCHANGED <<executions, sources, withdrawn, desk>>

\* _validate_predecessor: a source replaces the one in force of its own scope;
\* only such a one is revoked.
Follows(of, p, revoked) ==
    IF p = 0 THEN ~revoked ELSE p \in R!Standing(sources) /\ sources[p].of = of

\* record, of a historical listing: under the lock of the product.
RecordListing ==
    /\ ProductFree
    /\ \E l \in Listings, p \in DOMAIN sources \cup {0}, revoked \in BOOLEAN :
         /\ Follows(0, p, revoked)
         /\ sources' = Add(sources, Listing(l, p, revoked))
    /\ Rows < MaxRows
    /\ UNCHANGED <<executions, confirmations, withdrawn, desk>>

\* record, of a document: the product is locked, and then the trade.
BeginDocument(c) ==
    /\ desk[c] = "nothing" /\ ProductFree
    /\ Rows < MaxRows
    /\ desk' = [desk EXCEPT ![c] = "document"]
    /\ UNCHANGED <<executions, confirmations, sources, withdrawn>>
FinishDocument(c) ==
    /\ desk[c] = "document" /\ TradeFree
    /\ \/ /\ ~withdrawn
          /\ \E x \in DOMAIN executions, d \in Documents, p \in DOMAIN sources \cup {0}, revoked \in BOOLEAN :
               /\ Follows(x, p, revoked)
               /\ sources' = Add(sources, Document(x, d, p, revoked))
       \/ withdrawn /\ UNCHANGED sources
    /\ desk' = [desk EXCEPT ![c] = "nothing"]
    /\ UNCHANGED <<executions, confirmations, withdrawn>>

\* A document has the product and waits for the trade, an execution has the
\* trade and waits for the product: PostgreSQL rolls one of them back.
Deadlock ==
    /\ ~TradeFree /\ ~ProductFree
    /\ \E c \in Clients : desk[c] # "nothing" /\ desk' = [desk EXCEPT ![c] = "nothing"]
    /\ UNCHANGED <<executions, confirmations, sources, withdrawn>>

\* Cancelling locks the trade (TradeCapture models it).
CancelTrade ==
    /\ TradeFree /\ ~withdrawn
    /\ withdrawn' = TRUE
    /\ UNCHANGED <<executions, confirmations, sources, desk>>

Next ==
    \/ \E c \in Clients :
         BeginExecution(c) \/ FinishExecution(c) \/ BeginDocument(c) \/ FinishDocument(c)
    \/ Confirm
    \/ RecordListing
    \/ Deadlock
    \/ CancelTrade

Spec == Init /\ [][Next]_currencyVars

-----------------------------------------------------------------------------

Currency == R!Resolve(executions, confirmations, sources)

\* The executions that x replaces, directly or not, while the side is the same.
Corrected(x) ==
    {y \in DOMAIN executions :
        \E S \in SUBSET (y..x) :
            /\ {x, y} \subseteq S
            /\ \A z \in S \ {y} : executions[z].replaces \in S /\ executions[z].side = executions[x].side
            /\ executions[y].side = executions[x].side}

\* A source that gives the execution x this currency.
Tells(s, x, code) ==
    /\ s \in R!Standing(sources) /\ ~sources[s].revoked
    /\ \/ sources[s].of = x /\ sources[s].currency = code
       \/ /\ sources[s].of = 0
          /\ code \in {sources[s].entries[v] : v \in DOMAIN sources[s].entries}
          /\ R!Window(executions[x]) \cap (sources[s].from .. sources[s].to - 1) # {}

\* Somebody has declared this currency, and not another one since, for the
\* execution, for one it corrects, or for a purchase before it that still counts;
\* or a source tells it that is not revoked.
Told(x, code) ==
    \/ \E c \in R!Standing(confirmations) :
         /\ confirmations[c].currency = code
         /\ \E y \in {x} \cup R!PriorBuys(executions, x) : confirmations[c].of \in Corrected(y)
    \/ \E s \in DOMAIN sources : Tells(s, x, code)

\* What the own document of an execution tells yields to its own declaration only.
OfDocument(x, s, code) ==
    \/ code \in {sources[s].currency, R!Unknown}
    \/ \E c \in R!Standing(confirmations) : confirmations[c].of = x /\ confirmations[c].currency = code
OfDocuments(x, code) ==
    \A s \in R!InForce(sources) :
        sources[s].of = x /\ sources[s].currency # R!Unknown => OfDocument(x, s, code)

\* No currency is made up, and no reviewed document is ignored.
CurrencyIsTold ==
    \A x \in DOMAIN executions :
        /\ Currency[x].code = R!Unknown \/ Told(x, Currency[x].code)
        /\ OfDocuments(x, Currency[x].code)

\* A later execution never fills the gap of an earlier one: without it, and as
\* it corrects nothing, the earlier one is of the same currency.
SameWithout(y, without) ==
    \A x \in DOMAIN executions \ {y} : R!Precedes(executions, x, y) => without[x] = Currency[x]
LaterFillsNoGap ==
    \A y \in R!Standing(executions) :
        executions[y].replaces = 0 =>
            SameWithout(y, R!Resolve(Restrict(executions, DOMAIN executions \ {y}), confirmations, sources))

\* The currency of every execution follows from what is in force before it.
CurrencyIsEvidenced == CurrencyIsTold /\ LaterFillsNoGap
=============================================================================
