----------------------------- MODULE TradeCapture -----------------------------
(***************************************************************************)
(* The requests that record purchases, sales and corrections of a trade    *)
(* and the cancellation of one, as concurrent database sessions:           *)
(*   trade_position/service/application.py     record_*, correct_execution *)
(*   trade_position/service/cancellation.py    preview, cancel             *)
(*   trade_position/persistence/repositories.py    add, get, find_request  *)
(*   migration 0036                            the triggers                *)
(*                                                                         *)
(* A session holds what it has locked until its transaction ends: the      *)
(* advisory lock of a request key, rows of trades, the row of a product.   *)
(* It computes from what it reads under the lock and its writes become     *)
(* visible at its commit. A step is one granted lock with the reads that   *)
(* follow it, the flush with its triggers, the commit, or an error.        *)
(* A request that is refused changes nothing.                              *)
(*                                                                         *)
(* Left out: amounts of money, currencies, quote sources, management       *)
(* events, and the blocker for messages being sent (NotificationDelivery). *)
(*                                                                         *)
(* Definitions that nothing uses, such as KeyNotLocked before KeyWanted,   *)
(* are plausible bugs: putting one in the place of the definition that     *)
(* follows it makes a property of this module fail.                        *)
(***************************************************************************)
EXTENDS PositionProjector

CONSTANTS
    Sessions,
    Trades,        \* ids; a trade exists when it has an execution
    Products,
    ProductOf,     \* the product a trade is about
    Keys, NoKey,   \* request ids
    Quantities,
    Times,         \* executed_at
    MaxHistory,    \* bound on the number of executions of a trade
    MaxExecutions  \* bound on the number of executions of all trades

ASSUME CaptureAssumption ==
    /\ IsFiniteSet(Sessions)
    /\ Trades \subseteq Nat \ {0}
    /\ ProductOf \in [Trades -> Products]
    /\ NoKey \notin Keys
    /\ Products \cap (Trades \cup Keys) = {}
    /\ Trades \cap Keys = {}
    /\ Quantities \subseteq Nat \ {0}
    /\ Times \subseteq Nat
    /\ MaxHistory \in Nat \ {0}
    /\ MaxExecutions \in Nat

VARIABLES
    \* database
    book,         \* execution_records of each trade, as recorded
    position,     \* positions.open_quantity
    cancelled,    \* the trades whose cancelled_at is set
    duplicateOf,  \* trades.duplicate_of_trade_id, or 0
    reviewed,     \* trades with post-trade or learning records
    \* sessions
    pc,
    locks,        \* what the session's transaction has locked
    job           \* its request

database == <<book, position, cancelled, duplicateOf, reviewed>>
vars     == <<database, pc, locks, job>>

Execution == [side : {"BUY", "SELL"}, quantity : Quantities, at : Times,
              replaces : 0..MaxHistory, key : Keys \cup {NoKey}]
NoExecution == [side |-> "BUY", quantity |-> 0, at |-> 0, replaces |-> 0, key |-> NoKey]

\* What the state token of a preview is a digest of. The executions are only
\* appended to, so their number stands for them; a trade is either cancelled
\* or reviewed, for ever.
Token   == [length : 0..MaxHistory, rivals : SUBSET Trades, blocked : BOOLEAN]
NoToken == [length |-> 0, rivals |-> {}, blocked |-> FALSE]

\* trade is 0 for a first purchase until its trade is made; next and open are
\* what the transaction is going to write; dup and token are of a cancellation.
Job   == [key : Keys \cup {NoKey}, product : Products \cup {0}, trade : Trades \cup {0},
          next : Execution \cup {NoExecution}, open : Nat,
          dup : Trades \cup {0}, token : Token]
NoJob == [key |-> NoKey, product |-> 0, trade |-> 0, next |-> NoExecution, open |-> 0,
          dup |-> 0, token |-> NoToken]

Exists(t) == book[t] # <<>>
Held(t)   == t \notin cancelled /\ position[t] > 0

\* The other open trades of the same product.
Rivals(t) == {o \in Trades \ {t} : ProductOf[o] = ProductOf[t] /\ Held(o)}

KeyIsUsed(k) == k # NoKey /\ \E t \in Trades : \E i \in DOMAIN book[t] : book[t][i].key = k

TypeOK ==
    /\ book \in [Trades -> Seq(Execution)]
    /\ \A t \in Trades : Len(book[t]) <= MaxHistory
    /\ position \in [Trades -> Nat]
    /\ cancelled \subseteq Trades
    /\ duplicateOf \in [Trades -> Trades \cup {0}]
    /\ reviewed \subseteq Trades
    /\ pc \in [Sessions -> {"idle", "begun", "replay", "keyed", "ready", "flushed",
                            "previewed", "cancelling", "confirmed"}]
    /\ locks \in [Sessions -> SUBSET (Keys \cup Trades \cup Products)]
    /\ job \in [Sessions -> Job]

\* The migration leaves open duplicates as they are.
Init ==
    /\ book \in [Trades -> {<<>>} \cup
                   {<<e>> : e \in [side : {"BUY"}, quantity : Quantities, at : Times,
                                   replaces : {0}, key : {NoKey}]}]
    /\ position = [t \in Trades |-> OpenQuantity(book[t])]
    /\ cancelled = {}
    /\ duplicateOf = [t \in Trades |-> 0]
    /\ reviewed = {}
    /\ pc = [s \in Sessions |-> "idle"]
    /\ locks = [s \in Sessions |-> {}]
    /\ job = [s \in Sessions |-> NoJob]

----------------------------------------------------------------------------
(* Locks. Wants(s) is what the next step of s must lock first.             *)

KeyNotLocked(s) == {}
KeyWanted(s) == IF pc[s] = "begun" THEN {job[s].key} ELSE {}

\* A cancellation locks the trade and the one to be retained in the order of
\* their ids.
OwnRowOnly(s) == {job[s].trade}
CancelRows(s) == {job[s].trade, job[s].dup} \ {0}
OwnRowFirst(s, rows) == IF job[s].trade \in rows THEN {job[s].trade} ELSE rows
NextRow(s, rows) == {r \in rows : \A q \in rows : r <= q}

TradeNotLocked(s) == {}
TradeWanted(s) ==
    IF pc[s] \in {"replay", "keyed"} THEN {job[s].trade} \ {0}
    ELSE IF pc[s] = "cancelling" THEN NextRow(s, CancelRows(s) \ locks[s])
    ELSE {}

\* A first purchase locks the product before it looks for an open trade, the
\* trigger does when a position becomes open.
Opens(s) == position[job[s].trade] = 0 /\ job[s].open > 0

ProductNotLocked(s) == {}
ProductWanted(s) ==
    IF pc[s] = "keyed" /\ job[s].trade = 0 THEN {job[s].product}
    ELSE IF pc[s] = "ready" /\ Opens(s) THEN {ProductOf[job[s].trade]} \ locks[s]
    ELSE {}

Wants(s)   == KeyWanted(s) \cup TradeWanted(s) \cup ProductWanted(s)
Granted(s) == \A o \in Sessions \ {s} : Wants(s) \cap locks[o] = {}

\* The transaction is over, in a commit or a rollback.
End(s) ==
    /\ pc' = [pc EXCEPT ![s] = "idle"]
    /\ locks' = [locks EXCEPT ![s] = {}]
    /\ job' = [job EXCEPT ![s] = NoJob]

Advance(s, to) ==
    /\ pc' = [pc EXCEPT ![s] = to]
    /\ locks' = [locks EXCEPT ![s] = @ \cup Wants(s)]

----------------------------------------------------------------------------
(* Captures.                                                               *)

\* A request to open a trade of product p, or to record something in trade t.
Begin(s) ==
    /\ pc[s] = "idle"
    /\ \E k \in Keys \cup {NoKey} :
         /\ \/ \E p \in Products : job' = [job EXCEPT ![s].key = k, ![s].product = p]
            \/ \E t \in Trades :
                 /\ Exists(t)
                 /\ job' = [job EXCEPT ![s].key = k, ![s].trade = t]
         /\ pc' = [pc EXCEPT ![s] = IF k = NoKey THEN "keyed" ELSE "begun"]
    /\ UNCHANGED <<database, locks>>

\* find_request: a used key leads to its execution, whatever the request says.
FindRequest(s) ==
    /\ pc[s] = "begun"
    /\ Granted(s)
    /\ \/ /\ ~KeyIsUsed(job[s].key)
          /\ Advance(s, "keyed")
          /\ UNCHANGED job
       \/ \E t \in Trades :
            /\ \E i \in DOMAIN book[t] : book[t][i].key = job[s].key
            /\ Advance(s, "replay")
            /\ job' = [job EXCEPT ![s] = [NoJob EXCEPT !.key = job[s].key, !.trade = t]]
    /\ UNCHANGED database

\* The rest of _replay: the original is returned, or its trade is cancelled,
\* or the request has other data. Nothing is written.
Replay(s) ==
    /\ pc[s] = "replay"
    /\ Granted(s)
    /\ End(s)
    /\ UNCHANGED database

\* The request data that are read only now: an execution with the session's
\* key. recorded_at is taken under the lock, so it comes last in the history.
Captured(s, side, replaced) ==
    [side : {side}, quantity : Quantities, at : Times, replaces : {replaced}, key : {job[s].key}]

Recorded == Cardinality({p \in Trades \X (1..MaxHistory) : p[2] \in DOMAIN book[p[1]]})

\* trades.add() and the new rows of a first purchase, not flushed yet. The
\* trade's id is new.
OpenTrade(s) ==
    /\ pc[s] = "keyed"
    /\ job[s].trade = 0
    /\ Granted(s)
    /\ IF \E o \in Trades : ProductOf[o] = job[s].product /\ Held(o)
       THEN End(s)
       ELSE /\ Recorded < MaxExecutions
            /\ \E t \in Trades, e \in Captured(s, "BUY", 0) :
                 /\ ~Exists(t)
                 /\ ProductOf[t] = job[s].product
                 /\ \A o \in Sessions : job[o].trade # t
                 /\ Advance(s, "ready")
                 /\ job' = [job EXCEPT ![s].trade = t, ![s].next = e, ![s].open = e.quantity]
    /\ UNCHANGED database

\* What the trade allows as its next execution: a purchase, a sale of an open
\* position, or (without a key) the correction of an effective execution.
Correctable(t) == Effective(book[t])

Allowed(s) ==
    LET t == job[s].trade
        corrections == IF job[s].key = NoKey THEN Correctable(t) ELSE {}
    IN  {e \in Captured(s, "BUY", 0)
               \cup (IF position[t] > 0 THEN Captured(s, "SELL", 0) ELSE {})
               \cup UNION {Captured(s, side, i) : side \in {"BUY", "SELL"}, i \in corrections} :
           Possible(Append(book[t], e))}

\* trades.get() FOR UPDATE, the checks, and the projection. Every error
\* refuses the request.
ReadTrade(s) ==
    /\ pc[s] = "keyed"
    /\ job[s].trade # 0
    /\ Granted(s)
    /\ \/ End(s)
       \/ /\ job[s].trade \notin cancelled
          /\ Len(book[job[s].trade]) < MaxHistory
          /\ Recorded < MaxExecutions
          /\ \E e \in Allowed(s) :
               job' = [job EXCEPT ![s].next = e,
                                  ![s].open = OpenQuantity(Append(book[job[s].trade], e))]
          /\ Advance(s, "ready")
    /\ UNCHANGED database

\* The flush of the execution and the position, with the triggers.
Flush(s) ==
    /\ pc[s] = "ready"
    /\ Granted(s)
    /\ IF job[s].trade \in cancelled \/ (Opens(s) /\ Rivals(job[s].trade) # {})
       THEN End(s)
       ELSE Advance(s, "flushed") /\ UNCHANGED job
    /\ UNCHANGED database

Commit(s) ==
    /\ pc[s] = "flushed"
    /\ book' = [book EXCEPT ![job[s].trade] = Append(@, job[s].next)]
    /\ position' = [position EXCEPT ![job[s].trade] = job[s].open]
    /\ End(s)
    /\ UNCHANGED <<cancelled, duplicateOf, reviewed>>

----------------------------------------------------------------------------
(* Cancellation.                                                           *)

TokenOf(t) == [length |-> Len(book[t]), rivals |-> Rivals(t),
               blocked |-> t \in reviewed \cup cancelled]

\* preview() reads under the trade's lock, in a request of its own. The client
\* keeps the token for as long as it likes.
ShowPreview(s, t) ==
    /\ pc[s] = "idle"
    /\ Exists(t)
    /\ \A o \in Sessions : t \notin locks[o]
    /\ pc' = [pc EXCEPT ![s] = "previewed"]
    /\ job' = [job EXCEPT ![s].trade = t, ![s].token = TokenOf(t)]
    /\ UNCHANGED <<database, locks>>

BeginCancel(s) ==
    /\ pc[s] = "previewed"
    /\ \E d \in {0} \cup {t \in Trades \ {job[s].trade} : Exists(t)} :
         job' = [job EXCEPT ![s].dup = d]
    /\ pc' = [pc EXCEPT ![s] = "cancelling"]
    /\ UNCHANGED <<database, locks>>

LockRow(s) ==
    /\ pc[s] = "cancelling"
    /\ TradeWanted(s) # {}
    /\ Granted(s)
    /\ Advance(s, "cancelling")
    /\ UNCHANGED <<database, job>>

TokenIgnored(s) == TRUE
TokenIsCurrent(s) == job[s].token = TokenOf(job[s].trade)

EffectiveSalesOnly(t) == \E i \in Effective(book[t]) : book[t][i].side = "SELL"
HasSale(t) == \E i \in DOMAIN book[t] : book[t][i].side = "SELL"

Cancellable(s) ==
    LET t == job[s].trade
    IN  /\ Held(t)
        /\ ~HasSale(t)
        /\ t \notin reviewed
        /\ job[s].dup # 0 => job[s].dup \in Rivals(t)

\* All rows are locked. A cancelled trade is answered as it is, a stale or
\* blocked request is refused.
CheckCancel(s) ==
    /\ pc[s] = "cancelling"
    /\ TradeWanted(s) = {}
    /\ IF TokenIsCurrent(s) /\ Cancellable(s)
       THEN Advance(s, "confirmed") /\ UNCHANGED job
       ELSE End(s)
    /\ UNCHANGED database

CommitCancel(s) ==
    /\ pc[s] = "confirmed"
    /\ cancelled' = cancelled \cup {job[s].trade}
    /\ duplicateOf' = [duplicateOf EXCEPT ![job[s].trade] = job[s].dup]
    /\ End(s)
    /\ UNCHANGED <<book, position, reviewed>>

----------------------------------------------------------------------------
(* Around the requests.                                                    *)

\* An observation, journal or lesson about the trade; the insert trigger
\* locks and looks at the trade.
Review(t) ==
    /\ Exists(t)
    /\ t \notin reviewed \cup cancelled
    /\ \A o \in Sessions : t \notin locks[o]
    /\ reviewed' = reviewed \cup {t}
    /\ UNCHANGED <<book, position, cancelled, duplicateOf, pc, locks, job>>

\* A database error, a lost connection, or the process dies. Or a client
\* drops its preview.
Fail(s) ==
    /\ pc[s] # "idle"
    /\ End(s)
    /\ UNCHANGED database

Next ==
    \/ \E s \in Sessions :
         \/ Begin(s) \/ FindRequest(s) \/ Replay(s) \/ OpenTrade(s) \/ ReadTrade(s)
         \/ Flush(s) \/ Commit(s)
         \/ \E t \in Trades : ShowPreview(s, t)
         \/ BeginCancel(s) \/ LockRow(s) \/ CheckCancel(s) \/ CommitCancel(s)
         \/ Fail(s)
    \/ \E t \in Trades : Review(t)

Spec == Init /\ [][Next]_vars

----------------------------------------------------------------------------
(* Safety.                                                                 *)

\* The stored position is the projection of the trade's executions, although
\* every request computes it before it commits (the row lock of get()).
PositionIsProjection ==
    \A t \in Trades :
        /\ position[t] = OpenQuantity(book[t])
        /\ Exists(t) => Possible(book[t])

\* "at most one non-cancelled open trade per workspace and warrant": a trade
\* becomes open only while no other one of its product is. Duplicates from
\* before the migration may stay.
OpensAlone ==
    [][\A t \in Trades : ~Held(t) /\ Held(t)' => Rivals(t)' = {}]_vars

\* "Trade mutations lock their parent trade": a cancelled trade is not
\* touched by a request that looked at it before.
CancelledTradeIsFrozen ==
    [][\A t \in cancelled : /\ book'[t] = book[t] /\ position'[t] = position[t]
                            /\ t \in cancelled' /\ duplicateOf'[t] = duplicateOf[t]
                            /\ (t \in reviewed' => t \in reviewed)]_vars

\* "A stale preview fails closed": what is cancelled has exactly the history
\* that the client has seen.
CancelledAsPreviewed ==
    [][\A t \in cancelled' \ cancelled :
         \E s \in Sessions : /\ pc[s] = "confirmed" /\ job[s].trade = t
                             /\ job[s].token.length = Len(book[t])]_vars

\* "the optional duplicate link is verified and locked along with the
\* target": the retained trade is open in the moment of the cancellation, so
\* two trades are never cancelled as duplicates of each other.
DuplicateIsRetained ==
    [][\A t \in cancelled' \ cancelled :
         duplicateOf'[t] # 0 => duplicateOf'[t] \in Rivals(t)']_vars

\* A retry of a request that has been recorded, or is about to be, never gets
\* as far as recording it again (the advisory lock of find_request).
RetryIsAnswered ==
    \A s \in Sessions : pc[s] \in {"keyed", "ready", "flushed"} => ~KeyIsUsed(job[s].key)

\* Requests never wait for each other in a circle.
Waits(s, o) == o # s /\ Wants(s) \cap locks[o] # {}

NoDeadlock ==
    \A D \in (SUBSET Sessions) \ {{}} : \E s \in D : \A o \in D : ~Waits(s, o)

(***************************************************************************)
(* The sessions together behave like one that takes one request at a time. *)
(***************************************************************************)
Book == INSTANCE TradeBook WITH Executions <- Execution

ImplementsBook == Book!BookSpec
=============================================================================
