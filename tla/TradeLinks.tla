------------------------------ MODULE TradeLinks ------------------------------
(***************************************************************************)
(* The links of an external observation to the trades made of it           *)
(* (learning/application/trade_link_service.py), the command that makes    *)
(* such a trade (execute_as_trade_service.py), and the sale and the        *)
(* cancellation of a trade meanwhile.                                      *)
(*                                                                         *)
(* A command holds the rows it has locked until it commits: the link's,    *)
(* the observation's, then the trade's; the execution holds the key of its *)
(* receipt instead of a link.  A repeated execution is answered from its   *)
(* receipt and changes nothing.  Nothing in the program gives the          *)
(* observation a second version, so no link is revalidated.                *)
(***************************************************************************)
EXTENDS Naturals

CONSTANTS
    Clients,        \* requests at a time
    Trades,         \* trades of the observation's product, numbers from 1
    First,          \* the one that was open before
    Links,          \* bound: links, numbers from 1
    Keys,           \* of executions
    LastVersion     \* bound: versions of a link

LinksAssumption ==
    /\ First \in Trades /\ 0 \notin Trades /\ 0 \notin Links
    /\ LastVersion \in Nat \ {0}

VARIABLES
    trade,          \* status of each trade
    link,           \* its current version: number, status and trade
    referenced,     \* trades some version of a link names
    receipt,        \* key -> status of the command and its trade
    work            \* what each request does and has locked

linkVars == <<trade, link, referenced, receipt, work>>

NoLink == [version |-> 0, status |-> "none", trade |-> 0]
NoReceipt == [status |-> "none", trade |-> 0]
Idle == [does |-> "nothing", link |-> 0, trade |-> 0, key |-> "none", linked |-> FALSE, locks |-> {}]
Commands == {"create", "correct_target", "reactivate", "execute"}
Rows ==
    {<<"observation", 0>>} \cup ({"link"} \X Links) \cup ({"trade"} \X (Trades \cup {0})) \cup ({"key"} \X Keys)

TypeOK ==
    /\ trade \in [Trades -> {"none", "open", "closed", "cancelled"}]
    /\ link \in [Links -> [version : 0..LastVersion, status : {"none", "ACTIVE", "RETRACTED"},
                           trade : Trades \cup {0}]]
    /\ referenced \subseteq Trades
    /\ receipt \in [Keys -> [status : {"none", "IN_PROGRESS", "SUCCEEDED"}, trade : Trades \cup {0}]]
    /\ \A c \in Clients :
        /\ work[c].does \in Commands \cup {"nothing"} /\ work[c].link \in Links \cup {0}
        /\ work[c].trade \in Trades \cup {0} /\ work[c].key \in Keys \cup {"none"}
        /\ work[c].linked \in BOOLEAN /\ work[c].locks \subseteq Rows

Init ==
    /\ trade = [t \in Trades |-> IF t = First THEN "open" ELSE "none"]
    /\ link = [l \in Links |-> NoLink]
    /\ referenced = {}
    /\ receipt = [k \in Keys |-> NoReceipt]
    /\ work = [c \in Clients |-> Idle]

-----------------------------------------------------------------------------

Observation == <<"observation", 0>>
\* No request holds the row.
Free(r) == \A c \in Clients : r \notin work[c].locks
Holds(c, r) == r \in work[c].locks
\* The row that the reader of trades locks.
TradeLock(t) == <<"trade", t>>

\* exists_current_active_pair: another link has the trade now.
PairOfOlderVersion(t, exclude) ==
    \E l \in Links \ {exclude} : link[l].trade = t /\ link[l].version = 1
PairExists(t, exclude) ==
    \E l \in Links \ {exclude} : link[l].trade = t /\ link[l].status = "ACTIVE"

Idling(c) == work[c].does = "nothing"
Sets(c, w) == work' = [work EXCEPT ![c] = w]
Locks(c, r) == Sets(c, [work[c] EXCEPT !.locks = @ \cup {r}])

-----------------------------------------------------------------------------

\* create, and the link's row for correct_target and reactivate.
Create(c) ==
    /\ Idling(c)
    /\ Free(Observation)
    /\ Sets(c, [Idle EXCEPT !.does = "create", !.locks = {Observation}])
    /\ UNCHANGED <<trade, link, referenced, receipt>>

Change(c, does, l) ==
    /\ Idling(c)
    /\ Free(<<"link", l>>)
    /\ link[l].version \in 1..LastVersion - 1
    /\ \/ does = "correct_target" /\ link[l].status = "ACTIVE"
       \/ does = "reactivate" /\ link[l].status = "RETRACTED"
    /\ Sets(c, [Idle EXCEPT !.does = does, !.link = l, !.locks = {<<"link", l>>}])
    /\ UNCHANGED <<trade, link, referenced, receipt>>

\* A new command inserts its receipt; the unique key makes another one wait.
Execute(c, k) ==
    /\ Idling(c)
    /\ Free(<<"key", k>>)
    /\ receipt[k] = NoReceipt
    /\ Sets(c, [Idle EXCEPT !.does = "execute", !.key = k, !.locks = {<<"key", k>>}])
    /\ UNCHANGED <<trade, link, referenced, receipt>>

LockObservation(c) ==
    /\ work[c].does \in {"correct_target", "reactivate", "execute"}
    /\ ~Holds(c, Observation)
    /\ Free(Observation)
    /\ Locks(c, Observation)
    /\ UNCHANGED <<trade, link, referenced, receipt>>

\* _validate_active_target, for a trade of the same product.
Validate(c, t) ==
    /\ work[c].does \in {"create", "correct_target", "reactivate"}
    /\ Holds(c, Observation) /\ work[c].trade = 0
    /\ trade[t] \in {"open", "closed"}
    /\ Free(TradeLock(t))
    /\ ~PairExists(t, work[c].link)
    /\ work[c].does = "correct_target" => link[work[c].link].trade # t
    /\ Sets(c, [work[c] EXCEPT !.trade = t, !.locks = @ \cup {TradeLock(t)}])
    /\ UNCHANGED <<trade, link, referenced, receipt>>

\* A new link, or the next version of one.
LinksTo(c, l) ==
    /\ IF work[c].link = 0 THEN link[l] = NoLink ELSE l = work[c].link
    /\ link' = [link EXCEPT ![l] = [version |-> @.version + 1, status |-> "ACTIVE",
                                     trade |-> work[c].trade]]
    /\ referenced' = referenced \cup {work[c].trade}

Commit(c, l) ==
    /\ work[c].does # "execute" /\ work[c].trade # 0
    /\ LinksTo(c, l)
    /\ Sets(c, Idle)
    /\ UNCHANGED <<trade, receipt>>

\* retract: it reads and writes the link alone.
Retract(c, l) ==
    /\ Idling(c)
    /\ Free(<<"link", l>>)
    /\ link[l].status = "ACTIVE" /\ link[l].version < LastVersion
    /\ link' = [link EXCEPT ![l].version = @ + 1, ![l].status = "RETRACTED"]
    /\ UNCHANGED <<trade, referenced, receipt, work>>

\* The trade of an execution, if the product has no open one.
CreateTrade(c, t) ==
    /\ work[c].does = "execute" /\ Holds(c, Observation) /\ work[c].trade = 0
    /\ trade[t] = "none"
    /\ \A u \in Trades : trade[u] # "open"
    /\ Sets(c, [work[c] EXCEPT !.trade = t, !.locks = @ \cup {<<"trade", t>>}])
    /\ UNCHANGED <<trade, link, referenced, receipt>>

Linking(c) == work[c].does = "execute" /\ work[c].trade # 0 /\ ~work[c].linked /\ ~PairExists(work[c].trade, 0)
Makes(c) == trade' = [trade EXCEPT ![work[c].trade] = "open"]
\* The nested create of the link does not commit: commit=False.
CreateLink(c) ==
    /\ Linking(c)
    /\ \E l \in Links : link[l] = NoLink
    /\ Sets(c, [work[c] EXCEPT !.linked = TRUE])
    /\ UNCHANGED <<trade, link, referenced, receipt>>

\* The receipt succeeds, and all of it is committed.
Succeed(c, l) ==
    /\ work[c].linked
    /\ receipt' = [receipt EXCEPT ![work[c].key] = [status |-> "SUCCEEDED", trade |-> work[c].trade]]
    /\ LinksTo(c, l)
    /\ Makes(c)
    /\ Sets(c, Idle)

\* A request is refused, or dies: what it has not committed is rolled back.
GiveUp(c) ==
    /\ ~Idling(c)
    /\ Sets(c, Idle)
    /\ UNCHANGED <<trade, link, referenced, receipt>>

\* A full sale and a cancellation of a trade: both take its lock; a trade that a
\* version of a link names is not cancelled.
Sell(t) ==
    /\ trade[t] = "open"
    /\ Free(<<"trade", t>>)
    /\ trade' = [trade EXCEPT ![t] = "closed"]
    /\ UNCHANGED <<link, referenced, receipt, work>>

Cancel(t) ==
    /\ trade[t] = "open"
    /\ Free(<<"trade", t>>)
    /\ t \notin referenced
    /\ trade' = [trade EXCEPT ![t] = "cancelled"]
    /\ UNCHANGED <<link, referenced, receipt, work>>

Next ==
    \/ \E c \in Clients :
        \/ Create(c) \/ LockObservation(c) \/ CreateLink(c) \/ GiveUp(c)
        \/ \E k \in Keys : Execute(c, k)
        \/ \E t \in Trades : Validate(c, t) \/ CreateTrade(c, t)
        \/ \E l \in Links :
            \/ Commit(c, l) \/ Retract(c, l) \/ Succeed(c, l)
            \/ \E does \in {"correct_target", "reactivate"} : Change(c, does, l)
    \/ \E t \in Trades : Sell(t) \/ Cancel(t)

Spec == Init /\ [][Next]_linkVars

-----------------------------------------------------------------------------

\* The observation has at most one active link to a trade.  The check and the
\* new version are one step only because every command that makes a link active
\* locks the observation, whichever link it has locked before.
OneActivePair ==
    \A l, m \in Links :
        link[l].status = "ACTIVE" /\ link[m].status = "ACTIVE" /\ link[l].trade = link[m].trade => l = m

\* A trade that a version of a link names is never cancelled: the cancellation
\* looks for links once it has the trade's lock, and a link is made under it.
LinkedTradeStands == \A t \in referenced : trade[t] \in {"open", "closed"}

\* An execution happens as a whole, once: the trades made here are those of the
\* receipts that succeeded, one each, a link names every one, and no receipt
\* stays in progress (a retry would be refused for good).
ExecutedOnce ==
    LET made == {t \in Trades \ {First} : trade[t] # "none"}
        succeeded == {k \in Keys : receipt[k].status = "SUCCEEDED"} IN
    /\ made = {receipt[k].trade : k \in succeeded}
    /\ \A j, k \in succeeded : receipt[j].trade = receipt[k].trade => j = k
    /\ made \subseteq referenced
    /\ \A k \in Keys : receipt[k].status # "IN_PROGRESS"
=============================================================================
