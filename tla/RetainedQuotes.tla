--------------------------- MODULE RetainedQuotes ---------------------------
(***************************************************************************)
(* The last quote of a listing from a provider is kept for ever            *)
(* (market_data/service/retained_quotes.py), and the first read of every   *)
(* five minutes is sampled, whatever its outcome (quote_history.py).  The  *)
(* provider is asked without a transaction, and may answer from a cache    *)
(* that all readers share; the row of the listing is locked afterwards.    *)
(* Its identity (listing, product, venue and route) has a key, a number    *)
(* that grows with every edit, as the versions of these rows are part of   *)
(* it; and the fields that an answer is compared with (ISIN, exchange,     *)
(* venue, WKN, currency), which an edit may leave as they are or bring     *)
(* back.                                                                   *)
(***************************************************************************)
EXTENDS Naturals

CONSTANTS
    Readers,
    LastIdentity,   \* bound: edits of what makes the identity
    LastTick,       \* bound: time
    SlotLength

QuotesAssumption == LastIdentity \in Nat \ {0} /\ LastTick \in Nat \ {0} /\ SlotLength \in Nat \ {0}

VARIABLES
    now,
    identity,       \* what is verified now; active is FALSE when nothing is
    cache,          \* the provider's last answer
    reader,         \* what a read has seen
    row,            \* the quote that is kept for the listing and the provider
    replaced,       \* the row that it replaced
    samples         \* identity -> slot -> samples of it

quoteVars == <<now, identity, cache, reader, row, replaced, samples>>

Slot(t) == t \div SlotLength
Slots == 0..Slot(LastTick)
NoQuote == [fields |-> 0, observed |-> 0, retrieved |-> 0]
NoRow == [key |-> 0, quote |-> NoQuote]
Idle == [phase |-> "idle", key |-> 0, fields |-> 0, result |-> NoQuote]

TypeOK ==
    /\ now \in 0..LastTick
    /\ identity \in [key : 1..LastIdentity, fields : 1..LastIdentity, active : BOOLEAN]
    /\ reader \in [Readers -> [phase : {"idle", "asks", "asked", "holds"},
           key : 0..LastIdentity, fields : 0..LastIdentity,
           result : [fields : 0..LastIdentity, observed : 0..LastTick, retrieved : 0..LastTick]]]
    /\ samples \in [1..LastIdentity -> [Slots -> 0..2]]

Init ==
    /\ now = 1
    /\ identity = [key |-> 1, fields |-> 1, active |-> TRUE]
    /\ cache = NoQuote
    /\ reader = [r \in Readers |-> Idle]
    /\ row = NoRow /\ replaced = NoRow
    /\ samples = [i \in 1..LastIdentity |-> [s \in Slots |-> 0]]

\* What is kept for the identity of the reader.
Previous(key) == IF row.key = key THEN row.quote ELSE NoQuote

-----------------------------------------------------------------------------

Tick == now < LastTick /\ now' = now + 1 /\ UNCHANGED <<identity, cache, reader, row, replaced, samples>>

\* A correction, a deactivation or a new route, with new fields or some that were there;
\* the reader may hold the listing, but not the product.
Edit(fields, active) ==
    /\ identity.key < LastIdentity
    /\ identity' = [key |-> identity.key + 1, fields |-> fields, active |-> active]
    /\ UNCHANGED <<now, cache, reader, row, replaced, samples>>

Ask(r) ==
    /\ reader[r].phase = "idle" /\ identity.active
    /\ reader' = [reader EXCEPT ![r] =
                     [Idle EXCEPT !.phase = "asks", !.key = identity.key, !.fields = identity.fields]]
    /\ UNCHANGED <<now, identity, cache, row, replaced, samples>>

Hears(r, result) == reader' = [reader EXCEPT ![r].phase = "asked", ![r].result = result]

\* The provider finds the route that is in force now; 0 is a quote without a time,
\* and NoQuote stands for every failure.
AnswerNew(r, observed) ==
    /\ reader[r].phase = "asks" /\ identity.active
    /\ cache' = [fields |-> identity.fields, observed |-> observed, retrieved |-> now]
    /\ Hears(r, cache')
    /\ UNCHANGED <<now, identity, row, replaced, samples>>

AnswerCached(r) ==
    /\ reader[r].phase = "asks" /\ cache # NoQuote
    /\ Hears(r, cache)
    /\ UNCHANGED <<now, identity, cache, row, replaced, samples>>

AnswerFails(r) ==
    /\ reader[r].phase = "asks"
    /\ Hears(r, NoQuote)
    /\ UNCHANGED <<now, identity, cache, row, replaced, samples>>

\* The listing is locked, also before anything is stored; of an identity that has
\* changed nothing is written.
Unchanged(r) == identity = [key |-> reader[r].key, fields |-> reader[r].fields, active |-> TRUE]
Unlocked == \A r \in Readers : reader[r].phase # "holds"

Lock(r) ==
    /\ reader[r].phase = "asked" /\ Unlocked
    /\ reader' = [reader EXCEPT ![r] = IF Unchanged(r) THEN [@ EXCEPT !.phase = "holds"] ELSE Idle]
    /\ UNCHANGED <<now, identity, cache, row, replaced, samples>>

\* An answer for the same fields is valid, also if it was fetched for an earlier key.
Valid(r) == reader[r].result.fields = reader[r].fields

\* A quote that was observed or fetched earlier than the one that is kept.
Older(new, old) ==
    /\ old # NoQuote
    /\ \/ old.observed # 0 /\ new.observed < old.observed
       \/ new.retrieved < old.retrieved

Usable(r) == Valid(r) /\ ~Older(reader[r].result, Previous(reader[r].key))

Sampled(key, slot) == samples[key][slot] > 0

Kept(r) == [key |-> reader[r].key, quote |-> reader[r].result]

\* What is not usable is answered with the quote that is kept, or with an error.
Retain(r) ==
    /\ reader[r].phase = "holds"
    /\ IF Usable(r) /\ row # Kept(r)
       THEN row' = Kept(r) /\ replaced' = row ELSE UNCHANGED <<row, replaced>>
    /\ samples' = IF Sampled(reader[r].key, Slot(now)) THEN samples
                  ELSE [samples EXCEPT ![reader[r].key][Slot(now)] = @ + 1]
    /\ reader' = [reader EXCEPT ![r] = Idle]
    /\ UNCHANGED <<now, identity, cache>>

Next ==
    \/ Tick
    \/ \E fields \in 1..(identity.key + 1), active \in BOOLEAN : Edit(fields, active)
    \/ \E r \in Readers :
        \/ Ask(r) \/ AnswerCached(r) \/ AnswerFails(r) \/ Lock(r) \/ Retain(r)
        \/ \E observed \in {now - 1, now} : AnswerNew(r, observed)

Spec == Init /\ [][Next]_quoteVars

-----------------------------------------------------------------------------
(* What the quotes that are kept promise. *)

\* The quote of an identity only moves on: neither a slow answer nor one from the
\* cache replaces a later one.
\* An identity that was given up does not come back.
QuotesMoveOn == replaced.key <= row.key /\ (replaced.key = row.key => ~Older(row.quote, replaced.quote))

\* Of every slot and identity there is one sample (capture_quote_sample).
SampledOnce == \A key \in 1..LastIdentity, slot \in Slots : samples[key][slot] <= 1
=============================================================================
