--------------------------- MODULE AttemptLedger ---------------------------
(***************************************************************************)
(* What the durable delivery store promises about the rows of              *)
(* notification_delivery_attempts, whoever calls it and in whatever order: *)
(* the attempts of one notification form a ledger whose entries are opened *)
(* one at a time, are closed exactly once, are never more than the         *)
(* configured maximum and stop after a confirmed delivery.                 *)
(*                                                                         *)
(* NotificationDelivery implements this module (property ImplementsLedger there).*)
(***************************************************************************)
EXTENDS Naturals, Sequences

CONSTANTS Notifications, MaxAttempts

VARIABLE ledger

Open   == "IN_PROGRESS"
Closed == {"DELIVERED", "FAILED"}

LedgerTypeOK == ledger \in [Notifications -> Seq({Open} \cup Closed)]

HasOpen(n)   == \E k \in DOMAIN ledger[n] : ledger[n][k] = Open
Delivered(n) == \E k \in DOMAIN ledger[n] : ledger[n][k] = "DELIVERED"

----------------------------------------------------------------------------

LedgerInit == ledger = [n \in Notifications |-> <<>>]

\* A new attempt is opened: the previous ones are all closed, none of them
\* delivered the message, and the number of attempts is still below the limit.
Begin(n) ==
    /\ ~HasOpen(n)
    /\ ~Delivered(n)
    /\ Len(ledger[n]) < MaxAttempts
    /\ ledger' = [ledger EXCEPT ![n] = Append(@, Open)]

\* The open attempt, which is the latest one, receives its only result.
Close(n, result) ==
    /\ ledger[n] # <<>>
    /\ ledger[n][Len(ledger[n])] = Open
    /\ ledger' = [ledger EXCEPT ![n][Len(ledger[n])] = result]

\* Recovery closes an interrupted attempt as failed and opens the next one
\* in the same transaction.
Takeover(n) ==
    /\ ledger[n] # <<>>
    /\ ledger[n][Len(ledger[n])] = Open
    /\ ~Delivered(n)
    /\ Len(ledger[n]) < MaxAttempts
    /\ LET closed == [ledger[n] EXCEPT ![Len(ledger[n])] = "FAILED"]
       IN  ledger' = [ledger EXCEPT ![n] = Append(closed, Open)]

LedgerNext ==
    \E n \in Notifications :
        \/ Begin(n)
        \/ \E result \in Closed : Close(n, result)
        \/ Takeover(n)

LedgerSpec == LedgerInit /\ [][LedgerNext]_ledger
=============================================================================
