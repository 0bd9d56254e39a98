----------------------- MODULE MCNotificationDelivery -----------------------
(* Instances of NotificationDelivery for TLC. *)
EXTENDS NotificationDelivery, TLC

CONSTANTS runner, cli, cli2, tradeA, tradeB

OneNotification == (1 :> tradeA)

WorkerSymmetry == Permutations(Workers)
=============================================================================
