----------------------- MODULE MCNotificationDelivery -----------------------
(* Instances of the notification delivery for TLC. *)
EXTENDS NotificationDelivery, TLC

CONSTANTS w1, w2, r1, r2, e1, e2

\* Two cycles, one process each.
TwoCycles == (w1 :> r1) @@ (w2 :> r2)

\* Two processes of one cycle: the first was held up, the second resumed it.
OneCycle == (w1 :> r1) @@ (w2 :> r1)
=============================================================================
