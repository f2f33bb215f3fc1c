------------------------ MODULE MCAlertNotification ------------------------
(* Small instances of AlertNotification: cooldowns of one and two ticks.    *)
EXTENDS AlertNotification

MCInterval == [c \in Abnormal |-> IF c = "warning" THEN 2 ELSE 1]
=============================================================================
