---------------------- MODULE MCNotificationDelivery ----------------------
(***************************************************************************)
(* A briefing and an alert, two attempts, and one restart: the alert is    *)
(* discarded when it is old, either is given up after the second failure,  *)
(* and the restart finds whatever the files hold.                          *)
(***************************************************************************)
EXTENDS NotificationDelivery

TwoKeys == {"briefing", "alert"}
Briefings == {"briefing"}
=============================================================================
