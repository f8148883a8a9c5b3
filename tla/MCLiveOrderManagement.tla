----------------------- MODULE MCLiveOrderManagement -----------------------
(* LiveOrderManagement with orders of quantity 2, filled in one or two      *)
(* trades, and a clock long enough for a cancel to expire and the order to  *)
(* be purged while reports are still on their way.                          *)
EXTENDS LiveOrderManagement
=============================================================================
