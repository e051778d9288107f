--------------------------- MODULE MCGolemWindow ----------------------------
(***************************************************************************)
(* Small instances of GolemWindow: one or two attempts to open the window, *)
(* two handoffs, one call of a page in flight.                             *)
(***************************************************************************)
EXTENDS GolemWindow, TLC

=============================================================================
