--------------------------- MODULE MCDiningSystem ---------------------------
(***************************************************************************)
(* Instances of DiningSystem for TLC.  The clients are numbers, because    *)
(* the entry of keysets a thread gets depends on the order of arrival, not *)
(* on who it is; there is no symmetry to declare.                          *)
(***************************************************************************)
EXTENDS DiningSystem

Nobody   == {}
Everyone == Clients
=============================================================================
