----------------------------- MODULE MCMapView -----------------------------
(***************************************************************************)
(* Two stations, which a filter shows or hides together.                   *)
(***************************************************************************)
EXTENDS MapView

CONSTANTS x, y

MCLists == {{}, {x, y}}
=============================================================================
