--------------------------- MODULE MCHttpTransfer ---------------------------
(***************************************************************************)
(* Two versions of a file, the newer one longer; an HTML page that begins  *)
(* like one and a page that does not.  The primary server does not have    *)
(* the file, its first fallback always sends the whole file, its second    *)
(* continues transfers.                                                    *)
(***************************************************************************)
EXTENDS HttpTransfer

CONSTANTS old, new

MCVersions == {old, new}
MCSize == [v \in MCVersions |-> IF v = old THEN 2 ELSE 3]
MCHolding == {2, 3}
MCRanged == {3}

\* For the runs with one server, which continues transfers.
OnlyServer == {1}
=============================================================================
