------------------------------ MODULE MCGuiTask ------------------------------
(***************************************************************************)
(* Two files: one has a fallback with another name, the other has none.    *)
(***************************************************************************)
EXTENDS GuiTask

CONSTANTS t1, t2

MCTasks == {t1, t2}
MCNames == [t \in MCTasks |-> IF t = t1 THEN <<"a", "b">> ELSE <<"c">>]
=============================================================================
