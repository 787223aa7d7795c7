-------------------------- MODULE MCDownloadManager --------------------------
(***************************************************************************)
(* A plan of three files from two data centres.  Archive A allows one      *)
(* transfer at a time and has a quiet period; file 1 has a mirror with the *)
(* same file name, file 3 a fallback with another name, file 2 is of a     *)
(* transport without retries.                                              *)
(***************************************************************************)
EXTENDS DownloadManager

CONSTANTS A, B, f1, f2, f3, g3

MCProviders == {A, B}
MCFiles == {f1, f2, f3, g3}
MCProvider == <<A, A, B>>
MCChain == <<
    <<[file |-> f1, once |-> FALSE], [file |-> f1, once |-> TRUE]>>,
    <<[file |-> f2, once |-> TRUE]>>,
    <<[file |-> f3, once |-> FALSE], [file |-> g3, once |-> TRUE]>>>>
MCLimit == [t \in {1, 2} |-> 1]
MCQuiet == {1, 2}
=============================================================================
