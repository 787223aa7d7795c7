------------------------------ MODULE Sublists ------------------------------
(***************************************************************************)
(* What the planner does to lists: leave elements out, and keep the first  *)
(* of those that look the same.  A list is cut by the positions it keeps,  *)
(* so that what it keeps can be reasoned about (SublistProofs).            *)
(***************************************************************************)
EXTENDS SequencesExt

\* The elements of s at the positions in K, in order.
Chosen(s, K) == FlattenSeq([k \in DOMAIN s |-> IF k \in K THEN <<s[k]>> ELSE <<>>])

\* The elements of s that are in S: [x for x in s if x in S].
Those(s, S) == Chosen(s, {k \in DOMAIN s : s[k] \in S})

\* The positions of s where something is that was not there before.
Firsts(s) == {k \in DOMAIN s : \A m \in 1..(k - 1) : s[m] # s[k]}

\* A sequence without its later repetitions.
Distinct(s) == Chosen(s, Firsts(s))

\* A sequence without the later repetitions of what Key sees in it.
FirstOfEach(Key(_), s) == Chosen(s, Firsts([k \in DOMAIN s |-> Key(s[k])]))
=============================================================================
