----------------------------- MODULE MCTJBuffer -----------------------------
(* Two instances and two buffers, passed one at a time or both to one call. *)
EXTENDS TJBuffer, TLC
CONSTANTS s1, s2

\* The instances are alike; the buffers are not, a call takes s1 before s2.
MCSymmetry == Permutations(Handles)
MCCalls == {<<s1>>, <<s2>>, <<s1, s2>>}
=============================================================================
