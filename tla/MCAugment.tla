----------------------------- MODULE MCAugment -----------------------------
(* A small instance of Augment for TLC: two source pairs, of which none   *)
(* or one is held out, and an answer that repeats a source pair.          *)
EXTENDS Augment
MCPairs == <<"p1", "p2">>
MCMixed(c) == [i \in DOMAIN c |-> c[Len(c) + 1 - i]]
MCHeldSets == {{}, {"p1"}}
MCSeedCounts == {0, 1}
MCAnswers == {<<"p2", "g1">>}
============================================================================
