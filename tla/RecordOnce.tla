----------------------------- MODULE RecordOnce -----------------------------
(* What a resumable batch program promises about the records it keeps: an  *)
(* item that has records keeps those of one attempt, whatever is killed,   *)
(* resumed or tried again, until somebody starts over.                     *)
CONSTANTS Item, Attempt
VARIABLE out                    \* the attempts whose records an item has

Init == out = [i \in Item |-> {}]

Record(i) ==
    /\ out[i] = {}
    /\ \E a \in Attempt : out' = [out EXCEPT ![i] = {a}]

\* Records are forgotten file by file: a start that is killed forgets some.
StartOver == \E gone \in SUBSET Item : out' = [i \in Item |-> IF i \in gone THEN {} ELSE out[i]]

Next == StartOver \/ \E i \in Item : Record(i)

Spec == Init /\ [][Next]_out
=============================================================================
