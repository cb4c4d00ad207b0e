----------------------------- MODULE MCCuration -----------------------------
(* Small instances of Curation for TLC: inputs with a repeated question, a *)
(* chain of near-duplicates, two stages and passages with one or two rows. *)
EXTENDS Curation
Row(id, q, p, s, ok) == [id |-> id, q |-> q, p |-> p, s |-> s, ok |-> ok]
MCInputs == {
    <<Row(1, "q 1", "A", "1a", TRUE), Row(4, "q 1", "B", "1b", TRUE), Row(2, "q2", "B", "1b", TRUE)>>,
    <<Row(2, "q2", "B", "1a", TRUE), Row(6, "q  1", "A", "1a", TRUE), Row(7, "q5", "A", "1a", TRUE),
      Row(8, "Q2", "B", "1a", FALSE)>>}
MCKey == [q \in {"q 1", "q2", "q3", "q5", "q  1", "Q2"} |-> IF q = "Q2" THEN "q2" ELSE q]
MCWords == [q \in DOMAIN MCKey |-> IF q = "q  1" THEN "q 1" ELSE MCKey[q]]
MCNear == {{2, 6}, {6, 7}}
MCUnfit == {4}
MCRemovals == {{6}}
MCHtml == {"B"}
\* A passage with one row and one with two, of one stage.
MCThree == {<<Row(1, "q 1", "A", "1a", TRUE), Row(2, "q2", "B", "1a", TRUE), Row(3, "q3", "B", "1a", TRUE)>>}
MCNone == {}
MCRatio == [train |-> [num |-> 2, den |-> 3], test |-> [num |-> 1, den |-> 2], val |-> [num |-> 1, den |-> 2]]
\* Two thirds of three rows are picked for the test set.
MCWide == [MCRatio EXCEPT !.test = [num |-> 2, den |-> 3]]
=============================================================================
