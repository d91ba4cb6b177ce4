---------------------------- MODULE MCSplitSnapshot ----------------------------
(* A small instance of SplitSnapshot.                                         *)
EXTENDS SplitSnapshot

Row(id, lineage, group, text) ==
    [id |-> id, lineage |-> lineage, group |-> group, text |-> text,
     canonical |-> TRUE, form |-> "text"]
Blank == [Row(0, Absent, Absent, "") EXCEPT !.form = "blank"]

MCAnchors == {"lineage", "group"} \X (1..6)

\* Two hashes: by number modulo three, and one that tells a group from a lineage.
ByNumber == [a \in MCAnchors |-> SplitOrder[1 + (a[2] % 3)]]
ByKind == [a \in MCAnchors |->
             IF a[1] = "group" THEN SplitOrder[1 + (a[2] % 2)] ELSE SplitOrder[3 - (a[2] % 2)]]

\* Five rows; ids run against the source order.
Rows(lineages, groups, texts) ==
    [k \in 1..5 |-> Row(6 - k, lineages[k], groups[k], texts[k])]

Lineages == <<<<1, 2, 3, 4, 5>>, <<1, 1, 2, 3, 4>>, <<1, 2, 2, 3, 3>>>>
Groups == <<<<Absent, Absent, Absent, Absent, Absent>>, <<2, Absent, 1, Absent, 2>>,
            <<1, 1, Absent, 2, Absent>>>>
Texts == <<<<"a", "b", "c", "d", "e">>, <<"a", "b", "a", "c", "d">>,
           <<"a", "b", "c", "d", "b">>>>

Distinct == Rows(<<1, 2, 3, 4, 5>>, <<Absent, Absent, Absent, Absent, Absent>>,
                 <<"a", "b", "c", "d", "e">>)

\* Sources every behaviour of which is quiet: all relations, and refusals.
Quiet == {Rows(Lineages[i], Groups[j], Texts[1 + ((i + j) % 3)]) : i \in 1..3, j \in 1..3}
    \cup {Rows(Lineages[2], Groups[1], Texts[2]), [Distinct EXCEPT ![4] = Blank], [Distinct EXCEPT ![2].form = "torn"],
          [Distinct EXCEPT ![1].form = "messages"], [Distinct EXCEPT ![5].form = "padded"],
          [Distinct EXCEPT ![3].lineage = Absent], [Distinct EXCEPT ![3].id = 5],
          [Distinct EXCEPT ![5].canonical = FALSE]}

\* Tokenizers: pinned by a resolved commit, and one that names only a branch.
Pinned(n) == [commits |-> {"commit"}, revisions |-> {"main"}, behaviour |-> n]
MCTokenizers == {Pinned(1), Pinned(3), [Pinned(1) EXCEPT !.commits = {}]}

World(s, b, edits, tampering) ==
    [source |-> s, bucket |-> b, edits |-> edits, tampering |-> tampering, tokenizer |-> Pinned(1),
     renames |-> TRUE, writable |-> TRUE]

\* Edits of the same size and of another.
Reversed == [k \in 1..5 |-> [Distinct[k] EXCEPT !.text = Distinct[6 - k].text]]
Shorter == Tail(Reversed)

MCScenarios ==
    {World(s, b, {}, FALSE) : s \in Quiet, b \in {ByNumber, ByKind}}
        \cup {World(Distinct, ByNumber, {Distinct, Reversed, Shorter}, FALSE),
              World(Distinct, ByNumber, {}, TRUE),
              [World(Distinct, ByNumber, {}, FALSE) EXCEPT !.renames = FALSE],
              [World(Distinct, ByNumber, {}, FALSE) EXCEPT !.writable = FALSE],
              [World(Distinct, ByNumber, {}, FALSE) EXCEPT !.tokenizer.commits = {}]}

\* The loadable-snapshot question: one source with a line that is not canonical.
MCLoose == {World([Distinct EXCEPT ![5].canonical = FALSE], ByNumber, {}, FALSE)}

MCLength(t, text) == IF text = "a" THEN t ELSE 2
================================================================================
