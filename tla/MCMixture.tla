------------------------------ MODULE MCMixture ------------------------------
(***************************************************************************)
(* Instances of Mixture: three sources whose members form components by    *)
(* lineage, by group and by content, some of them truncated or colliding;  *)
(* every small budget and weighting; two arms; and snapshots and sidecars  *)
(* that are replaced while they are read.                                  *)
(***************************************************************************)
EXTENDS Mixture, TLC

\* The last digit of a content is its length.
MCLength(tokenizer, content) ==
    (content % 10) + (IF tokenizer.name = "other" THEN 1 ELSE 0)

\* A salt is a multiplier modulo 101: the digests of all anchors differ.
MCSelectionDigest(salt, source, anchor) ==
    (salt * (anchor[2] + source + (IF anchor[1] = "group" THEN 50 ELSE 0))) % 101

-----------------------------------------------------------------------------
(* Snapshots *)

M(id, lineage, group, content) ==
    [id |-> id, lineage |-> lineage, group |-> group, coordinate |-> id, content |-> content]
Alone(id, content) == M(id, id, Absent, content)
Snapshot(train, validation, held) ==
    [splits |-> [train |-> train, validation |-> <<validation>>, held_out |-> <<held>>],
     valid |-> TRUE]

\* 1, 2 and 3 are joined by a lineage and a group; 4 and 6 by their content.
Chained ==
    <<M(1, 1, Absent, 11), M(2, 1, 5, 22), M(3, 3, 5, 32), Alone(4, 43), Alone(5, 51), Alone(6, 43)>>
First == Snapshot(Chained, Alone(7, 72), Alone(8, 82))
Retold == [First EXCEPT !.splits["train"][5].content = 54]
Broken == [First EXCEPT !.valid = FALSE]

Plain == <<Alone(11, 113), Alone(12, 122), Alone(13, 136)>>
Second == Snapshot(Plain, Alone(17, 172), Alone(18, 182))
Third == Snapshot(<<M(21, 21, 9, 217), Alone(22, 222)>>, Alone(27, 272), Alone(28, 282))

\* A member that shares an identity with the first source.
Duplicates ==
    {Snapshot(Append(Plain, M(14, 3, Absent, 144)), Alone(17, 172), Alone(18, 182)),
     Snapshot(Append(Plain, M(14, 14, 5, 144)), Alone(17, 172), Alone(18, 182)),
     Snapshot(Plain, M(17, 17, Absent, 43), Alone(18, 182)),
     Snapshot(Plain, Alone(17, 172), M(18, 18, 5, 182)),
     Snapshot(Plain, Alone(17, 172), Alone(7, 182))}

-----------------------------------------------------------------------------
(* Sidecars *)

Wide == [name |-> "one", limit |-> None]
Narrow == [name |-> "one", limit |-> 5]
Other == [name |-> "other", limit |-> None]

\* A ledger with the right totals and bounds, its lengths at the wrong members.
Permuted(ledger) ==
    LET swap(id) == CASE id = 1 -> 5 [] id = 5 -> 1 [] id = 3 -> 4 [] id = 4 -> 3 [] OTHER -> id
    IN  [ledger EXCEPT !.records = {[r EXCEPT !.id = swap(r.id)] : r \in @}]
Misnamed(ledger) ==
    [ledger EXCEPT !.records = {[r EXCEPT !.id = IF r.id = 4 THEN 99 ELSE r.id] : r \in @}]

OnDisk(snapshot, tokenizer) ==
    [snapshot |-> snapshot, statistics |-> StatisticsOf(snapshot, tokenizer, "m"),
     ledger |-> LedgerOf(snapshot, tokenizer)]
Disk(second, tokenizer) ==
    <<OnDisk(First, tokenizer), OnDisk(second, tokenizer), OnDisk(Third, tokenizer)>>

-----------------------------------------------------------------------------
(* Scenarios *)

Arm(arm, sources, weights, budget, salt) ==
    [arm |-> arm, sources |-> sources, weights |-> [s \in ToSet(sources) |-> weights[s]],
     budget |-> budget, salt |-> salt, consumed |-> "train", reserves |-> FALSE]
Quiet(inputs, specs) == [disk |-> inputs, specs |-> specs, edits |-> {}]

Budgets ==
    {Quiet(Disk(Second, tokenizer), <<Arm("a", <<1, 2, 3>>, weights, budget, salt)>>) :
        tokenizer \in {Wide, Narrow}, salt \in {1, 30, 100}, budget \in {1, 4, 7, 9, 13, 16, 26},
        weights \in {<<1, 1, 1>>, <<3, 2, 1>>, <<1, 5, 1>>, <<7, 1, 3>>}}

Arms ==
    {Quiet(Disk(Second, Wide),
           <<Arm("a", <<1, 2>>, <<1, 1>>, budget, salt),
             [Arm("b", sources, <<1, 1, 1>>, 9, 1) EXCEPT !.reserves = reserves, !.consumed = consumed]>>) :
        budget \in {3, 9}, salt \in {1, 100}, sources \in {<<1, 2>>, <<3, 2>>, <<3>>},
        reserves \in BOOLEAN, consumed \in {"train", "validation"}}

Collisions ==
    {Quiet(Disk(second, Wide), <<Arm("a", <<1, 2>>, <<1, 1>>, 14, 1)>>) : second \in Duplicates}

Mismatches ==
    {Quiet([Disk(Second, Wide) EXCEPT ![2] = OnDisk(Second, Other)], <<Arm("a", <<1, 2>>, <<1, 1>>, 14, 1)>>),
     Quiet([Disk(Second, Wide) EXCEPT ![2].ledger = LedgerOf(Second, Narrow)],
           <<Arm("a", <<1, 2>>, <<1, 1>>, 14, 1)>>)}

Edit(source, input, value) == [source |-> source, input |-> input, value |-> value]
Edits ==
    {Edit(1, "snapshot", Retold), Edit(1, "snapshot", Broken), Edit(1, "snapshot", First),
     Edit(1, "statistics", StatisticsOf(Retold, Wide, "m")),
     Edit(1, "ledger", LedgerOf(Retold, Wide)), Edit(1, "ledger", Permuted(LedgerOf(First, Wide))),
     Edit(1, "ledger", Misnamed(LedgerOf(First, Wide))),
     Edit(2, "ledger", LedgerOf(Second, Narrow)),
     Edit(2, "statistics", StatisticsOf(Second, Narrow, "m"))}
Busy ==
    {[disk |-> inputs, edits |-> Edits,
      specs |-> <<Arm("a", <<1, 2>>, <<1, 1>>, 12, salt),
                  [Arm("b", <<1, 2>>, <<2, 1>>, 12, 1) EXCEPT !.reserves = TRUE]>>] :
        salt \in {1, 100},
        inputs \in {Disk(Second, Wide),
                    [Disk(Second, Wide) EXCEPT ![1].snapshot = Retold],
                    [Disk(Second, Wide) EXCEPT ![1].statistics = StatisticsOf(Retold, Wide, "m")]}}

MCScenarios == Budgets \cup Arms \cup Collisions \cup Mismatches \cup Busy
=============================================================================
