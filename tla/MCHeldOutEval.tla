--------------------------- MODULE MCHeldOutEval ---------------------------
(***************************************************************************)
(* Instances of HeldOutEval: bundles of every layout, answers of every     *)
(* format, editors of the artifact, of the split and of the result, and    *)
(* the commands that only write and validate contracts.                    *)
(***************************************************************************)
EXTENDS HeldOutEval, TLC

\* A reference that carries no example is invalid, and so is a candidate whose
\* worker never started; a candidate passes when it is the reference.
MCDoctestScores(reference, candidate) ==
    /\ \E k \in 1..Len(reference) : reference[k].word # "y"
    /\ Len(candidate) # 2
MCDoctestPasses(reference, candidate) == candidate = reference

-----------------------------------------------------------------------------
(* Texts and splits *)

Word(w) == [mark |-> "none", run |-> 0, info |-> FALSE, word |-> w]
Fence(mark, size, info) == [mark |-> mark, run |-> size, info |-> info, word |-> ""]

PlainX == <<Word("x")>>
PlainY == <<Word("y")>>
FencedX == <<Word(""), Fence("backtick", 4, TRUE), Word("x"), Fence("tilde", 4, FALSE)>>
ChattyX == <<Fence("tilde", 3, FALSE), Word("x"), Fence("backtick", 3, FALSE),
             Fence("tilde", 4, FALSE), Word("y")>>
QuotedX == <<Word("x"), Fence("backtick", 3, FALSE)>>
EmptyBlock == <<Fence("backtick", 3, FALSE), Fence("backtick", 3, FALSE)>>

Row(id, expected) ==
    [id |-> id, prompt |-> PlainY, expected |-> expected, bounded |-> TRUE, long |-> FALSE]
Split(rows, source) == [rows |-> rows, train |-> source, valid |-> TRUE]

TwoTasks(first, second) == Split(<<Row("t1", first), Row("t2", second)>>, "train")
OneTask == Split(<<Row("t1", PlainX)>>, "train")
Retold == Split(<<Row("t1", PlainY)>>, "train")
Renamed == Split(<<Row("t2", PlainX)>>, "train")
Retrained == Split(<<Row("t1", PlainX)>>, "train2")
Repeated == Split(<<Row("t1", PlainX), Row("t1", PlainX)>>, "train")
Spoilt == [OneTask EXCEPT !.valid = FALSE]

-----------------------------------------------------------------------------
(* Bundles *)

Tensor(value) == [shape |-> 1, dtype |-> "F16", value |-> value]
Weights(tensors) == [tensors |-> tensors]
A(value) == "a" :> Tensor(value)
B(value) == "b" :> Tensor(value)
Provenance == [base |-> "base", revision |-> "r1", manifest |-> OneTask, train |-> "train"]

IndexOf(files, provenance) ==
    LET paths == SetToSeq(DOMAIN files)
    IN  [entries |-> [k \in 1..Len(paths) |-> <<paths[k], files[paths[k]]>>],
         provenance |-> provenance]
Sealed(files) == (IndexPath :> IndexOf(files, Provenance)) @@ files

AdapterConfig == [base |-> "base", revision |-> "r1", peft |-> "LORA",
                  tensors |-> A(0), embedded |-> A(0) @@ B(0)]
Adapter(value) == (AdapterConfigPath :> AdapterConfig) @@ (AdapterWeightsPath :> Weights(A(value)))
ModelConfig == [tensors |-> A(0) @@ B(0), tied |-> {}]
Model(config, weights) == (MergedConfigPath :> config) @@ (MergedWeightsPath :> Weights(weights))
Shards(map, first, second) ==
    (MergedConfigPath :> ModelConfig) @@ (MergedWeightsIndexPath :> [weights |-> map])
        @@ (Shard(1, 2) :> Weights(first)) @@ (Shard(2, 2) :> Weights(second))
Map(a, b) == [a |-> Shard(a, 2), b |-> Shard(b, 2)]

Without(files, path) == Restrict(files, DOMAIN files \ {path})
Extra == Root("notes", "txt")
Nested == [AdapterWeightsPath EXCEPT !.dir = "checkpoint"]

Layouts ==
    {Sealed(f) : f \in {
        Adapter(1),
        (AdapterWeightsPath :> Weights(A(1) @@ B(1))) @@ Adapter(1),
        (AdapterWeightsPath :> Torn) @@ Adapter(1),
        (AdapterConfigPath :> [AdapterConfig EXCEPT !.revision = "r2"]) @@ Adapter(1),
        (AdapterConfigPath :> [AdapterConfig EXCEPT !.tensors = None]) @@ Adapter(1),
        (AdapterWeightsPath :> Weights(B(1))) @@ Adapter(1),
        (Nested :> Weights(A(2))) @@ Adapter(1),
        (Root("pytorch_model", "bin") :> Torn) @@ Adapter(1),
        (MergedWeightsPath :> Weights(A(1))) @@ Adapter(1),
        (Extra :> Link) @@ Adapter(1),
        Model(ModelConfig, A(1) @@ B(1)),
        Model(ModelConfig, A(1)),
        Model([ModelConfig EXCEPT !.tied = {"b"}], A(1)),
        Model([ModelConfig EXCEPT !.tensors = "a" :> [Tensor(0) EXCEPT !.dtype = "F32"]], A(1)),
        Shards(Map(1, 2), A(1), B(1)),
        Shards(Map(1, 2), B(1), A(1)),
        Shards(Map(1, 2), A(1) @@ B(2), B(1)),
        Shards([a |-> Shard(1, 2), b |-> Shard(1, 2)], A(1) @@ B(1), A(2)),
        Without(Shards([a |-> Shard(1, 2), b |-> Shard(1, 2)], A(1) @@ B(1), A(2)), Shard(2, 2))}}
    \cup
    {Adapter(1),
     (Extra :> Torn) @@ Sealed(Adapter(1)),
     Without(Sealed(Adapter(1)), AdapterWeightsPath),
     (IndexPath :> IndexOf(Adapter(1), None)) @@ Adapter(1),
     (IndexPath :> IndexOf(Adapter(1), [Provenance EXCEPT !.train = "train2"])) @@ Adapter(1),
     (IndexPath :> [IndexOf(Adapter(1), Provenance) EXCEPT
                       !.entries = @ \o <<Head(@)>>]) @@ Adapter(1)}

-----------------------------------------------------------------------------
(* Scenarios *)

Plain ==
    [command |-> "paired", files |-> Sealed(Adapter(1)), split |-> OneTask,
     version |-> "exact-match-v1", policy |-> "mark_unsupported", texts |-> {PlainX},
     edits |-> {}, splits |-> {}, inside |-> FALSE, taken |-> FALSE, tampering |-> FALSE,
     base |-> "base", revision |-> "r1"]

\* The bundle of a scenario is sealed for the scenario's own split.
For(scenarioSplit, s) ==
    [s EXCEPT !.split = scenarioSplit,
              !.files = (IndexPath :> IndexOf(Adapter(1), [Provenance EXCEPT !.manifest = scenarioSplit,
                                                           !.train = scenarioSplit.train]))
                        @@ Adapter(1)]

Laid == {[Plain EXCEPT !.files = files] : files \in Layouts}

Odd == Split(<<[Row("t1", PlainX) EXCEPT !.long = TRUE], [Row("t2", PlainX) EXCEPT !.bounded = FALSE],
               Row("t3", PlainX)>>, "train")

Answered ==
    {For(TwoTasks(PlainX, expected), [Plain EXCEPT !.version = version, !.texts = texts]) :
        expected \in {FencedX, EmptyBlock}, version \in {"exact-match-v1", "exact-match-v2"},
        texts \in {{PlainX, QuotedX, ChattyX, FencedX}}}
    \cup {For(TwoTasks(PlainY, PlainX), [Plain EXCEPT !.version = "doctest-v1",
                                                     !.texts = {PlainX, FencedX, <<>>}])}
    \cup {For(Odd, [Plain EXCEPT !.policy = policy, !.texts = {PlainX, PlainY}]) :
             policy \in {"reject", "mark_unsupported", "left"}}

Weighed == {Weights(A(1)), Weights(A(2))}
Rewrites ==
    {<<AdapterWeightsPath, weights>> : weights \in Weighed}
    \cup {<<IndexPath, IndexOf(Adapter(value), Provenance)>> : value \in {1, 2}}
    \cup {<<Extra, Torn>>, <<Extra, Removed>>, <<AdapterWeightsPath, Removed>>}

Edited ==
    {[Plain EXCEPT !.edits = Rewrites, !.files = (AdapterWeightsPath :> weights) @@ @,
                   !.splits = {OneTask, Retold, Renamed, Retrained, Spoilt}] : weights \in Weighed}

Based ==
    {[Plain EXCEPT !.command = "g0", !.split = snapshot, !.policy = policy, !.taken = TRUE,
                   !.texts = {PlainX, PlainY}, !.splits = {OneTask, Retold, Renamed}] :
        snapshot \in {OneTask, Odd, Spoilt}, policy \in {"mark_unsupported", "right"}}

Tampered ==
    {For(TwoTasks(PlainX, PlainY), [Plain EXCEPT !.tampering = TRUE, !.texts = {PlainX, PlainY}])}

Contracted ==
    {[Plain EXCEPT !.command = "contract", !.inside = inside, !.taken = TRUE, !.edits = Rewrites,
                   !.splits = {OneTask, Retold, Retrained}] : inside \in BOOLEAN}
    \cup {For(Repeated, [Plain EXCEPT !.command = "contract"])}
    \cup {[Plain EXCEPT !.command = "pin", !.taken = TRUE,
                        !.splits = {OneTask, Retold, Retrained, Spoilt}]}

MCScenarios == Laid \cup Answered \cup Edited \cup Based \cup Tampered \cup Contracted
=============================================================================
