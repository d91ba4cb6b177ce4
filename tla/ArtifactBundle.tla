---------------------------- MODULE ArtifactBundle ----------------------------
(***************************************************************************)
(* What makes the files of an SFT bundle a PEFT adapter or a merged model  *)
(* of the contracted training (eval/_artifact_validation.py,               *)
(* eval/_artifact_schema.py, eval/_adapter_schema.py,                      *)
(* eval/_merged_model_schema.py, eval/_tensor_schema.py).                  *)
(*                                                                         *)
(* A path is [dir, name, suffix, part]: a file of the bundle's root, of a  *)
(* checkpoint or of another directory; a shard's part is <<number, total>>.*)
(* The content of a weights file is [tensors], from tensor names to        *)
(* [shape, dtype, value], or Torn when it does not parse; that of a        *)
(* configuration is a record of its fields.  A digest is the content it    *)
(* digests.  The tensors a configuration and its base model call for are   *)
(* what PEFT and Transformers derive from them: fields of the              *)
(* configuration here, and None when they cannot be derived.               *)
(***************************************************************************)
EXTENDS Integers, Sequences, FiniteSets, Functions

CONSTANTS
    None,   \* a missing value
    Torn    \* the content of a file that does not parse

Root(name, suffix) == [dir |-> "root", name |-> name, suffix |-> suffix, part |-> <<0, 0>>]
Shard(number, total) == [Root("model", "safetensors") EXCEPT !.part = <<number, total>>]

IndexPath == Root("artifact_index", "json")
AdapterConfigPath == Root("adapter_config", "json")
AdapterWeightsPath == Root("adapter_model", "safetensors")
MergedConfigPath == Root("config", "json")
MergedWeightsPath == Root("model", "safetensors")
MergedWeightsIndexPath == Root("model.safetensors.index", "json")

IsSafetensors(path) == path.suffix = "safetensors"
IsShard(path) == \E number, total \in 1..path.part[2] : path = Shard(number, total)

-----------------------------------------------------------------------------
(* The index *)

\* ArtifactIndex: entries with distinct portable paths; `entries` is a sequence
\* of pairs <<path, content>>, a path outside the bundle is in "elsewhere".
IndexHolds(index) ==
    /\ index # Torn
    /\ index.entries \in Seq(Range(index.entries)) /\ index.entries # <<>>
    /\ \A j, k \in 1..Len(index.entries) :
          index.entries[j][1] = index.entries[k][1] => j = k
    /\ \A k \in 1..Len(index.entries) : index.entries[k][1].dir # "elsewhere"

Indexed(index) == {index.entries[k][1] : k \in 1..Len(index.entries)}

\* The content the index records for a path.
Recorded(index, path) ==
    LET k == CHOOSE k \in 1..Len(index.entries) : index.entries[k][1] = path
    IN  index.entries[k][2]

\* The scan found the indexed files and the index, no more and no fewer.
CompleteIndex(files, index) == files = Indexed(index) \cup {IndexPath}

\* The index was written for the training the contract names.
ProvenanceHolds(provenance, context) ==
    /\ provenance # None
    /\ provenance.base = context.base
    /\ provenance.revision = context.revision
    /\ provenance.manifest = context.manifest
    /\ provenance.train = context.train

-----------------------------------------------------------------------------
(* Weights, by content; files is the validated copy [path -> content] *)

\* pytorch_model*.bin*, adapter_model*.bin* and *.ckpt, in any directory.
IsUnsafe(path) ==
    \/ path.name \in {"pytorch_model", "adapter_model"} /\ path.suffix = "bin"
    \/ path.suffix = "ckpt"

WeightsAreReadable(files) ==
    \A path \in DOMAIN files :
        IsSafetensors(path) => files[path] # Torn /\ DOMAIN files[path].tensors # {}

\* The names of the tensors in some weights files; no two files may share one.
TensorsOf(files, weights) == UNION {DOMAIN files[path].tensors : path \in weights}
NoSharedTensor(files, weights) ==
    \A p, q \in weights :
        p # q => DOMAIN files[p].tensors \cap DOMAIN files[q].tensors = {}

\* read_verified_tensor_schema: the schema of weights without shared names.
SchemaOf(files, weights) ==
    [tensor \in TensorsOf(files, weights) |->
        LET owner == CHOOSE path \in weights : tensor \in DOMAIN files[path].tensors
        IN  files[owner].tensors[tensor]]

\* require_matching_tensor_schema, with or without the dtypes.
SameSchema(actual, expected, dtypes) ==
    /\ DOMAIN actual = DOMAIN expected
    /\ \A tensor \in DOMAIN actual :
          /\ actual[tensor].shape = expected[tensor].shape
          /\ dtypes => actual[tensor].dtype = expected[tensor].dtype

-----------------------------------------------------------------------------
(* A PEFT adapter *)

\* The only weights of the root are the adapter's, and below it only those of
\* checkpoints; nothing of a merged model.
AdapterFilesHold(paths) ==
    /\ {AdapterConfigPath, AdapterWeightsPath} \subseteq paths
    /\ paths \cap {MergedConfigPath, MergedWeightsIndexPath} = {}
    /\ \A path \in paths :
          IsSafetensors(path) =>
              path = AdapterWeightsPath \/ (path.dir = "checkpoint" /\ path.name = "adapter_model")

\* The schema a LoRA configuration gives the saved adapter, with the embedding
\* layers when those explain every extra tensor and none is missing.
ExpectedAdapter(config, actual) ==
    IF /\ DOMAIN config.tensors \subseteq DOMAIN actual
       /\ DOMAIN actual = DOMAIN config.embedded
    THEN config.embedded ELSE config.tensors

AdapterHolds(files, context) ==
    LET config == files[AdapterConfigPath]
        actual == SchemaOf(files, {AdapterWeightsPath})
    IN  /\ AdapterFilesHold(DOMAIN files)
        /\ config # Torn
        /\ config.base = context.base /\ config.revision = context.revision
        /\ config.peft = "LORA" /\ config.tensors # None
        /\ \A tensor \in DOMAIN actual : actual[tensor].dtype \in {"F16", "BF16", "F32"}
        /\ SameSchema(actual, ExpectedAdapter(config, actual), FALSE)

-----------------------------------------------------------------------------
(* A merged model *)

\* One unsharded file, or an index of shards.
MergedFilesHold(paths) ==
    /\ MergedConfigPath \in paths
    /\ AdapterConfigPath \notin paths
    /\ \A path \in paths : path.name # "adapter_model"
    /\ (MergedWeightsPath \in paths) # (MergedWeightsIndexPath \in paths)

\* _require_canonical_model_shard_set: 1..n of n, all naming the same n.
CanonicalShards(shards) ==
    /\ \A path \in shards : IsShard(path)
    /\ \E total \in 1..Cardinality(shards) :
          shards = {Shard(number, total) : number \in 1..total}

\* Mutation: a shard needs to hold no more than the weight map says.
AcceptsMisplacedTensors(files, weights) ==
    LET map == files[MergedWeightsIndexPath]
    IN  /\ map # Torn /\ DOMAIN map.weights # {}
        /\ CanonicalShards(Range(map.weights))
        /\ Range(map.weights) = weights
        /\ DOMAIN map.weights = TensorsOf(files, weights)

\* The weight map leads from each tensor to the shard that holds it, names
\* every shard of the bundle and no other, and leaves out no tensor.
ShardsHold(files, weights) ==
    LET map == files[MergedWeightsIndexPath]
    IN  /\ map # Torn /\ DOMAIN map.weights # {}
        /\ CanonicalShards(Range(map.weights))
        /\ Range(map.weights) = weights
        /\ NoSharedTensor(files, weights)
        /\ DOMAIN map.weights = TensorsOf(files, weights)
        /\ \A tensor \in DOMAIN map.weights :
              tensor \in DOMAIN files[map.weights[tensor]].tensors

\* The tensors of the configured model that are saved: tied aliases are not.
ExpectedMerged(config) == Restrict(config.tensors, DOMAIN config.tensors \ config.tied)

MergedHolds(files, context) ==
    LET config == files[MergedConfigPath]
        weights == {path \in DOMAIN files : IsSafetensors(path)}
    IN  /\ MergedFilesHold(DOMAIN files)
        /\ config # Torn
        /\ IF MergedWeightsPath \in DOMAIN files THEN weights = {MergedWeightsPath}
           ELSE ShardsHold(files, weights)
        /\ config.tensors # None
        /\ SameSchema(SchemaOf(files, weights), ExpectedMerged(config), TRUE)

-----------------------------------------------------------------------------
\* _require_artifact_layout over the private copy of the indexed files.
LayoutHolds(files, provenance, context) ==
    /\ \A path \in DOMAIN files : ~IsUnsafe(path)
    /\ WeightsAreReadable(files)
    /\ ProvenanceHolds(provenance, context)
    /\ IF context.kind = "peft_adapter" THEN AdapterHolds(files, context)
       ELSE MergedHolds(files, context)

(* Loading, by what PEFT and Transformers do with a directory *)

\* The weights files a loader opens for a bundle.
Opened(files, kind) ==
    CASE kind = "peft_adapter" -> {AdapterWeightsPath}
      [] kind = "merged_model" /\ MergedWeightsPath \in DOMAIN files -> {MergedWeightsPath}
      [] OTHER -> Range(files[MergedWeightsIndexPath].weights)

Readable(files, path) == path \in DOMAIN files /\ files[path] # Torn

Loadable(files, kind) ==
    /\ IF kind = "peft_adapter" THEN Readable(files, AdapterConfigPath)
       ELSE /\ Readable(files, MergedConfigPath)
            /\ files[MergedConfigPath].tensors # None
            /\ \/ MergedWeightsPath \in DOMAIN files
               \/ Readable(files, MergedWeightsIndexPath)
    /\ \A path \in Opened(files, kind) : Readable(files, path)

\* The files a bundle leads a loader to for a tensor, of those that hold it.
Holding(files, kind, tensor) ==
    LET led == IF Cardinality(Opened(files, kind)) = 1 THEN Opened(files, kind)
               ELSE {path \in Opened(files, kind) :
                        /\ tensor \in DOMAIN files[MergedWeightsIndexPath].weights
                        /\ files[MergedWeightsIndexPath].weights[tensor] = path}
    IN  {path \in led : tensor \in DOMAIN files[path].tensors}

\* What is loaded of a tensor; None when nothing.
Loaded(files, kind, tensor) ==
    LET holding == Holding(files, kind, tensor)
    IN  IF holding = {} THEN None
        ELSE files[CHOOSE path \in holding : TRUE].tensors[tensor]

\* The model those files make: what is loaded for every tensor it calls for.
ModelOf(files, kind) ==
    IF kind = "peft_adapter" THEN files[AdapterWeightsPath].tensors
    ELSE [tensor \in DOMAIN ExpectedMerged(files[MergedConfigPath]) |-> Loaded(files, kind, tensor)]
=============================================================================
