------------------------- MODULE MCModelInspection -------------------------
(* Repositories and headers the inspections of ModelInspection meet.       *)
EXTENDS ModelInspection

File(kind, quant, base, index, count, size) ==
    [kind |-> kind, quant |-> quant, dir |-> 1, base |-> base, index |-> index,
     count |-> count, aux |-> FALSE, size |-> size]

Field(key, size) == [key |-> key, size |-> size]
Sizes == <<Field("architecture", 1), Field("context_length", 1), Field("embedding_length", 1),
           Field("block_count", 1), Field("head_count", 1)>>

\* Everything before a tokenizer larger than the budget.
UsualLayout == Sizes \o <<Field("head_count_kv", 1), Field("key_length", 1), Field("tokenizer", 12)>>
\* A key of the estimate after a short tokenizer.
LateKvLayout == Sizes \o <<Field("tokenizer", 4), Field("head_count_kv", 1), Field("source", 1)>>
\* The key dimension after a tokenizer larger than the budget.
LateKeyLayout == Sizes \o <<Field("head_count_kv", 1), Field("tokenizer", 12), Field("key_length", 1)>>

Repo(files, layout, bases, url) ==
    [files |-> files, magic |-> TRUE, layout |-> layout, card |-> [bases |-> bases, url |-> url]]

Whole == File("gguf", 2, 1, 0, 0, 4)
MCContents ==
    { \* the default quantization whole, beside an importance matrix
      Repo({Whole, [File("gguf", 2, 2, 0, 0, 1) EXCEPT !.aux = TRUE]}, UsualLayout, {"b"}, FALSE),
      \* the same file published again
      Repo({Whole, File("gguf", 1, 1, 0, 0, 2)}, LateKvLayout, {}, TRUE),
      \* three other quantizations, one in parts, one with a part missing
      Repo({File("gguf", 1, 1, 0, 0, 2), File("gguf", 3, 1, 1, 2, 3), File("gguf", 3, 1, 2, 2, 3),
            File("gguf", 4, 1, 2, 2, 1), File("gguf", 4, 1, 3, 2, 1)}, LateKeyLayout, {"b", "c"}, FALSE),
      \* the default quantization twice, and a repository for Transformers
      Repo({Whole, File("gguf", 2, 2, 0, 0, 5)}, UsualLayout, {}, FALSE),
      [Repo({File("config", 0, 0, 0, 0, 1), File("safetensors", 0, 1, 0, 0, 4)}, UsualLayout, {}, FALSE)
         EXCEPT !.magic = FALSE] }

InspectorSymmetry == Permutations(Inspectors)

MCBaseConfig == {"hidden_size", "num_hidden_layers", "head_dim"}
=============================================================================
