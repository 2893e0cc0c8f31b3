-------------------------- MODULE MCResultsScreen --------------------------
(***************************************************************************)
(* A GGUF recommendation on a CUDA card, its Transformers path, and the    *)
(* records that tell the readers of the stores apart.                      *)
(***************************************************************************)
EXTENDS ResultsScreen

CONSTANTS none

\* None, as the records and the code's optional fields use it.
MCNone == none

Gguf == [repo |-> "org/m", file |-> "m-q4.gguf", revision |-> "r1", quant |-> "q4", sha |-> "s4",
         runtime |-> "llama", host |-> "h", memory |-> 16, driver |-> "d1", backend |-> "cuda",
         device |-> "card", layers |-> 32, rank |-> 1]

\* The same model from the repository of its weights.
Torch == [Gguf EXCEPT !.repo = "org/weights", !.file = "m.safetensors", !.quant = none,
                      !.sha = none, !.runtime = "transformers", !.layers = 0, !.rank = 0]

\* Another quantization of the same model.
Large == [Gguf EXCEPT !.file = "m-q8.gguf", !.quant = "q8", !.sha = "s8", !.rank = 2]

MCRecommended == Gguf

MCLists ==
    {<<[plan |-> Gguf, state |-> "unfit"], [plan |-> Large, state |-> "blocked"],
       [plan |-> Torch, state |-> "ready"]>>,
     <<[plan |-> Gguf, state |-> "ready"], [plan |-> Large, state |-> "ready"]>>}

\* A run of the recommended plan as llama_bench_v2 asks for it: the same bytes under
\* another revision, and the memory the machine reported after another boot.
Good == [kind |-> "benchmark", at |-> 0, repo |-> "org/m", file |-> "m-q4.gguf",
         revision |-> "r2", quant |-> "q4", sha |-> "s4", runtime |-> "llama", host |-> "h",
         memory |-> 17, driver |-> "d1", backend |-> "cuda", device |-> "card", layers |-> 32,
         method |-> "v2", build |-> "b1", success |-> TRUE, exit0 |-> TRUE, faults |-> {},
         tg |-> 10, pp |-> 100]
Old == [Good EXCEPT !.method = "v1", !.faults = {"device"}, !.tg = 8]

MCShapes ==
    {[Good EXCEPT !.build = "b2", !.tg = 20, !.pp = 200],       \* a newer llama-bench
     [Good EXCEPT !.success = FALSE, !.tg = 3],                \* a run that failed
     [Good EXCEPT !.kind = "experiment"],
     [Good EXCEPT !.kind = "quality", !.sha = "s8"]}

MCStored == {<<Old, Good>>}
=============================================================================
