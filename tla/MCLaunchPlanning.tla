-------------------------- MODULE MCLaunchPlanning --------------------------
(***************************************************************************)
(* Small machines, models and installations for TLC.                       *)
(***************************************************************************)
EXTENDS LaunchPlanning

CONSTANTS rx, gtx, gtxSuper, arc    \* models of cards

MCFamily == [m \in {rx, gtx, gtxSuper, arc} |->
                IF m \in {gtx, gtxSuper} THEN gtx ELSE m]

Card(name, vendor, kind, device, vram) ==
    [model |-> name, vendor |-> vendor, kind |-> kind, device |-> device,
     vram |-> vram, free |-> vram, readable |-> FALSE, present |-> TRUE]

Machine(cards, naming, windows, renderer) ==
    [cards |-> cards, naming |-> naming, windows |-> windows, renderer |-> renderer]

\* Two AMD cards of one name and one PCI device, not the same size.
Twins == Machine(<<Card(rx, "amd", "dedicated", "d1", 16),
                   Card(rx, "amd", "dedicated", "d1", 8)>>, "plain",
                 FALSE, FALSE)

\* A laptop: an integrated GPU and an NVIDIA card.
Laptop == Machine(<<Card(arc, "intel", "integrated", "d2", 0),
                    Card(gtx, "nvidia", "dedicated", "d3", 16)>>, "annotated",
                  FALSE, TRUE)

\* Two NVIDIA cards with near names.
Near == Machine(<<Card(gtx, "nvidia", "dedicated", "d3", 8),
                  Card(gtxSuper, "nvidia", "dedicated", "d4", 16)>>, "plain",
                FALSE, FALSE)

\* A Windows machine with a card whose files tell its memory.
Windows ==
    Machine(<<[Card(rx, "amd", "dedicated", "d1", 16)
                         EXCEPT !.readable = TRUE]>>, "dozen", TRUE, FALSE)

MCBoxes == {Twins, Laptop, Near, Windows}

Request(weights, kv, blocks, decomp) ==
    [weights |-> weights, kv |-> kv, overhead |-> 0, reserve |-> 1, margin |-> 0,
     blocks |-> blocks, decomp |-> decomp, slack |-> 0]

Model(gguf, quantized, files, request, tensors) ==
    [gguf |-> gguf, quantized |-> quantized, files |-> files,
     request |-> request, tensors |-> tensors]

MCWanted ==
    {Model(TRUE, FALSE, 1, Request(18, 3, 3,
         [blocks |-> 3, total |-> 18, block |-> 15, nonBlock |-> 3,
          uniform |-> FALSE]), None),
     Model(TRUE, FALSE, 1, Request(18, 2, 3, None),
         [blocks |-> <<4, 4, 6>>, output |-> 4]),
     Model(FALSE, TRUE, 1, Request(6, 1, 3, None), None)}

MCBuilds ==
    [a |-> [exposes |-> {"cuda"}, naming |-> "plain"],
     b |-> [exposes |-> {"vulkan", "hip"}, naming |-> "annotated"]]

Cli(d) == <<d, "cli">>
Bench(d) == <<d, "bench">>
Nothing == [cli |-> None, bench |-> None]
BothRun == [path \in {"a", "b"} \X {"cli", "bench"} |-> "runnable"]

\* Found by themselves, one of them twice, beside a registered one that is gone.
Usual == [files |-> BothRun, config |-> Nothing,
          registry |-> <<>>, onPath |-> [cli |-> Cli("a"), bench |-> Bench("a")],
          builds |-> <<"a", "b">>]

\* One configured by its path; the other is registered.
Configured == [Usual EXCEPT !.config = [cli |-> Cli("b"), bench |-> None],
                            !.registry = <<[cli |-> Cli("a"), bench |-> None]>>]

\* The one configured is gone, or was.
Gone == [Usual EXCEPT !.config = [cli |-> Cli("b"), bench |-> None],
                      !.files = [BothRun EXCEPT ![Cli("b")] = "absent"]]

\* The one registered must not be executed, and its benchmark is all there is of the other.
Unusable == [Usual EXCEPT !.files = [BothRun EXCEPT ![Cli("a")] = "absent",
                                                    ![Cli("b")] = "blocked"],
                          !.registry = <<[cli |-> Cli("b"), bench |-> None]>>,
                          !.onPath = [cli |-> None, bench |-> Bench("a")]]

\* Configured by both, and the benchmark must not be executed.
Half == [Usual EXCEPT !.config = [cli |-> Cli("a"), bench |-> Bench("a")],
                      !.files = [BothRun EXCEPT ![Bench("a")] = "blocked"]]

MCDisks == {Usual, Configured, Gone, Unusable, Half}

Python(explicit, registered, current) ==
    [explicit |-> explicit, registered |-> registered, current |-> current]

Environment(python, torch, build, bnb) ==
    [python |-> python, torch |-> torch, transformers |-> "works",
     build |-> build, bnb |-> bnb]

MCEnvironments ==
    {Environment(Python(None, <<>>, "runnable"), "works", "cuda", "works"),
     Environment(Python("runnable", <<>>, "runnable"), "works", "cuda", "breaks"),
     Environment(Python(None, <<"absent", "runnable">>, None), "works", "hip", "missing"),
     Environment(Python(None, <<>>, "runnable"), "missing", "cpu", "missing"),
     Environment(Python("absent", <<"runnable">>, "runnable"), "works", "cuda", "works")}
=============================================================================
