--------------------------- MODULE MCBenchmarkRun ---------------------------
(***************************************************************************)
(* Two cards whose numbers change, a renderer of software, and one request *)
(* of each kind.                                                           *)
(***************************************************************************)
EXTENDS BenchmarkRun

CONSTANTS Big, Small, Soft

Name(base) == [base |-> base, note |-> None]

Device(id, base) ==
    [id |-> id, name |-> Name(base), card |-> base, software |-> base = Soft]

MCAccelerator == [name |-> Name(Big), card |-> Big]

Straight == <<Device(0, Big), Device(1, Small)>>
Swapped == <<Device(0, Small), Device(1, Big)>>
Rendered == <<Device(0, Soft), Device(1, Big)>>

Installed(cli, bench, build) == [cli |-> cli, bench |-> bench, build |-> build]

MCMachines ==
    {Installed(Straight, Straight, 1), Installed(Straight, Swapped, 1),
     Installed(Swapped, Rendered, 2), Installed(<<>>, <<Device(0, Small)>>, 2)}

Asked(kind, backend, flag, device) ==
    [kind |-> kind, runtime |-> "llama", backend |-> backend, flag |-> flag, device |-> device, cpu |-> TRUE,
     selected |-> TRUE, layers |-> <<>>, persist |-> TRUE]

MCJobs ==
    {[Asked("matrix", "vulkan", 4, None) EXCEPT !.layers = <<4, -1>>, !.cpu = FALSE],
     Asked("matrix", "cuda", None, None),
     [Asked("matrix", "cpu", None, None) EXCEPT !.persist = FALSE],
     Asked("plan", "vulkan", -1, 0), Asked("plan", "cuda", 4, None), Asked("plan", "cpu", 0, None),
     ScreenMatrix("hip"),
     Asked("screen", "vulkan", 4, None), Asked("screen", "hip", None, None),
     [Asked("screen", "vulkan", None, "cuda") EXCEPT !.runtime = "torch"],
     [Asked("torch", "vulkan", None, "cpu") EXCEPT !.runtime = "torch"],
     [Asked("torch", "cuda", None, "cuda") EXCEPT !.runtime = "torch"],
     Asked("validate", "vulkan", 4, 0), Asked("validate", "cuda", 4, None),
     [Asked("validate", "cuda", None, "cuda") EXCEPT !.runtime = "torch"]}
=============================================================================
