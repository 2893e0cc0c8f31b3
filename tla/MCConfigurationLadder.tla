----------------------- MODULE MCConfigurationLadder -----------------------
(***************************************************************************)
(* Small instances for TLC.  A unit of memory stands for half a gibibyte   *)
(* or so; the sizes of a repository follow the bits of its quantizations.  *)
(***************************************************************************)
EXTENDS PredictionComparison

CONSTANTS MaxWeights, VramSizes, RamSizes, RunVramSizes, RunRamSizes, Slacks

Config(layers, kvHeads, headDim, window, use, always, exotic, split) ==
    [layers |-> layers, heads |-> 2, kvHeads |-> kvHeads, headDim |-> headDim,
     window |-> window, useWindow |-> use, alwaysWindowed |-> always,
     exotic |-> exotic, moe |-> FALSE, splitKnown |-> split]

Plain == Config(2, 1, 1, 0, "absent", FALSE, FALSE, FALSE)
Split == Config(2, 1, 1, 0, "absent", FALSE, FALSE, TRUE)
Flat  == Config(0, 1, 1, 0, "absent", FALSE, FALSE, FALSE)
Windowed == Config(3, 1, 1, 1, "absent", TRUE, FALSE, TRUE)
Opaque == Config(2, 1, 1, 0, "absent", FALSE, TRUE, FALSE)

Base ==
    [kind |-> "gguf", priority |-> "balanced", sizes |-> <<>>, params |-> None,
     files |-> 0, dtype |-> None, packed |-> FALSE, hint |-> FALSE,
     config |-> Plain, context |-> 1, users |-> 1, asked |-> None,
     target |-> "auto", kvDtype |-> "float16", margin |-> 10,
     cpuOnly |-> FALSE, quantOk |-> TRUE, slack |-> 0]

\* One configuration of the user's, over every size: the placements.
Asked ==
    {[Base EXCEPT !.sizes = [q \in {"Q4_K_M"} |-> w], !.asked = "Q4_K_M",
                  !.config = g, !.margin = mp, !.slack = sl, !.context = 2 - sl] :
        w \in 0..MaxWeights, g \in {Plain, Split, Flat, Windowed, Opaque},
        mp \in {10, 30}, sl \in Slacks}
    \cup
    {[Base EXCEPT !.kind = k, !.params = ps, !.files = fs, !.asked = p,
                  !.target = t, !.config = Split] :
        k \in {"transformers", "other"}, ps \in {None, 3}, fs \in {0, 5},
        p \in {"float32", "int4"}, t \in {"auto", "cpu", "gpu"}}

\* Ladders of GGUF variants, the unknown size and the empty set among them.
Published ==
    {<<>>, [q \in {"Q5_K_M"} |-> None],
     [Q5_K_M |-> 9, Q4_K_M |-> 7, Q2_K |-> 4],
     [Q8_0 |-> 10, Q4_K_M |-> None, Q3_K_S |-> 5],
     [Q6_K |-> 8, Q4_K_M |-> 6, Q3_K_M |-> 5, IQ2_M |-> 3]}

Ladders ==
    {[Base EXCEPT !.sizes = s, !.priority = p, !.cpuOnly = cpu] :
        s \in Published, p \in {"quality", "balanced", "speed", "memory"},
        cpu \in BOOLEAN}
    \cup
    {[Base EXCEPT !.kind = "transformers", !.params = ps, !.files = 6,
                  !.dtype = d, !.packed = pk, !.hint = h, !.quantOk = ok] :
        ps \in {None, 4}, d \in {None, "float32"}, pk \in BOOLEAN,
        h \in BOOLEAN, ok \in BOOLEAN}

MCCases == Asked \cup Ladders

\* Requests of their own: with the parts of another model, with blocks nobody counted.
MCRequests ==
    {[weights |-> w, kv |-> kv, overhead |-> o, reserve |-> 1, margin |-> mg,
      blocks |-> b, slack |-> sl,
      decomp |-> IF b = 0 THEN None
                 ELSE [blocks |-> b, total |-> w, block |-> (2 * w) \div 3,
                       nonBlock |-> w - (2 * w) \div 3, uniform |-> FALSE]] :
        w \in {1, 4, 7}, kv \in {0, 3}, o \in {0, 2}, mg \in {0, 3},
        b \in {0, 4}, sl \in Slacks}
    \cup
    {[weights |-> 4, kv |-> 1, overhead |-> 1, reserve |-> 1, margin |-> 0,
      blocks |-> n0, slack |-> 0,
      decomp |-> [blocks |-> b, total |-> t, block |-> t, nonBlock |-> 0,
                  uniform |-> FALSE]] :
          n0 \in {3, None}, b \in {2, 3}, t \in {3, 4}}

\* Runs of the verified build and of builds, cards and models outside its scope, runs
\* without a figure of the device, failures, and records that lack an input.
Run(layers, facts, sources) ==
    [runtime |-> "llama", layers |-> layers, facts |-> facts, sources |-> sources,
     success |-> TRUE, sameContext |-> TRUE, input |-> "analysis"]

MCRuns ==
    {Run(l, Scope, {"report"}) : l \in {None, -1, 0, 2, 3}}
    \cup {Run(3, Scope \ {"verified_build"}, {"driver", "report"}),
          Run(-1, {}, {}),
          [Run(2, Scope \ {"one_device"}, {"driver"}) EXCEPT !.success = FALSE],
          [Run(2, Scope, {"driver"}) EXCEPT !.sameContext = FALSE],
          [Run(0, Scope, {}) EXCEPT !.input = "none"],
          [Run(None, {}, {"driver"}) EXCEPT !.runtime = "transformers"]}

\* Bound: runs are recorded on some of the machines only.
RecordedOn == record = None \/ (machine.vram \in {None} \cup RunVramSizes /\ machine.ram \in RunRamSizes)

MCMachines ==
    {[vram |-> v, ram |-> r, shared |-> FALSE] : v \in VramSizes, r \in RamSizes}
    \cup {[vram |-> None, ram |-> r, shared |-> s] : r \in RamSizes, s \in BOOLEAN}
=============================================================================
