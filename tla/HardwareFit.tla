---------------------------- MODULE HardwareFit ----------------------------
(***************************************************************************)
(* Where a model would run: analyze_components places the weights, the KV  *)
(* cache, the overhead and the safety margin on the GPU, on GPU and host,  *)
(* or on the host, without adding the two memories into one.  The search   *)
(* for an offload is a loop over the transformer blocks, or a binary       *)
(* search over bytes when their number is unknown; an iteration is a step. *)
(*                                                                         *)
(* A request is [weights, kv, overhead, reserve, margin, blocks, decomp,   *)
(* slack]: blocks is None when nobody counted them; decomp is None or      *)
(* [blocks, total, block, nonBlock, uniform], uniform when nothing is      *)
(* known of the parts.  slack is 1 when a product of floats that should *)
(* be whole lands above it, and is rounded up.                             *)
(***************************************************************************)
EXTENDS Naturals, FiniteSets

CONSTANTS
    None,           \* no value
    Requests,       \* the memory requests analysed
    Machines        \* [vram: Nat or None, ram, shared]

RequestType(r) ==
    /\ r.weights \in Nat /\ r.kv \in Nat /\ r.overhead \in Nat
    /\ r.reserve \in Nat /\ r.margin \in Nat /\ r.blocks \in Nat \cup {None}
    /\ r.slack \in {0, 1}
    /\ r.decomp # None => /\ r.decomp.blocks \in Nat /\ r.decomp.total \in Nat
                          /\ r.decomp.block \in Nat /\ r.decomp.nonBlock \in Nat
                          /\ r.decomp.uniform \in BOOLEAN

MachineType(m) ==
    /\ m.vram \in Nat \cup {None}
    /\ m.ram \in Nat
    /\ m.shared \in BOOLEAN

ASSUME NoneAssumption == None \notin Nat
ASSUME InputAssumption ==
    /\ \A r \in Requests : RequestType(r)
    /\ \A m \in Machines : MachineType(m)

VARIABLES
    request, machine,
    step,           \* "ask", "blocks", "bytes", "host", "done", "error"
    n,              \* blocks the loop tries next
    low, high, best,    \* the binary search, best placement so far
    fit             \* the HardwareFitResult

fitVars == <<request, machine, step, n, low, high, best, fit>>

-----------------------------------------------------------------------------
(* Splitting a quantity between the two memories.                           *)

Minimum(a, b) == IF a <= b THEN a ELSE b

CeilDiv(a, b) == (a + b - 1) \div b

\* ceil(total * (part / whole)), up to what the floats make of it.
CeilShare(total, part, whole, slack) ==
    IF (total * part) % whole = 0
    THEN (total * part) \div whole + slack
    ELSE (total * part) \div whole + 1

\* The share of the KV cache that follows k of the T blocks to the GPU.
SplitKvCache(kv, k, T, slack) ==
    IF kv = 0 \/ k = 0 THEN 0
    ELSE IF k >= T THEN kv
    ELSE CeilShare(kv, k, T, slack)

\* The GPU's share of an amount nobody measured, in proportion to the bases.
SplitHeuristic(total, gpuBasis, ramBasis, slack) ==
    IF total = 0 \/ gpuBasis = 0 THEN 0
    ELSE IF ramBasis = 0 THEN total
    ELSE CeilShare(total, gpuBasis, gpuBasis + ramBasis, slack)

\* _calculate_offload_placement; k is 0 when there are no blocks to follow.
Placement(r, k, gpuWeights) ==
    LET ramWeights  == r.weights - gpuWeights
        gpuKv       == IF k > 0 THEN SplitKvCache(r.kv, k, r.blocks, r.slack)
                                ELSE r.kv
        ramKv       == r.kv - gpuKv
        gpuOverhead == SplitHeuristic(r.overhead, gpuWeights + gpuKv,
                                      ramWeights + ramKv, r.slack)
        ramOverhead == r.overhead - gpuOverhead
        gpuMargin   == SplitHeuristic(r.margin,
                           gpuWeights + gpuKv + r.reserve + gpuOverhead,
                           ramWeights + ramKv + ramOverhead, r.slack)
        ramMargin   == r.margin - gpuMargin
    IN  [blocks |-> k,
         gpuWeights |-> gpuWeights, ramWeights |-> ramWeights,
         gpuKv |-> gpuKv, ramKv |-> ramKv,
         gpuOverhead |-> gpuOverhead, ramOverhead |-> ramOverhead,
         gpuMargin |-> gpuMargin, ramMargin |-> ramMargin,
         gpu |-> gpuWeights + gpuKv + r.reserve + gpuOverhead + gpuMargin,
         ram |-> ramWeights + ramKv + ramOverhead + ramMargin]

\* A placement has weights on both sides, or it is none.
Splits(r, gpuWeights) == gpuWeights > 0 /\ gpuWeights < r.weights

Decomposed(r) == r.decomp # None /\ ~r.decomp.uniform

\* The weights of k blocks, without and with what belongs to no block.
BlockBytes(r, k) == CeilDiv(r.decomp.block * k, r.blocks)

GpuWeights(r, k) ==
    IF Decomposed(r)
    THEN BlockBytes(r, k) + r.decomp.nonBlock
    ELSE Minimum(r.weights, k * CeilDiv(r.weights, r.blocks))

\* The placement that leaves everything outside the blocks on the host.
HostEndpoint(r, k) ==
    Placement(r, k, IF Decomposed(r) THEN BlockBytes(r, k)
                                     ELSE GpuWeights(r, k))

Possible(r, k) ==
    /\ Splits(r, GpuWeights(r, k))
    /\ Decomposed(r) => Splits(r, BlockBytes(r, k))

\* What the loop asks of k blocks: both endpoints stay within their memory.
BlocksFit(r, m, k) ==
    /\ Possible(r, k)
    /\ Placement(r, k, GpuWeights(r, k)).gpu <= m.vram
    /\ HostEndpoint(r, k).ram <= m.ram

\* Mutant of SearchCeiling: the whole cache is charged before the division.
CeilingWithWholeCache(r, m) ==
    IF m.vram <= r.reserve + r.kv \/ CeilDiv(r.weights, r.blocks) = 0 THEN 0
    ELSE Minimum(r.blocks,
                 (m.vram - r.reserve - r.kv) \div CeilDiv(r.weights, r.blocks))

\* Where the loop starts; 0 where the code returns before it.
SearchCeiling(r, m) ==
    LET perBlock == CeilDiv(r.weights, r.blocks)
        budget   == m.vram - r.reserve
    IN  IF perBlock = 0 \/ m.vram <= r.reserve THEN 0
        ELSE IF Decomposed(r)
        THEN IF r.decomp.block + r.kv = 0 \/ budget <= r.decomp.nonBlock THEN 0
             ELSE Minimum(r.blocks - 1,
                          (r.blocks * (budget - r.decomp.nonBlock))
                              \div (r.decomp.block + r.kv))
        ELSE Minimum(r.blocks,
                     (budget * r.blocks) \div (perBlock * r.blocks + r.kv))

-----------------------------------------------------------------------------
(* The results.                                                             *)

RequiredIfResident(r) ==
    r.kv + r.overhead + r.reserve + r.weights + r.margin

RequiredOnHost(r) == r.weights + r.kv + r.overhead + r.margin

Unified(m) == m.vram = None /\ m.shared

Resident(r) ==
    [mode |-> "gpu_resident", blocks |-> r.blocks, ramMax |-> 0,
     gpuWeights |-> r.weights, ramWeights |-> 0, gpuKv |-> r.kv, ramKv |-> 0,
     gpuOverhead |-> r.overhead, ramOverhead |-> 0,
     gpuMargin |-> r.margin, ramMargin |-> 0,
     gpu |-> RequiredIfResident(r), ram |-> 0,
     method |-> IF r.blocks > 0 THEN "transformer_blocks"
                                ELSE "estimated_bytes"]

\* Everything on the host; the reserve belongs to it only when it is shared.
OnHost(mode, r, m) ==
    LET need == IF Unified(m) THEN RequiredIfResident(r) ELSE RequiredOnHost(r)
    IN  [mode |-> mode, blocks |-> IF m.vram = None THEN None ELSE 0,
         ramMax |-> need,
         gpuWeights |-> 0, ramWeights |-> r.weights,
         gpuKv |-> 0, ramKv |-> r.kv, gpuOverhead |-> 0,
         ramOverhead |-> r.overhead, gpuMargin |-> 0, ramMargin |-> r.margin,
         gpu |-> IF m.vram = None THEN None ELSE RequiredIfResident(r),
         ram |-> need, method |-> "none"]

Offload(p, ramMax, method) ==
    [mode |-> "gpu_offload", blocks |-> p.blocks, ramMax |-> ramMax,
     gpuWeights |-> p.gpuWeights, ramWeights |-> p.ramWeights,
     gpuKv |-> p.gpuKv, ramKv |-> p.ramKv,
     gpuOverhead |-> p.gpuOverhead, ramOverhead |-> p.ramOverhead,
     gpuMargin |-> p.gpuMargin, ramMargin |-> p.ramMargin,
     gpu |-> p.gpu, ram |-> p.ram, method |-> method]

-----------------------------------------------------------------------------
(* analyze_components                                                       *)

AskInit ==
    /\ step = "ask" /\ n = 0 /\ low = 0 /\ high = 0 /\ best = None
    /\ fit = None

\* Blocks nobody counted are those of the decomposition, or none to follow.
Adopted(r) ==
    IF r.blocks # None THEN r
    ELSE [r EXCEPT !.blocks = IF r.decomp = None THEN 0 ELSE r.decomp.blocks]

\* A decomposition of other weights, or of another number of blocks.
Mismatch(r) ==
    /\ r.decomp # None
    /\ \/ r.decomp.total # r.weights
       \/ r.decomp.blocks # r.blocks

ByteCeiling(r, m) ==
    IF m.vram <= r.kv + r.reserve \/ r.weights = 0 THEN 0
    ELSE Minimum(r.weights - 1, m.vram - r.kv - r.reserve)

Place ==
    LET r == Adopted(request)
        m == machine
    IN  /\ step = "ask"
        /\ request' = r
        /\ \/ /\ Mismatch(r)
              /\ step' = "error"
              /\ UNCHANGED <<n, low, high, fit>>
           \/ /\ ~Mismatch(r) /\ Unified(m)
              /\ step' = "done"
              /\ fit' = OnHost(IF RequiredIfResident(r) <= m.ram
                               THEN "cpu_ram" ELSE "too_large", r, m)
              /\ UNCHANGED <<n, low, high>>
           \/ /\ ~Mismatch(r) /\ m.vram # None
              /\ RequiredIfResident(r) <= m.vram
              /\ step' = "done"
              /\ fit' = Resident(r)
              /\ UNCHANGED <<n, low, high>>
           \/ /\ ~Mismatch(r) /\ m.vram # None
              /\ RequiredIfResident(r) > m.vram
              /\ IF r.blocks > 0
                 THEN /\ step' = "blocks"
                      /\ n' = SearchCeiling(r, m)
                      /\ UNCHANGED <<low, high>>
                 ELSE /\ step' = "bytes"
                      /\ low' = 1
                      /\ high' = ByteCeiling(r, m)
                      /\ n' = n
              /\ fit' = fit
           \/ /\ ~Mismatch(r) /\ m.vram = None /\ ~m.shared
              /\ step' = "host"
              /\ UNCHANGED <<n, low, high, fit>>
        /\ UNCHANGED <<machine, best>>

\* One iteration of the loop over the blocks, from the ceiling down.
TryBlocks ==
    /\ step = "blocks"
    /\ n > 0
    /\ IF BlocksFit(request, machine, n)
       THEN /\ fit' = Offload(Placement(request, n, GpuWeights(request, n)),
                              HostEndpoint(request, n).ram,
                              "transformer_blocks")
            /\ step' = "done"
            /\ n' = n
       ELSE /\ n' = n - 1
            /\ UNCHANGED <<fit, step>>
    /\ UNCHANGED <<request, machine, low, high, best>>

NoBlocksFit ==
    /\ step = "blocks"
    /\ n = 0
    /\ step' = "host"
    /\ UNCHANGED <<request, machine, n, low, high, best, fit>>

\* Mutant of TryBytes: a placement the host cannot hold lowers the ceiling.
TryBytesBothMemories ==
    LET mid == (low + high) \div 2
        p   == Placement(request, 0, mid)
    IN  /\ step = "bytes"
        /\ low <= high
        /\ IF p.gpu <= machine.vram /\ p.ram <= machine.ram
           THEN best' = p /\ low' = mid + 1 /\ high' = high
           ELSE high' = mid - 1 /\ UNCHANGED <<best, low>>
        /\ UNCHANGED <<request, machine, step, n, fit>>

\* One iteration of the binary search for the most weights the GPU holds.
TryBytes ==
    LET mid == (low + high) \div 2
        p   == Placement(request, 0, mid)
    IN  /\ step = "bytes"
        /\ low <= high
        /\ IF Splits(request, mid) /\ p.gpu <= machine.vram
           THEN best' = p /\ low' = mid + 1 /\ high' = high
           ELSE high' = mid - 1 /\ UNCHANGED <<best, low>>
        /\ UNCHANGED <<request, machine, step, n, fit>>

\* Mutant of EndBytes: what the GPU leaves is not held against the host.
EndBytesUnchecked ==
    /\ step = "bytes"
    /\ low > high
    /\ IF best # None
       THEN /\ fit' = Offload(best, best.ram, "estimated_bytes")
            /\ step' = "done"
       ELSE /\ fit' = fit
            /\ step' = "host"
    /\ UNCHANGED <<request, machine, n, low, high, best>>

\* The host is asked once, about the most the GPU can take off it.
EndBytes ==
    /\ step = "bytes"
    /\ low > high
    /\ IF best # None /\ best.ram <= machine.ram
       THEN /\ fit' = Offload(best, best.ram, "estimated_bytes")
            /\ step' = "done"
       ELSE /\ fit' = fit
            /\ step' = "host"
    /\ UNCHANGED <<request, machine, n, low, high, best>>

OnHostOnly ==
    /\ step = "host"
    /\ fit' = OnHost(IF RequiredOnHost(request) <= machine.ram
                     THEN "cpu_ram" ELSE "too_large", request, machine)
    /\ step' = "done"
    /\ UNCHANGED <<request, machine, n, low, high, best>>

FitStep ==
    \/ Place \/ TryBlocks \/ NoBlocksFit \/ TryBytes \/ EndBytes \/ OnHostOnly

Init ==
    /\ request \in Requests
    /\ machine \in Machines
    /\ AskInit

Spec == Init /\ [][FitStep]_fitVars

-----------------------------------------------------------------------------
(* Properties.                                                              *)

Placed == fit # None

\* Every byte asked for is placed exactly once, in one of the two memories,
\* each memory is charged what was placed in it and neither is overrun: the
\* split of the cache and of the heuristics by rounded shares loses nothing
\* (_calculate_offload_placement, _split_heuristic_bytes).
TwoPools ==
    Placed =>
        /\ fit.gpuWeights + fit.ramWeights = request.weights
        /\ fit.gpuKv + fit.ramKv = request.kv
        /\ fit.gpuOverhead + fit.ramOverhead = request.overhead
        /\ fit.gpuMargin + fit.ramMargin = request.margin
        /\ fit.mode \in {"gpu_resident", "gpu_offload"} =>
              /\ fit.gpu = fit.gpuWeights + fit.gpuKv + fit.gpuOverhead
                               + fit.gpuMargin + request.reserve
              /\ fit.gpu <= machine.vram
              /\ fit.ram <= machine.ram /\ fit.ramMax <= machine.ram
        /\ fit.mode = "cpu_ram" => fit.ram <= machine.ram

\* Any place of the weights outside the blocks keeps to both memories: that
\* is what "guaranteed across the unknown non-block split" says of an offload
\* (hardware_fit.py, planning_warnings).
AnySplitFits ==
    (Placed /\ fit.mode = "gpu_offload" /\ Decomposed(request)) =>
        \A onGpu \in 0..request.decomp.nonBlock :
            LET p == Placement(request, fit.blocks,
                               BlockBytes(request, fit.blocks) + onGpu)
            IN  p.gpu <= machine.vram /\ p.ram <= machine.ram

\* The reference: does a placement with k blocks, or with b bytes, fit?
SomeBytesFit(r, m, b) ==
    LET p == Placement(r, 0, b)
    IN  Splits(r, b) /\ p.gpu <= m.vram /\ p.ram <= m.ram

\* No feasible placement is skipped: an offload is found whenever one exists,
\* and it puts as much on the GPU as any (the ceiling of the loop, and the
\* binary search that checks the host last).
NothingSkipped ==
    (Placed /\ machine.vram # None /\ fit.mode # "gpu_resident") =>
        IF request.blocks > 0
        THEN \A k \in 1..request.blocks :
                 BlocksFit(request, machine, k) =>
                     fit.mode = "gpu_offload" /\ fit.blocks >= k
        ELSE \A b \in 1..request.weights :
                 SomeBytesFit(request, machine, b) =>
                     fit.mode = "gpu_offload" /\ fit.gpuWeights >= b

\* A placement is sound: it places what was asked for, and fits wherever the bytes nobody
\* can place in advance end up.
PlacementFits == TwoPools /\ AnySplitFits
=============================================================================
