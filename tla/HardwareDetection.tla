-------------------------- MODULE HardwareDetection --------------------------
(***************************************************************************)
(* What the program believes about the accelerators.  Three probes that    *)
(* know different things of the same cards (NVML, vulkaninfo and the       *)
(* Windows adapter list) run one after the other; each may fail, and       *)
(* merge_accelerators joins their answers by identifiers and by names.     *)
(*                                                                         *)
(* A name is [base, note]: the device and the parenthesis some drivers add *)
(* to it.  Dozen writes the name of the device in the note of a base of    *)
(* its own.  Models whose names share their number are of one family.      *)
(* A card is [model, vendor, kind, device, vram, free, readable, present]; *)
(* readable when the kernel's files tell its memory.  A machine            *)
(* is [cards, naming, windows, renderer]: naming says how its Vulkan       *)
(* driver writes names, renderer that a software renderer is listed.  The  *)
(* card of an accelerator, the one its first report was about, is for the  *)
(* properties only: the code has no such field.                            *)
(***************************************************************************)
EXTENDS Naturals, Sequences, SequencesExt, FiniteSets, FiniteSetsExt

CONSTANTS
    None,           \* no value
    Boxes,          \* the machines considered
    Family,         \* [models -> families]: near names, as the tokens see them
    Layer           \* the base of Dozen's names, a model of no card

Models == DOMAIN Family
Vendors == {"nvidia", "amd", "intel"}
Kinds == {"dedicated", "integrated"}
Backends == {"cuda", "vulkan", "hip"}

\* The names a driver gives: plain, annotated, or those of Dozen.
Namings == {"plain", "annotated", "dozen"}

ASSUME NamesAssumption == Layer \notin Models /\ None \notin Models
ASSUME BoxAssumption ==
    \A b \in Boxes : \A i \in DOMAIN b.cards :
        /\ b.cards[i].model \in Models /\ b.cards[i].vendor \in Vendors
        /\ b.cards[i].kind \in Kinds
        /\ b.cards[i].free \in 0..b.cards[i].vram
        /\ b.cards[i].readable \in BOOLEAN /\ b.cards[i].present \in BOOLEAN
        /\ b.naming \in Namings

VARIABLES
    box,            \* the machine
    probing,        \* "nvidia", "vulkan", "windows", "done"
    gpus,           \* HardwareProfile.gpus: [name, total, free]
    accelerators    \* HardwareProfile.accelerators

hardwareVars == <<box, probing, gpus, accelerators>>

-----------------------------------------------------------------------------
(* Names and identities.                                                    *)

Plain(m) == [base |-> m, note |-> None]
Dozen(m) == [base |-> Layer, note |-> m]

\* The device a name is about, for those who read the note too.
ModelOf(name) == IF name.note \in Models THEN name.note ELSE name.base

\* Equal or contained names, and names that share tokens with a number:
\* a substring, or _likely_same_device_name.
LikelySame(a, b) ==
    \/ a = b
    \/ ModelOf(a) \in Models /\ ModelOf(b) \in Models
          /\ Family[ModelOf(a)] = Family[ModelOf(b)]

\* No two probes report both a UUID or both a bus id.
SameStableIdentity(a, b) ==
    /\ a.vendor = b.vendor /\ a.name = b.name
    /\ a.device # None /\ a.device = b.device

-----------------------------------------------------------------------------
(* Merging.                                                                 *)

Rank(availability) ==
    CASE availability = "available" -> 3 [] availability = "unavailable" -> 2
      [] availability = "unknown" -> 1 [] OTHER -> 0

\* A backend as a probe reports it; "absent" where it says nothing of it.
Backend(availability, dozen) == [is |-> availability, dozen |-> dozen]

Stronger(a, b) == IF Rank(b.is) > Rank(a.is) THEN b ELSE a

Joined(existing, addition) ==
    [existing EXCEPT
        !.device = IF @ # None THEN @ ELSE addition.device,
        !.sources = @ \cup addition.sources,
        !.backends = [k \in Backends |->
                         Stronger(existing.backends[k], addition.backends[k])]]

\* _matching_accelerator_index; 0 is no match, several names are none.
MatchingIndex(known, candidate) ==
    LET stable == {i \in DOMAIN known : SameStableIdentity(known[i], candidate)}
        named  == {i \in DOMAIN known :
                      /\ known[i].vendor = candidate.vendor
                      /\ LikelySame(known[i].name, candidate.name)}
    IN  IF stable # {} THEN Min(stable)
        ELSE IF Cardinality(named) = 1 THEN Min(named) ELSE 0

MergeOne(known, addition) ==
    LET i == MatchingIndex(known, addition)
    IN  IF i = 0 THEN Append(known, addition)
        ELSE [known EXCEPT ![i] = Joined(@, addition)]

MergeAccelerators(base, additions) == FoldLeft(MergeOne, base, additions)

-----------------------------------------------------------------------------
(* What the probes report.                                                  *)

InOrder(indices) == SetToSortSeq(indices, <)

\* _accelerator_from_gpu
NvidiaAccelerator(i, cuda) ==
    LET card == box.cards[i]
    IN
    [card |-> i, name |-> Plain(card.model), vendor |-> "nvidia", kind |-> "dedicated",
     device |-> None, total |-> card.vram, free |-> card.free,
     shared |-> FALSE, sources |-> {"nvml"},
     backends |-> [k \in Backends |->
         Backend(IF k = "cuda" /\ cuda THEN "available" ELSE "unknown", FALSE)]]

\* _backends_for_vulkan_device
VulkanBackends(vendor, software, dozen) ==
    [k \in Backends |->
        IF k = "vulkan"
        THEN Backend(IF software THEN "unavailable" ELSE "available", dozen)
        ELSE Backend(CASE software -> "unavailable"
                       [] vendor = "nvidia" -> "unknown"
                       [] vendor = "amd" /\ k = "hip" -> "unknown"
                       [] OTHER -> "unavailable", FALSE)]

\* _read_drm_vram_bytes: what the one card of this vendor and device says,
\* the cards without a reading left out before they are counted.
DrmReading(card) ==
    LET same == {i \in DOMAIN box.cards :
                    /\ box.cards[i].vendor = card.vendor
                    /\ box.cards[i].device = card.device
                    /\ box.cards[i].present /\ box.cards[i].readable}
    IN  IF card.vendor = "amd" /\ Cardinality(same) = 1
        THEN box.cards[Min(same)] ELSE None

\* _accelerator_from_device
VulkanAccelerator(i, name) ==
    LET card == box.cards[i]
        drm  == DrmReading(card)
        read == drm # None /\ card.kind = "dedicated"
    IN  [card |-> i, name |-> name, vendor |-> card.vendor, kind |-> card.kind,
         device |-> card.device,
         total |-> IF read THEN drm.vram ELSE None,
         free |-> IF read THEN drm.free ELSE None,
         shared |-> card.kind = "integrated",
         sources |-> {"vulkaninfo"} \cup (IF read THEN {"drm"} ELSE {}),
         backends |-> VulkanBackends(card.vendor, FALSE, name.base = Layer)]

SoftwareRenderer ==
    [card |-> 0, name |-> [base |-> "llvmpipe", note |-> None], vendor |-> "other",
     kind |-> "software", device |-> "llvmpipe", total |-> None, free |-> None,
     shared |-> TRUE, sources |-> {"vulkaninfo"},
     backends |-> VulkanBackends("other", TRUE, FALSE)]

\* _accelerator_from_row
WindowsAccelerator(i) ==
    LET card == box.cards[i]
    IN
    [card |-> i, name |-> Plain(card.model), vendor |-> card.vendor, kind |-> "unknown",
     device |-> card.device, total |-> None, free |-> None, shared |-> FALSE,
     sources |-> {"windows-wmi"},
     backends |-> [k \in Backends |->
         Backend(IF k = "vulkan" THEN "unknown" ELSE "absent", FALSE)]]

WantsHeapMemory(a) ==
    a.kind = "dedicated" /\ a.vendor # "nvidia" /\ ~a.shared /\ a.total = None

\* _matching_heap: the summary has no bus id, so the join must be unique.
HeapOf(a, listed, reported) ==
    LET key(x) == <<x.vendor, x.device, x.name>>
        same(s) == {i \in DOMAIN s : key(s[i]) = key(a)}
    IN  IF /\ WantsHeapMemory(a)
           /\ Cardinality(same(listed)) = 1 /\ Cardinality(same(reported)) = 1
        THEN reported[CHOOSE i \in same(reported) : TRUE]
        ELSE None

\* _with_heap, with the budget the driver reports or without.
WithHeap(a, heap, budget) ==
    IF heap = None THEN a
    ELSE [a EXCEPT !.total = heap.total,
                   !.free = IF budget THEN heap.free ELSE None,
                   !.sources = @ \cup {"heap"}]

-----------------------------------------------------------------------------
(* detect_hardware                                                          *)

DetectionInit ==
    /\ box \in Boxes
    /\ probing = "nvidia"
    /\ gpus = <<>>
    /\ accelerators = <<>>

Present == {i \in DOMAIN box.cards : box.cards[i].present}

NvidiaCards == {i \in Present : box.cards[i].vendor = "nvidia"}

\* NVML is missing or fails (nothing), or reads some cards, with CUDA or not.
DetectNvidia ==
    /\ probing = "nvidia"
    /\ \E read \in SUBSET NvidiaCards, cuda \in BOOLEAN :
          LET order == InOrder(read)
          IN  /\ gpus' = [i \in DOMAIN order |->
                             [name |-> Plain(box.cards[order[i]].model),
                              total |-> box.cards[order[i]].vram,
                              free |-> box.cards[order[i]].free]]
              /\ accelerators' = [i \in DOMAIN order |->
                     NvidiaAccelerator(order[i], cuda)]
    /\ probing' = "vulkan"
    /\ UNCHANGED box

VulkanName(model, naming) ==
    CASE naming = "plain" -> Plain(model)
      [] naming = "annotated" -> [base |-> model, note |-> "driver"]
      [] naming = "dozen" -> Dozen(model)

\* What vulkaninfo lists: the cards, then the renderer.
VulkanList ==
    LET order == InOrder(Present)
    IN  [i \in DOMAIN order |->
            VulkanAccelerator(order[i],
                              VulkanName(box.cards[order[i]].model, box.naming))]
        \o (IF box.renderer THEN <<SoftwareRenderer>> ELSE <<>>)

\* The heaps of the cards a second report lists.
HeapList(reported) ==
    LET order == InOrder(reported)
    IN  [i \in DOMAIN order |->
            [name |-> VulkanName(box.cards[order[i]].model, box.naming),
             vendor |-> box.cards[order[i]].vendor,
             device |-> box.cards[order[i]].device,
             total |-> box.cards[order[i]].vram,
             free |-> box.cards[order[i]].free]]

VulkanFails ==
    /\ probing = "vulkan"
    /\ probing' = "windows"
    /\ UNCHANGED <<box, gpus, accelerators>>

\* The summary, the heaps of the cards whose memory is not known yet (HeapOf),
\* the merge.
DetectVulkan ==
    /\ probing = "vulkan"
    /\ \E reported \in SUBSET Present, budget \in BOOLEAN :
          LET heaps == HeapList(reported)
          IN  accelerators' = MergeAccelerators(accelerators,
                 [i \in DOMAIN VulkanList |->
                     WithHeap(VulkanList[i],
                              HeapOf(VulkanList[i], VulkanList, heaps), budget)])
    /\ probing' = "windows"
    /\ UNCHANGED <<box, gpus>>

\* Elsewhere than on Windows, and where the query fails, nothing is added.
DetectWindows ==
    /\ probing = "windows"
    /\ \/ accelerators' = accelerators
       \/ /\ box.windows
          /\ accelerators' = MergeAccelerators(accelerators,
                 LET order == InOrder(Present)
                 IN  [i \in DOMAIN order |-> WindowsAccelerator(order[i])])
    /\ probing' = "done"
    /\ UNCHANGED <<box, gpus>>

Detect == DetectNvidia \/ VulkanFails \/ DetectVulkan \/ DetectWindows

Hardware == [gpus |-> gpus, accelerators |-> accelerators]

-----------------------------------------------------------------------------
(* Questions asked of a profile.                                            *)

Discrete(hw) == {a \in ToSet(hw.accelerators) : a.kind = "dedicated" /\ ~a.shared}

MaxOrNone(numbers) == IF numbers = {} THEN None ELSE Max(numbers)

AvailableMemory(hw) ==
    MaxOrNone({g.free : g \in ToSet(hw.gpus)}
              \cup ({a.free : a \in Discrete(hw)} \ {None}))

\* available_compute_backends
ComputeBackends(hw) ==
    {"cpu"}
    \cup UNION {{k \in Backends : a.backends[k].is = "available"} :
                   a \in {x \in ToSet(hw.accelerators) : x.kind # "software"}}
    \cup (IF hw.gpus # <<>> /\ hw.accelerators = <<>> THEN {"cuda"} ELSE {})

-----------------------------------------------------------------------------
(* Properties.                                                              *)

=============================================================================
