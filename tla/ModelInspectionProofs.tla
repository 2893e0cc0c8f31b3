----------------------- MODULE ModelInspectionProofs -----------------------
(***************************************************************************)
(* Theorems of ModelInspection: what the two caches serve is never older   *)
(* than what was asked for, no crash or race takes an entry that could be  *)
(* read away, and a header costs less than twice its budget.               *)
(***************************************************************************)
EXTENDS ModelInspection, TLAPS

Places == {"idle", "lookup", "inspect", "analyze", "store", "enrich", "header", "fetch",
           "keep", "resolve", "done", "prepared", "failed"}

\* The places by what an inspection holds there.
Unlisted   == {"idle", "failed"}
Unanalysed == Unlisted \cup {"lookup", "inspect"}
Headerless == Unanalysed \cup {"analyze", "store", "enrich", "header", "fetch"}
Choosing   == {"header", "fetch", "keep"}

Shaped(w) ==
    w \in [pc : {w.pc}, listing : {w.listing}, analysis : {w.analysis}, card : {w.card},
           header : {w.header}, window : {w.window}, traffic : {w.traffic}, base : {w.base},
           merged : {w.merged}, error : {w.error}, artifact : {w.artifact}]

\* A stamped inspection was asked for a revision that had been pushed.
ListingInv(w) ==
    w.pc \notin Unlisted =>
        /\ w.listing.rev \in 1..rev
        /\ w.listing.kind \in IF stamps THEN StampKinds ELSE {"ttl"}

\* Its analysis is of that revision or a later one ...
AnalysisInv(w) ==
    IF w.pc \in Unanalysed THEN w.analysis = None
    ELSE /\ w.analysis \in Analyses
         /\ w.analysis.info <= rev
         /\ stamps => w.analysis.info >= w.listing.rev

\* ... and its header is not of an earlier one than the analysis.
HeaderInv(w) ==
    /\ w.pc \in Headerless => w.header = None
    /\ w.header # None \/ w.pc = "keep" =>
           w.header \in Headers /\ (stamps => w.header.rev >= w.analysis.info)

ChosenOf(w) == SelectVariant(GroupVariants(content[w.analysis.info].files), None)
ChoiceInv(w) == w.pc \in Choosing => ChosenOf(w) # {}

\* The windows read so far are smaller than the next one by the first.
TrafficInv(w) ==
    /\ w.traffic \in Nat /\ w.window \in Nat
    /\ w.pc \in Headerless \ {"fetch"} => w.window = Initial /\ w.traffic = 0
    /\ w.pc = "fetch" => w.window <= MaxWindow /\ w.traffic + Initial <= w.window
    /\ w.traffic < 2 * MaxWindow

InspectionInv(w) ==
    /\ Shaped(w) /\ w.pc \in Places
    /\ ListingInv(w) /\ AnalysisInv(w) /\ HeaderInv(w) /\ ChoiceInv(w) /\ TrafficInv(w)

HubInv ==
    /\ rev \in 1..MaxRev /\ stamps \in BOOLEAN /\ now \in Nat
    /\ content \in [1..MaxRev -> Contents]

\* An entry is never older than the revision its key names.
AnalysesInv ==
    /\ \E S : acache \in [AnalysisKeys -> S]
    /\ \A k \in AnalysisKeys : Readable(acache[k]) =>
           acache[k].value \in Analyses /\ acache[k].value.info <= rev /\ acache[k].value.info >= k[2]

HeadersInv ==
    /\ \E S : hcache \in [HeaderKeys -> S]
    /\ \A k \in HeaderKeys : Readable(hcache[k]) =>
           hcache[k].value \in Headers /\ hcache[k].value.rev >= k[2]

InspectionsInv ==
    /\ \E S : insp \in [Inspectors -> S]
    /\ \A p \in Inspectors : InspectionInv(insp[p])

IInv == HubInv /\ AnalysesInv /\ HeadersInv /\ InspectionsInv

-----------------------------------------------------------------------------
(* Records and values.                                                     *)

\* The fields of an inspection's record, once they are told apart.
LEMMA FieldsAre ==
    ASSUME NEW v, NEW a, NEW b, NEW c, NEW d, NEW e, NEW f, NEW g, NEW h, NEW i, NEW j, NEW k,
           v \in [pc : {a}, listing : {b}, analysis : {c}, card : {d}, header : {e},
                  window : {f}, traffic : {g}, base : {h}, merged : {i}, error : {j}, artifact : {k}]
    PROVE  /\ Shaped(v) /\ v.pc = a /\ v.listing = b /\ v.analysis = c /\ v.card = d
           /\ v.header = e /\ v.window = f /\ v.traffic = g /\ v.base = h
           /\ v.merged = i /\ v.error = j /\ v.artifact = k
  BY DEF Shaped

\* No entry of a cache is mistaken for a file that is absent or unreadable.
LEMMA EntriesAreReadable ==
    ASSUME NEW value \in Analyses \cup Headers, now \in Nat
    PROVE  /\ Readable(Entry(value)) /\ Entry(value).value = value
  BY EntryAssumption DEF Readable, Entry

LEMMA UniqueIsOneOfThem ==
    ASSUME NEW variants
    PROVE  UniqueRepresentation(variants) \subseteq variants
  BY DEF UniqueRepresentation

\* Whatever is selected is one of the variants of the listing.
LEMMA SelectionIsOneOfThem ==
    ASSUME NEW variants, NEW requested
    PROVE  SelectVariant(variants, requested) \subseteq variants
<1>1. \A q : UniqueRepresentation(OfQuant(variants, q)) \subseteq variants
  BY UniqueIsOneOfThem DEF OfQuant
<1>2. PreferredVariants(variants) \subseteq variants
  BY <1>1 DEF PreferredVariants
<1> QED BY <1>1, <1>2 DEF SelectVariant

\* The file whose header is read has a key of the header cache.
LEMMA HeaderHasAKey ==
    ASSUME HubInv, NEW p, insp[p].analysis \in Analyses, ChosenOf(insp[p]) # {}
    PROVE  LET k == HeaderKey(insp[p].analysis, TheVariant(p)) IN
           /\ k \in HeaderKeys
           /\ k[2] = IF stamps THEN insp[p].analysis.info ELSE 0
<1>1. insp[p].analysis.info \in 1..MaxRev
  BY DEF Analyses
<1>2. content[insp[p].analysis.info] \in Contents
  BY <1>1 DEF HubInv
<1>3. TheVariant(p) \in SelectVariant(GroupVariants(content[insp[p].analysis.info].files), None)
  BY DEF TheVariant, Chosen, ChosenOf, FilesOf
<1>4. TheVariant(p) \in GroupVariants(content[insp[p].analysis.info].files)
  BY <1>3, SelectionIsOneOfThem
<1>5. TheVariant(p) \in AllVariants
  BY <1>2, <1>4 DEF AllVariants
<1>6. FirstShard(TheVariant(p)) \in {FirstShard(v) : v \in AllVariants}
  BY <1>5
<1>7. (IF stamps THEN insp[p].analysis.info ELSE 0) \in 0..MaxRev
  BY <1>1, BoundAssumption
<1> QED BY <1>6, <1>7 DEF HeaderKey, HeaderKeys

\* A stamped listing has a key of the analysis cache that names its revision.
LEMMA AnalysisHasAKey ==
    ASSUME HubInv, NEW w, w.pc \in Places \ Unlisted, ListingInv(w)
    PROVE  LET k == AnalysisKey(w.listing) IN
           /\ k \in AnalysisKeys
           /\ k[2] = IF stamps THEN w.listing.rev ELSE 0
<1>1. w.listing.rev \in 1..MaxRev /\ w.listing.kind \in IF stamps THEN StampKinds ELSE {"ttl"}
  <2>1. w.listing.kind \in IF stamps THEN StampKinds ELSE {"ttl"}
    BY DEF ListingInv
  <2>2. w.listing.rev \in 1..rev /\ rev \in 1..MaxRev
    BY DEF ListingInv, HubInv
  <2>3. w.listing.rev \in 1..MaxRev
    BY <2>2, BoundAssumption
  <2> QED BY <2>1, <2>3
<1>2. CASE stamps
  <2>1. w.listing.kind # "ttl" /\ w.listing.kind \in StampKinds
    BY <1>1, <1>2, StampAssumption
  <2> QED BY <1>1, <1>2, <2>1 DEF AnalysisKey, AnalysisKeys
<1>3. CASE ~stamps
  BY <1>1, <1>3 DEF AnalysisKey, AnalysisKeys
<1> QED BY <1>2, <1>3

LEMMA KeysAreStrings ==
    ASSUME NEW c \in Contents, NEW n
    PROVE  KeysWithin(c.layout, n) \subseteq STRING
  BY ContentAssumption DEF KeysWithin

\* What parse_header returns as a header is one, of the revision it read.
LEMMA HeadersAreRead ==
    ASSUME NEW r \in 1..MaxRev, NEW n, content[r] \in Contents, IsHeader(ParseHeader(r, n))
    PROVE  ParseHeader(r, n) \in Headers /\ ParseHeader(r, n).rev = r
<1>1. KeysWithin(content[r].layout, n) \in SUBSET STRING
  BY KeysAreStrings
<1>2. \E b \in BOOLEAN : ParseHeader(r, n) = HeaderOf(r, KeysWithin(content[r].layout, n), b)
  BY DEF ParseHeader, IsHeader
<1> QED BY <1>1, <1>2 DEF HeaderOf, Headers

\* A window that grows by a factor of two or more stays ahead of what was read.
LEMMA GrowthOutruns ==
    ASSUME NEW w \in Nat
    PROVE  w * Growth \in Nat /\ w + w <= w * Growth
<1>1. PICK g \in Nat : Growth = g + 2
  <2>1. Growth - 2 \in Nat /\ Growth = (Growth - 2) + 2
    BY WindowAssumption
  <2> QED BY <2>1
<1>2. w * Growth = w * g + w + w /\ w * g \in Nat
  BY <1>1
<1> QED BY <1>2

-----------------------------------------------------------------------------
(* Steps.                                                                  *)

\* What no step takes away.
EntriesKept ==
    /\ \A k \in AnalysisKeys : Readable(acache[k]) => Readable(acache'[k])
    /\ \A k \in HeaderKeys : Readable(hcache[k]) => Readable(hcache'[k])

LEMMA HubStands ==
    ASSUME IInv, UNCHANGED Hub
    PROVE  HubInv' /\ rev' = rev /\ stamps' = stamps /\ content' = content /\ now' = now
  BY DEF IInv, HubInv, Hub

LEMMA AnalysesStand ==
    ASSUME IInv, UNCHANGED <<Hub, acache>>
    PROVE  /\ AnalysesInv'
           /\ \A k \in AnalysisKeys : Readable(acache[k]) => Readable(acache'[k])
  BY DEF IInv, AnalysesInv, Hub, Readable

LEMMA HeadersStand ==
    ASSUME IInv, UNCHANGED <<Hub, hcache>>
    PROVE  /\ HeadersInv'
           /\ \A k \in HeaderKeys : Readable(hcache[k]) => Readable(hcache'[k])
  BY DEF IInv, HeadersInv, Hub, Readable

\* What holds of an inspection is about its record and the hub.
LEMMA SameHub ==
    ASSUME IInv, UNCHANGED Hub, NEW q \in Inspectors, InspectionInv(insp'[q])
    PROVE  InspectionInv(insp[q])'
<1>1. rev' = rev /\ stamps' = stamps /\ content' = content
  BY HubStands
<1>2. Shaped(insp[q])' /\ (insp[q].pc \in Places)'
  BY DEF InspectionInv, Shaped
<1>3. ListingInv(insp[q])'
  BY <1>1 DEF InspectionInv, ListingInv
<1>4. AnalysisInv(insp[q])'
  BY <1>1 DEF InspectionInv, AnalysisInv, Analyses
<1>5. HeaderInv(insp[q])' /\ TrafficInv(insp[q])'
  BY <1>1 DEF InspectionInv, HeaderInv, TrafficInv
<1>6. ChoiceInv(insp[q])'
  BY <1>1 DEF InspectionInv, ChoiceInv, ChosenOf
<1> QED BY <1>2, <1>3, <1>4, <1>5, <1>6 DEF InspectionInv

LEMMA InspectionsStand ==
    ASSUME IInv, UNCHANGED Hub, insp' = insp
    PROVE  InspectionsInv'
<1>1. \A q \in Inspectors : InspectionInv(insp'[q])
  BY DEF IInv, InspectionsInv
<1>2. \A q \in Inspectors : InspectionInv(insp[q])'
  BY <1>1, SameHub
<1>3. (\E S : insp \in [Inspectors -> S])'
  BY DEF IInv, InspectionsInv
<1> QED BY <1>2, <1>3 DEF InspectionsInv

\* One inspection moves.
LEMMA InspectionMoves ==
    ASSUME IInv, UNCHANGED Hub, NEW p \in Inspectors, NEW w, Set(p, w), InspectionInv(w)
    PROVE  InspectionsInv'
<1>1. PICK S : insp \in [Inspectors -> S]
  BY DEF IInv, InspectionsInv
<1>2. insp' \in [Inspectors -> S \cup {w}]
  BY <1>1 DEF Set
<1>3. \A q \in Inspectors : insp'[q] = IF q = p THEN w ELSE insp[q]
  BY <1>1 DEF Set
<1>4. \A q \in Inspectors : InspectionInv(insp'[q])
  BY <1>3 DEF IInv, InspectionsInv
<1>5. \A q \in Inspectors : InspectionInv(insp[q])'
  BY <1>4, SameHub
<1> QED BY <1>2, <1>5 DEF InspectionsInv

\* ... and nothing else does.
LEMMA OneMoves ==
    ASSUME IInv, UNCHANGED <<Hub, acache, hcache>>,
           NEW p \in Inspectors, NEW w, Set(p, w), InspectionInv(w)
    PROVE  IInv' /\ EntriesKept
<1>1. UNCHANGED Hub /\ UNCHANGED <<Hub, acache>> /\ UNCHANGED <<Hub, hcache>>
  OBVIOUS
<1>2. AnalysesInv' /\ HeadersInv' /\ HubInv' /\ EntriesKept
  BY <1>1, HubStands, AnalysesStand, HeadersStand DEF EntriesKept
<1>3. InspectionsInv'
  BY <1>1, InspectionMoves
<1> QED BY <1>2, <1>3 DEF IInv

LEMMA PositiveWindow == Initial \in Nat /\ Initial > 0 /\ MaxWindow \in Nat /\ MaxWindow > 0 /\ Initial <= MaxWindow
  BY WindowAssumption

\* An inspection that has not begun, or was given up.
LEMMA EmptyIsFine ==
    ASSUME NEW v, NEW pc \in Unlisted, NEW e, NEW a,
           v \in [pc : {pc}, listing : {None}, analysis : {None}, card : {None}, header : {None},
                  window : {Initial}, traffic : {0}, base : {None}, merged : {None},
                  error : {e}, artifact : {a}]
    PROVE  InspectionInv(v)
<1>1. /\ Shaped(v) /\ v.pc = pc /\ v.analysis = None /\ v.header = None
      /\ v.window = Initial /\ v.traffic = 0
  BY FieldsAre
<1>2. ListingInv(v) /\ AnalysisInv(v) /\ HeaderInv(v) /\ ChoiceInv(v)
  BY <1>1 DEF ListingInv, AnalysisInv, HeaderInv, ChoiceInv, Unlisted, Unanalysed, Headerless, Choosing
<1>3. TrafficInv(v)
  BY <1>1, PositiveWindow DEF TrafficInv, Unlisted, Unanalysed, Headerless
<1> QED BY <1>1, <1>2, <1>3 DEF InspectionInv, Places, Unlisted

LEMMA FailedIsFine ==
    ASSUME NEW e
    PROVE  InspectionInv(Fresh) /\ InspectionInv(Died)
           /\ InspectionInv([Fresh EXCEPT !.pc = "failed", !.error = e])
<1>1. Fresh \in [pc : {"idle"}, listing : {None}, analysis : {None}, card : {None}, header : {None},
                 window : {Initial}, traffic : {0}, base : {None}, merged : {None},
                 error : {None}, artifact : {None}]
  BY DEF Fresh
<1>2. Died \in [pc : {"failed"}, listing : {None}, analysis : {None}, card : {None}, header : {None},
                window : {Initial}, traffic : {0}, base : {None}, merged : {None},
                error : {None}, artifact : {None}]
  BY DEF Fresh, Died
<1>3. [Fresh EXCEPT !.pc = "failed", !.error = e]
        \in [pc : {"failed"}, listing : {None}, analysis : {None}, card : {None}, header : {None},
             window : {Initial}, traffic : {0}, base : {None}, merged : {None},
             error : {e}, artifact : {None}]
  BY DEF Fresh
<1>4. "idle" \in Unlisted /\ "failed" \in Unlisted
  BY DEF Unlisted
<1> QED BY <1>1, <1>2, <1>3, <1>4, EmptyIsFine

LEMMA ListKeeps ==
    ASSUME IInv, NEW p \in Inspectors, List(p)
    PROVE  IInv' /\ EntriesKept
<1>1. PICK kind \in IF stamps THEN StampKinds ELSE {"ttl"} :
        Set(p, [Fresh EXCEPT !.pc = "lookup", !.listing = [kind |-> kind, rev |-> rev]])
  BY DEF List
<1> DEFINE l == [kind |-> kind, rev |-> rev]
           v == [Fresh EXCEPT !.pc = "lookup", !.listing = l]
<1>2. v \in [pc : {"lookup"}, listing : {l}, analysis : {None}, card : {None}, header : {None},
             window : {Initial}, traffic : {0}, base : {None}, merged : {None},
             error : {None}, artifact : {None}]
  BY DEF Fresh
<1>3. l.kind = kind /\ l.rev = rev
  OBVIOUS
<1>4. rev \in 1..rev
  BY BoundAssumption DEF IInv, HubInv
<1>5. Set(p, v) /\ UNCHANGED <<Hub, acache, hcache>>
  BY <1>1 DEF List
<1> HIDE DEF l, v
<1>6. /\ Shaped(v) /\ v.pc = "lookup" /\ v.listing = l /\ v.analysis = None /\ v.header = None
      /\ v.window = Initial /\ v.traffic = 0
  BY <1>2, FieldsAre
<1>7. ListingInv(v)
  BY <1>1, <1>3, <1>4, <1>6 DEF ListingInv
<1>8. AnalysisInv(v) /\ HeaderInv(v) /\ ChoiceInv(v)
  BY <1>6 DEF AnalysisInv, HeaderInv, ChoiceInv, Unlisted, Unanalysed, Headerless, Choosing
<1>9. TrafficInv(v)
  BY <1>6, PositiveWindow DEF TrafficInv, Unlisted, Unanalysed, Headerless
<1>10. InspectionInv(v)
  BY <1>6, <1>7, <1>8, <1>9 DEF InspectionInv, Places
<1> QED BY <1>5, <1>10, OneMoves

\* An inspection goes to another place with what it holds.
LEMMA PcMoves ==
    ASSUME NEW w, Shaped(w), NEW x, NEW v, v = [w EXCEPT !.pc = x]
    PROVE  /\ Shaped(v) /\ v.pc = x /\ v.listing = w.listing /\ v.analysis = w.analysis
           /\ v.header = w.header /\ v.window = w.window /\ v.traffic = w.traffic
<1>1. v \in [pc : {x}, listing : {w.listing}, analysis : {w.analysis}, card : {w.card},
             header : {w.header}, window : {w.window}, traffic : {w.traffic}, base : {w.base},
             merged : {w.merged}, error : {w.error}, artifact : {w.artifact}]
  BY DEF Shaped
<1> QED BY <1>1, FieldsAre

\* An inspection with an analysis of its listing, before a header is looked for.
LEMMA AnalysedIsFine ==
    ASSUME HubInv, NEW w, InspectionInv(w), w.pc \in Headerless \ (Unlisted \cup {"fetch"}),
           NEW v, NEW x \in {"analyze", "store", "enrich"},
           /\ Shaped(v) /\ v.pc = x /\ v.listing = w.listing /\ v.header = w.header
           /\ v.window = w.window /\ v.traffic = w.traffic,
           v.analysis \in Analyses, v.analysis.info <= rev,
           stamps => v.analysis.info >= w.listing.rev
    PROVE  InspectionInv(v)
<1>1. ListingInv(w) /\ HeaderInv(w) /\ TrafficInv(w)
  BY DEF InspectionInv
<1>2. ListingInv(v)
  BY <1>1 DEF ListingInv
<1>3. AnalysisInv(v)
  BY DEF AnalysisInv, Unanalysed, Unlisted
<1>4. w.header = None /\ x \in Headerless /\ x \notin Choosing \cup {"keep", "fetch"}
  BY <1>1 DEF HeaderInv, Headerless, Choosing
<1>5. HeaderInv(v) /\ ChoiceInv(v)
  BY <1>4 DEF HeaderInv, ChoiceInv
<1>6. TrafficInv(v)
  BY <1>1, <1>4 DEF TrafficInv
<1> QED BY <1>2, <1>3, <1>5, <1>6 DEF InspectionInv, Places

LEMMA LookupKeeps ==
    ASSUME IInv, NEW p \in Inspectors, Lookup(p)
    PROVE  IInv' /\ EntriesKept
<1> DEFINE w == insp[p]
           k == AnalysisKey(w.listing)
           cached == Served(acache, k, w.listing.kind = "ttl")
<1>1. w.pc = "lookup" /\ UNCHANGED <<Hub, acache, hcache>>
  BY DEF Lookup, At
<1>2. InspectionInv(w) /\ HubInv
  BY DEF IInv, InspectionsInv
<1>3. Shaped(w) /\ ListingInv(w) /\ AnalysisInv(w) /\ HeaderInv(w) /\ TrafficInv(w)
  BY <1>2 DEF InspectionInv
<1>4. CASE cached = None
  <2> DEFINE v == [w EXCEPT !.pc = "inspect"]
  <2>1. Set(p, v)
    BY <1>4 DEF Lookup
  <2>2. /\ Shaped(v) /\ v.pc = "inspect" /\ v.listing = w.listing /\ v.analysis = w.analysis
        /\ v.header = w.header /\ v.window = w.window /\ v.traffic = w.traffic
    BY <1>3, PcMoves
  <2> HIDE DEF v, w
  <2>3. ListingInv(v) /\ AnalysisInv(v) /\ HeaderInv(v) /\ ChoiceInv(v) /\ TrafficInv(v)
    BY <1>1, <1>3, <2>2
       DEF ListingInv, AnalysisInv, HeaderInv, ChoiceInv, TrafficInv,
           Unlisted, Unanalysed, Headerless, Choosing
  <2>4. InspectionInv(v)
    BY <2>2, <2>3 DEF InspectionInv, Places
  <2> QED BY <1>1, <2>1, <2>4, OneMoves
<1>5. CASE cached # None
  <2> DEFINE v == [w EXCEPT !.pc = "enrich", !.analysis = cached]
  <2>1. Set(p, v)
    BY <1>5 DEF Lookup
  <2>2. k \in AnalysisKeys /\ k[2] = IF stamps THEN w.listing.rev ELSE 0
    BY <1>1, <1>2, <1>3, AnalysisHasAKey DEF Places, Unlisted
  <2>3. Readable(acache[k]) /\ cached = acache[k].value
    BY <1>5 DEF Served
  <2>4. cached \in Analyses /\ cached.info <= rev /\ cached.info >= k[2]
    BY <2>2, <2>3 DEF IInv, AnalysesInv
  <2>5. stamps => cached.info >= w.listing.rev
    BY <2>2, <2>4
  <2>a. v = [w EXCEPT !.pc = "enrich", !.analysis = cached]
    OBVIOUS
  <2> HIDE DEF w, k, cached, v
  <2>6. /\ Shaped(v) /\ v.pc = "enrich" /\ v.listing = w.listing /\ v.analysis = cached
        /\ v.header = w.header /\ v.window = w.window /\ v.traffic = w.traffic
    <3>1. v \in [pc : {"enrich"}, listing : {w.listing}, analysis : {cached}, card : {w.card},
                 header : {w.header}, window : {w.window}, traffic : {w.traffic}, base : {w.base},
                 merged : {w.merged}, error : {w.error}, artifact : {w.artifact}]
      BY <1>3, <2>a DEF Shaped
    <3> QED BY <3>1 DEF Shaped
  <2>7. w.pc \in Headerless \ (Unlisted \cup {"fetch"})
    BY <1>1 DEF Headerless, Unanalysed, Unlisted
  <2>8. InspectionInv(v)
    BY <1>2, <2>4, <2>5, <2>6, <2>7, AnalysedIsFine
  <2> QED BY <1>1, <2>1, <2>8, OneMoves
<1> QED BY <1>4, <1>5

LEMMA ModelInfoKeeps ==
    ASSUME IInv, NEW p \in Inspectors, ModelInfo(p)
    PROVE  IInv' /\ EntriesKept
<1> DEFINE w == insp[p]
           a == [info |-> rev, config |-> None]
           v == [w EXCEPT !.pc = "analyze", !.analysis = a]
<1>1. w.pc = "inspect" /\ UNCHANGED <<Hub, acache, hcache>>
  BY DEF ModelInfo, At
<1>2. InspectionInv(w) /\ HubInv
  BY DEF IInv, InspectionsInv
<1>3. Shaped(w) /\ ListingInv(w)
  BY <1>2 DEF InspectionInv
<1>4. CASE \E e \in DOMAIN HubErrors : Set(p, [Fresh EXCEPT !.pc = "failed", !.error = HubErrors[e]])
  BY <1>1, <1>4, FailedIsFine, OneMoves
<1>5. CASE Set(p, v)
  <2>1. a \in Analyses /\ a.info = rev
    BY <1>2 DEF Analyses, HubInv
  <2>2. w.listing.rev \in 1..rev /\ rev \in 1..MaxRev
    BY <1>1, <1>2, <1>3 DEF ListingInv, Unlisted, HubInv
  <2>3. a.info <= rev /\ a.info >= w.listing.rev
    BY <2>1, <2>2, BoundAssumption
  <2>a. v = [w EXCEPT !.pc = "analyze", !.analysis = a]
    OBVIOUS
  <2> HIDE DEF w, a, v
  <2>4. /\ Shaped(v) /\ v.pc = "analyze" /\ v.listing = w.listing /\ v.analysis = a
        /\ v.header = w.header /\ v.window = w.window /\ v.traffic = w.traffic
    <3>1. v \in [pc : {"analyze"}, listing : {w.listing}, analysis : {a}, card : {w.card},
                 header : {w.header}, window : {w.window}, traffic : {w.traffic}, base : {w.base},
                 merged : {w.merged}, error : {w.error}, artifact : {w.artifact}]
      BY <1>3, <2>a DEF Shaped
    <3> QED BY <3>1 DEF Shaped
  <2>5. w.pc \in Headerless \ (Unlisted \cup {"fetch"})
    BY <1>1 DEF Headerless, Unanalysed, Unlisted
  <2>6. InspectionInv(v)
    BY <1>2, <2>1, <2>3, <2>4, <2>5, AnalysedIsFine
  <2> QED BY <1>1, <1>5, <2>6, OneMoves
<1> QED BY <1>4, <1>5 DEF ModelInfo

\* An inspection goes on with its analysis.
LEMMA AnalysedGoesOn ==
    ASSUME NEW w, InspectionInv(w), w.pc \notin Unanalysed,
           NEW v, Shaped(v), v.pc \in Places \ Unanalysed,
           v.listing = w.listing, v.analysis = w.analysis,
           HeaderInv(v), ChoiceInv(v), TrafficInv(v)
    PROVE  InspectionInv(v)
<1>1. ListingInv(v)
  BY DEF ListingInv, InspectionInv, Unanalysed
<1>2. AnalysisInv(v)
  BY DEF AnalysisInv, InspectionInv
<1> QED BY <1>1, <1>2 DEF InspectionInv

LEMMA AnalyzeKeeps ==
    ASSUME IInv, NEW p \in Inspectors, Analyze(p)
    PROVE  IInv' /\ EntriesKept
<1> DEFINE w == insp[p]
           a == [w.analysis EXCEPT !.config = rev]
<1>1. w.pc = "analyze" /\ UNCHANGED <<Hub, acache, hcache>>
  BY DEF Analyze, At
<1>2. InspectionInv(w) /\ HubInv
  BY DEF IInv, InspectionsInv
<1>3. Shaped(w) /\ AnalysisInv(w)
  BY <1>2 DEF InspectionInv
<1>4. PICK v : /\ Set(p, v)
               /\ \/ v = [w EXCEPT !.pc = "store", !.analysis.config = rev]
                  \/ v = [w EXCEPT !.pc = "store"]
  BY DEF Analyze
<1>5. /\ w.analysis \in Analyses /\ w.analysis.info <= rev
      /\ stamps => w.analysis.info >= w.listing.rev
  BY <1>1, <1>3 DEF AnalysisInv, Unanalysed, Unlisted
<1>6. a \in Analyses /\ a.info = w.analysis.info
  BY <1>2, <1>5 DEF Analyses, HubInv
<1> HIDE DEF w
<1>7. w.pc \in Headerless \ (Unlisted \cup {"fetch"})
  BY <1>1 DEF Headerless, Unanalysed, Unlisted
<1>8. /\ Shaped(v) /\ v.pc = "store" /\ v.listing = w.listing /\ v.header = w.header
      /\ v.window = w.window /\ v.traffic = w.traffic
      /\ v.analysis = a \/ v.analysis = w.analysis
  <2>1. CASE v = [w EXCEPT !.pc = "store"]
    BY <1>3, <2>1, PcMoves
  <2>2. CASE v = [w EXCEPT !.pc = "store", !.analysis.config = rev]
    <3>1. v \in [pc : {"store"}, listing : {w.listing}, analysis : {a}, card : {w.card},
                 header : {w.header}, window : {w.window}, traffic : {w.traffic}, base : {w.base},
                 merged : {w.merged}, error : {w.error}, artifact : {w.artifact}]
      BY <1>3, <2>2 DEF Shaped
    <3> QED BY <3>1 DEF Shaped
  <2> QED BY <1>4, <2>1, <2>2
<1> HIDE DEF a
<1>9. /\ v.analysis \in Analyses /\ v.analysis.info <= rev
      /\ stamps => v.analysis.info >= w.listing.rev
  BY <1>5, <1>6, <1>8
<1>10. InspectionInv(v)
  BY <1>2, <1>7, <1>8, <1>9, AnalysedIsFine
<1> QED BY <1>1, <1>4, <1>10, OneMoves

\* An entry is stored under its key.
LEMMA AnalysisIsStored ==
    ASSUME IInv, UNCHANGED <<Hub, hcache>>, NEW k \in AnalysisKeys, NEW a \in Analyses,
           a.info <= rev, a.info >= k[2], acache' = [acache EXCEPT ![k] = Entry(a)],
           InspectionsInv'
    PROVE  IInv' /\ EntriesKept
<1>1. HubInv' /\ HeadersInv' /\ rev' = rev
      /\ \A j \in HeaderKeys : Readable(hcache[j]) => Readable(hcache'[j])
  BY HubStands, HeadersStand
<1>2. Readable(Entry(a)) /\ Entry(a).value = a
  BY EntriesAreReadable DEF IInv, HubInv
<1>3. PICK S : acache \in [AnalysisKeys -> S]
  BY DEF IInv, AnalysesInv
<1>4. acache' \in [AnalysisKeys -> S \cup {Entry(a)}]
  BY <1>3
<1>5. \A j \in AnalysisKeys : acache'[j] = IF j = k THEN Entry(a) ELSE acache[j]
  BY <1>3
<1>6. \A j \in AnalysisKeys : Readable(acache'[j]) =>
          acache'[j].value \in Analyses /\ acache'[j].value.info <= rev /\ acache'[j].value.info >= j[2]
  BY <1>2, <1>5 DEF IInv, AnalysesInv
<1>7. AnalysesInv'
  BY <1>1, <1>4, <1>6 DEF AnalysesInv, Readable
<1>8. EntriesKept
  BY <1>1, <1>2, <1>5 DEF EntriesKept
<1> QED BY <1>1, <1>7, <1>8 DEF IInv

LEMMA StoreAnalysisKeeps ==
    ASSUME IInv, NEW p \in Inspectors, StoreAnalysis(p)
    PROVE  IInv' /\ EntriesKept
<1> DEFINE w == insp[p]
           k == AnalysisKey(w.listing)
           v == [w EXCEPT !.pc = "enrich"]
<1>1. w.pc = "store" /\ UNCHANGED <<Hub, hcache>> /\ UNCHANGED Hub
  BY DEF StoreAnalysis, At
<1>2. InspectionInv(w) /\ HubInv
  BY DEF IInv, InspectionsInv
<1>3. Shaped(w) /\ AnalysisInv(w) /\ ListingInv(w)
  BY <1>2 DEF InspectionInv
<1>4. /\ w.analysis \in Analyses /\ w.analysis.info <= rev
      /\ stamps => w.analysis.info >= w.listing.rev
  BY <1>1, <1>3 DEF AnalysisInv, Unanalysed, Unlisted
<1>5. k \in AnalysisKeys /\ k[2] = IF stamps THEN w.listing.rev ELSE 0
  BY <1>1, <1>2, <1>3, AnalysisHasAKey DEF Places, Unlisted
<1>6. InspectionInv(v)
  <2>1. v = [w EXCEPT !.pc = "enrich"]
    OBVIOUS
  <2> HIDE DEF v, w
  <2>2. /\ Shaped(v) /\ v.pc = "enrich" /\ v.listing = w.listing /\ v.analysis = w.analysis
        /\ v.header = w.header /\ v.window = w.window /\ v.traffic = w.traffic
    BY <1>3, <2>1, PcMoves
  <2>3. w.pc \in Headerless \ (Unlisted \cup {"fetch"})
    BY <1>1 DEF Headerless, Unanalysed, Unlisted
  <2> QED BY <1>2, <1>4, <2>2, <2>3, AnalysedIsFine
<1>7. InspectionInv(Died)
  BY FailedIsFine
<1>8. CASE /\ acache' = [acache EXCEPT ![k] = Entry(w.analysis)]
           /\ Set(p, v)
  <2>1. InspectionsInv'
    BY <1>1, <1>6, <1>8, InspectionMoves
  <2>2. w.analysis.info >= k[2]
    BY <1>4, <1>5, <1>2 DEF Analyses
  <2> HIDE DEF w, k, v
  <2> QED BY <1>1, <1>4, <1>5, <1>8, <2>1, <2>2, AnalysisIsStored
<1>9. CASE (Set(p, v) \/ Set(p, Died)) /\ UNCHANGED acache
  <2>1. UNCHANGED <<Hub, acache, hcache>>
    BY <1>1, <1>9
  <2> QED BY <1>6, <1>7, <1>9, <2>1, OneMoves
<1> QED BY <1>8, <1>9 DEF StoreAnalysis

\* An inspection that has an analysis has it for good.
LEMMA AnalysisIsThere ==
    ASSUME IInv, NEW p \in Inspectors, insp[p].pc \notin Unanalysed
    PROVE  /\ InspectionInv(insp[p]) /\ HubInv /\ Shaped(insp[p]) /\ HeaderInv(insp[p])
           /\ ChoiceInv(insp[p]) /\ TrafficInv(insp[p])
           /\ insp[p].analysis \in Analyses /\ insp[p].analysis.info <= rev
  BY DEF IInv, InspectionsInv, InspectionInv, AnalysisInv

LEMMA EnrichKeeps ==
    ASSUME IInv, NEW p \in Inspectors, Enrich(p)
    PROVE  IInv' /\ EntriesKept
<1> DEFINE w == insp[p]
<1>1. w.pc = "enrich" /\ UNCHANGED <<Hub, acache, hcache>>
  BY DEF Enrich, At
<1>2. w.pc \notin Unanalysed
  BY <1>1 DEF Unanalysed, Unlisted
<1>3. InspectionInv(w) /\ Shaped(w) /\ HeaderInv(w) /\ TrafficInv(w)
  BY <1>2, AnalysisIsThere
<1>4. w.header = None /\ w.window = Initial /\ w.traffic = 0
  BY <1>1, <1>3 DEF HeaderInv, TrafficInv, Headerless
<1>5. CASE Set(p, [w EXCEPT !.pc = "done"])
  <2> DEFINE v == [w EXCEPT !.pc = "done"]
  <2>1. v = [w EXCEPT !.pc = "done"]
    OBVIOUS
  <2> HIDE DEF v, w
  <2>2. /\ Shaped(v) /\ v.pc = "done" /\ v.listing = w.listing /\ v.analysis = w.analysis
        /\ v.header = w.header /\ v.window = w.window /\ v.traffic = w.traffic
    BY <1>3, <2>1, PcMoves
  <2>3. HeaderInv(v) /\ ChoiceInv(v) /\ TrafficInv(v)
    BY <1>4, <2>2, PositiveWindow
       DEF HeaderInv, ChoiceInv, TrafficInv, Headerless, Unanalysed, Unlisted, Choosing
  <2>4. v.pc \in Places \ Unanalysed
    BY <2>2 DEF Places, Unanalysed, Unlisted
  <2>5. InspectionInv(v)
    BY <1>2, <1>3, <2>2, <2>3, <2>4, AnalysedGoesOn
  <2>6. Set(p, v)
    BY <1>5 DEF v
  <2> QED BY <1>1, <2>5, <2>6, OneMoves
<1>6. CASE Set(p, [Fresh EXCEPT !.pc = "failed", !.error = "variant"])
  BY <1>1, <1>6, FailedIsFine, OneMoves
<1>7. CASE Chosen(p) # {} /\ \E card \in {rev, None} : Set(p, [w EXCEPT !.pc = "header", !.card = card])
  <2>1. PICK card : Set(p, [w EXCEPT !.pc = "header", !.card = card])
    BY <1>7
  <2> DEFINE v == [w EXCEPT !.pc = "header", !.card = card]
  <2>2. Set(p, v)
    BY <2>1
  <2>3. ChosenOf(w) # {}
    BY <1>7 DEF Chosen, ChosenOf, FilesOf
  <2> HIDE DEF w
  <2>4. v \in [pc : {"header"}, listing : {w.listing}, analysis : {w.analysis}, card : {card},
               header : {w.header}, window : {w.window}, traffic : {w.traffic}, base : {w.base},
               merged : {w.merged}, error : {w.error}, artifact : {w.artifact}]
    BY <1>3 DEF Shaped
  <2> HIDE DEF v
  <2>5. /\ Shaped(v) /\ v.pc = "header" /\ v.listing = w.listing /\ v.analysis = w.analysis
        /\ v.header = w.header /\ v.window = w.window /\ v.traffic = w.traffic
    BY <2>4 DEF Shaped
  <2>6. HeaderInv(v) /\ ChoiceInv(v) /\ TrafficInv(v)
    BY <1>4, <2>3, <2>5, PositiveWindow DEF HeaderInv, ChoiceInv, ChosenOf, TrafficInv, Headerless
  <2>7. v.pc \in Places \ Unanalysed
    BY <2>5 DEF Places, Unanalysed, Unlisted
  <2>8. InspectionInv(v)
    BY <1>2, <1>3, <2>5, <2>6, <2>7, AnalysedGoesOn
  <2> QED BY <1>1, <2>2, <2>8, OneMoves
<1> QED BY <1>5, <1>6, <1>7 DEF Enrich

\* An inspection takes a header, or none, and a place after the reads.
LEMMA HeaderIsTaken ==
    ASSUME NEW w, InspectionInv(w), w.pc \notin Unanalysed,
           NEW v, Shaped(v), v.pc \in {"keep", "resolve", "done", "prepared"},
           v.listing = w.listing, v.analysis = w.analysis,
           v.header # None \/ v.pc = "keep" =>
               v.header \in Headers /\ (stamps => v.header.rev >= w.analysis.info),
           v.pc = "keep" => ChosenOf(w) # {},
           v.window \in Nat, v.traffic \in Nat, v.traffic < 2 * MaxWindow
    PROVE  InspectionInv(v)
<1>1. v.pc \in Places \ Unanalysed
  BY DEF Places, Unanalysed, Unlisted
<1>2. v.pc \notin Headerless
  BY DEF Headerless, Unanalysed, Unlisted
<1>3. HeaderInv(v) /\ ChoiceInv(v)
  BY <1>2 DEF HeaderInv, ChoiceInv, ChosenOf, Choosing
<1>4. TrafficInv(v)
  BY <1>2 DEF TrafficInv, Headerless
<1> QED BY <1>1, <1>3, <1>4, AnalysedGoesOn

LEMMA HeaderLookupKeeps ==
    ASSUME IInv, NEW p \in Inspectors, HeaderLookup(p)
    PROVE  IInv' /\ EntriesKept
<1> DEFINE w == insp[p]
           k == HeaderKey(w.analysis, TheVariant(p))
           cached == Served(hcache, k, ~stamps)
<1>1. w.pc = "header" /\ UNCHANGED <<Hub, acache, hcache>>
  BY DEF HeaderLookup, At
<1>2. w.pc \notin Unanalysed
  BY <1>1 DEF Unanalysed, Unlisted
<1>3. /\ InspectionInv(w) /\ Shaped(w) /\ HeaderInv(w) /\ ChoiceInv(w) /\ TrafficInv(w)
      /\ HubInv /\ w.analysis \in Analyses
  BY <1>2, AnalysisIsThere
<1>4. w.header = None /\ w.window = Initial /\ w.traffic = 0 /\ ChosenOf(w) # {}
  BY <1>1, <1>3 DEF HeaderInv, TrafficInv, ChoiceInv, Headerless, Choosing
<1>5. CASE cached = None
  <2> DEFINE v == [w EXCEPT !.pc = "fetch"]
  <2>1. v = [w EXCEPT !.pc = "fetch"] /\ Set(p, v)
    BY <1>5 DEF HeaderLookup
  <2> HIDE DEF v, w
  <2>2. /\ Shaped(v) /\ v.pc = "fetch" /\ v.listing = w.listing /\ v.analysis = w.analysis
        /\ v.header = w.header /\ v.window = w.window /\ v.traffic = w.traffic
    BY <1>3, <2>1, PcMoves
  <2>3. HeaderInv(v) /\ ChoiceInv(v) /\ TrafficInv(v)
    BY <1>4, <2>2, PositiveWindow DEF HeaderInv, ChoiceInv, ChosenOf, TrafficInv, Headerless
  <2>4. v.pc \in Places \ Unanalysed
    BY <2>2 DEF Places, Unanalysed, Unlisted
  <2>5. InspectionInv(v)
    BY <1>2, <1>3, <2>2, <2>3, <2>4, AnalysedGoesOn
  <2> QED BY <1>1, <2>1, <2>5, OneMoves
<1>6. CASE cached # None
  <2> DEFINE v == [w EXCEPT !.pc = "resolve", !.header = cached]
  <2>1. Set(p, v)
    BY <1>6 DEF HeaderLookup
  <2>2. k \in HeaderKeys /\ k[2] = IF stamps THEN w.analysis.info ELSE 0
    BY <1>3, <1>4, HeaderHasAKey
  <2>3. Readable(hcache[k]) /\ cached = hcache[k].value
    BY <1>6 DEF Served
  <2>4. cached \in Headers /\ (stamps => cached.rev >= w.analysis.info)
    BY <2>2, <2>3 DEF IInv, HeadersInv
  <2> HIDE DEF w, cached
  <2>5. v \in [pc : {"resolve"}, listing : {w.listing}, analysis : {w.analysis}, card : {w.card},
               header : {cached}, window : {w.window}, traffic : {w.traffic}, base : {w.base},
               merged : {w.merged}, error : {w.error}, artifact : {w.artifact}]
    BY <1>3 DEF Shaped
  <2> HIDE DEF v
  <2>6. /\ Shaped(v) /\ v.pc = "resolve" /\ v.listing = w.listing /\ v.analysis = w.analysis
        /\ v.header = cached /\ v.window = w.window /\ v.traffic = w.traffic
    BY <2>5 DEF Shaped
  <2>7. InspectionInv(v)
    BY <1>2, <1>3, <1>4, <2>4, <2>6, PositiveWindow, HeaderIsTaken
  <2> QED BY <1>1, <2>1, <2>7, OneMoves
<1> QED BY <1>5, <1>6

LEMMA FetchRangeKeeps ==
    ASSUME IInv, NEW p \in Inspectors, FetchRange(p)
    PROVE  IInv' /\ EntriesKept
<1> DEFINE w == insp[p]
           h == Fetched(p)
           read == w.traffic + w.window
<1>1. w.pc = "fetch" /\ UNCHANGED <<Hub, acache, hcache>>
  BY DEF FetchRange, At
<1>2. w.pc \notin Unanalysed
  BY <1>1 DEF Unanalysed, Unlisted
<1>3. /\ InspectionInv(w) /\ Shaped(w) /\ HeaderInv(w) /\ ChoiceInv(w) /\ TrafficInv(w)
      /\ HubInv /\ w.analysis \in Analyses /\ w.analysis.info <= rev
  BY <1>2, AnalysisIsThere
<1>4. /\ w.header = None /\ ChosenOf(w) # {}
      /\ w.window \in Nat /\ w.traffic \in Nat
      /\ w.window <= MaxWindow /\ w.traffic + Initial <= w.window
  BY <1>1, <1>3 DEF HeaderInv, TrafficInv, ChoiceInv, Headerless, Choosing
<1>5. read \in Nat /\ read < 2 * MaxWindow /\ read + Initial <= w.window + w.window
      /\ w.traffic < 2 * MaxWindow
  BY <1>4, PositiveWindow
<1>6. CASE Set(p, [w EXCEPT !.pc = "resolve"])
  <2> DEFINE v == [w EXCEPT !.pc = "resolve"]
  <2>1. v = [w EXCEPT !.pc = "resolve"] /\ Set(p, v)
    BY <1>6
  <2> HIDE DEF v, w
  <2>2. /\ Shaped(v) /\ v.pc = "resolve" /\ v.listing = w.listing /\ v.analysis = w.analysis
        /\ v.header = w.header /\ v.window = w.window /\ v.traffic = w.traffic
    BY <1>3, <2>1, PcMoves
  <2>3. InspectionInv(v)
    BY <1>2, <1>3, <1>4, <1>5, <2>2, HeaderIsTaken
  <2> QED BY <1>1, <2>1, <2>3, OneMoves
<1>7. CASE IsHeader(h) /\ Set(p, [w EXCEPT !.pc = "keep", !.header = h, !.traffic = read])
  <2> DEFINE v == [w EXCEPT !.pc = "keep", !.header = h, !.traffic = read]
  <2>1. Set(p, v)
    BY <1>7
  <2>2. h = ParseHeader(rev, w.window)
    BY <1>7 DEF Fetched, IsHeader
  <2>3. rev \in 1..MaxRev /\ content[rev] \in Contents
    BY <1>3 DEF HubInv
  <2>4. h \in Headers /\ h.rev = rev
    BY <1>7, <2>2, <2>3, HeadersAreRead
  <2> HIDE DEF w, h, read
  <2>5. v \in [pc : {"keep"}, listing : {w.listing}, analysis : {w.analysis}, card : {w.card},
               header : {h}, window : {w.window}, traffic : {read}, base : {w.base},
               merged : {w.merged}, error : {w.error}, artifact : {w.artifact}]
    BY <1>3 DEF Shaped
  <2> HIDE DEF v
  <2>6. /\ Shaped(v) /\ v.pc = "keep" /\ v.listing = w.listing /\ v.analysis = w.analysis
        /\ v.header = h /\ v.window = w.window /\ v.traffic = read
    BY <2>5 DEF Shaped
  <2>7. InspectionInv(v)
    BY <1>2, <1>3, <1>4, <1>5, <2>4, <2>6, HeaderIsTaken
  <2> QED BY <1>1, <2>1, <2>7, OneMoves
<1>8. CASE Grown(p) <= MaxWindow /\ Set(p, [w EXCEPT !.window = Grown(p), !.traffic = read])
  <2> DEFINE next == Grown(p)
             v == [w EXCEPT !.window = next, !.traffic = read]
  <2>1. Set(p, v)
    BY <1>8
  <2>2. next \in Nat /\ w.window + w.window <= next /\ next <= MaxWindow
    BY <1>4, <1>8, GrowthOutruns DEF Grown
  <2> HIDE DEF w, next, read
  <2>3. v \in [pc : {w.pc}, listing : {w.listing}, analysis : {w.analysis}, card : {w.card},
               header : {w.header}, window : {next}, traffic : {read}, base : {w.base},
               merged : {w.merged}, error : {w.error}, artifact : {w.artifact}]
    BY <1>3 DEF Shaped
  <2> HIDE DEF v
  <2>4. /\ Shaped(v) /\ v.pc = w.pc /\ v.listing = w.listing /\ v.analysis = w.analysis
        /\ v.header = w.header /\ v.window = next /\ v.traffic = read
    BY <2>3 DEF Shaped
  <2>5. HeaderInv(v) /\ ChoiceInv(v)
    BY <1>1, <1>4, <2>4 DEF HeaderInv, ChoiceInv, ChosenOf
  <2>6. read + Initial <= next
    BY <1>4, <1>5, <2>2, PositiveWindow
  <2>7. TrafficInv(v)
    BY <1>1, <1>5, <2>2, <2>4, <2>6 DEF TrafficInv
  <2>8. v.pc \in Places \ Unanalysed
    BY <1>1, <1>2, <2>4 DEF Places
  <2>9. InspectionInv(v)
    BY <1>2, <1>3, <2>4, <2>5, <2>7, <2>8, AnalysedGoesOn
  <2> QED BY <1>1, <2>1, <2>9, OneMoves
<1>9. CASE Set(p, [w EXCEPT !.pc = "resolve", !.traffic = read])
  <2> DEFINE v == [w EXCEPT !.pc = "resolve", !.traffic = read]
  <2>1. Set(p, v)
    BY <1>9
  <2> HIDE DEF w, read
  <2>2. v \in [pc : {"resolve"}, listing : {w.listing}, analysis : {w.analysis}, card : {w.card},
               header : {w.header}, window : {w.window}, traffic : {read}, base : {w.base},
               merged : {w.merged}, error : {w.error}, artifact : {w.artifact}]
    BY <1>3 DEF Shaped
  <2> HIDE DEF v
  <2>3. /\ Shaped(v) /\ v.pc = "resolve" /\ v.listing = w.listing /\ v.analysis = w.analysis
        /\ v.header = w.header /\ v.window = w.window /\ v.traffic = read
    BY <2>2 DEF Shaped
  <2>4. InspectionInv(v)
    BY <1>2, <1>3, <1>4, <1>5, <2>3, HeaderIsTaken
  <2> QED BY <1>1, <2>1, <2>4, OneMoves
<1>10. \/ Set(p, [w EXCEPT !.pc = "resolve"])
       \/ IsHeader(h) /\ Set(p, [w EXCEPT !.pc = "keep", !.header = h, !.traffic = read])
       \/ Grown(p) <= MaxWindow /\ Set(p, [w EXCEPT !.window = Grown(p), !.traffic = read])
       \/ Set(p, [w EXCEPT !.pc = "resolve", !.traffic = read])
  BY DEF FetchRange, GivesUp
<1> QED BY <1>6, <1>7, <1>8, <1>9, <1>10

\* A header is stored under its key.
LEMMA HeaderIsStored ==
    ASSUME IInv, UNCHANGED <<Hub, acache>>, NEW k \in HeaderKeys, NEW h \in Headers,
           h.rev >= k[2], hcache' = [hcache EXCEPT ![k] = Entry(h)], InspectionsInv'
    PROVE  IInv' /\ EntriesKept
<1>1. HubInv' /\ AnalysesInv'
      /\ \A j \in AnalysisKeys : Readable(acache[j]) => Readable(acache'[j])
  BY HubStands, AnalysesStand
<1>2. Readable(Entry(h)) /\ Entry(h).value = h
  BY EntriesAreReadable DEF IInv, HubInv
<1>3. PICK S : hcache \in [HeaderKeys -> S]
  BY DEF IInv, HeadersInv
<1>4. hcache' \in [HeaderKeys -> S \cup {Entry(h)}]
  BY <1>3
<1>5. \A j \in HeaderKeys : hcache'[j] = IF j = k THEN Entry(h) ELSE hcache[j]
  BY <1>3
<1>6. \A j \in HeaderKeys : Readable(hcache'[j]) =>
          hcache'[j].value \in Headers /\ hcache'[j].value.rev >= j[2]
  BY <1>2, <1>5 DEF IInv, HeadersInv
<1>7. HeadersInv'
  BY <1>4, <1>6 DEF HeadersInv, Readable
<1>8. EntriesKept
  BY <1>1, <1>2, <1>5 DEF EntriesKept
<1> QED BY <1>1, <1>7, <1>8 DEF IInv

LEMMA StoreHeaderKeeps ==
    ASSUME IInv, NEW p \in Inspectors, StoreHeader(p)
    PROVE  IInv' /\ EntriesKept
<1> DEFINE w == insp[p]
           k == HeaderKey(w.analysis, TheVariant(p))
           v == [w EXCEPT !.pc = "resolve"]
<1>1. w.pc = "keep" /\ UNCHANGED <<Hub, acache>> /\ UNCHANGED Hub
  BY DEF StoreHeader, At
<1>2. w.pc \notin Unanalysed
  BY <1>1 DEF Unanalysed, Unlisted
<1>3. /\ InspectionInv(w) /\ Shaped(w) /\ HeaderInv(w) /\ ChoiceInv(w) /\ TrafficInv(w)
      /\ HubInv /\ w.analysis \in Analyses
  BY <1>2, AnalysisIsThere
<1>4. /\ w.header \in Headers /\ (stamps => w.header.rev >= w.analysis.info)
      /\ ChosenOf(w) # {} /\ w.window \in Nat /\ w.traffic \in Nat /\ w.traffic < 2 * MaxWindow
  BY <1>1, <1>3 DEF HeaderInv, TrafficInv, ChoiceInv, Choosing
<1>5. InspectionInv(v)
  <2>1. v = [w EXCEPT !.pc = "resolve"]
    OBVIOUS
  <2> HIDE DEF v, w
  <2>2. /\ Shaped(v) /\ v.pc = "resolve" /\ v.listing = w.listing /\ v.analysis = w.analysis
        /\ v.header = w.header /\ v.window = w.window /\ v.traffic = w.traffic
    BY <1>3, <2>1, PcMoves
  <2> QED BY <1>2, <1>3, <1>4, <2>2, HeaderIsTaken
<1>6. InspectionInv(Died)
  BY FailedIsFine
<1>7. CASE /\ hcache' = [hcache EXCEPT ![k] = Entry(w.header)]
           /\ Set(p, v)
  <2>1. InspectionsInv'
    BY <1>1, <1>5, <1>7, InspectionMoves
  <2>2. k \in HeaderKeys /\ k[2] = IF stamps THEN w.analysis.info ELSE 0
    BY <1>3, <1>4, HeaderHasAKey
  <2>3. w.header.rev >= k[2]
    BY <1>3, <1>4, <2>2 DEF Headers, HubInv
  <2> HIDE DEF w, k, v
  <2> QED BY <1>1, <1>4, <1>7, <2>1, <2>2, <2>3, HeaderIsStored
<1>8. CASE (Set(p, v) \/ Set(p, Died)) /\ UNCHANGED hcache
  <2>1. UNCHANGED <<Hub, acache, hcache>>
    BY <1>1, <1>8
  <2> QED BY <1>5, <1>6, <1>8, <2>1, OneMoves
<1> QED BY <1>7, <1>8 DEF StoreHeader

LEMMA ResolveKeeps ==
    ASSUME IInv, NEW p \in Inspectors, Resolve(p)
    PROVE  IInv' /\ EntriesKept
<1> DEFINE w == insp[p]
<1>1. w.pc = "resolve" /\ UNCHANGED <<Hub, acache, hcache>>
  BY DEF Resolve, At
<1>2. w.pc \notin Unanalysed
  BY <1>1 DEF Unanalysed, Unlisted
<1>3. InspectionInv(w) /\ Shaped(w) /\ HeaderInv(w)
  BY <1>2, AnalysisIsThere
<1>4. PICK base, merged :
        Set(p, [w EXCEPT !.pc = "done", !.base = base, !.card = None, !.window = Initial,
                         !.traffic = 0, !.merged = merged])
  BY DEF Resolve
<1> DEFINE v == [w EXCEPT !.pc = "done", !.base = base, !.card = None, !.window = Initial,
                          !.traffic = 0, !.merged = merged]
<1>5. Set(p, v)
  BY <1>4
<1> HIDE DEF w
<1>6. v \in [pc : {"done"}, listing : {w.listing}, analysis : {w.analysis}, card : {None},
             header : {w.header}, window : {Initial}, traffic : {0}, base : {base},
             merged : {merged}, error : {w.error}, artifact : {w.artifact}]
  BY <1>3 DEF Shaped
<1> HIDE DEF v
<1>7. /\ Shaped(v) /\ v.pc = "done" /\ v.listing = w.listing /\ v.analysis = w.analysis
      /\ v.header = w.header /\ v.window = Initial /\ v.traffic = 0
  BY <1>6 DEF Shaped
<1>8. w.header # None => w.header \in Headers /\ (stamps => w.header.rev >= w.analysis.info)
  BY <1>3 DEF HeaderInv
<1>9. InspectionInv(v)
  BY <1>2, <1>3, <1>7, <1>8, PositiveWindow, HeaderIsTaken
<1> QED BY <1>1, <1>5, <1>9, OneMoves

LEMMA ResolveArtifactKeeps ==
    ASSUME IInv, NEW p \in Inspectors, ResolveArtifact(p)
    PROVE  IInv' /\ EntriesKept
<1> DEFINE w == insp[p]
<1>1. w.pc = "done" /\ UNCHANGED <<Hub, acache, hcache>>
  BY DEF ResolveArtifact, At
<1>2. w.pc \notin Unanalysed
  BY <1>1 DEF Unanalysed, Unlisted
<1>3. InspectionInv(w) /\ Shaped(w) /\ HeaderInv(w) /\ TrafficInv(w)
  BY <1>2, AnalysisIsThere
<1>4. \/ Set(p, [Fresh EXCEPT !.pc = "failed", !.error = "artifact"])
      \/ \E artifact : Set(p, [w EXCEPT !.pc = "prepared", !.artifact = artifact])
  BY DEF ResolveArtifact
<1>5. CASE Set(p, [Fresh EXCEPT !.pc = "failed", !.error = "artifact"])
  BY <1>1, <1>5, FailedIsFine, OneMoves
<1>6. CASE \E artifact : Set(p, [w EXCEPT !.pc = "prepared", !.artifact = artifact])
  <2>1. PICK artifact : Set(p, [w EXCEPT !.pc = "prepared", !.artifact = artifact])
    BY <1>6
  <2> DEFINE v == [w EXCEPT !.pc = "prepared", !.artifact = artifact]
  <2>2. Set(p, v)
    BY <2>1
  <2> HIDE DEF w
  <2>3. v \in [pc : {"prepared"}, listing : {w.listing}, analysis : {w.analysis}, card : {w.card},
               header : {w.header}, window : {w.window}, traffic : {w.traffic}, base : {w.base},
               merged : {w.merged}, error : {w.error}, artifact : {artifact}]
    BY <1>3 DEF Shaped
  <2> HIDE DEF v
  <2>4. /\ Shaped(v) /\ v.pc = "prepared" /\ v.listing = w.listing /\ v.analysis = w.analysis
        /\ v.header = w.header /\ v.window = w.window /\ v.traffic = w.traffic
    BY <2>3 DEF Shaped
  <2>5. /\ w.header # None => w.header \in Headers /\ (stamps => w.header.rev >= w.analysis.info)
        /\ w.window \in Nat /\ w.traffic \in Nat /\ w.traffic < 2 * MaxWindow
    BY <1>3 DEF HeaderInv, TrafficInv
  <2>6. InspectionInv(v)
    BY <1>2, <1>3, <2>4, <2>5, HeaderIsTaken
  <2> QED BY <1>1, <2>2, <2>6, OneMoves
<1> QED BY <1>4, <1>5, <1>6

\* A push and the passing of time make nothing older than it was.
LEMMA HubMoves ==
    ASSUME IInv, Push \/ Tick
    PROVE  IInv' /\ EntriesKept
<1>1. /\ rev' \in 1..MaxRev /\ rev <= rev' /\ rev \in Nat /\ rev' \in Nat
      /\ now' \in Nat /\ UNCHANGED <<content, stamps, acache, hcache, insp>>
  BY BoundAssumption DEF IInv, HubInv, Push, Tick
<1>2. HubInv' /\ HeadersInv' /\ EntriesKept
  BY <1>1 DEF IInv, HubInv, HeadersInv, EntriesKept, Readable
<1>3. AnalysesInv'
  BY <1>1 DEF IInv, HubInv, AnalysesInv, Readable, Analyses
<1>4. ASSUME NEW p \in Inspectors
      PROVE  InspectionInv(insp[p])'
  <2>1. InspectionInv(insp[p])
    BY DEF IInv, InspectionsInv
  <2>2. ListingInv(insp[p])'
    BY <1>1, <2>1 DEF InspectionInv, ListingInv
  <2>3. AnalysisInv(insp[p])'
    BY <1>1, <2>1 DEF InspectionInv, AnalysisInv, Analyses
  <2> QED BY <1>1, <2>1, <2>2, <2>3
          DEF InspectionInv, Shaped, HeaderInv, ChoiceInv, ChosenOf, TrafficInv
<1>5. InspectionsInv'
  BY <1>1, <1>4 DEF IInv, InspectionsInv
<1> QED BY <1>2, <1>3, <1>5 DEF IInv

LEMMA InitInv == Init => IInv
<1> SUFFICES ASSUME Init PROVE IInv
  OBVIOUS
<1>1. HubInv
  BY BoundAssumption DEF Init, HubInv
<1>2. AnalysesInv
  BY DEF Init, AnalysesInv, Readable
<1>3. HeadersInv
  BY DEF Init, HeadersInv, Readable
<1>4. InspectionsInv
  BY FailedIsFine DEF Init, InspectionsInv
<1> QED BY <1>1, <1>2, <1>3, <1>4 DEF IInv

LEMMA StepInv == IInv /\ [Next]_vars => IInv' /\ EntriesKept
<1> SUFFICES ASSUME IInv, [Next]_vars PROVE IInv' /\ EntriesKept
  OBVIOUS
<1>1. CASE UNCHANGED vars
  <2>1. UNCHANGED Hub /\ UNCHANGED <<Hub, acache>> /\ UNCHANGED <<Hub, hcache>> /\ insp' = insp
    BY <1>1 DEF vars, Hub
  <2>2. HubInv' /\ AnalysesInv' /\ HeadersInv' /\ EntriesKept
    BY <2>1, HubStands, AnalysesStand, HeadersStand DEF EntriesKept
  <2>3. InspectionsInv'
    BY <2>1, InspectionsStand
  <2> QED BY <2>2, <2>3 DEF IInv
<1>2. CASE Finished
  BY <1>1, <1>2 DEF Finished
<1>3. CASE Push \/ Tick
  BY <1>3, HubMoves
<1>4. ASSUME NEW p \in Inspectors, Step(p)
      PROVE  IInv' /\ EntriesKept
  <2>1. CASE List(p)
    BY <2>1, ListKeeps
  <2>2. CASE Lookup(p)
    BY <2>2, LookupKeeps
  <2>3. CASE ModelInfo(p)
    BY <2>3, ModelInfoKeeps
  <2>4. CASE Analyze(p)
    BY <2>4, AnalyzeKeeps
  <2>5. CASE StoreAnalysis(p)
    BY <2>5, StoreAnalysisKeeps
  <2>6. CASE Enrich(p)
    BY <2>6, EnrichKeeps
  <2>7. CASE HeaderLookup(p)
    BY <2>7, HeaderLookupKeeps
  <2>8. CASE FetchRange(p)
    BY <2>8, FetchRangeKeeps
  <2>9. CASE StoreHeader(p)
    BY <2>9, StoreHeaderKeeps
  <2>10. CASE Resolve(p)
    BY <2>10, ResolveKeeps
  <2>11. CASE ResolveArtifact(p)
    BY <2>11, ResolveArtifactKeeps
  <2> QED BY <1>4, <2>1, <2>2, <2>3, <2>4, <2>5, <2>6, <2>7, <2>8, <2>9, <2>10, <2>11 DEF Step
<1> QED BY <1>1, <1>2, <1>3, <1>4 DEF Next

LEMMA Invariance == Spec => []IInv
<1>1. IInv /\ [Next]_vars => IInv'
  BY StepInv
<1> QED BY InitInv, <1>1, PTL DEF Spec

-----------------------------------------------------------------------------
(* Theorems.                                                               *)

\* What an inspection goes on with is never older than what was listed, although the
\* repository is pushed to between any two of its requests and the caches are shared:
\* an entry is never older than the revision its key names (model_analysis_cache.py,
\* gguf_header_cache.py).
THEOREM AnswersStayCurrent == Spec => []AnswersAreCurrent
<1>1. IInv => AnswersAreCurrent
  <2> SUFFICES ASSUME IInv PROVE AnswersAreCurrent
    OBVIOUS
  <2>1. ASSUME NEW p \in Inspectors
        PROVE  InspectionInv(insp[p])
    BY DEF IInv, InspectionsInv
  <2>2. ServedIsFresh
    BY <2>1 DEF ServedIsFresh, InspectionInv, AnalysisInv
  <2>3. HeaderNotOlderThanAnalysis
    BY <2>1 DEF HeaderNotOlderThanAnalysis, InspectionInv, HeaderInv
  <2> QED BY <2>2, <2>3 DEF AnswersAreCurrent
<1> QED BY <1>1, Invariance, PTL

\* No step of any inspection, and no death between the write and the replacement, takes
\* away an entry that could be read (_write_atomic of both caches).
THEOREM EntriesAreNeverTorn == Spec => EntriesStayReadable
<1>1. IInv /\ [Next]_vars => EntriesKept
  BY StepInv
<1>2. EntriesKept => [ /\ \A k \in AnalysisKeys : Readable(acache[k]) => Readable(acache'[k])
                       /\ \A k \in HeaderKeys : Readable(hcache[k]) => Readable(hcache'[k]) ]_vars
  BY DEF EntriesKept
<1> QED BY <1>1, <1>2, Invariance, PTL DEF Spec, EntriesStayReadable

\* fetch_gguf_header reads less than twice its budget, for every first window and every
\* factor it grows by.
THEOREM HeadersAreCheap == Spec => []HeaderTrafficBounded
<1>1. IInv => HeaderTrafficBounded
  BY DEF IInv, InspectionsInv, InspectionInv, TrafficInv, HeaderTrafficBounded
<1> QED BY <1>1, Invariance, PTL

=============================================================================
