-------------------------- MODULE ModelInspection --------------------------
(***************************************************************************)
(* The inspection of a repository on the Hub: the listing a search gave,   *)
(* the persistent cache of analyses, the classification of the files, the  *)
(* selection of a GGUF variant, the windowed read of its header and its    *)
(* cache, the resolution of the base model and the merged configuration    *)
(* the memory estimate starts from.  Several inspections share the caches  *)
(* while the repository is pushed to: every request reads the head of the  *)
(* moment, the caches are keyed by the revision of an earlier request.     *)
(***************************************************************************)
EXTENDS Naturals, FiniteSets, FiniteSetsExt, Sequences, TLC

CONSTANTS
    Inspectors,   \* threads or processes inspecting the same repository
    Contents,     \* what a revision may hold: files, header, card
    StampKinds,   \* "revision", "last_modified": what a listing is stamped by
    BaseConfig,   \* the fields the configuration of the base model states
    MaxRev,       \* bound: revisions pushed
    MaxNow, Ttl,  \* bound on the clock; lifetime of an unstamped entry
    Initial,      \* INITIAL_HEADER_RANGE_BYTES, in units of the layouts
    Growth,       \* RANGE_GROWTH_FACTOR
    MaxWindow,    \* MAX_HEADER_DOWNLOAD_BYTES
    None,         \* no value
    Absent, Unreadable,     \* a cache file that is not there, or unusable
    NotGguf, Incomplete     \* a header that cannot be read, or not yet

ASSUME WindowAssumption ==
    /\ Initial \in Nat \ {0} /\ Growth \in Nat \ {0, 1}
    /\ MaxWindow \in Nat /\ Initial <= MaxWindow
ASSUME BoundAssumption == MaxRev \in Nat \ {0} /\ MaxNow \in Nat /\ Ttl \in Nat
ASSUME StampAssumption == "ttl" \notin StampKinds

\* What the caches hold, once read.
Analyses == [info : 1..MaxRev, config : {None} \cup (1..MaxRev)]
Headers == [rev : 1..MaxRev, keys : SUBSET STRING, complete : BOOLEAN]

ASSUME ContentAssumption ==
    \A c \in Contents : \A i \in 1..Len(c.layout) : c.layout[i].key \in STRING
ASSUME EntryAssumption ==
    \A e \in {Absent, Unreadable} : e \notin [at : Nat, value : Analyses \cup Headers]

VARIABLES
    rev,        \* head revision of the repository
    content,    \* what each revision holds
    stamps,     \* whether the Hub states revisions and dates
    now,
    acache,     \* model_analysis_cache: file of each key
    hcache,     \* gguf_header_cache: file of each key
    insp        \* each inspection: its place and its local variables

vars == <<rev, content, stamps, now, acache, hcache, insp>>

-----------------------------------------------------------------------------
(* Files and variants.  A file is [quant, dir, base, index, count, aux,     *)
(* size]; index 0 is a whole file, size 0 an unknown one.                   *)

DefaultQuant == 2       \* the rank of Q4_K_M among the quantization names

GroupKey(f) == <<f.quant, f.dir, f.base, f.count>>

Complete(group) ==
    LET split == {f \in group : f.index > 0}
        n     == (CHOOSE f \in group : TRUE).count
    IN  split = {} \/ {f.index : f \in split} = 1..n

Variant(group) ==
    [quant    |-> (CHOOSE f \in group : TRUE).quant,
     files    |-> group,
     split    |-> \E f \in group : f.index > 0,
     complete |-> Complete(group),
     total    |-> IF Complete(group) /\ \A f \in group : f.size > 0
                  THEN MapThenSumSet(LAMBDA f : f.size, group) ELSE 0]

GroupVariants(files) ==
    LET gguf == {f \in files : f.kind = "gguf" /\ ~f.aux}
    IN  {Variant({f \in gguf : GroupKey(f) = k}) : k \in {GroupKey(f) : f \in gguf}}

RepositoryType(files) ==
    LET has(k) == \E f \in files : f.kind = k
    IN  IF has("adapter_config") THEN "adapter"
        ELSE IF has("config") /\ has("safetensors") THEN "transformers"
        ELSE IF has("model_index") THEN "diffusers"
        ELSE IF has("gguf") THEN "gguf"
        ELSE IF has("onnx") THEN "onnx" ELSE "unknown"

UniqueRepresentation(variants) ==
    LET complete   == {v \in variants : v.complete}
        whole      == {v \in complete : ~v.split /\ Cardinality(v.files) = 1}
        candidates == IF whole # {} THEN whole ELSE complete
    IN  IF Cardinality(candidates) = 1 THEN candidates ELSE {}

OfQuant(variants, q) == {v \in variants : v.quant = q}

PreferredVariants(variants) ==
    UNION {UniqueRepresentation(OfQuant(variants, v.quant)) : v \in variants}

SmallerVariant(v, w) ==
    \/ v.total > 0 /\ w.total = 0
    \/ (v.total > 0) = (w.total > 0) /\ (v.total < w.total \/ (v.total = w.total /\ v.quant < w.quant))

\* The set holds the variant chosen, or nothing where the code raises.
SelectVariant(variants, requested) ==
    IF requested # None THEN UniqueRepresentation(OfQuant(variants, requested))
    ELSE IF OfQuant(variants, DefaultQuant) # {}
    THEN UniqueRepresentation(OfQuant(variants, DefaultQuant))
    ELSE LET ordered == PreferredVariants(variants)
         IN  {v \in ordered : Cardinality({w \in ordered : SmallerVariant(w, v)})
                                = Cardinality(ordered) \div 2}

FirstShard(v) == CHOOSE f \in v.files : \A g \in v.files : f.index <= g.index

-----------------------------------------------------------------------------
(* The header.  A layout is a sequence of [key, size], the first unit of a  *)
(* field its name; a window of n units holds the fields that end within it. *)

EstimateKeys == {"context_length", "embedding_length", "block_count", "head_count", "head_count_kv"}

EndOf(layout, i) == MapThenSumSet(LAMBDA j : layout[j].size, 1..i)

KeysWithin(layout, n) == {layout[i].key : i \in {j \in 1..Len(layout) : EndOf(layout, j) <= n}}

\* The field whose value the window cuts; a cut of its name names no field.
Reading(layout, n) ==
    {layout[i].key : i \in {j \in 1..Len(layout) :
        EndOf(layout, j - 1) < n /\ n < EndOf(layout, j)}}

\* Mutant of HasEstimateKeys: the sizes are enough without the attention.
HasSizeKeys(keys) == {"architecture", "context_length", "embedding_length", "block_count"} \subseteq keys

HasEstimateKeys(keys) == "architecture" \in keys /\ EstimateKeys \subseteq keys

HeaderOf(r, keys, complete) == [rev |-> r, keys |-> keys, complete |-> complete]

\* parse_header on the first n units of the file at revision r.
ParseHeader(r, n) ==
    LET c == content[r]
        keys == KeysWithin(c.layout, n)
    IN  IF ~c.magic THEN NotGguf
        ELSE IF n >= EndOf(c.layout, Len(c.layout)) THEN HeaderOf(r, keys, TRUE)
        ELSE IF Reading(c.layout, n) = {"tokenizer"} /\ HasEstimateKeys(keys)
             THEN HeaderOf(r, keys, FALSE)
        ELSE Incomplete

IsHeader(x) == x \notin {None, NotGguf, Incomplete}

-----------------------------------------------------------------------------
(* The two caches: an entry is absent, unreadable (another schema, damaged  *)
(* by hand, truncated) or holds what was put and when.                      *)

Entry(value) == [at |-> now, value |-> value]
Readable(e) == e \notin {Absent, Unreadable}

\* Mutant of AnalysisKey: the key forgets the stamp.
AnalysisKeyByRepo(listing) == <<"ttl", 0>>

AnalysisKey(listing) ==
    IF listing.kind = "ttl" THEN <<"ttl", 0>> ELSE <<listing.kind, listing.rev>>

AnalysisKeys == {<<"ttl", 0>>} \cup (StampKinds \X (1..MaxRev))

HeaderKey(analysis, v) ==
    <<FirstShard(v), IF stamps THEN analysis.info ELSE 0>>

AllVariants == UNION {GroupVariants(c.files) : c \in Contents}
HeaderKeys == {FirstShard(v) : v \in AllVariants} \X (0..MaxRev)

IsExpired(e) == now - e.at > Ttl

\* get of both caches: only an entry of an unstamped key expires.
Served(cache, key, unstamped) ==
    IF Readable(cache[key]) /\ ~(unstamped /\ IsExpired(cache[key])) THEN cache[key].value ELSE None

-----------------------------------------------------------------------------
Fresh == [pc |-> "idle", listing |-> None, analysis |-> None, card |-> None,
          header |-> None, window |-> Initial, traffic |-> 0, base |-> None, merged |-> None,
          error |-> None, artifact |-> None]

Init ==
    /\ rev = 1
    /\ content \in [1..MaxRev -> Contents]
    /\ stamps \in BOOLEAN
    /\ now = 0
    /\ acache = [k \in AnalysisKeys |-> Absent]
    /\ hcache = [k \in HeaderKeys |-> Unreadable]      \* left by another version
    /\ insp = [p \in Inspectors |-> Fresh]

Died == [Fresh EXCEPT !.pc = "failed"]
At(p, label) == insp[p].pc = label
Set(p, rec) == insp' = [insp EXCEPT ![p] = rec]
Hub == <<rev, content, stamps, now>>

\* The Hub's own moves: a push to the repository, and time (which only an
\* unstamped entry is judged by).
Push == rev < MaxRev /\ rev' = rev + 1 /\ UNCHANGED <<content, stamps, now, acache, hcache, insp>>
Tick == ~stamps /\ now < MaxNow /\ now' = now + 1 /\ UNCHANGED <<rev, content, stamps, acache, hcache, insp>>

\* A search lists the repository, with the stamps of the moment.
List(p) ==
    /\ At(p, "idle")
    /\ \E kind \in IF stamps THEN StampKinds ELSE {"ttl"} :
         Set(p, [Fresh EXCEPT !.pc = "lookup", !.listing = [kind |-> kind, rev |-> rev]])
    /\ UNCHANGED <<Hub, acache, hcache>>

Lookup(p) ==
    /\ At(p, "lookup")
    /\ LET l == insp[p].listing
           cached == Served(acache, AnalysisKey(l), l.kind = "ttl")
       IN  Set(p, IF cached = None THEN [insp[p] EXCEPT !.pc = "inspect"]
                  ELSE [insp[p] EXCEPT !.pc = "enrich", !.analysis = cached])
    /\ UNCHANGED <<Hub, acache, hcache>>

\* What the Hub's library raises, as the client reports it.
HubErrors == [gated |-> "denied", http_403 |-> "denied", repository_missing |-> "not_found",
              http_404 |-> "not_found", http_500 |-> "unavailable", offline |-> "unavailable"]

ModelInfo(p) ==
    /\ At(p, "inspect")
    /\ \/ Set(p, [insp[p] EXCEPT !.pc = "analyze", !.analysis = [info |-> rev, config |-> None]])
       \/ \E e \in DOMAIN HubErrors : Set(p, [Fresh EXCEPT !.pc = "failed", !.error = HubErrors[e]])
    /\ UNCHANGED <<Hub, acache, hcache>>

\* The analyzer of the repository's type: only Transformers repositories
\* have a configuration to read, and failing to read it is a warning.
Analyze(p) ==
    /\ At(p, "analyze")
    /\ LET type == RepositoryType(content[insp[p].analysis.info].files)
       IN  \/ type = "transformers" /\ Set(p, [insp[p] EXCEPT !.pc = "store", !.analysis.config = rev])
           \/ Set(p, [insp[p] EXCEPT !.pc = "store"])
    /\ UNCHANGED <<Hub, acache, hcache>>

\* Mutant of StoreAnalysis: the entry is written where it is read.
StoreAnalysisInPlace(p) ==
    /\ At(p, "store")
    /\ \/ /\ acache' = [acache EXCEPT ![AnalysisKey(insp[p].listing)] = Entry(insp[p].analysis)]
          /\ Set(p, [insp[p] EXCEPT !.pc = "enrich"])
       \/ /\ acache' = [acache EXCEPT ![AnalysisKey(insp[p].listing)] = Unreadable]
          /\ Set(p, Died)
    /\ UNCHANGED <<Hub, hcache>>

\* put: _write_atomic fills a temporary file nobody reads and replaces the
\* entry with it.  The write may fail, or the process die before replacing.
StoreAnalysis(p) ==
    /\ At(p, "store")
    /\ \/ /\ acache' = [acache EXCEPT ![AnalysisKey(insp[p].listing)] = Entry(insp[p].analysis)]
          /\ Set(p, [insp[p] EXCEPT !.pc = "enrich"])
       \/ Set(p, [insp[p] EXCEPT !.pc = "enrich"]) /\ UNCHANGED acache
       \/ Set(p, Died) /\ UNCHANGED acache
    /\ UNCHANGED <<Hub, hcache>>

-----------------------------------------------------------------------------
(* The estimate of the analysis: metadata/service.enrich.                   *)

FilesOf(p) == content[insp[p].analysis.info].files
Chosen(p) == SelectVariant(GroupVariants(FilesOf(p)), None)

\* A GGUF repository whose files leave no unambiguous variant has no
\* estimate; another type has nothing to enrich.
Enrich(p) ==
    /\ At(p, "enrich")
    /\ \/ /\ RepositoryType(FilesOf(p)) # "gguf"
          /\ Set(p, [insp[p] EXCEPT !.pc = "done"])
       \/ /\ RepositoryType(FilesOf(p)) = "gguf" /\ Chosen(p) = {}
          /\ Set(p, [Fresh EXCEPT !.pc = "failed", !.error = "variant"])
       \/ /\ RepositoryType(FilesOf(p)) = "gguf" /\ Chosen(p) # {}
          /\ \E card \in {rev, None} : Set(p, [insp[p] EXCEPT !.pc = "header", !.card = card])
    /\ UNCHANGED <<Hub, acache, hcache>>

TheVariant(p) == CHOOSE v \in Chosen(p) : TRUE

HeaderLookup(p) ==
    /\ At(p, "header")
    /\ LET cached == Served(hcache, HeaderKey(insp[p].analysis, TheVariant(p)), ~stamps)
       IN  Set(p, IF cached = None THEN [insp[p] EXCEPT !.pc = "fetch"]
                  ELSE [insp[p] EXCEPT !.pc = "resolve", !.header = cached])
    /\ UNCHANGED <<Hub, acache, hcache>>

\* One request of fetch_gguf_header.  The address names no revision: the
\* head answers, or nothing when the file is gone from it.
Fetched(p) ==
    IF FirstShard(TheVariant(p)) \in content[rev].files
    THEN ParseHeader(rev, insp[p].window) ELSE None

GivesUp(p) == [insp[p] EXCEPT !.pc = "resolve", !.traffic = @ + insp[p].window]
Grown(p) == insp[p].window * Growth

FetchRange(p) ==
    /\ At(p, "fetch")
    /\ \/ Set(p, [insp[p] EXCEPT !.pc = "resolve"])            \* timeout, error, status
       \/ \E honored \in BOOLEAN :
            LET h == Fetched(p)
            IN  Set(p, IF IsHeader(h)
                       THEN [insp[p] EXCEPT !.pc = "keep", !.header = h, !.traffic = @ + insp[p].window]
                       ELSE IF h = Incomplete /\ honored /\ Grown(p) <= MaxWindow
                       THEN [insp[p] EXCEPT !.window = Grown(p), !.traffic = @ + insp[p].window]
                       ELSE GivesUp(p))
    /\ UNCHANGED <<Hub, acache, hcache>>

StoreHeader(p) ==
    /\ At(p, "keep")
    /\ \/ /\ hcache' = [hcache EXCEPT ![HeaderKey(insp[p].analysis, TheVariant(p))] = Entry(insp[p].header)]
          /\ Set(p, [insp[p] EXCEPT !.pc = "resolve"])
       \/ Set(p, [insp[p] EXCEPT !.pc = "resolve"]) /\ UNCHANGED hcache
       \/ Set(p, Died) /\ UNCHANGED hcache
    /\ UNCHANGED <<Hub, acache>>

-----------------------------------------------------------------------------
(* The base model and the merged configuration.                             *)

CardOf(p) == IF insp[p].card = None THEN [bases |-> {}, url |-> FALSE] ELSE content[insp[p].card].card

\* base_model of the card, then the header, then a link of the card.
ResolveBaseModel(p) ==
    LET card == CardOf(p)
        h    == insp[p].header
    IN  IF Cardinality(card.bases) = 1 THEN "card"
        ELSE IF Cardinality(card.bases) > 1 THEN "ambiguous"
        ELSE IF h # None /\ "source" \in h.keys THEN "header"
        ELSE IF card.url THEN "link" ELSE None

\* The header's key of each field both sources may state.
MergedFields == [max_position_embeddings |-> "context_length", hidden_size |-> "embedding_length",
                 num_hidden_layers |-> "block_count", num_attention_heads |-> "head_count",
                 num_key_value_heads |-> "head_count_kv", head_dim |-> "key_length"]

\* _model_config_from_dict of the base model's config.json.
StatedByBase(field) == field \in BaseConfig

Pick(header, base, field) ==
    IF header # None /\ MergedFields[field] \in header.keys THEN "header"
    ELSE IF base # None /\ StatedByBase(field) THEN "base" ELSE None

\* head_dim falls back to hidden_size // num_attention_heads.
MergeConfig(header, base) ==
    IF header = None /\ base = None THEN None
    ELSE [f \in DOMAIN MergedFields |->
            IF f = "head_dim" /\ Pick(header, base, f) = None
            THEN "derived" ELSE Pick(header, base, f)]

\* _fetch_base_config leaves a warning and no configuration when it fails;
\* the merged configuration ends the enrichment.
Resolve(p) ==
    /\ At(p, "resolve")
    /\ \E got \in IF ResolveBaseModel(p) \in {"card", "header", "link"} THEN BOOLEAN ELSE {FALSE} :
         LET base == IF got THEN ResolveBaseModel(p) ELSE None
         IN  Set(p, [insp[p] EXCEPT !.pc = "done", !.base = base, !.card = None, !.window = Initial,
                                    !.traffic = 0,
                                    !.merged = MergeConfig(insp[p].header, base)])
    /\ UNCHANGED <<Hub, acache, hcache>>

-----------------------------------------------------------------------------
\* HuggingFaceArtifactResolver.resolve, for the quantization estimated: the
\* files of the head are classified again and only a single file is taken.
ResolveArtifact(p) ==
    /\ At(p, "done") /\ insp[p].merged # None
    /\ LET choice == SelectVariant(GroupVariants(content[rev].files), TheVariant(p).quant)
           single == {v \in choice : Cardinality(v.files) = 1}
       IN  IF single = {} THEN Set(p, [Fresh EXCEPT !.pc = "failed", !.error = "artifact"])
           ELSE \E v \in single : Set(p, [insp[p] EXCEPT !.pc = "prepared", !.artifact = [rev |-> rev, file |-> FirstShard(v)]])
    /\ UNCHANGED <<Hub, acache, hcache>>

\* Every inspection has ended, and time and the Hub stand still.
Finished ==
    /\ \A p \in Inspectors : insp[p].pc \in {"done", "prepared", "failed"}
    /\ UNCHANGED vars

Step(p) ==
    \/ List(p) \/ Lookup(p) \/ ModelInfo(p) \/ Analyze(p) \/ StoreAnalysis(p)
    \/ Enrich(p) \/ HeaderLookup(p) \/ FetchRange(p) \/ StoreHeader(p)
    \/ Resolve(p) \/ ResolveArtifact(p)

Next == Push \/ Tick \/ (\E p \in Inspectors : Step(p)) \/ Finished

Spec == Init /\ [][Next]_vars

-----------------------------------------------------------------------------
(* Properties.                                                              *)

\* The analysis an inspection goes on with is never older than the listing
\* it was asked for: a stamped entry was read at that revision or later,
\* whatever is pushed between listing, reading and storing, and whoever
\* stored it (model_analysis_cache.py).
ServedIsFresh ==
    \A p \in Inspectors :
        (insp[p].analysis # None /\ stamps) => insp[p].analysis.info >= insp[p].listing.rev

\* The header an estimate uses with a stamped analysis is that of the same
\* revision or a later one, never of the file it replaced, although the
\* header cache is keyed by the analysis and filled from the head.
HeaderNotOlderThanAnalysis ==
    \A p \in Inspectors :
        (insp[p].header # None /\ stamps) => insp[p].header.rev >= insp[p].analysis.info

\* A header read in part gives the estimate each of the five attention and
\* size fields from the file itself, as the whole header would have.
PartialHeaderSuffices ==
    \A p \in Inspectors :
        (insp[p].merged # None /\ insp[p].header # None) =>
            \A f \in DOMAIN MergedFields \ {"head_dim"} :
                (\E i \in 1..Len(content[insp[p].header.rev].layout) :
                    content[insp[p].header.rev].layout[i].key = MergedFields[f])
                => insp[p].merged[f] = "header"

\* A header costs less than twice the budget, however often the window had
\* to grow and whatever the server answers.
HeaderTrafficBounded ==
    \A p \in Inspectors : insp[p].traffic < 2 * MaxWindow

\* The variant an estimate is made for can be loaded: one file, or every
\* part of one set exactly once, and no other complete artifact of the kind
\* contends for its quantization.
SelectionIsLoadable ==
    \A p \in Inspectors : insp[p].pc \in {"header", "fetch"} =>
        LET v == TheVariant(p)
            n == Cardinality(v.files)
        IN  /\ Cardinality(Chosen(p)) = 1
            /\ \/ n = 1 /\ \A f \in v.files : f.index = 0
               \/ {f.index : f \in v.files} = 1..n /\ \A f \in v.files : f.count = n

\* A cache file that could be read can still be read after every step: no
\* crash and no concurrent writer leaves half an entry.
EntriesStayReadable ==
    [][ /\ \A k \in AnalysisKeys : Readable(acache[k]) => Readable(acache'[k])
        /\ \A k \in HeaderKeys : Readable(hcache[k]) => Readable(hcache'[k]) ]_vars

\* Neither the analysis nor the header is older than what was listed.
AnswersAreCurrent == ServedIsFresh /\ HeaderNotOlderThanAnalysis

\* What is concluded from a part of the repository holds of the whole, at a bounded cost.
PartSuffices == PartialHeaderSuffices /\ HeaderTrafficBounded /\ SelectionIsLoadable
=============================================================================
