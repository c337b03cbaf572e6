---------------------------- MODULE PayloadCodec ----------------------------
(***************************************************************************)
(* Structural content-addressed storage (internal/archive/cas.go):          *)
(* CompactPayload splits a payload into a manifest and blobs,               *)
(* ExpandPayload puts it together again, nestedBlobRefs tells the garbage   *)
(* collector what a manifest needs and payloadBlobReferences the exporter's *)
(* prefetch.                                                                *)
(*                                                                         *)
(* A JSON value is a tagged record:                                         *)
(*   [num |-> n]                            a number                        *)
(*   [text |-> bytes]                       a string                        *)
(*   [url |-> bytes, media, params]         a base64 data: URL              *)
(*   [node |-> f]                           an object or an array           *)
(*   [ref |-> blob, encoding, media]        a $cpa_blob object              *)
(* A blob is its content, [bytes |-> b] or [json |-> value]: its SHA-256    *)
(* names it, so equal contents are one blob whoever stored them.            *)
(***************************************************************************)
EXTENDS Integers, FiniteSets, SequencesExt

CONSTANTS Slots,        \* rows of the records table
          Inputs,       \* the payloads they may be given
          Length,       \* bytes -> length of a string with that content
          Quoted,       \* bytes that are themselves JSON text -> the value they denote
          NoiseKeys,    \* encrypted_content and the internal passthrough metadata
          Inline,       \* inlineThreshold
          Subtree,      \* subtreeThreshold
          RefSize,      \* size of a $cpa_blob object
          MaxPuts,      \* bound: rows written
          Mantissa      \* bits of a float64's significand: 53, scaled down

ASSUME CodecAssumption ==
    /\ Inline \in Nat /\ RefSize \in Nat /\ RefSize < Subtree
    /\ Mantissa \in Nat \ {0} /\ MaxPuts \in Nat
    /\ Length \in [DOMAIN Length -> Nat]
    /\ DOMAIN Quoted \subseteq DOMAIN Length

VARIABLES given,      \* the payload each row was given, or Nothing
          refs,       \* the manifest each row names, or Nothing
          table,      \* the blobs table
          puts        \* rows written so far

vars == <<given, refs, table, puts>>

Nothing == [nothing |-> TRUE]
Has(v, tag) == tag \in DOMAIN v
Sum(f) == FoldFunction(+, 0, f)

\* The length of the JSON text of a value.
RECURSIVE Size(_)
Size(v) ==
    CASE Has(v, "num")  -> 1
      [] Has(v, "text") -> Length[v.text]
      [] Has(v, "ref")  -> RefSize
      [] Has(v, "node") -> 1 + Sum([k \in DOMAIN v.node |-> Size(v.node[k])])

Ref(blob, encoding, media) == [ref |-> blob, encoding |-> encoding, media |-> media]
Compacted(v, bs) == [value |-> v, blobs |-> bs]

-----------------------------------------------------------------------------
\* A string is replaced when it is long, a data: URL always; of the URL's header
\* only the media type is kept.
CompactString(v) ==
    IF Has(v, "url")
    THEN Compacted(Ref([bytes |-> v.url], "data-url", v.media), {[bytes |-> v.url]})
    ELSE IF Length[v.text] < Inline
    THEN Compacted(v, {})
    ELSE Compacted(Ref([bytes |-> v.text], "utf8", "text/plain"), {[bytes |-> v.text]})

\* A subtree that is large once its own parts are out is replaced, the root never.
MaybeExternalize(c, depth) ==
    IF depth = 0 \/ Size(c.value) < Subtree THEN c
    ELSE Compacted(Ref([json |-> c.value], "json", "application/json"), c.blobs \cup {[json |-> c.value]})

RECURSIVE CompactValue(_, _)
CompactValue(v, depth) ==
    CASE Has(v, "num") -> Compacted(v, {})
      [] Has(v, "text") \/ Has(v, "url") -> CompactString(v)
      [] Has(v, "node") ->
            LET parts == [k \in DOMAIN v.node \ NoiseKeys |-> CompactValue(v.node[k], depth + 1)]
            IN  MaybeExternalize(
                    Compacted([node |-> [k \in DOMAIN parts |-> parts[k].value]],
                              UNION {parts[k].blobs : k \in DOMAIN parts}), depth)

\* A payload is JSON text [first |-> value, more |-> whether anything follows],
\* a completed event stream [stream |-> bytes, last |-> its last event], or other
\* bytes [other |-> bytes].  The decoder reads one value and no further.
CompactPayload(p) ==
    CASE Has(p, "stream") -> CompactValue(p.last, 0)
      [] Has(p, "first")  -> CompactValue(p.first, 0)
      [] Has(p, "other")  -> Compacted(Ref([bytes |-> p.other], "raw", ""), {[bytes |-> p.other]})

\* putPayload: the manifest is a blob too.
Manifest(p) == [json |-> CompactPayload(p).value]
Stored(p) == CompactPayload(p).blobs \cup {Manifest(p)}

-----------------------------------------------------------------------------
\* json.Unmarshal into an any: the nearest float64, ties to even.
Float64(n) ==
    LET unit == CHOOSE u \in {2^k : k \in 0..n} : n < u * 2^Mantissa /\ (u = 1 \/ n >= (u \div 2) * 2^Mantissa)
        q == n \div unit
        r == n % unit
    IN  IF 2 * r > unit \/ (2 * r = unit /\ q % 2 = 1) THEN (q + 1) * unit ELSE q * unit

\* What a reference to a blob of bytes denotes.
Expanded(v) ==
    CASE v.encoding = "raw"  -> [other |-> v.ref.bytes]
      [] v.encoding = "utf8" -> [text |-> v.ref.bytes]
      [] v.encoding = "data-url" -> [url |-> v.ref.bytes, media |-> v.media, params |-> FALSE]

\* expandValue; Nothing where a blob is missing, which is an error.
RECURSIVE ExpandValue(_, _)
ExpandValue(v, blobs) ==
    CASE Has(v, "num")  -> [num |-> Float64(v.num)]
      [] Has(v, "text") -> v
      [] Has(v, "ref")  ->
            IF v.ref \notin blobs THEN Nothing
            ELSE IF v.encoding = "json" THEN ExpandValue(v.ref.json, blobs)
            ELSE Expanded(v)
      [] Has(v, "node") -> [node |-> [k \in DOMAIN v.node |-> ExpandValue(v.node[k], blobs)]]

\* LoadPayload and ExpandPayload.
Load(manifest, blobs) ==
    IF manifest \notin blobs THEN Nothing
    ELSE LET x == ExpandValue(manifest.json, blobs)
         IN  IF Has(x, "other") THEN x ELSE [first |-> x, more |-> FALSE]

-----------------------------------------------------------------------------
\* The references in a JSON value.
RECURSIVE RefsIn(_)
RefsIn(v) ==
    CASE Has(v, "ref")  -> {v}
      [] Has(v, "node") -> UNION {RefsIn(v.node[k]) : k \in DOMAIN v.node}
      [] OTHER -> {}

\* The value that the bytes of a blob are the JSON text of, if they are.
Parsed(blob) ==
    IF Has(blob, "json") THEN {blob.json}
    ELSE IF blob.bytes \in DOMAIN Quoted THEN {Quoted[blob.bytes]} ELSE {}

\* nestedBlobRefs: of whatever parses.
NestedBlobRefs(blob) == UNION {{x.ref : x \in RefsIn(v)} : v \in Parsed(blob)}

\* payloadBlobReferences: what a manifest names, and what of that is a manifest.
JSONRefs(blob) == UNION {{x.ref : x \in {y \in RefsIn(v) : y.encoding = "json"}} : v \in Parsed(blob)}

\* The collector's queue, from a set of blobs to all it reaches; a hash that the
\* table does not have is in it.
RECURSIVE Closure(_, _)
Closure(seen, blobs) ==
    LET next == seen \cup UNION {NestedBlobRefs(b) : b \in seen \cap blobs}
    IN  IF next = seen THEN seen ELSE Closure(next, blobs)

\* Mutant: what a subtree names is not fetched.
MutantPrefetched(inspect, blobs) ==
    inspect \cup UNION {NestedBlobRefs(b) : b \in inspect}

\* The prefetch of an export, with room in its cache: it inspects manifests only.
RECURSIVE Prefetched(_, _)
Prefetched(inspect, blobs) ==
    LET here == UNION {NestedBlobRefs(b) : b \in inspect \cap blobs}
        next == inspect \cup UNION {JSONRefs(b) : b \in inspect \cap blobs}
    IN  IF next = inspect THEN inspect \cup here ELSE Prefetched(next, blobs)

-----------------------------------------------------------------------------
\* PutBatch, one row: ON CONFLICT replaces the reference, blobs are only added.
Put(r, p) ==
    /\ puts < MaxPuts /\ puts' = puts + 1
    /\ given' = [given EXCEPT ![r] = p]
    /\ refs' = [refs EXCEPT ![r] = Manifest(p)]
    /\ table' = table \cup Stored(p)

\* Mutant: the collection keeps what the rows name and what these name.
MutantCollect ==
    LET roots == {refs[r] : r \in {q \in Slots : refs[q] # Nothing}}
        kept == roots \cup UNION {NestedBlobRefs(b) : b \in roots}
    IN  /\ kept \subseteq table
        /\ table' = kept
        /\ UNCHANGED <<given, refs, puts>>

\* GC: a hash that it cannot load ends it with an error and no change.
Collect ==
    LET kept == Closure({refs[r] : r \in {q \in Slots : refs[q] # Nothing}}, table)
    IN  /\ kept \subseteq table
        /\ table' = kept
        /\ UNCHANGED <<given, refs, puts>>

Init ==
    /\ given = [r \in Slots |-> Nothing]
    /\ refs = [r \in Slots |-> Nothing]
    /\ table = {}
    /\ puts = 0

Next ==
    \/ \E r \in Slots, p \in Inputs : Put(r, p)
    \/ Collect

Spec == Init /\ [][Next]_vars

-----------------------------------------------------------------------------
\* A value as the archive gives it back: no noise, numbers as float64 holds
\* them, data: URLs with no parameter.
RECURSIVE Normal(_)
Normal(v) ==
    CASE Has(v, "num")  -> [num |-> Float64(v.num)]
      [] Has(v, "url")  -> [v EXCEPT !.params = FALSE]
      [] Has(v, "text") -> v
      [] Has(v, "node") -> [node |-> [k \in DOMAIN v.node \ NoiseKeys |-> Normal(v.node[k])]]

Live == {r \in Slots : given[r] # Nothing}

\* Whatever rows share, are replaced by, and a collection removes, a row's
\* payload loads as the normal form of the first JSON value it was given, of the
\* last event of a completed stream, or byte for byte (CompactPayload, GC,
\* ExpandPayload).
LoadsNormalForm ==
    \A r \in Live :
        Load(refs[r], table) =
            IF Has(given[r], "other") THEN given[r]
            ELSE [first |-> Normal(IF Has(given[r], "stream") THEN given[r].last ELSE given[r].first),
                  more |-> FALSE]

\* The prefetch of an export fetches exactly the blobs that the expansion of the
\* payload loads, neither fewer nor the ones that quoted text names
\* (prefetchPayloadBlobClosure).
PrefetchIsExact ==
    \A r \in Live : Prefetched({refs[r]}, table) = Stored(given[r])
=============================================================================
