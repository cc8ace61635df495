------------------------------ MODULE Catalog -------------------------------
(***************************************************************************)
(* Package catalog: from files, of the binary or of a bundle, to the       *)
(* definitions the calculator prices with, or to none.                     *)
(*                                                                         *)
(* An expression is the function it computes of the attribute "size", all  *)
(* the attributes of a resource.  A rate is a literal, or a multiple of    *)
(* price(mapping); it is spelled if that name is a string in its source.   *)
(***************************************************************************)
EXTENDS Integers, SequencesExt

CONSTANTS
    Sizes,
    Failed, Broken, None,   \* no value, a file that does not parse, not set
    Static                  \* the mapping of a literal rate

Constantly(x) == [size \in Sizes |-> x]
Zero == Constantly(0)
Always == Constantly(TRUE)

Literal(n) == [mapping |-> Static, number |-> n, spelled |-> FALSE]

Providers == {"aws", "azure", "gcp"}

-----------------------------------------------------------------------------
(* Files and definitions.                                                  *)

Evaluations(values) == [Sizes -> values \cup {Failed}]

DimensionsRead ==
    [id : STRING, when : Evaluations(BOOLEAN), quantity : Evaluations(Int) \cup {None},
     rate : [mapping : STRING \cup {Static}, number : Int, spelled : BOOLEAN] \cup {None}]

\* As decoded from TOML: fields that are missing are not set, the rest is of its
\* type.
Decoded(free, content) ==
    /\ free \in BOOLEAN
    /\ ~free /\ content # Broken => /\ content.dimensions \in Seq(DimensionsRead)
                                   /\ DOMAIN content.mappings \subseteq STRING

Readable(catalog) ==
    /\ \A i \in DOMAIN catalog.embedded :
          Decoded(catalog.embedded[i].free, catalog.embedded[i].content)
    /\ catalog.bundle # None =>
          \A i \in DOMAIN catalog.bundle.entries :
             Decoded(catalog.bundle.entries[i].kind = "free", catalog.bundle.entries[i].content)

ValidFilter(filter) ==
    filter.key # "" /\ (filter.const = "" \/ filter.expr = None)

\* priceLookupsIn: the names that are strings.
PriceLookupsIn(rate) == IF rate.spelled THEN {rate.mapping} ELSE {}

ValidDimension(def, d) ==
    /\ d.id # "" /\ d.quantity # None /\ d.rate # None
    /\ PriceLookupsIn(d.rate) \subseteq DOMAIN def.mappings

\* Faulty Validate: a dimension's identifier may be used again.
ValidateEach(def, directories) ==
    /\ def.kind # "" /\ def.provider \in Providers \cap directories
    /\ \A m \in DOMAIN def.mappings : \A i \in DOMAIN def.mappings[m] :
          ValidFilter(def.mappings[m][i])
    /\ \A i \in DOMAIN def.dimensions : ValidDimension(def, def.dimensions[i])

Validate(def, directories) ==
    /\ def.kind # "" /\ def.provider \in Providers \cap directories
    /\ \A m \in DOMAIN def.mappings : \A i \in DOMAIN def.mappings[m] :
          ValidFilter(def.mappings[m][i])
    /\ \A i \in DOMAIN def.dimensions : ValidDimension(def, def.dimensions[i])
    /\ \A i, k \in DOMAIN def.dimensions :
          def.dimensions[i].id = def.dimensions[k].id => i = k

FreeDefinition(kind, provider) ==
    [kind |-> kind, provider |-> provider, mappings |-> <<>>,
     dimensions |-> <<[id |-> "free", when |-> Always, quantity |-> Zero,
                       rate |-> Literal(0)]>>]

\* What a file defines; free.toml lists kinds, each with the reason why.
Definitions(file) ==
    IF file.free
    THEN {FreeDefinition(kind, file.content.provider) : kind \in DOMAIN file.content.kinds}
    ELSE {file.content}

ValidFile(file) ==
    /\ file.content # Broken
    /\ file.free => /\ file.content.provider \in Providers
                    /\ "" \notin Range(file.content.kinds)
    /\ \A def \in Definitions(file) : Validate(def, file.directories)

\* Whatever the order: one bad file refuses them all, and so do two definitions
\* of a kind, and none at all.
LoadFromFS(files) ==
    LET all == UNION {Definitions(files[i]) : i \in DOMAIN files}
    IN  IF \/ \E i \in DOMAIN files : ~ValidFile(files[i])
           \/ \E i, k \in DOMAIN files : i # k /\
                 \E d \in Definitions(files[i]), e \in Definitions(files[k]) : d.kind = e.kind
           \/ all = {}
        THEN Failed
        ELSE [kind \in {def.kind : def \in all} |->
                CHOOSE def \in all : def.kind = kind]

\* Its entries are files called provider/kind: a later one replaces an earlier.
RegistryFromBundle(bundle) ==
    LET entries == bundle.entries
        name(i) == <<entries[i].provider, entries[i].kind>>
        kept == {i \in DOMAIN entries : \A k \in DOMAIN entries : k > i => name(k) # name(i)}
    IN  IF ~bundle.supported \/ \E i \in DOMAIN entries : "" \in Range(name(i))
        THEN Failed
        ELSE LoadFromFS([i \in kept |->
                [directories |-> {entries[i].provider}, free |-> entries[i].kind = "free",
                 content |-> entries[i].content]])

\* Which bundle, if any, is CatalogCache's question; without one that loads
\* there is the binary's catalog.
LoadAuto(catalog) ==
    IF catalog.bundle # None /\ RegistryFromBundle(catalog.bundle) # Failed
    THEN RegistryFromBundle(catalog.bundle)
    ELSE LoadFromFS(catalog.embedded)

\* Every quantity is the literal 0.
IsFreeShell(registry, kind) ==
    /\ registry[kind].dimensions # <<>>
    /\ \A i \in DOMAIN registry[kind].dimensions :
          registry[kind].dimensions[i].quantity = Zero
=============================================================================
