---------------------------- MODULE ResponseParser ----------------------------
(***************************************************************************)
(* How the crawler reads a catalog response: `parse_catalog_response`,     *)
(* `collect_datasets_and_services` and `parse_data_service`, as operators  *)
(* on JSON documents.                                                      *)
(*                                                                         *)
(* A JSON object is a record of the fields the parser looks at.  An array  *)
(* that is missing, or no array, is the empty sequence, for the parser     *)
(* does not tell them apart; a missing text reads as NoText, the empty     *)
(* string.  Of a distribution only its accessService is kept.              *)
(***************************************************************************)
EXTENDS SequencesExt

CONSTANTS
    Id,         \* strings used as ids
    Url,        \* strings used as endpoint URLs
    NoText,     \* the empty string
    Absent,     \* a field an object does not have
    NotAString, \* a field whose value is not a string
    None,       \* Option::None
    MaxDepth    \* how deep catalogs nest: the JSON reader refuses what is deeper

ASSUME NoTextAssumption == NoText \in Id /\ NoText \in Url
ASSUME DepthAssumption == MaxDepth \in Nat \ {0}
ASSUME FieldAssumption == Absent \notin Id /\ NotAString \notin Id /\ None \notin Id

IdField == Id \union {Absent, NotAString}

(* An entry of `service`, or an accessService object.                      *)
ServiceValue == [at_id : IdField, id : IdField, url : Url]

(* accessService: a string, an object, or neither.                         *)
AccessValue == [kind : {"string"}, id : Id]
               \union [kind : {"object"}, value : ServiceValue]
               \union [kind : {"other"}]

DatasetValue == [at_id : IdField, id : IdField, distribution : Seq(AccessValue)]

(* A document whose catalogs nest at most k levels deep.                   *)
DocumentOf[k \in 0 .. MaxDepth] ==
    [service : Seq(ServiceValue),
     dataset : Seq(DatasetValue),
     catalog : IF k = 0 THEN {<<>>} ELSE Seq(DocumentOf[k - 1])]

Document == DocumentOf[MaxDepth]

(* What becomes of them.                                                   *)
DataService == [id : Id, endpoint_url : Url]
Dataset == [id : Id, distributions : Seq(Id)]
ParsedCatalog == [datasets : Seq(Dataset), data_services : Seq(DataService)]

-----------------------------------------------------------------------------
(***************************************************************************)
(* `@id`, or `id` when there is no `@id`; an `@id` that is no string hides *)
(* the `id` beside it.                                                     *)
(***************************************************************************)
IdOf(value) ==
    LET field == IF value.at_id = Absent THEN value.id ELSE value.at_id
    IN  IF field \in Id THEN field ELSE None

HasId(value) == IdOf(value) # None

(***************************************************************************)
(* `for value in values { .. }`: each turn is a function that makes of the *)
(* catalog collected so far the one after it.                              *)
(***************************************************************************)
ForEach(turns, catalog) ==
    LET after[i \in 0 .. Len(turns)] ==
            IF i = 0 THEN catalog ELSE turns[i][after[i - 1]]
    IN  after[Len(turns)]

(* A service without an id is skipped, and so is one whose id is known.    *)
Known(catalog, id) == \E i \in DOMAIN catalog.data_services : catalog.data_services[i].id = id

DataServiceOf(value) == [id |-> IdOf(value), endpoint_url |-> value.url]

AddAlways(catalog, value) ==
    IF HasId(value)
    THEN [catalog EXCEPT !.data_services = Append(@, DataServiceOf(value))] ELSE catalog
AddService(catalog, value) ==
    IF HasId(value) /\ ~Known(catalog, IdOf(value))
    THEN [catalog EXCEPT !.data_services = Append(@, DataServiceOf(value))] ELSE catalog

(* The service a distribution names: a string, or the id of an object.     *)
AccessServiceOf(access) ==
    CASE access.kind = "string" -> access.id
      [] access.kind = "object" -> IF HasId(access.value) THEN IdOf(access.value) ELSE NoText
      [] access.kind = "other"  -> NoText

DatasetOf(value) ==
    [id |-> IdOf(value),
     distributions |-> [i \in DOMAIN value.distribution |->
                            AccessServiceOf(value.distribution[i])]]

(* The service given in place by a distribution.                           *)
AddInlined(catalog, access) ==
    IF access.kind = "object" THEN AddService(catalog, access.value) ELSE catalog

(* A dataset without an id is skipped with all its distributions.          *)
AddDatasetAlone(catalog, value) ==
    IF HasId(value)
    THEN [catalog EXCEPT !.datasets = Append(@, DatasetOf(value))] ELSE catalog
AddDataset(catalog, value) ==
    IF HasId(value)
    THEN LET inlined == [i \in DOMAIN value.distribution |->
                            [c \in ParsedCatalog |-> AddInlined(c, value.distribution[i])]]
         IN  [ForEach(inlined, catalog) EXCEPT !.datasets = Append(@, DatasetOf(value))]
    ELSE catalog

(* What a document says itself: its services first, then its datasets.     *)
AddServices(catalog, values) ==
    ForEach([i \in DOMAIN values |-> [c \in ParsedCatalog |-> AddService(c, values[i])]], catalog)
AddDatasets(catalog, values) ==
    ForEach([i \in DOMAIN values |-> [c \in ParsedCatalog |-> AddDataset(c, values[i])]], catalog)
CollectOwn(catalog, value) == AddDatasets(AddServices(catalog, value.service), value.dataset)

(* Then what its nested catalogs say, and theirs.                          *)
CollectTo[k \in 0 .. MaxDepth] ==
    [value \in DocumentOf[k] |-> [catalog \in ParsedCatalog |->
        ForEach([i \in DOMAIN value.catalog |-> CollectTo[k - 1][value.catalog[i]]],
                CollectOwn(catalog, value))]]

CollectTopLevel(catalog, value) == CollectOwn(catalog, value)
Collect(catalog, value) == CollectTo[MaxDepth][value][catalog]

NothingCollected == [datasets |-> <<>>, data_services |-> <<>>]

ParseCatalogResponse(document) ==
    Collect(NothingCollected, document)

-----------------------------------------------------------------------------
(***************************************************************************)
(* The reference definition: all that a document says, as one list.        *)
(***************************************************************************)
EntriesTo[k \in 0 .. MaxDepth] ==
    [document \in DocumentOf[k] |->
        <<document>> \o
        FlattenSeq([i \in DOMAIN document.catalog |-> EntriesTo[k - 1][document.catalog[i]]])]

Entries(document) == EntriesTo[MaxDepth][document]

(* The datasets an entry lists itself, those without an id left out.       *)
DatasetsListed(entry) ==
    FlattenSeq([i \in DOMAIN entry.dataset |->
                    IF HasId(entry.dataset[i]) THEN <<DatasetOf(entry.dataset[i])>> ELSE <<>>])

(* The services it lists, and those given in place by its datasets.        *)
ServiceIn(value) == IF HasId(value) THEN <<DataServiceOf(value)>> ELSE <<>>

Inlined(value) ==
    FlattenSeq([i \in DOMAIN value.distribution |->
                    IF value.distribution[i].kind = "object"
                    THEN ServiceIn(value.distribution[i].value) ELSE <<>>])

ServicesListed(entry) ==
    FlattenSeq([i \in DOMAIN entry.service |-> ServiceIn(entry.service[i])]) \o
    FlattenSeq([i \in DOMAIN entry.dataset |->
                    IF HasId(entry.dataset[i]) THEN Inlined(entry.dataset[i]) ELSE <<>>])

DatasetsIn(document) ==
    FlattenSeq([i \in DOMAIN Entries(document) |-> DatasetsListed(Entries(document)[i])])
ServicesIn(document) ==
    FlattenSeq([i \in DOMAIN Entries(document) |-> ServicesListed(Entries(document)[i])])

(***************************************************************************)
(* The same without order: what an entry says by itself.                   *)
(***************************************************************************)
Named(values) == {value \in ToSet(values) : HasId(value)}

DatasetsSaid(entry) == {DatasetOf(value) : value \in Named(entry.dataset)}

ObjectsOf(value) == {access \in ToSet(value.distribution) : access.kind = "object"}

ServicesSaid(entry) ==
    LET objects == UNION {ObjectsOf(value) : value \in Named(entry.dataset)}
    IN  {DataServiceOf(value) : value \in Named(entry.service)}
        \union {DataServiceOf(access.value) : access \in {x \in objects : HasId(x.value)}}

(* Each dataset the document lists, wherever, once for each time.          *)
HoldsEveryDataset(catalog, document) == catalog.datasets = DatasetsIn(document)

(* Each service id that is said is kept once, as it is first said.         *)
KeepsFirst(kept, said) ==
    /\ \A i, j \in DOMAIN kept : kept[i].id = kept[j].id => i = j
    /\ \A i \in DOMAIN said : \E k \in DOMAIN kept : kept[k].id = said[i].id
    /\ \A k \in DOMAIN kept : \E i \in DOMAIN said :
          /\ kept[k] = said[i]
          /\ \A j \in 1 .. i - 1 : said[j].id # kept[k].id

HoldsFirstServices(catalog, document) ==
    KeepsFirst(catalog.data_services, ServicesIn(document))
=============================================================================
