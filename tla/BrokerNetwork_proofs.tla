------------------------- MODULE BrokerNetwork_proofs -------------------------
(***************************************************************************)
(* Proofs about brokers at work together, for any number of them and of    *)
(* participants, any network, and documents of any width and depth.        *)
(***************************************************************************)
EXTENDS BrokerNetwork, ResponseParser_proofs

-----------------------------------------------------------------------------
(* Sets and the lists they are sent as.                                    *)

LEMMA SeqOfSet ==
    ASSUME NEW S, IsFiniteSet(S)
    PROVE  SetToSeq(S) \in Seq(S) /\ ToSet(SetToSeq(S)) = S
<1> DEFINE n == Cardinality(S)
           s == SetToSeq(S)
<1>1. n \in Nat /\ ExistsBijection(1 .. n, S)
  BY FS_CardinalityType
<1>2. \E f \in [1 .. n -> S] : IsInjective(f)
  BY <1>1 DEF ExistsBijection, Bijection, Injection
<1>3. s \in [1 .. n -> S] /\ IsInjective(s)
  BY <1>2 DEF SetToSeq
<1>4. IsFiniteSet(1 .. n) /\ Cardinality(1 .. n) = n
  <2> HIDE DEF n
  <2>1. QED
    BY <1>1, FS_Interval
<1> HIDE DEF s
<1>5. s \in Injection(1 .. n, S)
  BY <1>3 DEF Injection
<1>6. s \in Surjection(1 .. n, S)
  <2>1. Cardinality(1 .. n) = Cardinality(S) <=> s \in Surjection(1 .. n, S)
    <3> HIDE DEF n
    <3>1. QED
      BY <1>5, FS_Injection
  <2>2. QED
    BY <1>4, <2>1
<1>7. ToSet(s) = S
  <2>1. \A x \in S : \E i \in 1 .. n : s[i] = x
    BY <1>6 DEF Surjection
  <2> HIDE DEF n
  <2>2. QED
    BY <1>3, <2>1 DEF ToSet
<1>8. s \in Seq(S)
  <2> HIDE DEF n
  <2>1. QED
    BY <1>1, <1>3
<1>9. QED
  BY <1>7, <1>8 DEF s

LEMMA SeqFinite ==
    ASSUME NEW S, NEW s \in Seq(S) PROVE IsFiniteSet(ToSet(s)) /\ ToSet(s) \subseteq S
<1>1. DOMAIN s = 1 .. Len(s) /\ Len(s) \in Nat /\ s \in [1 .. Len(s) -> S]
  OBVIOUS
<1>2. IsFiniteSet(1 .. Len(s))
  BY <1>1, FS_Interval
<1>3. s \in Surjection(1 .. Len(s), ToSet(s))
  BY <1>1 DEF Surjection, ToSet
<1>4. QED
  BY <1>1, <1>2, <1>3, FS_Surjection DEF ToSet

-----------------------------------------------------------------------------
(* What a broker holds, and the document it makes of it.                   *)

HeldCatalog ==
    {held \in [datasets : SUBSET Dataset, services : SUBSET DataService] :
        IsFiniteSet(held.datasets) /\ IsFiniteSet(held.services)}

LEMMA HeldTyped == ASSUME NEW catalog \in ParsedCatalog PROVE Held(catalog) \in HeldCatalog
BY CatalogFields, SeqFinite DEF Held, HeldCatalog

LEMMA VisibleTyped ==
    ASSUME NEW b, NEW held \in HeldCatalog
    PROVE  /\ Visible(b, held) \in HeldCatalog
           /\ Visible(b, held).datasets \subseteq held.datasets
           /\ Visible(b, held).services = held.services
           /\ network.access[b] # None =>
                 \A d \in Visible(b, held).datasets : d.id \in network.access[b]
<1>1. CASE network.access[b] = None
  BY <1>1 DEF Visible
<1>2. CASE network.access[b] # None
  <2> DEFINE seen == {d \in held.datasets : d.id \in network.access[b]}
  <2>1. held \in [datasets : SUBSET Dataset, services : SUBSET DataService]
    BY DEF HeldCatalog
  <2>2. IsFiniteSet(held.datasets) /\ IsFiniteSet(held.services)
    BY DEF HeldCatalog
  <2>3. IsFiniteSet(seen)
    BY <2>2, FS_Subset
  <2>4. Visible(b, held) = [held EXCEPT !.datasets = seen]
    BY <1>2 DEF Visible
  <2>5. QED
    BY <1>2, <2>1, <2>2, <2>3, <2>4 DEF HeldCatalog
<1>3. QED
  BY <1>1, <1>2

(* A service, or a dataset, is read as the one that was sent.              *)
LEMMA ServiceRead ==
    ASSUME NEW s \in DataService
    PROVE  /\ DspDataService(s) \in ServiceValue
           /\ HasId(DspDataService(s))
           /\ DataServiceOf(DspDataService(s)) = s
<1>1. s.id \in Id /\ s.endpoint_url \in Url
  BY DEF DataService
<1>2. IdOf(DspDataService(s)) = s.id
  BY <1>1, FieldAssumption DEF IdOf, DspDataService
<1>3. DspDataService(s) \in ServiceValue
  BY <1>1 DEF DspDataService, ServiceValue, IdField
<1>4. [id |-> s.id, endpoint_url |-> s.endpoint_url] = s
  BY DEF DataService
<1>5. DataServiceOf(DspDataService(s)) = s
  BY <1>2, <1>4 DEF DataServiceOf, DspDataService
<1>6. QED
  BY <1>1, <1>2, <1>3, <1>5, FieldAssumption DEF HasId

LEMMA DatasetRead ==
    ASSUME NEW d \in Dataset
    PROVE  /\ DspDataset(d) \in DatasetValue
           /\ HasId(DspDataset(d))
           /\ DatasetOf(DspDataset(d)) = d
           /\ ObjectsOf(DspDataset(d)) = {}
<1> DEFINE list == [i \in DOMAIN d.distributions |-> [kind |-> "string", id |-> d.distributions[i]]]
           n == Len(d.distributions)
<1>1. d.id \in Id /\ d.distributions \in Seq(Id)
  BY DEF Dataset
<1>2. /\ DOMAIN d.distributions = 1 .. n /\ n \in Nat
      /\ \A i \in 1 .. n : d.distributions[i] \in Id
  BY <1>1
<1>3. DspDataset(d) = [at_id |-> d.id, id |-> Absent, distribution |-> list]
  BY DEF DspDataset
<1>4. IdOf(DspDataset(d)) = d.id
  BY <1>1, <1>3, FieldAssumption DEF IdOf
<1>5. list \in Seq(AccessValue)
  <2>1. \A i \in 1 .. n : [kind |-> "string", id |-> d.distributions[i]] \in AccessValue
    BY <1>2 DEF AccessValue
  <2>2. QED
    BY <1>2, <2>1
<1>6. \A i \in 1 .. n : AccessServiceOf(list[i]) = d.distributions[i]
  BY <1>2 DEF AccessServiceOf
<1>7. DspDataset(d).distribution = list /\ DOMAIN list = 1 .. n
  BY <1>2, <1>3
<1>8. \A i \in 1 .. n : list[i].kind = "string"
  BY <1>2
<1> HIDE DEF list
<1>9. [i \in DOMAIN list |-> AccessServiceOf(list[i])] = d.distributions
  <2>1. d.distributions = [i \in 1 .. n |-> d.distributions[i]]
    BY <1>1
  <2>2. QED
    BY <1>6, <1>7, <2>1
<1>10. [id |-> d.id, distributions |-> d.distributions] = d
  BY DEF Dataset
<1>11. DatasetOf(DspDataset(d)) = d
  BY <1>4, <1>7, <1>9, <1>10 DEF DatasetOf
<1>12. ObjectsOf(DspDataset(d)) = {}
  BY <1>7, <1>8 DEF ObjectsOf, ToSet
<1>13. DspDataset(d) \in DatasetValue
  BY <1>1, <1>3, <1>5 DEF DatasetValue, IdField
<1>14. QED
  BY <1>1, <1>4, <1>11, <1>12, <1>13, FieldAssumption DEF HasId

LEMMA ServicesSent ==
    ASSUME NEW services, services \subseteq DataService, IsFiniteSet(services)
    PROVE  LET sent == SetToSeq({DspDataService(s) : s \in services})
           IN  sent \in Seq(ServiceValue) /\ {DataServiceOf(v) : v \in Named(sent)} = services
<1> DEFINE values == {DspDataService(s) : s \in services}
           send == [s \in services |-> DspDataService(s)]
           sent == SetToSeq(values)
<1>1. send \in Surjection(services, values)
  BY DEF Surjection
<1>2. IsFiniteSet(values)
  <2> HIDE DEF values, send
  <2>1. QED
    BY <1>1, FS_Surjection
<1>3. \A s \in services : /\ DspDataService(s) \in ServiceValue /\ HasId(DspDataService(s))
                          /\ DataServiceOf(DspDataService(s)) = s
  BY ServiceRead
<1>4. sent \in Seq(values) /\ ToSet(sent) = values
  <2> HIDE DEF values
  <2>1. QED
    BY <1>2, SeqOfSet
<1>5. values \subseteq ServiceValue
  BY <1>3
<1>6. sent \in Seq(ServiceValue)
  <2> HIDE DEF values, sent
  <2>1. QED
    BY <1>4, <1>5
<1>7. {DataServiceOf(v) : v \in Named(sent)} = services
  <2> HIDE DEF sent
  <2>1. Named(sent) = values
    BY <1>3, <1>4 DEF Named
  <2>2. {DataServiceOf(v) : v \in values} = services
    BY <1>3
  <2>3. QED
    BY <2>1, <2>2
<1>8. QED
  BY <1>6, <1>7

LEMMA DatasetsSent ==
    ASSUME NEW datasets, datasets \subseteq Dataset, IsFiniteSet(datasets)
    PROVE  LET sent == SetToSeq({DspDataset(d) : d \in datasets})
           IN  /\ sent \in Seq(DatasetValue)
               /\ {DatasetOf(v) : v \in Named(sent)} = datasets
               /\ \A v \in Named(sent) : ObjectsOf(v) = {}
<1> DEFINE values == {DspDataset(d) : d \in datasets}
           send == [d \in datasets |-> DspDataset(d)]
           sent == SetToSeq(values)
<1>1. send \in Surjection(datasets, values)
  BY DEF Surjection
<1>2. IsFiniteSet(values)
  <2> HIDE DEF values, send
  <2>1. QED
    BY <1>1, FS_Surjection
<1>3. \A d \in datasets : /\ DspDataset(d) \in DatasetValue /\ HasId(DspDataset(d))
                          /\ DatasetOf(DspDataset(d)) = d /\ ObjectsOf(DspDataset(d)) = {}
  BY DatasetRead
<1>4. sent \in Seq(values) /\ ToSet(sent) = values
  <2> HIDE DEF values
  <2>1. QED
    BY <1>2, SeqOfSet
<1>5. values \subseteq DatasetValue
  BY <1>3
<1>6. sent \in Seq(DatasetValue)
  <2> HIDE DEF values, sent
  <2>1. QED
    BY <1>4, <1>5
<1>7. Named(sent) = values
  <2> HIDE DEF sent
  <2>1. QED
    BY <1>3, <1>4 DEF Named
<1>8. {DatasetOf(v) : v \in values} = datasets /\ \A v \in values : ObjectsOf(v) = {}
  BY <1>3
<1> HIDE DEF values, sent
<1>9. QED
  BY <1>6, <1>7, <1>8 DEF sent, values

LEMMA CatalogSent ==
    ASSUME NEW held \in HeldCatalog, NEW nested
    PROVE  /\ DspCatalog(held, nested).service \in Seq(ServiceValue)
           /\ DspCatalog(held, nested).dataset \in Seq(DatasetValue)
           /\ DatasetsSaid(DspCatalog(held, nested)) = held.datasets
           /\ ServicesSaid(DspCatalog(held, nested)) = held.services
<1> DEFINE document == DspCatalog(held, nested)
<1>1. /\ held.datasets \subseteq Dataset /\ IsFiniteSet(held.datasets)
      /\ held.services \subseteq DataService /\ IsFiniteSet(held.services)
  BY DEF HeldCatalog
<1>2. /\ document.service = SetToSeq({DspDataService(s) : s \in held.services})
      /\ document.dataset = SetToSeq({DspDataset(d) : d \in held.datasets})
  BY DEF DspCatalog
<1> HIDE DEF document
<1>3. /\ document.service \in Seq(ServiceValue)
      /\ {DataServiceOf(v) : v \in Named(document.service)} = held.services
  BY <1>1, <1>2, ServicesSent
<1>4. /\ document.dataset \in Seq(DatasetValue)
      /\ {DatasetOf(v) : v \in Named(document.dataset)} = held.datasets
      /\ \A v \in Named(document.dataset) : ObjectsOf(v) = {}
  <2> HIDE DEF document
  <2> DEFINE values == SetToSeq({DspDataset(d) : d \in held.datasets})
  <2>1. /\ values \in Seq(DatasetValue)
        /\ {DatasetOf(v) : v \in Named(values)} = held.datasets
        /\ \A v \in Named(values) : ObjectsOf(v) = {}
    BY <1>1, DatasetsSent
  <2> HIDE DEF values
  <2>2. document.dataset = values
    BY <1>2 DEF values
  <2>3. QED
    BY <2>1, <2>2
<1>5. DatasetsSaid(document) = held.datasets
  BY <1>4 DEF DatasetsSaid
<1>6. ServicesSaid(document) = held.services
  <2>1. UNION {ObjectsOf(v) : v \in Named(document.dataset)} = {}
    BY <1>4
  <2>2. QED
    BY <1>3, <2>1 DEF ServicesSaid
<1>7. QED
  BY <1>3, <1>4, <1>5, <1>6 DEF document

LEMMA CatalogFitsLevel ==
    ASSUME NEW held \in HeldCatalog, NEW k \in 0 .. MaxDepth, NEW nested,
           IF k = 0 THEN nested = <<>> ELSE nested \in Seq(DocumentOf[k - 1])
    PROVE  DspCatalog(held, nested) \in DocumentOf[k]
<1> DEFINE document == DspCatalog(held, nested)
<1>1. document.service \in Seq(ServiceValue) /\ document.dataset \in Seq(DatasetValue)
  BY CatalogSent
<1>2. /\ document.catalog = nested
      /\ document = [service |-> document.service, dataset |-> document.dataset,
                     catalog |-> document.catalog]
  BY DEF DspCatalog
<1> HIDE DEF document
<1>3. document \in DocumentsOver(k, DocumentOf[k - 1])
  BY <1>1, <1>2 DEF DocumentsOver
<1>4. DocumentOf[k] = DocumentsOver(k, DocumentOf[k - 1])
  BY DocumentsDefined
<1>5. QED
  BY <1>3, <1>4 DEF document

(* One flat catalog.                                                       *)
LEMMA FlatSaid ==
    ASSUME NEW held \in HeldCatalog, NEW k \in 0 .. MaxDepth
    PROVE  /\ DspCatalog(held, <<>>) \in DocumentOf[k]
           /\ ToSet(EntriesTo[k][DspCatalog(held, <<>>)]) = {DspCatalog(held, <<>>)}
<1> DEFINE document == DspCatalog(held, <<>>)
<1>1. document \in DocumentOf[k]
  <2>1. <<>> \in Seq(DocumentOf[k - 1])
    OBVIOUS
  <2>2. QED
    BY <2>1, CatalogFitsLevel
<1>2. DOMAIN document.catalog = {}
  BY DEF DspCatalog
<1> HIDE DEF document
<1>3. ToSet(EntriesTo[k][document]) =
         {document} \union UNION {ToSet(EntriesTo[k - 1][document.catalog[i]])
                                    : i \in DOMAIN document.catalog}
  BY <1>1, EntriesSet
<1>4. QED
  BY <1>1, <1>2, <1>3 DEF document

(* The catalogs of several nodes, nested in one that says nothing itself.  *)
LEMMA NestedSaid ==
    ASSUME NEW list \in Seq(HeldCatalog)
    PROVE  LET document == DspCatalog(NothingHeld,
                                      [i \in DOMAIN list |-> DspCatalog(list[i], <<>>)])
           IN  /\ document \in Document
               /\ AllDatasets(ToSet(Entries(document)))
                     = UNION {list[i].datasets : i \in DOMAIN list}
               /\ AllServices(ToSet(Entries(document)))
                     = UNION {list[i].services : i \in DOMAIN list}
<1> DEFINE n == Len(list)
           leaves == [i \in DOMAIN list |-> DspCatalog(list[i], <<>>)]
           document == DspCatalog(NothingHeld, leaves)
           k == MaxDepth
<1>1. k \in 0 .. MaxDepth /\ k - 1 \in 0 .. MaxDepth /\ k # 0
  BY DepthAssumption
<1>2. DOMAIN list = 1 .. n /\ n \in Nat /\ \A i \in 1 .. n : list[i] \in HeldCatalog
  OBVIOUS
<1>3. NothingHeld \in HeldCatalog
  BY FS_EmptySet DEF NothingHeld, HeldCatalog
<1>4. \A i \in 1 .. n : /\ leaves[i] \in DocumentOf[k - 1]
                        /\ ToSet(EntriesTo[k - 1][leaves[i]]) = {leaves[i]}
                        /\ DatasetsSaid(leaves[i]) = list[i].datasets
                        /\ ServicesSaid(leaves[i]) = list[i].services
  <2> SUFFICES ASSUME NEW i \in 1 .. n
               PROVE  /\ leaves[i] \in DocumentOf[k - 1]
                      /\ ToSet(EntriesTo[k - 1][leaves[i]]) = {leaves[i]}
                      /\ DatasetsSaid(leaves[i]) = list[i].datasets
                      /\ ServicesSaid(leaves[i]) = list[i].services
    OBVIOUS
  <2>1. leaves[i] = DspCatalog(list[i], <<>>) /\ list[i] \in HeldCatalog
    BY <1>2
  <2> HIDE DEF leaves, k
  <2>2. QED
    BY <1>1, <2>1, FlatSaid, CatalogSent
<1>5. DOMAIN leaves = 1 .. n /\ leaves \in Seq(DocumentOf[k - 1])
  <2>1. leaves = [i \in 1 .. n |-> leaves[i]]
    BY <1>2
  <2> HIDE DEF leaves, n
  <2>2. QED
    BY <1>2, <1>4, <2>1
<1>6. document.catalog = leaves
  BY DEF DspCatalog
<1> HIDE DEF leaves, k
<1>7. document \in DocumentOf[k]
  BY <1>1, <1>3, <1>5, CatalogFitsLevel
<1>8. DatasetsSaid(document) = {} /\ ServicesSaid(document) = {}
  BY <1>3, CatalogSent DEF NothingHeld
<1> HIDE DEF document, n
<1>9. ToSet(EntriesTo[k][document]) =
         {document} \union UNION {ToSet(EntriesTo[k - 1][document.catalog[i]])
                                    : i \in DOMAIN document.catalog}
  BY <1>1, <1>7, EntriesSet
<1>10. ToSet(EntriesTo[k][document]) = {document} \union {leaves[i] : i \in 1 .. n}
  <2> DEFINE said(i) == ToSet(EntriesTo[k - 1][leaves[i]])
  <2>1. \A i \in 1 .. n : said(i) = {leaves[i]}
    BY <1>4
  <2>2. UNION {ToSet(EntriesTo[k - 1][document.catalog[i]]) : i \in DOMAIN document.catalog}
           = UNION {said(i) : i \in 1 .. n}
    BY <1>5, <1>6
  <2> HIDE DEF said
  <2>3. UNION {said(i) : i \in 1 .. n} = {leaves[i] : i \in 1 .. n}
    BY <2>1
  <2>4. QED
    BY <1>9, <2>2, <2>3
<1>11. /\ AllDatasets(ToSet(EntriesTo[k][document])) = UNION {list[i].datasets : i \in 1 .. n}
       /\ AllServices(ToSet(EntriesTo[k][document])) = UNION {list[i].services : i \in 1 .. n}
  <2>1. /\ AllDatasets({document} \union {leaves[i] : i \in 1 .. n})
              = UNION {DatasetsSaid(leaves[i]) : i \in 1 .. n}
        /\ AllServices({document} \union {leaves[i] : i \in 1 .. n})
              = UNION {ServicesSaid(leaves[i]) : i \in 1 .. n}
    BY <1>8 DEF AllDatasets, AllServices
  <2>2. /\ UNION {DatasetsSaid(leaves[i]) : i \in 1 .. n} = UNION {list[i].datasets : i \in 1 .. n}
        /\ UNION {ServicesSaid(leaves[i]) : i \in 1 .. n} = UNION {list[i].services : i \in 1 .. n}
    BY <1>4
  <2>3. QED
    BY <1>10, <2>1, <2>2
<1>12. Entries(document) = EntriesTo[k][document] /\ Document = DocumentOf[k]
  BY DEF Entries, Document, k
<1>13. QED
  BY <1>2, <1>7, <1>11, <1>12 DEF document, leaves

-----------------------------------------------------------------------------
(***************************************************************************)
(* What a broker answers: datasets it holds and lets be seen, each with    *)
(* all the services held with it.                                          *)
(***************************************************************************)
Cached(b) == {n \in Node : cache[b][n] # None}

LEMMA AnswerSaid ==
    ASSUME NEW b \in Broker, \A n \in Cached(b) : cache[b][n] \in HeldCatalog,
           NEW document \in Answers(b)
    PROVE  LET shown == [n \in Cached(b) |-> Visible(b, cache[b][n])]
               datasets == AllDatasets(ToSet(Entries(document)))
               services == AllServices(ToSet(Entries(document)))
           IN  /\ document \in Document
               /\ \A d \in datasets : \E n \in Cached(b) :
                     d \in shown[n].datasets /\ shown[n].services \subseteq services
               /\ \A s \in services : \E n \in Cached(b) : s \in shown[n].services
<1> DEFINE shown == [n \in Cached(b) |-> Visible(b, cache[b][n])]
           listed == {n \in Cached(b) : shown[n].datasets # {}}
           datasets == AllDatasets(ToSet(Entries(document)))
           services == AllServices(ToSet(Entries(document)))
<1>1. \A n \in Cached(b) : shown[n] \in HeldCatalog
  BY VisibleTyped
<1>2. NothingHeld \in HeldCatalog /\ NothingHeld.datasets = {} /\ NothingHeld.services = {}
  BY FS_EmptySet DEF NothingHeld, HeldCatalog
<1>3. Answers(b) =
         IF Cardinality(Cached(b)) <= 1
         THEN {DspCatalog(IF Cached(b) = {} THEN NothingHeld
                          ELSE shown[CHOOSE n \in Cached(b) : TRUE], <<>>)}
         ELSE {DspCatalog(NothingHeld, [i \in DOMAIN order |-> DspCatalog(shown[order[i]], <<>>)])
                  : order \in SetToSeqs(listed)}
  BY DEF Answers, Cached
<1>4. IsFiniteSet(listed)
  <2>1. IsFiniteSet(Node)
    BY NodesAssumption, FS_AddElement DEF Node
  <2>2. listed \subseteq Node
    BY DEF Cached
  <2> HIDE DEF listed
  <2>3. QED
    BY <2>1, <2>2, FS_Subset
<1> HIDE DEF shown, listed
<1>5. ASSUME NEW held \in HeldCatalog, document = DspCatalog(held, <<>>)
      PROVE  document \in Document /\ datasets = held.datasets /\ services = held.services
  <2>1. MaxDepth \in 0 .. MaxDepth
    BY DepthAssumption
  <2>2. document \in Document /\ ToSet(Entries(document)) = {document}
    BY <1>5, <2>1, FlatSaid DEF Document, Entries
  <2>3. DatasetsSaid(document) = held.datasets /\ ServicesSaid(document) = held.services
    BY <1>5, CatalogSent
  <2>4. QED
    BY <2>2, <2>3 DEF AllDatasets, AllServices
<1>6. ASSUME NEW n \in Cached(b), document = DspCatalog(shown[n], <<>>)
      PROVE  /\ document \in Document
             /\ \A d \in datasets : d \in shown[n].datasets /\ shown[n].services \subseteq services
             /\ \A s \in services : s \in shown[n].services
  BY <1>1, <1>5, <1>6
<1>7. ASSUME NEW order \in SetToSeqs(listed),
             document = DspCatalog(NothingHeld,
                                   [i \in DOMAIN order |-> DspCatalog(shown[order[i]], <<>>)])
      PROVE  /\ document \in Document
             /\ \A d \in datasets : \E n \in Cached(b) :
                   d \in shown[n].datasets /\ shown[n].services \subseteq services
             /\ \A s \in services : \E n \in Cached(b) : s \in shown[n].services
  <2> DEFINE m == Cardinality(listed)
             list == [i \in 1 .. m |-> shown[order[i]]]
  <2>1. m \in Nat /\ order \in [1 .. m -> listed]
    BY <1>4, FS_CardinalityType DEF SetToSeqs
  <2>2. \A i \in 1 .. m : order[i] \in Cached(b) /\ shown[order[i]] \in HeldCatalog
    BY <1>1, <2>1 DEF listed
  <2>3. DOMAIN list = 1 .. m /\ list \in Seq(HeldCatalog)
    <3> HIDE DEF m
    <3>1. QED
      BY <2>1, <2>2
  <2>4. document = DspCatalog(NothingHeld, [i \in DOMAIN list |-> DspCatalog(list[i], <<>>)])
    <3>1. DOMAIN order = 1 .. m
      BY <2>1
    <3>2. QED
      BY <1>7, <2>3, <3>1
  <2>5. \A i \in 1 .. m : list[i] = shown[order[i]]
    OBVIOUS
  <2> HIDE DEF list, m, datasets, services
  <2>6. /\ document \in Document
        /\ datasets = UNION {list[i].datasets : i \in 1 .. m}
        /\ services = UNION {list[i].services : i \in 1 .. m}
    BY <2>3, <2>4, NestedSaid DEF datasets, services
  <2>7. ASSUME NEW d \in datasets
        PROVE  \E n \in Cached(b) : d \in shown[n].datasets /\ shown[n].services \subseteq services
    <3>1. PICK i \in 1 .. m : d \in list[i].datasets
      BY <2>6
    <3>2. list[i].services \subseteq services
      BY <2>6
    <3>3. QED
      BY <2>2, <2>5, <3>1, <3>2
  <2>8. ASSUME NEW s \in services PROVE \E n \in Cached(b) : s \in shown[n].services
    <3>1. PICK i \in 1 .. m : s \in list[i].services
      BY <2>6
    <3>2. QED
      BY <2>2, <2>5, <3>1
  <2>9. QED
    BY <2>6, <2>7, <2>8
<1> HIDE DEF datasets, services
<1>8. QED
  <2>1. CASE Cardinality(Cached(b)) <= 1 /\ Cached(b) = {}
    <3>1. document = DspCatalog(NothingHeld, <<>>)
      BY <1>3, <2>1
    <3>2. QED
      BY <1>2, <1>5, <3>1 DEF shown, datasets, services
  <2>2. CASE Cardinality(Cached(b)) <= 1 /\ Cached(b) # {}
    <3>1. PICK n \in Cached(b) : document = DspCatalog(shown[n], <<>>)
      BY <1>3, <2>2
    <3>2. QED
      BY <1>6, <3>1 DEF shown, datasets, services
  <2>3. CASE ~(Cardinality(Cached(b)) <= 1)
    <3>1. PICK order \in SetToSeqs(listed) :
             document = DspCatalog(NothingHeld,
                                   [i \in DOMAIN order |-> DspCatalog(shown[order[i]], <<>>)])
      BY <1>3, <2>3
    <3>2. QED
      BY <1>7, <3>1 DEF shown, datasets, services
  <2>4. QED
    BY <2>1, <2>2, <2>3

(***************************************************************************)
(* What is held of a parsed document: its datasets, and of its services    *)
(* one for each id; all of them, when no two of them share one.            *)
(***************************************************************************)
LEMMA ParsedHeld ==
    ASSUME NEW document \in Document
    PROVE  LET held == Held(ParseCatalogResponse(document))
               services == AllServices(ToSet(Entries(document)))
           IN  /\ ParseCatalogResponse(document) \in ParsedCatalog
               /\ held \in HeldCatalog
               /\ held.datasets = AllDatasets(ToSet(Entries(document)))
               /\ held.services \subseteq services
               /\ \A s \in services : \E t \in held.services : t.id = s.id
               /\ (\A s, t \in services : s.id = t.id => s = t) => held.services = services
<1> DEFINE parsed == ParseCatalogResponse(document)
           services == AllServices(ToSet(Entries(document)))
<1>1. /\ parsed \in ParsedCatalog
      /\ ToSet(parsed.datasets) = AllDatasets(ToSet(Entries(document)))
      /\ ToSet(parsed.data_services) \subseteq services
      /\ \A s \in services : \E t \in ToSet(parsed.data_services) : t.id = s.id
  BY ParserKeepsWhatIsSaid
<1> HIDE DEF parsed, services
<1>2. Held(parsed) \in HeldCatalog
  BY <1>1, HeldTyped
<1>3. /\ Held(parsed).datasets = ToSet(parsed.datasets)
      /\ Held(parsed).services = ToSet(parsed.data_services)
  BY DEF Held
<1>4. (\A s, t \in services : s.id = t.id => s = t) => services \subseteq ToSet(parsed.data_services)
  BY <1>1
<1>5. QED
  BY <1>1, <1>2, <1>3, <1>4 DEF parsed, services

(* Who names only services it has is read as one that does.                *)
LEMMA ClosedResolves ==
    ASSUME NEW document \in Document, Closed(document)
    PROVE  Resolves(Held(ParseCatalogResponse(document)))
<1> DEFINE held == Held(ParseCatalogResponse(document))
           entries == ToSet(Entries(document))
           services == AllServices(entries)
<1>1. /\ held.datasets = AllDatasets(entries)
      /\ \A s \in services : \E t \in held.services : t.id = s.id
  BY ParsedHeld
<1>2. \A entry \in entries : \A d \in DatasetsSaid(entry) : \A i \in DOMAIN d.distributions :
         d.distributions[i] \in {s.id : s \in services} \union {NoText}
  BY DEF Closed, AllServices
<1> HIDE DEF held, entries, services
<1>3. \A d \in held.datasets : \A i \in DOMAIN d.distributions :
         d.distributions[i] = NoText \/ \E s \in services : s.id = d.distributions[i]
  BY <1>1, <1>2 DEF AllDatasets
<1>4. Resolves(held)
  BY <1>1, <1>3 DEF Resolves
<1>5. QED
  BY <1>4 DEF held

LEMMA SampleHeld ==
    /\ Held(Sample) \in HeldCatalog
    /\ Resolves(Held(Sample))
    /\ \A s, t \in Held(Sample).services : s.id = t.id => s = t
<1>1. Held(Sample) \in HeldCatalog
  BY SampleAssumption, HeldTyped
<1>2. /\ Held(Sample).datasets = ToSet(Sample.datasets)
      /\ Held(Sample).services = ToSet(Sample.data_services)
  BY DEF Held
<1>3. Resolves(Held(Sample))
  BY <1>2, SampleAssumption DEF Resolves, ToSet
<1>4. \A s, t \in Held(Sample).services : s.id = t.id => s = t
  BY <1>2, SampleAssumption DEF ToSet
<1>5. QED
  BY <1>1, <1>3, <1>4

-----------------------------------------------------------------------------
(***************************************************************************)
(* The inductive invariant.                                                *)
(***************************************************************************)
TaskRecord ==
    [pc : {"off", "crawling", "removing", "inserting"}, at : Nat \ {0},
     document : Document \union {None}, body : ParsedCatalog \union {None}]

Typed ==
    /\ network \in Networks
    /\ version \in [Edge -> Nat \ {0}]
    /\ \A e \in Edge : version[e] <= Len(network.offers[e])
    /\ process \in [Broker -> {"down", "started", "serving"}]
    /\ cache \in [Broker -> [Node -> HeldCatalog \union {None}]]
    /\ crawl \in [Broker -> TaskRecord]
    /\ faults \in 0 .. MaxFaults
    /\ crashes \in 0 .. MaxCrashes

InFlight(b) == crawl[b].pc \in {"removing", "inserting"}

(* A scheduler runs in brokers with a crawler configuration only; the body *)
(* it has in hand is what the parser made of the document beside it.       *)
TaskFits(b) ==
    /\ crawl[b].pc # "off" =>
          b \in network.brokers \ network.sampled /\ crawl[b].at <= Len(Participants(b)) + 1
    /\ IF InFlight(b)
       THEN /\ crawl[b].at <= Len(Participants(b))
            /\ crawl[b].document \in Document /\ crawl[b].body \in ParsedCatalog
            /\ crawl[b].body = ParseCatalogResponse(crawl[b].document)
       ELSE crawl[b].document = None /\ crawl[b].body = None

(* A broker without one holds the sample, and does once it serves.         *)
SampleOnly(b) ==
    b \in network.sampled =>
        /\ \A n \in Cached(b) : n = SampleNode /\ cache[b][n] = Held(Sample)
        /\ process[b] = "serving" => SampleNode \in Cached(b)

Sources(b) ==
    UNION {{Offered(n, v) : v \in IF n \in Edge THEN 1 .. version[n] ELSE {1}} : n \in Upstream(b)}

OffersClosed == \A e \in Edge : \A v \in DOMAIN network.offers[e] : Closed(network.offers[e][v])

(* What is true of a catalog that b has from node n.                       *)
CameFrom(b, n, held) ==
    /\ b \in network.brokers => Within(held, Sources(b))
    /\ OffersClosed => Resolves(held)
    /\ n \in network.brokers /\ network.access[n] # None =>
          \A d \in held.datasets : d.id \in network.access[n]
    /\ n \in network.sampled => held = Visible(n, Held(Sample))

(* It is so from the moment the answer is parsed.                          *)
ContentFits(b) ==
    /\ \A n \in Cached(b) : CameFrom(b, n, cache[b][n])
    /\ InFlight(b) => CameFrom(b, Current(b), Held(crawl[b].body))

BrokerFits(b) == TaskFits(b) /\ SampleOnly(b) /\ ContentFits(b)

Inv == Typed /\ \A b \in Broker : BrokerFits(b)

(* The definitions a state of a broker is described with.                  *)
LEMMA NetworkTyped ==
    ASSUME Typed
    PROVE  /\ network.sampled \subseteq network.brokers /\ network.brokers \subseteq Broker
           /\ \A b \in network.brokers \ network.sampled :
                 Participants(b) \in Seq(network.brokers \union Edge)
           /\ \A e \in Edge : network.offers[e] \in Seq(Document) /\ network.offers[e] # <<>>
BY NetworksAssumption DEF Typed, Participants

(* Whom b crawls at the moment.                                            *)
LEMMA CurrentTyped ==
    ASSUME Typed, NEW b \in Broker, TaskFits(b), crawl[b].pc # "off",
           crawl[b].at <= Len(Participants(b))
    PROVE  /\ b \in network.brokers \ network.sampled
           /\ Current(b) \in network.brokers \union Edge
           /\ Current(b) \in Node /\ Current(b) # SampleNode
           /\ Current(b) \in ToSet(Participants(b))
<1>1. b \in network.brokers \ network.sampled
  BY DEF TaskFits
<1>2. Participants(b) \in Seq(network.brokers \union Edge)
  BY <1>1, NetworkTyped
<1>3. crawl[b].at \in 1 .. Len(Participants(b))
  <2>1. crawl[b].at \in Nat \ {0}
    BY DEF Typed, TaskRecord
  <2>2. Len(Participants(b)) \in Nat
    BY <1>2
  <2>3. QED
    BY <2>1, <2>2
<1>4. Current(b) \in network.brokers \union Edge /\ Current(b) \in ToSet(Participants(b))
  BY <1>2, <1>3 DEF Current, ToSet
<1>5. QED
  BY <1>1, <1>4, NetworkTyped, NodesAssumption DEF Node

(* What is upstream of a participant is upstream of who crawls it.         *)
LEMMA UpstreamGrows ==
    ASSUME NEW b \in Broker, NEW n \in Node, n \in ToSet(Participants(b))
    PROVE  n \in Upstream(b) /\ (n \in Broker => Upstream(n) \subseteq Upstream(b))
<1>1. \A nodes \in SUBSET Node : b \in nodes /\ ClosedUnderCrawling(nodes) => n \in nodes
  BY DEF ClosedUnderCrawling
<1>2. QED
  BY <1>1 DEF Upstream

LEMMA UpstreamSelf == ASSUME NEW b \in Broker PROVE b \in Upstream(b)
BY DEF Upstream, Node

(* A source of n's is a source of b's.                                     *)
LEMMA SourcesGrow ==
    ASSUME NEW b \in Broker, NEW c \in Broker, c \in ToSet(Participants(b))
    PROVE  Sources(c) \subseteq Sources(b)
<1>1. Upstream(c) \subseteq Upstream(b)
  BY UpstreamGrows DEF Node
<1>2. QED
  BY <1>1 DEF Sources

-----------------------------------------------------------------------------
(* What a step leaves alone.                                               *)

LEMMA SourcesStay ==
    ASSUME network' = network, version' = version, NEW b
    PROVE  /\ Sources(b)' = Sources(b) /\ OffersClosed' = OffersClosed
           /\ \A n, held : CameFrom(b, n, held)' <=> CameFrom(b, n, held)
<1>1. Upstream(b)' = Upstream(b)
  BY DEF Upstream, ClosedUnderCrawling, Participants
<1>2. \A n, v : Offered(n, v)' = Offered(n, v)
  BY DEF Offered
<1>3. Sources(b)' = Sources(b)
  BY <1>1, <1>2 DEF Sources
<1>4. OffersClosed' = OffersClosed
  BY DEF OffersClosed
<1>5. \A n : Visible(n, Held(Sample))' = Visible(n, Held(Sample))
  BY DEF Visible
<1>6. \A n, held : CameFrom(b, n, held)' <=> CameFrom(b, n, held)
  BY <1>3, <1>4, <1>5 DEF CameFrom
<1>7. QED
  BY <1>3, <1>4, <1>6

LEMMA OtherBroker ==
    ASSUME network' = network, version' = version, NEW b \in Broker,
           process'[b] = process[b], cache'[b] = cache[b], crawl'[b] = crawl[b],
           BrokerFits(b)
    PROVE  BrokerFits(b)'
<1>1. /\ Cached(b)' = Cached(b) /\ Participants(b)' = Participants(b)
      /\ Current(b)' = Current(b) /\ InFlight(b)' = InFlight(b)
  BY DEF Cached, Participants, Current, InFlight
<1>2. TaskFits(b)'
  BY <1>1 DEF BrokerFits, TaskFits
<1>3. SampleOnly(b)'
  BY <1>1 DEF BrokerFits, SampleOnly
<1>4. ContentFits(b)'
  BY <1>1, SourcesStay DEF BrokerFits, ContentFits
<1>5. QED
  BY <1>2, <1>3, <1>4 DEF BrokerFits

(* Each broker step is of one broker.                                      *)
LEMMA OneBroker ==
    ASSUME Inv, network' = network, version' = version, NEW b \in Broker,
           \A c \in Broker \ {b} :
              process'[c] = process[c] /\ cache'[c] = cache[c] /\ crawl'[c] = crawl[c],
           Typed', BrokerFits(b)'
    PROVE  Inv'
<1>1. ASSUME NEW c \in Broker \ {b} PROVE BrokerFits(c)'
  <2>1. BrokerFits(c)
    BY DEF Inv
  <2>2. QED
    BY <2>1, OtherBroker
<1>2. QED
  BY <1>1 DEF Inv

-----------------------------------------------------------------------------
(* Starting and stopping.                                                  *)

LEMMA TaskTyped ==
    /\ NoTask \in TaskRecord /\ NoTask.pc = "off" /\ NoTask.at = 1
    /\ NoTask.document = None /\ NoTask.body = None
    /\ Task \in TaskRecord /\ Task.pc = "crawling" /\ Task.at = 1
    /\ Task.document = None /\ Task.body = None
    /\ \A i \in Nat \ {0} :
          LET task == [Task EXCEPT !.at = i]
          IN  /\ task \in TaskRecord /\ task.pc = "crawling" /\ task.at = i
              /\ task.document = None /\ task.body = None
<1>1. NoTask = [pc |-> "off", at |-> 1, document |-> None, body |-> None]
  BY DEF NoTask, FirstParticipant
<1>2. Task = [pc |-> "crawling", at |-> 1, document |-> None, body |-> None]
  BY <1>1 DEF Task
<1>3. \A i \in Nat \ {0} :
         [Task EXCEPT !.at = i] = [pc |-> "crawling", at |-> i, document |-> None, body |-> None]
  BY <1>2
<1>4. QED
  BY <1>1, <1>2, <1>3 DEF TaskRecord

LEMMA StartKeeps == ASSUME Inv, NEW b \in Broker, Start(b) PROVE Inv'
<1> DEFINE task == IF b \in network.sampled THEN NoTask ELSE Task
<1>1. Typed /\ BrokerFits(b)
  BY DEF Inv
<1>2. /\ network' = network /\ version' = version /\ cache' = cache
      /\ b \in network.brokers
      /\ process' = [process EXCEPT ![b] = "started"]
      /\ crawl' = [crawl EXCEPT ![b] = task]
      /\ faults' = faults /\ crashes' = crashes
  BY DEF Start
<1>3. task \in TaskRecord
  BY TaskTyped
<1> HIDE DEF task
<1>4. Typed'
  BY <1>1, <1>2, <1>3 DEF Typed
<1>5. crawl'[b] = task /\ process'[b] = "started"
  BY <1>1, <1>2 DEF Typed
<1>6. TaskFits(b)'
  <2>1. ~InFlight(b)' /\ crawl'[b].document = None /\ crawl'[b].body = None
    BY <1>5, TaskTyped DEF task, InFlight
  <2>2. crawl'[b].pc # "off" => b \in network.brokers \ network.sampled /\ crawl'[b].at = 1
    BY <1>2, <1>5, TaskTyped DEF task
  <2>3. crawl'[b].pc # "off" => 1 <= Len(Participants(b)) + 1
    <3>1. b \in network.brokers \ network.sampled => Len(Participants(b)) \in Nat
      BY <1>1, NetworkTyped
    <3>2. QED
      BY <2>2, <3>1
  <2>4. Participants(b)' = Participants(b)
    BY <1>2 DEF Participants
  <2>5. QED
    BY <1>2, <2>1, <2>2, <2>3, <2>4 DEF TaskFits
<1>7. SampleOnly(b)' /\ ContentFits(b)'
  <2>1. Cached(b)' = Cached(b) /\ ~InFlight(b)'
    BY <1>2, <1>5, TaskTyped DEF Cached, InFlight, task
  <2>2. SampleOnly(b)'
    BY <1>1, <1>2, <1>5, <2>1 DEF BrokerFits, SampleOnly
  <2>3. ContentFits(b)'
    BY <1>1, <1>2, <2>1, SourcesStay DEF BrokerFits, ContentFits
  <2>4. QED
    BY <2>2, <2>3
<1>8. BrokerFits(b)'
  BY <1>6, <1>7 DEF BrokerFits
<1>9. \A c \in Broker \ {b} :
         process'[c] = process[c] /\ cache'[c] = cache[c] /\ crawl'[c] = crawl[c]
  BY <1>1, <1>2 DEF Typed
<1>10. QED
  BY <1>2, <1>4, <1>8, <1>9, OneBroker

LEMMA SeedKeeps == ASSUME Inv, NEW b \in Broker, Seed(b) PROVE Inv'
<1>1. Typed /\ BrokerFits(b)
  BY DEF Inv
<1>2. /\ network' = network /\ version' = version /\ process' = process /\ crawl' = crawl
      /\ cache' = [cache EXCEPT ![b][SampleNode] = Held(Sample)]
      /\ b \in network.sampled
      /\ faults' = faults /\ crashes' = crashes
  BY DEF Seed, Seeds
<1>3. /\ SampleNode \in Node /\ Held(Sample) \in HeldCatalog
      /\ b \in network.brokers /\ b \notin Edge
  BY <1>1, <1>2, SampleHeld, NetworkTyped, NodesAssumption DEF Node
<1>4. Typed'
  BY <1>1, <1>2, <1>3 DEF Typed
<1>5. /\ cache'[b][SampleNode] = Held(Sample)
      /\ \A n \in Node \ {SampleNode} : cache'[b][n] = cache[b][n]
  BY <1>1, <1>2, <1>3 DEF Typed
<1>6. /\ Participants(b)' = Participants(b) /\ Current(b)' = Current(b)
      /\ InFlight(b)' = InFlight(b)
  BY <1>2 DEF Participants, Current, InFlight
<1>7. TaskFits(b)'
  BY <1>1, <1>2, <1>6 DEF BrokerFits, TaskFits
<1>8. \A n \in Cached(b)' : n = SampleNode /\ cache'[b][n] = Held(Sample)
  BY <1>1, <1>2, <1>5 DEF BrokerFits, SampleOnly, Cached
<1>9. SampleOnly(b)'
  <2>1. process'[b] = "serving" => SampleNode \in Cached(b)'
    <3>1. process[b] # "serving"
      BY DEF Seed
    <3>2. QED
      BY <1>2, <3>1
  <2>2. QED
    BY <1>8, <2>1 DEF SampleOnly
<1>10. CameFrom(b, SampleNode, Held(Sample))
  <2>1. Offered(b, 1) = Held(Sample)
    BY <1>2, <1>3 DEF Offered
  <2>2. Offered(b, 1) \in Sources(b)
    BY <1>3, UpstreamSelf DEF Sources
  <2>3. Within(Held(Sample), Sources(b))
    <3>1. Held(Sample) \in Sources(b)
      BY <2>1, <2>2
    <3> HIDE DEF Sources
    <3>2. QED
      BY <3>1 DEF Within
  <2>4. SampleNode \notin network.brokers /\ SampleNode \notin network.sampled
    BY <1>1, NetworkTyped, NodesAssumption
  <2>5. QED
    BY <2>3, <2>4, SampleHeld DEF CameFrom
<1>11. ContentFits(b)'
  <2>1. \A n \in Cached(b)' : CameFrom(b, n, cache'[b][n])
    BY <1>8, <1>10
  <2>2. ~InFlight(b)
    BY <1>1, <1>2 DEF BrokerFits, TaskFits, InFlight
  <2>3. QED
    BY <1>2, <1>6, <2>1, <2>2, SourcesStay DEF ContentFits
<1>12. BrokerFits(b)'
  BY <1>7, <1>9, <1>11 DEF BrokerFits
<1>13. \A c \in Broker \ {b} :
          process'[c] = process[c] /\ cache'[c] = cache[c] /\ crawl'[c] = crawl[c]
  BY <1>1, <1>2 DEF Typed
<1>14. QED
  BY <1>2, <1>4, <1>12, <1>13, OneBroker

LEMMA BindKeeps == ASSUME Inv, NEW b \in Broker, Bind(b) PROVE Inv'
<1>1. Typed /\ BrokerFits(b)
  BY DEF Inv
<1>2. /\ network' = network /\ version' = version /\ cache' = cache /\ crawl' = crawl
      /\ process' = [process EXCEPT ![b] = "serving"]
      /\ b \in network.sampled => cache[b][SampleNode] # None
      /\ faults' = faults /\ crashes' = crashes
  BY DEF Bind, Ready
<1>3. Typed'
  BY <1>1, <1>2 DEF Typed
<1>4. /\ Participants(b)' = Participants(b) /\ Current(b)' = Current(b)
      /\ InFlight(b)' = InFlight(b) /\ Cached(b)' = Cached(b)
  BY <1>2 DEF Participants, Current, InFlight, Cached
<1>5. TaskFits(b)' /\ ContentFits(b)'
  BY <1>1, <1>2, <1>4, SourcesStay DEF BrokerFits, TaskFits, ContentFits
<1>6. SampleOnly(b)'
  BY <1>1, <1>2, <1>4 DEF BrokerFits, SampleOnly, Cached, Node
<1>7. BrokerFits(b)'
  BY <1>5, <1>6 DEF BrokerFits
<1>8. \A c \in Broker \ {b} :
         process'[c] = process[c] /\ cache'[c] = cache[c] /\ crawl'[c] = crawl[c]
  BY <1>1, <1>2 DEF Typed
<1>9. QED
  BY <1>2, <1>3, <1>7, <1>8, OneBroker

LEMMA CrashKeeps == ASSUME Inv, NEW b \in Broker, Crash(b) PROVE Inv'
<1>1. Typed /\ BrokerFits(b)
  BY DEF Inv
<1>2. /\ network' = network /\ version' = version
      /\ process' = [process EXCEPT ![b] = "down"]
      /\ cache' = [cache EXCEPT ![b] = [n \in Node |-> None]]
      /\ crawl' = [crawl EXCEPT ![b] = NoTask]
      /\ crashes < MaxCrashes /\ crashes' = crashes + 1 /\ faults' = faults
  BY DEF Crash
<1>3. Typed'
  <2>1. crashes' \in 0 .. MaxCrashes
    BY <1>1, <1>2, BoundsAssumption DEF Typed
  <2>2. NoTask \in TaskRecord
    BY TaskTyped
  <2>3. QED
    BY <1>1, <1>2, <2>1, <2>2 DEF Typed
<1>4. /\ process'[b] = "down" /\ cache'[b] = [n \in Node |-> None] /\ crawl'[b] = NoTask
  BY <1>1, <1>2 DEF Typed
<1>5. Cached(b)' = {} /\ ~InFlight(b)'
  BY <1>4, TaskTyped DEF Cached, InFlight
<1>6. TaskFits(b)' /\ SampleOnly(b)' /\ ContentFits(b)'
  BY <1>4, <1>5, TaskTyped DEF TaskFits, SampleOnly, ContentFits
<1>7. BrokerFits(b)'
  BY <1>6 DEF BrokerFits
<1>8. \A c \in Broker \ {b} :
         process'[c] = process[c] /\ cache'[c] = cache[c] /\ crawl'[c] = crawl[c]
  BY <1>1, <1>2 DEF Typed
<1>9. QED
  BY <1>2, <1>3, <1>7, <1>8, OneBroker

-----------------------------------------------------------------------------
(* A cycle.                                                                *)

(* A step that only moves the task of b on.                                *)
LEMMA TaskMoves ==
    ASSUME Inv, NEW b \in Broker, NEW task \in TaskRecord,
           network' = network, version' = version, process' = process, cache' = cache,
           crawl' = [crawl EXCEPT ![b] = task],
           faults' \in 0 .. MaxFaults, crashes' = crashes,
           b \in network.brokers \ network.sampled,
           task.at <= Len(Participants(b)) + 1,
           task.pc = "crawling", task.document = None, task.body = None
    PROVE  Inv'
<1>1. Typed /\ BrokerFits(b)
  BY DEF Inv
<1>2. Typed'
  BY <1>1 DEF Typed
<1>3. crawl'[b] = task /\ \A c \in Broker \ {b} : crawl'[c] = crawl[c]
  BY <1>1 DEF Typed
<1>4. Participants(b)' = Participants(b) /\ Cached(b)' = Cached(b) /\ ~InFlight(b)'
  BY <1>3 DEF Participants, Cached, InFlight
<1>5. TaskFits(b)'
  BY <1>3, <1>4 DEF TaskFits
<1>6. SampleOnly(b)' /\ ContentFits(b)'
  BY <1>1, <1>4, SourcesStay DEF BrokerFits, SampleOnly, ContentFits
<1>7. BrokerFits(b)'
  BY <1>5, <1>6 DEF BrokerFits
<1>8. QED
  BY <1>2, <1>3, <1>7, OneBroker

LEMMA TickKeeps == ASSUME Inv, NEW b \in Broker, Tick(b) PROVE Inv'
<1>1. Typed /\ TaskFits(b) /\ crawl[b].pc = "crawling"
  BY DEF Inv, BrokerFits, Tick
<1>2. b \in network.brokers \ network.sampled
  BY <1>1 DEF TaskFits
<1>3. Len(Participants(b)) \in Nat
  BY <1>1, <1>2, NetworkTyped
<1>4. Task.at <= Len(Participants(b)) + 1
  BY <1>3, TaskTyped
<1>5. faults' \in 0 .. MaxFaults
  BY <1>1 DEF Tick, Typed
<1>6. QED
  BY <1>2, <1>4, <1>5, TaskTyped, TaskMoves DEF Tick

LEMMA FetchFailsKeeps == ASSUME Inv, NEW b \in Broker, FetchFails(b) PROVE Inv'
<1> DEFINE task == [crawl[b] EXCEPT !.at = @ + 1]
<1>1. Typed /\ TaskFits(b) /\ crawl[b].pc = "crawling" /\ crawl[b] \in TaskRecord
  BY DEF Inv, BrokerFits, FetchFails, Typed
<1>2. b \in network.brokers \ network.sampled
  BY <1>1 DEF TaskFits
<1>3. Len(Participants(b)) \in Nat
  BY <1>1, <1>2, NetworkTyped
<1>4. /\ task \in TaskRecord /\ task.pc = "crawling" /\ task.at = crawl[b].at + 1
      /\ task.document = crawl[b].document /\ task.body = crawl[b].body
  BY <1>1 DEF TaskRecord
<1>5. task.document = None /\ task.body = None
  BY <1>1, <1>4 DEF TaskFits, InFlight
<1>6. task.at <= Len(Participants(b)) + 1
  <2>1. crawl[b].at <= Len(Participants(b)) /\ crawl[b].at \in Nat
    BY <1>1 DEF FetchFails, MoreParticipants, TaskRecord
  <2>2. QED
    BY <1>3, <1>4, <2>1
<1>7. crawl' = [crawl EXCEPT ![b] = task]
  BY DEF FetchFails, AfterFailure
<1>8. faults' \in 0 .. MaxFaults
  <2>1. faults \in 0 .. MaxFaults
    BY <1>1 DEF Typed
  <2>2. faults' = faults \/ (faults < MaxFaults /\ faults' = faults + 1)
    BY DEF FetchFails
  <2>3. QED
    BY <2>1, <2>2, BoundsAssumption
<1>9. /\ network' = network /\ version' = version /\ process' = process /\ cache' = cache
      /\ crashes' = crashes
  BY DEF FetchFails
<1> HIDE DEF task
<1>10. QED
  BY <1>2, <1>4, <1>5, <1>6, <1>7, <1>8, <1>9, TaskMoves

(* The task of b while it has an answer in hand.                           *)
LEMMA TaskInFlight ==
    ASSUME Inv, NEW b \in Broker, InFlight(b)
    PROVE  /\ Typed /\ BrokerFits(b) /\ crawl[b] \in TaskRecord
           /\ b \in network.brokers \ network.sampled
           /\ crawl[b].at <= Len(Participants(b)) /\ crawl[b].body \in ParsedCatalog
           /\ Current(b) \in Node /\ Current(b) # SampleNode
           /\ CameFrom(b, Current(b), Held(crawl[b].body))
<1>1. Typed /\ BrokerFits(b) /\ crawl[b] \in TaskRecord
  BY DEF Inv, Typed
<1>2. crawl[b].pc # "off" /\ crawl[b].at <= Len(Participants(b)) /\ crawl[b].body \in ParsedCatalog
  BY <1>1 DEF BrokerFits, TaskFits, InFlight
<1>3. QED
  BY <1>1, <1>2, CurrentTyped DEF BrokerFits, ContentFits

LEMMA RemovePriorKeeps == ASSUME Inv, NEW b \in Broker, RemovePrior(b) PROVE Inv'
<1> DEFINE n == Current(b)
           task == [crawl[b] EXCEPT !.pc = "inserting"]
<1>1. InFlight(b)
  BY DEF RemovePrior, InFlight
<1>2. /\ Typed /\ BrokerFits(b) /\ crawl[b] \in TaskRecord
      /\ b \in network.brokers \ network.sampled
      /\ crawl[b].at <= Len(Participants(b)) /\ crawl[b].body \in ParsedCatalog
      /\ n \in Node
      /\ CameFrom(b, n, Held(crawl[b].body))
  BY <1>1, TaskInFlight
<1>3. /\ network' = network /\ version' = version /\ process' = process
      /\ cache' = [cache EXCEPT ![b][n] = None]
      /\ crawl' = [crawl EXCEPT ![b] = task]
      /\ faults' = faults /\ crashes' = crashes
  BY DEF RemovePrior
<1>4. /\ task \in TaskRecord /\ task.pc = "inserting" /\ task.at = crawl[b].at
      /\ task.document = crawl[b].document /\ task.body = crawl[b].body
  BY <1>2 DEF TaskRecord
<1> HIDE DEF n, task
<1>5. Typed'
  BY <1>2, <1>3, <1>4 DEF Typed
<1>6. crawl'[b] = task
  BY <1>2, <1>3 DEF Typed
<1>7. /\ cache'[b][n] = None
      /\ \A m \in Node \ {n} : cache'[b][m] = cache[b][m]
  BY <1>2, <1>3 DEF Typed
<1>8. Participants(b)' = Participants(b) /\ Current(b)' = n /\ InFlight(b)'
  BY <1>3, <1>4, <1>6 DEF Participants, Current, InFlight, n
<1>9. TaskFits(b)'
  <2>1. Len(Participants(b)) \in Nat /\ crawl[b].at \in Nat
    BY <1>2, NetworkTyped DEF TaskRecord
  <2>2. crawl[b].at <= Len(Participants(b)) + 1
    BY <1>2, <2>1
  <2>3. /\ crawl[b].document \in Document
        /\ crawl[b].body = ParseCatalogResponse(crawl[b].document)
    BY <1>1, <1>2 DEF BrokerFits, TaskFits
  <2>4. QED
    BY <1>2, <1>3, <1>4, <1>6, <1>8, <2>2, <2>3 DEF TaskFits
<1>10. SampleOnly(b)'
  BY <1>2, <1>3 DEF SampleOnly
<1>11. \A m \in Cached(b)' : m \in Cached(b) /\ cache'[b][m] = cache[b][m]
  BY <1>7 DEF Cached
<1>12. ContentFits(b)'
  <2>1. \A m \in Cached(b)' : CameFrom(b, m, cache'[b][m])
    BY <1>2, <1>11 DEF BrokerFits, ContentFits
  <2>2. CameFrom(b, n, Held(crawl'[b].body))
    BY <1>2, <1>4, <1>6
  <2>3. QED
    BY <1>3, <1>8, <2>1, <2>2, SourcesStay DEF ContentFits
<1>13. BrokerFits(b)'
  BY <1>9, <1>10, <1>12 DEF BrokerFits
<1>14. \A c \in Broker \ {b} :
          process'[c] = process[c] /\ cache'[c] = cache[c] /\ crawl'[c] = crawl[c]
  BY <1>2, <1>3 DEF Typed
<1>15. QED
  BY <1>3, <1>5, <1>13, <1>14, OneBroker

LEMMA InsertNewKeeps == ASSUME Inv, NEW b \in Broker, InsertNew(b) PROVE Inv'
<1> DEFINE n == Current(b)
           held == Held(crawl[b].body)
           task == [Task EXCEPT !.at = crawl[b].at + 1]
<1>1. InFlight(b)
  BY DEF InsertNew, InFlight
<1>2. /\ Typed /\ BrokerFits(b) /\ crawl[b] \in TaskRecord
      /\ b \in network.brokers \ network.sampled
      /\ crawl[b].at <= Len(Participants(b)) /\ held \in HeldCatalog
      /\ n \in Node
      /\ CameFrom(b, n, held)
  BY <1>1, TaskInFlight, HeldTyped
<1>3. /\ network' = network /\ version' = version /\ process' = process
      /\ cache' = [cache EXCEPT ![b][n] = held]
      /\ crawl' = [crawl EXCEPT ![b] = task]
      /\ faults' = faults /\ crashes' = crashes
  BY DEF InsertNew
<1>4. /\ task \in TaskRecord /\ task.pc = "crawling" /\ task.at = crawl[b].at + 1
      /\ task.document = None /\ task.body = None
      /\ task.at <= Len(Participants(b)) + 1
  <2>1. crawl[b].at \in Nat \ {0} /\ Len(Participants(b)) \in Nat
    BY <1>2, NetworkTyped DEF TaskRecord
  <2>2. crawl[b].at + 1 \in Nat \ {0} /\ crawl[b].at + 1 <= Len(Participants(b)) + 1
    BY <1>2, <2>1
  <2>3. QED
    BY <2>2, TaskTyped
<1> HIDE DEF n, held, task
<1>5. Typed'
  BY <1>2, <1>3, <1>4 DEF Typed
<1>6. crawl'[b] = task
  BY <1>2, <1>3 DEF Typed
<1>7. /\ cache'[b][n] = held
      /\ \A m \in Node \ {n} : cache'[b][m] = cache[b][m]
  BY <1>2, <1>3 DEF Typed
<1>8. Participants(b)' = Participants(b) /\ ~InFlight(b)'
  BY <1>3, <1>4, <1>6 DEF Participants, InFlight
<1>9. TaskFits(b)'
  BY <1>2, <1>3, <1>4, <1>6, <1>8 DEF TaskFits
<1>10. SampleOnly(b)'
  BY <1>2, <1>3 DEF SampleOnly
<1>11. ContentFits(b)'
  <2>1. ASSUME NEW m \in Cached(b)' PROVE CameFrom(b, m, cache'[b][m])
    <3>1. CASE m = n
      BY <1>2, <1>7, <3>1
    <3>2. CASE m # n
      BY <1>2, <1>7, <3>2 DEF Cached, BrokerFits, ContentFits
    <3>3. QED
      BY <3>1, <3>2
  <2>2. QED
    BY <1>3, <1>8, <2>1, SourcesStay DEF ContentFits
<1>12. BrokerFits(b)'
  BY <1>9, <1>10, <1>11 DEF BrokerFits
<1>13. \A c \in Broker \ {b} :
          process'[c] = process[c] /\ cache'[c] = cache[c] /\ crawl'[c] = crawl[c]
  BY <1>2, <1>3 DEF Typed
<1>14. QED
  BY <1>3, <1>5, <1>12, <1>13, OneBroker

(* Sources are not forgotten when an edge participant changes its offer.   *)
LEMMA ChangeKeeps == ASSUME Inv, NEW e \in Edge, Change(e) PROVE Inv'
<1>1. Typed
  BY DEF Inv
<1>2. /\ network' = network /\ process' = process /\ cache' = cache /\ crawl' = crawl
      /\ version[e] < Len(network.offers[e])
      /\ version' = [version EXCEPT ![e] = @ + 1]
      /\ faults' = faults /\ crashes' = crashes
  BY DEF Change
<1>3. \A x \in Edge : Len(network.offers[x]) \in Nat
  BY <1>1, NetworkTyped
<1>4. \A x \in Edge : /\ version'[x] \in Nat \ {0} /\ version[x] \in Nat
                      /\ version[x] <= version'[x] /\ version'[x] <= Len(network.offers[x])
  BY <1>1, <1>2, <1>3 DEF Typed
<1>5. Typed'
  <2>1. version' \in [Edge -> Nat \ {0}]
    BY <1>1, <1>2, <1>4 DEF Typed
  <2>2. QED
    BY <1>1, <1>2, <1>4, <2>1 DEF Typed
<1>6. ASSUME NEW b \in Broker PROVE Sources(b) \subseteq Sources(b)'
  <2>1. Upstream(b)' = Upstream(b)
    BY <1>2 DEF Upstream, ClosedUnderCrawling, Participants
  <2>2. \A n, v : Offered(n, v)' = Offered(n, v)
    BY <1>2 DEF Offered
  <2>3. \A n \in Edge : \A v \in 1 .. version[n] : v \in 1 .. version'[n]
    BY <1>4
  <2> SUFFICES ASSUME NEW n \in Upstream(b),
                      NEW v \in IF n \in Edge THEN 1 .. version[n] ELSE {1}
               PROVE  Offered(n, v) \in Sources(b)'
    BY DEF Sources
  <2>4. v \in IF n \in Edge THEN 1 .. version'[n] ELSE {1}
    BY <2>3
  <2>5. QED
    BY <2>1, <2>2, <2>4 DEF Sources
<1>7. ASSUME NEW b \in Broker, NEW n, NEW held, CameFrom(b, n, held) PROVE CameFrom(b, n, held)'
  <2>1. Within(held, Sources(b)) => Within(held, Sources(b)')
    <3>1. Sources(b) \subseteq Sources(b)'
      BY <1>6
    <3>2. QED
      BY <3>1 DEF Within
  <2>2. OffersClosed' = OffersClosed /\ Visible(n, Held(Sample))' = Visible(n, Held(Sample))
    BY <1>2 DEF OffersClosed, Visible
  <2>3. QED
    BY <1>2, <1>7, <2>1, <2>2 DEF CameFrom, Within
<1>8. ASSUME NEW b \in Broker PROVE BrokerFits(b)'
  <2>1. /\ Participants(b)' = Participants(b) /\ Current(b)' = Current(b)
        /\ InFlight(b)' = InFlight(b) /\ Cached(b)' = Cached(b)
    BY <1>2 DEF Participants, Current, InFlight, Cached
  <2>2. TaskFits(b) /\ SampleOnly(b) /\ ContentFits(b)
    BY DEF Inv, BrokerFits
  <2>3. TaskFits(b)' /\ SampleOnly(b)'
    BY <1>2, <2>1, <2>2 DEF TaskFits, SampleOnly
  <2>4. ContentFits(b)'
    BY <1>2, <1>7, <2>1, <2>2 DEF ContentFits
  <2>5. QED
    BY <2>3, <2>4 DEF BrokerFits
<1>9. QED
  BY <1>5, <1>8 DEF Inv

-----------------------------------------------------------------------------
(* An answer.                                                              *)

(* One flat catalog is read as it is held, when no two services share an id.*)
LEMMA FlatRead ==
    ASSUME NEW held \in HeldCatalog, \A s, t \in held.services : s.id = t.id => s = t
    PROVE  Held(ParseCatalogResponse(DspCatalog(held, <<>>))) = held
<1> DEFINE document == DspCatalog(held, <<>>)
           got == Held(ParseCatalogResponse(document))
<1>1. MaxDepth \in 0 .. MaxDepth
  BY DepthAssumption
<1>2. document \in Document /\ ToSet(Entries(document)) = {document}
  BY <1>1, FlatSaid DEF Document, Entries
<1>3. DatasetsSaid(document) = held.datasets /\ ServicesSaid(document) = held.services
  BY CatalogSent
<1> HIDE DEF document
<1>4. /\ AllDatasets(ToSet(Entries(document))) = held.datasets
      /\ AllServices(ToSet(Entries(document))) = held.services
  BY <1>2, <1>3 DEF AllDatasets, AllServices
<1>5. got \in HeldCatalog /\ got.datasets = held.datasets /\ got.services = held.services
  <2> DEFINE services == AllServices(ToSet(Entries(document)))
  <2>1. /\ got \in HeldCatalog /\ got.datasets = AllDatasets(ToSet(Entries(document)))
        /\ (\A s, t \in services : s.id = t.id => s = t) => got.services = services
    BY <1>2, ParsedHeld
  <2> HIDE DEF got, services
  <2>2. services = held.services
    BY <1>4 DEF services
  <2>3. QED
    BY <1>4, <2>1, <2>2
<1> HIDE DEF got
<1>6. got = held
  BY <1>5 DEF HeldCatalog
<1>7. QED
  BY <1>6 DEF got, document

LEMMA FromEdge ==
    ASSUME Typed, NEW b \in Broker, NEW e \in Edge, e \in ToSet(Participants(b)),
           NEW document \in Documents(e)
    PROVE  document \in Document /\ CameFrom(b, e, Held(ParseCatalogResponse(document)))
<1> DEFINE held == Held(ParseCatalogResponse(document))
<1>1. e \notin Broker /\ e \notin network.brokers /\ e \notin network.sampled /\ e \in Node
  BY NodesAssumption, NetworkTyped DEF Node
<1>2. document = network.offers[e][version[e]]
  BY <1>1 DEF Documents
<1>3. network.offers[e] \in Seq(Document)
  BY NetworkTyped
<1>4. version[e] \in 1 .. version[e] /\ version[e] \in DOMAIN network.offers[e]
  <2>1. version[e] \in Nat \ {0} /\ version[e] <= Len(network.offers[e])
    BY DEF Typed
  <2>2. QED
    BY <1>3, <2>1
<1>5. document \in Document
  BY <1>2, <1>3, <1>4
<1>6. held = Offered(e, version[e])
  BY <1>2 DEF Offered
<1>7. e \in Upstream(b)
  BY <1>1, UpstreamGrows
<1>8. Offered(e, version[e]) \in Sources(b)
  BY <1>4, <1>7 DEF Sources
<1>9. OffersClosed => Resolves(held)
  BY <1>2, <1>4, <1>5, ClosedResolves DEF OffersClosed
<1> HIDE DEF held
<1>10. Within(held, Sources(b))
  <2>1. held \in Sources(b)
    BY <1>6, <1>8
  <2> HIDE DEF Sources
  <2>2. QED
    BY <2>1 DEF Within
<1>11. CameFrom(b, e, held)
  BY <1>1, <1>9, <1>10 DEF CameFrom
<1>12. QED
  BY <1>5, <1>11 DEF held

LEMMA FromBroker ==
    ASSUME Inv, NEW b \in Broker, NEW c \in network.brokers, c \in ToSet(Participants(b)),
           process[c] = "serving", NEW document \in Documents(c)
    PROVE  document \in Document /\ CameFrom(b, c, Held(ParseCatalogResponse(document)))
<1> DEFINE held == Held(ParseCatalogResponse(document))
           shown == [n \in Cached(c) |-> Visible(c, cache[c][n])]
           services == AllServices(ToSet(Entries(document)))
<1>1. Typed /\ c \in Broker /\ BrokerFits(c) /\ document \in Answers(c)
  BY NetworkTyped DEF Inv, Documents
<1>2. \A n \in Cached(c) : cache[c][n] \in HeldCatalog
  BY <1>1 DEF Typed, Cached
<1>3. /\ document \in Document
      /\ \A d \in AllDatasets(ToSet(Entries(document))) : \E n \in Cached(c) :
            d \in shown[n].datasets /\ shown[n].services \subseteq services
      /\ \A s \in services : \E n \in Cached(c) : s \in shown[n].services
  BY <1>1, <1>2, AnswerSaid
<1>4. /\ held.datasets = AllDatasets(ToSet(Entries(document)))
      /\ held.services \subseteq services
      /\ \A s \in services : \E t \in held.services : t.id = s.id
  BY <1>3, ParsedHeld
<1>5. \A n \in Cached(c) : /\ shown[n].datasets \subseteq cache[c][n].datasets
                           /\ shown[n].services = cache[c][n].services
                           /\ network.access[c] # None =>
                                 \A d \in shown[n].datasets : d.id \in network.access[c]
  BY <1>2, VisibleTyped
<1>6. \A n \in Cached(c) : CameFrom(c, n, cache[c][n])
  BY <1>1 DEF BrokerFits, ContentFits
<1> HIDE DEF held, shown, services
<1>7. Within(held, Sources(b))
  <2> DEFINE mine == Sources(b)
             theirs == Sources(c)
  <2>1. \A n \in Cached(c) : Within(cache[c][n], theirs)
    BY <1>6 DEF CameFrom
  <2>2. theirs \subseteq mine
    BY <1>1, SourcesGrow
  <2> HIDE DEF mine, theirs
  <2>3. ASSUME NEW d \in held.datasets PROVE d \in UNION {s.datasets : s \in mine}
    <3>1. PICK n \in Cached(c) : d \in cache[c][n].datasets
      BY <1>3, <1>4, <1>5
    <3>2. QED
      BY <2>1, <2>2, <3>1 DEF Within
  <2>4. ASSUME NEW x \in held.services PROVE x \in UNION {s.services : s \in mine}
    <3>1. PICK n \in Cached(c) : x \in cache[c][n].services
      BY <1>3, <1>4, <1>5
    <3>2. QED
      BY <2>1, <2>2, <3>1 DEF Within
  <2>5. Within(held, mine)
    BY <2>3, <2>4 DEF Within
  <2>6. QED
    BY <2>5 DEF mine
<1>8. ASSUME OffersClosed PROVE Resolves(held)
  <2> SUFFICES ASSUME NEW d \in held.datasets, NEW i \in DOMAIN d.distributions,
                      d.distributions[i] # NoText
               PROVE  \E t \in held.services : t.id = d.distributions[i]
    BY DEF Resolves
  <2>1. PICK n \in Cached(c) : d \in shown[n].datasets /\ shown[n].services \subseteq services
    BY <1>3, <1>4
  <2>2. Resolves(cache[c][n])
    BY <1>6, <1>8 DEF CameFrom
  <2>3. PICK s \in cache[c][n].services : s.id = d.distributions[i]
    BY <1>5, <2>1, <2>2 DEF Resolves
  <2>4. s \in services
    BY <1>5, <2>1, <2>3
  <2>5. QED
    BY <1>4, <2>3, <2>4
<1>9. network.access[c] # None => \A d \in held.datasets : d.id \in network.access[c]
  BY <1>3, <1>4, <1>5
<1>10. ASSUME c \in network.sampled PROVE held = Visible(c, Held(Sample))
  <2> DEFINE seen == Visible(c, Held(Sample))
  <2>1. Cached(c) = {SampleNode} /\ cache[c][SampleNode] = Held(Sample)
    BY <1>1, <1>10 DEF BrokerFits, SampleOnly
  <2>2. document = DspCatalog(seen, <<>>)
    <3>1. Cardinality(Cached(c)) <= 1
      <4>1. Cardinality({SampleNode}) = 1
        BY FS_Singleton
      <4>2. QED
        BY <2>1, <4>1
    <3>2. (CHOOSE n \in Cached(c) : TRUE) = SampleNode /\ Cached(c) # {}
      BY <2>1
    <3>3. Answers(c) = {DspCatalog(shown[SampleNode], <<>>)}
      BY <3>1, <3>2 DEF Answers, Cached, shown
    <3>4. shown[SampleNode] = seen
      BY <2>1 DEF shown
    <3>5. QED
      BY <1>1, <3>3, <3>4
  <2>3. /\ seen \in HeldCatalog
        /\ \A s, t \in seen.services : s.id = t.id => s = t
    BY SampleHeld, VisibleTyped
  <2> HIDE DEF seen
  <2>4. held = seen
    BY <2>2, <2>3, FlatRead DEF held
  <2>5. QED
    BY <2>4 DEF seen
<1>11. CameFrom(b, c, held)
  BY <1>7, <1>8, <1>9, <1>10 DEF CameFrom
<1>12. QED
  BY <1>3, <1>11 DEF held

LEMMA FetchKeeps == ASSUME Inv, NEW b \in Broker, Fetch(b) PROVE Inv'
<1> DEFINE n == Current(b)
<1>1. Typed /\ BrokerFits(b) /\ crawl[b] \in TaskRecord
  BY DEF Inv, Typed
<1>2. /\ crawl[b].pc = "crawling" /\ crawl[b].at <= Len(Participants(b))
      /\ Reachable(b, n)
      /\ network' = network /\ version' = version /\ process' = process /\ cache' = cache
      /\ faults' = faults /\ crashes' = crashes
  BY DEF Fetch, MoreParticipants
<1>3. /\ b \in network.brokers \ network.sampled
      /\ n \in network.brokers \union Edge /\ n \in ToSet(Participants(b))
  BY <1>1, <1>2, CurrentTyped DEF BrokerFits
<1>4. PICK document \in Documents(n) :
         crawl' = [crawl EXCEPT ![b].pc = "removing", ![b].document = document,
                                ![b].body = ParseCatalogResponse(document)]
  BY DEF Fetch
<1> DEFINE body == ParseCatalogResponse(document)
           task == [crawl[b] EXCEPT !.pc = "removing", !.document = document, !.body = body]
<1>5. document \in Document /\ CameFrom(b, n, Held(body))
  <2>1. CASE n \in Edge
    BY <1>1, <1>3, <2>1, FromEdge
  <2>2. CASE n \in network.brokers
    <3>1. process[n] = "serving"
      BY <1>1, <1>2, <2>2, NetworkTyped DEF Reachable
    <3>2. QED
      BY <1>3, <2>2, <3>1, FromBroker
  <2>3. QED
    BY <1>3, <2>1, <2>2
<1>6. body \in ParsedCatalog
  BY <1>5, ParsedHeld
<1>7. crawl' = [crawl EXCEPT ![b] = task]
  BY <1>1, <1>4 DEF Typed
<1> HIDE DEF n, body
<1>8. /\ task \in TaskRecord /\ task.pc = "removing" /\ task.at = crawl[b].at
      /\ task.document = document /\ task.body = body
  BY <1>1, <1>5, <1>6 DEF TaskRecord
<1> HIDE DEF task
<1>9. Typed'
  BY <1>1, <1>2, <1>7, <1>8 DEF Typed
<1>10. crawl'[b] = task
  BY <1>1, <1>7 DEF Typed
<1>11. /\ Participants(b)' = Participants(b) /\ Current(b)' = n /\ InFlight(b)'
       /\ Cached(b)' = Cached(b)
  BY <1>2, <1>8, <1>10 DEF Participants, Current, InFlight, Cached, n
<1>12. TaskFits(b)'
  <2>1. Len(Participants(b)) \in Nat /\ crawl[b].at \in Nat
    BY <1>1, <1>3, NetworkTyped DEF TaskRecord
  <2>2. crawl[b].at <= Len(Participants(b)) + 1
    BY <1>2, <2>1
  <2>3. QED
    BY <1>2, <1>3, <1>5, <1>6, <1>8, <1>10, <1>11, <2>2 DEF TaskFits, body
<1>13. SampleOnly(b)'
  BY <1>2, <1>3 DEF SampleOnly
<1>14. ContentFits(b)'
  <2>1. \A m \in Cached(b)' : CameFrom(b, m, cache'[b][m])
    BY <1>1, <1>2, <1>11 DEF BrokerFits, ContentFits
  <2>2. CameFrom(b, n, Held(crawl'[b].body))
    BY <1>5, <1>8, <1>10
  <2>3. QED
    BY <1>2, <1>11, <2>1, <2>2, SourcesStay DEF ContentFits
<1>15. BrokerFits(b)'
  BY <1>12, <1>13, <1>14 DEF BrokerFits
<1>16. \A c \in Broker \ {b} :
          process'[c] = process[c] /\ cache'[c] = cache[c] /\ crawl'[c] = crawl[c]
  BY <1>1, <1>2, <1>7 DEF Typed
<1>17. QED
  BY <1>2, <1>9, <1>15, <1>16, OneBroker

-----------------------------------------------------------------------------
LEMMA InitHolds == Init => Inv
<1> SUFFICES ASSUME Init PROVE Inv
  OBVIOUS
<1>1. \A e \in Edge : Len(network.offers[e]) \in Nat \ {0}
  <2>1. \A e \in Edge : network.offers[e] \in Seq(Document) /\ network.offers[e] # <<>>
    BY NetworksAssumption DEF Init
  <2>2. QED
    BY <2>1
<1>2. Typed
  <2>1. \A e \in Edge : version[e] = 1 /\ 1 <= Len(network.offers[e])
    BY <1>1 DEF Init
  <2>2. 0 \in 0 .. MaxFaults /\ 0 \in 0 .. MaxCrashes
    BY BoundsAssumption
  <2>3. QED
    BY <2>1, <2>2, TaskTyped DEF Init, Typed
<1>3. ASSUME NEW b \in Broker PROVE BrokerFits(b)
  <2>1. /\ process[b] = "down" /\ crawl[b] = NoTask /\ Cached(b) = {}
    BY DEF Init, Cached
  <2>2. QED
    BY <2>1, TaskTyped DEF BrokerFits, TaskFits, SampleOnly, ContentFits, InFlight
<1>4. QED
  BY <1>2, <1>3 DEF Inv

LEMMA InvKept == Inv /\ [Next]_vars => Inv'
<1> SUFFICES ASSUME Inv, [Next]_vars PROVE Inv'
  OBVIOUS
<1>1. ASSUME NEW b \in Broker, CrawlStep(b) PROVE Inv'
  BY <1>1, TickKeeps, FetchKeeps, FetchFailsKeeps, RemovePriorKeeps, InsertNewKeeps DEF CrawlStep
<1>2. ASSUME NEW b \in Broker, Start(b) \/ Seed(b) \/ Bind(b) \/ Crash(b) PROVE Inv'
  BY <1>2, StartKeeps, SeedKeeps, BindKeeps, CrashKeeps
<1>3. ASSUME NEW e \in Edge, Change(e) PROVE Inv'
  BY <1>3, ChangeKeeps
<1>4. CASE UNCHANGED vars
  <2>1. Typed'
    BY <1>4 DEF vars, Inv, Typed
  <2>2. \A b \in Broker : BrokerFits(b)'
    BY <1>4, OtherBroker DEF vars, Inv
  <2>3. QED
    BY <2>1, <2>2 DEF Inv
<1>5. QED
  BY <1>1, <1>2, <1>3, <1>4 DEF Next

LEMMA AlwaysInv == Spec => []Inv
<1>1. QED
  BY InitHolds, InvKept, PTL DEF Spec

(***************************************************************************)
(* Every state of every network is of its type: a scheduler's position is  *)
(* one of its participants' or just past them, and an answer in hand is a  *)
(* catalog whose ids are all strings, whatever the document was.           *)
(***************************************************************************)
THEOREM TypeCorrect == Spec => []TypeOK
<1>1. Inv => TypeOK
  <2> SUFFICES ASSUME Inv PROVE TypeOK
    OBVIOUS
  <2>1. Typed
    BY DEF Inv
  <2>2. \A e \in Edge : version[e] \in DOMAIN network.offers[e]
    <3>1. \A e \in Edge : network.offers[e] \in Seq(Document)
      BY <2>1, NetworkTyped
    <3>2. QED
      BY <2>1, <3>1 DEF Typed
  <2>3. ASSUME NEW b \in Broker PROVE TaskOK(b)
    <3>1. TaskFits(b) /\ crawl[b] \in TaskRecord
      BY <2>1 DEF Inv, BrokerFits, Typed
    <3>2. crawl[b].pc # "off" => Len(Participants(b)) \in Nat
      BY <2>1, <3>1, NetworkTyped DEF TaskFits
    <3>3. crawl[b].pc # "off" => crawl[b].at \in 1 .. Len(Participants(b)) + 1
      BY <3>1, <3>2 DEF TaskFits, TaskRecord
    <3>4. QED
      BY <3>1, <3>3 DEF TaskOK, TaskFits, TaskRecord, InFlight
  <2>4. ASSUME NEW b \in Broker, NEW n \in Node, cache[b][n] # None
        PROVE  cache[b][n].datasets \subseteq Dataset /\ cache[b][n].services \subseteq DataService
    <3>1. cache[b][n] \in HeldCatalog
      BY <2>1, <2>4 DEF Typed
    <3>2. QED
      BY <3>1 DEF HeldCatalog
  <2>5. QED
    BY <2>1, <2>2, <2>3, <2>4 DEF TypeOK, Typed
<1>2. QED
  BY <1>1, AlwaysInv, PTL

(***************************************************************************)
(* Of every answer fetched, from an edge participant or from a broker, the *)
(* parser keeps each dataset with an id, as often as it is listed and in   *)
(* the order it is listed, however wide and deep the document is.          *)
(***************************************************************************)
THEOREM EveryDatasetKeptEver == Spec => []EveryDatasetKept
<1>1. Inv => EveryDatasetKept
  <2> SUFFICES ASSUME Inv, NEW b \in Parsed
               PROVE  HoldsEveryDataset(crawl[b].body, crawl[b].document)
    BY DEF EveryDatasetKept
  <2>1. /\ crawl[b].document \in Document
        /\ crawl[b].body = ParseCatalogResponse(crawl[b].document)
    BY DEF Inv, BrokerFits, TaskFits, InFlight, Parsed
  <2>2. QED
    BY <2>1, ParserKeepsOrder
<1>2. QED
  BY <1>1, AlwaysInv, PTL

(***************************************************************************)
(* Of every answer fetched, each service id mentioned is kept once, with   *)
(* the endpoint of its first mention: in `service`, then in place of an    *)
(* accessService, then in the nested catalogs.                             *)
(***************************************************************************)
THEOREM FirstServiceKept == Spec => []FirstServiceWins
<1>1. Inv => FirstServiceWins
  <2> SUFFICES ASSUME Inv, NEW b \in Parsed
               PROVE  HoldsFirstServices(crawl[b].body, crawl[b].document)
    BY DEF FirstServiceWins
  <2>1. /\ crawl[b].document \in Document
        /\ crawl[b].body = ParseCatalogResponse(crawl[b].document)
    BY DEF Inv, BrokerFits, TaskFits, InFlight, Parsed
  <2>2. QED
    BY <2>1, ParserKeepsOrder
<1>2. QED
  BY <1>1, AlwaysInv, PTL

(***************************************************************************)
(* However long a chain of brokers is, or however they crawl in circles,   *)
(* with crashes and failures at any point: what a broker lists was offered *)
(* or seeded upstream.                                                     *)
(***************************************************************************)
THEOREM NothingInventedEver == Spec => []NothingInvented
<1>1. Inv => NothingInvented
  <2> SUFFICES ASSUME Inv, NEW b \in network.brokers, NEW n \in Node, cache[b][n] # None
               PROVE  Within(cache[b][n], Sources(b))
    BY DEF NothingInvented, ListsWithin, Sources
  <2>1. b \in Broker
    BY NetworkTyped DEF Inv
  <2>2. QED
    BY <2>1 DEF Inv, BrokerFits, ContentFits, CameFrom, Cached
<1>2. QED
  BY <1>1, AlwaysInv, PTL

(***************************************************************************)
(* When every document offered names only services it has, every cached    *)
(* catalog does, over any number of brokers that merge and re-serve them.  *)
(***************************************************************************)
THEOREM ReferencesKept == Spec => []ReferencesResolve
<1>1. Inv => ReferencesResolve
  <2> SUFFICES ASSUME Inv, OffersClosed,
                      NEW b \in network.brokers, NEW n \in Node, cache[b][n] # None
               PROVE  Resolves(cache[b][n])
    BY DEF ReferencesResolve, OffersClosed
  <2>1. b \in Broker
    BY NetworkTyped DEF Inv
  <2>2. QED
    BY <2>1 DEF Inv, BrokerFits, ContentFits, CameFrom, Cached
<1>2. QED
  BY <1>1, AlwaysInv, PTL

(***************************************************************************)
(* No broker ever caches from a guarded one a dataset that its credential  *)
(* does not list, so none reaches those that crawl it in turn.             *)
(***************************************************************************)
THEOREM AccessKeptOnTheWay == Spec => []CrawledWithinAccess
<1>1. Inv => CrawledWithinAccess
  <2> SUFFICES ASSUME Inv, NEW b \in network.brokers, NEW c \in network.brokers,
                      cache[b][c] # None, network.access[c] # None,
                      NEW d \in cache[b][c].datasets
               PROVE  d.id \in network.access[c]
    BY DEF CrawledWithinAccess
  <2>1. b \in Broker /\ c \in Broker
    BY NetworkTyped DEF Inv
  <2>2. QED
    BY <2>1 DEF Inv, BrokerFits, ContentFits, CameFrom, Cached, Node
<1>2. QED
  BY <1>1, AlwaysInv, PTL

(***************************************************************************)
(* A broker without a crawler never answers before the sample is seeded,   *)
(* after any number of restarts: who crawls it caches the sample whole, or *)
(* all of it that it may see.                                              *)
(***************************************************************************)
THEOREM SampleNeverPartial == Spec => []SampleServedWhole
<1>1. Inv => SampleServedWhole
  <2> SUFFICES ASSUME Inv, NEW b \in network.brokers, NEW c \in network.sampled,
                      cache[b][c] # None
               PROVE  cache[b][c] = Visible(c, Held(Sample))
    BY DEF SampleServedWhole
  <2>1. b \in Broker /\ c \in Broker
    BY NetworkTyped DEF Inv
  <2>2. QED
    BY <2>1 DEF Inv, BrokerFits, ContentFits, CameFrom, Cached, Node
<1>2. QED
  BY <1>1, AlwaysInv, PTL
=============================================================================
