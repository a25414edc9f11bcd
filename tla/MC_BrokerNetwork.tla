--------------------------- MODULE MC_BrokerNetwork ---------------------------
(***************************************************************************)
(* Networks to check.  One broker with one participant, for each of a      *)
(* choice of documents; a chain of two brokers, open or guarded; a broker  *)
(* that crawls one without a crawler of its own; two that crawl each other.*)
(***************************************************************************)
EXTENDS BrokerNetwork

CONSTANTS a, b, e1, e2

MCId == {"", "d", "x", "s", "t"}
MCUrl == {"", "u1", "u2"}

(* Services: ids under either name, hidden, and missing.                   *)
Service(id, url) == [at_id |-> id, id |-> Absent, url |-> url]
IdOnly == [at_id |-> Absent, id |-> "t", url |-> "u1"]
Hidden == [at_id |-> NotAString, id |-> "t", url |-> "u2"]
Nameless == [at_id |-> Absent, id |-> Absent, url |-> "u1"]

ByString(id) == [kind |-> "string", id |-> id]
ByObject(value) == [kind |-> "object", value |-> value]
Other == [kind |-> "other"]

DatasetWith(id, distribution) == [at_id |-> id, id |-> Absent, distribution |-> distribution]
OldName(value) == [value EXCEPT !.at_id = Absent, !.id = value.at_id]
HiddenName(value) == [value EXCEPT !.at_id = NotAString, !.id = value.at_id]

DocumentWith(services, datasets, nested) ==
    [service |-> services, dataset |-> datasets, catalog |-> nested]
Leaf(services, datasets) == DocumentWith(services, datasets, <<>>)

ServiceLists ==
    {<<>>, <<Service("s", "u1")>>, <<Service("s", "u2"), Service("s", "u1"), Nameless>>,
     <<Hidden, IdOnly>>}

DatasetLists ==
    {<<>>,
     <<DatasetWith("d", <<ByString("s"), ByObject(Service("s", "u2"))>>)>>,
     <<OldName(DatasetWith("d", <<ByObject(IdOnly)>>)), DatasetWith("d", <<Other>>)>>,
     <<HiddenName(DatasetWith("x", <<ByObject(Service("t", "u2"))>>)),
       DatasetWith("x", <<ByObject(Hidden), ByObject(Nameless)>>)>>}

NestedLists ==
    {<<>>,
     <<Leaf(<<Service("s", "u2"), IdOnly>>, <<DatasetWith("x", <<ByString("t")>>)>>)>>,
     <<DocumentWith(<<>>, <<DatasetWith("d", <<>>)>>,
                <<Leaf(<<Service("t", "u2")>>, <<DatasetWith("x", <<ByString("t")>>)>>)>>),
       Leaf(<<Service("t", "u1")>>, <<DatasetWith("d", <<ByString("t")>>)>>)>>}

Nothing == Leaf(<<>>, <<>>)

(* Two offers of e1's, and e2's, which uses a service id of e1's.          *)
Offer1 == Leaf(<<Service("s", "u1")>>, <<DatasetWith("d", <<ByString("s")>>)>>)
Offer2 == Leaf(<<>>, <<DatasetWith("x", <<ByObject(Service("s", "u2"))>>)>>)
Offer3 == Leaf(<<Service("s", "u2")>>, <<DatasetWith("d", <<ByString("s"), ByObject(IdOnly)>>)>>)

Net(brokers, sampled, crawls, gated, offers) ==
    [brokers |-> brokers, sampled |-> sampled,
     crawls |-> [c \in {a, b} |-> IF c \in DOMAIN crawls THEN crawls[c] ELSE <<>>],
     gated |-> gated, access |-> [c \in {a, b} |-> None],
     offers |-> [e \in {e1, e2} |-> IF e \in DOMAIN offers THEN offers[e] ELSE <<Nothing>>]]

OneParticipant ==
    {Net({a}, {}, [c \in {a} |-> <<e1>>], {}, [e \in {e1} |-> <<DocumentWith(s, d, n)>>])
        : s \in ServiceLists, d \in DatasetLists, n \in NestedLists}

Chain ==
    Net({a, b}, {}, [c \in {a, b} |-> IF c = a THEN <<e1, e2>> ELSE <<a>>], {e1},
        [e \in {e1, e2} |-> IF e = e1 THEN <<Offer1, Offer2>> ELSE <<Offer3>>])

CrawlsSampled ==
    Net({a, b}, {b}, [c \in {a} |-> <<b, e1>>], {e1}, [e \in {e1} |-> <<Offer2, Nothing>>])

EachOther ==
    Net({a, b}, {}, [c \in {a, b} |-> IF c = a THEN <<e1, b>> ELSE <<a>>], {},
        [e \in {e1} |-> <<Offer1, Offer2>>])

(* The first broker of the chain requires DCP of the second.               *)
Guarded == [Chain EXCEPT !.access[a] = {"d"}]

(* The same, but one may see only one of the two datasets of the sample.   *)
CrawlsGuardedSample == [CrawlsSampled EXCEPT !.access[b] = {"x"}]

MCNetworks ==
    OneParticipant \union {Chain, Guarded, CrawlsSampled, CrawlsGuardedSample, EachOther}

MCSample ==
    [datasets |-> <<[id |-> "d", distributions |-> <<"t">>],
                    [id |-> "x", distributions |-> <<"t">>]>>,
     data_services |-> <<[id |-> "t", endpoint_url |-> "u1"]>>]
=============================================================================
