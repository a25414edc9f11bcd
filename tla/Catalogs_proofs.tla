--------------------------- MODULE Catalogs_proofs ---------------------------
(***************************************************************************)
(* What the query pipeline and the reply types of Catalogs guarantee.      *)
(***************************************************************************)
EXTENDS Catalogs, FiniteSetTheorems, TLAPS

(***************************************************************************)
(* A page of a list is a list of the same things, however far past the end *)
(* the offset points.                                                      *)
(***************************************************************************)
LEMMA PageType ==
    ASSUME NEW S, NEW s \in Seq(S), NEW q \in CatalogQuery
    PROVE  Page(s, q) \in Seq(S)
<1> DEFINE m == q.offset + 1
           n == IF q.limit = None \/ q.offset + q.limit > Len(s)
                THEN Len(s) ELSE q.offset + q.limit
<1>1. m \in Nat \ {0}
  BY DEF CatalogQuery
<1>2. n \in Nat /\ n <= Len(s)
  BY DEF CatalogQuery
<1> HIDE DEF m, n
<1>3. SubSeq(s, m, n) \in Seq(S)
  BY <1>1, <1>2
<1>4. QED
  BY <1>3 DEF Page, m, n

(* Sorting a finite set of catalogs yields a list of them.                 *)
LEMMA SortedType ==
    ASSUME NEW S, IsFiniteSet(S), NEW s \in SortedById(S)
    PROVE  s \in Seq(S)
<1>1. Cardinality(S) \in Nat
  BY FS_CardinalityType
<1>2. s \in [1 .. Cardinality(S) -> S]
  BY DEF SortedById
<1>3. QED
  BY <1>1, <1>2

(* A query answers with a list of the catalogs it selects.                 *)
LEMMA AnswersSelected ==
    ASSUME NEW S \in SUBSET Catalog, IsFiniteSet(S),
           NEW q \in CatalogQuery, NEW answer \in Answers(S, q)
    PROVE  answer \in Seq(Selected(S, q))
<1> DEFINE T == Selected(S, q)
<1>1. IsFiniteSet(T)
  BY FS_Subset DEF Selected
<1>2. PICK s \in SortedById(T) : answer = Page(s, q)
  BY DEF Answers
<1> HIDE DEF T
<1>3. s \in Seq(T)
  BY <1>1, <1>2, SortedType
<1>4. QED
  BY <1>2, <1>3, PageType DEF T

LEMMA AnswersType ==
    ASSUME NEW S \in SUBSET Catalog, IsFiniteSet(S),
           NEW q \in CatalogQuery, NEW answer \in Answers(S, q)
    PROVE  answer \in Seq(Catalog)
<1>1. answer \in Seq(Selected(S, q)) /\ Selected(S, q) \subseteq Catalog
  BY AnswersSelected DEF Selected
<1>2. QED
  BY <1>1

(* Sorting loses nothing: a list without repetition, as long as the set    *)
(* has members, lists them all.                                            *)
LEMMA SortedCovers ==
    ASSUME NEW S, IsFiniteSet(S), NEW s \in SortedById(S), NEW cat \in S
    PROVE  \E i \in DOMAIN s : s[i] = cat
<1> DEFINE n == Cardinality(S)
<1>1. n \in Nat /\ IsFiniteSet(1 .. n) /\ Cardinality(1 .. n) = n
  BY FS_CardinalityType, FS_Interval
<1>2. s \in [1 .. n -> S] /\ \A i, j \in 1 .. n : i < j => s[i] # s[j]
  BY DEF SortedById
<1> HIDE DEF n
<1>3. \A i, j \in 1 .. n : s[i] = s[j] => i = j
  BY <1>1, <1>2
<1>4. s \in Injection(1 .. n, S)
  BY <1>2, <1>3 DEF Injection, IsInjective
<1>5. s \in Surjection(1 .. n, S)
  BY <1>1, <1>4, FS_Injection DEF n
<1>6. QED
  BY <1>2, <1>5 DEF Surjection

(* A query without a page answers with every catalog it selects.           *)
LEMMA WholeAnswer ==
    ASSUME NEW S \in SUBSET Catalog, IsFiniteSet(S),
           NEW q \in CatalogQuery, q.offset = 0, q.limit = None,
           NEW answer \in Answers(S, q), NEW cat \in Selected(S, q)
    PROVE  \E i \in DOMAIN answer : answer[i] = cat
<1> DEFINE T == Selected(S, q)
<1>1. IsFiniteSet(T) /\ cat \in T
  BY FS_Subset DEF Selected
<1>2. PICK s \in SortedById(T) : answer = Page(s, q)
  BY DEF Answers
<1> HIDE DEF T
<1>3. s \in Seq(T) /\ \E i \in DOMAIN s : s[i] = cat
  BY <1>1, <1>2, SortedType, SortedCovers
<1>4. Page(s, q) = SubSeq(s, 1, Len(s))
  BY DEF Page
<1>5. SubSeq(s, 1, Len(s)) = s
  BY <1>3
<1>6. QED
  BY <1>2, <1>3, <1>4, <1>5

(* The replies each kind of call may get.                                  *)
LEMMA ReplyTypes ==
    ASSUME NEW req
    PROVE  /\ Err \in ReplyTo(req)
           /\ req.op = "upsert" => Ok(None) \in ReplyTo(req)
           /\ req.op = "delete" => \A b \in BOOLEAN : Ok(b) \in ReplyTo(req)
           /\ req.op = "query" => \A s \in Seq(Catalog) : Ok(s) \in ReplyTo(req)
  BY DEF ReplyTo, Ok, Err
=============================================================================
