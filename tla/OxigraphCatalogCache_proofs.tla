--------------------- MODULE OxigraphCatalogCache_proofs ---------------------
(***************************************************************************)
(* Theorems about the Oxigraph backend, for any nodes, catalogs, clients   *)
(* and calls.                                                              *)
(***************************************************************************)
EXTENDS OxigraphCatalogCache, Catalogs_proofs

USE DEF NonEmpty

-----------------------------------------------------------------------------
(* Type correctness.                                                       *)

(* A query has loaded finitely many catalogs: needed to type its answer.   *)
FoundFinite == \A c \in Client : IsFiniteSet(call[c].found)

TypeInv == TypeOK /\ FoundFinite

(* What TypeOK says of a client in the middle of a call.                   *)
LEMMA ActiveCall ==
    ASSUME TypeOK, NEW c \in Client, call[c].pc # "idle"
    PROVE  /\ call[c].req \in MayRequest[c]
           /\ call[c].req \in Request
           /\ call[c] \in InCall(call[c].req)
           /\ call[c].pc \in {"remove", "insert"} => call[c].req.op = "upsert"
           /\ call[c].pc \in {"check", "drop"} => call[c].req.op = "delete"
           /\ call[c].pc \in {"list", "load"} => call[c].req.op = "query"
<1>1. PICK req \in MayRequest[c] : call[c] \in InCall(req)
  BY DEF TypeOK, CallsOK, CallOK, NoCall
<1>2. call[c].req = req
  BY <1>1 DEF InCall
<1>3. req \in Request
  BY MayRequestAssumption
<1>4. req.op \in {"upsert", "delete", "query"}
  BY <1>3 DEF Request
<1>5. call[c].pc \in Accesses(req) \union {"returned"}
  BY <1>1 DEF InCall
<1>6. QED
  BY <1>1, <1>2, <1>3, <1>4, <1>5 DEF Accesses

(* Only the client that steps changes its entry of call.                   *)
LEMMA CallUpdated ==
    ASSUME TypeInv, NEW c \in Client, NEW state,
           call' = [call EXCEPT ![c] = state],
           CallOK(c, state), IsFiniteSet(state.found)
    PROVE  CallsOK' /\ FoundFinite'
<1>1. DOMAIN call' = Client /\ call'[c] = state
  BY DEF TypeInv, TypeOK, CallsOK
<1>2. \A d \in Client \ {c} : call'[d] = call[d]
  BY DEF TypeInv, TypeOK, CallsOK
<1>3. \A d \in Client : CallOK(d, call'[d])
  BY <1>1, <1>2 DEF TypeInv, TypeOK, CallsOK
<1>4. \A d \in Client : IsFiniteSet(call'[d].found)
  BY <1>1, <1>2 DEF TypeInv, FoundFinite
<1>5. QED
  BY <1>1, <1>3, <1>4 DEF CallsOK, CallOK, NoCall, InCall, FoundFinite

(* Moving to another access, or returning, keeps a call well formed.       *)
LEMMA GotoTyped ==
    ASSUME TypeInv, NEW c \in Client, call[c].pc # "idle",
           NEW pc \in Accesses(call[c].req) \union {"returned"},
           Goto(c, pc)
    PROVE  CallsOK' /\ FoundFinite'
<1> DEFINE state == [call[c] EXCEPT !.pc = pc]
<1>1. call[c].req \in MayRequest[c] /\ call[c] \in InCall(call[c].req)
  BY ActiveCall DEF TypeInv
<1>2. state \in InCall(call[c].req) /\ state.found = call[c].found
  BY <1>1 DEF InCall
<1>3. CallOK(c, state) /\ IsFiniteSet(state.found)
  BY <1>1, <1>2 DEF CallOK, TypeInv, FoundFinite
<1>4. call' = [call EXCEPT ![c] = state]
  BY DEF Goto
<1>5. QED
  BY <1>3, <1>4, CallUpdated

LEMMA FinishTyped ==
    ASSUME TypeInv, NEW c \in Client, call[c].pc # "idle",
           NEW ret \in ReplyTo(call[c].req), Finish(c, ret)
    PROVE  CallsOK' /\ FoundFinite'
<1> DEFINE state == [call[c] EXCEPT !.pc = "returned", !.ret = ret]
<1>1. call[c].req \in MayRequest[c] /\ call[c] \in InCall(call[c].req)
  BY ActiveCall DEF TypeInv
<1>2. state \in InCall(call[c].req) /\ state.found = call[c].found
  BY <1>1 DEF InCall
<1>3. CallOK(c, state) /\ IsFiniteSet(state.found)
  BY <1>1, <1>2 DEF CallOK, TypeInv, FoundFinite
<1>4. call' = [call EXCEPT ![c] = state]
  BY <1>1 DEF Finish, InCall
<1>5. QED
  BY <1>3, <1>4, CallUpdated

(* The store's own variables, and the history, stay well typed.            *)
LEMMA StoreTyped ==
    ASSUME TypeOK, NEW n \in NodeId, NEW cat \in Catalog,
           StoreRemove(n) \/ StoreInsert(n, cat) \/ StoreUnchanged
    PROVE  /\ quads' \in [NodeId -> SUBSET Catalog]
           /\ graph_names' \subseteq NodeId
           /\ steady' \in [Client -> SUBSET NodeId]
<1>1. CASE StoreRemove(n)
  BY <1>1 DEF TypeOK, StoreRemove, SetQuads
<1>2. CASE StoreInsert(n, cat)
  BY <1>2 DEF TypeOK, StoreInsert, SetQuads
<1>3. CASE StoreUnchanged
  BY <1>3 DEF TypeOK, StoreUnchanged
<1>4. QED
  BY <1>1, <1>2, <1>3

LEMMA TypeInvInit == Init => TypeInv
<1> SUFFICES ASSUME Init PROVE TypeInv
  OBVIOUS
<1>1. \A c \in Client : call[c] = NoCall /\ IsFiniteSet(call[c].found)
  BY FS_EmptySet DEF Init, NoCall
<1>2. QED
  BY <1>1 DEF Init, TypeInv, TypeOK, CallsOK, CallOK, FoundFinite

(* An upsert is about a catalog, and a write about a node.                 *)
LEMMA RequestTypes ==
    ASSUME NEW req \in Request
    PROVE  /\ req.op \in {"upsert", "query", "delete"}
           /\ req.op = "upsert" => /\ req.catalog \in Catalog
                                  /\ req.catalog.origin_node \in NodeId
           /\ req.op # "query" => Target(req) \in NodeId
           /\ req.op = "query" => req.query \in CatalogQuery
  BY DEF Request, Target, Catalog

(* Every step keeps the types.                                              *)
LEMMA TypeInvStep == TypeInv /\ [Next]_vars => TypeInv'
<1> SUFFICES ASSUME TypeInv, [Next]_vars PROVE TypeInv'
  OBVIOUS
<1> USE DEF TypeInv
<1>1. ASSUME NEW c \in Client, NEW req \in MayRequest[c], Invoke(c, req)
      PROVE  TypeInv'
  <2>1. req \in Request
    BY MayRequestAssumption
  <2>2. FirstAccess(req) \in Accesses(req)
    BY <2>1 DEF Request, FirstAccess, Accesses
  <2>3. FirstAccess(req) = "load" => req.query.origin_node \in NodeId
    BY <2>1, RequestTypes DEF FirstAccess, CatalogQuery
  <2> DEFINE state == [NoCall EXCEPT
                         !.pc = FirstAccess(req),
                         !.req = req,
                         !.pending = IF FirstAccess(req) = "load"
                                     THEN {req.query.origin_node} ELSE {}]
  <2>4. state \in InCall(req) /\ state.found = {}
    BY <2>2, <2>3 DEF InCall, NoCall
  <2>5. CallsOK' /\ FoundFinite'
    BY <1>1, <2>4, CallUpdated, FS_EmptySet DEF Invoke, CallOK
  <2>6. QED
    BY <1>1, <2>5 DEF Invoke, TypeOK
<1>2. ASSUME NEW c \in Client, RemovePrior(c) PROVE TypeInv'
  <2>1. Target(call[c].req) \in NodeId /\ "insert" \in Accesses(call[c].req)
    BY <1>2, ActiveCall, RequestTypes DEF RemovePrior, Accesses
  <2>2. CallsOK' /\ FoundFinite'
    BY <1>2, <2>1, GotoTyped DEF RemovePrior
  <2>3. QED
    BY <1>2, <2>1, <2>2 DEF RemovePrior, TypeOK, StoreRemove, SetQuads
<1>3. ASSUME NEW c \in Client, InsertNew(c) PROVE TypeInv'
  <2>1. /\ call[c].req.catalog \in Catalog
        /\ call[c].req.catalog.origin_node \in NodeId
        /\ Ok(None) \in ReplyTo(call[c].req)
    BY <1>3, ActiveCall, RequestTypes, ReplyTypes DEF InsertNew
  <2>2. CallsOK' /\ FoundFinite'
    BY <1>3, <2>1, FinishTyped DEF InsertNew
  <2>3. QED
    BY <1>3, <2>1, <2>2 DEF InsertNew, TypeOK, StoreInsert, SetQuads, GraphOf
<1>4. ASSUME NEW c \in Client, NamedGraphs(c) PROVE TypeInv'
  <2> DEFINE state == [call[c] EXCEPT !.pc = "load", !.pending = graph_names]
  <2>1. /\ call[c] \in InCall(call[c].req)
        /\ call[c].req \in MayRequest[c]
        /\ "load" \in Accesses(call[c].req)
    BY <1>4, ActiveCall DEF NamedGraphs, Accesses
  <2>2. state \in InCall(call[c].req) /\ state.found = call[c].found
    BY <2>1 DEF InCall, TypeOK
  <2>3. call' = [call EXCEPT ![c] = state]
    BY <1>4, <2>1 DEF NamedGraphs, InCall
  <2>4. CallsOK' /\ FoundFinite'
    BY <2>1, <2>2, <2>3, CallUpdated DEF CallOK, FoundFinite
  <2>5. QED
    BY <1>4, <2>4 DEF NamedGraphs, TypeOK, StoreUnchanged
<1>5. ASSUME NEW c \in Client, NEW n \in NodeId, LoadGraph(c, n) PROVE TypeInv'
  <2>1. PICK first \in IF quads[n] = {} THEN {{}} ELSE {{cat} : cat \in quads[n]} :
          call' = [call EXCEPT ![c].pending = Remaining(c, n),
                               ![c].found = @ \union first]
    BY <1>5 DEF LoadGraph
  <2>2. first \in SUBSET Catalog /\ IsFiniteSet(first)
    <3>1. quads[n] \in SUBSET Catalog
      BY DEF TypeOK
    <3>2. first = {} \/ \E cat \in Catalog : first = {cat}
      BY <2>1, <3>1
    <3>3. \A cat : IsFiniteSet({cat})
      BY FS_Singleton
    <3>4. QED
      BY <3>2, <3>3, FS_EmptySet
  <2> DEFINE state == [call[c] EXCEPT !.pending = Remaining(c, n),
                                      !.found = @ \union first]
  <2>3. call[c] \in InCall(call[c].req) /\ call[c].req \in MayRequest[c]
    BY <1>5, ActiveCall DEF LoadGraph
  <2>4. state \in InCall(call[c].req) /\ state.found = call[c].found \union first
    BY <2>2, <2>3 DEF InCall, Remaining
  <2>5. IsFiniteSet(state.found)
    <3>1. IsFiniteSet(call[c].found)
      BY DEF FoundFinite
    <3>2. IsFiniteSet(call[c].found \union first)
      BY <2>2, <3>1, FS_Union
    <3>3. QED
      BY <2>4, <3>2
  <2>6. call' = [call EXCEPT ![c] = state]
    BY <2>1, <2>3 DEF InCall
  <2>7. CallsOK' /\ FoundFinite'
    BY <2>3, <2>4, <2>5, <2>6, CallUpdated DEF CallOK
  <2>8. QED
    BY <1>5, <2>7 DEF LoadGraph, TypeOK, StoreUnchanged
<1>6. ASSUME NEW c \in Client, Answer(c) PROVE TypeInv'
  <2>1. /\ call[c] \in InCall(call[c].req)
        /\ call[c].req.op = "query"
        /\ call[c].req.query \in CatalogQuery
    BY <1>6, ActiveCall, RequestTypes DEF Answer
  <2>2. call[c].found \in SUBSET Catalog /\ IsFiniteSet(call[c].found)
    BY <2>1 DEF InCall, FoundFinite
  <2>3. PICK answer \in Answers(call[c].found, call[c].req.query) :
          Finish(c, Ok(answer))
    BY <1>6 DEF Answer
  <2>4. Ok(answer) \in ReplyTo(call[c].req)
    BY <2>1, <2>2, AnswersType, ReplyTypes
  <2>5. CallsOK' /\ FoundFinite'
    BY <1>6, <2>3, <2>4, FinishTyped DEF Answer
  <2>6. QED
    BY <1>6, <2>5 DEF Answer, TypeOK, StoreUnchanged
<1>7. ASSUME NEW c \in Client, HasSubject(c) PROVE TypeInv'
  <2>1. "drop" \in Accesses(call[c].req) /\ Ok(FALSE) \in ReplyTo(call[c].req)
    BY <1>7, ActiveCall, ReplyTypes DEF HasSubject, Accesses
  <2>2. CallsOK' /\ FoundFinite'
    BY <1>7, <2>1, GotoTyped, FinishTyped DEF HasSubject
  <2>3. QED
    BY <1>7, <2>2 DEF HasSubject, TypeOK, StoreUnchanged
<1>8. ASSUME NEW c \in Client, RemoveSubject(c) PROVE TypeInv'
  <2>1. Target(call[c].req) \in NodeId /\ Ok(TRUE) \in ReplyTo(call[c].req)
    BY <1>8, ActiveCall, RequestTypes, ReplyTypes DEF RemoveSubject
  <2>2. CallsOK' /\ FoundFinite'
    BY <1>8, <2>1, FinishTyped DEF RemoveSubject
  <2>3. QED
    BY <1>8, <2>1, <2>2 DEF RemoveSubject, TypeOK, StoreRemove, SetQuads
<1>9. ASSUME NEW c \in Client, Fail(c) PROVE TypeInv'
  <2>1. CallsOK' /\ FoundFinite'
    BY <1>9, ReplyTypes, FinishTyped DEF Fail
  <2>2. QED
    BY <1>9, <2>1 DEF Fail, TypeOK, StoreUnchanged
<1>10. ASSUME NEW c \in Client, Return(c) PROVE TypeInv'
  <2>1. CallOK(c, NoCall) /\ IsFiniteSet(NoCall.found)
    BY FS_EmptySet DEF CallOK, NoCall
  <2>2. CallsOK' /\ FoundFinite'
    BY <1>10, <2>1, CallUpdated DEF Return
  <2>3. QED
    BY <1>10, <2>2 DEF Return, TypeOK, StoreUnchanged
<1>11. CASE UNCHANGED vars
  BY <1>11 DEF vars, TypeOK, CallsOK, CallOK, FoundFinite, NoCall, InCall
<1>12. QED
  BY <1>1, <1>2, <1>3, <1>4, <1>5, <1>6, <1>7, <1>8, <1>9, <1>10, <1>11
     DEF Next, Step

(***************************************************************************)
(* Every variable keeps its type; in particular each call makes only the   *)
(* store accesses of its own method, and gets a reply of its own kind.     *)
(***************************************************************************)
THEOREM TypeCorrect == Spec => []TypeOK
<1>1. TypeInv => TypeOK
  BY DEF TypeInv
<1>2. QED
  BY <1>1, TypeInvInit, TypeInvStep, PTL DEF Spec

-----------------------------------------------------------------------------
(* What a graph holds.                                                     *)

At(c, pc, n) == call[c].pc = pc /\ Target(call[c].req) = n

(* upsert's insert finds the graph as upsert's remove left it.             *)
InsertFindsEmpty ==
    \A c \in Client, n \in NodeId : At(c, "insert", n) => quads[n] = {}

(* delete's remove finds what has_subject saw.                             *)
DropFindsTriple ==
    \A c \in Client, n \in NodeId : At(c, "drop", n) => quads[n] # {}

(* A write leaves at most one catalog.                                     *)
ConfirmedOne ==
    \A n \in NodeId : confirmed[n] = {} \/ \E cat \in Catalog : confirmed[n] = {cat}

(* A graph holds what the last write left, or has lost it.                 *)
ConfirmedOrLost == \A n \in NodeId : quads[n] \in {confirmed[n], {}}

(* A graph has lost its catalog only to an upsert about to insert another. *)
LostToUpsert ==
    ~StorageErrors =>
        \A n \in NodeId :
            quads[n] = confirmed[n] \/ \E c \in Client : At(c, "insert", n)

GraphInv == /\ InsertFindsEmpty
            /\ DropFindsTriple
            /\ ConfirmedOne
            /\ ConfirmedOrLost
            /\ LostToUpsert

(* Two clients in the middle of writes to one node are the same client.    *)
OneWriterAtATime ==
    \A c, d \in Client :
        /\ call[c].pc \in {"remove", "insert", "check", "drop"}
        /\ call[d].pc \in {"remove", "insert", "check", "drop"}
        /\ Target(call[c].req) = Target(call[d].req)
        => c = d

LEMMA SameWriter == ASSUME OneWriterPerNode, TypeOK PROVE OneWriterAtATime
<1> SUFFICES ASSUME NEW c \in Client, NEW d \in Client,
                    call[c].pc \in {"remove", "insert", "check", "drop"},
                    call[d].pc \in {"remove", "insert", "check", "drop"},
                    Target(call[c].req) = Target(call[d].req)
             PROVE  c = d
  BY DEF OneWriterAtATime
<1>1. call[c].req \in MayRequest[c] /\ call[c].req.op # "query"
  BY ActiveCall
<1>2. call[d].req \in MayRequest[d] /\ call[d].req.op # "query"
  BY ActiveCall
<1>3. QED
  BY <1>1, <1>2 DEF OneWriterPerNode

(* A step that changes no graph and moves no client into or out of a write *)
(* keeps GraphInv.                                                         *)
LEMMA GraphInvUntouched ==
    ASSUME GraphInv, UNCHANGED <<quads, confirmed>>,
           \A c \in Client, n \in NodeId, pc \in {"insert", "drop"} :
               At(c, pc, n)' <=> At(c, pc, n)
    PROVE  GraphInv'
  BY DEF GraphInv, InsertFindsEmpty, DropFindsTriple, ConfirmedOne, ConfirmedOrLost,
         LostToUpsert

LEMMA GraphInvInit == Init => GraphInv
  BY DEF Init, GraphInv, InsertFindsEmpty, DropFindsTriple, ConfirmedOne,
         ConfirmedOrLost, LostToUpsert, At, NoCall

LEMMA GraphInvStep ==
    ASSUME OneWriterAtATime, TypeOK, GraphInv, [Next]_vars
    PROVE  GraphInv'
<1> USE DEF At
<1>1. DOMAIN call = Client
  BY DEF TypeOK, CallsOK
<1>2. ASSUME NEW c \in Client, NEW req \in MayRequest[c], Invoke(c, req)
      PROVE  GraphInv'
  <2>1. FirstAccess(req) \in {"remove", "check", "list", "load"}
    BY MayRequestAssumption DEF FirstAccess, Request
  <2>2. \A d \in Client : d # c => call'[d] = call[d]
    BY <1>1, <1>2 DEF Invoke
  <2>3. call'[c].pc = FirstAccess(req) /\ call[c].pc = "idle"
    BY <1>1, <1>2 DEF Invoke, NoCall
  <2>4. UNCHANGED <<quads, confirmed>>
    BY <1>2 DEF Invoke
  <2>5. \A d \in Client, n \in NodeId, pc \in {"insert", "drop"} :
            At(d, pc, n)' <=> At(d, pc, n)
    BY <2>1, <2>2, <2>3
  <2>6. QED
    BY <2>4, <2>5, GraphInvUntouched
<1>3. ASSUME NEW c \in Client, RemovePrior(c) PROVE GraphInv'
  <2> DEFINE m == Target(call[c].req)
  <2>1. m \in NodeId
    BY <1>3, ActiveCall, RequestTypes DEF RemovePrior
  <2>2. /\ quads' = [quads EXCEPT ![m] = {}]
        /\ confirmed' = confirmed
        /\ call[c].pc = "remove"
        /\ call' = [call EXCEPT ![c].pc = "insert"]
    BY <1>3 DEF RemovePrior, StoreRemove, SetQuads, Goto
  <2>3. /\ call'[c].pc = "insert" /\ call'[c].req = call[c].req
        /\ \A d \in Client : d # c => call'[d] = call[d]
    BY <1>1, <2>2, ActiveCall DEF InCall
  <2>4. \A n \in NodeId : quads'[n] = IF n = m THEN {} ELSE quads[n]
    BY <2>2 DEF TypeOK
  <2>5. \A d \in Client : ~At(d, "drop", m)
    BY <2>2 DEF OneWriterAtATime
  <2> HIDE DEF m
  <2>6. InsertFindsEmpty'
    BY <2>3, <2>4 DEF GraphInv, InsertFindsEmpty, m
  <2>7. DropFindsTriple'
    BY <2>3, <2>4, <2>5 DEF GraphInv, DropFindsTriple
  <2>8. ConfirmedOne' /\ ConfirmedOrLost'
    BY <2>2, <2>4 DEF GraphInv, ConfirmedOne, ConfirmedOrLost
  <2>9. LostToUpsert'
    <3> SUFFICES ASSUME ~StorageErrors, NEW n \in NodeId, quads'[n] # confirmed'[n]
                 PROVE  \E d \in Client : At(d, "insert", n)'
      BY DEF LostToUpsert
    <3>1. CASE n = m
      BY <2>3, <3>1 DEF m
    <3>2. CASE n # m
      <4>1. PICK d \in Client : At(d, "insert", n)
        BY <2>2, <2>4, <3>2 DEF GraphInv, LostToUpsert
      <4>2. QED
        BY <2>2, <2>3, <4>1
    <3>3. QED
      BY <3>1, <3>2
  <2>10. QED
    BY <2>6, <2>7, <2>8, <2>9 DEF GraphInv
<1>4. ASSUME NEW c \in Client, InsertNew(c) PROVE GraphInv'
  <2> DEFINE cat == call[c].req.catalog
             m == cat.origin_node
  <2>1. m \in NodeId /\ cat \in Catalog /\ m = Target(call[c].req)
    BY <1>4, ActiveCall, RequestTypes DEF InsertNew, Target
  <2>2. /\ quads' = [quads EXCEPT ![m] = @ \union {cat}]
        /\ confirmed' = [confirmed EXCEPT ![m] = {cat}]
        /\ call[c].pc = "insert"
        /\ call' = [call EXCEPT ![c].pc = "returned", ![c].ret = Ok(None)]
    BY <1>4 DEF InsertNew, StoreInsert, SetQuads, GraphOf, Finish
  <2>3. /\ call'[c].pc = "returned"
        /\ \A d \in Client : d # c => call'[d] = call[d]
    BY <1>1, <2>2, ActiveCall DEF InCall
  <2>4. quads[m] = {}
    BY <2>1, <2>2 DEF GraphInv, InsertFindsEmpty
  <2>5. \A n \in NodeId : /\ quads'[n] = IF n = m THEN {cat} ELSE quads[n]
                          /\ confirmed'[n] = IF n = m THEN {cat} ELSE confirmed[n]
    BY <2>2, <2>4 DEF TypeOK
  <2>6. \A d \in Client : d # c => ~At(d, "insert", m)
    BY <2>1, <2>2 DEF OneWriterAtATime
  <2> HIDE DEF m, cat
  <2>7. InsertFindsEmpty'
    BY <2>3, <2>5, <2>6 DEF GraphInv, InsertFindsEmpty
  <2>8. DropFindsTriple'
    BY <2>3, <2>5 DEF GraphInv, DropFindsTriple
  <2>9. ConfirmedOne' /\ ConfirmedOrLost'
    BY <2>1, <2>5 DEF GraphInv, ConfirmedOne, ConfirmedOrLost
  <2>10. LostToUpsert'
    <3> SUFFICES ASSUME ~StorageErrors, NEW n \in NodeId, quads'[n] # confirmed'[n]
                 PROVE  \E d \in Client : At(d, "insert", n)'
      BY DEF LostToUpsert
    <3>1. PICK d \in Client : At(d, "insert", n)
      BY <2>5 DEF GraphInv, LostToUpsert
    <3>2. n # m
      BY <2>5
    <3>3. d # c
      BY <2>1, <3>1, <3>2
    <3>4. QED
      BY <2>3, <3>1, <3>3
  <2>11. QED
    BY <2>7, <2>8, <2>9, <2>10 DEF GraphInv
<1>5. ASSUME NEW c \in Client, HasSubject(c) PROVE GraphInv'
  <2> DEFINE m == Target(call[c].req)
  <2>1. /\ quads' = quads /\ confirmed' = confirmed
        /\ call[c].pc = "check"
        /\ IF quads[m] # {} THEN Goto(c, "drop") ELSE Finish(c, Ok(FALSE))
    BY <1>5 DEF HasSubject, HasTriple, StoreUnchanged
  <2>2. /\ call'[c].req = call[c].req
        /\ call'[c].pc = IF quads[m] # {} THEN "drop" ELSE "returned"
        /\ \A d \in Client : d # c => call'[d] = call[d]
    <3>1. call[c] \in InCall(call[c].req)
      BY <2>1, ActiveCall
    <3>2. CASE quads[m] # {}
      BY <1>1, <2>1, <3>1, <3>2 DEF InCall, Goto
    <3>3. CASE quads[m] = {}
      BY <1>1, <2>1, <3>1, <3>3 DEF InCall, Finish
    <3>4. QED
      BY <3>2, <3>3
  <2> HIDE DEF m
  <2>3. InsertFindsEmpty' /\ ConfirmedOne' /\ ConfirmedOrLost' /\ LostToUpsert'
    BY <2>1, <2>2 DEF GraphInv, InsertFindsEmpty, ConfirmedOne, ConfirmedOrLost,
                      LostToUpsert
  <2>4. DropFindsTriple'
    BY <2>1, <2>2 DEF GraphInv, DropFindsTriple, m
  <2>5. QED
    BY <2>3, <2>4 DEF GraphInv
<1>6. ASSUME NEW c \in Client, RemoveSubject(c) PROVE GraphInv'
  <2> DEFINE m == Target(call[c].req)
  <2>1. m \in NodeId
    BY <1>6, ActiveCall, RequestTypes DEF RemoveSubject
  <2>2. /\ quads' = [quads EXCEPT ![m] = {}]
        /\ confirmed' = [confirmed EXCEPT ![m] = {}]
        /\ call[c].pc = "drop"
        /\ call' = [call EXCEPT ![c].pc = "returned", ![c].ret = Ok(TRUE)]
    BY <1>6 DEF RemoveSubject, StoreRemove, SetQuads, Finish
  <2>3. /\ call'[c].pc = "returned"
        /\ \A d \in Client : d # c => call'[d] = call[d]
    BY <1>1, <2>2, ActiveCall DEF InCall
  <2>4. \A n \in NodeId : /\ quads'[n] = IF n = m THEN {} ELSE quads[n]
                          /\ confirmed'[n] = IF n = m THEN {} ELSE confirmed[n]
    BY <2>2 DEF TypeOK
  <2>5. \A d \in Client : d # c => ~At(d, "drop", m)
    BY <2>2 DEF OneWriterAtATime
  <2> HIDE DEF m
  <2>6. InsertFindsEmpty' /\ DropFindsTriple'
    BY <2>3, <2>4, <2>5 DEF GraphInv, InsertFindsEmpty, DropFindsTriple
  <2>7. ConfirmedOne' /\ ConfirmedOrLost'
    BY <2>4 DEF GraphInv, ConfirmedOne, ConfirmedOrLost
  <2>8. LostToUpsert'
    <3> SUFFICES ASSUME ~StorageErrors, NEW n \in NodeId, quads'[n] # confirmed'[n]
                 PROVE  \E d \in Client : At(d, "insert", n)'
      BY DEF LostToUpsert
    <3>1. PICK d \in Client : At(d, "insert", n)
      BY <2>4 DEF GraphInv, LostToUpsert
    <3>2. d # c
      BY <2>2, <3>1
    <3>3. QED
      BY <2>3, <3>1, <3>2
  <2>9. QED
    BY <2>6, <2>7, <2>8 DEF GraphInv
<1>7. ASSUME NEW c \in Client, Fail(c) PROVE GraphInv'
  <2>1. /\ quads' = quads /\ confirmed' = confirmed
        /\ StorageErrors
        /\ call' = [call EXCEPT ![c].pc = "returned", ![c].ret = Err]
        /\ call[c].pc # "idle"
    BY <1>7 DEF Fail, StoreUnchanged, Finish
  <2>2. /\ call'[c].pc = "returned"
        /\ \A d \in Client : d # c => call'[d] = call[d]
    BY <1>1, <2>1, ActiveCall DEF InCall
  <2>3. InsertFindsEmpty' /\ DropFindsTriple'
    <3>1. \A d \in Client, n \in NodeId :
             /\ At(d, "insert", n)' => At(d, "insert", n)
             /\ At(d, "drop", n)' => At(d, "drop", n)
      BY <2>2 DEF At
    <3>2. QED
      BY <2>1, <3>1 DEF GraphInv, InsertFindsEmpty, DropFindsTriple
  <2>4. ConfirmedOne' /\ ConfirmedOrLost'
    BY <2>1 DEF GraphInv, ConfirmedOne, ConfirmedOrLost
  <2>5. LostToUpsert'
    BY <2>1 DEF LostToUpsert
  <2>6. QED
    BY <2>3, <2>4, <2>5 DEF GraphInv
<1>8. ASSUME NEW c \in Client,
             NamedGraphs(c) \/ (\E n \in NodeId : LoadGraph(c, n)) \/ Answer(c) \/ Return(c)
      PROVE  GraphInv'
  <2>1. UNCHANGED <<quads, confirmed>>
    BY <1>8 DEF NamedGraphs, LoadGraph, Answer, Return, StoreUnchanged
  <2>2. call[c].pc \in {"list", "load", "returned"}
    BY <1>8 DEF NamedGraphs, LoadGraph, Answer, Return
  <2>3. /\ call'[c].pc \in {"load", "returned", "idle"}
        /\ \A d \in Client : d # c => call'[d] = call[d]
    <3>1. call[c] \in InCall(call[c].req)
      BY <2>2, ActiveCall
    <3>2. CASE NamedGraphs(c)
      BY <1>1, <3>1, <3>2 DEF NamedGraphs, InCall
    <3>3. CASE \E n \in NodeId : LoadGraph(c, n)
      BY <1>1, <3>1, <3>3 DEF LoadGraph, InCall
    <3>4. CASE Answer(c)
      BY <1>1, <3>1, <3>4 DEF Answer, Finish, InCall
    <3>5. CASE Return(c)
      BY <1>1, <3>5 DEF Return, NoCall
    <3>6. QED
      BY <1>8, <3>2, <3>3, <3>4, <3>5
  <2>4. QED
    BY <2>1, <2>2, <2>3, GraphInvUntouched
<1>9. CASE UNCHANGED vars
  BY <1>9, GraphInvUntouched DEF vars
<1>10. QED
  BY <1>2, <1>3, <1>4, <1>5, <1>6, <1>7, <1>8, <1>9 DEF Next, Step

LEMMA GraphInvAlways == ASSUME OneWriterPerNode PROVE Spec => [](TypeOK /\ GraphInv)
<1>1. Init => GraphInv
  BY GraphInvInit
<1>2. TypeOK /\ GraphInv /\ [Next]_vars => GraphInv'
  BY SameWriter, GraphInvStep
<1>3. QED
  BY <1>1, <1>2, TypeCorrect, PTL DEF Spec

(***************************************************************************)
(* With one writer per node, whatever fails and however reads interleave,  *)
(* no graph ever holds two triples.                                        *)
(***************************************************************************)
THEOREM OneTriple == ASSUME OneWriterPerNode PROVE Spec => []OneTriplePerGraph
<1>1. GraphInv => OneTriplePerGraph
  BY DEF GraphInv, ConfirmedOne, ConfirmedOrLost, OneTriplePerGraph
<1>2. QED
  BY <1>1, GraphInvAlways, PTL

(* With one writer per node a graph never holds a superseded catalog.      *)
THEOREM NeverStale == ASSUME OneWriterPerNode PROVE Spec => []NothingStale
<1>1. GraphInv => NothingStale
  BY DEF GraphInv, ConfirmedOrLost, NothingStale
<1>2. QED
  BY <1>1, GraphInvAlways, PTL

(***************************************************************************)
(* With one writer per node and a store that does not fail, the cache      *)
(* keeps what the last completed write left in every graph.                *)
(***************************************************************************)
THEOREM LastWrite ==
    ASSUME OneWriterPerNode, ~StorageErrors PROVE Spec => []LastWriteKept
<1>1. GraphInv => LastWriteKept
  BY DEF GraphInv, LostToUpsert, LastWriteKept, Writing, At
<1>2. QED
  BY <1>1, GraphInvAlways, PTL

-----------------------------------------------------------------------------
(* What a query reports.                                                   *)

(* A graph with a triple is one the store can name, its triples are        *)
(* catalogs of its node, and it has had one all through a call for which   *)
(* it is steady.                                                           *)
StoreInv ==
    /\ NonEmpty(quads) \subseteq graph_names
    /\ \A n \in NodeId : \A cat \in quads[n] : cat.origin_node = n
    /\ \A c \in Client : steady[c] \subseteq NonEmpty(quads)

(* Each steady node c's query is about is still to load, or loaded.        *)
Covered(c) ==
    call[c].pc = "load" =>
        \A n \in steady[c] :
            call[c].req.query.origin_node \in {None, n} =>
                \/ n \in call[c].pending
                \/ \E cat \in call[c].found : cat.origin_node = n

Reported(c) ==
    call[c].pc = "returned" /\ call[c].ret # Err /\ call[c].req.op = "query" =>
        LET q == call[c].req.query
        IN  q.offset = 0 /\ q.limit = None =>
              \A n \in steady[c] :
                  q.origin_node \in {None, n} =>
                      \E i \in DOMAIN call[c].ret.value :
                          call[c].ret.value[i].origin_node = n

QueryInv == StoreInv /\ \A c \in Client : Covered(c) /\ Reported(c)

(* What moving on to another access, or finishing, leaves of the call.     *)
LEMMA CallMoves ==
    ASSUME TypeOK, NEW c \in Client, call[c].pc # "idle", NEW pc, NEW ret
    PROVE  /\ Goto(c, pc) => call'[c].pc = pc /\ call'[c].req = call[c].req
           /\ Finish(c, ret) => /\ call'[c].pc = "returned" /\ call'[c].ret = ret
                                /\ call'[c].req = call[c].req
           /\ Goto(c, pc) \/ Finish(c, ret) =>
                 \A d \in Client \ {c} : call'[d] = call[d]
<1>1. DOMAIN call = Client /\ call[c] \in InCall(call[c].req)
  BY ActiveCall DEF TypeOK, CallsOK
<1>2. Goto(c, pc) => call'[c] = [call[c] EXCEPT !.pc = pc]
  BY <1>1 DEF Goto
<1>3. Finish(c, ret) => call'[c] = [call[c] EXCEPT !.pc = "returned", !.ret = ret]
  BY <1>1 DEF Finish
<1>4. Goto(c, pc) \/ Finish(c, ret) => \A d \in Client \ {c} : call'[d] = call[d]
  BY <1>1 DEF Goto, Finish
<1>5. QED
  BY <1>1, <1>2, <1>3, <1>4 DEF InCall

(* The other clients' queries lose steady nodes at most.                   *)
LEMMA OtherQueriesKept ==
    ASSUME QueryInv, NEW c \in Client,
           \A d \in Client \ {c} : call'[d] = call[d] /\ steady'[d] \subseteq steady[d],
           StoreInv', Covered(c)', Reported(c)'
    PROVE  QueryInv'
<1>1. ASSUME NEW d \in Client \ {c}
      PROVE  Covered(d)' /\ Reported(d)'
  BY DEF QueryInv, Covered, Reported
<1>2. QED
  BY <1>1 DEF QueryInv

(* An access to the store keeps what StoreInv says of it.                  *)
LEMMA StoreInvKept ==
    ASSUME TypeOK, StoreInv, NEW n \in NodeId, NEW cat \in Catalog, cat.origin_node = n,
           StoreRemove(n) \/ StoreInsert(n, cat) \/ StoreUnchanged
    PROVE  StoreInv' /\ \A d \in Client : steady'[d] \subseteq steady[d]
<1>1. CASE StoreUnchanged
  BY <1>1 DEF StoreUnchanged, StoreInv
<1>2. CASE StoreRemove(n)
  BY <1>2 DEF StoreRemove, SetQuads, StoreInv, TypeOK
<1>3. CASE StoreInsert(n, cat)
  BY <1>3 DEF StoreInsert, SetQuads, StoreInv, TypeOK
<1>4. QED
  BY <1>1, <1>2, <1>3

LEMMA StoreInvUnchanged ==
    ASSUME StoreInv, StoreUnchanged
    PROVE  StoreInv' /\ \A d \in Client : steady'[d] = steady[d]
BY DEF StoreUnchanged, StoreInv

LEMMA QueryInvInit == Init => QueryInv
BY DEF Init, NoCall, QueryInv, StoreInv, Covered, Reported

LEMMA QueryInvStep ==
    ASSUME TypeInv, QueryInv, [Next]_vars
    PROVE  QueryInv'
<1> USE DEF TypeInv
<1>1. DOMAIN call = Client
  BY DEF TypeOK, CallsOK
<1>2. ASSUME NEW c \in Client, NEW req \in MayRequest[c], Invoke(c, req)
      PROVE  QueryInv'
  <2>1. req.op \in {"upsert", "query", "delete"}
    BY MayRequestAssumption, RequestTypes
  <2>2. /\ call'[c].pc = FirstAccess(req) /\ call'[c].req = req
        /\ FirstAccess(req) = "load" => call'[c].pending = {req.query.origin_node}
        /\ FirstAccess(req) # "returned"
    BY <1>1, <1>2, <2>1 DEF Invoke, NoCall, FirstAccess
  <2>3. FirstAccess(req) = "load" => req.query.origin_node # None
    BY <2>1 DEF FirstAccess
  <2>4. \A d \in Client \ {c} : call'[d] = call[d] /\ steady'[d] = steady[d]
    BY <1>1, <1>2 DEF Invoke, TypeOK
  <2>5. StoreInv'
    BY <1>2 DEF Invoke, QueryInv, StoreInv, TypeOK
  <2>6. Covered(c)' /\ Reported(c)'
    BY <2>2, <2>3 DEF Covered, Reported
  <2>7. QED
    BY <2>4, <2>5, <2>6, OtherQueriesKept
<1>3. ASSUME NEW c \in Client, RemovePrior(c) \/ InsertNew(c)
      PROVE  QueryInv'
  <2>1. /\ call[c].pc # "idle" /\ call[c].req.op = "upsert"
        /\ call[c].req.catalog \in Catalog
        /\ Target(call[c].req) = call[c].req.catalog.origin_node
        /\ Target(call[c].req) \in NodeId
    BY <1>3, ActiveCall, RequestTypes DEF RemovePrior, InsertNew, Target
  <2>2. StoreInv' /\ \A d \in Client : steady'[d] \subseteq steady[d]
    BY <1>3, <2>1, StoreInvKept DEF RemovePrior, InsertNew, GraphOf, QueryInv
  <2>3. /\ call'[c].pc \in {"insert", "returned"} /\ call'[c].req = call[c].req
        /\ \A d \in Client \ {c} : call'[d] = call[d]
    BY <1>3, <2>1, CallMoves DEF RemovePrior, InsertNew
  <2>4. Covered(c)' /\ Reported(c)'
    BY <2>1, <2>3 DEF Covered, Reported
  <2>5. QED
    BY <2>2, <2>3, <2>4, OtherQueriesKept
<1>4. ASSUME NEW c \in Client, NamedGraphs(c)
      PROVE  QueryInv'
  <2>1. StoreInv' /\ \A d \in Client : steady'[d] = steady[d]
    BY <1>4, StoreInvUnchanged DEF NamedGraphs, QueryInv
  <2>2. /\ call'[c].pc = "load" /\ call'[c].pending = graph_names
        /\ \A d \in Client \ {c} : call'[d] = call[d]
    BY <1>1, <1>4 DEF NamedGraphs
  <2>3. Covered(c)' /\ Reported(c)'
    BY <2>1, <2>2 DEF Covered, Reported, QueryInv, StoreInv
  <2>4. QED
    BY <2>1, <2>2, <2>3, OtherQueriesKept
<1>5. ASSUME NEW c \in Client, NEW n \in NodeId, LoadGraph(c, n)
      PROVE  QueryInv'
  <2>1. StoreInv' /\ \A d \in Client : steady'[d] = steady[d]
    BY <1>5, StoreInvUnchanged DEF LoadGraph, QueryInv
  <2>2. PICK first \in IF quads[n] = {} THEN {{}} ELSE {{cat} : cat \in quads[n]} :
          call' = [call EXCEPT ![c].pending = Remaining(c, n),
                                ![c].found = @ \union first]
    BY <1>5 DEF LoadGraph
  <2>3. /\ call'[c].pc = "load" /\ call'[c].req = call[c].req
        /\ call'[c].pending = call[c].pending \ {n}
        /\ call'[c].found = call[c].found \union first
        /\ \A d \in Client \ {c} : call'[d] = call[d]
    <3>1. call[c].pc = "load" /\ call[c] \in InCall(call[c].req)
      BY <1>5, ActiveCall DEF LoadGraph
    <3>2. call'[c] = [call[c] EXCEPT !.pending = call[c].pending \ {n},
                                     !.found = call[c].found \union first]
      BY <1>1, <2>2 DEF Remaining
    <3>3. QED
      BY <1>1, <2>2, <3>1, <3>2 DEF InCall
  <2>4. quads[n] # {} => \E cat \in first : cat.origin_node = n
    BY <2>2 DEF QueryInv, StoreInv
  <2>5. n \in steady[c] => quads[n] # {}
    BY DEF QueryInv, StoreInv
  <2>6. Covered(c)
    BY DEF QueryInv
  <2>7. Covered(c)'
    BY <1>5, <2>1, <2>3, <2>4, <2>5, <2>6 DEF Covered, LoadGraph
  <2>8. Reported(c)'
    BY <2>3 DEF Reported
  <2>9. QED
    BY <2>1, <2>3, <2>7, <2>8, OtherQueriesKept
<1>6. ASSUME NEW c \in Client, Answer(c)
      PROVE  QueryInv'
  <2>1. StoreInv' /\ \A d \in Client : steady'[d] = steady[d]
    BY <1>6, StoreInvUnchanged DEF Answer, QueryInv
  <2> DEFINE q == call[c].req.query
             found == call[c].found
  <2>2. PICK answer \in Answers(found, q) : Finish(c, Ok(answer))
    BY <1>6 DEF Answer
  <2>3. /\ call'[c].pc = "returned" /\ call'[c].req = call[c].req
        /\ call'[c].ret.value = answer
        /\ \A d \in Client \ {c} : call'[d] = call[d]
    BY <1>1, <2>2 DEF Finish, Ok
  <2>4. /\ found \in SUBSET Catalog /\ IsFiniteSet(found)
        /\ q \in CatalogQuery /\ call[c].pc = "load" /\ call[c].pending = {}
    <3>1. call[c].pc = "load" /\ call[c].pending = {}
      BY <1>6 DEF Answer
    <3>2. call[c].req \in Request /\ call[c].req.op = "query"
          /\ call[c] \in InCall(call[c].req)
      BY <3>1, ActiveCall
    <3>3. QED
      BY <3>1, <3>2, RequestTypes DEF InCall, FoundFinite
  <2>5. ASSUME q.offset = 0, q.limit = None,
               NEW n \in steady[c], q.origin_node \in {None, n}
        PROVE  \E i \in DOMAIN answer : answer[i].origin_node = n
    <3>1. PICK cat \in found : cat.origin_node = n
      BY <2>4, <2>5 DEF QueryInv, Covered
    <3>2. cat \in Selected(found, q)
      BY <2>5, <3>1 DEF Selected
    <3> HIDE DEF q, found
    <3>3. \E i \in DOMAIN answer : answer[i] = cat
      BY <2>2, <2>4, <2>5, <3>2, WholeAnswer
    <3>4. QED
      BY <3>1, <3>3
  <2>6. Covered(c)' /\ Reported(c)'
    BY <2>1, <2>3, <2>5 DEF Covered, Reported
  <2>7. QED
    BY <2>1, <2>3, <2>6, OtherQueriesKept
<1>7. ASSUME NEW c \in Client, HasSubject(c) \/ RemoveSubject(c)
      PROVE  QueryInv'
  <2>1. /\ call[c].pc # "idle" /\ call[c].req.op = "delete" /\ Target(call[c].req) \in NodeId
    BY <1>7, ActiveCall, RequestTypes DEF HasSubject, RemoveSubject
  <2>2. StoreInv' /\ \A d \in Client : steady'[d] \subseteq steady[d]
    <3>1. CASE HasSubject(c)
      BY <3>1, StoreInvUnchanged DEF HasSubject, QueryInv
    <3>2. CASE RemoveSubject(c)
      <4>1. PICK n \in NodeId : StoreRemove(n)
        BY <2>1, <3>2 DEF RemoveSubject
      <4>2. StoreInv
        BY DEF QueryInv
      <4>3. QED
        BY <4>1, <4>2 DEF StoreRemove, SetQuads, StoreInv, TypeOK
    <3>3. QED
      BY <1>7, <3>1, <3>2
  <2>3. /\ call'[c].pc \in {"drop", "returned"} /\ call'[c].req = call[c].req
        /\ \A d \in Client \ {c} : call'[d] = call[d]
    BY <1>7, <2>1, CallMoves DEF HasSubject, RemoveSubject
  <2>4. Covered(c)' /\ Reported(c)'
    BY <2>1, <2>3 DEF Covered, Reported
  <2>5. QED
    BY <2>2, <2>3, <2>4, OtherQueriesKept
<1>8. ASSUME NEW c \in Client, Fail(c) \/ Return(c)
      PROVE  QueryInv'
  <2>1. StoreInv' /\ \A d \in Client : steady'[d] = steady[d]
    BY <1>8, StoreInvUnchanged DEF Fail, Return, QueryInv
  <2>2. /\ \/ call'[c].pc = "idle"
           \/ call'[c].pc = "returned" /\ call'[c].ret = Err
        /\ \A d \in Client \ {c} : call'[d] = call[d]
    <3>1. CASE Fail(c)
      BY <3>1, CallMoves DEF Fail
    <3>2. CASE Return(c)
      BY <1>1, <3>2 DEF Return, NoCall
    <3>3. QED
      BY <1>8, <3>1, <3>2
  <2>3. Covered(c)' /\ Reported(c)'
    BY <2>2 DEF Covered, Reported
  <2>4. QED
    BY <2>1, <2>2, <2>3, OtherQueriesKept
<1>9. CASE UNCHANGED vars
  BY <1>9 DEF vars, QueryInv, StoreInv, Covered, Reported
<1>10. QED
  BY <1>2, <1>3, <1>4, <1>5, <1>6, <1>7, <1>8, <1>9 DEF Next, Step

(* Together with the types, for the modules that use this backend.         *)
LEMMA QueryInvAlways == Spec => [](TypeInv /\ QueryInv)
<1>1. Spec => []TypeInv
  BY TypeInvInit, TypeInvStep, PTL DEF Spec
<1>2. QED
  BY <1>1, QueryInvInit, QueryInvStep, PTL DEF Spec

(***************************************************************************)
(* query(all) and query(for_node) lose no node that had a catalog all      *)
(* along, whoever upserts and deletes between the accesses of the query,   *)
(* with any number of writers for a node and with a store that may fail.   *)
(***************************************************************************)
THEOREM SteadyReported == Spec => []SteadyNodesReported
<1>1. QueryInv => SteadyNodesReported
  BY DEF QueryInv, Reported, SteadyNodesReported
<1>2. QED
  BY <1>1, QueryInvAlways, PTL

-----------------------------------------------------------------------------
(* The refinement, for callers that keep writes apart.                     *)

(* The graphs a query is about.                                            *)
About(q) == {n \in NodeId : q.origin_node \in {None, n}}

(* A query has loaded what is in each graph it need not load any more.     *)
Loaded(c) ==
    LET about == About(call[c].req.query)
    IN  /\ call[c].pc = "list" => about = NodeId /\ call[c].found = {}
        /\ call[c].pc = "load" =>
              /\ call[c].pending \subseteq about
              /\ call[c].found = UNION {quads[n] : n \in about \ call[c].pending}

LoadedInv == \A c \in Client : Loaded(c)

ExclusiveInv == TypeInv /\ GraphInv /\ QueryInv /\ WritesExclusive /\ LoadedInv

LEMMA ExclusiveWriter == ASSUME TypeOK, WritesExclusive PROVE OneWriterAtATime
<1> SUFFICES ASSUME NEW c \in Client, NEW d \in Client,
                    call[c].pc \in {"remove", "insert", "check", "drop"},
                    call[d].pc \in {"remove", "insert", "check", "drop"}
             PROVE  c = d
  BY DEF OneWriterAtATime
<1>1. call[c].req.op # "query"
  BY ActiveCall
<1>2. QED
  BY <1>1 DEF WritesExclusive, Active

(* While a client writes, no other is in a call.                           *)
LEMMA WriterAlone ==
    ASSUME TypeOK, WritesExclusive, NEW c \in Client,
           call[c].pc \in {"remove", "insert", "check", "drop"}
    PROVE  \A d \in Client \ {c} : call[d].pc \in {"idle", "returned"}
<1>1. call[c].req.op # "query"
  BY ActiveCall
<1>2. QED
  BY <1>1 DEF WritesExclusive, Active

(* While a client reads, none writes.                                      *)
LEMMA ReaderMeetsNoWriter ==
    ASSUME TypeOK, WritesExclusive, NEW c \in Client, call[c].pc \in {"list", "load"}
    PROVE  \A d \in Client : call[d].pc # "insert"
<1> SUFFICES ASSUME NEW d \in Client, call[d].pc = "insert" PROVE FALSE
  OBVIOUS
<1>1. call[d].req.op # "query"
  BY ActiveCall
<1>2. QED
  BY <1>1 DEF WritesExclusive, Active

LEMMA LoadedInvStep ==
    ASSUME TypeInv, GraphInv, QueryInv, WritesExclusive, LoadedInv, [Next]_vars
    PROVE  LoadedInv'
<1> USE DEF TypeInv
<1>1. DOMAIN call = Client
  BY DEF TypeOK, CallsOK
<1>2. ASSUME NEW c \in Client, UNCHANGED quads,
             \A d \in Client \ {c} : call'[d] = call[d], Loaded(c)'
      PROVE  LoadedInv'
  BY <1>2 DEF LoadedInv, Loaded
<1>3. ASSUME NEW c \in Client, UNCHANGED quads,
             \A d \in Client \ {c} : call'[d] = call[d], call'[c].pc \notin {"list", "load"}
      PROVE  LoadedInv'
  BY <1>2, <1>3 DEF Loaded
<1>4. ASSUME NEW c \in Client, NEW req \in MayRequest[c], Invoke(c, req)
      PROVE  LoadedInv'
  <2>1. /\ UNCHANGED quads /\ \A d \in Client \ {c} : call'[d] = call[d]
        /\ call'[c].pc = FirstAccess(req) /\ call'[c].req = req /\ call'[c].found = {}
        /\ FirstAccess(req) = "load" => call'[c].pending = {req.query.origin_node}
    BY <1>1, <1>4 DEF Invoke, NoCall
  <2>2. ASSUME FirstAccess(req) = "load"
        PROVE  About(req.query) = {req.query.origin_node}
    <3>1. req \in Request
      BY MayRequestAssumption
    <3>2. req.query \in CatalogQuery /\ req.query.origin_node # None
      BY <2>2, <3>1, RequestTypes DEF FirstAccess
    <3>3. QED
      BY <3>2 DEF About, CatalogQuery
  <2>3. FirstAccess(req) = "list" => About(req.query) = NodeId
    <3>1. req \in Request
      BY MayRequestAssumption
    <3>2. FirstAccess(req) = "list" => req.query.origin_node = None
      BY <3>1, RequestTypes DEF FirstAccess
    <3>3. QED
      BY <3>2 DEF About
  <2>4. Loaded(c)'
    BY <2>1, <2>2, <2>3 DEF Loaded
  <2>5. QED
    BY <1>2, <2>1, <2>4
<1>5. ASSUME NEW c \in Client, RemovePrior(c) \/ InsertNew(c) \/ RemoveSubject(c)
      PROVE  LoadedInv'
  <2>1. /\ call[c].pc \in {"remove", "insert", "drop"} /\ call'[c].pc \in {"insert", "returned"}
        /\ \A d \in Client \ {c} : call'[d] = call[d]
    BY <1>5, CallMoves DEF RemovePrior, InsertNew, RemoveSubject
  <2>2. \A d \in Client \ {c} : call[d].pc \notin {"list", "load"}
    BY <2>1, WriterAlone
  <2>3. QED
    BY <2>1, <2>2 DEF LoadedInv, Loaded
<1>6. ASSUME NEW c \in Client, NamedGraphs(c)
      PROVE  LoadedInv'
  <2>1. /\ call[c].pc = "list" /\ call[c] \in InCall(call[c].req) /\ UNCHANGED quads
        /\ call[c].req.op = "query"
    BY <1>6, ActiveCall DEF NamedGraphs, StoreUnchanged
  <2>2. /\ \A d \in Client \ {c} : call'[d] = call[d]
        /\ call'[c].pc = "load" /\ call'[c].req = call[c].req
        /\ call'[c].pending = graph_names /\ call'[c].found = call[c].found
    BY <1>1, <1>6, <2>1 DEF NamedGraphs, InCall
  <2>3. call[c].found = {} /\ About(call[c].req.query) = NodeId
    BY <2>1 DEF LoadedInv, Loaded
  <2>4. graph_names \subseteq NodeId /\ \A n \in NodeId \ graph_names : quads[n] = {}
    BY DEF TypeOK, QueryInv, StoreInv
  <2>5. Loaded(c)'
    BY <2>1, <2>2, <2>3, <2>4 DEF Loaded
  <2>6. QED
    BY <1>2, <2>1, <2>2, <2>5
<1>7. ASSUME NEW c \in Client, NEW n \in NodeId, LoadGraph(c, n)
      PROVE  LoadedInv'
  <2>1. PICK first \in IF quads[n] = {} THEN {{}} ELSE {{cat} : cat \in quads[n]} :
          call' = [call EXCEPT ![c].pending = Remaining(c, n),
                                ![c].found = @ \union first]
    BY <1>7 DEF LoadGraph
  <2>2. /\ call[c].pc = "load" /\ n \in call[c].pending /\ UNCHANGED quads
        /\ call[c] \in InCall(call[c].req)
    BY <1>7, ActiveCall DEF LoadGraph, StoreUnchanged
  <2>3. /\ call'[c].pc = "load" /\ call'[c].req = call[c].req
        /\ call'[c].pending = call[c].pending \ {n}
        /\ call'[c].found = call[c].found \union first
        /\ \A d \in Client \ {c} : call'[d] = call[d]
    <3>1. call'[c] = [call[c] EXCEPT !.pending = call[c].pending \ {n},
                                     !.found = call[c].found \union first]
      BY <1>1, <2>1 DEF Remaining
    <3>2. QED
      BY <1>1, <2>1, <2>2, <3>1 DEF InCall
  <2>4. first = quads[n]
    BY <2>1 DEF GraphInv, ConfirmedOne, ConfirmedOrLost
  <2> DEFINE about == About(call[c].req.query)
  <2>5. call[c].pending \subseteq about /\ n \in about
        /\ call[c].found = UNION {quads[m] : m \in about \ call[c].pending}
    BY <2>2 DEF LoadedInv, Loaded
  <2> HIDE DEF about
  <2>6. call[c].found \union quads[n] = UNION {quads[m] : m \in about \ (call[c].pending \ {n})}
    BY <2>5
  <2>7. About(call'[c].req.query) = about
    BY <2>3 DEF about
  <2>8. Loaded(c)'
    BY <2>2, <2>3, <2>4, <2>5, <2>6, <2>7 DEF Loaded
  <2>9. QED
    BY <1>2, <2>2, <2>3, <2>8
<1>8. ASSUME NEW c \in Client, Answer(c) \/ HasSubject(c) \/ Fail(c) \/ Return(c)
      PROVE  LoadedInv'
  <2>1. UNCHANGED quads
    BY <1>8 DEF Answer, HasSubject, Fail, Return, StoreUnchanged
  <2>2. call[c].pc # "idle"
    BY <1>8 DEF Answer, HasSubject, Fail, Return
  <2>3. CASE Return(c)
    <3>1. call'[c].pc = "idle" /\ \A d \in Client \ {c} : call'[d] = call[d]
      BY <1>1, <2>3 DEF Return, NoCall
    <3>2. QED
      BY <1>3, <2>1, <3>1
  <2>4. CASE ~Return(c)
    <3>1. call'[c].pc \in {"returned", "drop"} /\ \A d \in Client \ {c} : call'[d] = call[d]
      BY <1>8, <2>2, <2>4, CallMoves DEF Answer, HasSubject, Fail
    <3>2. QED
      BY <1>3, <2>1, <3>1
  <2>5. QED
    BY <2>3, <2>4
<1>9. CASE UNCHANGED vars
  BY <1>9 DEF vars, LoadedInv, Loaded
<1>10. QED
  BY <1>4, <1>5, <1>6, <1>7, <1>8, <1>9 DEF Next, Step

LEMMA ExclusiveInvAlways == ExclusiveSpec => Spec /\ []ExclusiveInv
<1>1. Init => WritesExclusive /\ LoadedInv
  BY DEF Init, NoCall, WritesExclusive, Active, LoadedInv, Loaded
<1>2. WritesExclusive /\ [Next /\ WritesExclusive']_vars => WritesExclusive'
  BY DEF vars, WritesExclusive, Active
<1>3. TypeInv /\ GraphInv /\ QueryInv /\ WritesExclusive /\ LoadedInv /\ [Next]_vars
         => GraphInv' /\ LoadedInv'
  BY ExclusiveWriter, GraphInvStep, LoadedInvStep DEF TypeInv
<1>4. ExclusiveSpec => Spec /\ []WritesExclusive
  BY <1>1, <1>2, PTL DEF ExclusiveSpec, Spec
<1>5. Spec /\ []WritesExclusive => [](GraphInv /\ LoadedInv)
  BY <1>1, <1>3, GraphInvInit, QueryInvAlways, PTL DEF Spec
<1>6. QED
  BY <1>4, <1>5, QueryInvAlways, PTL DEF ExclusiveInv

(* The two modules define the data in the same words.                      *)
LEMMA SameData ==
    /\ \A value : Cache!Ok(value) = Ok(value)
    /\ \A S, q : Cache!Answers(S, q) = Answers(S, q)
<1>1. \A value : Cache!Ok(value) = Ok(value)
  BY DEF Cache!Ok, Ok
<1>2. \A S : Cache!Cardinality(S) = Cardinality(S)
  BY DEF Cache!Cardinality, Cardinality
<1>3. \A S : Cache!SortedById(S) = SortedById(S)
  BY <1>2 DEF Cache!SortedById, SortedById
<1>4. \A s, q : Cache!Page(s, q) = Page(s, q)
  BY DEF Cache!Page, Page
<1>5. \A S, q : Cache!Selected(S, q) = Selected(S, q)
  BY DEF Cache!Selected, Selected
<1>6. \A S, q : Cache!Answers(S, q) = Answers(S, q)
  BY <1>3, <1>4, <1>5 DEF Cache!Answers, Answers
<1>7. QED
  BY <1>1, <1>6

(* What the abstract cache holds for node n, from the graphs and the calls. *)
InsertingIn(calls, n) == {c \in Client : calls[c].pc = "insert" /\ Target(calls[c].req) = n}

OneOf(S) == CHOOSE x \in S : TRUE

CatalogAt(graphs, calls, n) ==
    IF InsertingIn(calls, n) # {} THEN calls[OneOf(InsertingIn(calls, n))].req.catalog
    ELSE IF graphs[n] = {} THEN None ELSE OneOf(graphs[n])

LEMMA AbstractGraphsAre ==
    /\ AbstractGraphs = [n \in NodeId |-> CatalogAt(quads, call, n)]
    /\ AbstractGraphs' = [n \in NodeId |-> CatalogAt(quads', call', n)]
BY Zenon DEF AbstractGraphs, CatalogAt, OneOf, InsertingIn, Inserting

LEMMA CatalogAtCases ==
    ASSUME NEW graphs, NEW calls, NEW n
    PROVE  /\ \A c : InsertingIn(calls, n) = {c} =>
                        CatalogAt(graphs, calls, n) = calls[c].req.catalog
           /\ InsertingIn(calls, n) = {} /\ graphs[n] = {} =>
                        CatalogAt(graphs, calls, n) = None
           /\ \A cat : InsertingIn(calls, n) = {} /\ graphs[n] = {cat} =>
                        CatalogAt(graphs, calls, n) = cat
<1>1. \A x : OneOf({x}) = x
  BY DEF OneOf
<1>2. \A c : InsertingIn(calls, n) = {c} => CatalogAt(graphs, calls, n) = calls[c].req.catalog
  BY <1>1 DEF CatalogAt
<1>3. \A cat : InsertingIn(calls, n) = {} /\ graphs[n] = {cat} =>
                  CatalogAt(graphs, calls, n) = cat
  BY <1>1 DEF CatalogAt
<1>4. QED
  BY <1>2, <1>3 DEF CatalogAt

(* A step that touches no graph and no insert changes no cached catalog.   *)
LEMMA GraphsKept ==
    ASSUME NEW c \in Client, UNCHANGED quads, \A d \in Client \ {c} : call'[d] = call[d],
           call[c].pc # "insert", call'[c].pc # "insert"
    PROVE  AbstractGraphs' = AbstractGraphs
<1>1. ASSUME NEW n \in NodeId
      PROVE  CatalogAt(quads', call', n) = CatalogAt(quads, call, n)
  <2>1. InsertingIn(call', n) = InsertingIn(call, n)
    BY DEF InsertingIn
  <2>2. \A d \in InsertingIn(call, n) : call'[d] = call[d]
    BY DEF InsertingIn
  <2>3. \A S : S # {} => OneOf(S) \in S
    BY DEF OneOf
  <2>4. QED
    BY <2>1, <2>2, <2>3 DEF CatalogAt
<1>2. QED
  BY <1>1, AbstractGraphsAre, Zenon

(* What the abstract cache sees of one client's call.                      *)
AbstractState(state) ==
    [pc  |-> CASE state.pc \in {"idle", "returned"} -> state.pc
               [] state.pc = "insert" -> "returned"
               [] OTHER -> "called",
     req |-> state.req,
     ret |-> IF state.pc = "insert" THEN Ok(None) ELSE state.ret]

LEMMA QuietCall ==
    ASSUME NEW state, state.pc \in {"idle", "returned"}
    PROVE  AbstractState(state).pc = state.pc
<1>1. CASE state.pc = "idle"
  BY <1>1 DEF AbstractState
<1>2. CASE state.pc = "returned"
  BY <1>2 DEF AbstractState
<1>3. QED
  BY <1>1, <1>2

LEMMA AbstractCallsAre ==
    /\ AbstractCall = [c \in Client |-> AbstractState(call[c])]
    /\ AbstractCall' = [c \in Client |-> AbstractState(call'[c])]
BY Zenon DEF AbstractCall, AbstractState

LEMMA AbstractUpdate ==
    ASSUME NEW c \in Client, \A d \in Client \ {c} : call'[d] = call[d]
    PROVE  /\ AbstractCall[c] = AbstractState(call[c])
           /\ AbstractCall' = [AbstractCall EXCEPT ![c] = AbstractState(call'[c])]
<1>1. \A d \in Client \ {c} : AbstractState(call'[d]) = AbstractState(call[d])
  OBVIOUS
<1>2. QED
  BY <1>1, AbstractCallsAre

(* A step that the abstract cache does not see.                            *)
LEMMA Unseen ==
    ASSUME NEW c \in Client, \A d \in Client \ {c} : call'[d] = call[d],
           AbstractState(call'[c]) = AbstractState(call[c]), AbstractGraphs' = AbstractGraphs
    PROVE  UNCHANGED Cache!vars
<1>1. AbstractCall' = AbstractCall
  BY AbstractCallsAre, AbstractUpdate
<1>2. QED
  BY <1>1 DEF Cache!vars

(* A step with which a call takes effect.                                  *)
LEMMA TakesEffect ==
    ASSUME NEW c \in Client, NEW ret, \A d \in Client \ {c} : call'[d] = call[d],
           call[c].pc \notin {"idle", "insert", "returned"},
           call'[c].req = call[c].req,
           \/ call'[c].pc = "returned" /\ call'[c].ret = ret
           \/ call'[c].pc = "insert" /\ ret = Ok(None)
    PROVE  /\ Cache!Effect(c, ret)
           /\ AbstractCall[c].pc = "called"
           /\ AbstractCall[c].req = call[c].req
<1>1. /\ AbstractCall[c] = AbstractState(call[c])
      /\ AbstractCall' = [AbstractCall EXCEPT ![c] = AbstractState(call'[c])]
  BY AbstractUpdate
<1>2. AbstractCall[c].pc = "called" /\ AbstractCall[c].req = call[c].req
  BY <1>1 DEF AbstractState
<1>3. AbstractState(call'[c]) = [pc |-> "returned", req |-> AbstractCall[c].req, ret |-> ret]
  BY <1>2 DEF AbstractState
<1>4. QED
  BY <1>1, <1>2, <1>3 DEF Cache!Effect

(* Which step of the abstract cache each step of the backend is.           *)
LEMMA InvokeRefines ==
    ASSUME ExclusiveInv, NEW c \in Client, NEW req \in MayRequest[c], Invoke(c, req)
    PROVE  Cache!Next
<1>1. FirstAccess(req) \in {"remove", "check", "list", "load"}
  BY MayRequestAssumption DEF FirstAccess, Request
<1>2. /\ call[c].pc = "idle" /\ UNCHANGED quads
      /\ \A d \in Client \ {c} : call'[d] = call[d]
      /\ call'[c].pc = FirstAccess(req) /\ call'[c].req = req /\ call'[c].ret = None
  <2>1. DOMAIN call = Client
    BY DEF ExclusiveInv, TypeInv, TypeOK, CallsOK
  <2>2. QED
    BY <2>1 DEF Invoke, NoCall
<1>3. AbstractGraphs' = AbstractGraphs
  BY <1>1, <1>2, GraphsKept
<1>4. AbstractState(call'[c]) = [pc |-> "called", req |-> req, ret |-> None]
  BY <1>1, <1>2 DEF AbstractState
<1>5. AbstractCall[c].pc = "idle"
  BY <1>2, AbstractUpdate, QuietCall
<1>6. AbstractCall' = [AbstractCall EXCEPT ![c] = [pc |-> "called", req |-> req, ret |-> None]]
  BY <1>2, <1>4, AbstractUpdate
<1>7. Cache!Invoke(c, req)
  BY <1>3, <1>5, <1>6 DEF Cache!Invoke
<1>8. QED
  BY <1>7 DEF Cache!Next

(* upsert takes effect when it removes what its graph holds.               *)
LEMMA RemovePriorRefines ==
    ASSUME ExclusiveInv, NEW c \in Client, RemovePrior(c)
    PROVE  Cache!Next
<1> USE DEF ExclusiveInv, TypeInv
<1> DEFINE cat == call[c].req.catalog
           n == cat.origin_node
<1>1. /\ call[c].pc = "remove" /\ call[c].req.op = "upsert"
      /\ n \in NodeId /\ Target(call[c].req) = n
  BY ActiveCall, RequestTypes DEF RemovePrior, Target
<1>2. /\ call'[c].pc = "insert" /\ call'[c].req = call[c].req
      /\ \A d \in Client \ {c} : call'[d] = call[d]
  BY <1>1, CallMoves DEF RemovePrior
<1>3. \A d \in Client \ {c} : call[d].pc # "insert"
  BY <1>1, WriterAlone
<1>4. quads' = [quads EXCEPT ![n] = {}]
  BY <1>1 DEF RemovePrior, StoreRemove, SetQuads
<1>5. InsertingIn(call', n) = {c} /\ \A m \in NodeId : InsertingIn(call, m) = {}
  BY <1>1, <1>2, <1>3 DEF InsertingIn
<1>6. \A m \in NodeId \ {n} : InsertingIn(call', m) = {}
  BY <1>1, <1>2, <1>3 DEF InsertingIn
<1>7. CatalogAt(quads', call', n) = cat
  BY <1>2, <1>5, CatalogAtCases
<1> HIDE DEF cat, n
<1>8. \A m \in NodeId \ {n} : CatalogAt(quads', call', m) = CatalogAt(quads, call, m)
  <2>1. \A m \in NodeId \ {n} : quads'[m] = quads[m]
    BY <1>4 DEF TypeOK
  <2>2. QED
    BY <1>5, <1>6, <2>1 DEF CatalogAt
<1>9. AbstractGraphs' = [AbstractGraphs EXCEPT ![n] = cat]
  BY <1>7, <1>8, AbstractGraphsAre
<1>10. /\ Cache!Effect(c, Ok(None))
       /\ AbstractCall[c].pc = "called" /\ AbstractCall[c].req = call[c].req
  BY <1>1, <1>2, TakesEffect
<1>11. Cache!Upsert(c)
  BY <1>1, <1>9, <1>10, SameData DEF Cache!Upsert, cat, n
<1>12. QED
  BY <1>10, <1>11 DEF Cache!Next

(* Its insert then stores what the abstract cache holds already.           *)
LEMMA InsertNewRefines ==
    ASSUME ExclusiveInv, NEW c \in Client, InsertNew(c)
    PROVE  UNCHANGED Cache!vars
<1> USE DEF ExclusiveInv, TypeInv
<1> DEFINE cat == call[c].req.catalog
           n == cat.origin_node
<1>1. /\ call[c].pc = "insert" /\ call[c].req.op = "upsert"
      /\ n \in NodeId /\ Target(call[c].req) = n
  BY ActiveCall, RequestTypes DEF InsertNew, Target
<1>2. /\ call'[c].pc = "returned" /\ call'[c].req = call[c].req /\ call'[c].ret = Ok(None)
      /\ \A d \in Client \ {c} : call'[d] = call[d]
  BY <1>1, CallMoves DEF InsertNew
<1>3. \A d \in Client \ {c} : call[d].pc # "insert"
  BY <1>1, WriterAlone
<1>4. quads[n] = {}
  BY <1>1 DEF GraphInv, InsertFindsEmpty, At
<1>5. quads' = [quads EXCEPT ![n] = {cat}]
  BY <1>1, <1>4 DEF InsertNew, StoreInsert, SetQuads, GraphOf, TypeOK
<1>6. InsertingIn(call, n) = {c} /\ \A m \in NodeId : InsertingIn(call', m) = {}
  BY <1>1, <1>2, <1>3 DEF InsertingIn
<1>7. \A m \in NodeId \ {n} : InsertingIn(call, m) = {}
  BY <1>1, <1>3 DEF InsertingIn
<1>8. CatalogAt(quads, call, n) = cat
  BY <1>6, CatalogAtCases
<1> HIDE DEF cat, n
<1>9. quads'[n] = {cat} /\ \A m \in NodeId \ {n} : quads'[m] = quads[m]
  BY <1>1, <1>5 DEF TypeOK
<1>10. CatalogAt(quads', call', n) = cat
  BY <1>1, <1>6, <1>9, CatalogAtCases
<1>11. \A m \in NodeId \ {n} : CatalogAt(quads', call', m) = CatalogAt(quads, call, m)
  BY <1>6, <1>7, <1>9 DEF CatalogAt
<1>12. AbstractGraphs' = AbstractGraphs
  BY <1>8, <1>10, <1>11, AbstractGraphsAre
<1>13. AbstractState(call'[c]) = AbstractState(call[c])
  BY <1>1, <1>2 DEF AbstractState
<1>14. QED
  BY <1>2, <1>12, <1>13, Unseen

LEMMA ListRefines ==
    ASSUME ExclusiveInv, NEW c \in Client, NamedGraphs(c)
    PROVE  UNCHANGED Cache!vars
<1> USE DEF ExclusiveInv, TypeInv
<1>1. call[c].pc = "list" /\ call[c] \in InCall(call[c].req) /\ UNCHANGED quads
  BY ActiveCall DEF NamedGraphs, StoreUnchanged
<1>2. /\ \A d \in Client \ {c} : call'[d] = call[d]
      /\ call'[c].pc = "load" /\ call'[c].req = call[c].req /\ call'[c].ret = call[c].ret
  BY <1>1 DEF NamedGraphs, InCall, TypeOK, CallsOK
<1>3. AbstractState(call'[c]) = AbstractState(call[c])
  BY <1>1, <1>2 DEF AbstractState
<1>4. QED
  BY <1>1, <1>2, <1>3, GraphsKept, Unseen

LEMMA LoadRefines ==
    ASSUME ExclusiveInv, NEW c \in Client, NEW n \in NodeId, LoadGraph(c, n)
    PROVE  UNCHANGED Cache!vars
<1> USE DEF ExclusiveInv, TypeInv
<1>1. call[c].pc = "load" /\ call[c] \in InCall(call[c].req) /\ UNCHANGED quads
  BY ActiveCall DEF LoadGraph, StoreUnchanged
<1>2. PICK pending, found : call' = [call EXCEPT ![c].pending = pending, ![c].found = found]
  BY DEF LoadGraph
<1>3. /\ \A d \in Client \ {c} : call'[d] = call[d]
      /\ call'[c] = [call[c] EXCEPT !.pending = pending, !.found = found]
  BY <1>2 DEF TypeOK, CallsOK
<1>4. call'[c].pc = "load" /\ call'[c].req = call[c].req /\ call'[c].ret = call[c].ret
  BY <1>1, <1>3 DEF InCall
<1>5. AbstractState(call'[c]) = AbstractState(call[c])
  BY <1>1, <1>4 DEF AbstractState
<1>6. QED
  BY <1>1, <1>3, <1>4, <1>5, GraphsKept, Unseen

(* A query that has loaded all its graphs has found what is cached.        *)
LEMMA FoundIsCached ==
    ASSUME ExclusiveInv, NEW c \in Client, call[c].pc = "load", call[c].pending = {}
    PROVE  Selected(Cache!Cached, call[c].req.query) = call[c].found
<1> USE DEF ExclusiveInv, TypeInv
<1> DEFINE q == call[c].req.query
<1>1. call[c].found = UNION {quads[n] : n \in About(q)}
  BY DEF LoadedInv, Loaded
<1>2. \A n \in NodeId : InsertingIn(call, n) = {}
  BY ReaderMeetsNoWriter DEF InsertingIn
<1>3. \A n \in NodeId : /\ quads[n] = {} \/ \E cat \in Catalog : quads[n] = {cat}
                        /\ \A cat \in quads[n] : cat.origin_node = n /\ cat # None
  BY NoneAssumption DEF GraphInv, ConfirmedOne, ConfirmedOrLost, QueryInv, StoreInv, TypeOK
<1>4. ASSUME NEW n \in NodeId
      PROVE  /\ quads[n] = {} => AbstractGraphs[n] = None
             /\ \A cat : quads[n] = {cat} => AbstractGraphs[n] = cat
  <2> HIDE DEF ExclusiveInv, TypeInv
  <2>1. AbstractGraphs[n] = CatalogAt(quads, call, n)
    BY AbstractGraphsAre
  <2>2. InsertingIn(call, n) = {}
    BY <1>2
  <2>3. AbstractGraphs[n] = IF quads[n] = {} THEN None ELSE OneOf(quads[n])
    BY <2>1, <2>2 DEF CatalogAt
  <2>4. \A cat : OneOf({cat}) = cat
    BY DEF OneOf
  <2>5. QED
    BY <2>3, <2>4
<1>5. Cache!Cached = UNION {quads[n] : n \in NodeId}
  BY <1>3, <1>4 DEF Cache!Cached
<1> HIDE DEF q
<1>6. Selected(UNION {quads[n] : n \in NodeId}, q) = UNION {quads[n] : n \in About(q)}
  BY <1>3 DEF Selected, About
<1>7. QED
  BY <1>1, <1>5, <1>6 DEF q

LEMMA AnswerRefines ==
    ASSUME ExclusiveInv, NEW c \in Client, Answer(c)
    PROVE  Cache!Next
<1> USE DEF ExclusiveInv, TypeInv
<1> DEFINE q == call[c].req.query
           found == call[c].found
<1>1. /\ call[c].pc = "load" /\ call[c].pending = {} /\ UNCHANGED quads
      /\ call[c].req.op = "query"
  BY ActiveCall DEF Answer, StoreUnchanged
<1>2. PICK answer \in Answers(found, q) : Finish(c, Ok(answer))
  BY DEF Answer
<1>3. /\ \A d \in Client \ {c} : call'[d] = call[d]
      /\ call'[c].pc = "returned" /\ call'[c].req = call[c].req /\ call'[c].ret = Ok(answer)
  BY <1>1, <1>2, CallMoves
<1>4. AbstractGraphs' = AbstractGraphs
  BY <1>1, <1>3, GraphsKept
<1>5. Selected(Cache!Cached, q) = found
  BY <1>1, FoundIsCached
<1>6. Selected(found, q) = found
  BY <1>5 DEF Selected
<1> HIDE DEF q, found
<1>7. Answers(found, q) = Cache!Answers(Cache!Cached, q)
  BY <1>5, <1>6, SameData DEF Answers
<1>8. /\ Cache!Effect(c, Cache!Ok(answer))
      /\ AbstractCall[c].pc = "called" /\ AbstractCall[c].req = call[c].req
  BY <1>1, <1>3, TakesEffect, SameData
<1>9. Cache!Query(c)
  BY <1>1, <1>2, <1>4, <1>7, <1>8 DEF Cache!Query, q
<1>10. QED
  BY <1>8, <1>9 DEF Cache!Next

(* A delete that finds nothing takes effect there and then.                *)
LEMMA HasSubjectRefines ==
    ASSUME ExclusiveInv, NEW c \in Client, HasSubject(c)
    PROVE  [Cache!Next]_(Cache!vars)
<1> USE DEF ExclusiveInv, TypeInv
<1> DEFINE n == Target(call[c].req)
<1>1. /\ call[c].pc = "check" /\ call[c].req.op = "delete" /\ UNCHANGED quads
      /\ n \in NodeId /\ n = call[c].req.node
  BY ActiveCall, RequestTypes DEF HasSubject, StoreUnchanged, Target
<1>2. \A m \in NodeId : InsertingIn(call, m) = {}
  BY <1>1, WriterAlone DEF InsertingIn
<1> HIDE DEF n
<1>3. CASE quads[n] = {}
  <2>1. Finish(c, Ok(FALSE))
    BY <1>3 DEF HasSubject, HasTriple, n
  <2>2. /\ \A d \in Client \ {c} : call'[d] = call[d]
        /\ call'[c].pc = "returned" /\ call'[c].req = call[c].req /\ call'[c].ret = Ok(FALSE)
    BY <1>1, <2>1, CallMoves
  <2>3. AbstractGraphs' = AbstractGraphs
    BY <1>1, <2>2, GraphsKept
  <2>4. AbstractGraphs[n] = None
    BY <1>1, <1>2, <1>3, CatalogAtCases, AbstractGraphsAre
  <2>5. AbstractGraphs' = [AbstractGraphs EXCEPT ![n] = None]
    BY <1>1, <2>3, <2>4, AbstractGraphsAre
  <2>6. /\ Cache!Effect(c, Cache!Ok(FALSE))
        /\ AbstractCall[c].pc = "called" /\ AbstractCall[c].req = call[c].req
    BY <1>1, <2>2, TakesEffect, SameData
  <2>7. Cache!Delete(c)
    BY <1>1, <2>4, <2>5, <2>6 DEF Cache!Delete
  <2>8. QED
    BY <2>6, <2>7 DEF Cache!Next
<1>4. CASE quads[n] # {}
  <2>1. Goto(c, "drop")
    BY <1>4 DEF HasSubject, HasTriple, n
  <2>2. /\ \A d \in Client \ {c} : call'[d] = call[d]
        /\ call'[c].pc = "drop" /\ call'[c].req = call[c].req
    BY <1>1, <2>1, CallMoves
  <2>3. call'[c].ret = call[c].ret
    <3>1. call[c] \in InCall(call[c].req) /\ DOMAIN call = Client
      BY <1>1, ActiveCall DEF TypeOK, CallsOK
    <3>2. QED
      BY <2>1, <3>1 DEF Goto, InCall
  <2>4. AbstractState(call'[c]) = AbstractState(call[c])
    BY <1>1, <2>2, <2>3 DEF AbstractState
  <2>5. QED
    BY <1>1, <2>2, <2>4, GraphsKept, Unseen
<1>5. QED
  BY <1>3, <1>4

LEMMA RemoveSubjectRefines ==
    ASSUME ExclusiveInv, NEW c \in Client, RemoveSubject(c)
    PROVE  Cache!Next
<1> USE DEF ExclusiveInv, TypeInv
<1> DEFINE n == Target(call[c].req)
<1>1. /\ call[c].pc = "drop" /\ call[c].req.op = "delete"
      /\ n \in NodeId /\ n = call[c].req.node
  BY ActiveCall, RequestTypes DEF RemoveSubject, Target
<1>2. /\ call'[c].pc = "returned" /\ call'[c].req = call[c].req /\ call'[c].ret = Ok(TRUE)
      /\ \A d \in Client \ {c} : call'[d] = call[d]
  BY <1>1, CallMoves DEF RemoveSubject
<1>3. \A m \in NodeId : InsertingIn(call, m) = {} /\ InsertingIn(call', m) = {}
  BY <1>1, <1>2, WriterAlone DEF InsertingIn
<1>4. /\ \A m \in NodeId \ {n} : quads'[m] = quads[m]
      /\ quads'[n] = {}
  BY <1>1 DEF RemoveSubject, StoreRemove, SetQuads, TypeOK
<1>5. PICK cat \in Catalog : quads[n] = {cat}
  BY <1>1 DEF GraphInv, DropFindsTriple, ConfirmedOne, ConfirmedOrLost, At
<1> HIDE DEF n
<1>6. AbstractGraphs[n] # None
  BY <1>1, <1>3, <1>5, CatalogAtCases, AbstractGraphsAre, NoneAssumption
<1>7. CatalogAt(quads', call', n) = None
  BY <1>1, <1>3, <1>4, CatalogAtCases
<1>8. \A m \in NodeId \ {n} : CatalogAt(quads', call', m) = CatalogAt(quads, call, m)
  BY <1>3, <1>4 DEF CatalogAt
<1>9. AbstractGraphs' = [AbstractGraphs EXCEPT ![n] = None]
  BY <1>7, <1>8, AbstractGraphsAre
<1>10. /\ Cache!Effect(c, Cache!Ok(TRUE))
       /\ AbstractCall[c].pc = "called" /\ AbstractCall[c].req = call[c].req
  BY <1>1, <1>2, TakesEffect, SameData
<1>11. Cache!Delete(c)
  BY <1>1, <1>6, <1>9, <1>10 DEF Cache!Delete
<1>12. QED
  BY <1>10, <1>11 DEF Cache!Next

LEMMA ReturnRefines ==
    ASSUME ExclusiveInv, NEW c \in Client, Return(c)
    PROVE  Cache!Next
<1> USE DEF ExclusiveInv, TypeInv
<1>1. /\ call[c].pc = "returned" /\ UNCHANGED quads
      /\ call'[c] = NoCall /\ \A d \in Client \ {c} : call'[d] = call[d]
  BY DEF Return, StoreUnchanged, TypeOK, CallsOK
<1>2. AbstractGraphs' = AbstractGraphs
  BY <1>1, GraphsKept DEF NoCall
<1>3. AbstractState(NoCall) = Cache!NoCall
  BY DEF AbstractState, NoCall, Cache!NoCall
<1>4. AbstractCall[c].pc = "returned"
  BY <1>1, AbstractUpdate, QuietCall
<1>5. AbstractCall' = [AbstractCall EXCEPT ![c] = Cache!NoCall]
  BY <1>1, <1>3, AbstractUpdate
<1>6. Cache!Return(c)
  BY <1>2, <1>4, <1>5 DEF Cache!Return
<1>7. QED
  BY <1>6 DEF Cache!Next

LEMMA NextRefines ==
    ASSUME ~StorageErrors, ExclusiveInv, [Next]_vars
    PROVE  [Cache!Next]_(Cache!vars)
<1>1. CASE UNCHANGED vars
  <2>1. UNCHANGED <<quads, call>>
    BY <1>1 DEF vars
  <2>2. AbstractGraphs' = AbstractGraphs
    BY <2>1, AbstractGraphsAre
  <2>3. AbstractCall' = AbstractCall
    BY <2>1, AbstractCallsAre
  <2>4. QED
    BY <2>2, <2>3 DEF Cache!vars
<1>2. ASSUME NEW c \in Client, Step(c)
      PROVE  [Cache!Next]_(Cache!vars)
  <2>1. ~Fail(c)
    BY DEF Fail
  <2>2. QED
    BY <1>2, <2>1, InvokeRefines, RemovePriorRefines, InsertNewRefines, ListRefines, LoadRefines,
       AnswerRefines, HasSubjectRefines, RemoveSubjectRefines, ReturnRefines DEF Step
<1>3. QED
  BY <1>1, <1>2 DEF Next

(***************************************************************************)
(* As long as its callers let nothing run beside a write, and the store    *)
(* does not fail, this backend implements the trait like the in-memory     *)
(* one, although a write and a query take several accesses: "so the two    *)
(* backends are behavior-equivalent".  Queries may overlap freely.         *)
(***************************************************************************)
THEOREM ExclusiveImplements ==
    ASSUME ~StorageErrors PROVE ExclusiveSpec => ImplementsCache
<1>1. Init => Cache!Init
  <2> SUFFICES ASSUME Init PROVE Cache!Init
    OBVIOUS
  <2>1. \A c \in Client : call[c] = NoCall
    BY DEF Init
  <2>2. \A n \in NodeId : InsertingIn(call, n) = {} /\ quads[n] = {}
    BY <2>1 DEF InsertingIn, NoCall, Init
  <2>3. \A n \in NodeId : AbstractGraphs[n] = None
    BY <2>2, CatalogAtCases, AbstractGraphsAre
  <2>4. \A c \in Client : AbstractState(call[c]) = Cache!NoCall
    BY <2>1 DEF AbstractState, NoCall, Cache!NoCall
  <2>5. AbstractCall = [c \in Client |-> Cache!NoCall]
    BY <2>4, AbstractCallsAre
  <2>6. AbstractGraphs = [n \in NodeId |-> None]
    BY <2>3, AbstractGraphsAre
  <2>7. QED
    BY <2>5, <2>6 DEF Cache!Init
<1>2. ExclusiveInv /\ [Next]_vars => [Cache!Next]_(Cache!vars)
  BY NextRefines
<1>3. QED
  BY <1>1, <1>2, ExclusiveInvAlways, PTL DEF Spec, ImplementsCache, Cache!Spec

(***************************************************************************)
(* Nor does it matter then how many clients write a node: a graph keeps    *)
(* what the last completed write left there.                               *)
(***************************************************************************)
THEOREM ExclusiveLastWrite ==
    ASSUME ~StorageErrors PROVE ExclusiveSpec => []LastWriteKept
<1>1. ExclusiveInv => LastWriteKept
  BY DEF ExclusiveInv, GraphInv, LostToUpsert, LastWriteKept, Writing, At
<1>2. QED
  BY <1>1, ExclusiveInvAlways, PTL
=============================================================================
