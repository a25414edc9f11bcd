--------------------- MODULE InMemoryCatalogCache_proofs ---------------------
(***************************************************************************)
(* The in-memory backend implements the abstract cache, for any nodes,     *)
(* catalogs, clients and calls.                                            *)
(***************************************************************************)
EXTENDS InMemoryCatalogCache, Catalogs_proofs

-----------------------------------------------------------------------------
(* Types.                                                                  *)

(* A query has found finitely many catalogs: needed to type its answer.    *)
FoundFinite == \A c \in Client : IsFiniteSet(call[c].found)

TypeInv == TypeOK /\ FoundFinite

LEMMA ActiveCall ==
    ASSUME TypeOK, NEW c \in Client, call[c].pc # "idle"
    PROVE  /\ call[c].req \in MayRequest[c]
           /\ call[c].req \in Request
           /\ call[c] \in InCall(call[c].req)
<1>1. PICK req \in MayRequest[c] : call[c] \in InCall(req)
  BY DEF TypeOK, CallsOK, CallOK, NoCall
<1>2. call[c].req = req
  BY <1>1 DEF InCall
<1>3. QED
  BY <1>1, <1>2, MayRequestAssumption

LEMMA RequestTypes ==
    ASSUME NEW req \in Request
    PROVE  /\ req.op = "upsert" => /\ req.catalog \in Catalog
                                   /\ req.catalog.origin_node \in NodeId
           /\ req.op = "delete" => req.node \in NodeId
           /\ req.op = "query" => req.query \in CatalogQuery
  BY DEF Request, Catalog

(* Only the client that steps changes its entry of call.                   *)
LEMMA CallUpdated ==
    ASSUME TypeInv, NEW c \in Client, NEW state,
           call' = [call EXCEPT ![c] = state],
           CallOK(c, state), IsFiniteSet(state.found)
    PROVE  CallsOK' /\ FoundFinite'
<1>1. DOMAIN call' = Client /\ call'[c] = state
  BY DEF TypeInv, TypeOK, CallsOK
<1>2. \A d \in Client \ {c} : call'[d] = call[d]
  BY DEF TypeInv, TypeOK, CallsOK
<1>3. \A d \in Client : CallOK(d, call'[d])
  BY <1>1, <1>2 DEF TypeInv, TypeOK, CallsOK
<1>4. \A d \in Client : IsFiniteSet(call'[d].found)
  BY <1>1, <1>2 DEF TypeInv, FoundFinite
<1>5. QED
  BY <1>1, <1>3, <1>4 DEF CallsOK, CallOK, NoCall, InCall, FoundFinite

LEMMA FinishTyped ==
    ASSUME TypeInv, NEW c \in Client, call[c].pc # "idle",
           NEW ret \in ReplyTo(call[c].req), Finish(c, ret)
    PROVE  CallsOK' /\ FoundFinite'
<1> DEFINE state == [call[c] EXCEPT !.pc = "returned", !.ret = ret]
<1>1. call[c].req \in MayRequest[c] /\ call[c] \in InCall(call[c].req)
  BY ActiveCall DEF TypeInv
<1>2. state \in InCall(call[c].req) /\ state.found = call[c].found
  BY <1>1 DEF InCall
<1>3. CallOK(c, state) /\ IsFiniteSet(state.found)
  BY <1>1, <1>2 DEF CallOK, TypeInv, FoundFinite
<1>4. call' = [call EXCEPT ![c] = state]
  BY <1>1 DEF Finish, InCall
<1>5. QED
  BY <1>3, <1>4, CallUpdated

-----------------------------------------------------------------------------
(* The lock.                                                               *)

(* The queue holds each waiting client once, and nobody else.              *)
QueueOK ==
    /\ \A i \in DOMAIN waiting : call[waiting[i]].pc = "waiting"
    /\ \A i, j \in DOMAIN waiting : waiting[i] = waiting[j] => i = j

(* A client in the queue has not looked at the map.                        *)
NothingWalked ==
    \A c \in Client :
        call[c].pc = "waiting" => call[c].visited = {} /\ call[c].found = {}

(* Whoever holds the lock to write holds it alone.                         *)
Exclusive == \A c, d \in Holders : c # d => ~IsWrite(c) /\ ~IsWrite(d)

IInv == TypeInv /\ QueueOK /\ NothingWalked /\ Exclusive /\ WalkIsSnapshot

LEMMA InitIInv == Init => IInv
<1> SUFFICES ASSUME Init PROVE IInv
  OBVIOUS
<1>1. \A c \in Client : call[c] = NoCall
  BY DEF Init
<1>2. NoCall.found = {} /\ NoCall.pc = "idle"
  BY DEF NoCall
<1>3. CallsOK /\ FoundFinite
  BY <1>1, <1>2, FS_EmptySet DEF Init, CallsOK, CallOK, FoundFinite
<1>4. TypeInv
  BY <1>3 DEF Init, TypeInv, TypeOK
<1>5. QueueOK
  BY DEF Init, QueueOK
<1>6. NothingWalked /\ Exclusive /\ WalkIsSnapshot
  BY <1>1, <1>2 DEF NothingWalked, Exclusive, WalkIsSnapshot, Holders
<1>7. QED
  BY <1>4, <1>5, <1>6 DEF IInv

(* What WalkIsSnapshot says of one client, whose call is state.            *)
WalkFits(state, map) ==
    state.pc = "holding" /\ state.req.op = "query" =>
        /\ state.visited \subseteq {n \in NodeId : map[n] # None}
        /\ state.found = Selected({map[n] : n \in state.visited}, state.req.query)

(***************************************************************************)
(* A client that holds the lock moves on to state, leaving the queue       *)
(* alone; it may change the map only if it holds the lock to write.        *)
(***************************************************************************)
HolderStep(c, state) ==
    /\ call[c].pc \in {"holding", "returned"}
    /\ call' = [call EXCEPT ![c] = state]
    /\ waiting' = waiting
    /\ graphs' \in [NodeId -> Catalog \union {None}]
    /\ ~IsWrite(c) => graphs' = graphs
    /\ CallOK(c, state) /\ IsFiniteSet(state.found)
    /\ state.pc # "waiting"
    /\ state.pc # "idle" => state.req = call[c].req
    /\ WalkFits(state, graphs')

LEMMA HolderMoves ==
    ASSUME IInv, NEW c \in Client, NEW state, HolderStep(c, state)
    PROVE  IInv'
<1> USE DEF HolderStep
<1>1. /\ call'[c] = state
      /\ \A d \in Client \ {c} : call'[d] = call[d]
  BY DEF IInv, TypeInv, TypeOK, CallsOK
<1>2. TypeInv'
  BY CallUpdated DEF IInv, TypeInv, TypeOK
<1>3. QueueOK'
  <2>1. \A i \in DOMAIN waiting : waiting[i] \in Client \ {c}
    BY DEF IInv, TypeInv, TypeOK, QueueOK
  <2>2. QED
    BY <1>1, <2>1 DEF IInv, QueueOK
<1>4. NothingWalked'
  BY <1>1 DEF IInv, NothingWalked
<1>5. c \in Holders
  BY DEF Holders
<1>6. Holders' \subseteq Holders /\ \A d \in Holders' : IsWrite(d)' = IsWrite(d)
  BY <1>1, <1>5 DEF Holders, IsWrite
<1>7. Exclusive'
  BY <1>6 DEF IInv, Exclusive
<1>8. WalkIsSnapshot'
  <2> SUFFICES ASSUME NEW d \in Client,
                      call'[d].pc = "holding", call'[d].req.op = "query"
               PROVE  /\ call'[d].visited \subseteq Present'
                      /\ call'[d].found =
                            Selected({graphs'[n] : n \in call'[d].visited},
                                     call'[d].req.query)
    BY DEF WalkIsSnapshot, Selected
  <2>1. CASE d = c
    BY <1>1, <2>1 DEF Present, WalkFits
  <2>2. CASE d # c
    <3>1. d \in Holders /\ call'[d] = call[d]
      BY <1>1, <2>2 DEF Holders
    <3>2. graphs' = graphs
      BY <1>5, <2>2, <3>1 DEF IInv, Exclusive
    <3>3. call[d].pc = "holding" /\ call[d].req.op = "query"
      BY <3>1
    <3>4. /\ call[d].visited \subseteq Present
          /\ call[d].found = Selected({graphs[n] : n \in call[d].visited},
                                      call[d].req.query)
      BY <3>3 DEF IInv, WalkIsSnapshot
    <3>5. /\ call[d].visited \subseteq Present'
          /\ call[d].found = Selected({graphs'[n] : n \in call[d].visited},
                                      call[d].req.query)
      BY <3>2, <3>4 DEF Present
    <3>6. QED
      BY <3>1, <3>5
  <2>3. QED
    BY <2>1, <2>2
<1>9. QED
  BY <1>2, <1>3, <1>4, <1>7, <1>8 DEF IInv

LEMMA InvokeIInv ==
    ASSUME IInv, NEW c \in Client, NEW req \in MayRequest[c], Invoke(c, req)
    PROVE  IInv'
<1> DEFINE state == [NoCall EXCEPT !.pc = "waiting", !.req = req]
<1>1. /\ state.pc = "waiting"
      /\ state.found = {}
      /\ state.visited = {}
      /\ state \in InCall(req)
  BY DEF NoCall, InCall
<1>2. CallOK(c, state) /\ IsFiniteSet(state.found)
  BY <1>1, FS_EmptySet DEF CallOK
<1>3. call' = [call EXCEPT ![c] = state]
  BY DEF Invoke
<1> HIDE DEF state
<1>4. /\ call'[c] = state
      /\ \A d \in Client \ {c} : call'[d] = call[d]
  BY <1>3 DEF IInv, TypeInv, TypeOK, CallsOK
<1>5. CallsOK' /\ FoundFinite'
  BY <1>2, <1>3, CallUpdated DEF IInv
<1>6. waiting \in Seq(Client) /\ waiting' = Append(waiting, c) /\ graphs' = graphs
  BY DEF Invoke, IInv, TypeInv, TypeOK
<1>7. TypeInv'
  BY <1>5, <1>6 DEF IInv, TypeInv, TypeOK
<1>8. QueueOK'
  <2>1. \A i \in DOMAIN waiting : waiting[i] \in Client \ {c}
    BY <1>6 DEF Invoke, IInv, QueueOK
  <2>2. QED
    BY <1>1, <1>4, <1>6, <2>1 DEF IInv, QueueOK
<1>9. NothingWalked'
  BY <1>1, <1>4 DEF IInv, NothingWalked
<1>10. Holders' = Holders /\ \A d \in Holders : call'[d] = call[d]
  BY <1>1, <1>4 DEF Invoke, Holders
<1>11. Exclusive'
  BY <1>10 DEF IInv, Exclusive, IsWrite
<1>12. WalkIsSnapshot'
  <2> SUFFICES ASSUME NEW d \in Client, call'[d].pc = "holding", call'[d].req.op = "query"
               PROVE  /\ call'[d].visited \subseteq Present'
                      /\ call'[d].found = Selected({graphs'[n] : n \in call'[d].visited},
                                                   call'[d].req.query)
    BY DEF WalkIsSnapshot
  <2>1. call'[d] = call[d]
    BY <1>10 DEF Holders
  <2>2. Present' = Present /\ graphs' = graphs
    BY <1>6 DEF Present
  <2>3. /\ call[d].visited \subseteq Present
        /\ call[d].found = Selected({graphs[n] : n \in call[d].visited}, call[d].req.query)
    BY <2>1 DEF IInv, WalkIsSnapshot
  <2>4. QED
    BY <2>1, <2>2, <2>3
<1>13. QED
  BY <1>7, <1>8, <1>9, <1>11, <1>12 DEF IInv

LEMMA GrantIInv ==
    ASSUME IInv, NEW c \in Client, Grant(c)
    PROVE  IInv'
<1> DEFINE state == [call[c] EXCEPT !.pc = "holding"]
<1>1. /\ waiting \in Seq(Client)
      /\ waiting # <<>>
      /\ waiting' = Tail(waiting)
      /\ graphs' = graphs
      /\ c = waiting[1]
  BY DEF Grant, IInv, TypeInv, TypeOK
<1>2. call[c].pc = "waiting"
  BY <1>1 DEF IInv, QueueOK
<1>3. call[c].req \in MayRequest[c] /\ call[c] \in InCall(call[c].req)
  BY <1>2, ActiveCall DEF IInv, TypeInv
<1>4. /\ state \in InCall(call[c].req)
      /\ state.pc = "holding"
      /\ state.req = call[c].req
      /\ state.found = {}
      /\ state.visited = {}
  BY <1>2, <1>3 DEF InCall, IInv, NothingWalked
<1>5. CallOK(c, state) /\ IsFiniteSet(state.found)
  BY <1>3, <1>4, FS_EmptySet DEF CallOK
<1>6. call' = [call EXCEPT ![c] = state]
  BY DEF Grant
<1> HIDE DEF state
<1>7. /\ call'[c] = state
      /\ \A d \in Client \ {c} : call'[d] = call[d]
  BY <1>6 DEF IInv, TypeInv, TypeOK, CallsOK
<1>8. TypeInv'
  <2>1. CallsOK' /\ FoundFinite'
    BY <1>5, <1>6, CallUpdated DEF IInv
  <2>2. waiting' \in Seq(Client)
    BY <1>1
  <2>3. QED
    BY <1>1, <2>1, <2>2 DEF IInv, TypeInv, TypeOK
<1>9. QueueOK'
  <2>1. \A i \in DOMAIN waiting' : i + 1 \in DOMAIN waiting /\ waiting'[i] = waiting[i + 1]
    BY <1>1
  <2>2. DOMAIN waiting' \subseteq Nat \ {0} /\ 1 \in DOMAIN waiting
    BY <1>1
  <2>3. \A i \in DOMAIN waiting' : waiting'[i] \in Client \ {c}
    BY <1>1, <2>1, <2>2 DEF IInv, QueueOK
  <2>4. QED
    BY <1>7, <2>1, <2>2, <2>3 DEF IInv, QueueOK
<1>10. NothingWalked'
  BY <1>4, <1>7 DEF IInv, NothingWalked
<1>11. Holders' = Holders \union {c} /\ \A d \in Client : IsWrite(d)' = IsWrite(d)
  BY <1>4, <1>7 DEF Holders, IsWrite
<1>12. Exclusive'
  <2>1. \A d \in Holders : ~IsWrite(c) /\ ~IsWrite(d)
    BY DEF Grant
  <2>2. Holders \subseteq Client
    BY DEF Holders
  <2>3. \A d, e \in Holders' : d # e => ~IsWrite(d) /\ ~IsWrite(e)
    BY <1>11, <2>1 DEF IInv, Exclusive
  <2>4. \A d, e \in Holders' : d # e => ~IsWrite(d)' /\ ~IsWrite(e)'
    BY <1>11, <2>2, <2>3
  <2>5. QED
    BY <2>4 DEF Exclusive
<1>13. WalkIsSnapshot'
  <2>1. Selected({}, state.req.query) = {} /\ {graphs[n] : n \in {}} = {}
    BY DEF Selected
  <2>2. SUFFICES ASSUME NEW d \in Client,
                        call'[d].pc = "holding", call'[d].req.op = "query"
                 PROVE  /\ call'[d].visited \subseteq Present
                        /\ call'[d].found =
                              Selected({graphs[n] : n \in call'[d].visited},
                                       call'[d].req.query)
    BY <1>1 DEF WalkIsSnapshot, Present
  <2>3. CASE d = c
    BY <1>4, <1>7, <2>1, <2>3
  <2>4. CASE d # c
    BY <1>7, <2>2, <2>4 DEF IInv, WalkIsSnapshot
  <2>5. QED
    BY <2>3, <2>4
<1>14. QED
  BY <1>8, <1>9, <1>10, <1>12, <1>13 DEF IInv

(* What a client in the middle of a call knows of its own state.           *)
LEMMA HolderTypes ==
    ASSUME IInv, NEW c \in Client, call[c].pc # "idle"
    PROVE  /\ call[c].req \in MayRequest[c]
           /\ call[c].req \in Request
           /\ call[c] \in InCall(call[c].req)
           /\ IsFiniteSet(call[c].found)
           /\ call[c].found \subseteq Catalog
BY ActiveCall DEF IInv, TypeInv, FoundFinite, InCall

(* A call that finishes releases nothing yet; it only records its result.  *)
LEMMA FinishIInv ==
    ASSUME IInv, NEW c \in Client, call[c].pc = "holding",
           NEW ret \in ReplyTo(call[c].req), Finish(c, ret),
           UNCHANGED waiting,
           graphs' \in [NodeId -> Catalog \union {None}],
           ~IsWrite(c) => graphs' = graphs
    PROVE  IInv'
<1> DEFINE state == [call[c] EXCEPT !.pc = "returned", !.ret = ret]
<1>1. /\ call[c].req \in MayRequest[c]
      /\ call[c] \in InCall(call[c].req)
      /\ IsFiniteSet(call[c].found)
  BY HolderTypes
<1>2. /\ state \in InCall(call[c].req)
      /\ state.pc = "returned"
      /\ state.req = call[c].req
      /\ state.found = call[c].found
  BY <1>1 DEF InCall
<1>3. CallOK(c, state) /\ IsFiniteSet(state.found)
  BY <1>1, <1>2 DEF CallOK
<1>4. call' = [call EXCEPT ![c] = state]
  BY <1>1 DEF Finish, InCall
<1>5. WalkFits(state, graphs')
  BY <1>2 DEF WalkFits
<1> HIDE DEF state
<1>6. HolderStep(c, state)
  BY <1>2, <1>3, <1>4, <1>5 DEF HolderStep
<1>7. QED
  BY <1>6, HolderMoves

LEMMA UpsertIInv ==
    ASSUME IInv, NEW c \in Client, Upsert(c)
    PROVE  IInv'
<1>1. call[c].pc = "holding" /\ call[c].req.op = "upsert" /\ Finish(c, Ok(None))
  BY DEF Upsert
<1>2. call[c].req.catalog \in Catalog /\ call[c].req.catalog.origin_node \in NodeId
  BY <1>1, HolderTypes, RequestTypes
<1>3. graphs' \in [NodeId -> Catalog \union {None}] /\ UNCHANGED waiting
  BY <1>2 DEF Upsert, Insert, IInv, TypeInv, TypeOK
<1>4. Ok(None) \in ReplyTo(call[c].req) /\ IsWrite(c)
  BY <1>1 DEF ReplyTo, IsWrite
<1>5. QED
  BY <1>1, <1>3, <1>4, FinishIInv

LEMMA DeleteIInv ==
    ASSUME IInv, NEW c \in Client, Delete(c)
    PROVE  IInv'
<1>1. /\ call[c].pc = "holding"
      /\ call[c].req.op = "delete"
      /\ Finish(c, Ok(Removed(call[c].req.node)))
      /\ graphs' = [graphs EXCEPT ![call[c].req.node] = None]
      /\ UNCHANGED waiting
  BY DEF Delete
<1>2. graphs' \in [NodeId -> Catalog \union {None}]
  BY <1>1 DEF IInv, TypeInv, TypeOK
<1>3. Removed(call[c].req.node) \in BOOLEAN
  BY Zenon DEF Removed
<1>4. Ok(Removed(call[c].req.node)) \in ReplyTo(call[c].req) /\ IsWrite(c)
  BY <1>1, <1>3 DEF ReplyTo, Ok, IsWrite
<1>5. QED
  BY <1>1, <1>2, <1>4, FinishIInv

LEMMA VisitIInv ==
    ASSUME IInv, NEW c \in Client, NEW n \in NodeId, Visit(c, n)
    PROVE  IInv'
<1> DEFINE q == call[c].req.query
           state == [call[c] EXCEPT !.visited = @ \union {n},
                                    !.found = @ \union Selected({graphs[n]}, q)]
<1>1. /\ call[c].pc = "holding"
      /\ call[c].req.op = "query"
      /\ n \in Present
      /\ UNCHANGED <<graphs, waiting>>
  BY DEF Visit
<1>2. /\ call[c].req \in MayRequest[c]
      /\ call[c] \in InCall(call[c].req)
      /\ IsFiniteSet(call[c].found)
      /\ call[c].found \subseteq Catalog
  BY <1>1, HolderTypes
<1>3. call' = [call EXCEPT ![c] = state]
  BY <1>2 DEF Visit, InCall
<1>4. graphs[n] \in Catalog
  BY <1>1 DEF Present, IInv, TypeInv, TypeOK
<1>5. Selected({graphs[n]}, q) \subseteq {graphs[n]}
  BY DEF Selected
<1>6. /\ state \in InCall(call[c].req)
      /\ state.pc = "holding"
      /\ state.req = call[c].req
      /\ state.visited = call[c].visited \union {n}
      /\ state.found = call[c].found \union Selected({graphs[n]}, q)
  BY <1>1, <1>2, <1>4, <1>5 DEF InCall
<1>7. IsFiniteSet(state.found)
  <2>1. IsFiniteSet({graphs[n]})
    BY FS_Singleton
  <2>2. IsFiniteSet(Selected({graphs[n]}, q))
    BY <1>5, <2>1, FS_Subset
  <2>3. IsFiniteSet(call[c].found \union Selected({graphs[n]}, q))
    BY <1>2, <2>2, FS_Union
  <2>4. QED
    BY <1>6, <2>3
<1>8. CallOK(c, state)
  BY <1>2, <1>6 DEF CallOK
<1>9. /\ state.visited \subseteq Present
      /\ state.found = Selected({graphs[m] : m \in state.visited}, q)
  <2>1. /\ call[c].visited \subseteq Present
        /\ call[c].found = Selected({graphs[m] : m \in call[c].visited}, q)
    BY <1>1 DEF IInv, WalkIsSnapshot
  <2>2. {graphs[m] : m \in call[c].visited \union {n}} =
          {graphs[m] : m \in call[c].visited} \union {graphs[n]}
    OBVIOUS
  <2>3. Selected({graphs[m] : m \in call[c].visited} \union {graphs[n]}, q) =
          Selected({graphs[m] : m \in call[c].visited}, q)
            \union Selected({graphs[n]}, q)
    BY DEF Selected
  <2>4. QED
    BY <1>1, <1>6, <2>1, <2>2, <2>3
<1> HIDE DEF state
<1>10. graphs' = graphs /\ graphs' \in [NodeId -> Catalog \union {None}]
  BY <1>1 DEF IInv, TypeInv, TypeOK
<1>11. WalkFits(state, graphs')
  <2>1. WalkFits(state, graphs)
    BY <1>6, <1>9 DEF WalkFits, Present
  <2>2. QED
    BY <1>10, <2>1
<1>12. HolderStep(c, state)
  BY <1>1, <1>3, <1>6, <1>7, <1>8, <1>10, <1>11 DEF HolderStep
<1>13. QED
  BY <1>12, HolderMoves

LEMMA AnswerIInv ==
    ASSUME IInv, NEW c \in Client, Answer(c)
    PROVE  IInv'
<1>1. /\ call[c].pc = "holding"
      /\ call[c].req.op = "query"
      /\ UNCHANGED <<graphs, waiting>>
  BY DEF Answer
<1>2. PICK answer \in Answers(call[c].found, call[c].req.query) : Finish(c, Ok(answer))
  BY DEF Answer
<1>3. /\ call[c].req.query \in CatalogQuery
      /\ call[c].found \subseteq Catalog
      /\ IsFiniteSet(call[c].found)
  BY <1>1, HolderTypes, RequestTypes
<1>4. answer \in Seq(Catalog)
  BY <1>3, AnswersType
<1>5. Ok(answer) \in ReplyTo(call[c].req)
  BY <1>1, <1>4 DEF ReplyTo, Ok
<1>6. graphs' \in [NodeId -> Catalog \union {None}] /\ graphs' = graphs
  BY <1>1 DEF IInv, TypeInv, TypeOK
<1>7. QED
  BY <1>1, <1>2, <1>5, <1>6, FinishIInv

LEMMA ReturnIInv ==
    ASSUME IInv, NEW c \in Client, Return(c)
    PROVE  IInv'
<1>1. CallOK(c, NoCall) /\ NoCall.pc = "idle" /\ IsFiniteSet(NoCall.found)
  BY FS_EmptySet DEF CallOK, NoCall
<1>2. WalkFits(NoCall, graphs')
  BY <1>1 DEF WalkFits
<1>3. /\ call[c].pc = "returned"
      /\ call' = [call EXCEPT ![c] = NoCall]
      /\ UNCHANGED waiting
      /\ graphs' = graphs
      /\ graphs' \in [NodeId -> Catalog \union {None}]
  BY DEF Return, IInv, TypeInv, TypeOK
<1>4. HolderStep(c, NoCall)
  BY <1>1, <1>2, <1>3 DEF HolderStep
<1>5. QED
  BY <1>4, HolderMoves

LEMMA NextIInv == IInv /\ [Next]_vars => IInv'
<1> SUFFICES ASSUME IInv, [Next]_vars PROVE IInv'
  OBVIOUS
<1>1. CASE UNCHANGED vars
  <2>1. graphs' = graphs /\ waiting' = waiting /\ call' = call
    BY <1>1 DEF vars
  <2>2. TypeInv' = TypeInv /\ QueueOK' = QueueOK /\ NothingWalked' = NothingWalked
    BY <2>1 DEF TypeInv, TypeOK, CallsOK, CallOK, FoundFinite, QueueOK, NothingWalked
  <2>3. Exclusive' = Exclusive /\ WalkIsSnapshot' = WalkIsSnapshot
    BY <2>1 DEF Exclusive, Holders, IsWrite, WalkIsSnapshot, Present
  <2>4. QED
    BY <2>2, <2>3 DEF IInv
<1>2. CASE Next
  <2>1. PICK c \in Client : Progress(c) \/ \E req \in MayRequest[c] : Invoke(c, req)
    BY <1>2 DEF Next
  <2>2. CASE \E req \in MayRequest[c] : Invoke(c, req)
    BY <2>2, InvokeIInv
  <2>3. CASE Grant(c)
    BY <2>3, GrantIInv
  <2>4. CASE Upsert(c)
    BY <2>4, UpsertIInv
  <2>5. CASE Delete(c)
    BY <2>5, DeleteIInv
  <2>6. CASE \E n \in NodeId : Visit(c, n)
    BY <2>6, VisitIInv
  <2>7. CASE Answer(c)
    BY <2>7, AnswerIInv
  <2>8. CASE Return(c)
    BY <2>8, ReturnIInv
  <2>9. QED
    BY <2>1, <2>2, <2>3, <2>4, <2>5, <2>6, <2>7, <2>8 DEF Progress
<1>3. QED
  BY <1>1, <1>2

THEOREM InductiveInvariant == Spec => []IInv
<1>1. QED
  BY InitIInv, NextIInv, PTL DEF Spec

(* The map, the lock's queue and every call stay well formed.              *)
THEOREM TypeCorrect == Spec => []TypeOK
<1>1. IInv => TypeOK
  BY DEF IInv, TypeInv
<1>2. QED
  BY <1>1, InductiveInvariant, PTL

(***************************************************************************)
(* A query never sees half of another client's write: what it has walked   *)
(* is, all along, what the map holds.                                      *)
(***************************************************************************)
THEOREM Snapshot == Spec => []WalkIsSnapshot
<1>1. IInv => WalkIsSnapshot
  BY DEF IInv
<1>2. QED
  BY <1>1, InductiveInvariant, PTL

-----------------------------------------------------------------------------
(* The refinement.                                                         *)

(* What the abstract cache sees of one client's call.                      *)
AbstractState(state) ==
    [pc  |-> IF state.pc \in {"waiting", "holding"} THEN "called" ELSE state.pc,
     req |-> state.req,
     ret |-> state.ret]

(* The two modules define the data in the same words.                      *)
LEMMA SameData ==
    /\ \A value : Cache!Ok(value) = Ok(value)
    /\ \A S, q : Cache!Answers(S, q) = Answers(S, q)
<1>1. \A value : Cache!Ok(value) = Ok(value)
  BY DEF Cache!Ok, Ok
<1>2. \A S : Cache!Cardinality(S) = Cardinality(S)
  BY DEF Cache!Cardinality, Cardinality
<1>3. \A S : Cache!SortedById(S) = SortedById(S)
  BY <1>2 DEF Cache!SortedById, SortedById
<1>4. \A s, q : Cache!Page(s, q) = Page(s, q)
  BY DEF Cache!Page, Page
<1>5. \A S, q : Cache!Selected(S, q) = Selected(S, q)
  BY DEF Cache!Selected, Selected
<1>6. \A S, q : Cache!Answers(S, q) = Answers(S, q)
  BY <1>3, <1>4, <1>5 DEF Cache!Answers, Answers
<1>7. QED
  BY <1>1, <1>6

LEMMA AbstractUpdate ==
    ASSUME IInv, NEW c \in Client, NEW state, call' = [call EXCEPT ![c] = state]
    PROVE  /\ AbstractCall[c] = AbstractState(call[c])
           /\ AbstractCall' = [AbstractCall EXCEPT ![c] = AbstractState(state)]
<1>1. /\ call'[c] = state
      /\ \A d \in Client \ {c} : call'[d] = call[d]
  BY DEF IInv, TypeInv, TypeOK, CallsOK
<1>2. AbstractCall = [d \in Client |-> AbstractState(call[d])]
  BY DEF AbstractCall, AbstractState
<1>3. AbstractCall' = [d \in Client |-> AbstractState(call'[d])]
  BY DEF AbstractCall, AbstractState
<1>4. QED
  BY <1>1, <1>2, <1>3

(* A call that finishes takes effect.                                      *)
LEMMA FinishIsEffect ==
    ASSUME IInv, NEW c \in Client, NEW ret,
           call[c].pc = "holding", Finish(c, ret)
    PROVE  /\ Cache!Effect(c, ret)
           /\ AbstractCall[c].pc = "called"
           /\ AbstractCall[c].req = call[c].req
<1> DEFINE state == [call[c] EXCEPT !.pc = "returned", !.ret = ret]
<1>1. call[c] \in InCall(call[c].req)
  BY HolderTypes
<1>2. call' = [call EXCEPT ![c] = state]
  BY <1>1 DEF Finish, InCall
<1>3. /\ state.pc = "returned"
      /\ state.req = call[c].req
      /\ state.ret = ret
  BY <1>1 DEF InCall
<1> HIDE DEF state
<1>4. /\ AbstractCall[c] = AbstractState(call[c])
      /\ AbstractCall' = [AbstractCall EXCEPT ![c] = AbstractState(state)]
  BY <1>2, AbstractUpdate
<1>5. AbstractCall[c].pc = "called" /\ AbstractCall[c].req = call[c].req
  BY <1>4 DEF AbstractState
<1>6. AbstractState(state) =
        [pc |-> "returned", req |-> AbstractCall[c].req, ret |-> ret]
  BY <1>3, <1>5 DEF AbstractState
<1>7. QED
  BY <1>4, <1>5, <1>6 DEF Cache!Effect

(* Which step of the abstract cache each step of the backend is.           *)
LEMMA InvokeRefines ==
    ASSUME IInv, NEW c \in Client, NEW req \in MayRequest[c], Invoke(c, req)
    PROVE  Cache!Next
<1> DEFINE state == [NoCall EXCEPT !.pc = "waiting", !.req = req]
<1>1. call[c].pc = "idle" /\ call' = [call EXCEPT ![c] = state] /\ UNCHANGED graphs
  BY DEF Invoke
<1>2. AbstractState(state) = [pc |-> "called", req |-> req, ret |-> None]
  BY DEF AbstractState, NoCall
<1> HIDE DEF state
<1>3. AbstractCall[c].pc = "idle"
  BY <1>1 DEF AbstractCall
<1>4. AbstractCall' = [AbstractCall EXCEPT ![c] = [pc |-> "called", req |-> req, ret |-> None]]
  BY <1>1, <1>2, AbstractUpdate
<1>5. Cache!Invoke(c, req)
  BY <1>1, <1>3, <1>4 DEF Cache!Invoke
<1>6. QED
  BY <1>5 DEF Cache!Next

LEMMA GrantRefines ==
    ASSUME IInv, NEW c \in Client, Grant(c)
    PROVE  UNCHANGED Cache!vars
<1> DEFINE state == [call[c] EXCEPT !.pc = "holding"]
<1>1. call[c].pc = "waiting"
  BY DEF Grant, IInv, TypeInv, TypeOK, QueueOK
<1>2. call[c] \in InCall(call[c].req)
  BY <1>1, HolderTypes
<1>3. call' = [call EXCEPT ![c] = state] /\ UNCHANGED graphs
  BY DEF Grant
<1>4. AbstractState(state) = AbstractState(call[c])
  BY <1>1, <1>2 DEF AbstractState, InCall
<1> HIDE DEF state
<1>5. AbstractCall' = [AbstractCall EXCEPT ![c] = AbstractCall[c]]
  BY <1>3, <1>4, AbstractUpdate
<1>6. AbstractCall' = AbstractCall
  BY <1>5 DEF AbstractCall
<1>7. QED
  BY <1>3, <1>6 DEF Cache!vars

LEMMA VisitRefines ==
    ASSUME IInv, NEW c \in Client, NEW n \in NodeId, Visit(c, n)
    PROVE  UNCHANGED Cache!vars
<1> DEFINE state == [call[c] EXCEPT !.visited = @ \union {n},
                                    !.found = @ \union Selected({graphs[n]},
                                                                call[c].req.query)]
<1>1. call[c].pc = "holding" /\ UNCHANGED graphs
  BY DEF Visit
<1>2. call[c] \in InCall(call[c].req)
  BY <1>1, HolderTypes
<1>3. call' = [call EXCEPT ![c] = state]
  BY <1>2 DEF Visit, InCall
<1>4. AbstractState(state) = AbstractState(call[c])
  BY <1>2 DEF AbstractState, InCall
<1> HIDE DEF state
<1>5. AbstractCall' = [AbstractCall EXCEPT ![c] = AbstractCall[c]]
  BY <1>3, <1>4, AbstractUpdate
<1>6. AbstractCall' = AbstractCall
  BY <1>5 DEF AbstractCall
<1>7. QED
  BY <1>1, <1>6 DEF Cache!vars

LEMMA UpsertRefines ==
    ASSUME IInv, NEW c \in Client, Upsert(c)
    PROVE  Cache!Next
<1>1. call[c].pc = "holding" /\ call[c].req.op = "upsert" /\ Finish(c, Ok(None))
  BY DEF Upsert
<1>2. /\ Cache!Effect(c, Cache!Ok(None))
      /\ AbstractCall[c].pc = "called"
      /\ AbstractCall[c].req = call[c].req
  BY <1>1, FinishIsEffect, SameData
<1>3. Cache!Upsert(c)
  BY <1>1, <1>2 DEF Upsert, Insert, Cache!Upsert
<1>4. QED
  BY <1>2, <1>3 DEF Cache!Next

LEMMA DeleteRefines ==
    ASSUME IInv, NEW c \in Client, Delete(c)
    PROVE  Cache!Next
<1>1. /\ call[c].pc = "holding"
      /\ call[c].req.op = "delete"
      /\ Finish(c, Ok(graphs[call[c].req.node] # None))
      /\ graphs' = [graphs EXCEPT ![call[c].req.node] = None]
  BY DEF Delete, Removed
<1>2. /\ Cache!Effect(c, Cache!Ok(graphs[call[c].req.node] # None))
      /\ AbstractCall[c].pc = "called"
      /\ AbstractCall[c].req = call[c].req
  BY <1>1, FinishIsEffect, SameData
<1>3. Cache!Delete(c)
  BY <1>1, <1>2 DEF Cache!Delete
<1>4. QED
  BY <1>2, <1>3 DEF Cache!Next

(* A query that has walked the whole map answers from all that is cached.  *)
LEMMA AnswerRefines ==
    ASSUME IInv, NEW c \in Client, Answer(c)
    PROVE  Cache!Next
<1> DEFINE q == call[c].req.query
<1>1. /\ call[c].pc = "holding"
      /\ call[c].req.op = "query"
      /\ Present \subseteq call[c].visited
      /\ UNCHANGED graphs
  BY DEF Answer
<1>2. PICK answer \in Answers(call[c].found, q) : Finish(c, Ok(answer))
  BY DEF Answer
<1>3. /\ call[c].visited = Present
      /\ call[c].found = Selected({graphs[n] : n \in call[c].visited}, q)
  BY <1>1 DEF IInv, WalkIsSnapshot
<1>4. Cache!Cached = {graphs[n] : n \in Present}
  BY DEF Cache!Cached, Present
<1>5. call[c].found = Selected(Cache!Cached, q)
  BY <1>3, <1>4
<1>6. Selected(Selected(Cache!Cached, q), q) = Selected(Cache!Cached, q)
  BY DEF Selected
<1>7. Answers(call[c].found, q) = Cache!Answers(Cache!Cached, q)
  BY <1>5, <1>6, SameData DEF Answers
<1>8. /\ Cache!Effect(c, Cache!Ok(answer))
      /\ AbstractCall[c].pc = "called"
      /\ AbstractCall[c].req = call[c].req
  BY <1>1, <1>2, FinishIsEffect, SameData
<1>9. Cache!Query(c)
  BY <1>1, <1>2, <1>7, <1>8 DEF Cache!Query
<1>10. QED
  BY <1>8, <1>9 DEF Cache!Next

LEMMA ReturnRefines ==
    ASSUME IInv, NEW c \in Client, Return(c)
    PROVE  Cache!Next
<1>1. /\ call[c].pc = "returned"
      /\ call' = [call EXCEPT ![c] = NoCall]
      /\ UNCHANGED graphs
  BY DEF Return
<1>2. AbstractState(NoCall) = Cache!NoCall
  BY DEF AbstractState, NoCall, Cache!NoCall
<1>3. AbstractCall[c].pc = "returned"
  BY <1>1 DEF AbstractCall
<1>4. AbstractCall' = [AbstractCall EXCEPT ![c] = Cache!NoCall]
  BY <1>1, <1>2, AbstractUpdate
<1>5. Cache!Return(c)
  BY <1>1, <1>3, <1>4 DEF Cache!Return
<1>6. QED
  BY <1>5 DEF Cache!Next

LEMMA NextRefines == IInv /\ [Next]_vars => [Cache!Next]_(Cache!vars)
<1> SUFFICES ASSUME IInv, [Next]_vars PROVE [Cache!Next]_(Cache!vars)
  OBVIOUS
<1>1. CASE UNCHANGED vars
  BY <1>1 DEF vars, Cache!vars, AbstractCall
<1>2. CASE Next
  <2>1. PICK c \in Client : Progress(c) \/ \E req \in MayRequest[c] : Invoke(c, req)
    BY <1>2 DEF Next
  <2>2. QED
    BY <2>1, InvokeRefines, GrantRefines, UpsertRefines, DeleteRefines,
       VisitRefines, AnswerRefines, ReturnRefines DEF Progress
<1>3. QED
  BY <1>1, <1>2

(***************************************************************************)
(* The backend implements the trait `CatalogCache`: whatever its clients   *)
(* do, each of their calls takes effect at one instant, and returns what   *)
(* one map of nodes to catalogs returns there.                             *)
(***************************************************************************)
THEOREM Implements == Spec => ImplementsCache
<1>1. Init => Cache!Init
  BY DEF Init, NoCall, Cache!Init, Cache!NoCall, AbstractCall
<1>2. QED
  BY <1>1, NextRefines, InductiveInvariant, PTL DEF Spec, ImplementsCache, Cache!Spec
=============================================================================
