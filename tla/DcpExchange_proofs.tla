-------------------------- MODULE DcpExchange_proofs --------------------------
(***************************************************************************)
(* Proofs about DcpExchange: what a token is granted, and why it is        *)
(* refused, for any number of holders, wallets of any length, any lifetime *)
(* and any number of restarts.                                             *)
(***************************************************************************)
EXTENDS DcpExchange, TLAPS

(* The phases before the loop over the credentials.                        *)
BeforeLoop == {"resolving", "checking_token", "querying", "answering",
               "checking_presentation"}

(* No exchange, begun or ended, is ahead of the clock.                     *)
ClockOK(h) == exchange[h].begun <= now /\ exchange[h].ended <= now

(***************************************************************************)
(* The loop starts from nothing; in it, what has been collected was listed *)
(* by a credential valid at the beginning, and the credentials behind it   *)
(* that are valid even now have been collected; all that they list has,    *)
(* while none of them has been found expired.                              *)
(***************************************************************************)
LoopOK(h) ==
    LET x == exchange[h]
    IN  /\ x.pc \in BeforeLoop => x.at = 1 /\ x.catalog_access = {}
        /\ x.pc = "checking_credentials" =>
             /\ \A d \in x.catalog_access :
                   \E vc \in Credentials(h) : ValidAt(vc, x.begun) /\ d \in vc.access
             /\ \A i \in 1 .. x.at - 1 :
                   ValidAt(conf[h].credentials[i], now) =>
                      conf[h].credentials[i].access \subseteq x.catalog_access
             /\ ~x.had_expired =>
                  \A i \in 1 .. x.at - 1 :
                     /\ conf[h].credentials[i].exp > x.begun
                     /\ ListsAtMost(conf[h].credentials[i], x.catalog_access)

GrantOK(h) ==
    IsGranted(h) =>
        LET x == exchange[h]
        IN  /\ \A d \in x.result.access :
                  \E vc \in Credentials(h) : ValidAt(vc, x.begun) /\ d \in vc.access
            /\ \A vc \in Credentials(h) :
                  ValidAt(vc, x.ended) => vc.access \subseteq x.result.access
            /\ \E vc \in Credentials(h) : vc.exp > x.begun
            /\ x.result.access = {} =>
                 \A vc \in Credentials(h) : vc.exp > x.begun /\ ListsAtMost(vc, {})

(***************************************************************************)
(* Unless the holder restarted, everything it signed and published since   *)
(* it presented its token has its current key; what the verifier signed    *)
(* has the verifier's, since a restart of its own ends the exchange.  Each *)
(* token lives for Life.                                                   *)
(***************************************************************************)
KeysOK(h) ==
    LET x == exchange[h]
    IN  /\ Running(h) => x.token.exp = x.begun + Life
        /\ Running(h) /\ ~x.restarted =>
              /\ x.token.key = key[h]
              /\ x.pc # "resolving" => x.doc = key[h]
              /\ x.pc = "checking_presentation" => x.presentation = key[h]
        /\ x.pc \in {"querying", "answering"} =>
              x.repackaged.key = key[Verifier] /\ x.repackaged.exp >= x.begun + Life
        /\ x.pc = "answering" => x.caller_doc = key[Verifier]

(* An expired credential is remembered only when there is one.             *)
ExpiryOK(h) ==
    Running(h) /\ exchange[h].had_expired =>
        \E vc \in Credentials(h) : vc.exp <= now

RefusalOK(h) ==
    exchange[h].pc = "done" /\ ~exchange[h].result.ok =>
        Explained(h, exchange[h].result.cause)

HolderInv(h) ==
    /\ ExchangeOK(h) /\ ClockOK(h) /\ LoopOK(h) /\ GrantOK(h)
    /\ KeysOK(h) /\ ExpiryOK(h) /\ RefusalOK(h)

IInv == TypeOK /\ \A h \in Holder : HolderInv(h)

-----------------------------------------------------------------------------
LEMMA Element ==
    ASSUME NEW S, NEW s \in Seq(S), NEW i \in 1 .. Len(s)
    PROVE  s[i] \in S
  OBVIOUS

(* What the type invariant says of one holder, in a usable form.           *)
LEMMA Types ==
    ASSUME TypeOK, NEW h \in Holder
    PROVE  /\ ExchangeOK(h)
           /\ now \in Nat
           /\ key[h] \in Key /\ key[Verifier] \in Key
           /\ conf[h].credentials \in Seq(Credential)
           /\ \A vc \in Credentials(h) : vc.exp \in Nat /\ vc.access \in SUBSET Dataset
<1>1. /\ ExchangeOK(h) /\ now \in Nat /\ key[h] \in Key /\ key[Verifier] \in Key
      /\ conf[h].credentials \in Seq(Credential)
  BY ConfsAssumption, BoundsAssumption DEF TypeOK, HolderConf, Party
<1>2. \A vc \in Credentials(h) : vc \in Credential
  BY <1>1, Element DEF Credentials
<1>3. QED
  BY <1>1, <1>2 DEF Credential

(* A step that leaves a holder's exchange alone, but for the clock.        *)
LEMMA Frame ==
    ASSUME NEW h \in Holder, TypeOK, HolderInv(h), exchange'[h] = exchange[h],
           conf' = conf, now' \in Nat, now <= now',
           Running(h) => key'[h] = key[h] /\ key'[Verifier] = key[Verifier]
    PROVE  HolderInv(h)'
<1>0. /\ exchange[h].begun \in Nat /\ exchange[h].ended \in Nat /\ exchange[h].at \in Nat
      /\ now \in Nat /\ conf[h].credentials \in Seq(Credential)
  BY Types DEF ExchangeOK, ExchangeOf
<1>1. ExchangeOK(h)'
  BY DEF HolderInv, ExchangeOK, ExchangeOf
<1>2. ClockOK(h)'
  BY <1>0 DEF HolderInv, ClockOK
<1>3. LoopOK(h)'
  <2>1. ASSUME NEW i \in 1 .. exchange[h].at - 1, exchange[h].pc = "checking_credentials",
               ValidAt(conf[h].credentials[i], now')
        PROVE  ValidAt(conf[h].credentials[i], now)
    <3>1. i \in 1 .. Len(conf[h].credentials)
      BY <2>1, <1>0 DEF TypeOK, ExchangeOK, ExchangeOf
    <3>2. conf[h].credentials[i] \in Credentials(h)
      BY <3>1, <1>0 DEF Credentials
    <3>3. conf[h].credentials[i].exp \in Nat
      BY <3>2, Types
    <3>4. QED
      BY <2>1, <3>3, <1>0 DEF ValidAt
  <2>2. QED
    BY <2>1 DEF HolderInv, LoopOK, Credentials
<1>4. GrantOK(h)'
  BY DEF HolderInv, GrantOK, IsGranted, Credentials
<1>5. KeysOK(h)'
  BY DEF HolderInv, KeysOK, Running
<1>6. ExpiryOK(h)'
  <2>1. ASSUME NEW vc \in Credentials(h), vc.exp <= now
        PROVE  vc.exp <= now'
    BY <1>0, <2>1, Types
  <2>2. ExpiryOK(h)
    BY DEF HolderInv
  <2>3. QED
    BY <2>1, <2>2 DEF ExpiryOK, Running, Credentials
<1>7. RefusalOK(h)'
  BY DEF HolderInv, RefusalOK, Explained, Credentials
<1>8. QED
  BY <1>1, <1>2, <1>3, <1>4, <1>5, <1>6, <1>7 DEF HolderInv

(***************************************************************************)
(* A step of one holder's exchange keeps the invariant when it does so for *)
(* that holder.                                                            *)
(***************************************************************************)
LEMMA OneMoves ==
    ASSUME IInv, NEW h \in Holder, NEW state, Becomes(h, state),
           conf' = conf, now' = now, key' \in [Party -> Key],
           \A p \in Party \ {h} : key'[p] = key[p],
           HolderInv(h)',
           state.pc = "checking_credentials" => state.at <= Len(conf[h].credentials)
    PROVE  IInv'
<1>1. /\ DOMAIN exchange' = Holder /\ exchange'[h] = state
      /\ \A g \in Holder \ {h} : exchange'[g] = exchange[g]
  BY DEF IInv, TypeOK, Becomes
<1>2. now' \in Nat /\ now <= now'
  BY Types DEF IInv
<1>3. ASSUME NEW g \in Holder \ {h}
      PROVE  HolderInv(g)'
  <2>1. g \in Party \ {h} /\ Verifier \in Party \ {h}
    BY VerifierAssumption DEF Party
  <2>2. QED
    BY <1>1, <1>2, <2>1, Frame DEF IInv
<1>4. \A g \in Holder : HolderInv(g)'
  BY <1>3
<1>5. TypeOK'
  BY <1>1, <1>4 DEF IInv, TypeOK, HolderInv
<1>6. QED
  BY <1>4, <1>5 DEF IInv

(* A refusal that has its cause keeps it: nothing is granted.              *)
LEMMA Refusing ==
    ASSUME IInv, NEW h \in Holder, NEW cause \in Cause, Conclude(h, Refused(cause)),
           UNCHANGED <<conf, key, now>>, Explained(h, cause)'
    PROVE  IInv'
<1> DEFINE state == [exchange[h] EXCEPT !.pc = "done", !.result = Refused(cause),
                                        !.ended = now]
<1>1. exchange'[h] = state /\ ExchangeOK(h) /\ now \in Nat
  BY Types DEF IInv, TypeOK, Conclude, Becomes
<1>2. /\ state.pc = "done" /\ state.result = Refused(cause)
      /\ state.ended = now /\ state.begun = exchange[h].begun
  BY <1>1 DEF ExchangeOK, ExchangeOf
<1>3. /\ Refused(cause) \in Result
      /\ Refused(cause).ok = FALSE /\ Refused(cause).cause = cause
  BY DEF Refused, Result
<1>4. ExchangeOK(h)'
  BY <1>1, <1>3 DEF ExchangeOK, ExchangeOf, Phase
<1>5. ClockOK(h)' /\ LoopOK(h)' /\ GrantOK(h)'
  BY <1>1, <1>2, <1>3 DEF IInv, HolderInv, ClockOK, LoopOK, GrantOK, IsGranted, BeforeLoop
<1>6. KeysOK(h)' /\ ExpiryOK(h)' /\ RefusalOK(h)'
  BY <1>1, <1>2, <1>3 DEF KeysOK, ExpiryOK, RefusalOK, Running
<1>7. QED
  BY <1>1, <1>2, <1>4, <1>5, <1>6, OneMoves DEF IInv, TypeOK, HolderInv, Conclude

-----------------------------------------------------------------------------
(* The steps of an exchange before the loop.                               *)

LEMMA PresentKeeps ==
    ASSUME IInv, NEW h \in Holder, Present(h)
    PROVE  IInv'
<1> DEFINE state == [NoExchange EXCEPT !.pc = "resolving", !.token = SignedBy(h),
                                       !.begun = now]
<1>1. /\ exchange'[h] = state /\ now \in Nat /\ key[h] \in Key
      /\ key' = key /\ conf' = conf /\ now' = now
      /\ conf[h].credentials \in Seq(Credential)
  BY Types DEF IInv, TypeOK, Present, Becomes
<1>2. SignedBy(h) \in Token /\ NoToken \in Token /\ SignedBy(h).key = key[h]
      /\ SignedBy(h).exp = now + Life
  BY <1>1, BoundsAssumption DEF SignedBy, Token, NoToken
<1>3. ExchangeOK(h)'
  <2>1. Len(conf[h].credentials) \in Nat
    BY <1>1
  <2>2. NoExchange \in ExchangeOf(h)
    BY <1>2, <2>1 DEF NoExchange, Phase, ExchangeOf
  <2>3. QED
    BY <1>1, <1>2, <2>2 DEF ExchangeOK, ExchangeOf, Phase
<1>4. /\ state.pc = "resolving" /\ state.begun = now /\ state.ended = 0 /\ state.at = 1
      /\ state.catalog_access = {} /\ state.token = SignedBy(h)
      /\ state.had_expired = FALSE
  BY DEF NoExchange
<1>5. HolderInv(h)'
  BY <1>1, <1>2, <1>3, <1>4 DEF HolderInv, ClockOK, LoopOK, GrantOK, KeysOK,
        ExpiryOK, RefusalOK, Running, IsGranted, BeforeLoop
<1>6. QED
  BY <1>1, <1>4, <1>5, OneMoves DEF IInv, TypeOK, Present

LEMMA ServeHolderDidKeeps ==
    ASSUME IInv, NEW h \in Holder, ServeHolderDid(h)
    PROVE  IInv'
<1> DEFINE state == [exchange[h] EXCEPT !.pc = "checking_token", !.doc = key[h]]
<1>1. /\ exchange'[h] = state /\ ExchangeOK(h) /\ now \in Nat /\ key[h] \in Key
      /\ key' = key /\ conf' = conf /\ now' = now /\ exchange[h].pc = "resolving"
  BY Types DEF IInv, TypeOK, ServeHolderDid, Becomes
<1>2. ExchangeOK(h)'
  BY <1>1 DEF ExchangeOK, ExchangeOf, Phase
<1>3. HolderInv(h)'
  BY <1>1, <1>2 DEF IInv, HolderInv, ExchangeOK, ExchangeOf, ClockOK, LoopOK, GrantOK, KeysOK,
        ExpiryOK, RefusalOK, Running, IsGranted, BeforeLoop, Credentials
<1>4. QED
  BY <1>1, <1>3, OneMoves DEF IInv, TypeOK, ServeHolderDid, ExchangeOK, ExchangeOf

(***************************************************************************)
(* T1's signature fails only after a restart, for without one its key is   *)
(* the one in the document; it is too old only when its lifetime passed.   *)
(***************************************************************************)
LEMMA CheckTokenKeeps ==
    ASSUME IInv, NEW h \in Holder, CheckToken(h)
    PROVE  IInv'
<1> DEFINE x == exchange[h]
           state == [x EXCEPT !.pc = "querying", !.repackaged = SignedBy(Verifier)]
<1>1. /\ ExchangeOK(h) /\ HolderInv(h) /\ now \in Nat /\ key[Verifier] \in Key
      /\ key' = key /\ conf' = conf /\ now' = now /\ x.pc = "checking_token"
      /\ key \in [Party -> Key]
  BY Types DEF IInv, TypeOK, CheckToken
<1>2. x.token.exp = x.begun + Life /\ (~x.restarted => x.token.key = x.doc)
  BY <1>1 DEF HolderInv, KeysOK, Running
<1>3. CASE x.token.key # x.doc
  <2>1. Conclude(h, Refused("signature"))
    BY <1>3 DEF CheckToken
  <2>2. exchange'[h].restarted
    BY <1>1, <1>2, <1>3, <2>1 DEF IInv, TypeOK, ExchangeOK, ExchangeOf, Conclude, Becomes
  <2>3. QED
    BY <1>1, <2>1, <2>2, Refusing DEF Explained, Cause
<1>4. CASE x.token.key = x.doc /\ ~conf[h].addressed
  <2>1. Conclude(h, Refused("audience"))
    BY <1>4 DEF CheckToken
  <2>2. QED
    BY <1>1, <1>4, <2>1, Refusing DEF Explained, Cause
<1>5. CASE x.token.key = x.doc /\ conf[h].addressed /\ Expired(x.token.exp)
  <2>1. Conclude(h, Refused("token_expired"))
    BY <1>5 DEF CheckToken
  <2>2. exchange'[h].ended = now /\ exchange'[h].begun = x.begun
    BY <1>1, <2>1 DEF IInv, TypeOK, ExchangeOK, ExchangeOf, Conclude, Becomes
  <2>3. exchange'[h].ended >= exchange'[h].begun + Life
    BY <1>2, <1>5, <2>2 DEF Expired
  <2>4. QED
    BY <1>1, <2>1, <2>3, Refusing DEF Explained, Cause
<1>6. CASE x.token.key = x.doc /\ conf[h].addressed /\ ~Expired(x.token.exp)
  <2>1. Becomes(h, state) /\ exchange'[h] = state
    BY <1>6 DEF IInv, TypeOK, CheckToken, Becomes
  <2>2. /\ SignedBy(Verifier) \in Token /\ SignedBy(Verifier).key = key[Verifier]
        /\ SignedBy(Verifier).exp = now + Life
    BY <1>1, BoundsAssumption DEF SignedBy, Token
  <2>3. ExchangeOK(h)'
    BY <1>1, <2>1, <2>2 DEF ExchangeOK, ExchangeOf, Phase
  <2>4. SignedBy(Verifier).exp >= x.begun + Life
    BY <1>1, <2>2, BoundsAssumption DEF HolderInv, ClockOK, ExchangeOK, ExchangeOf
  <2>5. HolderInv(h)'
    BY <1>1, <2>1, <2>2, <2>3, <2>4 DEF HolderInv, ExchangeOK, ExchangeOf, ClockOK, LoopOK, GrantOK,
          KeysOK, ExpiryOK, RefusalOK, Running, IsGranted, BeforeLoop, Credentials
  <2>6. QED
    BY <1>1, <2>1, <2>5, OneMoves DEF ExchangeOK, ExchangeOf
<1>7. QED
  BY <1>3, <1>4, <1>5, <1>6

LEMMA ServeVerifierDidKeeps ==
    ASSUME IInv, NEW h \in Holder, ServeVerifierDid(h)
    PROVE  IInv'
<1> DEFINE state == [exchange[h] EXCEPT !.pc = "answering", !.caller_doc = key[Verifier]]
<1>1. /\ exchange'[h] = state /\ ExchangeOK(h) /\ now \in Nat /\ key[Verifier] \in Key
      /\ key' = key /\ conf' = conf /\ now' = now /\ exchange[h].pc = "querying"
  BY Types DEF IInv, TypeOK, ServeVerifierDid, Becomes
<1>2. ExchangeOK(h)'
  BY <1>1 DEF ExchangeOK, ExchangeOf, Phase
<1>3. HolderInv(h)'
  BY <1>1, <1>2 DEF IInv, HolderInv, ExchangeOK, ExchangeOf, ClockOK, LoopOK, GrantOK, KeysOK,
        ExpiryOK, RefusalOK, Running, IsGranted, BeforeLoop, Credentials
<1>4. QED
  BY <1>1, <1>3, OneMoves DEF IInv, TypeOK, ServeVerifierDid, ExchangeOK, ExchangeOf

(* The verifier's key cannot have changed under T3: it would have restarted. *)
LEMMA AnswerQueryKeeps ==
    ASSUME IInv, NEW h \in Holder, AnswerQuery(h)
    PROVE  IInv'
<1> DEFINE x == exchange[h]
           state == [x EXCEPT !.pc = "checking_presentation", !.presentation = key[h]]
<1>1. /\ ExchangeOK(h) /\ HolderInv(h) /\ now \in Nat /\ key[h] \in Key
      /\ key' = key /\ conf' = conf /\ now' = now /\ x.pc = "answering"
      /\ key \in [Party -> Key]
  BY Types DEF IInv, TypeOK, AnswerQuery
<1>2. x.repackaged.key = x.caller_doc /\ x.repackaged.exp >= x.begun + Life
  BY <1>1 DEF HolderInv, KeysOK
<1>3. CASE Expired(x.repackaged.exp)
  <2>1. Conclude(h, Refused("query_refused"))
    BY <1>3 DEF AnswerQuery
  <2>2. exchange'[h].ended = now /\ exchange'[h].begun = x.begun
    BY <1>1, <2>1 DEF IInv, TypeOK, ExchangeOK, ExchangeOf, Conclude, Becomes
  <2>3. exchange'[h].ended >= exchange'[h].begun + Life
    BY <1>1, <1>2, <1>3, <2>2, BoundsAssumption DEF Expired, ExchangeOK, ExchangeOf, Token
  <2>4. QED
    BY <1>1, <2>1, <2>3, Refusing DEF Explained, Cause
<1>4. CASE ~Expired(x.repackaged.exp)
  <2>1. Becomes(h, state) /\ exchange'[h] = state
    BY <1>2, <1>4 DEF IInv, TypeOK, AnswerQuery, Becomes
  <2>2. ExchangeOK(h)'
    BY <1>1, <2>1 DEF ExchangeOK, ExchangeOf, Phase
  <2>3. HolderInv(h)'
    BY <1>1, <2>1, <2>2 DEF HolderInv, ExchangeOK, ExchangeOf, ClockOK, LoopOK, GrantOK,
          KeysOK, ExpiryOK, RefusalOK, Running, IsGranted, BeforeLoop, Credentials
  <2>4. QED
    BY <1>1, <2>1, <2>3, OneMoves DEF ExchangeOK, ExchangeOf
<1>5. QED
  BY <1>3, <1>4

LEMMA CheckPresentationKeeps ==
    ASSUME IInv, NEW h \in Holder, CheckPresentation(h)
    PROVE  IInv'
<1> DEFINE x == exchange[h]
           state == [x EXCEPT !.pc = "checking_credentials"]
<1>1. /\ ExchangeOK(h) /\ HolderInv(h) /\ now \in Nat
      /\ conf[h].credentials \in Seq(Credential)
      /\ key' = key /\ conf' = conf /\ now' = now /\ x.pc = "checking_presentation"
      /\ key \in [Party -> Key]
  BY Types DEF IInv, TypeOK, CheckPresentation
<1>2. CASE x.presentation # x.doc
  <2>1. Conclude(h, Refused("signature")) /\ x.restarted
    BY <1>1, <1>2 DEF CheckPresentation, HolderInv, KeysOK, Running
  <2>2. exchange'[h].restarted
    BY <1>1, <2>1 DEF IInv, TypeOK, ExchangeOK, ExchangeOf, Conclude, Becomes
  <2>3. QED
    BY <1>1, <2>1, <2>2, Refusing DEF Explained, Cause
<1>3. CASE x.presentation = x.doc /\ conf[h].credentials = <<>>
  <2>1. Conclude(h, Refused("no_credentials"))
    BY <1>3 DEF CheckPresentation
  <2>2. Credentials(h)' = {}
    BY <1>1, <1>3 DEF Credentials
  <2>3. QED
    BY <1>1, <2>1, <2>2, Refusing DEF Explained, Cause
<1>4. CASE x.presentation = x.doc /\ conf[h].credentials # <<>>
  <2>1. Becomes(h, state) /\ exchange'[h] = state
    BY <1>4 DEF IInv, TypeOK, CheckPresentation, Becomes
  <2>2. ExchangeOK(h)'
    BY <1>1, <2>1 DEF ExchangeOK, ExchangeOf, Phase
  <2>3. state.at = 1 /\ state.catalog_access = {} /\ state.at <= Len(conf[h].credentials)
    BY <1>1, <1>4 DEF HolderInv, LoopOK, BeforeLoop, ExchangeOK, ExchangeOf
  <2>4. HolderInv(h)'
    BY <1>1, <2>1, <2>2, <2>3 DEF HolderInv, ExchangeOK, ExchangeOf, ClockOK, LoopOK, GrantOK,
          KeysOK, ExpiryOK, RefusalOK, Running, IsGranted, BeforeLoop, Credentials
  <2>5. QED
    BY <1>1, <2>1, <2>3, <2>4, OneMoves
<1>5. QED
  BY <1>2, <1>3, <1>4

-----------------------------------------------------------------------------
(* The loop over the credentials.                                          *)

(* What holds of y, the exchange once it has collected from one more       *)
(* credential vc: as much as of the loop, with that credential included.   *)
LoopStep(h, vc, y) ==
    /\ vc \in Credentials(h) /\ vc.exp \in Nat
    /\ y.catalog_access \in SUBSET Dataset /\ y.had_expired \in BOOLEAN
    /\ y = [exchange[h] EXCEPT !.catalog_access = y.catalog_access,
                              !.had_expired = y.had_expired]
    /\ \A d \in y.catalog_access :
          \E c \in Credentials(h) : ValidAt(c, exchange[h].begun) /\ d \in c.access
    /\ \A i \in 1 .. exchange[h].at :
          ValidAt(conf[h].credentials[i], now) =>
             conf[h].credentials[i].access \subseteq y.catalog_access
    /\ ~y.had_expired =>
          \A i \in 1 .. exchange[h].at :
             /\ conf[h].credentials[i].exp > exchange[h].begun
             /\ ListsAtMost(conf[h].credentials[i], y.catalog_access)
    /\ Expired(vc.exp) => y.had_expired
    /\ y.had_expired => \E c \in Credentials(h) : c.exp <= now

LEMMA CollectedSound ==
    ASSUME IInv, NEW h \in Holder, exchange[h].pc = "checking_credentials"
    PROVE  LET vc == conf[h].credentials[exchange[h].at]
           IN  LoopStep(h, vc, Collected(exchange[h], vc))
<1> DEFINE x == exchange[h]
           vc == conf[h].credentials[x.at]
           y == Collected(x, vc)
<1>1. /\ ExchangeOK(h) /\ HolderInv(h) /\ now \in Nat /\ x.at <= Len(conf[h].credentials)
      /\ conf[h].credentials \in Seq(Credential)
      /\ \A c \in Credentials(h) : c.exp \in Nat /\ c.access \in SUBSET Dataset
  BY Types DEF IInv, TypeOK
<1>2. x.at \in 1 .. Len(conf[h].credentials) /\ x.begun <= now
      /\ x.begun \in Nat /\ x.at \in Nat
  BY <1>1 DEF ExchangeOK, ExchangeOf, HolderInv, ClockOK
<1>3. vc \in Credentials(h) /\ vc.exp \in Nat /\ vc.access \in SUBSET Dataset
  BY <1>1, <1>2 DEF Credentials
<1>4. /\ y.catalog_access = IF ~Expired(vc.exp) /\ vc.fitting
                            THEN x.catalog_access \union vc.access ELSE x.catalog_access
      /\ y.had_expired = (x.had_expired \/ Expired(vc.exp))
      /\ y = [x EXCEPT !.catalog_access = y.catalog_access,
                       !.had_expired = y.had_expired]
  BY <1>1 DEF Collected, ExchangeOK, ExchangeOf
<1> HIDE DEF y
<1>5. ASSUME NEW d \in y.catalog_access
      PROVE  \E c \in Credentials(h) : ValidAt(c, x.begun) /\ d \in c.access
  <2>1. CASE d \in x.catalog_access
    BY <1>1, <2>1 DEF HolderInv, LoopOK
  <2>2. CASE d \notin x.catalog_access
    <3>1. d \in vc.access /\ ~Expired(vc.exp) /\ vc.fitting
      BY <1>4, <2>2
    <3>2. ValidAt(vc, x.begun)
      BY <1>1, <1>2, <1>3, <3>1 DEF ValidAt, Expired
    <3>3. QED
      BY <1>3, <3>1, <3>2
  <2>3. QED
    BY <2>1, <2>2
<1>6. ASSUME NEW i \in 1 .. x.at, ValidAt(conf[h].credentials[i], now)
      PROVE  conf[h].credentials[i].access \subseteq y.catalog_access
  <2>1. CASE i = x.at
    <3>1. ~Expired(vc.exp) /\ vc.fitting
      BY <1>1, <1>3, <1>6, <2>1 DEF ValidAt, Expired
    <3>2. QED
      BY <1>4, <2>1, <3>1
  <2>2. CASE i # x.at
    <3>1. i \in 1 .. x.at - 1
      BY <1>2, <2>2
    <3>2. QED
      BY <1>1, <1>4, <1>6, <3>1 DEF HolderInv, LoopOK
  <2>3. QED
    BY <2>1, <2>2
<1>7. y.had_expired => \E c \in Credentials(h) : c.exp <= now
  BY <1>1, <1>3, <1>4 DEF HolderInv, ExpiryOK, Running, Expired
<1>8. y.catalog_access \in SUBSET Dataset /\ y.had_expired \in BOOLEAN
  BY <1>1, <1>3, <1>4 DEF ExchangeOK, ExchangeOf
<1>9. ASSUME ~y.had_expired, NEW i \in 1 .. x.at
      PROVE  /\ conf[h].credentials[i].exp > x.begun
             /\ ListsAtMost(conf[h].credentials[i], y.catalog_access)
  <2>1. CASE i = x.at
    <3>1. ~Expired(vc.exp)
      BY <1>4, <1>9
    <3>2. now \in Nat /\ vc.exp > now
      BY <1>1, <1>3, <3>1 DEF Expired
    <3>3. vc.exp > x.begun
      BY <1>2, <1>3, <3>2
    <3>4. ListsAtMost(vc, y.catalog_access)
      BY <1>4, <3>1 DEF ListsAtMost
    <3>5. QED
      BY <2>1, <3>3, <3>4
  <2>2. CASE i # x.at
    <3>1. i \in 1 .. x.at - 1
      BY <1>2, <2>2
    <3>2. ~x.had_expired
      BY <1>4, <1>9
    <3>3. /\ conf[h].credentials[i].exp > x.begun
          /\ ListsAtMost(conf[h].credentials[i], x.catalog_access)
      BY <1>1, <3>1, <3>2 DEF HolderInv, LoopOK
    <3>4. x.catalog_access \subseteq y.catalog_access
      BY <1>4
    <3>5. QED
      BY <3>3, <3>4 DEF ListsAtMost
  <2>3. QED
    BY <2>1, <2>2
<1>10. QED
  BY <1>3, <1>4, <1>5, <1>6, <1>7, <1>8, <1>9 DEF LoopStep, y

LEMMA CheckCredentialKeeps ==
    ASSUME IInv, NEW h \in Holder, CheckCredential(h)
    PROVE  IInv'
<1> DEFINE x == exchange[h]
           vc == conf[h].credentials[x.at]
           y == Collected(x, vc)
<1>1. /\ ExchangeOK(h) /\ HolderInv(h) /\ now \in Nat /\ x.pc = "checking_credentials"
      /\ x.at <= Len(conf[h].credentials) /\ conf[h].credentials \in Seq(Credential)
      /\ key' = key /\ conf' = conf /\ now' = now /\ key \in [Party -> Key]
  BY Types DEF IInv, TypeOK, CheckCredential
<1>2. LoopStep(h, vc, y)
  BY <1>1, CollectedSound
<1>3. /\ CheckCredential(h) =
            /\ x.pc = "checking_credentials"
            /\ IF ~vc.sound THEN Conclude(h, Refused("bad_credential"))
               ELSE IF x.at < Len(conf[h].credentials)
               THEN Becomes(h, [y EXCEPT !.at = x.at + 1])
               ELSE Becomes(h, [y EXCEPT !.pc = "done", !.result = Outcome(y),
                                         !.ended = now])
            /\ UNCHANGED <<conf, key, now>>
  BY DEF CheckCredential, NextCredential
<1> HIDE DEF y
<1>4. y \in ExchangeOf(h)
  BY <1>1, <1>2 DEF LoopStep, ExchangeOK, ExchangeOf
<1>5. /\ y.at = x.at /\ y.pc = x.pc /\ y.begun = x.begun /\ y.ended = x.ended
      /\ y.token = x.token /\ y.doc = x.doc /\ y.restarted = x.restarted
  BY <1>1, <1>2 DEF LoopStep, ExchangeOK, ExchangeOf
<1>6. CASE ~vc.sound
  <2>1. Conclude(h, Refused("bad_credential"))
    BY <1>3, <1>6
  <2>2. vc \in Credentials(h)'
    BY <1>1, <1>2 DEF LoopStep, Credentials
  <2>3. Explained(h, "bad_credential")'
    BY <1>6, <2>2 DEF Explained
  <2>4. QED
    BY <1>1, <2>1, <2>3, Refusing DEF Cause
<1>7. CASE vc.sound /\ x.at < Len(conf[h].credentials)
  <2> DEFINE state == [y EXCEPT !.at = x.at + 1]
  <2>1. Becomes(h, state) /\ exchange'[h] = state
    BY <1>3, <1>7 DEF IInv, TypeOK, Becomes
  <2>2. /\ state.at = x.at + 1 /\ state.pc = x.pc /\ state.begun = x.begun
        /\ state.ended = x.ended /\ state.token = x.token /\ state.doc = x.doc
        /\ state.restarted = x.restarted /\ state.catalog_access = y.catalog_access
        /\ state.had_expired = y.had_expired
    BY <1>4, <1>5 DEF ExchangeOf
  <2>3. x.at \in Nat /\ x.at + 1 \in 1 .. Len(conf[h].credentials) + 1
    BY <1>1, <1>7 DEF ExchangeOK, ExchangeOf
  <2>4. state \in ExchangeOf(h)
    BY <1>4, <2>3 DEF ExchangeOf
  <2>5. ExchangeOK(h)'
    BY <1>1, <2>1, <2>4 DEF ExchangeOK, ExchangeOf
  <2> HIDE DEF state
  <2>6. ClockOK(h)' /\ KeysOK(h)' /\ GrantOK(h)' /\ RefusalOK(h)'
    BY <1>1, <2>1, <2>2 DEF HolderInv, ClockOK, KeysOK, GrantOK, RefusalOK, Running, IsGranted
  <2>7. LoopOK(h)'
    BY <1>1, <1>2, <2>1, <2>2, <2>3 DEF LoopStep, LoopOK, BeforeLoop, Credentials
  <2>8. ExpiryOK(h)'
    BY <1>1, <1>2, <2>1, <2>2 DEF LoopStep, ExpiryOK, Credentials
  <2>9. state.at <= Len(conf[h].credentials)
    BY <1>1, <1>7, <2>2, <2>3
  <2>10. QED
    BY <1>1, <2>1, <2>5, <2>6, <2>7, <2>8, <2>9, OneMoves DEF HolderInv
<1>8. CASE vc.sound /\ ~(x.at < Len(conf[h].credentials))
  <2> DEFINE state == [y EXCEPT !.pc = "done", !.result = Outcome(y), !.ended = now]
  <2>1. Becomes(h, state) /\ exchange'[h] = state
    BY <1>3, <1>8 DEF IInv, TypeOK, Becomes
  <2>2. /\ state.pc = "done" /\ state.ended = now /\ state.begun = x.begun
        /\ state.result = Outcome(y)
    BY <1>4, <1>5 DEF ExchangeOf
  <2>3. /\ Outcome(y) \in Result
        /\ Outcome(y).ok => /\ Outcome(y).access = y.catalog_access
                            /\ y.catalog_access # {} \/ ~y.had_expired
        /\ ~Outcome(y).ok => Outcome(y).cause = "all_expired" /\ y.had_expired
    BY <1>2 DEF LoopStep, Outcome, Granted, Refused, Result, Cause
  <2>4. state \in ExchangeOf(h)
    BY <1>1, <1>4, <2>3 DEF ExchangeOf, Phase
  <2>5. ExchangeOK(h)'
    BY <1>1, <2>1, <2>4 DEF ExchangeOK, ExchangeOf
  <2> HIDE DEF state
  <2>6. ClockOK(h)' /\ LoopOK(h)' /\ KeysOK(h)' /\ ExpiryOK(h)'
    BY <1>1, <2>1, <2>2 DEF HolderInv, ClockOK, LoopOK, KeysOK, ExpiryOK, Running, BeforeLoop
  <2>7. GrantOK(h)'
    <3>1. SUFFICES ASSUME Outcome(y).ok
                   PROVE  /\ \A d \in y.catalog_access :
                                \E c \in Credentials(h) : ValidAt(c, x.begun) /\ d \in c.access
                          /\ \A c \in Credentials(h) :
                                ValidAt(c, now) => c.access \subseteq y.catalog_access
                          /\ \E c \in Credentials(h) : c.exp > x.begun
                          /\ y.catalog_access = {} =>
                                \A c \in Credentials(h) :
                                   c.exp > x.begun /\ ListsAtMost(c, {})
      BY <1>1, <2>1, <2>2, <2>3 DEF GrantOK, IsGranted, Credentials
    <3>2. \A d \in y.catalog_access :
             \E c \in Credentials(h) : ValidAt(c, x.begun) /\ d \in c.access
      BY <1>2 DEF LoopStep
    <3>3. ASSUME NEW c \in Credentials(h), ValidAt(c, now)
          PROVE  c.access \subseteq y.catalog_access
      <4>1. PICK i \in 1 .. Len(conf[h].credentials) : c = conf[h].credentials[i]
        BY <1>1 DEF Credentials
      <4>2. i \in 1 .. x.at
        BY <1>1, <1>8, <4>1 DEF ExchangeOK, ExchangeOf
      <4>3. QED
        BY <1>2, <3>3, <4>1, <4>2 DEF LoopStep
    <3>4. \E c \in Credentials(h) : c.exp > x.begun
      <4>1. CASE y.catalog_access # {}
        BY <3>2, <4>1 DEF ValidAt
      <4>2. CASE ~y.had_expired
        <5>1. vc \in Credentials(h) /\ vc.exp \in Nat /\ ~Expired(vc.exp)
          BY <1>2, <4>2 DEF LoopStep
        <5>2. x.begun <= now /\ x.begun \in Nat
          BY <1>1 DEF HolderInv, ClockOK, ExchangeOK, ExchangeOf
        <5>3. vc.exp > x.begun
          BY <1>1, <5>1, <5>2 DEF Expired
        <5>4. QED
          BY <5>1, <5>3
      <4>3. QED
        BY <2>3, <3>1, <4>1, <4>2
    <3>5. ASSUME y.catalog_access = {}, NEW c \in Credentials(h)
          PROVE  c.exp > x.begun /\ ListsAtMost(c, {})
      <4>1. ~y.had_expired
        BY <2>3, <3>1, <3>5
      <4>2. PICK i \in 1 .. Len(conf[h].credentials) : c = conf[h].credentials[i]
        BY <1>1 DEF Credentials
      <4>3. i \in 1 .. x.at
        BY <1>1, <1>8, <4>2 DEF ExchangeOK, ExchangeOf
      <4>4. QED
        BY <1>2, <3>5, <4>1, <4>2, <4>3 DEF LoopStep
    <3>6. QED
      BY <3>2, <3>3, <3>4, <3>5
  <2>8. RefusalOK(h)'
    <3>1. ~Outcome(y).ok => \E c \in Credentials(h) : c.exp <= now
      BY <1>2, <2>3 DEF LoopStep
    <3>2. QED
      BY <1>1, <2>1, <2>2, <2>3, <3>1 DEF RefusalOK, Explained, Credentials
  <2>9. QED
    BY <1>1, <2>1, <2>2, <2>5, <2>6, <2>7, <2>8, OneMoves DEF HolderInv
<1>9. QED
  BY <1>6, <1>7, <1>8

-----------------------------------------------------------------------------
(* What may happen at any time.                                            *)

LEMMA CallFailsKeeps ==
    ASSUME IInv, NEW h \in Holder, CallFails(h)
    PROVE  IInv'
  BY Refusing DEF CallFails, Explained, Cause

(* The verifier restarted: the exchanges in progress are forgotten.        *)
LEMMA ForgottenKeeps ==
    ASSUME TypeOK, NEW h \in Holder, conf' = conf, now' = now, exchange'[h] = NoExchange
    PROVE  HolderInv(h)'
<1>1. now \in Nat /\ Len(conf[h].credentials) \in Nat
  BY Types
<1>2. NoToken \in Token
  BY DEF NoToken, Token
<1>3. ExchangeOK(h)'
  BY <1>1, <1>2 DEF ExchangeOK, ExchangeOf, NoExchange, Phase
<1>4. /\ NoExchange.pc = "idle" /\ NoExchange.begun = 0 /\ NoExchange.ended = 0
  BY DEF NoExchange
<1>5. QED
  BY <1>1, <1>3, <1>4 DEF HolderInv, ClockOK, LoopOK, GrantOK, KeysOK, ExpiryOK, RefusalOK,
        Running, IsGranted, BeforeLoop

LEMMA RestartVerifierKeeps ==
    ASSUME IInv, RestartVerifier
    PROVE  IInv'
<1>1. key' \in [Party -> Key] /\ now \in Nat /\ now' = now /\ conf' = conf
  BY BoundsAssumption DEF IInv, TypeOK, RestartVerifier, Key, Party
<1>2. DOMAIN exchange' = Holder
  BY DEF RestartVerifier
<1>3. ASSUME NEW h \in Holder
      PROVE  HolderInv(h)' /\ exchange'[h].pc \notin {"checking_credentials"}
  <2>1. CASE Running(h)
    BY <1>1, <2>1, ForgottenKeeps DEF IInv, RestartVerifier, NoExchange
  <2>2. CASE ~Running(h)
    BY <1>1, <2>2, Frame DEF IInv, RestartVerifier, Running
  <2>3. QED
    BY <2>1, <2>2
<1>4. QED
  BY <1>1, <1>2, <1>3 DEF IInv, TypeOK, HolderInv

(***************************************************************************)
(* The holder restarted: what it signs from now on has another key, but    *)
(* then the exchange, if one is going on, is marked.                       *)
(***************************************************************************)
LEMMA RestartHolderKeeps ==
    ASSUME IInv, NEW h \in Holder, RestartHolder(h)
    PROVE  IInv'
<1> DEFINE x == exchange[h]
<1>1. /\ ExchangeOK(h) /\ HolderInv(h) /\ now \in Nat
      /\ conf' = conf /\ now' = now /\ h # Verifier
      /\ x.pc = "checking_credentials" => x.at <= Len(conf[h].credentials)
  BY Types, VerifierAssumption DEF IInv, TypeOK, RestartHolder
<1>2. /\ key' \in [Party -> Key] /\ \A p \in Party \ {h} : key'[p] = key[p]
      /\ key'[Verifier] = key[Verifier]
  BY <1>1, BoundsAssumption DEF IInv, TypeOK, RestartHolder, Key, Party
<1>3. CASE x.pc = "answering"
  <2> DEFINE state == [x EXCEPT !.pc = "done", !.result = Refused("unreachable"),
                                !.ended = now, !.restarted = TRUE]
  <2>1. Becomes(h, state) /\ exchange'[h] = state
    BY <1>3 DEF IInv, TypeOK, RestartHolder, Becomes
  <2>2. /\ Refused("unreachable") \in Result
        /\ Refused("unreachable").ok = FALSE /\ Refused("unreachable").cause = "unreachable"
    BY DEF Refused, Result, Cause
  <2>3. ExchangeOK(h)'
    BY <1>1, <2>1, <2>2 DEF ExchangeOK, ExchangeOf, Phase
  <2>4. /\ state.pc = "done" /\ state.result = Refused("unreachable")
        /\ state.begun = x.begun /\ state.ended = now
    BY <1>1 DEF ExchangeOK, ExchangeOf
  <2> HIDE DEF state
  <2>5. ClockOK(h)' /\ LoopOK(h)' /\ GrantOK(h)' /\ KeysOK(h)' /\ ExpiryOK(h)'
    BY <1>1, <2>1, <2>2, <2>4 DEF HolderInv, ClockOK, LoopOK, GrantOK, KeysOK, ExpiryOK,
          Running, IsGranted, BeforeLoop
  <2>6. RefusalOK(h)'
    BY <2>1, <2>2, <2>4 DEF RefusalOK, Explained
  <2>7. QED
    BY <1>1, <1>2, <2>1, <2>3, <2>4, <2>5, <2>6, OneMoves DEF HolderInv
<1>4. CASE ~Running(h)
  <2>1. [x EXCEPT !.restarted = Running(h) \/ @] = x
    BY <1>1, <1>4 DEF ExchangeOK, ExchangeOf
  <2>2. exchange'[h] = x /\ Becomes(h, x)
    BY <1>4, <2>1 DEF IInv, TypeOK, RestartHolder, Running, Becomes
  <2>3. HolderInv(h)'
    BY <1>1, <1>4, <2>2, Frame DEF IInv
  <2>4. QED
    BY <1>1, <1>2, <2>2, <2>3, OneMoves
<1>5. CASE Running(h) /\ x.pc # "answering"
  <2> DEFINE state == [x EXCEPT !.restarted = Running(h) \/ @]
  <2>1. Becomes(h, state) /\ exchange'[h] = state
    BY <1>5 DEF IInv, TypeOK, RestartHolder, Becomes
  <2>2. Running(h) \in BOOLEAN /\ x.restarted \in BOOLEAN
    BY <1>1 DEF Running, ExchangeOK, ExchangeOf
  <2>3. ExchangeOK(h)'
    BY <1>1, <2>1, <2>2 DEF ExchangeOK, ExchangeOf
  <2>4. /\ state.pc = x.pc /\ state.token = x.token /\ state.at = x.at
        /\ state.catalog_access = x.catalog_access /\ state.had_expired = x.had_expired
        /\ state.result = x.result /\ state.begun = x.begun /\ state.ended = x.ended
        /\ state.repackaged = x.repackaged
        /\ Running(h) \/ x.restarted => state.restarted
    BY <1>1, <2>2 DEF ExchangeOK, ExchangeOf
  <2> HIDE DEF state
  <2>5. ClockOK(h)' /\ LoopOK(h)' /\ GrantOK(h)' /\ ExpiryOK(h)'
    BY <1>1, <2>1, <2>4 DEF HolderInv, ClockOK, LoopOK, GrantOK, ExpiryOK, Running,
          IsGranted, BeforeLoop, Credentials
  <2>6. KeysOK(h)'
    BY <1>1, <1>2, <1>5, <2>1, <2>4 DEF HolderInv, KeysOK, Running
  <2>7. RefusalOK(h)'
    BY <1>5, <2>1, <2>4 DEF RefusalOK, Running
  <2>8. QED
    BY <1>1, <1>2, <2>1, <2>3, <2>4, <2>5, <2>6, <2>7, OneMoves DEF HolderInv
<1>6. QED
  BY <1>3, <1>4, <1>5 DEF Running

LEMMA AdvanceKeeps ==
    ASSUME IInv, Advance
    PROVE  IInv'
<1>1. now' \in 0 .. MaxTime /\ now' \in Nat /\ now <= now'
  BY BoundsAssumption DEF IInv, TypeOK, Advance
<1>2. \A h \in Holder : HolderInv(h)'
  BY <1>1, Frame DEF IInv, Advance
<1>3. QED
  BY <1>1, <1>2 DEF IInv, TypeOK, Advance, HolderInv

-----------------------------------------------------------------------------
LEMMA Initially ==
    ASSUME Init
    PROVE  IInv
<1>1. /\ conf \in Confs /\ key \in [Party -> Key] /\ now \in 0 .. MaxTime /\ now = 0
      /\ DOMAIN exchange = Holder /\ \A h \in Holder : exchange[h] = NoExchange
  BY BoundsAssumption DEF Init, Key
<1>2. ASSUME NEW h \in Holder
      PROVE  HolderInv(h)
  <2>1. conf[h].credentials \in Seq(Credential)
    BY <1>1, ConfsAssumption DEF HolderConf
  <2>2. Len(conf[h].credentials) \in Nat
    BY <2>1
  <2>3. NoToken \in Token
    BY DEF NoToken, Token
  <2>4. ExchangeOK(h)
    <3>1. NoExchange \in ExchangeOf(h)
      BY <2>2, <2>3 DEF NoExchange, Phase, ExchangeOf
    <3>2. QED
      BY <1>1, <3>1 DEF ExchangeOK
  <2>5. NoExchange.pc = "idle" /\ NoExchange.begun = 0 /\ NoExchange.ended = 0
    BY DEF NoExchange
  <2>6. QED
    BY <1>1, <2>4, <2>5 DEF HolderInv, ClockOK, LoopOK, GrantOK, KeysOK, ExpiryOK,
          RefusalOK, Running, IsGranted, BeforeLoop
<1>3. \A h \in Holder : exchange[h].pc = "idle" /\ ExchangeOK(h)
  <2>1. NoExchange.pc = "idle"
    BY DEF NoExchange
  <2>2. QED
    BY <1>1, <1>2, <2>1 DEF HolderInv
<1>4. TypeOK
  BY <1>1, <1>3 DEF TypeOK
<1>5. QED
  BY <1>2, <1>4 DEF IInv

LEMMA Preserved ==
    ASSUME IInv, [Next]_vars
    PROVE  IInv'
<1>1. CASE UNCHANGED vars
  <2>1. UNCHANGED <<conf, key, now, exchange>> /\ now \in Nat
    BY <1>1, BoundsAssumption DEF vars, IInv, TypeOK
  <2>2. \A h \in Holder : HolderInv(h)'
    BY <2>1, Frame DEF IInv
  <2>3. TypeOK'
    BY <2>1, <2>2 DEF IInv, TypeOK, HolderInv
  <2>4. QED
    BY <2>2, <2>3 DEF IInv
<1>2. CASE Next
  <2>1. ASSUME NEW h \in Holder,
               \/ Present(h) \/ ServeHolderDid(h) \/ CheckToken(h) \/ ServeVerifierDid(h)
               \/ AnswerQuery(h) \/ CheckPresentation(h) \/ CheckCredential(h)
               \/ CallFails(h) \/ RestartHolder(h)
        PROVE  IInv'
    BY <2>1, PresentKeeps, ServeHolderDidKeeps, CheckTokenKeeps, ServeVerifierDidKeeps,
       AnswerQueryKeeps, CheckPresentationKeeps, CheckCredentialKeeps, CallFailsKeeps,
       RestartHolderKeeps
  <2>2. CASE RestartVerifier
    BY <2>2, RestartVerifierKeeps
  <2>3. CASE Advance
    BY <2>3, AdvanceKeeps
  <2>4. QED
    BY <1>2, <2>1, <2>2, <2>3 DEF Next
<1>3. QED
  BY <1>1, <1>2

(* The state of every exchange stays well-formed: every step of the        *)
(* verifier and the holder, restarts included, keeps the types.            *)
THEOREM TypeCorrect == Spec => []TypeOK
<1>1. IInv => TypeOK
  BY DEF IInv
<1>2. QED
  BY <1>1, Initially, Preserved, PTL DEF Spec

(***************************************************************************)
(* `verify_dcp_bearer_token` grants exactly what it should, but for what   *)
(* expires during the exchange: nothing that no credential valid at its    *)
(* beginning lists, and all that those valid at its end list.              *)
(***************************************************************************)
THEOREM ExactAccess == Spec => []AccessExact
<1>1. IInv => AccessExact
  BY DEF IInv, HolderInv, GrantOK, AccessExact
<1>2. QED
  BY <1>1, Initially, Preserved, PTL DEF Spec

(* No caller is authenticated by a presentation of which every credential  *)
(* had expired when the exchange began.                                    *)
THEOREM ExpiredRefused == Spec => []AllExpiredRefused
<1>1. IInv => AllExpiredRefused
  BY DEF IInv, HolderInv, GrantOK, AllExpiredRefused
<1>2. QED
  BY <1>1, Initially, Preserved, PTL DEF Spec

(***************************************************************************)
(* An expired credential never reads as "genuinely granted nothing": an    *)
(* empty access from `verify_dcp_bearer_token` means that the wallet lists *)
(* nothing and that nothing in it had expired when the exchange began.     *)
(***************************************************************************)
THEOREM GenuineEmptyGrant == Spec => []EmptyGrantGenuine
<1>1. IInv => EmptyGrantGenuine
  BY DEF IInv, HolderInv, GrantOK, EmptyGrantGenuine
<1>2. QED
  BY <1>1, Initially, Preserved, PTL DEF Spec

(* Each refusal of `verify_dcp_bearer_token` has its cause in the world:   *)
(* with nobody restarted and every call answered in time, a sound wallet   *)
(* addressed to this verifier is refused only for what has expired.        *)
THEOREM ExplainedRefusals == Spec => []RefusalExplained
<1>1. IInv => RefusalExplained
  BY DEF IInv, HolderInv, RefusalOK, RefusalExplained
<1>2. QED
  BY <1>1, Initially, Preserved, PTL DEF Spec
=============================================================================
