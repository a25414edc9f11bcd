------------------------------ MODULE DcpExchange ------------------------------
(***************************************************************************)
(* Verification of a DCP bearer token: `verify_dcp_bearer_token` in the    *)
(* broker, `mint_self_issued_token` and `answer_presentation_query` in the *)
(* holder, and the DID documents each of them serves.  One exchange is a   *)
(* chain of HTTP calls, each waiting for the next; meanwhile time passes,  *)
(* other exchanges go on, and either party may restart with a fresh key.   *)
(*                                                                         *)
(* Signatures are symbolic: a token carries the key it was signed with,    *)
(* and verifying it compares that key with the one in a DID document.      *)
(* Documents list the key under one fixed kid (`<did>#dsp-key`), so a      *)
(* restarted party's new key is found under the old name.  All parties     *)
(* read the same clock.  A wallet may hold several credentials, as the     *)
(* verifier allows; this repository's own holder has one.                  *)
(***************************************************************************)
EXTENDS Integers, Sequences

CONSTANTS
    Holder,     \* parties that present credentials
    Verifier,   \* the broker that checks them
    Dataset,    \* ids a credential's catalogAccess may list
    None,       \* no value yet
    Confs,      \* what each holder is configured with
    Life,       \* lifetime of a self-issued token (300 seconds in the code)
    MaxTime,    \* bound on time
    MaxKey      \* bound on the keys a party generates, hence on its restarts

(***************************************************************************)
(* A Verifiable Credential: `sound` when its signature verifies against    *)
(* the key its issuer publishes under its kid, `fitting` when its types    *)
(* include FederatedCatalogAccessCredential.  A missing exp reads as 0.    *)
(***************************************************************************)
Credential == [exp     : Nat,
               sound   : BOOLEAN,
               fitting : BOOLEAN,
               access  : SUBSET Dataset]

(* `addressed`: the configured provider_did is this verifier's own DID.    *)
HolderConf == [addressed : BOOLEAN, credentials : Seq(Credential)]

ASSUME VerifierAssumption == Verifier \notin Holder
ASSUME ConfsAssumption == Confs \subseteq [Holder -> HolderConf]
ASSUME BoundsAssumption == Life \in Nat /\ MaxTime \in Nat /\ MaxKey \in Nat \ {0}
VARIABLES
    conf,       \* the holders' configuration
    key,        \* each party's current signing key
    now,        \* the clock
    exchange    \* each holder's current or last exchange with the verifier

vars == <<conf, key, now, exchange>>

Party == Holder \union {Verifier}
Key == 1 .. MaxKey

Phase == {"idle", "resolving", "checking_token", "querying", "answering",
          "checking_presentation", "checking_credentials", "done"}

Cause == {"unreachable", "signature", "audience", "token_expired", "query_refused",
          "no_credentials", "bad_credential", "all_expired"}

Result == [ok : {TRUE}, access : SUBSET Dataset] \union [ok : {FALSE}, cause : Cause]

ASSUME NoneAssumption == None \notin Result

Granted(access) == [ok |-> TRUE, access |-> access]
Refused(cause) == [ok |-> FALSE, cause |-> cause]

(* A self-issued token: signed with the issuer's current key.              *)
NoToken == [key |-> 0, exp |-> 0]
SignedBy(party) == [key |-> key[party], exp |-> now + Life]

(***************************************************************************)
(* An exchange.  The verifier keeps `doc` (the key in the holder's DID     *)
(* document) and what it has collected from the credentials before `at`;   *)
(* the holder keeps `caller_doc`, the key in the verifier's document.      *)
(* History: when it began and ended, and whether the holder restarted.     *)
(***************************************************************************)
NoExchange == [pc |-> "idle", token |-> NoToken, doc |-> 0, repackaged |-> NoToken,
               caller_doc |-> 0, presentation |-> 0, at |-> 1,
               catalog_access |-> {}, had_expired |-> FALSE, result |-> None,
               begun |-> 0, ended |-> 0, restarted |-> FALSE]

Init ==
    /\ conf \in Confs
    /\ key = [p \in Party |-> 1]
    /\ now = 0
    /\ exchange = [h \in Holder |-> NoExchange]

Becomes(h, state) == exchange' = [exchange EXCEPT ![h] = state]

Conclude(h, result) ==
    Becomes(h, [exchange[h] EXCEPT !.pc = "done", !.result = result, !.ended = now])

Running(h) == exchange[h].pc \notin {"idle", "done"}

-----------------------------------------------------------------------------
(* `if exp <= now_secs()`.                                                 *)
ExpiredLate(exp) == exp < now
ExpiredEarly(exp) == exp <= now + 1
Expired(exp) == exp <= now

(* The holder mints T1 and sends its request with it.                      *)
Present(h) ==
    /\ ~Running(h)
    /\ Becomes(h, [NoExchange EXCEPT !.pc = "resolving",
                                     !.token = SignedBy(h),
                                     !.begun = now])
    /\ UNCHANGED <<conf, key, now>>

(* The holder's host answers the verifier's GET of its DID document.       *)
ServeHolderDid(h) ==
    /\ exchange[h].pc = "resolving"
    /\ Becomes(h, [exchange[h] EXCEPT !.pc = "checking_token", !.doc = key[h]])
    /\ UNCHANGED <<conf, key, now>>

(***************************************************************************)
(* The verifier has the document: it checks T1's signature, audience and   *)
(* expiry, re-packages the nested token and sends the presentation query.  *)
(***************************************************************************)
CheckToken(h) ==
    LET x == exchange[h]
    IN  /\ x.pc = "checking_token"
        /\ IF x.token.key # x.doc THEN Conclude(h, Refused("signature"))
           ELSE IF ~conf[h].addressed THEN Conclude(h, Refused("audience"))
           ELSE IF Expired(x.token.exp) THEN Conclude(h, Refused("token_expired"))
           ELSE Becomes(h, [x EXCEPT !.pc = "querying",
                                     !.repackaged = SignedBy(Verifier)])
        /\ UNCHANGED <<conf, key, now>>

(* The verifier's host answers the holder's GET of its DID document.       *)
ServeVerifierDid(h) ==
    /\ exchange[h].pc = "querying"
    /\ Becomes(h, [exchange[h] EXCEPT !.pc = "answering", !.caller_doc = key[Verifier]])
    /\ UNCHANGED <<conf, key, now>>

(***************************************************************************)
(* The holder checks the re-packaged token, and answers with a signed      *)
(* presentation of its credentials or with 401.                            *)
(***************************************************************************)
AnswerQuery(h) ==
    LET x == exchange[h]
    IN  /\ x.pc = "answering"
        /\ IF x.repackaged.key # x.caller_doc \/ Expired(x.repackaged.exp)
           THEN Conclude(h, Refused("query_refused"))
           ELSE Becomes(h, [x EXCEPT !.pc = "checking_presentation",
                                     !.presentation = key[h]])
        /\ UNCHANGED <<conf, key, now>>

(***************************************************************************)
(* The verifier checks the presentation against the document it fetched    *)
(* before the query.                                                       *)
(***************************************************************************)
CheckPresentation(h) ==
    LET x == exchange[h]
    IN  /\ x.pc = "checking_presentation"
        /\ IF x.presentation # x.doc THEN Conclude(h, Refused("signature"))
           ELSE IF conf[h].credentials = <<>> THEN Conclude(h, Refused("no_credentials"))
           ELSE Becomes(h, [x EXCEPT !.pc = "checking_credentials"])
        /\ UNCHANGED <<conf, key, now>>

(* What is known after one more sound credential.                          *)
CollectedForgetful(x, vc) ==
    [x EXCEPT !.catalog_access =
                  IF ~Expired(vc.exp) /\ vc.fitting THEN @ \union vc.access ELSE @,
              !.had_expired = Expired(vc.exp)]

Collected(x, vc) ==
    [x EXCEPT !.catalog_access =
                  IF ~Expired(vc.exp) /\ vc.fitting THEN @ \union vc.access ELSE @,
              !.had_expired = @ \/ Expired(vc.exp)]

(* The index the loop goes on with.                                        *)
NextTwo(x) == x.at + 2
NextCredential(x) == x.at + 1

(* What the credentials amount to once all are checked.                    *)
EmptyIsGranted(x) == Granted(x.catalog_access)
Outcome(x) ==
    IF x.catalog_access = {} /\ x.had_expired
    THEN Refused("all_expired") ELSE Granted(x.catalog_access)

(***************************************************************************)
(* The issuer of the next credential answers with its DID document, and    *)
(* the verifier checks that credential; after the last one it decides.     *)
(***************************************************************************)
CheckCredential(h) ==
    LET x == exchange[h]
        vc == conf[h].credentials[x.at]
        y == Collected(x, vc)
    IN  /\ x.pc = "checking_credentials"
        /\ IF ~vc.sound THEN Conclude(h, Refused("bad_credential"))
           ELSE IF x.at < Len(conf[h].credentials)
           THEN Becomes(h, [y EXCEPT !.at = NextCredential(x)])
           ELSE Becomes(h, [y EXCEPT !.pc = "done", !.result = Outcome(y), !.ended = now])
        /\ UNCHANGED <<conf, key, now>>

(* One of the chain's HTTP calls fails; every caller passes it on.         *)
CallFails(h) ==
    /\ exchange[h].pc \in {"resolving", "querying", "answering", "checking_credentials"}
    /\ Conclude(h, Refused("unreachable"))
    /\ UNCHANGED <<conf, key, now>>

(***************************************************************************)
(* A holder's host restarts with a new key.  If it was answering a query,  *)
(* the connection breaks; a request it sent may yet be served, because a   *)
(* holder's wallet need not run in the process that calls.                 *)
(***************************************************************************)
RestartHolder(h) ==
    /\ key[h] < MaxKey
    /\ key' = [key EXCEPT ![h] = @ + 1]
    /\ IF exchange[h].pc = "answering"
       THEN Becomes(h, [exchange[h] EXCEPT !.pc = "done",
                                           !.result = Refused("unreachable"),
                                           !.ended = now,
                                           !.restarted = TRUE])
       ELSE Becomes(h, [exchange[h] EXCEPT !.restarted = Running(h) \/ @])
    /\ UNCHANGED <<conf, now>>

(* The verifier restarts with a new key: what it was doing is lost.        *)
RestartVerifier ==
    /\ key[Verifier] < MaxKey
    /\ key' = [key EXCEPT ![Verifier] = @ + 1]
    /\ exchange' = [h \in Holder |-> IF Running(h) THEN NoExchange ELSE exchange[h]]
    /\ UNCHANGED <<conf, now>>

Advance ==
    /\ now < MaxTime
    /\ now' = now + 1
    /\ UNCHANGED <<conf, key, exchange>>

Next ==
    \/ \E h \in Holder :
        \/ Present(h)
        \/ ServeHolderDid(h)
        \/ CheckToken(h)
        \/ ServeVerifierDid(h)
        \/ AnswerQuery(h)
        \/ CheckPresentation(h)
        \/ CheckCredential(h)
        \/ CallFails(h)
        \/ RestartHolder(h)
    \/ RestartVerifier
    \/ Advance

Spec == Init /\ [][Next]_vars

-----------------------------------------------------------------------------
Token == [key : Key \union {0}, exp : Nat]

ExchangeOf(h) ==
    [pc : Phase, token : Token, doc : Key \union {0}, repackaged : Token,
     caller_doc : Key \union {0}, presentation : Key \union {0},
     at : 1 .. Len(conf[h].credentials) + 1,
     catalog_access : SUBSET Dataset, had_expired : BOOLEAN,
     result : Result \union {None},
     begun : Nat, ended : Nat, restarted : BOOLEAN]

ExchangeOK(h) == exchange[h] \in ExchangeOf(h)

TypeOK ==
    /\ conf \in Confs
    /\ key \in [Party -> Key]
    /\ now \in 0 .. MaxTime
    /\ DOMAIN exchange = Holder
    /\ \A h \in Holder :
          /\ ExchangeOK(h)
          /\ exchange[h].pc = "checking_credentials" =>
                exchange[h].at <= Len(conf[h].credentials)

Credentials(h) == {conf[h].credentials[i] : i \in DOMAIN conf[h].credentials}
ValidAt(vc, time) == vc.exp > time /\ vc.fitting
IsGranted(h) == exchange[h].pc = "done" /\ exchange[h].result.ok

(***************************************************************************)
(* Credentials are checked one after the other while time passes.  Access  *)
(* is granted for what the holder's credentials, valid when the exchange   *)
(* began, list; and whatever is listed in one still valid at the end is    *)
(* granted.                                                                *)
(***************************************************************************)
AccessExact ==
    \A h \in Holder : IsGranted(h) =>
        LET x == exchange[h]
        IN  /\ \A d \in x.result.access :
                  \E vc \in Credentials(h) : ValidAt(vc, x.begun) /\ d \in vc.access
            /\ \A vc \in Credentials(h) :
                  ValidAt(vc, x.ended) => vc.access \subseteq x.result.access

(***************************************************************************)
(* "an all-expired presentation must not read as authenticated, genuinely  *)
(* granted nothing": a caller is accepted only with a credential that had  *)
(* not expired.                                                            *)
(***************************************************************************)
AllExpiredRefused ==
    \A h \in Holder : IsGranted(h) =>
        \E vc \in Credentials(h) : vc.exp > exchange[h].begun

(***************************************************************************)
(* "a caller with a temporarily expired credential would otherwise         *)
(* silently overwrite their own previously-good cached catalog with an     *)
(* empty one": a caller is granted nothing only if its wallet, in which    *)
(* nothing had expired when it came, lists nothing.  Whichever credential  *)
(* expires during the exchange, the answer is then an error instead.       *)
(***************************************************************************)
ListsAtMost(vc, access) == vc.fitting => vc.access \subseteq access

EmptyGrantGenuine ==
    \A h \in Holder : IsGranted(h) /\ exchange[h].result.access = {} =>
        \A vc \in Credentials(h) :
            vc.exp > exchange[h].begun /\ ListsAtMost(vc, {})

(***************************************************************************)
(* A refusal has a cause in the world: a key error needs a restart of the  *)
(* holder since it signed its token, an expired token needs its lifetime   *)
(* to have passed, and so on.                                              *)
(***************************************************************************)
Explained(h, cause) ==
    LET x == exchange[h]
    IN  CASE cause = "unreachable"    -> TRUE
          [] cause = "signature"      -> x.restarted
          [] cause = "audience"       -> ~conf[h].addressed
          [] cause = "token_expired"  -> x.ended >= x.begun + Life
          [] cause = "query_refused"  -> x.ended >= x.begun + Life
          [] cause = "no_credentials" -> Credentials(h) = {}
          [] cause = "bad_credential" -> \E vc \in Credentials(h) : ~vc.sound
          [] cause = "all_expired"    -> \E vc \in Credentials(h) : vc.exp <= x.ended

RefusalExplained ==
    \A h \in Holder :
        exchange[h].pc = "done" /\ ~exchange[h].result.ok =>
            Explained(h, exchange[h].result.cause)

(***************************************************************************)
(* The error "all presented credentials are expired", meant for an empty   *)
(* result "because every credential presented was expired", says so of     *)
(* every credential.                                                       *)
(***************************************************************************)
AllExpiredMeansAll ==
    \A h \in Holder :
        exchange[h].pc = "done" /\ exchange[h].result = Refused("all_expired") =>
            \A vc \in Credentials(h) : vc.exp <= exchange[h].ended
=============================================================================
