---------------------------- MODULE MC_DcpExchange ----------------------------
(* One holder, with each of the wallets the verifier tells apart.            *)
EXTENDS DcpExchange, TLC

CONSTANT h1

MCHolder == {h1}

VC(exp, access) == [exp |-> exp, sound |-> TRUE, fitting |-> TRUE, access |-> access]
Unfit(exp) == [VC(exp, {"CAT1"}) EXCEPT !.fitting = FALSE]
Unsound(exp) == [VC(exp, {"CAT2"}) EXCEPT !.sound = FALSE]

Conf(addressed, vcs) == [addressed |-> addressed, credentials |-> vcs]

(***************************************************************************)
(* Credentials that expire during the run, in either order; one that never *)
(* does (9), with one that is unsound or of another type; none; and a      *)
(* holder configured with another provider_did.                            *)
(***************************************************************************)
Wallets == {<<VC(2, {"CAT1"})>>,
            <<VC(2, {"CAT1"}), VC(9, {"CAT2"})>>,
            <<VC(3, {"CAT2"}), VC(1, {"CAT1"})>>,
            <<VC(0, {"CAT1"}), VC(2, {"CAT2"}), VC(3, {"CAT1"})>>,
            <<VC(9, {"CAT2"}), Unsound(9)>>,
            <<Unfit(9)>>,
            <<VC(2, {"CAT2"}), Unfit(9)>>,
            <<>>}

MCConfs == {h1 :> Conf(TRUE, vcs) : vcs \in Wallets}
             \union {h1 :> Conf(FALSE, <<VC(9, {"CAT2"})>>)}

(* A wallet with an expired credential and one of another type.            *)
ExpiredAndUnfit == {h1 :> Conf(TRUE, <<VC(1, {"CAT2"}), Unfit(9)>>)}
=============================================================================
