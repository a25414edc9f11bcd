----------------------------- MODULE MC_Crawler -----------------------------
(* Configurations of up to three participants; see the README.              *)
EXTENDS Crawler

CONSTANTS p1, p2

MCParticipantId == {p1, p2}

Open(p) == [id |-> p, requires_dcp |-> FALSE, provider_did |-> FALSE]
Gated(p) == [id |-> p, requires_dcp |-> TRUE, provider_did |-> TRUE]
NoDid(p) == [id |-> p, requires_dcp |-> TRUE, provider_did |-> FALSE]

File(interval, has_holder, ps) ==
    [interval_secs |-> interval, holder |-> has_holder, participants |-> ps]

(***************************************************************************)
(* A mixed file, the same id twice, no participant, an interval of zero,   *)
(* and the files validation refuses.                                       *)
(***************************************************************************)
MCConfigs == {File(2, TRUE, <<Open(p1), Gated(p2)>>),
              File(1, FALSE, <<Open(p1), Open(p2), Open(p1)>>),
              File(0, FALSE, <<Open(p1)>>),
              File(2, TRUE, <<>>),
              File(1, FALSE, <<Open(p1), Gated(p2)>>),
              File(1, TRUE, <<NoDid(p1), Open(p2)>>)}

(* One file for the run about a participant that never answers.            *)
TwoParticipants == {File(2, TRUE, <<Open(p1), Gated(p2)>>)}

OneSilent == {p1}
=============================================================================
