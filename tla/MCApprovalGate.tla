--------------------------- MODULE MCApprovalGate ---------------------------
(***************************************************************************)
(* Two Drafts of one yolo Run that want the same note, one of them with a   *)
(* posture an operator may strip.                                           *)
(***************************************************************************)
EXTENDS ApprovalGate, TLC

CONSTANTS r1, posture, note, old, new

MCRunOfRoot == [root \in {1, 2} |-> r1]
MCBlank == [c \in {posture, note} |-> old]
MCNew == [c \in {posture, note} |-> new]
MCNote == [cells |-> {note}, optional |-> {}, from |-> MCBlank, to |-> MCNew]
MCPosture == [cells |-> {posture, note}, optional |-> {posture},
              from |-> MCBlank, to |-> MCNew]
MCProposals == {MCNote, MCPosture}
MCEvaluation(diff, verdict) == [diff |-> diff, verdict |-> verdict]
MCEvaluations ==
  <<{MCEvaluation(MCNote, "clear"), MCEvaluation(MCPosture, "clear")},
    {MCEvaluation(MCNote, "clear"), MCEvaluation(MCNote, "denied")}>>
MCConfident == {Drafts}
\* ... or of none while an operator keeps the threshold above them.
MCMoved == {{}, Drafts}
=============================================================================
