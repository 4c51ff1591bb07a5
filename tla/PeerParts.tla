----------------------------- MODULE PeerParts -----------------------------
(***************************************************************************)
(* Two Centrals as peers: the membership (PeerJoin), a Run at the other    *)
(* side (PeerRun) and the export of an Agent (PeerExport), side by side.   *)
(* What one needs of another is nondeterministic in it: a membership may   *)
(* end and rights may be lost at any time.                                 *)
(***************************************************************************)
EXTENDS PeerRun, PeerJoin, PeerExport

\* The three step in no order.
PeersSpec == Spec /\ JoinSpec /\ ExportSpec

\* Ends of Runs (settle, cancel, sweep) and withdrawals (leave, revokeMembership) are never
\* reversed, acceptances name the current grant (recordAcceptance), the Owner changes only
\* the history it read (Update), and approvals are allowed only while they stand (await).
PeerStepsKept ==
    [][/\ [EndsStand]_vars
       /\ [WithdrawalStands]_joinVars
       /\ [AcceptsCurrent /\ OwnerDecidesOnWhatItRead /\ ApprovalStands]_exportVars
      ]_<<vars, joinVars, exportVars>>
=============================================================================
