-------------------------- MODULE MCPlatformIncident --------------------------
(***************************************************************************)
(* The incident build of platform_recovery.rs: the super admin's key is in *)
(* the hands of an attacker, with every other key but the successor's; the *)
(* program upgrade authority is not.  It proposes the successor, who signs *)
(* the execution; the attacker signs whatever it likes in between.         *)
(***************************************************************************)
EXTENDS PlatformGovernance

CONSTANTS a, b, c, u

Successor == c
AttackerKeys == Keys \ {Successor}
AttackerSigns == {a, b}

MCPauseCalls == {[set |-> {}, clear |-> {"BOOTSTRAP"}]}

IncidentInit == Init /\ admin = a

(* Everything the upgrade authority and the successor do not sign.           *)
AttackerStep ==
    \/ \E k \in Keys : ProposeAdmin(k) \/ RemoveAdmin(k) \/ ProposePlatformAdmin(k)
    \/ \E k \in AttackerKeys : AddAdmin(k) \/ AcceptPlatformAdmin(k)
    \/ \E by \in AttackerSigns :
         \/ \E k \in Keys : CancelAdminProposal(by, k)
         \/ CancelPlatformAdminTransfer(by) \/ CancelPlatformRecovery(by)
         \/ \E call \in PauseCalls : SetPauseFlags(by, call.set, call.clear)

Rescue == ProposePlatformRecovery(Successor) /\ recovery = NoProposal

IncidentNext ==
    /\ admin # Successor
    /\ Tick \/ Rescue \/ ExecutePlatformRecovery(Successor) \/ AttackerStep

IncidentSpec ==
    /\ IncidentInit /\ [][IncidentNext]_vars
    /\ WF_vars(ExecutePlatformRecovery(Successor))

(* The answer to a compromised super admin: once the upgrade authority has   *)
(* proposed the successor, nothing the attacker signs keeps it from becoming *)
(* the super admin, except waiting out the execution window.                 *)
RescueLands ==
    \A t \in 0..MaxTime :
        (recovery # NoProposal /\ recovery.expires_at = t)
            ~> (admin = Successor \/ now >= t)
=============================================================================
