-------------------------- MODULE MCPrimarySaleLapse --------------------------
(***************************************************************************)
(* What open_sale.rs says of an approval whose approver lost the Admin     *)
(* role, against what the accounts remember.  An approval names its        *)
(* approver by key; open_sale asks whether that key has an Admin record    *)
(* now.  The history variable remembers what the accounts do not: that the *)
(* role was lost after the approval was given.                             *)
(***************************************************************************)
EXTENDS MCPrimarySale

VARIABLE lapsed        \* sale ids whose live approval outlived its approver's role

lapseVars == <<vars, lapsed>>

LapseInit == Init /\ lapsed = {}

LapseNext ==
    /\ Next
    /\ lapsed' = {s \in SaleIds :
                    /\ approvals'[s] # NoApproval
                    /\ approvals'[s] = approvals[s]
                    /\ s \in lapsed \/ approvals'[s].approved_by \notin admins'}

LapseSpec == LapseInit /\ [][LapseNext]_lapseVars

(* The comment on open_sale's approver_admin_record: an approval dies with   *)
(* its approver's Admin role.  So no sale is ever opened on an approval      *)
(* whose approver lost the role since, also not after the key was granted    *)
(* the role again.                                                           *)
ApprovalDiesWithApprover ==
    [][\A s \in SaleIds : sales[s] = NoSale /\ sales'[s] # NoSale
                                => s \notin lapsed]_lapseVars
=============================================================================
