--------------------------- MODULE MCProvisioning ----------------------------
(* Instances of Provisioning small enough for TLC.  The second release     *)
(* retires a code, adds one, and would seed the rial with fewer places.    *)
EXTENDS Provisioning, TLC

MCRetired  == {"approval.reassign"}
MCAdded    == {"approval.delegate"}
MCBuiltin  == {SystemAdministrator, Approver}
MCOwn      == {"clerk"}
MCChoices  == {{"user.manage", "approval.decide"}}
MCGrants   == {{"clerk"}, {SystemAdministrator, Approver}}
MCCurrencies == {"OMR"}
MCQuantum  == [n \in 0..1 |-> [c \in MCCurrencies |-> IF n = 0 THEN 2 ELSE 5]]
MCSequences == {"quotation"}
(* The second year begins at 1, or at 0 in the zone ahead. *)
MCStarts   == {1}
MCAmounts  == 0..12

Symmetry == Permutations(Users)
===============================================================================
