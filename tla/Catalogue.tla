------------------------------ MODULE Catalogue ------------------------------
(***************************************************************************)
(* What the code declares about permissions: the catalogue, the built-in   *)
(* roles and the codes each operation of the API requires.                 *)
(*                                                                         *)
(* The catalogue belongs to a release ("an upgrade can add or retire a     *)
(* permission without a data migration"): release 0 is the one in the      *)
(* repository, and a later one retires some of its codes and adds others.  *)
(***************************************************************************)
EXTENDS Naturals

CONSTANTS
    Retired,        \* codes the next release retires
    Added,          \* codes the next release adds
    MaxRelease      \* bound: releases after the first

ASSUME ReleaseType == MaxRelease \in Nat

PERMISSIONS == {
    "settings.view", "settings.manage", "user.view", "user.manage",
    "role.view", "role.manage", "audit.view",
    "customer.view", "customer.manage", "catalog.view", "catalog.manage",
    "pricing.view", "pricing.manage",
    "quotation.view.own", "quotation.view.all", "quotation.create",
    "quotation.edit.own", "quotation.edit.all", "quotation.issue",
    "quotation.record_acceptance", "quotation.confirm", "quotation.cancel",
    "quotation.override_price", "order.view.own", "order.view.all",
    "approval.request", "approval.decide", "approval.reassign", "approval.view",
    "document.download", "attachment.view", "attachment.manage",
    "email.send", "email.view_status", "activity.manage",
    "report.view", "report.export", "integration.view", "integration.manage" }

AllPermissionCodes ==
    [n \in 0..MaxRelease |-> IF n = 0 THEN PERMISSIONS ELSE (PERMISSIONS \ Retired) \cup Added]

AdministratorExcluded == {"approval.decide"}

SystemAdministrator == "system_administrator"
Approver == "approver"

Reading == {"customer.view", "catalog.view", "pricing.view", "order.view.all",
            "approval.view", "document.download", "attachment.view", "report.view",
            "quotation.view.all"}

Selling == {"customer.view", "customer.manage", "catalog.view", "pricing.view",
            "quotation.create", "quotation.issue", "quotation.record_acceptance",
            "quotation.confirm", "quotation.cancel", "quotation.override_price",
            "approval.request", "approval.view", "document.download",
            "attachment.view", "attachment.manage", "email.send",
            "email.view_status", "activity.manage", "report.view"}

SalesManager == Selling \cup
    {"settings.view", "user.view", "role.view", "audit.view", "pricing.manage",
     "quotation.view.all", "quotation.edit.all", "order.view.all",
     "report.export", "integration.view"}

SalesRepresentative == Selling \cup
    {"quotation.view.own", "quotation.edit.own", "order.view.own"}

BuiltinCodes == {SystemAdministrator, "sales_manager", "sales_representative",
                 Approver, "read_only"}

(* The system administrator's role is computed from the catalogue, the     *)
(* others are lists; a release that retires a code drops it from them.     *)
BuiltinRole(n, r) ==
    CASE r = SystemAdministrator -> AllPermissionCodes[n] \ {"approval.decide"}
      [] r = "sales_manager" -> SalesManager \cap AllPermissionCodes[n]
      [] r = "sales_representative" -> SalesRepresentative \cap AllPermissionCodes[n]
      [] r = Approver -> (Reading \cup {"approval.decide", "approval.reassign"})
                         \cap AllPermissionCodes[n]
      [] r = "read_only" -> (Reading \cup {"settings.view"}) \cap AllPermissionCodes[n]

BuiltinRoles == [n \in 0..MaxRelease |-> [r \in BuiltinCodes |-> BuiltinRole(n, r)]]
=============================================================================
