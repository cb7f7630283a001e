-------------------------- MODULE MCDocumentSequence --------------------------
(* Instances of DocumentSequence small enough for TLC. *)
EXTENDS DocumentSequence, TLC

CONSTANTS quotation, salesOrder

(* Quotations restart at 1 in each period, sales orders never do. *)
PeriodStarts == (quotation :> {0, 2}) @@ (salesOrder :> {})
===============================================================================
