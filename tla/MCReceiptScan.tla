----------------------------- MODULE MCReceiptScan -----------------------------
(* Two line items, two commit requests and two edits, so that two items can be *)
(* approved, and approvals withdrawn, while the commits run.  ReceiptScan.cfg  *)
(* adds an inventory item to match and link; which units a client types        *)
(* matters to ReceiptLinkedUnit.cfg alone.                                     *)
EXTENDS ReceiptScan

CONSTANTS i1, i2, x1, u1, c1, c2, e1, e2

TwoItems == {i1, i2}
OneInvItem == {x1}
OneUnit == {u1}
TwoCommits == {c1, c2}
OneEdit == {e1}
TwoEdits == {e1, e2}
================================================================================
