---------------------------- MODULE MCOrderPayment ----------------------------
(* TLC instance of OrderPayment: model values come from the cfg files.         *)
EXTENDS OrderPayment

\* The two statuses that settle the commission, one either way.
MCAdminStatuses == {"DELIVERED", "CANCELLED"}
================================================================================
