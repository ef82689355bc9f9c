--------------------------- MODULE MCOrderListing ---------------------------
(* The walk through a list of orders for TLC. *)
EXTENDS OrderListing
=============================================================================
