---------------------------- MODULE MCScalingLab ----------------------------
(* The scaling lab for TLC; the load is given in the configuration. *)
EXTENDS ScalingLab
=============================================================================
