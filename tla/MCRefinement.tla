---------------------------- MODULE MCRefinement ----------------------------
(* An instance of HubRefinement for TLC. *)
EXTENDS MCHub, HubRefinement
=============================================================================
