---------------------------- MODULE MCPlayerLink ----------------------------
(* One player for TLC. *)
EXTENDS PlayerLink
=============================================================================
