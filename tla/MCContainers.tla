---------------------------- MODULE MCContainers ----------------------------
(* Two devices that share one card with the saves of two games. *)
EXTENDS Containers
CONSTANTS v1, v2, d1, d2
=============================================================================
