---------------------------- MODULE MCDownloads ----------------------------
(* One or two games and as many items; see the configuration. *)
EXTENDS Downloads
CONSTANTS g1, g2
=============================================================================
