--------------------------- MODULE MCGlobalClient ---------------------------
(* GlobalClient for TLC: the examples' three servers, three multi-RPCs.     *)
EXTENDS GlobalClient

MCServers == 3
MCRounds == 3

=============================================================================
