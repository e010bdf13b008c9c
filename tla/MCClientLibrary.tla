--------------------------- MODULE MCClientLibrary ---------------------------
(* ClientLibrary for TLC: the global client and two client-object users.  *)
EXTENDS ClientLibrary

MCNU == 2
MCMaxSetups == 4

=============================================================================
