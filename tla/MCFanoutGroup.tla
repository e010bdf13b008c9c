--------------------------- MODULE MCFanoutGroup ---------------------------
(* Model-checking instance of FanoutGroup: three servers, as in the       *)
(* examples' multi-RPC clients (ports 8080, 8081, 8082).                  *)
EXTENDS FanoutGroup

\* Three servers.
MCN == 3

\* What xmlrpc_client_global.c's multirpc_globalclient_asynch stores in
\* *newRequestsRequired: the int* argument itself, converted to int.  Any
\* address differs from the server count; 7 stands for it.
MCPointerAsCount == 7
=============================================================================
