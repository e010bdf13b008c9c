---------------------------- MODULE MCMultiSynch ----------------------------
(* MultiSynch for TLC: three servers, two calls in one program.           *)
EXTENDS MultiSynch

MCNS == 3
MCCalls == 2

=============================================================================
