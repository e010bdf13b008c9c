---------------------------- MODULE MCAsynchCall ----------------------------
(* AsynchCall for TLC: every entry point, every fault a step can have.    *)
EXTENDS AsynchCall

MCEntries == EntryPoints

=============================================================================
