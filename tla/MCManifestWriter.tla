--------------------------- MODULE MCManifestWriter ---------------------------
(* Two identities for drain() are enough to run two at once; two callers of *)
(* flush() may overlap.                                                      *)
EXTENDS ManifestWriter

MCDrains   == {"d1", "d2"}
MCFlushers == {"f1", "f2"}
=============================================================================
