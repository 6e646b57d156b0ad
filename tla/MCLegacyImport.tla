--------------------------- MODULE MCLegacyImport ---------------------------
(* A file with a key and uses, one that does not parse, and one without.   *)
EXTENDS LegacyImport, TLC

MCOrder == <<"codes", "denylist", "events">>
=============================================================================
