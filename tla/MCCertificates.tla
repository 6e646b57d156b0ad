--------------------------- MODULE MCCertificates ---------------------------
(* The loop and the requests of the console; as many certificates as they, *)
(* the row and the provider may hold, and a new one.                       *)
EXTENDS Certificates, TLC

MCPair == 1 .. Cardinality(Request) + 4
=============================================================================
