--------------------------- MODULE MCWitDownload ----------------------------
(* Bulks of three, an id array of ten, and queries with up to eleven ids.   *)
EXTENDS WitDownload

=============================================================================
