--------------------------- MODULE MCCatalogClient ---------------------------
(* CatalogClient with limits below, at and above zero. *)
EXTENDS CatalogClient

FewRetries == [max : {-1, 0, 2}, rate : {-1, 0, 1}]
=============================================================================
