--------------------------- MODULE MCStoreSchema ---------------------------
(* Two connections; two tables stand for the base schema, two for A08's. *)
EXTENDS StoreSchema

CONSTANTS c1, c2, cases, events, sources, links, r1, r2

MCBaseTables == <<cases, events>>
MCA08Tables == <<sources, links>>
=============================================================================
