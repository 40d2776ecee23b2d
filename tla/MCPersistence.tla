--------------------------- MODULE MCPersistence ----------------------------
(* Small instances of Persistence. *)
EXTENDS Persistence

CONSTANTS a

MCForeign == [body : {{a}}, fault : {"early", "late"}]

=============================================================================
