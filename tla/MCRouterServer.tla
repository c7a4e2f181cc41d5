--------------------------- MODULE MCRouterServer ---------------------------
(* Two places, worker threads, request identifiers and executors.          *)
EXTENDS RouterServer, TLC

CONSTANTS r1, r2, w1, w2, personal, office
=============================================================================
