----------------------------- MODULE MCRegistry -----------------------------
(* Two processes on a registry of two contexts; a history of two changes,  *)
(* so that acknowledged changes are also pushed out of it.                 *)
EXTENDS Registry, TLC

CONSTANTS personal, office, search, linear, p1, p2, agent

MCSourceOf == search :> linear

MCRequests ==
    {[operation |-> "create", context |-> personal, sources |-> {linear},
      expected |-> AnyRevision],
     [operation |-> "create", context |-> office, sources |-> {},
      expected |-> AnyRevision],
     [operation |-> "move", cap |-> search, source |-> personal,
      target |-> office, expected |-> 2],
     [operation |-> "share", cap |-> search, target |-> office,
      expected |-> 1],
     [operation |-> "unassign", cap |-> search, context |-> personal,
      expected |-> AnyRevision]}
    \cup [operation : {"undo"}, change : 1 .. 2, expected : {AnyRevision}]
=============================================================================
