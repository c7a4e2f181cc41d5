-------------------------- MODULE MCContextRuntime --------------------------
(* One session among other processes; two contexts, up to five mutations.  *)
EXTENDS ContextRuntime, TLC

CONSTANTS personal, office, search, linear, agent

MCSourceOf == search :> linear

MCRequests ==
    {[operation |-> "create", context |-> personal, sources |-> {linear},
      expected |-> AnyRevision],
     [operation |-> "create", context |-> office, sources |-> {linear},
      expected |-> AnyRevision],
     [operation |-> "move", cap |-> search, source |-> personal,
      target |-> office, expected |-> AnyRevision],
     [operation |-> "share", cap |-> search, target |-> personal,
      expected |-> AnyRevision],
     [operation |-> "unassign", cap |-> search, context |-> personal,
      expected |-> AnyRevision]}
    \cup [operation : {"undo"}, change : 1 .. MaxRevision, expected : {AnyRevision}]
=============================================================================
