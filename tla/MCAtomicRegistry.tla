-------------------------- MODULE MCAtomicRegistry --------------------------
(* Every request on two contexts, two capabilities of two sources.         *)
EXTENDS AtomicRegistry, TLC

CONSTANTS personal, office, search, send, linear, slack

MCSourceOf == (search :> linear) @@ (send :> slack)

MCRevisions == {AnyRevision} \cup 0 .. MaxRevision

MCRequests ==
    [operation : {"create"}, context : Contexts,
     sources : SUBSET Sources, expected : {AnyRevision}]
    \cup {r \in [operation : {"move"}, cap : Caps, source : Contexts,
                 target : Contexts, expected : MCRevisions] : r.source # r.target}
    \cup [operation : {"share"}, cap : Caps, target : Contexts, expected : MCRevisions]
    \cup [operation : {"unassign"}, cap : Caps, context : Contexts,
          expected : MCRevisions]
    \cup [operation : {"undo"}, change : 1 .. MaxRevision, expected : {AnyRevision}]
=============================================================================
