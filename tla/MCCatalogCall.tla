--------------------------- MODULE MCCatalogCall ---------------------------
(* A read-only router and a refresh command with another configuration,    *)
(* which classes send as a reading tool.                                   *)
EXTENDS CatalogCall, TLC

CONSTANTS list, send, linear, slack, v1, v2, router, t1, t2, command

MCServerOf == (list :> linear) @@ (send :> slack)

OneServer == (list :> linear) @@ (send :> linear)

MCExecutorOf == [t \in Threads |-> router]

MCConfigured == [p \in Clients |-> Servers]

MCAccess ==
    [p \in Clients |->
        [c \in Caps |-> IF c = send /\ p = router THEN "write" ELSE "read"]]

MCVisible == router :> {list, send}

SendHidden == router :> {list}

MCSymmetry == Permutations({v1, v2})
=============================================================================
