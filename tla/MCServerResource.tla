-------------------------- MODULE MCServerResource --------------------------
(* The dependency diamond of server_resource_test.cpp, and one more type. *)
EXTENDS ServerResource, TLC

CONSTANTS base, left, right, top, orphan

Diamond == (base :> {}) @@ (left :> {base}) @@ (right :> {base})
             @@ (top :> {left, right})

DiamondAndOrphan == Diamond @@ (orphan :> {base})
=============================================================================
