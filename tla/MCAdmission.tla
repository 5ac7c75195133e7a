----------------------------- MODULE MCAdmission -----------------------------
(* Small instances of Admission for TLC.                                    *)
EXTENDS Admission, TLC

CONSTANTS a1, a2, a3, b1, b2, c1, A, B, C, uA, uB, uC, cpu, pids

(* Owner A and owner B with two requests each, and one of owner C.          *)
MCOwnerOf == a1 :> A @@ a2 :> A @@ a3 :> A @@ b1 :> B @@ b2 :> B @@ c1 :> C
MCUidOf == a1 :> uA @@ a2 :> uA @@ a3 :> uA @@ b1 :> uB @@ b2 :> uB @@ c1 :> uC

(* The second request of owner B resolves to the account of owner A.        *)
MCSharedUid == [MCUidOf EXCEPT ![b2] = uA]

Only(f) == [r \in Requests |-> f[r]]
OwnerOfMC == Only(MCOwnerOf)
SharedUidMC == Only(MCSharedUid)

(* Two users fit the compute budget in cpu, three in pids.                  *)
UserLimitMC == cpu :> 2 @@ pids :> 1
ComputeLimitMC == cpu :> 5 @@ pids :> 3
=============================================================================
