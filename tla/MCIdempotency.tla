--------------------------- MODULE MCIdempotency ---------------------------
(* Small instances of Idempotency for TLC: up to three requests with one    *)
(* key, and one with another key of the same owner.                         *)
EXTENDS Idempotency, TLC

CONSTANTS c1, c2, c3, d1, k1, k2, A, x

Only(S, f) == [s \in S |-> f[s]]
KeyOfMC == Only(Callers, c1 :> k1 @@ c2 :> k1 @@ c3 :> k1 @@ d1 :> k2)
OwnerOfMC == Only(Keys, k1 :> A @@ k2 :> A)
BodyOfMC == Only(Callers, c1 :> x @@ c2 :> x @@ c3 :> x @@ d1 :> x)
=============================================================================
