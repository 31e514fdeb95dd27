----------------------------- MODULE MCPromotion -----------------------------
(* A channel under three names, asked for by two users: the client of one sends a key *)
(* with its submissions, that of the other none.                                      *)
EXTENDS Promotion, TLC

CONSTANTS u1, u2, k
MCKeysOf == u1 :> {k} @@ u2 :> {NoKey}
==============================================================================
