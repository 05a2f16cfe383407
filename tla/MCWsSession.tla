---------------------------- MODULE MCWsSession ----------------------------
(* Values of the constants of WsSession for TLC. *)
EXTENDS WsSession

CONSTANTS k1, k2

\* An old certificate and its successor, which ends first: emergency rotation
\* to a short-lived delegate.
Rotation == { [key |-> k1, issued |-> 1, expires |-> 3],
              [key |-> k2, issued |-> 1, expires |-> 2] }

\* Tokens of both keys; one that ends early, one of the wrong plan.
SomeTokens ==
    { [signedBy |-> k1, tier |-> "paid", plan |-> "",     expires |-> 2],
      [signedBy |-> k2, tier |-> "paid", plan |-> "full", expires |-> 3],
      [signedBy |-> k1, tier |-> "paid", plan |-> "vpn",  expires |-> 3] }

=============================================================================
