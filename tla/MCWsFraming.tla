---------------------------- MODULE MCWsFraming ----------------------------
(* Lengths at the boundaries of the encodings and of the limits, for TLC. *)
EXTENDS WsFraming

BoundaryLengths == {126, 65536, 65537}

=============================================================================
