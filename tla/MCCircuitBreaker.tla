-------------------------- MODULE MCCircuitBreaker --------------------------
(* CircuitBreaker on a small instance: one loss past the daily limit, one   *)
(* below it, nothing, and a gain.                                            *)
EXTENDS CircuitBreaker

MCExitPnls == {-3, -1, 0, 1}

=============================================================================
