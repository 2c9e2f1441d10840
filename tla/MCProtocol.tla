----------------------------- MODULE MCProtocol -----------------------------
(* Every kind of checker under every short sequence of samples. *)
EXTENDS Protocol, TLC

CONSTANTS d1, d2

Symmetry == Permutations({d1, d2})

Checker(kind, expected) ==
  [kind |-> kind, framed |-> TRUE, resets |-> FALSE, expected |-> expected]

TheCheckers ==
  { Checker("handshake", Unlimited), Checker("stream", Unlimited),
    Checker("stream", 0), [Checker("stream", 1) EXCEPT !.resets = TRUE], Checker("stream", 2),
    [Checker("stream", 1) EXCEPT !.framed = FALSE],
    [Checker("terminal", 1) EXCEPT !.resets = TRUE], Checker("terminal", 2),
    Checker("mid_lane", Unlimited), Checker("mid_lane", 1) }
=============================================================================
