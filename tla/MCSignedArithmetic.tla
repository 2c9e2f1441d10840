------------------------- MODULE MCSignedArithmetic -------------------------
(* The run loop on a design that divides signed values. *)
EXTENDS MCEngineEquivalence

SignedDesigns == {CompileModule(SignedIR)}

\* The signed value of two bits.
TwoBits(high, low) == low - 2 * high

\* "DIV = auto()  # integer division, truncates toward zero" (ir/expr.py): the
\* register holds the low bit of that quotient once its block has run.
TruncatesTowardZero ==
  [][ pc = "seq" /\ k \in due /\ k' = k + 1 =>
        sig'["d"] = TruncDiv(TwoBits(sig["q"], sig["r"]), TwoBits(sig["y"], 1)) % 2 ]_vars
=============================================================================
