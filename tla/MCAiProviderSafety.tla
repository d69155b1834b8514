-------------------------- MODULE MCAiProviderSafety --------------------------
(* Four interchangeable invocations over two days of two hours each.         *)
EXTENDS AiProviderSafety, TLC

CONSTANTS i1, i2, i3, i4

MCInvocations == {i1, i2, i3, i4}
Symmetric == Permutations(MCInvocations)
=============================================================================
