----------------------------- MODULE MCAiCredits -----------------------------
(* The ledger with two actors who compete for a small balance around the    *)
(* boundary of two months.                                                  *)
EXTENDS AiCredits, TLC

CONSTANTS ann, bob, i1, i2, s1, grant

MCActors == {ann, bob}
MCInvocations == {i1, i2}
MCSessions == {s1}
MCGrants == {grant}
MCOwner == i1 :> ann @@ i2 :> bob @@ s1 :> ann
MCQuota == ann :> 3 @@ bob :> 2
MCPrices == {1, 2}
MCVoicePrices == {0, 1, 2}
MCMonths == 1 .. 2
=============================================================================
