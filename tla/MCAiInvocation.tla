--------------------------- MODULE MCAiInvocation ---------------------------
(* A key asked for twice, next to a key whose row an earlier release left    *)
(* interrupted, and that is asked for again, perhaps with another body.      *)
EXTENDS AiInvocation, TLC

CONSTANTS first, retry, again, fresh, old, body, other

MCRequests == {first, retry, again}
MCKeys == {fresh, old}
MCKeyOf == first :> fresh @@ retry :> fresh @@ again :> old
MCFingerprint == first :> body @@ retry :> body @@ again :> other
MCUnits == fresh :> 2 @@ old :> 1
MCLegacy == {old}
=============================================================================
