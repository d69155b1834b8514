------------------------------- MODULE MCAiVoice -------------------------------
(* A session of an employee and one of a team, of one actor.                  *)
EXTENDS AiVoice, TLC

CONSTANTS a, c1, c2

MCSessions == {1, 2}
SameActor == [s \in MCSessions |-> a]
OneCall == {c1}
MCCalls == {c1, c2}
Symmetric == Permutations(MCCalls)
=============================================================================
