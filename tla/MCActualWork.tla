---------------------------- MODULE MCActualWork ----------------------------
(* One entry with three revisions, two periods of one administration that    *)
(* both cover its date and one of another, to which a correction can move it; *)
(* one request, one screen, one calculation.                                 *)
EXTENDS ActualWork, TLC

CONSTANTS c1, c2, c3, p1, p2, p3, north, south

MCAdministrationOf ==
    [x \in Contents \cup Periods |-> IF x \in {c3, p3} THEN south ELSE north]
MCMaxMappings == [m \in Administrations |-> IF m = south THEN 1 ELSE 2]

Symmetry == Permutations({c1, c2}) \cup Permutations({p1, p2})
=============================================================================
