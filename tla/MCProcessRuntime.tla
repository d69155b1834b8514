--------------------------- MODULE MCProcessRuntime ---------------------------
(* Five definitions the compiler accepts: branches that join, a decision of    *)
(* several people with rework, branches that end on their own, branches that  *)
(* may not reach their join, and a rework that passes through a join again.   *)
EXTENDS ProcessRuntime, TLC

CONSTANTS u1, u2, r1, r2

MCUsers == {u1, u2}
MCSteps == {"fork", "a", "b", "join", "after", "end", "stop"}
Symmetric == Permutations({u1, u2}) \cup Permutations({r1, r2})

To(action, step) == [action |-> action, to |-> step, sure |-> TRUE]
Maybe(action, step) == [action |-> action, to |-> step, sure |-> FALSE]

Types == [fork |-> "PARALLEL_FORK", a |-> "DECISION", b |-> "FORM", join |-> "PARALLEL_JOIN",
          after |-> "NOTIFICATION", end |-> "END", stop |-> "END"]
Modes == [fork |-> "ANY_ONE", a |-> "ALL", b |-> "ANY_ONE", join |-> "ANY_ONE",
          after |-> "EXACTLY_ONE", end |-> "ANY_ONE", stop |-> "ANY_ONE"]
Ends == [k \in MCSteps |-> IF k = "stop" THEN "REJECTED" ELSE "COMPLETED"]

Joined ==
    [start |-> "fork", type |-> Types, mode |-> Modes, outcome |-> Ends,
     out |-> [fork |-> <<To("COMPLETE", "a"), To("COMPLETE", "b")>>,
              a |-> <<To("APPROVE", "join")>>, b |-> <<To("SUBMIT", "join")>>,
              join |-> <<To("COMPLETE", "after")>>, after |-> <<To("COMPLETE", "end")>>,
              end |-> <<>>, stop |-> <<>>]]

Rework ==
    [Joined EXCEPT !.start = "after", !.mode = [Modes EXCEPT !["a"] = "ANY_ONE"],
        !.out = [Joined.out EXCEPT
            !["after"] = <<To("COMPLETE", "a")>>,
            !["a"] = <<Maybe("APPROVE", "end"), Maybe("APPROVE", "stop"), To("REJECT", "stop"),
                       To("REQUEST_CHANGES", "after")>>]]

Apart ==
    [Joined EXCEPT
        !.mode = [Modes EXCEPT !["a"] = "EXACTLY_ONE"],
        !.out = [Joined.out EXCEPT
            !["fork"] = <<To("COMPLETE", "a"), Maybe("COMPLETE", "b")>>,
            !["a"] = <<To("APPROVE", "end"), To("REJECT", "stop")>>, !["b"] = <<To("SUBMIT", "end")>>]]

ReworkJoined ==
    [Joined EXCEPT !.mode = [k \in MCSteps |-> "EXACTLY_ONE"],
        !.type = [Types EXCEPT !["after"] = "DECISION"],
        !.out = [Joined.out EXCEPT
            !["after"] = <<To("APPROVE", "end"), To("REQUEST_CHANGES", "fork")>>]]

\* A branch may be rejected before the join, and the other one not be taken.
Halting ==
    [Joined EXCEPT !.mode = [k \in MCSteps |-> "EXACTLY_ONE"],
        !.out = [Joined.out EXCEPT
            !["fork"] = <<To("COMPLETE", "a"), Maybe("COMPLETE", "b")>>,
            !["a"] = <<To("APPROVE", "join"), To("REJECT", "join")>>]]

MCDefinition == [joined |-> Joined, rework |-> Rework, apart |-> Apart, halting |-> Halting,
                 again |-> ReworkJoined]

\* The joins of the first four can be relied on, the join of the last cannot.
ASSUME MCJoins ==
    /\ \A v \in {"joined", "rework", "apart", "halting"} : WellJoined(MCDefinition[v])
    /\ ~WellJoined(MCDefinition["again"])

\* Every branch comes from the fork, and rejoins, where there is a join.
MCRoot == [k \in MCSteps |-> IF k \in {"a", "b", "join"} THEN "fork" ELSE k]
MCDepth == [k \in MCSteps |-> CASE k = "fork" -> 0 [] k = "join" -> 2 [] OTHER -> 1]
MCRootOf(v) ==
    CASE v \in {"joined", "again"} -> MCRoot
      [] v = "rework" -> [MCRoot EXCEPT !["a"] = "a"]
      [] v = "apart" -> [k \in MCSteps |-> k]

MCLayouts == {[root |-> MCRootOf(v), depth |-> MCDepth] : v \in {"joined", "rework", "apart"}}

ASSUME MCForks == \A v \in Versions : v \in GoingVersions <=> v # "halting"
=============================================================================
