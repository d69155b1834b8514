----------------------- MODULE ControlledActionsProofs -----------------------
(***************************************************************************)
(* That a controlled action is executed at most once, only after the user    *)
(* asked to confirm it, and that no answer about it becomes untrue.          *)
(*                                                                         *)
(* A draft passes from AWAITING_CONFIRMATION to EXECUTING once, and the one   *)
(* update that does so hands out the one right to call the domain: a request *)
(* in phase "domain", an entry of late, or an effect.                        *)
(* The view that a draft stores is never replaced.                            *)
(***************************************************************************)
EXTENDS ControlledActions, TLAPS

LooseViews == [payload : Payloads \cup {"none"}, terms : Terms \cup {"none"}]
Rows == [status : Statuses, version : Nat, hash : LooseViews, expiresAt : Int,
         confirmed : LooseViews, confirmedFrom : Nat]
Ops == {"none", "prepare", "preview", "confirm", "cancel", "execute", "readback"}
Phases == Updates \cup {"idle", "view", "refind", "load", "authorize", "domain"}
Calls == [op : Ops, phase : Phases, key : Keys \cup {"none"}, view : LooseViews,
          version : Nat, draft : Rows, at : Int]
Messages == [kind : Updates, key : Keys, version : Nat, view : LooseViews, at : Int]

Types ==
    /\ clock \in Nat /\ terms \in Terms
    /\ row \in [Keys -> Rows]
    /\ effects \in [Keys -> Nat]
    /\ req \in [Requests -> Calls]
    /\ \A r \in Requests : req[r].phase # "idle" => req[r].key \in Keys
    /\ wire \subseteq Messages
    /\ late \subseteq Keys
    /\ asked \subseteq Keys
    /\ told \in [Keys -> SUBSET {"SUCCEEDED", "FAILED", "CANCELLED"}]
    /\ shown \subseteq Keys

\* The updates under way for a draft, waited for or not.
Outcomes == {"succeed", "fail"}
Unstarted == {"NONE", "AWAITING_CONFIRMATION", "CANCELLED"}

At(r, k, phases) == req[r].key = k /\ req[r].phase \in phases

\* Before it starts a draft has no right to a domain call and no outcome.
NothingBeforeStart ==
    \A k \in Keys : row[k].status \in Unstarted =>
        /\ effects[k] = 0 /\ k \notin late
        /\ \A r \in Requests : ~At(r, k, {"domain"} \cup Outcomes)
        /\ \A u \in wire : u.key = k => u.kind \notin Outcomes

\* The right to call the domain is used once.
OneRight ==
    \A k \in Keys :
        /\ effects[k] <= 1
        /\ k \in late => effects[k] = 0
        /\ \A r \in Requests : At(r, k, {"domain"}) =>
              /\ effects[k] = 0 /\ k \notin late
              /\ \A other \in Requests : At(other, k, {"domain"}) => other = r

\* Success is recorded for what was executed.
SuccessIsReal ==
    \A k \in Keys :
        /\ row[k].status = "SUCCEEDED" => effects[k] = 1
        /\ \A r \in Requests : At(r, k, {"succeed"}) => effects[k] = 1
        /\ \A u \in wire : u.key = k /\ u.kind = "succeed" => effects[k] = 1

\* Whatever confirms a draft goes back to the user's request.
ConsentTraced ==
    /\ \A k \in Keys : IsConfirmed(row[k]) \/ row[k].status \notin Unstarted => k \in asked
    /\ \A r \in Requests : req[r].op = "confirm" => req[r].key \in asked
    /\ \A r \in Requests : req[r].phase = "confirm" => req[r].op = "confirm"
    /\ \A u \in wire : u.kind = "confirm" => u.key \in asked

\* A draft that was loaded as SUCCEEDED still is.
LoadedHolds ==
    \A r \in Requests : req[r].phase = "authorize" /\ req[r].draft.status = "SUCCEEDED"
        => row[req[r].key].status = "SUCCEEDED"

IInv == /\ Types /\ NothingBeforeStart /\ OneRight /\ SuccessIsReal
        /\ ConsentTraced /\ LoadedHolds /\ AnswersHold

-----------------------------------------------------------------------------
(* Updates                                                                  *)

\* What an update that matches makes of a draft.
LEMMA UpdateMoves ==
    ASSUME NEW u \in Messages, NEW d \in Rows, Matches(u, d)
    PROVE  /\ Applied(u, d) \in Rows
           /\ u.kind = "insert" =>
                 d.status = "NONE" /\ Applied(u, d).status = "AWAITING_CONFIRMATION"
                 /\ ~IsConfirmed(Applied(u, d))
           /\ u.kind \in Updates \ {"insert"} => Applied(u, d).status = StatusAfter(u.kind)
           /\ u.kind \in {"confirm", "cancel", "claim"} => d.status = "AWAITING_CONFIRMATION"
           /\ u.kind \in Outcomes => d.status = "EXECUTING"
           /\ u.kind = "claim" => IsConfirmed(d)
           /\ u.kind \in {"cancel"} \cup Outcomes => Applied(u, d).confirmed = d.confirmed
  <1>1. CASE u.kind = "insert"
    <2>1. u.view \in LooseViews /\ u.at + Lifetime \in Int /\ NoView \in LooseViews
      BY ActionsAssumption DEF Messages, LooseViews, NoView
    <2>2. NewDraft(u) \in Rows
      BY <2>1 DEF NewDraft, Rows, Statuses
    <2> QED
      BY <1>1, <2>2 DEF Applied, Matches, NewDraft, NoRow, IsConfirmed, Outcomes
  <1>2. CASE u.kind # "insert"
    <2>1. /\ StatusAfter(u.kind) \in Statuses /\ u.version + 1 \in Nat
          /\ u.view \in LooseViews /\ u.version \in Nat
      BY <1>2 DEF Messages, Updates, StatusAfter, Statuses
    <2>2. /\ Applied(u, d) \in Rows
          /\ Applied(u, d).status = StatusAfter(u.kind)
          /\ u.kind \in {"cancel"} \cup Outcomes => Applied(u, d).confirmed = d.confirmed
      BY <1>2, <2>1 DEF Applied, Rows, Outcomes
    <2> QED
      BY <1>2, <2>2 DEF Matches, Outcomes
  <1> QED
    BY <1>1, <1>2

\* What a call sends is an update.
LEMMA SentIsUpdate ==
    ASSUME Types, NEW r \in Requests, req[r].phase \in Updates
    PROVE  Update(req[r]) \in Messages
  <1>1. req[r] \in Calls /\ req[r].key \in Keys
    BY DEF Types, Updates
  <1> QED
    BY <1>1 DEF Update, Messages, Calls, Rows

-----------------------------------------------------------------------------
(* Types                                                                    *)

LEMMA RestingTypes == NoRow \in Rows /\ Idle \in Calls /\ NoView \in LooseViews
  <1>1. NoView \in LooseViews
    BY DEF NoView, LooseViews
  <1>2. NoRow \in Rows
    BY <1>1 DEF NoRow, Rows, Statuses
  <1>3. 0 \in Nat /\ 0 \in Int
    OBVIOUS
  <1>6. "none" \in Ops /\ "idle" \in Phases /\ "none" \in Keys \cup {"none"}
    BY Zenon DEF Ops, Phases
  <1>4. ASSUME NEW o \in Ops, NEW p \in Phases, NEW k \in Keys \cup {"none"},
               NEW v \in LooseViews, NEW n \in Nat, NEW d \in Rows, NEW i \in Int
        PROVE  [op |-> o, phase |-> p, key |-> k, view |-> v, version |-> n, draft |-> d,
                at |-> i] \in Calls
    BY SMT DEF Calls
  <1>5. Idle \in Calls
    BY <1>1, <1>2, <1>3, <1>4, <1>6, Zenon DEF Idle
  <1> QED
    BY <1>1, <1>2, <1>5

LEMMA PhaseNames ==
    {"idle", "view", "refind", "load", "authorize", "domain", "insert", "confirm", "cancel",
     "claim", "succeed", "fail"} \subseteq Phases
  BY DEF Phases, Updates

\* A call may enter any phase, with another draft, view or instant.
Moved(q, other) == other \in Calls /\ other.key = q.key /\ other.op = q.op

LEMMA CallSteps ==
    ASSUME NEW q \in Calls, NEW p \in Phases, NEW d \in Rows, NEW v \in LooseViews, NEW i \in Int
    PROVE  /\ Moved(q, [q EXCEPT !.phase = p])
           /\ Moved(q, [q EXCEPT !.phase = p, !.at = i])
           /\ Moved(q, [q EXCEPT !.phase = p, !.draft = d])
           /\ Moved(q, [q EXCEPT !.phase = p, !.view = v, !.at = i])
  <1>1. /\ [q EXCEPT !.phase = p] \in Calls
        /\ [q EXCEPT !.phase = p, !.at = i] \in Calls
        /\ [q EXCEPT !.phase = p, !.draft = d] \in Calls
        /\ [q EXCEPT !.phase = p, !.view = v, !.at = i] \in Calls
    BY Zenon DEF Calls
  <1> QED
    BY <1>1 DEF Moved, Calls

LEMMA NewCalls ==
    ASSUME NEW op \in Ops, NEW p \in Phases, NEW k \in Keys, NEW n \in Nat, NEW v \in LooseViews
    PROVE  /\ [Idle EXCEPT !.op = op, !.phase = p, !.key = k, !.view = v] \in Calls
           /\ [Idle EXCEPT !.op = op, !.phase = p, !.key = k, !.version = n] \in Calls
  <1>1. Idle \in Calls
    BY RestingTypes
  <1> HIDE DEF Idle, Rows, LooseViews
  <1> QED
    BY <1>1, Zenon DEF Calls

LEMMA TypesHold == Types /\ [Next]_vars => Types'
  <1> SUFFICES ASSUME Types, [Next]_vars PROVE Types'
    OBVIOUS
  <1>3. ASSUME NEW r \in Requests, req[r].key \in Keys, Show(r)
        PROVE  /\ req' \in [Requests -> Calls]
               /\ \A x \in Requests : req'[x].phase # "idle" => req'[x].key \in Keys
               /\ shown' \subseteq Keys
               /\ told' \in [Keys -> SUBSET {"SUCCEEDED", "FAILED", "CANCELLED"}]
    BY <1>3, RestingTypes DEF Show, Become, Types, Idle
  <1>4. ASSUME NEW r \in Requests, req[r].key \in Keys,
               NEW outcome \in {"SUCCEEDED", "FAILED", "CANCELLED"}, Tell(r, outcome)
        PROVE  /\ req' \in [Requests -> Calls]
               /\ \A x \in Requests : req'[x].phase # "idle" => req'[x].key \in Keys
               /\ shown' \subseteq Keys
               /\ told' \in [Keys -> SUBSET {"SUCCEEDED", "FAILED", "CANCELLED"}]
    BY <1>4, RestingTypes DEF Tell, Become, Types, Idle
  <1>5. ASSUME NEW r \in Requests, NEW q \in Calls, q.key \in Keys, Become(r, q)
        PROVE  /\ req' \in [Requests -> Calls]
               /\ \A x \in Requests : req'[x].phase # "idle" => req'[x].key \in Keys
    BY <1>5 DEF Become, Types
  <1>0. clock \in Int
    BY DEF Types
  <1>6. ASSUME NEW r \in Requests, req[r].phase # "idle"
        PROVE  /\ req[r] \in Calls /\ req[r].key \in Keys /\ row[req[r].key] \in Rows
               /\ req[r].view \in LooseViews /\ req[r].draft \in Rows
               /\ req[r].draft.hash \in LooseViews /\ Current(req[r]) \in LooseViews
    <2>1. req[r] \in Calls /\ req[r].key \in Keys /\ row[req[r].key] \in Rows
      BY <1>6 DEF Types
    <2>2. req[r].draft.hash \in LooseViews /\ req[r].view \in LooseViews /\ req[r].draft \in Rows
      BY <2>1 DEF Calls, Rows
    <2> QED
      BY <2>1, <2>2 DEF Current, LooseViews, Types
  <1>1. ASSUME NEW r \in Requests, SendPrepare(r) PROVE Types'
    <2>1. PICK k \in Keys, p \in Payloads :
             Become(r, [Idle EXCEPT !.op = "prepare", !.phase = "view", !.key = k,
                                    !.view = [payload |-> p, terms |-> terms]])
      BY <1>1 DEF SendPrepare
    <2>2. [payload |-> p, terms |-> terms] \in LooseViews
      BY DEF Types, LooseViews
    <2>3. [Idle EXCEPT !.op = "prepare", !.phase = "view", !.key = k,
                       !.view = [payload |-> p, terms |-> terms]] \in Calls
      BY <2>2, NewCalls DEF Ops, Phases
    <2> QED
      BY <1>1, <1>5, <2>1, <2>3 DEF SendPrepare, Types, Idle
  <1>2. ASSUME NEW r \in Requests, Send(r) PROVE Types'
    <2>1. PICK k \in Keys, op \in {"preview", "confirm", "cancel", "execute", "readback"},
               v \in 0 .. 2 :
             /\ Become(r, [Idle EXCEPT !.op = op, !.phase = "load", !.key = k, !.version = v])
             /\ asked' = IF op = "confirm" THEN asked \cup {k} ELSE asked
      BY <1>2 DEF Send, Types
    <2>3. op \in Ops /\ v \in Nat
      BY DEF Ops
    <2>2. [Idle EXCEPT !.op = op, !.phase = "load", !.key = k, !.version = v] \in Calls
      BY <2>3, NewCalls, PhaseNames, RestingTypes
    <2> QED
      BY <1>2, <1>5, <2>1, <2>2 DEF Send, Types, Idle
  <1>7. ASSUME NEW r \in Requests, FindExisting(r) PROVE Types'
    <2> DEFINE q == [req[r] EXCEPT !.phase = "insert", !.at = clock]
    <2>1. req[r].phase = "view"
      BY <1>7 DEF FindExisting, Waits
    <2>2. Moved(req[r], q)
      BY <1>0, <1>6, <2>1, CallSteps, PhaseNames
    <2>3. q \in Calls /\ q.key \in Keys
      BY <1>6, <2>1, <2>2 DEF Moved
    <2>4. Show(r) \/ (Become(r, q) /\ UNCHANGED <<shown, told>>)
      BY <1>7, Zenon DEF FindExisting
    <2> HIDE DEF q
    <2>5. /\ req' \in [Requests -> Calls]
          /\ \A x \in Requests : req'[x].phase # "idle" => req'[x].key \in Keys
          /\ shown' \subseteq Keys
          /\ told' \in [Keys -> SUBSET {"SUCCEEDED", "FAILED", "CANCELLED"}]
      BY <1>3, <1>5, <1>6, <2>1, <2>3, <2>4 DEF Types
    <2> QED
      BY <1>7, <2>5 DEF FindExisting, Types
  <1>8. ASSUME NEW r \in Requests, FindRaced(r) PROVE Types'
    BY <1>3, <1>6, <1>8 DEF FindRaced, Waits, Types
  <1>9. ASSUME NEW r \in Requests, Load(r) PROVE Types'
    <2> DEFINE q == [req[r] EXCEPT !.phase = "authorize", !.draft = row[req[r].key]]
    <2>1. req[r].phase = "load"
      BY <1>9 DEF Load
    <2>2. Moved(req[r], q)
      BY <1>0, <1>6, <2>1, CallSteps, PhaseNames
    <2>3. q \in Calls /\ q.key \in Keys
      BY <1>6, <2>1, <2>2 DEF Moved
    <2>4. Become(r, q)
      BY <1>9 DEF Load
    <2> HIDE DEF q
    <2> QED
      BY <1>5, <1>9, <2>3, <2>4 DEF Load, Types
  <1>10. ASSUME NEW r \in Requests, LoadToCancel(r) PROVE Types'
    <2> DEFINE q == [req[r] EXCEPT !.phase = "cancel", !.draft = row[req[r].key]]
    <2>1. req[r].phase = "load"
      BY <1>10 DEF LoadToCancel, Waits
    <2>2. Moved(req[r], q)
      BY <1>0, <1>6, <2>1, CallSteps, PhaseNames
    <2>3. q \in Calls /\ q.key \in Keys
      BY <1>6, <2>1, <2>2 DEF Moved
    <2>4. Tell(r, "CANCELLED") \/ (Become(r, q) /\ UNCHANGED <<shown, told>>)
      BY <1>10, Zenon DEF LoadToCancel
    <2> HIDE DEF q
    <2>5. /\ req' \in [Requests -> Calls]
          /\ \A x \in Requests : req'[x].phase # "idle" => req'[x].key \in Keys
          /\ shown' \subseteq Keys
          /\ told' \in [Keys -> SUBSET {"SUCCEEDED", "FAILED", "CANCELLED"}]
      BY <1>4, <1>5, <1>6, <2>1, <2>3, <2>4 DEF Types
    <2> QED
      BY <1>10, <2>5 DEF LoadToCancel, Types
  <1>11. ASSUME NEW r \in Requests, Preview(r) PROVE Types'
    BY <1>3, <1>6, <1>11 DEF Preview, Authorized, Waits, Types
  <1>12. ASSUME NEW r \in Requests, Confirm(r) PROVE Types'
    <2> DEFINE q == [req[r] EXCEPT !.phase = "confirm", !.view = Current(req[r]), !.at = clock]
    <2>1. req[r].phase = "authorize"
      BY <1>12 DEF Confirm, Authorized, Waits
    <2>2. Moved(req[r], q)
      BY <1>0, <1>6, <2>1, CallSteps, PhaseNames
    <2>3. q \in Calls /\ q.key \in Keys
      BY <1>6, <2>1, <2>2 DEF Moved
    <2>4. Show(r) \/ (Become(r, q) /\ UNCHANGED <<shown, told>>)
      BY <1>12, Zenon DEF Confirm
    <2> HIDE DEF q
    <2>5. /\ req' \in [Requests -> Calls]
          /\ \A x \in Requests : req'[x].phase # "idle" => req'[x].key \in Keys
          /\ shown' \subseteq Keys
          /\ told' \in [Keys -> SUBSET {"SUCCEEDED", "FAILED", "CANCELLED"}]
      BY <1>3, <1>5, <1>6, <2>1, <2>3, <2>4 DEF Types
    <2> QED
      BY <1>12, <2>5 DEF Confirm, Types
  <1>13. ASSUME NEW r \in Requests, Execute(r) PROVE Types'
    <2> DEFINE q == [req[r] EXCEPT !.phase = "claim", !.view = Current(req[r]), !.at = clock]
    <2>1. req[r].phase = "authorize"
      BY <1>13 DEF Execute, Authorized, Waits
    <2>2. Moved(req[r], q)
      BY <1>0, <1>6, <2>1, CallSteps, PhaseNames
    <2>3. q \in Calls /\ q.key \in Keys
      BY <1>6, <2>1, <2>2 DEF Moved
    <2>4. Become(r, q)
      BY <1>13 DEF Execute
    <2> HIDE DEF q
    <2> QED
      BY <1>5, <1>13, <2>3, <2>4 DEF Execute, Types
  <1>14. ASSUME NEW r \in Requests, Repeat(r) PROVE Types'
    BY <1>4, <1>6, <1>14 DEF Repeat, Authorized, Waits, Types
  <1>15. ASSUME NEW r \in Requests, Readback(r) PROVE Types'
    BY <1>3, <1>4, <1>6, <1>15 DEF Readback, Authorized, Waits, Types
  <1>16. ASSUME NEW r \in Requests, Store(r) PROVE Types'
    <2> DEFINE u == Update(req[r])
               d == Applied(u, row[u.key])
    <2>1. u \in Messages /\ u.key = req[r].key /\ u.key \in Keys /\ u.kind = req[r].phase
      BY <1>16, <1>6, SentIsUpdate DEF Store, Updates, Update
    <2>2. d \in Rows
      BY <1>16, <2>1, UpdateMoves DEF Store, Types
    <2>3. d.hash \in LooseViews /\ Moved(req[r], [req[r] EXCEPT !.phase = "domain", !.draft = d])
      BY <1>16, <1>6, <2>2, CallSteps, PhaseNames DEF Store, Updates, Rows
    <2>4. row' \in [Keys -> Rows]
      BY <1>16, <2>1, <2>2 DEF Store, Types
    <2>5. req[r].phase \in Updates /\ Continue(r, d)
      BY <1>16 DEF Store
    <2> HIDE DEF d, u
    <2>6. \/ Show(r)
          \/ \E outcome \in {"SUCCEEDED", "FAILED", "CANCELLED"} : Tell(r, outcome)
          \/ /\ Become(r, [req[r] EXCEPT !.phase = "domain", !.draft = d])
             /\ UNCHANGED <<shown, told>>
      BY <1>6, <2>3, <2>5 DEF Continue, Updates
    <2>7. /\ req' \in [Requests -> Calls]
          /\ \A x \in Requests : req'[x].phase # "idle" => req'[x].key \in Keys
          /\ shown' \subseteq Keys
          /\ told' \in [Keys -> SUBSET {"SUCCEEDED", "FAILED", "CANCELLED"}]
      BY <1>3, <1>4, <1>5, <2>1, <2>3, <2>6 DEF Types, Moved
    <2> QED
      BY <1>16, <2>4, <2>7 DEF Store, Types
  <1>17. ASSUME StoreLate PROVE Types'
    <2>1. PICK u \in wire :
             /\ wire' = wire \ {u}
             /\ row' = [row EXCEPT ![u.key] = IF Matches(u, @) THEN Applied(u, @) ELSE @]
      BY <1>17 DEF StoreLate
    <2>2. u \in Messages /\ u.key \in Keys /\ row[u.key] \in Rows
      BY DEF Types, Messages
    <2>3. Matches(u, row[u.key]) => Applied(u, row[u.key]) \in Rows
      BY <2>2, UpdateMoves
    <2>4. row' \in [Keys -> Rows]
      BY <2>1, <2>2, <2>3 DEF Types
    <2> QED
      BY <1>17, <2>1, <2>4 DEF StoreLate, Types
  <1>18. ASSUME NEW r \in Requests, Perform(r) PROVE Types'
    <2> DEFINE q == [req[r] EXCEPT !.phase = "succeed"]
    <2>1. req[r].phase = "domain"
      BY <1>18 DEF Perform, Go
    <2>2. Moved(req[r], q)
      BY <1>0, <1>6, <2>1, CallSteps, PhaseNames
    <2>3. q \in Calls /\ q.key \in Keys
      BY <1>6, <2>1, <2>2 DEF Moved
    <2>4. Become(r, q)
      BY <1>18 DEF Perform, Go
    <2> HIDE DEF q
    <2> QED
      BY <1>5, <1>6, <2>1, <1>18, <2>3, <2>4 DEF Perform, Execution, Types
  <1>19. ASSUME NEW r \in Requests, Fail(r) PROVE Types'
    <2> DEFINE q == [req[r] EXCEPT !.phase = "fail"]
    <2>1. req[r].phase = "domain"
      BY <1>19 DEF Fail, Go
    <2>2. Moved(req[r], q)
      BY <1>0, <1>6, <2>1, CallSteps, PhaseNames
    <2>3. q \in Calls /\ q.key \in Keys
      BY <1>6, <2>1, <2>2 DEF Moved
    <2>4. Become(r, q)
      BY <1>19 DEF Fail, Go
    <2> HIDE DEF q
    <2> QED
      BY <1>5, <1>6, <2>1, <1>19, <2>3, <2>4 DEF Fail, Types
  <1>20. ASSUME PerformLate PROVE Types'
    BY <1>20 DEF PerformLate, Execution, Types
  <1>21. ASSUME NEW r \in Requests, GiveUp(r) PROVE Types'
    <2>1. wire' \subseteq Messages
      BY <1>21, SentIsUpdate DEF GiveUp, Sent, Types
    <2>2. late' \subseteq Keys
      BY <1>21, <1>6 DEF GiveUp, Types
    <2> QED
      BY <1>21, <2>1, <2>2, RestingTypes DEF GiveUp, Become, Types, Idle
  <1>22. ASSUME NEW r \in Requests, InsertFails(r) PROVE Types'
    <2> DEFINE q == [req[r] EXCEPT !.phase = "refind"]
    <2>1. req[r].phase = "insert"
      BY <1>22 DEF InsertFails, Go
    <2>2. Moved(req[r], q)
      BY <1>0, <1>6, <2>1, CallSteps, PhaseNames
    <2>3. q \in Calls /\ q.key \in Keys
      BY <1>6, <2>1, <2>2 DEF Moved
    <2>4. wire' \subseteq Messages
      BY <1>22, SentIsUpdate DEF InsertFails, Sent, Types, Updates
    <2>5. Become(r, q)
      BY <1>22 DEF InsertFails, Go
    <2> HIDE DEF q
    <2> QED
      BY <1>5, <1>22, <2>3, <2>4, <2>5 DEF InsertFails, Types
  <1>23. Tick \/ ChangeTerms \/ UNCHANGED vars => Types'
    BY DEF Tick, ChangeTerms, vars, Types
  <1> QED
    BY <1>1, <1>2, <1>7, <1>8, <1>9, <1>10, <1>11, <1>12, <1>13, <1>14, <1>15, <1>16, <1>17,
       <1>18, <1>19, <1>20, <1>21, <1>22, <1>23 DEF Next, Serve

-----------------------------------------------------------------------------
(* The right to call the domain                                             *)

\* A call that is not entitled to anything new.
QuietCall(q) ==
    /\ q.phase \notin {"domain"} \cup Outcomes
    /\ q.op = "confirm" => q.key \in asked'
    /\ q.phase = "confirm" => q.op = "confirm"
    /\ q.phase = "authorize" /\ q.draft.status = "SUCCEEDED" => row[q.key].status = "SUCCEEDED"

\* A step of a call that neither stores nor executes anything.
QuietStep(r) ==
    /\ UNCHANGED <<row, effects, wire, late>>
    /\ asked \subseteq asked'
    /\ \A x \in Requests : x # r => req'[x] = req[x]
    /\ QuietCall(req'[r])
    /\ \A k \in Keys : \A outcome \in told'[k] :
          outcome \in told[k] \/ row[k].status = outcome

LEMMA QuietSteps ==
    ASSUME Types, ConsentTraced, LoadedHolds, NEW r \in Requests,
           \/ SendPrepare(r) \/ Send(r) \/ FindExisting(r) \/ FindRaced(r) \/ Load(r)
           \/ LoadToCancel(r) \/ Preview(r) \/ Confirm(r) \/ Execute(r) \/ Repeat(r)
           \/ Readback(r)
    PROVE  QuietStep(r)
  <1>1. ASSUME NEW q, Become(r, q)
        PROVE  req'[r] = q /\ \A x \in Requests : x # r => req'[x] = req[x]
    BY <1>1 DEF Become, Types
  <1>2. QuietCall(Idle)
    BY DEF Idle, NoRow, Outcomes, QuietCall
  <1>3. ASSUME Show(r)
        PROVE  /\ QuietCall(req'[r]) /\ \A x \in Requests : x # r => req'[x] = req[x]
               /\ told' = told
    BY <1>1, <1>2, <1>3 DEF Show
  <1>4. ASSUME NEW outcome, Tell(r, outcome), row[req[r].key].status = outcome
        PROVE  /\ QuietCall(req'[r]) /\ \A x \in Requests : x # r => req'[x] = req[x]
               /\ \A k \in Keys : \A o \in told'[k] : o \in told[k] \/ row[k].status = o
    BY <1>1, <1>2, <1>4 DEF Tell, Types
  <1>7. req[r] \in Calls /\ (req[r].op = "confirm" => req[r].key \in asked)
    BY DEF Types, ConsentTraced
  <1>5. CASE SendPrepare(r)
    <2>1. PICK k \in Keys, p \in Payloads :
             Become(r, [Idle EXCEPT !.op = "prepare", !.phase = "view", !.key = k,
                                    !.view = [payload |-> p, terms |-> terms]])
      BY <1>5 DEF SendPrepare
    <2> DEFINE q == [Idle EXCEPT !.op = "prepare", !.phase = "view", !.key = k,
                                 !.view = [payload |-> p, terms |-> terms]]
    <2>2. QuietCall(q)
      BY DEF Idle, Outcomes, QuietCall
    <2>3. Become(r, q)
      BY <2>1
    <2> HIDE DEF q
    <2> QED
      BY <1>1, <1>5, <2>2, <2>3 DEF SendPrepare, QuietStep
  <1>6. CASE Send(r)
    <2>1. PICK k \in Keys, op \in {"preview", "confirm", "cancel", "execute", "readback"},
               v \in 0 .. 2 :
             /\ Become(r, [Idle EXCEPT !.op = op, !.phase = "load", !.key = k, !.version = v])
             /\ asked' = IF op = "confirm" THEN asked \cup {k} ELSE asked
      BY <1>6 DEF Send, Types
    <2> DEFINE q == [Idle EXCEPT !.op = op, !.phase = "load", !.key = k, !.version = v]
    <2>2. QuietCall(q)
      BY <2>1 DEF Idle, Outcomes, QuietCall
    <2>3. Become(r, q) /\ asked \subseteq asked'
      BY <2>1
    <2> HIDE DEF q
    <2> QED
      BY <1>1, <1>6, <2>2, <2>3 DEF Send, QuietStep
  <1>8. CASE FindExisting(r)
    <2> DEFINE q == [req[r] EXCEPT !.phase = "insert", !.at = clock]
    <2>1. Show(r) \/ (Become(r, q) /\ UNCHANGED told)
      BY <1>8, Zenon DEF FindExisting
    <2>4. UNCHANGED <<row, effects, wire, late, asked>>
      BY <1>8 DEF FindExisting
    <2>2. QuietCall(q)
      BY <1>7, <2>4 DEF Calls, Outcomes, QuietCall
    <2> HIDE DEF q
    <2> QED
      BY <1>1, <1>3, <2>1, <2>2, <2>4 DEF QuietStep
  <1>9. CASE FindRaced(r)
    BY <1>3, <1>9 DEF FindRaced, QuietStep
  <1>10. CASE Load(r)
    <2> DEFINE q == [req[r] EXCEPT !.phase = "authorize", !.draft = row[req[r].key]]
    <2>1. Become(r, q) /\ UNCHANGED <<row, effects, wire, late, asked, told>>
      BY <1>10, Zenon DEF Load
    <2>2. QuietCall(q)
      BY <1>7, <2>1 DEF Calls, Outcomes, QuietCall
    <2> HIDE DEF q
    <2> QED
      BY <1>1, <2>1, <2>2 DEF QuietStep
  <1>11. CASE LoadToCancel(r)
    <2> DEFINE q == [req[r] EXCEPT !.phase = "cancel", !.draft = row[req[r].key]]
    <2>1. \/ Tell(r, "CANCELLED") /\ row[req[r].key].status = "CANCELLED"
          \/ Become(r, q) /\ UNCHANGED told
      BY <1>11, Zenon DEF LoadToCancel
    <2>4. UNCHANGED <<row, effects, wire, late, asked>>
      BY <1>11 DEF LoadToCancel
    <2>2. QuietCall(q)
      BY <1>7, <2>4 DEF Calls, Outcomes, QuietCall
    <2> HIDE DEF q
    <2> QED
      BY <1>1, <1>4, <2>1, <2>2, <2>4 DEF QuietStep
  <1>12. CASE Preview(r)
    BY <1>3, <1>12 DEF Preview, QuietStep
  <1>13. CASE Confirm(r)
    <2> DEFINE q == [req[r] EXCEPT !.phase = "confirm", !.view = Current(req[r]), !.at = clock]
    <2>1. Show(r) \/ (Become(r, q) /\ UNCHANGED told)
      BY <1>13, Zenon DEF Confirm
    <2>4. UNCHANGED <<row, effects, wire, late, asked>> /\ req[r].op = "confirm"
      BY <1>13 DEF Confirm, Authorized, Waits
    <2>2. QuietCall(q)
      BY <1>7, <2>4 DEF Calls, Outcomes, QuietCall
    <2> HIDE DEF q
    <2> QED
      BY <1>1, <1>3, <2>1, <2>2, <2>4 DEF QuietStep
  <1>14. CASE Execute(r)
    <2> DEFINE q == [req[r] EXCEPT !.phase = "claim", !.view = Current(req[r]), !.at = clock]
    <2>1. Become(r, q) /\ UNCHANGED <<row, effects, wire, late, asked, told>>
      BY <1>14, Zenon DEF Execute
    <2>2. QuietCall(q)
      BY <1>7, <2>1 DEF Calls, Outcomes, QuietCall
    <2> HIDE DEF q
    <2> QED
      BY <1>1, <2>1, <2>2 DEF QuietStep
  <1>15. CASE Repeat(r)
    <2>1. row[req[r].key].status = "SUCCEEDED"
      BY <1>15 DEF Repeat, Authorized, Waits, LoadedHolds
    <2> QED
      BY <1>4, <1>15, <2>1 DEF Repeat, QuietStep
  <1>16. CASE Readback(r)
    <2>1. req[r].draft.status = "SUCCEEDED" => row[req[r].key].status = "SUCCEEDED"
      BY <1>16 DEF Readback, Authorized, Waits, LoadedHolds
    <2> QED
      BY <1>3, <1>4, <1>16, <2>1 DEF Readback, QuietStep
  <1> QED
    BY <1>5, <1>6, <1>8, <1>9, <1>10, <1>11, <1>12, <1>13, <1>14, <1>15, <1>16

\* What storing the update of a call comes to.
LEMMA StoreSteps ==
    ASSUME Types, NEW r \in Requests, Store(r)
    PROVE  LET u == Update(req[r])
               d == Applied(u, row[u.key])
           IN /\ u \in Messages /\ u.kind = req[r].phase /\ u.key = req[r].key
              /\ Matches(u, row[u.key])
              /\ row' = [row EXCEPT ![u.key] = d]
              /\ UNCHANGED <<effects, wire, late, asked>>
              /\ \A x \in Requests : x # r => req'[x] = req[x]
              /\ IF u.kind = "claim"
                 THEN req'[r].phase = "domain" /\ req'[r].key = u.key /\ req'[r].op = req[r].op
                 ELSE req'[r] = Idle
              /\ \A k \in Keys : \A o \in told'[k] :
                    \/ o \in told[k]
                    \/ k = u.key /\ u.kind \in {"cancel"} \cup Outcomes /\ o = StatusAfter(u.kind)
  <1> DEFINE u == Update(req[r])
             d == Applied(u, row[u.key])
  <1>1. u \in Messages /\ u.kind = req[r].phase /\ u.key = req[r].key
    BY SentIsUpdate DEF Store, Update
  <1>2. /\ Matches(u, row[u.key]) /\ row' = [row EXCEPT ![u.key] = d]
        /\ UNCHANGED <<effects, wire, late, asked>>
        /\ Continue(r, d) /\ req[r].phase \in Updates
    BY Zenon DEF Store
  <1> HIDE DEF u, d
  <1>3. req[r] \in Calls
    BY DEF Types
  <1>4. \/ req[r].phase # "claim" /\ Show(r)
        \/ req[r].phase \in {"cancel"} \cup Outcomes /\ Tell(r, StatusAfter(req[r].phase))
        \/ /\ req[r].phase = "claim" /\ told' = told
           /\ Become(r, [req[r] EXCEPT !.phase = "domain", !.draft = d])
    BY <1>2 DEF Continue, Updates, Outcomes, StatusAfter
  <1>5. ASSUME NEW q, Become(r, q)
        PROVE  req'[r] = q /\ \A x \in Requests : x # r => req'[x] = req[x]
    BY <1>5 DEF Become, Types
  <1>6. /\ \A x \in Requests : x # r => req'[x] = req[x]
        /\ IF req[r].phase = "claim"
           THEN req'[r].phase = "domain" /\ req'[r].key = req[r].key /\ req'[r].op = req[r].op
           ELSE req'[r] = Idle
    <2> DEFINE q == [req[r] EXCEPT !.phase = "domain", !.draft = d]
    <2>1. q.phase = "domain" /\ q.key = req[r].key /\ q.op = req[r].op
      BY <1>3 DEF Calls
    <2>2. \/ req[r].phase # "claim" /\ Become(r, Idle)
          \/ req[r].phase = "claim" /\ Become(r, q)
      BY <1>4 DEF Show, Tell, Outcomes
    <2> HIDE DEF q
    <2> QED
      BY <1>5, <2>1, <2>2
  <1>7. \A k \in Keys : \A o \in told'[k] :
           \/ o \in told[k]
           \/ /\ k = req[r].key /\ req[r].phase \in {"cancel"} \cup Outcomes
              /\ o = StatusAfter(req[r].phase)
    BY <1>4 DEF Show, Tell, Types
  <1> QED
    BY <1>1, <1>2, <1>6, <1>7 DEF u, d

\* A call that leaves with its right or hands over what it sent.
DepartingStep(r) ==
    /\ UNCHANGED <<row, effects, asked, told>>
    /\ \A x \in Requests : x # r => req'[x] = req[x]
    /\ QuietCall(req'[r])
    /\ \/ wire' = wire
       \/ req[r].phase \in Updates /\ wire' = wire \cup {Update(req[r])}
    /\ \/ late' = late
       \/ req[r].phase = "domain" /\ late' = late \cup {req[r].key}

LEMMA DepartingSteps ==
    ASSUME Types, ConsentTraced, NEW r \in Requests, GiveUp(r) \/ InsertFails(r)
    PROVE  DepartingStep(r)
  <1>1. ASSUME NEW q, Become(r, q)
        PROVE  req'[r] = q /\ \A x \in Requests : x # r => req'[x] = req[x]
    BY <1>1 DEF Become, Types
  <1>2. QuietCall(Idle)
    BY DEF Idle, NoRow, Outcomes, QuietCall
  <1>3. CASE GiveUp(r)
    BY <1>1, <1>2, <1>3 DEF GiveUp, Sent, DepartingStep
  <1>4. CASE InsertFails(r)
    <2> DEFINE q == [req[r] EXCEPT !.phase = "refind"]
    <2>1. Become(r, q) /\ UNCHANGED <<row, effects, late, asked, told>>
          /\ req[r].phase = "insert"
      BY <1>4, Zenon DEF InsertFails, Go
    <2>2. QuietCall(q)
      BY <2>1 DEF Types, ConsentTraced, Calls, Outcomes, QuietCall
    <2> HIDE DEF q
    <2> QED
      BY <1>1, <1>4, <2>1, <2>2 DEF InsertFails, Sent, DepartingStep, Updates
  <1> QED
    BY <1>3, <1>4

\* The domain call returns.
LEMMA DomainSteps ==
    ASSUME Types, NEW r \in Requests, Perform(r) \/ Fail(r)
    PROVE  /\ req[r].phase = "domain" /\ req[r].key \in Keys
           /\ \A x \in Requests : x # r => req'[x] = req[x]
           /\ req'[r].key = req[r].key /\ req'[r].op = req[r].op
           /\ UNCHANGED <<row, wire, asked, told>>
           /\ \/ /\ req'[r].phase = "succeed" /\ late' = late
                 /\ effects' = [effects EXCEPT ![req[r].key] = @ + 1]
              \/ /\ req'[r].phase = "fail" /\ effects' = effects
                 /\ late' \in {late, late \cup {req[r].key}}
  <1>1. req[r].phase = "domain" /\ UNCHANGED <<row, wire, asked, told>>
    BY DEF Perform, Fail
  <1>2. req[r] \in Calls /\ req[r].key \in Keys
    BY <1>1 DEF Types
  <1>3. ASSUME NEW p, Go(r, p)
        PROVE  /\ \A x \in Requests : x # r => req'[x] = req[x]
               /\ req'[r].key = req[r].key /\ req'[r].op = req[r].op /\ req'[r].phase = p
    BY <1>2, <1>3 DEF Go, Become, Types, Calls
  <1>4. CASE Perform(r)
    BY <1>1, <1>2, <1>3, <1>4 DEF Perform, Execution
  <1>5. CASE Fail(r)
    BY <1>1, <1>2, <1>3, <1>5 DEF Fail
  <1> QED
    BY <1>4, <1>5

-----------------------------------------------------------------------------
(* The invariant                                                            *)

Rights == Types /\ NothingBeforeStart /\ OneRight /\ SuccessIsReal

LEMMA StoreKeepsRights ==
    ASSUME Rights, NEW r \in Requests, Store(r)
    PROVE  NothingBeforeStart' /\ OneRight' /\ SuccessIsReal'
  <1> DEFINE u == Update(req[r])
             d == Applied(u, row[u.key])
  <1>1. /\ u \in Messages /\ u.kind = req[r].phase /\ u.key = req[r].key
        /\ Matches(u, row[u.key])
        /\ row' = [row EXCEPT ![u.key] = d]
        /\ UNCHANGED <<effects, wire, late, asked>>
        /\ \A x \in Requests : x # r => req'[x] = req[x]
        /\ IF u.kind = "claim" THEN req'[r].phase = "domain" /\ req'[r].key = u.key
                               ELSE req'[r] = Idle
    BY StoreSteps DEF Rights
  <1>2. u.key \in Keys /\ u.kind \in Updates /\ row[u.key] \in Rows
    BY <1>1 DEF Rights, Types, Messages
  <1>3. /\ u.kind = "insert" => row[u.key].status = "NONE"
        /\ u.kind \in {"confirm", "cancel", "claim"}
              => row[u.key].status = "AWAITING_CONFIRMATION"
        /\ u.kind \in Outcomes => row[u.key].status = "EXECUTING"
        /\ u.kind \in Updates \ {"insert"} => d.status = StatusAfter(u.kind)
    BY <1>1, <1>2, UpdateMoves
  <1> HIDE DEF u, d
  <1>4. \A k \in Keys : row'[k] = IF k = u.key THEN d ELSE row[k]
    BY <1>1, <1>2 DEF Rights, Types
  <1>5. \A x \in Requests, k \in Keys :
           At(x, k, {"domain"} \cup Outcomes)' =>
               \/ At(x, k, {"domain"} \cup Outcomes) /\ req'[x] = req[x] /\ x # r
               \/ x = r /\ k = u.key /\ u.kind = "claim" /\ req'[x].phase = "domain"
    BY <1>1 DEF At, Idle, Outcomes
  <1>6. NothingBeforeStart'
    <2> SUFFICES ASSUME NEW k \in Keys, row'[k].status \in Unstarted
                 PROVE  /\ effects[k] = 0 /\ k \notin late
                        /\ \A x \in Requests : ~At(x, k, {"domain"} \cup Outcomes)'
                        /\ \A w \in wire : w.key = k => w.kind \notin Outcomes
      BY <1>1 DEF NothingBeforeStart
    <2>1. row[k].status \in Unstarted /\ ~(k = u.key /\ u.kind = "claim")
      BY <1>2, <1>3, <1>4 DEF Unstarted, StatusAfter, Outcomes, Updates
    <2> QED
      BY <1>5, <2>1 DEF Rights, NothingBeforeStart
  <1>7. OneRight'
    <2> SUFFICES ASSUME NEW k \in Keys
                 PROVE  /\ effects[k] <= 1
                        /\ k \in late => effects[k] = 0
                        /\ \A x \in Requests : At(x, k, {"domain"})' =>
                              /\ effects[k] = 0 /\ k \notin late
                              /\ \A other \in Requests : At(other, k, {"domain"})' => other = x
      BY <1>1 DEF OneRight
    <2>1. CASE k = u.key /\ u.kind = "claim"
      <3>1. row[k].status \in Unstarted
        BY <1>3, <2>1 DEF Unstarted
      <3>2. /\ effects[k] = 0 /\ k \notin late
            /\ \A x \in Requests : ~At(x, k, {"domain"} \cup Outcomes)
        BY <3>1 DEF Rights, NothingBeforeStart
      <3>3. \A x \in Requests : At(x, k, {"domain"})' => x = r
        BY <1>5, <3>2 DEF At
      <3> QED
        BY <3>2, <3>3
    <2>2. CASE ~(k = u.key /\ u.kind = "claim")
      <3>1. \A x \in Requests : At(x, k, {"domain"})' => At(x, k, {"domain"})
        BY <1>5, <2>2 DEF At
      <3> QED
        BY <3>1 DEF Rights, OneRight
    <2> QED
      BY <2>1, <2>2
  <1>8. SuccessIsReal'
    <2> SUFFICES ASSUME NEW k \in Keys
                 PROVE  /\ row'[k].status = "SUCCEEDED" => effects[k] = 1
                        /\ \A x \in Requests : At(x, k, {"succeed"})' => effects[k] = 1
                        /\ \A w \in wire : w.key = k /\ w.kind = "succeed" => effects[k] = 1
      BY <1>1 DEF SuccessIsReal
    <2>1. \A x \in Requests : At(x, k, {"succeed"})' => At(x, k, {"succeed"})
      BY <1>5 DEF At, Outcomes
    <2>2. row'[k].status = "SUCCEEDED" =>
             \/ row[k].status = "SUCCEEDED"
             \/ At(r, k, {"succeed"})
      BY <1>1, <1>2, <1>3, <1>4, UpdateMoves DEF At, StatusAfter, Updates, u, d
    <2> QED
      BY <2>1, <2>2 DEF Rights, SuccessIsReal
  <1> QED
    BY <1>6, <1>7, <1>8

LEMMA StoreLateKeepsRights ==
    ASSUME Rights, StoreLate
    PROVE  NothingBeforeStart' /\ OneRight' /\ SuccessIsReal'
  <1>1. PICK u \in wire :
           /\ wire' = wire \ {u}
           /\ row' = [row EXCEPT ![u.key] = IF Matches(u, @) THEN Applied(u, @) ELSE @]
    BY DEF StoreLate
  <1>2. u \in Messages /\ u.key \in Keys /\ u.kind \in Updates /\ row[u.key] \in Rows
    BY DEF Rights, Types, Messages
  <1>3. Matches(u, row[u.key]) =>
           /\ u.kind = "insert" => row[u.key].status = "NONE"
                                   /\ Applied(u, row[u.key]).status = "AWAITING_CONFIRMATION"
           /\ u.kind \in {"confirm", "cancel", "claim"}
                 => row[u.key].status = "AWAITING_CONFIRMATION"
           /\ u.kind \in Outcomes => row[u.key].status = "EXECUTING"
           /\ u.kind \in Updates \ {"insert"}
                 => Applied(u, row[u.key]).status = StatusAfter(u.kind)
    BY <1>2, UpdateMoves
  <1>4. \A k \in Keys :
           \/ row'[k] = row[k]
           \/ k = u.key /\ Matches(u, row[k]) /\ row'[k] = Applied(u, row[k])
    BY <1>1, <1>2 DEF Rights, Types
  <1>5. UNCHANGED <<effects, late, req>>
    BY DEF StoreLate
  <1>6. NothingBeforeStart'
    <2> SUFFICES ASSUME NEW k \in Keys, row'[k].status \in Unstarted
                 PROVE  row[k].status \in Unstarted
      BY <1>1, <1>5 DEF Rights, NothingBeforeStart, At
    <2> QED
      BY <1>2, <1>3, <1>4 DEF Unstarted, StatusAfter, Outcomes, Updates
  <1>7. OneRight'
    BY <1>5 DEF Rights, OneRight, At
  <1>8. SuccessIsReal'
    <2> SUFFICES ASSUME NEW k \in Keys, row'[k].status = "SUCCEEDED"
                 PROVE  row[k].status = "SUCCEEDED" \/ (u.key = k /\ u.kind = "succeed")
      BY <1>1, <1>5 DEF Rights, SuccessIsReal, At
    <2> QED
      BY <1>2, <1>3, <1>4 DEF StatusAfter, Outcomes, Updates
  <1> QED
    BY <1>6, <1>7, <1>8

LEMMA DomainKeepsRights ==
    ASSUME Rights, NEW r \in Requests, Perform(r) \/ Fail(r)
    PROVE  NothingBeforeStart' /\ OneRight' /\ SuccessIsReal'
  <1>0. PICK k0 \in Keys : k0 = req[r].key
    BY DomainSteps DEF Rights
  <1>1. /\ req[r].phase = "domain"
        /\ \A x \in Requests : x # r => req'[x] = req[x]
        /\ req'[r].key = k0
        /\ UNCHANGED <<row, wire>>
        /\ \/ /\ req'[r].phase = "succeed" /\ late' = late
              /\ effects' = [effects EXCEPT ![k0] = @ + 1]
           \/ /\ req'[r].phase = "fail" /\ effects' = effects
              /\ late' \in {late, late \cup {k0}}
    BY <1>0, DomainSteps DEF Rights
  <1>2. /\ effects[k0] = 0 /\ k0 \notin late /\ At(r, k0, {"domain"})
        /\ \A other \in Requests : At(other, k0, {"domain"}) => other = r
    BY <1>0, <1>1 DEF Rights, OneRight, At
  <1>3. row[k0].status \notin Unstarted /\ row[k0].status # "SUCCEEDED"
    BY <1>1, <1>2 DEF Rights, NothingBeforeStart, SuccessIsReal, At
  <1>4. /\ \A k \in Keys : k # k0 => effects'[k] = effects[k] /\ (k \in late' => k \in late)
        /\ effects'[k0] \in {0, 1} /\ (k0 \in late' => effects'[k0] = 0)
        /\ req'[r].phase = "succeed" => effects'[k0] = 1
        /\ req'[r].phase \in Outcomes
    BY <1>1, <1>2 DEF Rights, Types, Outcomes
  <1>5. \A x \in Requests, k \in Keys : k # k0 => (At(x, k, {"domain"} \cup Outcomes)'
            => At(x, k, {"domain"} \cup Outcomes) /\ req'[x] = req[x])
    BY <1>1 DEF At
  <1>6. \A x \in Requests : ~At(x, k0, {"domain"})'
    <2>1. ~At(r, k0, {"domain"})'
      BY <1>4 DEF At, Outcomes
    <2>2. ASSUME NEW x \in Requests, x # r PROVE ~At(x, k0, {"domain"})'
      BY <1>1, <1>2, <2>2 DEF At
    <2> QED
      BY <2>1, <2>2
  <1>7. NothingBeforeStart'
    <2> SUFFICES ASSUME NEW k \in Keys, row[k].status \in Unstarted
                 PROVE  /\ effects'[k] = 0 /\ k \notin late'
                        /\ \A x \in Requests : ~At(x, k, {"domain"} \cup Outcomes)'
                        /\ \A w \in wire : w.key = k => w.kind \notin Outcomes
      BY <1>1 DEF NothingBeforeStart
    <2>1. k # k0
      BY <1>3
    <2> QED
      BY <1>4, <1>5, <2>1 DEF Rights, NothingBeforeStart
  <1>8. OneRight'
    <2> SUFFICES ASSUME NEW k \in Keys
                 PROVE  /\ effects'[k] <= 1
                        /\ k \in late' => effects'[k] = 0
                        /\ \A x \in Requests : At(x, k, {"domain"})' =>
                              /\ effects'[k] = 0 /\ k \notin late'
                              /\ \A other \in Requests : At(other, k, {"domain"})' => other = x
      BY DEF OneRight
    <2>1. CASE k = k0
      <3>1. \A x \in Requests : ~At(x, k, {"domain"})'
        BY <1>6, <2>1 DEF At
      <3> QED
        BY <1>4, <2>1, <3>1
    <2>2. CASE k # k0
      <3>1. \A x \in Requests : At(x, k, {"domain"})' => At(x, k, {"domain"})
        BY <1>5, <2>2 DEF At
      <3> QED
        BY <1>4, <2>2, <3>1 DEF Rights, OneRight
    <2> QED
      BY <2>1, <2>2
  <1>9. SuccessIsReal'
    <2> SUFFICES ASSUME NEW k \in Keys
                 PROVE  /\ row[k].status = "SUCCEEDED" => effects'[k] = 1
                        /\ \A x \in Requests : At(x, k, {"succeed"})' => effects'[k] = 1
                        /\ \A w \in wire : w.key = k /\ w.kind = "succeed" => effects'[k] = 1
      BY <1>1 DEF SuccessIsReal
    <2>1. CASE k # k0
      <3>1. \A x \in Requests : At(x, k, {"succeed"})' => At(x, k, {"succeed"})
        BY <1>5, <2>1 DEF At, Outcomes
      <3> QED
        BY <1>4, <2>1, <3>1 DEF Rights, SuccessIsReal
    <2>2. CASE k = k0
      <3>1. \A x \in Requests : x # r => ~At(x, k, {"succeed"})'
        BY <1>1, <1>2, <2>2 DEF Rights, SuccessIsReal, At
      <3>2. \A w \in wire : ~(w.key = k /\ w.kind = "succeed")
        BY <1>2, <2>2 DEF Rights, SuccessIsReal
      <3> QED
        BY <1>3, <1>4, <2>2, <3>1, <3>2 DEF At
    <2> QED
      BY <2>1, <2>2
  <1> QED
    BY <1>7, <1>8, <1>9

LEMMA OthersKeepRights ==
    ASSUME Rights, NEW r \in Requests, QuietStep(r) \/ DepartingStep(r)
    PROVE  NothingBeforeStart' /\ OneRight' /\ SuccessIsReal'
  <1>1. \A x \in Requests, k \in Keys :
           /\ At(x, k, {"domain"})' => At(x, k, {"domain"}) /\ x # r
           /\ At(x, k, {"domain"} \cup Outcomes)' => At(x, k, {"domain"} \cup Outcomes)
           /\ At(x, k, {"succeed"})' => At(x, k, {"succeed"})
    BY DEF QuietStep, DepartingStep, QuietCall, At, Outcomes
  <1>2. row' = row /\ effects' = effects
    BY DEF QuietStep, DepartingStep
  <1>3. \/ wire' = wire
        \/ req[r].phase \in Updates /\ wire' = wire \cup {Update(req[r])}
    BY DEF QuietStep, DepartingStep
  <1>4. late' = late \/ (req[r].phase = "domain" /\ late' = late \cup {req[r].key})
    BY DEF QuietStep, DepartingStep
  <1>5. \A w \in wire', k \in Keys :
           \/ w \in wire
           \/ w.key = k /\ w.kind \in Outcomes => At(r, k, {w.kind})
    BY <1>3 DEF Update, At
  <1>6. \A k \in Keys : k \in late' => k \in late \/ At(r, k, {"domain"})
    BY <1>4 DEF At
  <1>7. NothingBeforeStart'
    <2> SUFFICES ASSUME NEW k \in Keys, row[k].status \in Unstarted
                 PROVE  /\ effects[k] = 0 /\ k \notin late'
                        /\ \A x \in Requests : ~At(x, k, {"domain"} \cup Outcomes)'
                        /\ \A w \in wire' : w.key = k => w.kind \notin Outcomes
      BY <1>2 DEF NothingBeforeStart
    <2>1. /\ effects[k] = 0 /\ k \notin late
          /\ \A x \in Requests : ~At(x, k, {"domain"} \cup Outcomes)
          /\ \A w \in wire : w.key = k => w.kind \notin Outcomes
      BY DEF Rights, NothingBeforeStart
    <2>2. k \notin late'
      BY <1>6, <2>1 DEF At
    <2>3. \A w \in wire' : w.key = k => w.kind \notin Outcomes
      BY <1>5, <2>1 DEF At
    <2> QED
      BY <1>1, <2>1, <2>2, <2>3
  <1>8. OneRight'
    <2> SUFFICES ASSUME NEW k \in Keys
                 PROVE  /\ effects[k] <= 1
                        /\ k \in late' => effects[k] = 0
                        /\ \A x \in Requests : At(x, k, {"domain"})' =>
                              /\ effects[k] = 0 /\ k \notin late'
                              /\ \A other \in Requests : At(other, k, {"domain"})' => other = x
      BY <1>2 DEF OneRight
    <2>1. /\ effects[k] <= 1
          /\ k \in late => effects[k] = 0
          /\ \A x \in Requests : At(x, k, {"domain"}) =>
                /\ effects[k] = 0 /\ k \notin late
                /\ \A other \in Requests : At(other, k, {"domain"}) => other = x
      BY DEF Rights, OneRight
    <2>2. \A x \in Requests : At(x, k, {"domain"})' => k \notin late'
      BY <1>1, <1>6, <2>1
    <2> QED
      BY <1>1, <1>6, <2>1, <2>2
  <1>9. SuccessIsReal'
    <2> SUFFICES ASSUME NEW k \in Keys
                 PROVE  /\ row[k].status = "SUCCEEDED" => effects[k] = 1
                        /\ \A x \in Requests : At(x, k, {"succeed"})' => effects[k] = 1
                        /\ \A w \in wire' : w.key = k /\ w.kind = "succeed" => effects[k] = 1
      BY <1>2 DEF SuccessIsReal
    <2>1. /\ row[k].status = "SUCCEEDED" => effects[k] = 1
          /\ \A x \in Requests : At(x, k, {"succeed"}) => effects[k] = 1
          /\ \A w \in wire : w.key = k /\ w.kind = "succeed" => effects[k] = 1
      BY DEF Rights, SuccessIsReal
    <2>2. \A w \in wire' : w.key = k /\ w.kind = "succeed" => effects[k] = 1
      BY <1>5, <2>1 DEF Outcomes
    <2> QED
      BY <1>1, <2>1, <2>2
  <1> QED
    BY <1>7, <1>8, <1>9

\* A domain call whose caller no longer waits for it.
LEMMA PerformLateKeepsRights ==
    ASSUME Rights, PerformLate
    PROVE  NothingBeforeStart' /\ OneRight' /\ SuccessIsReal'
  <1>1. PICK k0 \in late : late' = late \ {k0} /\ Execution(k0)
    BY DEF PerformLate
  <1>2. k0 \in Keys /\ effects[k0] = 0 /\ UNCHANGED <<row, req, wire>>
    BY DEF PerformLate, Rights, Types, OneRight
  <1>3. /\ \A k \in Keys : k # k0 => effects'[k] = effects[k] /\ (k \in late' => k \in late)
        /\ effects'[k0] = 1 /\ k0 \notin late'
    BY <1>1, <1>2 DEF Execution, Rights, Types
  <1>4. /\ row[k0].status \notin Unstarted
        /\ \A x \in Requests : ~At(x, k0, {"domain"})
    BY <1>2 DEF Rights, NothingBeforeStart, OneRight
  <1>5. \A x, k, phases : At(x, k, phases)' <=> At(x, k, phases)
    BY <1>2 DEF At
  <1>6. NothingBeforeStart'
    BY <1>2, <1>3, <1>4 DEF Rights, NothingBeforeStart, At
  <1>7. OneRight'
    <2> SUFFICES ASSUME NEW k \in Keys
                 PROVE  /\ effects'[k] <= 1
                        /\ k \in late' => effects'[k] = 0
                        /\ \A x \in Requests : At(x, k, {"domain"}) =>
                              /\ effects'[k] = 0 /\ k \notin late'
                              /\ \A other \in Requests : At(other, k, {"domain"}) => other = x
      BY <1>2 DEF OneRight, At
    <2> QED
      BY <1>3, <1>4 DEF Rights, OneRight
  <1>8. SuccessIsReal'
    BY <1>2, <1>3 DEF Rights, SuccessIsReal, At
  <1> QED
    BY <1>6, <1>7, <1>8

Ends == {"SUCCEEDED", "FAILED", "CANCELLED"}
MayAct(d) == IsConfirmed(d) \/ d.status \notin Unstarted

\* Updates leave what has ended alone, and only confirm makes a draft act.
LEMMA UpdateLimits ==
    ASSUME NEW u \in Messages, NEW d \in Rows, Matches(u, d)
    PROVE  /\ d.status \notin Ends
           /\ MayAct(Applied(u, d)) => u.kind = "confirm" \/ MayAct(d)
  <1>1. u.kind \in Updates
    BY DEF Messages
  <1> DEFINE new == Applied(u, d)
  <1>2. /\ u.kind = "insert" => d.status = "NONE" /\ new.status = "AWAITING_CONFIRMATION"
                                /\ ~IsConfirmed(new)
        /\ u.kind \in Updates \ {"insert"} => new.status = StatusAfter(u.kind)
        /\ u.kind \in {"confirm", "cancel", "claim"} => d.status = "AWAITING_CONFIRMATION"
        /\ u.kind \in Outcomes => d.status = "EXECUTING"
        /\ u.kind = "claim" => IsConfirmed(d)
        /\ u.kind = "cancel" => new.confirmed = d.confirmed
    BY UpdateMoves
  <1> HIDE DEF new
  <1>3. d.status \notin Ends
    BY <1>1, <1>2 DEF Updates, Outcomes, Ends
  <1>4. CASE u.kind = "insert"
    BY <1>2, <1>3, <1>4 DEF MayAct, Unstarted, new
  <1>5. CASE u.kind = "confirm"
    BY <1>3, <1>5
  <1>6. CASE u.kind = "cancel"
    BY <1>2, <1>3, <1>6 DEF MayAct, Unstarted, Updates, StatusAfter, IsConfirmed, new
  <1>7. CASE u.kind = "claim"
    BY <1>2, <1>3, <1>7 DEF MayAct
  <1>8. CASE u.kind \in Outcomes
    BY <1>2, <1>3, <1>8 DEF MayAct, Unstarted
  <1> QED
    BY <1>1, <1>4, <1>5, <1>6, <1>7, <1>8 DEF Updates, Outcomes

\* What the rows and the answers of a step must satisfy for the rest to hold.
LEMMA RestHolds ==
    ASSUME IInv, Types', asked \subseteq asked',
           \A k \in Keys : row[k].status \in Ends => row'[k] = row[k],
           \A k \in Keys : MayAct(row'[k]) => MayAct(row[k]) \/ k \in asked,
           \A k \in Keys : \A o \in told'[k] : o \in told[k] \/ row'[k].status = o,
           \A r \in Requests :
              \/ req'[r].phase = req[r].phase /\ req'[r] = req[r]
              \/ QuietCall(req'[r])
              \/ /\ req'[r].key = req[r].key /\ req'[r].op = req[r].op
                 /\ req'[r].phase \in {"domain"} \cup Outcomes,
           \A w \in wire' : w \in wire
              \/ \E r \in Requests : req[r].phase \in Updates /\ w = Update(req[r])
    PROVE  ConsentTraced' /\ LoadedHolds' /\ AnswersHold'
  <1>1. ConsentTraced'
    <2>1. \A k \in Keys : IsConfirmed(row'[k]) \/ row'[k].status \notin Unstarted => k \in asked'
      BY DEF IInv, ConsentTraced, MayAct
    <2>2. \A r \in Requests : req'[r].op = "confirm" => req'[r].key \in asked'
      BY DEF IInv, ConsentTraced, QuietCall
    <2>3. \A r \in Requests : req'[r].phase = "confirm" => req'[r].op = "confirm"
      BY DEF IInv, ConsentTraced, QuietCall, Outcomes
    <2>4. \A w \in wire' : w.kind = "confirm" => w.key \in asked'
      BY DEF IInv, ConsentTraced, Update
    <2> QED
      BY <2>1, <2>2, <2>3, <2>4 DEF ConsentTraced, IsConfirmed
  <1>2. LoadedHolds'
    <2> SUFFICES ASSUME NEW r \in Requests, req'[r].phase = "authorize",
                        req'[r].draft.status = "SUCCEEDED"
                 PROVE  row'[req'[r].key].status = "SUCCEEDED"
      BY DEF LoadedHolds
    <2>1. row[req'[r].key].status = "SUCCEEDED"
      BY DEF IInv, LoadedHolds, QuietCall, Outcomes
    <2>2. req'[r].key \in Keys
      BY DEF Types
    <2> QED
      BY <2>1, <2>2 DEF Ends
  <1>3. AnswersHold'
    <2> SUFFICES ASSUME NEW k \in Keys, NEW o \in told'[k]
                 PROVE  row'[k].status = o
      BY DEF AnswersHold
    <2>1. CASE o \in told[k]
      <3>1. o \in Ends /\ row[k].status = o
        BY <2>1 DEF IInv, Types, AnswersHold, Ends
      <3> QED
        BY <3>1
    <2> QED
      BY <2>1
  <1> QED
    BY <1>1, <1>2, <1>3

LEMMA StoreMoves ==
    ASSUME IInv, NEW r \in Requests, Store(r)
    PROVE  /\ asked = asked' /\ wire' = wire
           /\ \A k \in Keys : row[k].status \in Ends => row'[k] = row[k]
           /\ \A k \in Keys : MayAct(row'[k]) => MayAct(row[k]) \/ k \in asked
           /\ \A k \in Keys : \A o \in told'[k] : o \in told[k] \/ row'[k].status = o
           /\ \A x \in Requests :
                 \/ x # r /\ req'[x] = req[x]
                 \/ QuietCall(req'[x])
                 \/ /\ req'[x].key = req[x].key /\ req'[x].op = req[x].op
                    /\ req'[x].phase = "domain"
  <1> DEFINE u == Update(req[r])
             d == Applied(u, row[u.key])
  <1>1. /\ u \in Messages /\ u.kind = req[r].phase /\ u.key = req[r].key
        /\ Matches(u, row[u.key])
        /\ row' = [row EXCEPT ![u.key] = d]
        /\ UNCHANGED <<effects, wire, late, asked>>
        /\ \A x \in Requests : x # r => req'[x] = req[x]
        /\ IF u.kind = "claim"
           THEN req'[r].phase = "domain" /\ req'[r].key = u.key /\ req'[r].op = req[r].op
           ELSE req'[r] = Idle
        /\ \A k \in Keys : \A o \in told'[k] :
              \/ o \in told[k]
              \/ k = u.key /\ u.kind \in {"cancel"} \cup Outcomes /\ o = StatusAfter(u.kind)
    BY StoreSteps DEF IInv
  <1>2. u.key \in Keys /\ row[u.key] \in Rows
    BY <1>1 DEF IInv, Types, Messages
  <1>3. /\ row[u.key].status \notin Ends
        /\ MayAct(d) => u.kind = "confirm" \/ MayAct(row[u.key])
        /\ u.kind \in Updates \ {"insert"} => d.status = StatusAfter(u.kind)
    BY <1>1, <1>2, UpdateLimits, UpdateMoves
  <1>4. u.kind = "confirm" => u.key \in asked
    BY <1>1 DEF IInv, ConsentTraced
  <1>5. QuietCall(Idle)
    BY DEF Idle, NoRow, Outcomes, QuietCall
  <1> HIDE DEF u, d
  <1>6. \A k \in Keys : row'[k] = IF k = u.key THEN d ELSE row[k]
    BY <1>1, <1>2 DEF IInv, Types
  <1>7. \A k \in Keys : \A o \in told'[k] : o \in told[k] \/ row'[k].status = o
    BY <1>1, <1>3, <1>6 DEF Outcomes, Updates
  <1>8. \A k \in Keys : MayAct(row'[k]) => MayAct(row[k]) \/ k \in asked
    BY <1>3, <1>4, <1>6
  <1> QED
    BY <1>1, <1>3, <1>5, <1>6, <1>7, <1>8

LEMMA StoreLateMoves ==
    ASSUME IInv, StoreLate
    PROVE  /\ \A k \in Keys : row[k].status \in Ends => row'[k] = row[k]
           /\ \A k \in Keys : MayAct(row'[k]) => MayAct(row[k]) \/ k \in asked
           /\ wire' \subseteq wire /\ UNCHANGED <<asked, told, req>>
  <1>1. PICK u \in wire :
           /\ wire' = wire \ {u}
           /\ row' = [row EXCEPT ![u.key] = IF Matches(u, @) THEN Applied(u, @) ELSE @]
    BY DEF StoreLate
  <1>2. u \in Messages /\ u.key \in Keys /\ row[u.key] \in Rows
    BY DEF IInv, Types, Messages
  <1>3. Matches(u, row[u.key]) =>
           /\ row[u.key].status \notin Ends
           /\ MayAct(Applied(u, row[u.key])) => u.kind = "confirm" \/ MayAct(row[u.key])
    BY <1>2, UpdateLimits
  <1>4. u.kind = "confirm" => u.key \in asked
    BY DEF IInv, ConsentTraced
  <1>5. \A k \in Keys :
           \/ row'[k] = row[k]
           \/ k = u.key /\ Matches(u, row[k]) /\ row'[k] = Applied(u, row[k])
    BY <1>1, <1>2 DEF IInv, Types
  <1>6. \A k \in Keys : MayAct(row'[k]) => MayAct(row[k]) \/ k \in asked
    BY <1>3, <1>4, <1>5
  <1>7. \A k \in Keys : row[k].status \in Ends => row'[k] = row[k]
    BY <1>3, <1>5
  <1> QED
    BY <1>1, <1>6, <1>7 DEF StoreLate

LEMMA NextKeeps == IInv /\ [Next]_vars => IInv'
  <1> SUFFICES ASSUME IInv, [Next]_vars PROVE IInv'
    OBVIOUS
  <1>0. Rights /\ Types'
    BY TypesHold DEF IInv, Rights
  <1>1. ASSUME NEW r \in Requests, Serve(r) PROVE IInv'
    <2>1. CASE QuietStep(r)
      <3>1. NothingBeforeStart' /\ OneRight' /\ SuccessIsReal'
        BY <1>0, <2>1, OthersKeepRights
      <3>2. \A k \in Keys : \A o \in told'[k] : o \in told[k] \/ row'[k].status = o
        BY <2>1 DEF QuietStep
      <3>3. ConsentTraced' /\ LoadedHolds' /\ AnswersHold'
        BY <1>0, <2>1, <3>2, RestHolds DEF QuietStep
      <3> QED
        BY <1>0, <3>1, <3>3 DEF IInv
    <2>2. CASE DepartingStep(r)
      <3>1. NothingBeforeStart' /\ OneRight' /\ SuccessIsReal'
        BY <1>0, <2>2, OthersKeepRights
      <3>2. \A w \in wire' : w \in wire
               \/ \E x \in Requests : req[x].phase \in Updates /\ w = Update(req[x])
        BY <2>2 DEF DepartingStep
      <3>3. ConsentTraced' /\ LoadedHolds' /\ AnswersHold'
        BY <1>0, <2>2, <3>2, RestHolds DEF DepartingStep
      <3> QED
        BY <1>0, <3>1, <3>3 DEF IInv
    <2>3. CASE Store(r)
      <3>1. NothingBeforeStart' /\ OneRight' /\ SuccessIsReal'
        BY <1>0, <2>3, StoreKeepsRights
      <3>2. ConsentTraced' /\ LoadedHolds' /\ AnswersHold'
        BY <1>0, <2>3, StoreMoves, RestHolds
      <3> QED
        BY <1>0, <3>1, <3>2 DEF IInv
    <2>4. CASE Perform(r) \/ Fail(r)
      <3>1. NothingBeforeStart' /\ OneRight' /\ SuccessIsReal'
        BY <1>0, <2>4, DomainKeepsRights
      <3>2. /\ \A x \in Requests : x # r => req'[x] = req[x]
            /\ req'[r].key = req[r].key /\ req'[r].op = req[r].op
            /\ req'[r].phase \in {"domain"} \cup Outcomes
            /\ UNCHANGED <<row, wire, asked, told>>
        <4>1. Types
          BY DEF IInv
        <4> QED
          BY <2>4, <4>1, DomainSteps, Zenon DEF Outcomes
      <3>3. \A x \in Requests :
               \/ req'[x].phase = req[x].phase /\ req'[x] = req[x]
               \/ QuietCall(req'[x])
               \/ /\ req'[x].key = req[x].key /\ req'[x].op = req[x].op
                  /\ req'[x].phase \in {"domain"} \cup Outcomes
        BY <3>2
      <3>4. ConsentTraced' /\ LoadedHolds' /\ AnswersHold'
        BY <1>0, <3>2, <3>3, RestHolds
      <3> QED
        BY <1>0, <3>1, <3>4 DEF IInv
    <2>5. QuietStep(r) \/ DepartingStep(r) \/ Store(r) \/ Perform(r) \/ Fail(r)
      BY <1>1, QuietSteps, DepartingSteps DEF Serve, IInv
    <2> QED
      BY <2>1, <2>2, <2>3, <2>4, <2>5
  <1>2. CASE StoreLate
    <2>1. NothingBeforeStart' /\ OneRight' /\ SuccessIsReal'
      BY <1>0, <1>2, StoreLateKeepsRights
    <2>2. ConsentTraced' /\ LoadedHolds' /\ AnswersHold'
      BY <1>0, <1>2, StoreLateMoves, RestHolds
    <2> QED
      BY <1>0, <2>1, <2>2 DEF IInv
  <1>3. CASE PerformLate
    <2>1. NothingBeforeStart' /\ OneRight' /\ SuccessIsReal'
      BY <1>0, <1>3, PerformLateKeepsRights
    <2>2. ConsentTraced' /\ LoadedHolds' /\ AnswersHold'
      BY <1>0, <1>3, RestHolds DEF PerformLate
    <2> QED
      BY <1>0, <2>1, <2>2 DEF IInv
  <1>4. CASE Tick \/ ChangeTerms \/ UNCHANGED vars
    <2>1. UNCHANGED <<row, effects, req, wire, late, asked, told>>
      BY <1>4 DEF Tick, ChangeTerms, vars
    <2>2. /\ ConsentTraced' /\ LoadedHolds' /\ AnswersHold'
          /\ NothingBeforeStart' /\ OneRight' /\ SuccessIsReal'
      BY <2>1 DEF IInv, ConsentTraced, LoadedHolds, AnswersHold, NothingBeforeStart, OneRight,
         SuccessIsReal, At
    <2> QED
      BY <1>0, <2>2 DEF IInv
  <1> QED
    BY <1>1, <1>2, <1>3, <1>4 DEF Next

LEMMA InitHolds == Init => IInv
  <1> SUFFICES ASSUME Init PROVE IInv
    OBVIOUS
  <1>1. Types
    BY RestingTypes DEF Init, Types, Idle
  <1>2. NothingBeforeStart /\ OneRight /\ SuccessIsReal
    BY DEF Init, NothingBeforeStart, OneRight, SuccessIsReal, At, Outcomes, Idle, NoRow
  <1>3. ConsentTraced /\ LoadedHolds /\ AnswersHold
    BY DEF Init, ConsentTraced, LoadedHolds, AnswersHold, Idle, NoRow, IsConfirmed, Unstarted
  <1> QED
    BY <1>1, <1>2, <1>3 DEF IInv

THEOREM Invariance == Spec => []IInv
  BY InitHolds, NextKeeps, PTL DEF Spec

-----------------------------------------------------------------------------
(* What follows                                                             *)

\* Whatever calls are repeated, raced or abandoned, and whatever updates and
\* domain calls arrive late, execute runs the action of a draft at most once.
THEOREM AtMostOnce == Spec => []ExecutesAtMostOnce
  <1>1. IInv => ExecutesAtMostOnce
    BY DEF IInv, OneRight, ExecutesAtMostOnce
  <1> QED
    BY <1>1, Invariance, PTL

\* The stored status tells what was done: nothing before the claim or after a
\* cancellation, the whole action once it SUCCEEDED.
THEOREM StatusIsTrue == Spec => []StatusTellsEffect
  <1>1. IInv => StatusTellsEffect
    BY DEF IInv, NothingBeforeStart, SuccessIsReal, StatusTellsEffect, Pending, At, Unstarted
  <1> QED
    BY <1>1, Invariance, PTL

\* An outcome that execute, cancel or readback answered is the draft's for good.
THEOREM AnswersAreFinal == Spec => []AnswersHold
  <1>1. IInv => AnswersHold
    BY DEF IInv
  <1> QED
    BY <1>1, Invariance, PTL

\* No action is executed, or on its way to the domain, that the user did not ask
\* to confirm.
THEOREM ConsentHolds == Spec => []ConsentBinds
  <1>1. IInv => ConsentBinds
    <2> SUFFICES ASSUME IInv, NEW k \in Keys, effects[k] > 0 \/ Pending(k) # {}
                 PROVE  k \in asked
      BY DEF ConsentBinds
    <2>1. row[k].status \notin Unstarted
      BY DEF IInv, NothingBeforeStart, Pending, At
    <2> QED
      BY <2>1 DEF IInv, ConsentTraced
  <1> QED
    BY <1>1, Invariance, PTL

\* Only a stored claim starts the execution of a draft.
LEMMA OnlyClaimsStart ==
    ASSUME NEW u \in Messages, NEW d \in Rows, Matches(u, d),
           d.status # "EXECUTING", Applied(u, d).status = "EXECUTING"
    PROVE  u.kind = "claim" /\ u.at < d.expiresAt
  <1>1. u.kind \in Updates /\ u.at \in Int /\ d.expiresAt \in Int
    BY DEF Messages, Rows
  <1>2. u.kind # "insert"
    BY UpdateMoves
  <1>3. u.kind = "claim"
    BY <1>1, <1>2, UpdateMoves DEF Updates, StatusAfter
  <1> QED
    BY <1>1, <1>3 DEF Matches

\* Execution starts by a claim that was sent before the draft expired, also when
\* the claim arrives after its caller gave up.
THEOREM StartIsInTime == Spec => StartsInTime
  <1>1. IInv /\ [Next]_vars =>
            \A k \in Keys : Starts(k) => \E u \in Claims(k) : u.at < row[k].expiresAt
    <2> SUFFICES ASSUME IInv, [Next]_vars, NEW k \in Keys, Starts(k)
                 PROVE  \E u \in Claims(k) : u.at < row[k].expiresAt
      OBVIOUS
    <2>1. row # row' /\ row \in [Keys -> Rows]
      BY DEF Starts, IInv, Types
    <2>2. StoreLate \/ \E r \in Requests : Store(r)
      BY <2>1 DEF Next, vars, Serve, SendPrepare, Send, FindExisting, FindRaced, Load,
         LoadToCancel, Preview, Confirm, Execute, Repeat, Readback, Perform, Fail, GiveUp,
         InsertFails, PerformLate, Tick, ChangeTerms
    <2>3. PICK u \in wire \cup {Update(req[r]) : r \in Requests} :
              /\ u \in Messages /\ Matches(u, row[u.key])
              /\ row' = [row EXCEPT ![u.key] = Applied(u, row[u.key])]
      <3>1. CASE StoreLate
        <4>1. PICK u \in wire :
                  row' = [row EXCEPT ![u.key] =
                             IF Matches(u, row[u.key]) THEN Applied(u, row[u.key]) ELSE row[u.key]]
          BY <3>1 DEF StoreLate
        <4>2. Matches(u, row[u.key])
          BY <2>1, <4>1
        <4> QED
          BY <4>1, <4>2 DEF IInv, Types
      <3>2. ASSUME NEW r \in Requests, Store(r)
            PROVE  \E u \in wire \cup {Update(req[q]) : q \in Requests} :
                       /\ u \in Messages /\ Matches(u, row[u.key])
                       /\ row' = [row EXCEPT ![u.key] = Applied(u, row[u.key])]
        BY <3>2, SentIsUpdate DEF Store, IInv
      <3> QED
        BY <2>2, <3>1, <3>2
    <2>4. u.key = k
      BY <2>1, <2>3 DEF Starts
    <2>5. u.kind = "claim" /\ u.at < row[k].expiresAt
      BY <2>1, <2>3, <2>4, OnlyClaimsStart DEF Starts
    <2> QED
      BY <2>3, <2>4, <2>5 DEF Claims
  <1> QED
    BY <1>1, Invariance, PTL DEF Spec, StartsInTime

-----------------------------------------------------------------------------
(* What a draft is confirmed under                                          *)

Exists(d) == d.status # "NONE"

\* A draft is of a view the domain gave, and confirmed under no other.
GoodDraft(d) ==
    /\ d.hash \in Views \cup {NoView} /\ (Exists(d) => d.hash \in Views)
    /\ d.confirmed \in {NoView, d.hash}
    /\ d.expiresAt \in Nat

\* The view of the draft under a key.
IsViewOf(view, k, rows) == k \in Keys /\ Exists(rows[k]) /\ view = rows[k].hash

\* An update prepares a draft from a real view or confirms it under its own.
GoodUpdate(u, rows) ==
    /\ u.kind = "insert" => u.view \in Views /\ u.at \in Nat
    /\ u.kind \in {"confirm", "claim"} => IsViewOf(u.view, u.key, rows)

\* A call knows the view it prepares, or the draft it loaded.
GoodCall(q, rows) ==
    /\ q.phase = "view" => q.view \in Views
    /\ q.phase \in Updates => GoodUpdate(Update(q), rows)
    /\ Exists(q.draft) => IsViewOf(q.draft.hash, q.key, rows)

ViewsAreKept ==
    /\ \A k \in Keys : GoodDraft(row[k])
    /\ \A r \in Requests : GoodCall(req[r], row)
    /\ \A u \in wire : GoodUpdate(u, row)

\* The view of a draft is never replaced.
RowsKeepViews ==
    \A k \in Keys : /\ GoodDraft(row'[k])
                    /\ Exists(row[k]) => Exists(row'[k]) /\ row'[k].hash = row[k].hash

LEMMA AppliedKeepsView ==
    ASSUME NEW u \in Messages, NEW d \in Rows, GoodDraft(d), Matches(u, d),
           u.kind = "insert" => u.view \in Views /\ u.at \in Nat,
           u.kind \in {"confirm", "claim"} => u.view = d.hash
    PROVE  /\ GoodDraft(Applied(u, d)) /\ Exists(Applied(u, d))
           /\ Exists(d) => Applied(u, d).hash = d.hash
  <1>1. CASE u.kind = "insert"
    <2>1. Applied(u, d) = NewDraft(u) /\ ~Exists(d)
      BY <1>1 DEF Applied, Matches, Exists, NoRow
    <2>2. u.at + Lifetime \in Nat
      BY <1>1, ActionsAssumption
    <2> QED
      BY <1>1, <2>1, <2>2 DEF NewDraft, GoodDraft, Exists
  <1>2. CASE u.kind # "insert"
    <2>1. StatusAfter(u.kind) # "NONE" /\ Exists(d)
      BY <1>2 DEF Messages, Updates, StatusAfter, Matches, Exists
    <2>2. /\ Applied(u, d).status = StatusAfter(u.kind)
          /\ Applied(u, d).hash = d.hash /\ Applied(u, d).expiresAt = d.expiresAt
          /\ Applied(u, d).confirmed = IF u.kind \in {"confirm", "claim"} THEN u.view
                                       ELSE d.confirmed
      BY <1>2 DEF Applied, Rows
    <2> QED
      BY <2>1, <2>2 DEF GoodDraft, Exists
  <1> QED
    BY <1>1, <1>2

LEMMA StoredKeepsViews ==
    ASSUME Types, ViewsAreKept, NEW u \in Messages, GoodUpdate(u, row),
           row' = [row EXCEPT ![u.key] = IF Matches(u, @) THEN Applied(u, @) ELSE @]
    PROVE  RowsKeepViews
  <1>1. u.key \in Keys /\ row[u.key] \in Rows /\ GoodDraft(row[u.key])
    BY DEF Messages, Types, ViewsAreKept
  <1>2. \A k \in Keys : k # u.key => row'[k] = row[k]
    BY DEF Types
  <1>3. row'[u.key] = IF Matches(u, row[u.key]) THEN Applied(u, row[u.key]) ELSE row[u.key]
    BY <1>1 DEF Types
  <1>4. Matches(u, row[u.key]) =>
           /\ GoodDraft(Applied(u, row[u.key])) /\ Exists(Applied(u, row[u.key]))
           /\ Exists(row[u.key]) => Applied(u, row[u.key]).hash = row[u.key].hash
    BY <1>1, AppliedKeepsView DEF GoodUpdate, IsViewOf
  <1>5. \A k \in Keys : GoodDraft(row[k])
    BY DEF ViewsAreKept
  <1> QED
    BY <1>1, <1>2, <1>3, <1>4, <1>5 DEF RowsKeepViews

LEMMA KnownViewsStay ==
    ASSUME RowsKeepViews
    PROVE  /\ \A q : GoodCall(q, row) => GoodCall(q, row')
           /\ \A u : GoodUpdate(u, row) => GoodUpdate(u, row')
  <1>1. \A view, k : IsViewOf(view, k, row) => IsViewOf(view, k, row')
    BY DEF RowsKeepViews, IsViewOf
  <1>2. \A u : GoodUpdate(u, row) => GoodUpdate(u, row')
    BY <1>1 DEF GoodUpdate
  <1> QED
    BY <1>1, <1>2 DEF GoodCall

\* A step of a call that leaves the drafts alone, with what it becomes.
LEMMA CallsKeepViews ==
    ASSUME ViewsAreKept, RowsKeepViews, NEW r \in Requests,
           \A x \in Requests : x # r => req'[x] = req[x],
           GoodCall(req'[r], row'),
           wire' \subseteq wire \cup (IF req[r].phase \in Updates THEN {Update(req[r])} ELSE {})
    PROVE  ViewsAreKept'
  <1>1. \A k \in Keys : GoodDraft(row'[k])
    BY DEF RowsKeepViews
  <1>2. \A x \in Requests : GoodCall(req'[x], row')
    BY KnownViewsStay DEF ViewsAreKept
  <1>3. req[r].phase \in Updates => GoodUpdate(Update(req[r]), row)
    BY DEF ViewsAreKept, GoodCall
  <1>4. \A u \in wire' : GoodUpdate(u, row')
    BY <1>3, KnownViewsStay DEF ViewsAreKept
  <1> QED
    BY <1>1, <1>2, <1>4 DEF ViewsAreKept

LEMMA IdleIsGood == GoodCall(Idle, row')
  BY DEF Idle, NoRow, GoodCall, Exists, Updates

LEMMA PreviewedView ==
    ASSUME Types, NEW p \in Payloads
    PROVE  [payload |-> p, terms |-> terms] \in Views
  BY DEF Types, Views

LEMMA ViewsHold == Types /\ ViewsAreKept /\ [Next]_vars => ViewsAreKept'
  <1> SUFFICES ASSUME Types, ViewsAreKept, [Next]_vars PROVE ViewsAreKept'
    OBVIOUS
  <1>0. UNCHANGED row => RowsKeepViews
    BY DEF ViewsAreKept, RowsKeepViews
  <1>1. ASSUME NEW r \in Requests, NEW q, Become(r, q)
        PROVE  req'[r] = q /\ \A x \in Requests : x # r => req'[x] = req[x]
    BY <1>1 DEF Become, Types
  <1>2. ASSUME NEW r \in Requests, NEW q, Become(r, q), GoodCall(q, row'), UNCHANGED <<row, wire>>
        PROVE  ViewsAreKept'
    BY <1>0, <1>1, <1>2, CallsKeepViews
  <1>3. ASSUME NEW r \in Requests, Show(r) \/ (\E o : Tell(r, o)), UNCHANGED <<row, wire>>
        PROVE  ViewsAreKept'
    BY <1>2, <1>3, IdleIsGood DEF Show, Tell
  <1>4. ASSUME NEW r \in Requests PROVE req[r] \in Calls /\ GoodCall(req[r], row)
    BY DEF Types, ViewsAreKept
  <1>5. ASSUME NEW r \in Requests, SendPrepare(r) PROVE ViewsAreKept'
    <2>1. PICK k \in Keys, p \in Payloads :
             Become(r, [Idle EXCEPT !.op = "prepare", !.phase = "view", !.key = k,
                                    !.view = [payload |-> p, terms |-> terms]])
      BY <1>5 DEF SendPrepare
    <2> DEFINE q == [Idle EXCEPT !.op = "prepare", !.phase = "view", !.key = k,
                                 !.view = [payload |-> p, terms |-> terms]]
    <2>2. GoodCall(q, row')
      BY PreviewedView DEF Idle, NoRow, GoodCall, Exists, Updates
    <2>3. Become(r, q)
      BY <2>1
    <2> HIDE DEF q
    <2> QED
      BY <1>2, <1>5, <2>2, <2>3 DEF SendPrepare
  <1>6. ASSUME NEW r \in Requests, Send(r) PROVE ViewsAreKept'
    <2>1. PICK k \in Keys, op \in {"preview", "confirm", "cancel", "execute", "readback"},
               v \in 0 .. 2 :
             Become(r, [Idle EXCEPT !.op = op, !.phase = "load", !.key = k, !.version = v])
      BY <1>6 DEF Send, Types
    <2> DEFINE q == [Idle EXCEPT !.op = op, !.phase = "load", !.key = k, !.version = v]
    <2>2. GoodCall(q, row')
      BY DEF Idle, NoRow, GoodCall, Exists, Updates
    <2>3. Become(r, q)
      BY <2>1
    <2> HIDE DEF q
    <2> QED
      BY <1>2, <1>6, <2>2, <2>3 DEF Send
  <1>7. ASSUME NEW r \in Requests, FindExisting(r) PROVE ViewsAreKept'
    <2> DEFINE q == [req[r] EXCEPT !.phase = "insert", !.at = clock]
    <2>1. Show(r) \/ Become(r, q)
      BY <1>7, Zenon DEF FindExisting
    <2>2. req[r].phase = "view" /\ UNCHANGED <<row, wire>> /\ clock \in Nat
      BY <1>7 DEF FindExisting, Waits, Types
    <2>3. /\ q.phase = "insert" /\ q.at = clock /\ q.key = req[r].key /\ q.view = req[r].view
          /\ q.draft = req[r].draft
      BY <1>4 DEF Calls
    <2> HIDE DEF q
    <2>4. GoodCall(q, row')
      BY <1>4, <2>2, <2>3 DEF GoodCall, GoodUpdate, Update
    <2> QED
      BY <1>2, <1>3, <2>1, <2>2, <2>4
  <1>8. ASSUME NEW r \in Requests, FindRaced(r) \/ Preview(r) \/ Repeat(r) \/ Readback(r)
        PROVE  ViewsAreKept'
    BY <1>3, <1>8 DEF FindRaced, Preview, Repeat, Readback
  <1>9. ASSUME NEW r \in Requests, Load(r) \/ LoadToCancel(r) PROVE ViewsAreKept'
    <2>1. PICK p \in {"authorize", "cancel"} :
             \/ Tell(r, "CANCELLED")
             \/ Become(r, [req[r] EXCEPT !.phase = p, !.draft = row[req[r].key]])
      BY <1>9, Zenon DEF Load, LoadToCancel
    <2> DEFINE q == [req[r] EXCEPT !.phase = p, !.draft = row[req[r].key]]
    <2>2. req[r].phase = "load" /\ UNCHANGED <<row, wire>>
      BY <1>9 DEF Load, LoadToCancel, Waits
    <2>3. q.phase = p /\ q.key = req[r].key /\ q.draft = row[req[r].key] /\ q.key \in Keys
      BY <1>4, <2>2 DEF Calls, Types
    <2>5. Tell(r, "CANCELLED") \/ Become(r, q)
      BY <2>1
    <2> HIDE DEF q
    <2>4. GoodCall(q, row')
      BY <2>2, <2>3 DEF GoodCall, GoodUpdate, Update, IsViewOf
    <2> QED
      BY <1>2, <1>3, <2>2, <2>4, <2>5
  <1>10. ASSUME NEW r \in Requests, Confirm(r) \/ Execute(r) PROVE ViewsAreKept'
    <2>1. PICK p \in {"confirm", "claim"} :
             Show(r) \/ Become(r, [req[r] EXCEPT !.phase = p, !.view = Current(req[r]), !.at = clock])
      BY <1>10, Zenon DEF Confirm, Execute
    <2> DEFINE q == [req[r] EXCEPT !.phase = p, !.view = Current(req[r]), !.at = clock]
    <2>2. /\ Exists(req[r].draft) /\ Current(req[r]) = req[r].draft.hash
          /\ UNCHANGED <<row, wire>>
      BY <1>10 DEF Confirm, Execute, Authorized, Exists
    <2>3. q.phase = p /\ q.key = req[r].key /\ q.view = req[r].draft.hash /\ q.draft = req[r].draft
      BY <1>4, <2>2 DEF Calls
    <2>5. Show(r) \/ Become(r, q)
      BY <2>1
    <2> HIDE DEF q
    <2>4. GoodCall(q, row')
      BY <1>4, <2>2, <2>3 DEF GoodCall, GoodUpdate, Update
    <2> QED
      BY <1>2, <1>3, <2>2, <2>4, <2>5
  <1>11. ASSUME NEW r \in Requests, Store(r) PROVE ViewsAreKept'
    <2> DEFINE u == Update(req[r])
               d == Applied(u, row[u.key])
               q == [req[r] EXCEPT !.phase = "domain", !.draft = d]
    <2>1. /\ u \in Messages /\ GoodUpdate(u, row) /\ Matches(u, row[u.key])
          /\ u.key = req[r].key /\ u.key \in Keys
      BY <1>4, <1>11, SentIsUpdate DEF Store, GoodCall, Update, Messages
    <2>2. row' = [row EXCEPT ![u.key] = d] /\ wire' = wire
      BY <1>11 DEF Store
    <2>3. RowsKeepViews
      BY <2>1, <2>2, StoredKeepsViews
    <2>4. Become(r, Idle) \/ Become(r, q)
      BY <1>11 DEF Store, Continue, Updates, Show, Tell
    <2>5. q.phase = "domain" /\ q.key = req[r].key /\ q.draft = d
      BY <1>4 DEF Calls
    <2>6. row'[u.key] = d
      BY <2>1, <2>2 DEF Types
    <2> HIDE DEF u, d, q
    <2>7. GoodCall(q, row')
      BY <2>1, <2>5, <2>6 DEF GoodCall, IsViewOf, Updates
    <2> QED
      BY <1>1, <2>2, <2>3, <2>4, <2>7, IdleIsGood, CallsKeepViews
  <1>12. ASSUME StoreLate PROVE ViewsAreKept'
    <2>1. PICK u \in wire :
             /\ wire' = wire \ {u} /\ UNCHANGED req
             /\ row' = [row EXCEPT ![u.key] = IF Matches(u, @) THEN Applied(u, @) ELSE @]
      BY <1>12 DEF StoreLate
    <2>2. RowsKeepViews
      BY <2>1, StoredKeepsViews DEF Types, ViewsAreKept
    <2>3. \A k \in Keys : GoodDraft(row'[k])
      BY <2>2 DEF RowsKeepViews
    <2> QED
      BY <2>1, <2>2, <2>3, KnownViewsStay DEF ViewsAreKept
  <1>13. ASSUME NEW r \in Requests, Perform(r) \/ Fail(r) \/ InsertFails(r) PROVE ViewsAreKept'
    <2>1. PICK p \in {"succeed", "fail", "refind"} : Become(r, [req[r] EXCEPT !.phase = p])
      BY <1>13 DEF Perform, Fail, InsertFails, Go
    <2> DEFINE q == [req[r] EXCEPT !.phase = p]
    <2>2. /\ UNCHANGED row
          /\ wire' \subseteq wire \cup (IF req[r].phase \in Updates THEN {Update(req[r])} ELSE {})
      BY <1>13 DEF Perform, Fail, InsertFails, Sent, Updates
    <2>3. q.phase = p /\ q.key = req[r].key /\ q.draft = req[r].draft
      BY <1>4 DEF Calls
    <2>5. Become(r, q)
      BY <2>1
    <2> HIDE DEF q
    <2>4. GoodCall(q, row')
      BY <1>4, <2>2, <2>3 DEF GoodCall, GoodUpdate, Update
    <2> QED
      BY <1>0, <1>1, <2>2, <2>4, <2>5, CallsKeepViews
  <1>14. ASSUME NEW r \in Requests, GiveUp(r) PROVE ViewsAreKept'
    <2>1. /\ Become(r, Idle) /\ UNCHANGED row
          /\ wire' \subseteq wire \cup (IF req[r].phase \in Updates THEN {Update(req[r])} ELSE {})
      BY <1>14 DEF GiveUp, Sent
    <2> QED
      BY <1>0, <1>1, <2>1, IdleIsGood, CallsKeepViews
  <1>15. UNCHANGED <<row, req, wire>> => ViewsAreKept'
    BY DEF ViewsAreKept
  <1>16. PerformLate \/ Tick \/ ChangeTerms \/ UNCHANGED vars => ViewsAreKept'
    BY <1>15 DEF PerformLate, Tick, ChangeTerms, vars
  <1> QED
    BY <1>5, <1>6, <1>7, <1>8, <1>9, <1>10, <1>11, <1>12, <1>13, <1>14, <1>16 DEF Next, Serve

\* Every row is a draft of a previewed view with the types of its columns, and a
\* confirmation is under the view the draft was prepared with: the view a draft
\* was prepared with is never replaced, and confirm and the claim write the one
\* the preview was compared with.
THEOREM TypesAreRight == Spec => []TypeOK
  <1>1. Init => ViewsAreKept
    <2> SUFFICES ASSUME Init PROVE ViewsAreKept
      OBVIOUS
    <2>1. /\ \A k \in Keys : row[k] = NoRow
          /\ \A r \in Requests : req[r] = Idle
          /\ wire = {}
      BY DEF Init
    <2>2. GoodDraft(NoRow) /\ GoodCall(Idle, row)
      BY DEF GoodDraft, GoodCall, Exists, NoRow, Idle, Updates
    <2> QED
      BY <2>1, <2>2 DEF ViewsAreKept
  <1>2. Types /\ ViewsAreKept => TypeOK
    <2> SUFFICES ASSUME Types, ViewsAreKept PROVE TypeOK
      OBVIOUS
    <2>1. ASSUME NEW k \in Keys
          PROVE  row[k] \in RowTypes /\ row[k].confirmed \in {NoView, row[k].hash}
      <3>1. row[k] \in Rows /\ GoodDraft(row[k])
        BY DEF Types, ViewsAreKept
      <3>2. row[k].hash \in Views \cup {NoView} /\ row[k].confirmed \in Views \cup {NoView}
        BY <3>1 DEF GoodDraft
      <3> QED
        BY <3>1, <3>2 DEF GoodDraft, Rows, RowTypes
    <2>2. row \in [Keys -> RowTypes]
      BY <2>1 DEF Types
    <2> QED
      BY <2>1, <2>2 DEF Types, TypeOK
  <1>3. IInv => Types
    BY DEF IInv
  <1> QED
    BY <1>1, <1>2, <1>3, ViewsHold, Invariance, PTL DEF Spec
=============================================================================
