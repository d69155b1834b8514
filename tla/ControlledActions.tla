--------------------------- MODULE ControlledActions ---------------------------
(***************************************************************************)
(* Actions an assistant prepares and a user confirms before they are        *)
(* executed: lib/controlled-actions/service.ts, over ai_action_drafts.       *)
(*                                                                         *)
(* The drafts are those of one owner; a draft is named by its idempotency    *)
(* key, which is unique.  A view is what the preview hash is taken of: the   *)
(* payload and the terms (rights, goal, balance) as the domain gives them.   *)
(* A hash stands for the view it is taken of; the one hash of a draft that    *)
(* callers can name is the stored one, which every answer carries.           *)
(***************************************************************************)
EXTENDS Integers, FiniteSets

CONSTANTS
    Keys,        \* idempotency keys
    Payloads,    \* what may be asked for
    Terms,       \* what a preview may find in the domain
    Requests,    \* calls of the service under way at once
    Lifetime,    \* how long a draft can be confirmed and executed (15 minutes)
    MaxClock,    \* bound on the instants at which something happens
    MaxWire      \* bound on the updates without a sender at a time

ASSUME ActionsAssumption ==
    /\ Lifetime \in Nat \ {0}
    /\ {MaxClock, MaxWire} \subseteq Nat

VARIABLES
    clock,
    terms,       \* what a preview finds now
    row,         \* ai_action_drafts
    effects,     \* how often the domain executed a draft's action
    req,         \* calls of the service
    wire,        \* storage updates whose sender no longer waits for them
    late,        \* drafts with a domain call whose caller no longer waits for it
    shown,       \* drafts the user was shown a preview of
    asked,       \* drafts the user asked to confirm
    told         \* outcomes the user was told, by draft

vars == <<clock, terms, row, effects, req, wire, late, shown, asked, told>>

Views == [payload : Payloads, terms : Terms]
NoView == [payload |-> "none", terms |-> "none"]
Statuses == {"NONE", "AWAITING_CONFIRMATION", "EXECUTING", "SUCCEEDED", "FAILED",
             "CANCELLED"}

NoRow == [status |-> "NONE", version |-> 0, hash |-> NoView, expiresAt |-> 0,
          confirmed |-> NoView, confirmedFrom |-> 0]
Idle == [op |-> "none", phase |-> "idle", key |-> "none", view |-> NoView,
         version |-> 0, draft |-> NoRow, at |-> 0]

IsConfirmed(d) == d.confirmed # NoView

-----------------------------------------------------------------------------
(* Storage                                                                  *)

\* A storage update as it is sent.
Update(q) == [kind |-> q.phase, key |-> q.key, version |-> q.draft.version,
              view |-> q.view, at |-> q.at]

Updates == {"insert", "confirm", "cancel", "claim", "succeed", "fail"}

\* Mutant: updates find their draft by its id.
MatchesById(u, d) == IF u.kind = "insert" THEN d = NoRow ELSE d # NoRow

\* Mutant: the claim leaves the expiry to the check before it.
MatchesExpired(u, d) ==
    IF u.kind = "insert" THEN d = NoRow
    ELSE /\ d.version = u.version
         /\ d.status = IF u.kind \in {"succeed", "fail"} THEN "EXECUTING"
                                                         ELSE "AWAITING_CONFIRMATION"
         /\ u.kind = "confirm" => ~IsConfirmed(d) /\ d.expiresAt > u.at
         /\ u.kind = "claim" => IsConfirmed(d)

\* The conditions of an update on the draft it is for.
Matches(u, d) ==
    IF u.kind = "insert" THEN d = NoRow
    ELSE /\ d.version = u.version
         /\ d.status = IF u.kind \in {"succeed", "fail"} THEN "EXECUTING"
                                                         ELSE "AWAITING_CONFIRMATION"
         /\ u.kind = "confirm" => ~IsConfirmed(d)
         /\ u.kind = "claim" => IsConfirmed(d)
         /\ u.kind \in {"confirm", "claim"} => d.expiresAt > u.at

\* Mutant: a new draft counts as confirmed.
ConfirmedDraft(u) == [status |-> "AWAITING_CONFIRMATION", version |-> 1, hash |-> u.view,
                      expiresAt |-> u.at + Lifetime, confirmed |-> u.view,
                      confirmedFrom |-> 0]

NewDraft(u) == [status |-> "AWAITING_CONFIRMATION", version |-> 1, hash |-> u.view,
                expiresAt |-> u.at + Lifetime, confirmed |-> NoView, confirmedFrom |-> 0]

StatusAfter(kind) ==
    CASE kind = "confirm" -> "AWAITING_CONFIRMATION"
      [] kind = "cancel" -> "CANCELLED"
      [] kind = "claim" -> "EXECUTING"
      [] kind = "succeed" -> "SUCCEEDED"
      [] kind = "fail" -> "FAILED"

\* The draft after an update that matched.
Applied(u, d) ==
    IF u.kind = "insert" THEN NewDraft(u)
    ELSE [d EXCEPT !.status = StatusAfter(u.kind), !.version = u.version + 1,
                   !.confirmed = IF u.kind \in {"confirm", "claim"} THEN u.view ELSE @,
                   !.confirmedFrom = IF u.kind = "confirm" THEN u.version ELSE @]

-----------------------------------------------------------------------------
(* The service                                                              *)

Init ==
    /\ clock = 0
    /\ terms \in Terms
    /\ row = [k \in Keys |-> NoRow]
    /\ effects = [k \in Keys |-> 0]
    /\ req = [r \in Requests |-> Idle]
    /\ wire = {} /\ late = {} /\ shown = {} /\ asked = {}
    /\ told = [k \in Keys |-> {}]

Become(r, q) == req' = [req EXCEPT ![r] = q]
Go(r, phase) == Become(r, [req[r] EXCEPT !.phase = phase])
\* The answer shows a draft with a preview, which may be the caller's own.
Show(r) ==
    /\ shown' = shown \cup {req[r].key}
    /\ Become(r, Idle)
    /\ UNCHANGED told
\* The answer reports an outcome.
Tell(r, outcome) ==
    /\ told' = [told EXCEPT ![req[r].key] = @ \cup {outcome}]
    /\ Become(r, Idle)
    /\ UNCHANGED shown

Waits(r, ops, phase) == req[r].op \in ops /\ req[r].phase = phase

SendPrepare(r) ==
    /\ req[r] = Idle
    /\ \E k \in Keys, p \in Payloads :
          Become(r, [Idle EXCEPT !.op = "prepare", !.phase = "view", !.key = k,
                                 !.view = [payload |-> p, terms |-> terms]])
    /\ UNCHANGED <<clock, terms, row, effects, wire, late, shown, asked, told>>

\* The user asks for something with a draft that was shown before; confirm and
\* execute name the version they expect.
Send(r) ==
    /\ req[r] = Idle
    /\ \E k \in shown,
          op \in {"preview", "confirm", "cancel", "execute", "readback"}, v \in 0 .. 2 :
          /\ v # 0 <=> op \in {"confirm", "execute"}
          /\ Become(r, [Idle EXCEPT !.op = op, !.phase = "load", !.key = k, !.version = v])
          /\ asked' = IF op = "confirm" THEN asked \cup {k} ELSE asked
    /\ UNCHANGED <<clock, terms, row, effects, wire, late, shown, told>>

\* prepare: the key is looked up; what it finds must have been prepared from
\* the same payload and have the same preview.
FindExisting(r) ==
    LET q == req[r]  d == row[q.key]
    IN /\ Waits(r, {"prepare"}, "view")
       /\ \/ /\ d = NoRow
             /\ Become(r, [q EXCEPT !.phase = "insert", !.at = clock])
             /\ UNCHANGED <<shown, told>>
          \/ d # NoRow /\ d.hash = q.view /\ Show(r)
       /\ UNCHANGED <<clock, terms, row, effects, wire, late, asked>>

\* prepare: the insert failed; of what the key finds only the payload is
\* compared.
FindRaced(r) ==
    LET q == req[r]  d == row[q.key]
    IN /\ Waits(r, {"prepare"}, "refind")
       /\ d # NoRow /\ d.hash.payload = q.view.payload
       /\ Show(r)
       /\ UNCHANGED <<clock, terms, row, effects, wire, late, asked>>

\* What a call checks of the draft it loaded before it asks the domain.
Acceptable(q, d) ==
    CASE q.op \in {"preview", "confirm"} ->
            d.expiresAt > clock /\ d.status \notin {"CANCELLED", "FAILED"}
      [] q.op = "execute" ->
            \/ d.status = "SUCCEEDED"
            \/ /\ d.status = "AWAITING_CONFIRMATION" /\ IsConfirmed(d)
               /\ d.version = q.version /\ d.expiresAt > clock
      [] q.op = "readback" -> TRUE
      [] OTHER -> FALSE

Load(r) ==
    LET q == req[r]  d == row[q.key]
    IN /\ q.phase = "load"
       /\ Acceptable(q, d)
       /\ Become(r, [q EXCEPT !.phase = "authorize", !.draft = d])
       /\ UNCHANGED <<clock, terms, row, effects, wire, late, shown, asked, told>>

LoadToCancel(r) ==
    LET q == req[r]  d == row[q.key]
    IN /\ Waits(r, {"cancel"}, "load")
       /\ \/ d.status = "CANCELLED" /\ Tell(r, "CANCELLED")
          \/ /\ d.status = "AWAITING_CONFIRMATION"
             /\ Become(r, [q EXCEPT !.phase = "cancel", !.draft = d])
             /\ UNCHANGED <<shown, told>>
       /\ UNCHANGED <<clock, terms, row, effects, wire, late, asked>>

\* The domain's preview of the loaded draft; it must be the stored one.
Current(q) == [payload |-> q.draft.hash.payload, terms |-> terms]

\* Mutant: the preview is not compared with the stored one.
AuthorizedUnderAny(r, ops) == Waits(r, ops, "authorize")

Authorized(r, ops) == Waits(r, ops, "authorize") /\ Current(req[r]) = req[r].draft.hash

Preview(r) ==
    /\ Authorized(r, {"preview"})
    /\ Show(r)
    /\ UNCHANGED <<clock, terms, row, effects, wire, late, asked>>

Confirm(r) ==
    LET q == req[r]  d == q.draft
    IN /\ Authorized(r, {"confirm"})
       /\ d.status = "AWAITING_CONFIRMATION"
       /\ \/ IsConfirmed(d) /\ d.confirmedFrom = q.version /\ Show(r)
          \/ /\ ~IsConfirmed(d) /\ d.version = q.version
             /\ Become(r, [q EXCEPT !.phase = "confirm", !.view = Current(q), !.at = clock])
             /\ UNCHANGED <<shown, told>>
       /\ UNCHANGED <<clock, terms, row, effects, wire, late, asked>>

Execute(r) ==
    LET q == req[r]  d == q.draft
    IN /\ Authorized(r, {"execute"})
       /\ d.status = "AWAITING_CONFIRMATION"
       /\ d.confirmed = Current(q)
       /\ Become(r, [q EXCEPT !.phase = "claim", !.view = Current(q), !.at = clock])
       /\ UNCHANGED <<clock, terms, row, effects, wire, late, shown, asked, told>>

\* execute of what was executed: the same confirmation gets the readback.
Repeat(r) ==
    LET q == req[r]  d == q.draft
    IN /\ Authorized(r, {"execute"})
       /\ d.status = "SUCCEEDED"
       /\ q.version = d.confirmedFrom + 1 /\ d.confirmed = d.hash
       /\ Tell(r, "SUCCEEDED")
       /\ UNCHANGED <<clock, terms, row, effects, wire, late, asked>>

Readback(r) ==
    LET d == req[r].draft
    IN /\ Authorized(r, {"readback"})
       /\ IF d.status = "SUCCEEDED" THEN Tell(r, "SUCCEEDED") ELSE Show(r)
       /\ UNCHANGED <<clock, terms, row, effects, wire, late, asked>>

-----------------------------------------------------------------------------
(* Updates and the domain call                                              *)

\* What a call does with the draft its update returns.
Continue(r, d) ==
    CASE req[r].phase = "insert" -> Show(r)
      [] req[r].phase = "confirm" -> Show(r)
      [] req[r].phase = "claim" ->
            Become(r, [req[r] EXCEPT !.phase = "domain", !.draft = d]) /\ UNCHANGED <<shown, told>>
      [] req[r].phase = "cancel" -> Tell(r, "CANCELLED")
      [] req[r].phase = "succeed" -> Tell(r, "SUCCEEDED")
      [] req[r].phase = "fail" -> Tell(r, "FAILED")

Store(r) ==
    LET u == Update(req[r])  d == Applied(u, row[u.key])
    IN /\ req[r].phase \in Updates
       /\ Matches(u, row[u.key])
       /\ row' = [row EXCEPT ![u.key] = d]
       /\ Continue(r, d)
       /\ UNCHANGED <<clock, terms, effects, wire, late, asked>>

\* An update whose sender gave up.
StoreLate ==
    \E u \in wire :
        /\ wire' = wire \ {u}
        /\ row' = [row EXCEPT ![u.key] = IF Matches(u, @) THEN Applied(u, @) ELSE @]
        /\ UNCHANGED <<clock, terms, effects, req, late, shown, asked, told>>

Execution(k) == effects' = [effects EXCEPT ![k] = @ + 1]

Perform(r) ==
    /\ req[r].phase = "domain"
    /\ Execution(req[r].key)
    /\ Go(r, "succeed")
    /\ UNCHANGED <<clock, terms, row, wire, late, shown, asked, told>>

\* The domain service throws an error of its own: it refused, or the error of
\* its database call, which may still execute, was wrapped.
Fail(r) ==
    /\ req[r].phase = "domain"
    /\ late' \in {late, late \cup {req[r].key}}
    /\ Go(r, "fail")
    /\ UNCHANGED <<clock, terms, row, effects, wire, shown, asked, told>>

PerformLate ==
    \E k \in late :
        /\ late' = late \ {k}
        /\ Execution(k)
        /\ UNCHANGED <<clock, terms, row, req, wire, shown, asked, told>>

\* The ways in which what a call sent may still be under way.
Sent(q) == IF Cardinality(wire) < MaxWire THEN {wire \cup {Update(q)}} ELSE {}

\* A call ends without a result: a check failed, a read or a write broke, the
\* process died.  What it sent may still execute.
GiveUp(r) ==
    LET q == req[r]
    IN /\ q # Idle
       /\ wire' \in {wire} \cup (IF q.phase \in Updates THEN Sent(q) ELSE {})
       /\ late' \in {late} \cup (IF q.phase = "domain" THEN {late \cup {q.key}} ELSE {})
       /\ Become(r, Idle)
       /\ UNCHANGED <<clock, terms, row, effects, shown, asked, told>>

\* The insert broke, whether or not it took place: prepare looks again.
InsertFails(r) ==
    /\ req[r].phase = "insert"
    /\ wire' \in {wire} \cup Sent(req[r])
    /\ Go(r, "refind")
    /\ UNCHANGED <<clock, terms, row, effects, late, shown, asked, told>>

Tick ==
    /\ clock < MaxClock /\ clock' = clock + 1
    /\ UNCHANGED <<terms, row, effects, req, wire, late, shown, asked, told>>

\* Others change rights, goals and balances.
ChangeTerms ==
    /\ terms' \in Terms \ {terms}
    /\ UNCHANGED <<clock, row, effects, req, wire, late, shown, asked, told>>

Serve(r) ==
    \/ SendPrepare(r) \/ Send(r) \/ FindExisting(r) \/ FindRaced(r) \/ Load(r)
    \/ LoadToCancel(r) \/ Preview(r) \/ Confirm(r) \/ Execute(r) \/ Repeat(r)
    \/ Readback(r) \/ Store(r) \/ Perform(r) \/ Fail(r) \/ GiveUp(r) \/ InsertFails(r)

Next ==
    \/ \E r \in Requests : Serve(r)
    \/ StoreLate \/ PerformLate \/ Tick \/ ChangeTerms

Spec == Init /\ [][Next]_vars

-----------------------------------------------------------------------------
(* Properties                                                               *)

RowTypes == [status : Statuses, version : Nat, hash : Views \cup {NoView},
             expiresAt : Nat, confirmed : Views \cup {NoView}, confirmedFrom : Nat]

\* Types; a draft is confirmed under the view it was prepared with.
TypeOK ==
    /\ clock \in Nat /\ terms \in Terms
    /\ row \in [Keys -> RowTypes]
    /\ effects \in [Keys -> Nat]
    /\ \A k \in Keys : row[k].confirmed \in {NoView, row[k].hash}
    /\ late \subseteq Keys

\* A call that is claimed and not yet executed.
Pending(k) == {r \in Requests : req[r].key = k /\ req[r].phase = "domain"}

\* The domain executes a draft's action at most once, whoever repeats what and
\* whatever arrives late.
ExecutesAtMostOnce == \A k \in Keys : effects[k] <= 1

\* A draft that is still to be confirmed or executed, or was cancelled, did
\* nothing and nothing of it is under way; one that SUCCEEDED did its action.
StatusTellsEffect ==
    \A k \in Keys :
        /\ row[k].status \in {"NONE", "AWAITING_CONFIRMATION", "CANCELLED"}
              => effects[k] = 0 /\ Pending(k) = {} /\ k \notin late
        /\ row[k].status = "SUCCEEDED" => effects[k] = 1

\* What a user was told of a draft stays so: nobody is told two outcomes, and
\* the draft has the outcome that was told.
AnswersHold ==
    \A k \in Keys : \A outcome \in told[k] : row[k].status = outcome

\* Nothing is executed that the user did not ask to confirm.
ConsentBinds ==
    \A k \in Keys : effects[k] > 0 \/ Pending(k) # {} => k \in asked

Claims(k) == {u \in wire \cup {Update(req[r]) : r \in Requests} :
                 u.kind = "claim" /\ u.key = k}
Starts(k) == row[k].status # "EXECUTING" /\ row'[k].status = "EXECUTING"

\* Execution starts by a claim that was sent before the draft expired, also
\* when the draft expired after the call had checked it.
StartsInTime ==
    [][\A k \in Keys : Starts(k) => \E u \in Claims(k) : u.at < row[k].expiresAt]_vars
=============================================================================
