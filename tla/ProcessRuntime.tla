---------------------------- MODULE ProcessRuntime ----------------------------
(***************************************************************************)
(* The process engine: one process instance from its start to its end, the  *)
(* steps it activates, the work items people claim, hand back and complete,  *)
(* and the forks and joins in between (internal_security.start_process,      *)
(* activate_process_step, perform_process_work_item_action and the functions *)
(* of the work item kernel).                                                 *)
(*                                                                         *)
(* Every function locks the row of the instance first, and                   *)
(* activate_process_step calls itself.  A transaction is therefore a series  *)
(* of steps on a working copy, which is committed or dropped as a whole.     *)
(* What is read without the lock is the page of the user: a request carries  *)
(* the work item as it was when it was sent, and may arrive late or again.   *)
(***************************************************************************)
EXTENDS Integers, Sequences, FiniteSets, FiniteSetsExt

CONSTANTS
    Steps,             \* the step keys of the definitions
    Versions,          \* the published versions an instance can be pinned to
    Definition,        \* what each of them says
    Users,             \* employees that may be candidates
    Requests,          \* slots for actions on their way to the database
    MaxActivations,    \* bound on the activations of one step
    MaxVersion,        \* bound on expected_version of a work item
    Layouts            \* roots and depths of steps, of which WellFormed asks for one

Shared == "shared"     \* the one item of a step that is not assigned to ALL
Nobody == "nobody"
NoAction == "none"

Rounds == 1..MaxActivations
Slots == Users \cup {Shared}
StepIds == Steps \X Rounds
ItemIds == Steps \X Rounds \X Slots

Human == {"FORM", "DECISION", "ACKNOWLEDGEMENT"}
Automatic == {"AUTOMATED_COMMAND", "WAIT_UNTIL", "NOTIFICATION", "DOCUMENT_OUTPUT"}
StepTypes == Human \cup Automatic \cup {"PARALLEL_FORK", "PARALLEL_JOIN", "END"}
Actions == {"SUBMIT", "APPROVE", "REJECT", "REQUEST_CHANGES", "ACKNOWLEDGE",
            "CANCEL", "COMPLETE"}
Outcomes == {"COMPLETED", "REJECTED", "CANCELLED"}
Closed == {"COMPLETED", "REJECTED", "CANCELLED"}

\* A transition leaves its step on an action; an unsure one has a condition on
\* the data of the process.  The order of the transitions is that of the text.
Transition == [action : Actions, to : Steps, sure : BOOLEAN]
DefinitionType ==
    [start : Steps, type : [Steps -> StepTypes], mode : [Steps -> {"EXACTLY_ONE", "ANY_ONE", "ALL"}],
     outcome : [Steps -> Outcomes], out : [Steps -> Seq(Transition)]]

ASSUME RuntimeAssumption ==
    /\ IsFiniteSet(Steps) /\ IsFiniteSet(Users)
    /\ MaxActivations \in Nat \ {0}
    /\ MaxVersion \in Nat \ {0}
    /\ \A v \in Versions : Definition[v] \in DefinitionType
    /\ Layouts \subseteq [root : [Steps -> Steps], depth : [Steps -> Nat]]
    /\ Shared \notin Users /\ Nobody \notin Users
    /\ Nobody \notin Requests /\ Shared \notin Requests

VARIABLES
    db,                \* the tables of the process, as committed
    work,              \* the same within the transaction that holds the lock
    todo,              \* the steps that transaction still has to activate
    acting,            \* the request it executes; Shared is the start
    request            \* the actions that were sent

vars == <<db, work, todo, acting, request>>

NoStepRow == [status |-> "NONE", version |-> 0]
NoItem == [status |-> "NONE", claimant |-> Nobody, version |-> 0, candidates |-> {}, acted |-> 0]
NewItem(C) == [status |-> "OPEN", claimant |-> Nobody, version |-> 1, candidates |-> C, acted |-> 0]
Unsent == [phase |-> "unsent", by |-> Nobody, item |-> <<>>, seen |-> NoItem,
           seenStep |-> NoStepRow, action |-> NoAction]
NoProcess(v) == [status |-> "NONE", version |-> v,
                 step |-> [s \in StepIds |-> NoStepRow], item |-> [i \in ItemIds |-> NoItem]]

StepOf(i) == <<i[1], i[2]>>
ItemsOf(s) == {i \in ItemIds : StepOf(i) = s}
Open(p) == {i \in ItemIds : p.item[i].status \in {"OPEN", "CLAIMED"}}
Active(p) == {s \in StepIds : p.step[s].status = "ACTIVE"}
Idle == acting = Nobody
Def == Definition[work.version]
Sent == {r \in Requests : request[r].phase = "sent"}

-----------------------------------------------------------------------------
(* activate_process_step, on the working copy                                *)

\* coalesce(max(activation_number), 0) + 1
IsNextRound(p, k, n) == \A m \in Rounds : m < n <=> p.step[<<k, m>>] # NoStepRow

Incoming(d, k) ==
    {t \in UNION {{s} \X DOMAIN d.out[s] : s \in Steps} : d.out[t[1]][t[2]].to = k}

Sources(d, k) == {t[1] : t \in Incoming(d, k)}

CompletedSources(p, d, k) ==
    {s \in StepIds : s[1] \in Sources(d, k) /\ p.step[s].status = "COMPLETED"}

\* Mutant: the first branch that arrives opens the join.
JoinWaitsForOne(p, d, k) == CompletedSources(p, d, k) = {}

\* Mutant: the last branch is waited for once more.
JoinWaitsForMore(p, d, k) ==
    Cardinality(CompletedSources(p, d, k)) <= Cardinality(Incoming(d, k))

\* A join waits while fewer steps before it were completed than transitions
\* lead to it, counted over all activations.
JoinWaits(p, d, k) ==
    Cardinality(CompletedSources(p, d, k)) < Cardinality(Incoming(d, k))

\* The transitions of an action of which exactly one condition may hold.
Selectable(d, k, a) ==
    LET matching == {j \in DOMAIN d.out[k] : d.out[k][j].action = a}
    IN  {j \in matching : \A i \in matching \ {j} : ~d.out[k][i].sure}

\* The transitions a fork may follow, in their order: all that are sure, and
\* the others as their conditions hold.
Forked(d, k) ==
    {F \in SUBSET {j \in DOMAIN d.out[k] : d.out[k][j].action = "COMPLETE"} :
        \A j \in DOMAIN d.out[k] : d.out[k][j].action = "COMPLETE" /\ d.out[k][j].sure => j \in F}

InOrder(F) == {f \in [1..Cardinality(F) -> F] : \A i, j \in DOMAIN f : i < j => f[i] < f[j]}

\* Whom a step can be assigned to: resolve_process_assignment raises an error
\* when it finds nobody, or not exactly one when that is asked for.
Candidates(d, k) ==
    {C \in (SUBSET Users) \ {{}} : d.mode[k] = "EXACTLY_ONE" => Cardinality(C) = 1}

\* materialize_process_step: an item for every candidate, or one for them all.
Materialized(p, s, mode, C) ==
    [p EXCEPT !.item = [i \in ItemIds |->
        IF StepOf(i) # s THEN p.item[i]
        ELSE IF mode = "ALL" /\ i[3] \in C THEN NewItem({i[3]})
        ELSE IF mode # "ALL" /\ i[3] = Shared THEN NewItem(C)
        ELSE p.item[i]]]

PutStep(p, s, row) == [p EXCEPT !.step[s] = row]

PutItem(p, i, row) == [p EXCEPT !.item[i] = row]

\* The new row of a step, and the instance, whatever it was before.
Entered(p, s) ==
    [PutStep(p, s, [status |-> "ACTIVE", version |-> 1]) EXCEPT !.status = "RUNNING"]

Finished(p, s, status) ==
    PutStep(p, s, [status |-> status, version |-> p.step[s].version + 1])

\* Take the next step to activate, and the number of its new row.
Activating(k) ==
    /\ ~Idle /\ todo # <<>>
    /\ k = Head(todo)
    /\ UNCHANGED <<db, acting, request>>

\* A join that still has to wait is left to the branch that arrives later.
DeferJoin(k) ==
    /\ Activating(k)
    /\ Def.type[k] = "PARALLEL_JOIN" /\ JoinWaits(work, Def, k)
    /\ todo' = Tail(todo)
    /\ UNCHANGED work

ActivateHuman(k, n, C) ==
    /\ Activating(k)
    /\ Def.type[k] \in Human
    /\ IsNextRound(work, k, n)
    /\ C \in Candidates(Def, k)
    /\ LET s == <<k, n>>
       IN  work' = Materialized(Entered(work, s), s, Def.mode[k], C)
    /\ todo' = Tail(todo)

ActivateFork(k, n, f) ==
    /\ Activating(k)
    /\ Def.type[k] = "PARALLEL_FORK"
    /\ IsNextRound(work, k, n)
    /\ LET s == <<k, n>>
       IN  work' = Finished(Entered(work, s), s, "COMPLETED")
    /\ todo' = [i \in DOMAIN f |-> Def.out[k][f[i]].to] \o Tail(todo)

\* Commands, waits, notifications, outputs and open joins complete at once.
ActivateAutomatic(k, n, j) ==
    /\ Activating(k)
    /\ \/ Def.type[k] \in Automatic
       \/ Def.type[k] = "PARALLEL_JOIN" /\ ~JoinWaits(work, Def, k)
    /\ IsNextRound(work, k, n)
    /\ LET s == <<k, n>>
       IN  work' = Finished(Entered(work, s), s, "COMPLETED")
    /\ todo' = <<Def.out[k][j].to>> \o Tail(todo)

\* An end ends the instance; the other branches are left as they are.
ActivateEnd(k, n) ==
    /\ Activating(k)
    /\ Def.type[k] = "END"
    /\ IsNextRound(work, k, n)
    /\ LET s == <<k, n>>
       IN  work' = [Finished(Entered(work, s), s, Def.outcome[k]) EXCEPT !.status = Def.outcome[k]]
    /\ todo' = Tail(todo)

-----------------------------------------------------------------------------
(* Transactions                                                              *)

Init ==
    /\ \E v \in Versions : db = NoProcess(v)
    /\ work = db
    /\ todo = <<>>
    /\ acting = Nobody
    /\ request = [r \in Requests |-> Unsent]

\* start_process; a repetition finds the instance and only reads it.
StartProcess ==
    /\ Idle /\ db.status = "NONE"
    /\ work' = [db EXCEPT !.status = "RUNNING"]
    /\ todo' = <<Def.start>>
    /\ acting' = Shared
    /\ UNCHANGED <<db, request>>

\* A user acts on a work item as the page shows it; the version of the step is
\* sent along or not.  The page offers actions to the claimant only (canAct).
SendAction(r, u, i, a, row) ==
    /\ request[r].phase = "unsent"
    /\ db.item[i].status = "CLAIMED" /\ db.item[i].claimant = u
    /\ Selectable(Def, i[1], a) # {}
    /\ row \in {db.step[StepOf(i)], NoStepRow}
    /\ request' = [request EXCEPT ![r] =
           [phase |-> "sent", by |-> u, item |-> i, seen |-> db.item[i],
            seenStep |-> row, action |-> a]]
    /\ UNCHANGED <<db, work, todo, acting>>

\* Nobody repeats the request any more, and no copy of it is under way.
Forget(r) ==
    /\ r \in Sent /\ acting # r
    /\ request' = [request EXCEPT ![r] = Unsent]
    /\ UNCHANGED <<db, work, todo, acting>>

\* Every update of an item raises its version.
Moved(it, status, who) ==
    [status |-> status, claimant |-> who, version |-> it.version + 1,
     candidates |-> it.candidates, acted |-> it.acted]

ClaimedBy(it, u) == Moved(it, "CLAIMED", u)

Reopened(it) == Moved(it, "OPEN", Nobody)

\* The item when its action is done, with the event that says so.
CompletedItem(it) == [Moved(it, "COMPLETED", it.claimant) EXCEPT !.acted = @ + 1]

\* Mutant: items that are claimed do not count.
UnclaimedLeft(p, i) == {j \in ItemsOf(StepOf(i)) \ {i} : p.item[j].status = "OPEN"}

\* What is left of a step that all candidates have to complete.
Remaining(p, i) ==
    {j \in ItemsOf(StepOf(i)) \ {i} : p.item[j].status \notin {"NONE", "COMPLETED", "CANCELLED"}}

StepOutcome(a) ==
    CASE a = "REJECT" -> "REJECTED" [] a = "CANCEL" -> "CANCELLED" [] OTHER -> "COMPLETED"

\* Mutant: the version of the page is not compared.
MayActUnseen(p, q) ==
    /\ p.status = "RUNNING"
    /\ p.step[StepOf(q.item)].status = "ACTIVE"
    /\ p.item[q.item].status = "CLAIMED" /\ p.item[q.item].claimant = q.by
    /\ q.by \in p.item[q.item].candidates

\* The checks of perform_process_work_item_action, after the look for the key.
MayAct(p, q) ==
    /\ p.status = "RUNNING"
    /\ p.step[StepOf(q.item)].status = "ACTIVE"
    /\ p.item[q.item].version = q.seen.version
    /\ q.seenStep = NoStepRow \/ p.step[StepOf(q.item)].version = q.seenStep.version
    /\ p.item[q.item].status = "CLAIMED" /\ p.item[q.item].claimant = q.by
    /\ q.by \in p.item[q.item].candidates

Partly(p, i) ==
    LET s == StepOf(i)
    IN  PutStep(PutItem(p, i, CompletedItem(p.item[i])), s,
                [status |-> p.step[s].status, version |-> p.step[s].version + 1])

Wholly(p, i, a) ==
    Finished(PutItem(p, i, CompletedItem(p.item[i])), StepOf(i), StepOutcome(a))

\* One of several people who all have to act.
PerformPart(r, j) ==
    LET q == request[r] IN
    /\ Idle /\ q.phase = "sent"
    /\ MayAct(db, q)
    /\ j \in Selectable(Def, q.item[1], q.action)
    /\ Def.mode[q.item[1]] = "ALL" /\ Remaining(db, q.item) # {}
    /\ work' = Partly(db, q.item)
    /\ todo' = <<>>
    /\ acting' = r
    /\ UNCHANGED <<db, request>>

\* The action that completes its step and activates the next one.
PerformLast(r, j) ==
    LET q == request[r] IN
    /\ Idle /\ q.phase = "sent"
    /\ MayAct(db, q)
    /\ j \in Selectable(Def, q.item[1], q.action)
    /\ Def.mode[q.item[1]] = "ALL" => Remaining(db, q.item) = {}
    /\ work' = Wholly(db, q.item, q.action)
    /\ todo' = <<Def.out[q.item[1]][j].to>>
    /\ acting' = r
    /\ UNCHANGED <<db, request>>

\* The event with the idempotency key is written last: from now on repetitions
\* of the request are answered from it and do nothing.
Commit ==
    /\ ~Idle /\ todo = <<>>
    /\ db' = work
    /\ acting' = Nobody
    /\ request' = IF acting \in Requests
                  THEN [request EXCEPT ![acting] = Unsent] ELSE request
    /\ UNCHANGED <<work, todo>>

\* An exception (no or several transitions match, nobody can be assigned) or a
\* lost connection leaves nothing behind.
Abort ==
    /\ ~Idle
    /\ work' = db
    /\ todo' = <<>>
    /\ acting' = Nobody
    /\ UNCHANGED <<db, request>>

-----------------------------------------------------------------------------
(* The kernel of work items.  These look neither at the instance nor at the   *)
(* step, only at the item and its version.  A call with another version is    *)
(* refused.                                                                   *)

Set(i, it) ==
    /\ Idle /\ it.version <= MaxVersion
    /\ db' = PutItem(db, i, it)
    /\ work' = db'
    /\ UNCHANGED <<todo, acting, request>>

Claim(u, i) ==
    /\ db.item[i].status = "OPEN"
    /\ u \in db.item[i].candidates
    /\ Set(i, ClaimedBy(db.item[i], u))

\* By the claimant, or by somebody with the right to reassign.
Release(i) ==
    /\ db.item[i].status = "CLAIMED"
    /\ Set(i, Reopened(db.item[i]))

\* To another candidate, who still has to claim it.
Reassign(i) ==
    /\ db.item[i].status \in {"OPEN", "CLAIMED"}
    /\ Set(i, Reopened(db.item[i]))

Next ==
    \/ StartProcess
    \/ \E k \in Steps : DeferJoin(k)
    \/ \E k \in Steps, n \in Rounds :
          \/ ActivateEnd(k, n)
          \/ \E C \in Candidates(Def, k) : ActivateHuman(k, n, C)
          \/ \E F \in Forked(Def, k) : \E f \in InOrder(F) : ActivateFork(k, n, f)
          \/ \E j \in Selectable(Def, k, "COMPLETE") : ActivateAutomatic(k, n, j)
    \/ \E r \in Requests, u \in Users, i \in ItemIds, a \in Actions :
           \E row \in {db.step[StepOf(i)], NoStepRow} : SendAction(r, u, i, a, row)
    \/ \E r \in Requests : Forget(r)
    \/ \E r \in Sent : \E j \in Selectable(Def, request[r].item[1], request[r].action) :
           PerformPart(r, j) \/ PerformLast(r, j)
    \/ Commit
    \/ Abort
    \/ \E i \in ItemIds : Release(i) \/ Reassign(i)
    \/ \E u \in Users, i \in ItemIds : Claim(u, i)

Spec == Init /\ [][Next]_vars

-----------------------------------------------------------------------------
(* Properties                                                                *)

StepRow == [status : {"NONE", "ACTIVE"} \cup Closed, version : Nat]
ItemRow == [status : {"NONE", "OPEN", "CLAIMED", "COMPLETED"}, claimant : Users \cup {Nobody},
            version : Nat, candidates : SUBSET Users, acted : Nat]
Process == [status : {"NONE", "RUNNING"} \cup Outcomes, version : Versions,
            step : [StepIds -> StepRow], item : [ItemIds -> ItemRow]]

\* Types, and outside a transaction the working copy is what was committed.
TypeOK ==
    /\ db \in Process /\ work \in Process
    /\ todo \in Seq(Steps)
    /\ acting \in Requests \cup {Nobody, Shared}
    /\ request \in [Requests ->
           [phase : {"unsent", "sent"}, by : Users \cup {Nobody}, item : ItemIds \cup {<<>>},
            seen : ItemRow, seenStep : StepRow, action : Actions \cup {NoAction}]]
    /\ Idle => work = db /\ todo = <<>>

\* A step under way leaves somebody with work and a step that is over leaves
\* nobody with work, and every item that was completed was acted on once,
\* however often requests are repeated, raced and rolled back
\* (perform_process_work_item_action, materialize_process_step).
StepsMatchItems ==
    /\ \A s \in StepIds : s \in Active(db) <=> Open(db) \cap ItemsOf(s) # {}
    /\ \A i \in ItemIds : db.item[i].acted = IF db.item[i].status = "COMPLETED" THEN 1 ELSE 0

\* An action takes effect only on the item its user saw, and on the step if the
\* page sent its version along: whatever happened since is noticed (the
\* comparison of expected_version and the versions every function raises).
ActsOnWhatWasSeen ==
    [][\A r \in Requests : acting = r /\ db' # db =>
           LET q == request[r] IN
           /\ db.item[q.item] = q.seen
           /\ q.seenStep \in {NoStepRow, db.step[StepOf(q.item)]}]_vars

\* An instance that ended stays as it ended and activates nothing more, also
\* when other branches still have open items (the status check of
\* perform_process_work_item_action against the status that
\* activate_process_step sets without a check).
EndedForGood ==
    [][db.status \in Outcomes => db'.status = db.status /\ db'.step = db.step]_vars

\* A join that opened n times saw each of its branches completed n times.
JoinFollowsItsBranches ==
    \A k \in Steps : Definition[db.version].type[k] = "PARALLEL_JOIN" =>
        \A b \in Sources(Definition[db.version], k) :
            Cardinality({n \in Rounds : db.step[<<k, n>>] # NoStepRow})
                <= Cardinality({n \in Rounds : db.step[<<b, n>>].status = "COMPLETED"})

Joins(d) == {k \in Steps : d.type[k] = "PARALLEL_JOIN"}

\* U leads to the joins, and a step of U is entered once: from one step, and by
\* one transition if that is a fork.  A fork does not lead straight to a join.
EnteredOnce(d, U) ==
    /\ \A k \in Joins(d) \cup U : Sources(d, k) \subseteq U
    /\ \A k \in U \ Joins(d) :
          /\ k = d.start => Incoming(d, k) = {}
          /\ \A e, f \in Incoming(d, k) :
                e[1] = f[1] /\ (d.type[e[1]] = "PARALLEL_FORK" => e = f)
    /\ \A k \in Joins(d) : \A b \in Sources(d, k) : d.type[b] # "PARALLEL_FORK"

\* The definitions whose joins do what they say.
WellJoined(d) == \E U \in SUBSET Steps : EnteredOnce(d, U)

\* A step that can only be completed, not rejected or cancelled.
Affirms(d, b) ==
    /\ d.type[b] # "END"
    /\ \A j \in DOMAIN d.out[b] : d.out[b][j].action \notin {"REJECT", "CANCEL"}

SureBranch(d, b, j) == d.out[b][j].action = "COMPLETE" /\ d.out[b][j].sure

\* Once b is completed, k is activated, whatever the data say.
LeadsOn(d, b, k) ==
    IF d.type[b] = "PARALLEL_FORK"
    THEN \E j \in DOMAIN d.out[b] : SureBranch(d, b, j) /\ d.out[b][j].to = k
    ELSE \A j \in DOMAIN d.out[b] : d.out[b][j].to = k

\* The steps that are completed whenever their root was.
Bound(d, root) == {k \in Steps : root[k] # k}

\* Every fork goes on, and the branches of a join come from one root: from there
\* each leads on to the join, and nothing else enters it.
Rejoins(d, root, depth) ==
    /\ d.start \notin Joins(d) \cup Bound(d, root)
    /\ \A k \in Steps : d.type[k] = "PARALLEL_FORK" => \E j \in DOMAIN d.out[k] : SureBranch(d, k, j)
    /\ \A k \in Joins(d) :
          /\ \A e, f \in Incoming(d, k) : e[1] = f[1] => e = f
          /\ \A b, c \in Sources(d, k) : root[b] = root[c]
    /\ \A k \in Joins(d) \cup Bound(d, root) : \A b \in Sources(d, k) :
          Affirms(d, b) /\ LeadsOn(d, b, k)
    /\ \A k \in Bound(d, root) :
          /\ Affirms(d, k) /\ Sources(d, k) # {}
          /\ k \notin Joins(d) => \A b, c \in Sources(d, k) : b = c
          /\ \A b \in Sources(d, k) : root[b] = root[k] /\ depth[b] < depth[k]

\* The definitions whose processes go on to an end.
WellFormed(d) == \E l \in Layouts : Rejoins(d, l.root, l.depth)

GoingVersions == {v \in Versions : WellFormed(Definition[v])}

\* Where branches rejoin, an instance that is RUNNING has a work item somebody can
\* act on, through every race, repetition and rollback.  The compiler accepts other
\* definitions too: a branch that is rejected or cancelled, or not taken, before a
\* join leaves an instance RUNNING at a join that nobody will complete
\* (activate_process_step counts completed steps, and nothing ends the instance).
RunningHasWork ==
    db.status = "RUNNING" /\ db.version \in GoingVersions => Open(db) # {}
=============================================================================
