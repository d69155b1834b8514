---------------------------- MODULE AiInvocation ----------------------------
(***************************************************************************)
(* One AI invocation from the HTTP request to its audit record: the         *)
(* orchestrator (lib/ai/orchestrator.ts) drives a row of ai_invocations     *)
(* through its state machine with one database call per step, the credit    *)
(* functions settle or release the reservation together with the row, and   *)
(* the durable recovery of 20260928072242 finishes what was interrupted.    *)
(*                                                                         *)
(* A request may stop at any step (the server function is killed), lose a    *)
(* reply, or give up on a call the database still executes later.           *)
(***************************************************************************)
EXTENDS Integers

CONSTANTS
    Requests,         \* calls of runAiInvocation
    Keys,             \* idempotency keys, one row of ai_invocations each
    KeyOf,            \* the key a request carries
    Fingerprint,      \* buildAiRequestFingerprint of a request
    Units,            \* charge of the invocation, from the credit catalog
    Legacy,           \* keys whose row an earlier release left interrupted
    Faults            \* may requests die and calls fail, lag or lose replies?

ASSUME InvocationAssumption ==
    /\ KeyOf \in [Requests -> Keys]
    /\ Units \in [Keys -> Nat \ {0}]
    /\ Legacy \subseteq Keys
    /\ Faults \in BOOLEAN

VARIABLES
    row,              \* ai_invocations, by key
    reservation,      \* status of the key's row in ai_credit_reservations
    audit,            \* ai_business_audit, at most one row per invocation
    pc,               \* where a request's run of the orchestrator is
    doubt,            \* the transition a request has to read back
    answer,           \* what the request told its caller
    late,             \* calls given up by their request, still to execute
    executions        \* times the provider was called for a key

vars == <<row, reservation, audit, pc, doubt, answer, late, executions>>

Fingerprints == {Fingerprint[r] : r \in Requests}
Running == {"RECEIVED", "AUTHORIZED", "RESERVING", "CONTEXT_LOADING",
            "EXECUTING", "VALIDATING", "SETTLING", "RELEASING"}
Terminal == {"SUCCEEDED", "FAILED", "REJECTED"}
Reasons == {"CONTEXT_FAILED", "PROVIDER_FAILED", "INVALID_RESULT", "INTERNAL_FAILURE"}
Results == {"PENDING", "VALIDATED", "NOT_AVAILABLE", "INVALID", "FAILED"}

Row == [status : Running \cup Terminal \cup {"ABSENT"}, result : Results,
        charged : Nat, reason : Reasons \cup {"NONE"},
        auditStatus : {"PENDING", "RECORDED"}, fingerprint : Fingerprints \cup {"NONE"}]

AbsentRow == [status |-> "ABSENT", result |-> "PENDING", charged |-> 0,
              reason |-> "NONE", auditStatus |-> "PENDING", fingerprint |-> "NONE"]
NoAudit == [status |-> "NONE", charged |-> 0]
NoDoubt == [row |-> AbsentRow, stamped |-> FALSE, next |-> "done"]

Steps == {"lookup", "insert", "gates", "month", "reserve", "refused", "reserved",
          "load", "lease", "execute", "executed", "validate", "usage", "settle",
          "unsettled", "settled", "release", "released", "confirm", "done"} \cup Terminal
Answers == {"NONE", "DUPLICATE", "DUPLICATE_IN_FLIGHT",
            "IDEMPOTENCY_KEY_REUSED", "CREDITS_UNAVAILABLE",
            "INTERNAL_CONFIGURATION_ERROR", "CRASHED"} \cup Terminal
Calls == [op : {"RESERVE", "SETTLE", "RELEASE"}, key : Keys, reason : Reasons \cup {"NONE"}]

Stop(r, a) ==
    /\ pc' = [pc EXCEPT ![r] = "done"]
    /\ answer' = [answer EXCEPT ![r] = a]

Goto(r, step) ==
    /\ pc' = [pc EXCEPT ![r] = step]
    /\ UNCHANGED answer

-----------------------------------------------------------------------------
(* The database functions *)

\* reserve_ai_credits looks for the invocation, not at its status, and returns
\* the reservation it finds unless that has been released.
ReserveOf(k) ==
    /\ row[k].status # "ABSENT"
    /\ reservation[k] # "RELEASED"
    /\ reservation' = [reservation EXCEPT ![k] = IF @ = "NONE" THEN "RESERVED" ELSE @]
    /\ UNCHANGED row

\* Mutant: settles whatever the row and the reservation say.
SettleOfAny(k) ==
    /\ row[k].status # "ABSENT"
    /\ reservation' = [reservation EXCEPT ![k] = "SETTLED"]
    /\ row' = [row EXCEPT ![k] = [@ EXCEPT !.status = "SUCCEEDED",
                !.charged = Units[k], !.auditStatus = "PENDING"]]

\* settle_ai_invocation: credits and row in one transaction.
SettleOf(k) ==
    /\ row[k].status = "SETTLING"
    /\ reservation[k] \in {"RESERVED", "SETTLED"}
    /\ reservation' = [reservation EXCEPT ![k] = "SETTLED"]
    /\ row' = [row EXCEPT ![k] = [@ EXCEPT !.status = "SUCCEEDED",
                !.charged = Units[k], !.auditStatus = "PENDING"]]

\* release_ai_invocation: idempotent on released credits, refused on settled ones.
ReleaseOf(k, reason) ==
    /\ row[k].status \in {"RELEASING", "FAILED"}
    /\ reservation[k] \in {"RESERVED", "RELEASED"}
    /\ row[k].status = "RELEASING" => row[k].reason \in {"NONE", reason}
    /\ reservation' = [reservation EXCEPT ![k] = "RELEASED"]
    /\ row' = [row EXCEPT ![k] = [@ EXCEPT !.status = "FAILED", !.charged = 0,
                !.reason = reason, !.auditStatus = "PENDING"]]

\* Mutant: marks the row without writing the audit record.
MarkAuditOf(k) ==
    /\ row[k].status \in Terminal
    /\ row[k].auditStatus = "PENDING"
    /\ row' = [row EXCEPT ![k].auditStatus = "RECORDED"]
    /\ UNCHANGED audit

\* record_ai_invocation_business_audit: insert ... on conflict do nothing.
RecordAuditOf(k) ==
    /\ row[k].status \in Terminal
    /\ reservation[k] # "RESERVED"
    /\ row[k].auditStatus = "PENDING"
    /\ audit' = [audit EXCEPT ![k] =
            IF @ = NoAudit THEN [status |-> row[k].status, charged |-> row[k].charged] ELSE @]
    /\ row' = [row EXCEPT ![k].auditStatus = "RECORDED"]

CallOf(c) ==
    \/ c.op = "RESERVE" /\ ReserveOf(c.key)
    \/ c.op = "SETTLE" /\ SettleOf(c.key)
    \/ c.op = "RELEASE" /\ ReleaseOf(c.key, c.reason)

\* A request makes a credit call: it executes and is acknowledged, or the
\* request sees an error and the call stays under way.  A call whose reply is
\* lost is one that executes right after; a lost call never executes.
Call(r, c, acknowledged, failed) ==
    \/ /\ CallOf(c)
       /\ Goto(r, acknowledged)
       /\ UNCHANGED late
    \/ /\ Faults
       /\ failed
       /\ late' = late \cup {c}
       /\ UNCHANGED <<row, reservation>>

-----------------------------------------------------------------------------
(* InvocationRepository.transition *)

\* update ... where execution_status = from.  Without a row in the reply (no
\* match, or the reply was lost) the request goes on to read the row back.
Transition(r, from, new, stamped, next) ==
    LET k == KeyOf[r] IN
    /\ \/ /\ row[k].status = from
          /\ row' = [row EXCEPT ![k] = new]
          /\ Goto(r, next)
          /\ UNCHANGED doubt
       \/ /\ row[k].status # from \/ Faults
          /\ row' \in {row} \cup IF row[k].status = from THEN {[row EXCEPT ![k] = new]} ELSE {}
          /\ doubt' = [doubt EXCEPT ![r] = [row |-> new, stamped |-> stamped, next |-> next]]
          /\ Goto(r, "confirm")
    /\ UNCHANGED <<reservation, audit, late, executions>>

\* The columns the transition wrote are compared with !==.  A timestamp goes
\* out as toISOString's "...Z" and comes back as PostgREST's "...+00:00", so a
\* patch that carries one never compares equal.
ReadsBack(r) ==
    LET current == row[KeyOf[r]]  wanted == doubt[r].row IN
    /\ current.status = wanted.status
    /\ current.result = wanted.result
    /\ current.charged = wanted.charged
    /\ current.reason = wanted.reason
    /\ ~ doubt[r].stamped

Confirm(r) ==
    /\ pc[r] = "confirm"
    /\ \/ ReadsBack(r) /\ Goto(r, doubt[r].next)
       \/ ~ ReadsBack(r) /\ Stop(r, "INTERNAL_CONFIGURATION_ERROR")
       \/ Faults /\ Stop(r, "INTERNAL_CONFIGURATION_ERROR")
    /\ doubt' = [doubt EXCEPT ![r] = NoDoubt]
    /\ UNCHANGED <<row, reservation, audit, late, executions>>

Advance(r, from, to, stamped, next) ==
    Transition(r, from, [row[KeyOf[r]] EXCEPT !.status = to], stamped, next)

\* reject: finished without a reservation.
Reject(r, from) ==
    Transition(r, from, [row[KeyOf[r]] EXCEPT !.status = "REJECTED",
                         !.result = "NOT_AVAILABLE"], TRUE, "REJECTED")

\* releaseAndFail: the release intent and its reason are written first.
Fail(r, from, result, reason) ==
    Transition(r, from, [row[KeyOf[r]] EXCEPT !.status = "RELEASING",
                         !.result = result, !.charged = 0, !.reason = reason],
               FALSE, "release")

-----------------------------------------------------------------------------
(* runAiInvocation *)

\* A row of the key exists: another fingerprint, a finished run, or one in flight.
Duplicate(r) ==
    LET found == row[KeyOf[r]] IN
    Stop(r, CASE found.fingerprint # Fingerprint[r] -> "IDEMPOTENCY_KEY_REUSED"
              [] found.status \in Terminal /\ found.fingerprint = Fingerprint[r] -> "DUPLICATE"
              [] OTHER -> "DUPLICATE_IN_FLIGHT")

Lookup(r) ==
    /\ pc[r] = "lookup"
    /\ \/ row[KeyOf[r]].status = "ABSENT" /\ Goto(r, "insert")
       \/ row[KeyOf[r]].status # "ABSENT" /\ Duplicate(r)
    /\ UNCHANGED <<row, reservation, audit, doubt, late, executions>>

\* Mutant: an upsert; whoever comes later takes the row over.
Upsert(r) ==
    /\ pc[r] = "insert"
    /\ row' = [row EXCEPT ![KeyOf[r]] = [AbsentRow EXCEPT !.status = "RECEIVED",
                    !.fingerprint = Fingerprint[r]]]
    /\ Goto(r, "gates")
    /\ UNCHANGED <<reservation, audit, doubt, late, executions>>

\* The unique index decides between requests that all saw no row.
Insert(r) ==
    LET k == KeyOf[r] IN
    /\ pc[r] = "insert"
    /\ \/ /\ row[k].status = "ABSENT"
          /\ row' = [row EXCEPT ![k] = [AbsentRow EXCEPT !.status = "RECEIVED",
                        !.fingerprint = Fingerprint[r]]]
          /\ \/ Goto(r, "gates")
             \/ Faults /\ Stop(r, "INTERNAL_CONFIGURATION_ERROR")
       \/ /\ row[k].status # "ABSENT"
          /\ Duplicate(r)
          /\ UNCHANGED row
    /\ UNCHANGED <<reservation, audit, doubt, late, executions>>

Gates(r) ==
    /\ pc[r] = "gates"
    /\ \/ Advance(r, "RECEIVED", "AUTHORIZED", FALSE, "month")
       \/ Reject(r, "RECEIVED")

ResolveMonth(r) ==
    /\ pc[r] = "month"
    /\ \/ Advance(r, "AUTHORIZED", "RESERVING", FALSE, "reserve")
       \/ Reject(r, "AUTHORIZED")

Reserve(r) ==
    LET k == KeyOf[r] IN
    /\ pc[r] = "reserve"
    /\ \/ Call(r, [op |-> "RESERVE", key |-> k, reason |-> "NONE"],
               "reserved", Goto(r, "refused"))
       \/ \* no quota, no balance, or no charge configured
          Goto(r, "refused") /\ UNCHANGED <<row, reservation, late>>
    /\ UNCHANGED <<audit, doubt, executions>>

ReserveRefused(r) == pc[r] = "refused" /\ Reject(r, "RESERVING")

Reserved(r) ==
    pc[r] = "reserved" /\ Advance(r, "RESERVING", "CONTEXT_LOADING", FALSE, "load")

LoadContext(r) ==
    /\ pc[r] = "load"
    /\ \/ Advance(r, "CONTEXT_LOADING", "EXECUTING", TRUE, "lease")
       \/ Fail(r, "CONTEXT_LOADING", "FAILED", "CONTEXT_FAILED")

\* The provider safety gate grants a lease (AiProviderSafety) or blocks.
LeaseProvider(r) ==
    /\ pc[r] = "lease"
    /\ \/ /\ Goto(r, "execute")
          /\ UNCHANGED <<row, reservation, audit, doubt, late, executions>>
       \/ Fail(r, "EXECUTING", "FAILED", "INTERNAL_FAILURE")

ExecuteProvider(r) ==
    /\ pc[r] = "execute"
    /\ executions' = [executions EXCEPT ![KeyOf[r]] = @ + 1]
    /\ Goto(r, "executed")
    /\ UNCHANGED <<row, reservation, audit, doubt, late>>

\* A response, a provider error, or a lease that could not be completed.
Executed(r) ==
    /\ pc[r] = "executed"
    /\ \/ Advance(r, "EXECUTING", "VALIDATING", FALSE, "validate")
       \/ Fail(r, "EXECUTING", "FAILED", "PROVIDER_FAILED")
       \/ Fail(r, "EXECUTING", "FAILED", "INTERNAL_FAILURE")

Validate(r) ==
    /\ pc[r] = "validate"
    /\ \/ Transition(r, "VALIDATING", [row[KeyOf[r]] EXCEPT !.status = "SETTLING",
                        !.result = "VALIDATED"], FALSE, "usage")
       \/ Fail(r, "VALIDATING", "INVALID", "INVALID_RESULT")

RecordTechnicalUsage(r) ==
    /\ pc[r] = "usage"
    /\ \/ Goto(r, "settle")
       \/ Faults /\ Goto(r, "unsettled")
    /\ UNCHANGED <<row, reservation, audit, doubt, late, executions>>

Settle(r) ==
    /\ pc[r] = "settle"
    /\ Call(r, [op |-> "SETTLE", key |-> KeyOf[r], reason |-> "NONE"],
            "settled", Goto(r, "unsettled"))
    /\ UNCHANGED <<audit, doubt, executions>>

SettleFailed(r) ==
    pc[r] = "unsettled" /\ Fail(r, "SETTLING", "FAILED", "INTERNAL_FAILURE")

Settled(r) ==
    /\ pc[r] = "settled"
    /\ Transition(r, "SETTLING", [row[KeyOf[r]] EXCEPT !.status = "SUCCEEDED",
                    !.charged = Units[KeyOf[r]]], TRUE, "SUCCEEDED")

\* The request releases with the reason it has just written to the row.
Release(r) ==
    /\ pc[r] = "release"
    /\ Call(r, [op |-> "RELEASE", key |-> KeyOf[r], reason |-> row[KeyOf[r]].reason],
            "released", Stop(r, "CREDITS_UNAVAILABLE"))
    /\ UNCHANGED <<audit, doubt, executions>>

Released(r) ==
    /\ pc[r] = "released"
    /\ Transition(r, "RELEASING", [row[KeyOf[r]] EXCEPT !.status = "FAILED",
                    !.charged = 0], TRUE, "FAILED")

\* recordAudit, with the outcome the caller is told.  It swallows every error,
\* a refusal included.
Audit(r) ==
    /\ pc[r] \in Terminal
    /\ Stop(r, pc[r])
    /\ \/ RecordAuditOf(KeyOf[r])
       \/ /\ \/ Faults
             \/ reservation[KeyOf[r]] = "RESERVED"
             \/ row[KeyOf[r]].auditStatus = "RECORDED"
          /\ UNCHANGED <<row, audit>>
    /\ UNCHANGED <<reservation, doubt, late, executions>>

Crash(r) ==
    /\ Faults
    /\ pc[r] # "done"
    /\ Stop(r, "CRASHED")
    /\ UNCHANGED <<row, reservation, audit, doubt, late, executions>>

ExecuteLate(c) ==
    /\ CallOf(c)
    /\ late' = late \ {c}
    /\ UNCHANGED <<audit, pc, doubt, answer, executions>>

-----------------------------------------------------------------------------
(* reconcile_ai_invocation_lifecycle, which every request calls first.  Each *)
(* candidate of a batch is handled in a block of its own.                    *)

\* coalesce(release_reason, ...): rows of the earlier release have no reason.
ReleaseReason(k) ==
    IF row[k].reason # "NONE" THEN row[k].reason
    ELSE IF row[k].result = "INVALID" THEN "INVALID_RESULT" ELSE "INTERNAL_FAILURE"

\* Mutant: only rows in RELEASING, not the failed ones of the earlier release.
ReconcileReleasing(k) ==
    /\ row[k].status = "RELEASING"
    /\ ReleaseOf(k, ReleaseReason(k))
    /\ UNCHANGED <<audit, pc, doubt, answer, late, executions>>

ReconcileRelease(k) ==
    /\ \/ row[k].status \in {"RELEASING", "FAILED"} /\ reservation[k] = "RESERVED"
       \/ row[k].status = "RELEASING" /\ reservation[k] = "RELEASED"
    /\ ReleaseOf(k, ReleaseReason(k))
    /\ UNCHANGED <<audit, pc, doubt, answer, late, executions>>

ReconcileSettlement(k) ==
    /\ row[k].status = "SETTLING"
    /\ reservation[k] = "SETTLED"
    /\ row' = [row EXCEPT ![k] = [@ EXCEPT !.status = "SUCCEEDED",
                !.charged = Units[k], !.auditStatus = "PENDING"]]
    /\ UNCHANGED <<reservation, audit, pc, doubt, answer, late, executions>>

\* Mutant: the audit is only recovered for charged invocations.
ReconcileChargedAudit(k) ==
    /\ row[k].status = "SUCCEEDED"
    /\ RecordAuditOf(k)
    /\ UNCHANGED <<reservation, pc, doubt, answer, late, executions>>

ReconcileAudit(k) ==
    /\ RecordAuditOf(k)
    /\ UNCHANGED <<reservation, pc, doubt, answer, late, executions>>

-----------------------------------------------------------------------------
\* Before durable recovery the orchestrator wrote the row after the credits:
\* a crash in between, or a release that failed, left rows like these.
Interrupted(f) ==
    LET left(status, result) == [AbsentRow EXCEPT !.status = status, !.result = result,
                                                  !.fingerprint = f]
        failed == left("FAILED", "FAILED")
    IN {[row |-> left("SETTLING", "VALIDATED"), credit |-> "SETTLED", audit |-> NoAudit],
        [row |-> left("RELEASING", "FAILED"), credit |-> "RELEASED", audit |-> NoAudit],
        [row |-> left("FAILED", "INVALID"), credit |-> "RESERVED", audit |-> NoAudit],
        [row |-> [failed EXCEPT !.auditStatus = "RECORDED"], credit |-> "RESERVED",
         audit |-> [status |-> "FAILED", charged |-> 0]]}

Unused == [row |-> AbsentRow, credit |-> "NONE", audit |-> NoAudit]

Init ==
    /\ \E past \in [Legacy -> UNION {Interrupted(f) : f \in Fingerprints}] :
          LET of(k) == IF k \in Legacy THEN past[k] ELSE Unused IN
          /\ row = [k \in Keys |-> of(k).row]
          /\ reservation = [k \in Keys |-> of(k).credit]
          /\ audit = [k \in Keys |-> of(k).audit]
    /\ pc = [r \in Requests |-> "lookup"]
    /\ doubt = [r \in Requests |-> NoDoubt]
    /\ answer = [r \in Requests |-> "NONE"]
    /\ late = {}
    /\ executions = [k \in Keys |-> 0]

Run(r) ==
    \/ Lookup(r) \/ Insert(r) \/ Gates(r) \/ ResolveMonth(r)
    \/ Reserve(r) \/ ReserveRefused(r) \/ Reserved(r) \/ LoadContext(r)
    \/ LeaseProvider(r) \/ ExecuteProvider(r) \/ Executed(r) \/ Validate(r)
    \/ RecordTechnicalUsage(r) \/ Settle(r) \/ SettleFailed(r) \/ Settled(r)
    \/ Release(r) \/ Released(r) \/ Audit(r) \/ Confirm(r)

Reconcile(k) == ReconcileRelease(k) \/ ReconcileSettlement(k) \/ ReconcileAudit(k)

Next ==
    \/ \E r \in Requests : Run(r) \/ Crash(r)
    \/ \E c \in late : ExecuteLate(c)
    \/ \E k \in Keys : Reconcile(k)

Spec == Init /\ [][Next]_vars

\* Requests keep coming for the HR group and each of them reconciles it.
FairSpec == Spec /\ \A k \in Keys : WF_vars(Reconcile(k))

-----------------------------------------------------------------------------
(* Properties *)

\* The variables hold what the columns and the orchestrator's locals can hold.
TypeOK ==
    /\ row \in [Keys -> Row]
    /\ reservation \in [Keys -> {"NONE", "RESERVED", "SETTLED", "RELEASED"}]
    /\ audit \in [Keys -> [status : Terminal \cup {"NONE"}, charged : Nat]]
    /\ pc \in [Requests -> Steps]
    /\ doubt \in [Requests -> [row : Row, stamped : BOOLEAN, next : Steps]]
    /\ answer \in [Requests -> Answers]
    /\ late \subseteq Calls
    /\ executions \in [Keys -> Nat]

\* The reservation a row may have next to it, by the row's status.
CreditOf(status) ==
    CASE status \in {"ABSENT", "RECEIVED", "AUTHORIZED"} -> {"NONE"}
      [] status \in {"RESERVING", "REJECTED"} -> {"NONE", "RESERVED"}
      [] status \in {"CONTEXT_LOADING", "EXECUTING", "VALIDATING", "SETTLING", "RELEASING"}
            -> {"RESERVED"}
      [] status = "SUCCEEDED" -> {"SETTLED"}
      [] status = "FAILED" -> {"RELEASED"}

LegacyCreditOf(status) ==
    CASE status = "SETTLING" -> {"SETTLED"}
      [] status = "RELEASING" -> {"RELEASED"}
      [] status = "FAILED" -> {"RESERVED", "RELEASED"}
      [] status = "SUCCEEDED" -> {"SETTLED"}
      [] OTHER -> {}

\* Row and ledger never disagree about money, at any step, in any crash and
\* under any late call: only a succeeded, validated invocation has settled
\* credits and a charge, a failed one has its credits back, and an invocation
\* under way still holds them.
FinanceAgrees ==
    \A k \in Keys :
        /\ reservation[k] \in IF k \in Legacy THEN LegacyCreditOf(row[k].status)
                                             ELSE CreditOf(row[k].status)
        /\ row[k].charged = IF row[k].status = "SUCCEEDED" THEN Units[k] ELSE 0
        /\ row[k].status = "SUCCEEDED" => row[k].result = "VALIDATED"

\* The business audit, written once and never corrected, says what the row
\* finally says, and no row is marked RECORDED without it.
AuditTruthful ==
    \A k \in Keys :
        /\ audit[k] # NoAudit =>
              audit[k] = [status |-> row[k].status, charged |-> row[k].charged]
        /\ row[k].auditStatus = "RECORDED" => audit[k] # NoAudit

\* What the answers FAILED, REJECTED, CREDITS_UNAVAILABLE and SUCCEEDED say of the
\* charge stays true, even when a settlement executes after the answer.
\* INTERNAL_CONFIGURATION_ERROR says nothing of it: its caller may have been
\* charged, or be charged later (ChargedResultIsDelivered is about that), but
\* then for a validated result of the one provider call of its key.
AnswersHold ==
    \A r \in Requests :
        LET k == KeyOf[r] IN
        /\ answer[r] \in {"FAILED", "REJECTED", "CREDITS_UNAVAILABLE"} =>
              reservation[k] # "SETTLED"
        /\ answer[r] = "SUCCEEDED" => reservation[k] = "SETTLED"
        /\ answer[r] = "INTERNAL_CONFIGURATION_ERROR" /\ reservation[k] = "SETTLED" =>
              row[k].result = "VALIDATED" /\ executions[k] = 1

\* The provider is called at most once per idempotency key, and only while the
\* credits of that key are reserved: no retry and no duplicate calls it again.
ExecutesOnceWhileReserved ==
    [][\A k \in Keys :
          executions'[k] # executions[k] =>
              executions[k] = 0 /\ reservation[k] = "RESERVED"]_vars

\* The durable release intent is final: a row that reached RELEASING fails, and
\* neither a late settlement nor the reconciler turns it into a success.
ReleaseIntentIsFinal ==
    [][\A k \in Keys :
          row[k].status = "RELEASING" => row'[k].status \in {"RELEASING", "FAILED"}]_vars

\* Reconciliation finishes what a crash, a lost call or an earlier release left:
\* a release intent ends with the credits given back, credits settled next to
\* a row in SETTLING with the row's success, ...
InterruptedRunsFinish ==
    \A k \in Keys :
        /\ row[k].status = "RELEASING" ~>
              row[k].status = "FAILED" /\ reservation[k] = "RELEASED"
        /\ row[k].status = "FAILED" ~> reservation[k] = "RELEASED"
        /\ row[k].status = "SETTLING" /\ reservation[k] = "SETTLED" ~>
              row[k].status = "SUCCEEDED"

\* ... and every row whose credits are closed with its audit written, though the
\* orchestrator swallows the errors of its own attempt.
ClosedRunsGetAudited ==
    \A k \in Keys :
        row[k].status \in Terminal /\ reservation[k] # "RESERVED" ~>
            row[k].auditStatus = "RECORDED" \/ reservation[k] = "RESERVED"

\* The reservation of an invocation follows the credit service's contract,
\* however calls are repeated, delayed and reconciled.
Contract == INSTANCE CreditContract WITH
    Bookings <- Keys, Metered <- {}, Found <- Legacy, credit <- reservation
KeepsCreditContract == Contract!Spec

\* What the design and runtime.test.ts say of a validated result: the caller of
\* an invocation that succeeded and was charged gets it, not an error.
ChargedResultIsDelivered ==
    \A r \in Requests :
        answer[r] = "INTERNAL_CONFIGURATION_ERROR" => row[KeyOf[r]].status # "SUCCEEDED"
=============================================================================
