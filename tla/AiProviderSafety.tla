--------------------------- MODULE AiProviderSafety ---------------------------
(***************************************************************************)
(* The gate in front of the AI provider: reserve_ai_provider_execution and  *)
(* complete_ai_provider_execution of 20260828124612_ai_provider_safety_fup. *)
(* sql, and what an invocation does between the two.                        *)
(*                                                                         *)
(* The function reads the clock when it starts and only then waits for the  *)
(* row of its environment, so it counts and stamps with an instant that may *)
(* have passed, even into the next hour or day.                             *)
(***************************************************************************)
EXTENDS Integers, FiniteSets

CONSTANTS
    Invocations,      \* invocations that get as far as the provider
    MaxCallsPerHour, MaxCallsPerDay, MaxConcurrent,
    LeaseTime,        \* AI_PROVIDER_LEASE_SECONDS
    CallTime,         \* timeoutMs of a feature, after which a call is aborted
    MaxDelay,         \* longest time from the clock reading to the provider call
    HourLength, DayLength,
    MaxClock          \* bound on the instants looked at

ASSUME SafetyAssumption ==
    /\ IsFiniteSet(Invocations)
    /\ {MaxCallsPerHour, MaxCallsPerDay, MaxConcurrent} \subseteq Nat \ {0}
    /\ {LeaseTime, HourLength, DayLength} \subseteq Nat \ {0}
    /\ {CallTime, MaxDelay, MaxClock} \subseteq Nat

\* Nothing in the code relates the lease to the timeout of a call: the values it
\* is deployed with (120 and 20 seconds) satisfy this, others need not.
LeaseCoversCall == MaxDelay + CallTime < LeaseTime

VARIABLES
    clock,            \* the present instant
    lease,            \* ai_provider_execution_leases, by invocation
    phase,            \* where an invocation is
    since             \* when it read the clock, or when its call began

vars == <<clock, lease, phase, since>>

Phases == {"idle", "asking", "granted", "calling", "called", "over"}

NoLease == [status |-> "NONE", reservedAt |-> 0, expiresAt |-> 0]

NewLease(now) == [status |-> "ACTIVE", reservedAt |-> now, expiresAt |-> now + LeaseTime]

Leased == {i \in Invocations : lease[i].status # "NONE"}

\* date_trunc of the instant.
StartOf(now, length) == (now \div length) * length

\* Mutant: the window is that of the moment the lock was obtained.
CountedFromLock(now, length) ==
    {i \in Leased : lease[i].reservedAt >= StartOf(clock, length)}

\* Leases counted against the hour or the day that began before now.
Counted(now, length) ==
    {i \in Leased : lease[i].reservedAt >= StartOf(now, length)}

\* Mutant: the instant is compared with the wrong column.
ActiveAndFresh(now) ==
    {i \in Leased : lease[i].status = "ACTIVE" /\ lease[i].reservedAt >= now}

Active(now) ==
    {i \in Leased : lease[i].status = "ACTIVE" /\ lease[i].expiresAt > now}

-----------------------------------------------------------------------------
Init ==
    /\ clock = 0
    /\ lease = [i \in Invocations |-> NoLease]
    /\ phase = [i \in Invocations |-> "idle"]
    /\ since = [i \in Invocations |-> 0]

\* No request waits longer than MaxDelay and no call runs longer than CallTime.
Tick ==
    /\ clock < MaxClock
    /\ \A i \in Invocations :
          /\ phase[i] \in {"asking", "granted"} => clock < since[i] + MaxDelay
          /\ phase[i] = "calling" => clock < since[i] + CallTime
    /\ clock' = clock + 1
    /\ UNCHANGED <<lease, phase, since>>

\* Read the clock, check the scope, and ask for the environment's row.
Ask(i) ==
    /\ phase[i] = "idle"
    /\ phase' = [phase EXCEPT ![i] = "asking"]
    /\ since' = [since EXCEPT ![i] = clock]
    /\ UNCHANGED <<clock, lease>>

\* The row is locked: every cap is checked and the lease inserted.  When the
\* reply is lost, or the request has died, nobody will use the lease.
Grant(i) ==
    LET now == since[i] IN
    /\ phase[i] = "asking"
    /\ lease[i].status = "NONE"
    /\ Cardinality(Counted(now, HourLength)) < MaxCallsPerHour
    /\ Cardinality(Counted(now, DayLength)) < MaxCallsPerDay
    /\ Cardinality(Active(now)) < MaxConcurrent
    /\ lease' = [lease EXCEPT ![i] = NewLease(now)]
    /\ \E outcome \in {"granted", "over"} : phase' = [phase EXCEPT ![i] = outcome]
    /\ UNCHANGED <<clock, since>>

\* Disabled, too large, at a cap, or unavailable: the invocation fails.
Block(i) ==
    /\ phase[i] = "asking"
    /\ phase' = [phase EXCEPT ![i] = "over"]
    /\ UNCHANGED <<clock, lease, since>>

Call(i) ==
    /\ phase[i] = "granted"
    /\ phase' = [phase EXCEPT ![i] = "calling"]
    /\ since' = [since EXCEPT ![i] = clock]
    /\ UNCHANGED <<clock, lease>>

\* An answer, an error, or the timeout.
Return(i) ==
    /\ phase[i] = "calling"
    /\ phase' = [phase EXCEPT ![i] = "called"]
    /\ UNCHANGED <<clock, lease, since>>

\* complete_ai_provider_execution does not ask whether the lease has expired.
Complete(i) ==
    /\ phase[i] = "called"
    /\ lease' = [lease EXCEPT ![i].status = "COMPLETED"]
    /\ phase' = [phase EXCEPT ![i] = "over"]
    /\ UNCHANGED <<clock, since>>

\* The server function is killed, or the completion does not arrive.
Die(i) ==
    /\ phase[i] \in {"granted", "calling", "called"}
    /\ phase' = [phase EXCEPT ![i] = "over"]
    /\ UNCHANGED <<clock, lease, since>>

Next ==
    \/ Tick
    \/ \E i \in Invocations :
          Ask(i) \/ Grant(i) \/ Block(i) \/ Call(i) \/ Return(i) \/ Complete(i) \/ Die(i)

Spec == Init /\ [][Next]_vars

-----------------------------------------------------------------------------
(* Properties *)

\* A lease satisfies the table's checks: it expires after it was reserved.
TypeOK ==
    /\ clock \in 0 .. MaxClock
    /\ lease \in [Invocations -> [status : {"NONE", "ACTIVE", "COMPLETED"},
                                  reservedAt : Nat, expiresAt : Nat]]
    /\ phase \in [Invocations -> Phases]
    /\ since \in [Invocations -> Nat]
    /\ \A i \in Leased : lease[i].expiresAt > lease[i].reservedAt

Within(window, length) ==
    {i \in Leased : lease[i].reservedAt \div length = window}

\* No UTC hour and no UTC day sees more calls than its cap, though a lease may
\* be counted and stamped after the hour or the day has ended, next to leases
\* of the one that has begun.
VolumeCapsHold ==
    \A window \in 0 .. MaxClock :
        /\ Cardinality(Within(window, HourLength)) <= MaxCallsPerHour
        /\ Cardinality(Within(window, DayLength)) <= MaxCallsPerDay

Calling == {i \in Invocations : phase[i] = "calling"}

\* Of the calls under way no more than may be hold a lease that still counts,
\* though leases expire on their own, completions get lost and requests die.
\* Where leases outlast the delay and the call, these are all the calls: no call
\* is behind a lease that no longer counts.  Where they do not, a call may go on
\* after its lease and let another begin.
CallsWithinConcurrency ==
    /\ Cardinality(Calling \cap Active(clock)) <= MaxConcurrent
    /\ LeaseCoversCall => Cardinality(Calling) <= MaxConcurrent
=============================================================================
