-------------------------------- MODULE AiVoice --------------------------------
(***************************************************************************)
(* Realtime voice sessions and what they cost: their creation (lib/ai/      *)
(* realtime-voice.ts, lib/ai/team-scope.ts), the client's end of a session  *)
(* (lib/ai/voice-credits.ts, finalize_ai_voice_session) and the server-side *)
(* reaper (reconcile_expired_ai_voice_sessions).                            *)
(*                                                                         *)
(* One tick of the clock is one billable minute.  How credits and quotas    *)
(* are booked is AiCredits; here an actor has a number of credits left.     *)
(***************************************************************************)
EXTENDS Integers, FiniteSets, FiniteSetsExt

CONSTANTS
    Sessions,          \* numbers, which stand for the order of the ids
    TeamSessions,      \* the sessions of ai_team_sessions
    Actors, Actor,     \* who may start a session, and whose session it is
    Calls,             \* requests to end a session
    MaxDuration,       \* max_duration_seconds, fixed when a session is created
    MaxClock,          \* bound on the instants at which something happens
    Allowance,         \* credits of an actor at the start of a month
    BatchSize,         \* VOICE_RECOVERY_BATCH_SIZE
    WrapperIsDefiner   \* whether public.finalize_ai_voice_session may reach the
                       \* accounting function it wraps

NoCall == "none"

ASSUME VoiceAssumption ==
    /\ IsFiniteSet(Sessions) /\ Sessions \subseteq Nat
    /\ TeamSessions \subseteq Sessions
    /\ Actor \in [Sessions -> Actors]
    /\ {MaxDuration, BatchSize} \subseteq Nat \ {0}
    /\ {MaxClock, Allowance} \subseteq Nat
    /\ WrapperIsDefiner \in BOOLEAN
    /\ NoCall \notin Calls

VARIABLES
    clock,
    row,               \* ai_voice_sessions and ai_team_sessions
    charge,            \* ai_voice_credit_charges, by session
    left,              \* credits an actor may still be charged
    active,            \* is_active of the credit policy of the HR group
    creating,          \* team sessions whose members are still to be stored
    call,              \* the requests to end a session
    holder             \* who has the policy row locked

vars == <<clock, row, charge, left, active, creating, call, holder>>

Ends == {"ENDED", "FAILED"}
NoRow == [status |-> "NONE", startedAt |-> 0, endedAt |-> 0,
          credit |-> "PENDING", duration |-> 0]
NoCharge == [status |-> "NONE", endedAt |-> 0, duration |-> 0]
Unsent == [phase |-> "unsent", session |-> 0, now |-> 0, requested |-> "ENDED"]

Known == {s \in Sessions : row[s].status # "NONE"}
Charged == {s \in Sessions : charge[s] # NoCharge}
Deadline(s) == row[s].startedAt + MaxDuration

-----------------------------------------------------------------------------
(* finalize_ai_voice_session                                                 *)

\* A session that is still active ends as it is told, another one as it did.
Closed(r, end, status) ==
    IF r.status = "ACTIVE" THEN [r EXCEPT !.status = status, !.endedAt = end] ELSE r

\* What an ended session costs.
Cost(r) == Min({MaxDuration, Max({0, r.endedAt - r.startedAt})})

\* Mutant: the session is not marked settled with its charge.
LeavePending(r) == [r EXCEPT !.duration = Cost(r)]

Settled(r) == [r EXCEPT !.duration = Cost(r), !.credit = "SETTLED"]

ChargeOf(r) == [status |-> r.status, endedAt |-> r.endedAt, duration |-> Cost(r)]

Total(f, S) == MapThenSumSet(LAMBDA x : f[x], S)

CostOfAll(rows, S, a) == Total([s \in Sessions |-> Cost(rows[s])], {s \in S : Actor[s] = a})

\* Mutant: what the same transaction charged before is not counted.
AffordableAlone(rows, s, earlier) ==
    charge[s] = NoCharge /\ Cost(rows[s]) <= left[Actor[s]]

\* Mutant: an existing charge is not looked for.
Affordable(rows, s, earlier) ==
    CostOfAll(rows, earlier \cup {s}, Actor[s]) <= left[Actor[s]]

\* Whether a session is charged, after those that were charged earlier in the
\* same transaction.
MayCharge(rows, s, earlier) ==
    /\ charge[s] = NoCharge
    /\ CostOfAll(rows, earlier \cup {s}, Actor[s]) <= left[Actor[s]]

\* Charge the sessions of a set and store what became of all of them.
Charge(rows, paid) ==
    /\ row' = [s \in Sessions |-> IF s \in paid THEN Settled(rows[s]) ELSE rows[s]]
    /\ charge' = [s \in Sessions |-> IF s \in paid THEN ChargeOf(rows[s]) ELSE charge[s]]
    /\ left' = [a \in Actors |-> left[a] - CostOfAll(rows, paid, a)]

-----------------------------------------------------------------------------
Init ==
    /\ clock = 0
    /\ row = [s \in Sessions |-> NoRow]
    /\ charge = [s \in Sessions |-> NoCharge]
    /\ left = [a \in Actors |-> Allowance]
    /\ active = TRUE
    /\ creating = {}
    /\ call = [c \in Calls |-> Unsent]
    /\ holder = NoCall

Tick ==
    /\ clock < MaxClock
    /\ \A s \in creating : clock + 1 < Deadline(s)
    /\ clock' = clock + 1
    /\ UNCHANGED <<row, charge, left, active, creating, call, holder>>

\* No credit is asked for; only the settings and the role are.
Start(s) ==
    /\ row[s].status = "NONE"
    /\ row' = [row EXCEPT ![s].status = "ACTIVE", ![s].startedAt = clock]
    /\ creating' = IF s \in TeamSessions THEN creating \cup {s} ELSE creating
    /\ UNCHANGED <<clock, charge, left, active, call, holder>>

\* The members of a team session are stored after it, in a call of their own,
\* which takes less time than a session may last.
StoreMembers(s) ==
    /\ s \in creating
    /\ creating' = creating \ {s}
    /\ UNCHANGED <<clock, row, charge, left, active, call, holder>>

StoreMembersFails(s) ==
    /\ s \in creating
    /\ creating' = creating \ {s}
    /\ row' = [row EXCEPT ![s].status = "FAILED", ![s].endedAt = clock]
    /\ UNCHANGED <<clock, charge, left, active, call, holder>>

\* The client hangs up, or the provider refused the call.  The function reads
\* its clock when the request arrives.
SendEnd(c, s, requested) ==
    /\ call[c].phase = "unsent"
    /\ s \in Known \ creating
    /\ call' = [call EXCEPT ![c] = [phase |-> IF WrapperIsDefiner THEN "sent" ELSE "denied",
                                    session |-> s, now |-> clock, requested |-> requested]]
    /\ UNCHANGED <<clock, row, charge, left, active, creating, holder>>

\* Lock the row of an active policy; without one the request fails.
LockPolicy(c) ==
    /\ call[c].phase = "sent"
    /\ holder = NoCall
    /\ IF active
       THEN /\ holder' = c
            /\ call' = [call EXCEPT ![c].phase = "locked"]
       ELSE /\ call' = [call EXCEPT ![c].phase = "refused"]
            /\ UNCHANGED holder
    /\ UNCHANGED <<clock, row, charge, left, active, creating>>

\* Mutant: the session ends when it is charged, not when the request arrived.
CommitInstant(c) == clock

Instant(c) == call[c].now

\* Charge the session and release the lock: all or nothing.  When it has been
\* charged already nothing changes; with too little credit the request fails and
\* leaves an active session active.
Finalize(c) ==
    LET s == call[c].session
        rows == [row EXCEPT ![s] = Closed(row[s], Instant(c), call[c].requested)]
    IN  /\ holder = c
        /\ IF MayCharge(rows, s, {}) THEN Charge(rows, {s})
                                     ELSE UNCHANGED <<row, charge, left>>
        /\ holder' = NoCall
        /\ call' = [call EXCEPT ![c].phase =
                      IF charge'[s] # NoCharge THEN "charged" ELSE "refused"]
        /\ UNCHANGED <<clock, active, creating>>

\* The request dies before it holds the lock, or its transaction is rolled back.
Lose(c) ==
    /\ call[c].phase \in {"sent", "locked"}
    /\ call' = [call EXCEPT ![c].phase = "refused"]
    /\ holder' = IF holder = c THEN NoCall ELSE holder
    /\ UNCHANGED <<clock, row, charge, left, active, creating>>

-----------------------------------------------------------------------------
(* reconcile_expired_ai_voice_sessions                                       *)

\* Mutant: only sessions that are still active.
OverdueOnly == {s \in Known : row[s].status = "ACTIVE" /\ Deadline(s) <= clock}

Candidates ==
    {s \in Known : \/ row[s].status = "ACTIVE" /\ Deadline(s) <= clock
                   \/ row[s].status \in Ends /\ row[s].credit = "PENDING"}

\* An overdue session ends at its deadline.
Expired(s) == Closed(row[s], Deadline(s), "ENDED")

DueBefore(s, t) ==
    \/ Expired(s).endedAt < Expired(t).endedAt
    \/ Expired(s).endedAt = Expired(t).endedAt /\ s < t

\* The n first of a set of candidates.
FirstOf(S, n) == {s \in S : Cardinality({t \in S : DueBefore(t, s)}) < n}

\* One run takes sessions of employees first, then as many of teams as its batch
\* has room for.
Batch(candidates) ==
    LET own == FirstOf(candidates \ TeamSessions, BatchSize)
    IN  own \cup FirstOf(candidates \cap TeamSessions, BatchSize - Cardinality(own))

TakenBefore(s, t) ==
    \/ s \notin TeamSessions /\ t \in TeamSessions
    \/ (s \in TeamSessions <=> t \in TeamSessions) /\ DueBefore(s, t)

Marked(batch) == [s \in Sessions |-> IF s \in batch THEN Expired(s) ELSE row[s]]

\* With the policy's lock: end what is overdue and charge one after the other;
\* a charge that fails leaves its session ended and pending.
Reap ==
    /\ holder = NoCall
    /\ active
    /\ \E batch \in {Batch(Candidates)}, paid \in SUBSET Candidates :
          /\ paid \subseteq batch
          /\ \A s \in batch :
                s \in paid <=> MayCharge(Marked(batch), s, {t \in paid : TakenBefore(t, s)})
          /\ Charge(Marked(batch), paid)
    /\ UNCHANGED <<clock, active, creating, call, holder>>

\* Mutant: without the policy nothing is done.
ReapNothing == UNCHANGED vars

\* Without an active policy, or when its row is locked by another: only end what
\* is overdue, passing over a session the other has locked.
ReapWithoutPolicy ==
    /\ holder # NoCall \/ ~active
    /\ \E locked \in SUBSET (IF holder = NoCall THEN {} ELSE {call[holder].session}) :
          \E batch \in {Batch(Candidates \ locked)} : row' = Marked(batch)
    /\ UNCHANGED <<clock, charge, left, active, creating, call, holder>>

\* Operators switch the policy on and off, and a month brings new credits.
SetPolicy ==
    /\ holder = NoCall
    /\ active' = ~active
    /\ UNCHANGED <<clock, row, charge, left, creating, call, holder>>

Replenish(a) ==
    /\ holder = NoCall
    /\ left[a] < Allowance
    /\ left' = [left EXCEPT ![a] = Allowance]
    /\ UNCHANGED <<clock, row, charge, active, creating, call, holder>>

Recover == Reap \/ ReapWithoutPolicy

Progress(c) == LockPolicy(c) \/ Finalize(c) \/ Lose(c)

Next ==
    \/ Tick \/ Recover \/ SetPolicy
    \/ \E a \in Actors : Replenish(a)
    \/ \E s \in Sessions : Start(s) \/ StoreMembers(s) \/ StoreMembersFails(s)
    \/ \E c \in Calls :
          \/ Progress(c)
          \/ \E s \in Sessions, requested \in Ends : SendEnd(c, s, requested)

Spec == Init /\ [][Next]_vars

\* Every request ends, the clock goes on, and recovery runs again and again:
\* each new session, tool call and AI invocation begins with it.
FairSpec ==
    /\ Spec
    /\ WF_vars(Tick) /\ WF_vars(Recover)
    /\ \A s \in Sessions : WF_vars(StoreMembers(s))
    /\ \A c \in Calls : WF_vars(Progress(c))

-----------------------------------------------------------------------------
(* Properties *)

TypeOK ==
    /\ clock \in 0 .. MaxClock
    /\ row \in [Sessions -> [status : {"NONE", "ACTIVE"} \cup Ends, startedAt : Nat,
                             endedAt : Nat, credit : {"PENDING", "SETTLED"}, duration : Nat]]
    /\ charge \in [Sessions -> [status : {"NONE"} \cup Ends, endedAt : Nat, duration : Nat]]
    /\ left \in [Actors -> Nat]
    /\ active \in BOOLEAN
    /\ creating \subseteq TeamSessions
    /\ call \in [Calls -> [phase : {"unsent", "denied", "sent", "locked", "refused", "charged"},
                           session : {0} \cup Sessions, now : Nat, requested : Ends]]
    /\ holder \in {NoCall} \cup Calls

\* A session is settled exactly when it has a charge, and both tell the same
\* story, whichever of its clients and the reaper ended it, charged it or failed.
SettledMatchesCharge ==
    \A s \in Sessions :
        /\ row[s].credit = "SETTLED" <=> charge[s] # NoCharge
        /\ charge[s] # NoCharge =>
              charge[s] = [status |-> row[s].status, endedAt |-> row[s].endedAt,
                           duration |-> row[s].duration]

\* What has ended stays ended as it was: a late client changes neither how nor
\* when the reaper ended a session, nor the other way round.
EndIsFinal ==
    [][\A s \in Sessions : row[s].status \in Ends =>
          /\ row'[s].status = row[s].status
          /\ row'[s].endedAt = row[s].endedAt]_vars

Spent(a) == left[a] - left'[a]

Worth(charges, S) == Total([s \in Sessions |-> charges[s].duration], S)

\* Credits are taken only together with new charges, and as much as these say:
\* repeating an end, or reaping what a client is ending, charges nothing twice.
ChargedOnce ==
    [][/\ \A s \in Charged : charge'[s] = charge[s]
       /\ \A a \in Actors :
             LET new == {s \in Charged' \ Charged : Actor[s] = a} IN
             Spent(a) > 0 \/ new # {} =>
                Spent(a) = Worth(charge', new)]_vars

\* Waiting for the policy's lock is not billed: a session that clients ended
\* costs no more than until one of their requests arrived, within its length and
\* after it, unless the deadline passed while they waited and the reaper ended
\* it there.
WaitingIsNotBilled ==
    \A s \in Sessions :
        LET ended == {c \in Calls : call[c].phase = "charged" /\ call[c].session = s} IN
        ended # {} =>
            \/ charge[s].endedAt = Deadline(s) /\ Deadline(s) <= clock
            \/ \E c \in ended : charge[s].endedAt <= call[c].now

\* Every session that is past its deadline is ended in time, without a client.
ExpiredSessionsEnd ==
    \A s \in Sessions :
        row[s].status = "ACTIVE" /\ Deadline(s) <= clock ~> row[s].status \in Ends

\* Every ended session is charged in the end, unless its actor has too little
\* credit or the group's policy is off.
EndedSessionsSettle ==
    \A s \in Sessions :
        row[s].status \in Ends ~>
            \/ row[s].credit = "SETTLED"
            \/ left[Actor[s]] < Cost(row[s])
            \/ ~active

\* A session is not billed past the moment its client hung up because the
\* database denied the client's request: the service role that sends it may end
\* and charge a session.
HangUpIsHonoured ==
    \A c \in Calls : call[c].phase = "denied" =>
        LET s == call[c].session IN
        charge[s] # NoCharge => charge[s].endedAt <= call[c].now
=============================================================================
