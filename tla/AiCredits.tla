------------------------------ MODULE AiCredits ------------------------------
(***************************************************************************)
(* The Liquid Credits ledger of one HR group: the plpgsql functions of      *)
(* 20260828133631_ai_liquid_credits_foundation.sql and the voice charge of  *)
(* 20260915163650_ai_admin_settings_voice_accounting.sql.                   *)
(*                                                                         *)
(* What reserves credits or charges a session locks the group's credit      *)
(* policy row first; settling and releasing do so when the policy is        *)
(* active, and lock the rows they change anyway; the sweep and a grant are  *)
(* one statement each, whose rows stay locked until the commit.  So each    *)
(* runs here as one step.  What the locks do not serialise is time: now()   *)
(* is the start of the transaction, which may then have waited for a lock   *)
(* while the clock went on.  Every action therefore takes the instant it    *)
(* started at, up to MaxWait before the present one.                        *)
(***************************************************************************)
EXTENDS Integers, FiniteSetsExt

CONSTANTS
    Actors,           \* users of the HR group
    Invocations,      \* rows of ai_invocations
    Sessions,         \* realtime voice sessions
    Grants,           \* allocation ids of credits granted outside the allowance
    Owner,            \* the actor of an invocation or a session
    Prices,           \* credits the charge catalog can ask for one invocation
    VoicePrices,      \* billable minutes times the price of a voice minute
    Quota,            \* monthly quota of an actor, from the actor's roles
    Allowance,        \* monthly_allowance_credits of the group policy
    GrantAmount,      \* credits of a grant
    GrantLife,        \* instants until a grant expires (12 months in the code)
    MonthLength,      \* instants per calendar month
    Months,           \* the months the instance looks at, 1..n
    MaxWait           \* longest time a transaction waits for the policy lock

Bookings == Invocations \cup Sessions
AllocIds == Months \cup Grants

ASSUME CreditsAssumption ==
    /\ MonthLength \in Nat \ {0} /\ GrantLife \in Nat \ {0}
    /\ Allowance \in Nat \ {0} /\ GrantAmount \in Nat \ {0}
    /\ MaxWait \in Nat
    /\ Months \subseteq Nat \ {0}
    /\ Prices \subseteq Nat \ {0} /\ VoicePrices \subseteq Nat
    /\ Owner \in [Bookings -> Actors]
    /\ Quota \in [Actors -> Nat]
    /\ Invocations \cap Sessions = {}
    \* Rows of tables: uuids and the months of a calendar are finitely many.
    /\ IsFiniteSet(Bookings) /\ IsFiniteSet(AllocIds)

VARIABLES
    clock,            \* the present instant
    allocations,      \* ai_credit_allocations; amount 0 is a row not yet there
    bookings,         \* ai_credit_reservations and ai_voice_credit_charges
    links,            \* credits a booking draws from each allocation
    usage             \* ai_credit_actor_usage, per actor and month

vars == <<clock, allocations, bookings, links, usage>>

-----------------------------------------------------------------------------
Batch == [amount : Nat, grantedAt : Int, expiresAt : Int,
          reserved : Nat, settled : Nat, released : Nat, expired : Nat]
NewBatch(amount, from, until) ==
    [amount |-> amount, grantedAt |-> from, expiresAt |-> until,
     reserved |-> 0, settled |-> 0, released |-> 0, expired |-> 0]
NoBatch == NewBatch(0, 0, 0)

Statuses == {"NONE", "RESERVED", "SETTLED", "RELEASED"}
Booking == [status : Statuses, units : Nat, month : Months \cup {0}]
NoBooking == [status |-> "NONE", units |-> 0, month |-> 0]
NoUsage == [reserved |-> 0, settled |-> 0, released |-> 0]

Total(f, S) == MapThenSumSet(LAMBDA x : f[x], S)
MonthOf(t) == (t \div MonthLength) + 1

\* The generated column available_credits.
Available(batch) ==
    batch.amount - batch.reserved - batch.settled - batch.expired

\* Transactions running now may have started at any of these instants, for
\* the month their caller computed from its own clock some time before.
Started == {t \in 0 .. clock : clock - t <= MaxWait}
RequestedMonths(now) == {m \in Months : \E t \in Started : t <= now /\ MonthOf(t) = m}

\* The month of a voice charge is that of the session's end, and the reaper may
\* get to a session that is still to be paid months later.
EndedMonths(now) == {m \in Months : m <= MonthOf(now)}

\* expire_ai_credit_allocations: what is left of a batch past its expiry.
Expire(alloc, now) ==
    [a \in AllocIds |->
        IF alloc[a].expiresAt <= now /\ Available(alloc[a]) > 0
        THEN [alloc[a] EXCEPT !.expired = @ + Available(alloc[a])]
        ELSE alloc[a]]

\* ensure_ai_monthly_allowance: insert ... on conflict do nothing.
WithAllowance(alloc, month) ==
    IF alloc[month].amount = 0
    THEN [alloc EXCEPT ![month] =
            NewBatch(Allowance, (month - 1) * MonthLength, month * MonthLength)]
    ELSE alloc

\* Mutant: the oldest batch first, whenever it expires.
OldestFirst(b, c) == b.grantedAt < c.grantedAt

\* order by expires_at, granted_at (the id only breaks ties).
DrawnBefore(b, c) ==
    \/ b.expiresAt < c.expiresAt
    \/ b.expiresAt = c.expiresAt /\ b.grantedAt < c.grantedAt

Usable(alloc, now) ==
    {a \in AllocIds : alloc[a].expiresAt > now /\ Available(alloc[a]) > 0}

\* The loop over the usable batches: it takes what it needs from each in turn,
\* and raises (no draw at all) when they do not hold enough together.
Draws(alloc, now, units) ==
    {take \in [AllocIds -> 0 .. units] :
        /\ Total(take, AllocIds) = units
        /\ \A a \in AllocIds : take[a] > 0 =>
              /\ a \in Usable(alloc, now)
              /\ take[a] <= Available(alloc[a])
              /\ \A b \in Usable(alloc, now) :
                    DrawnBefore(alloc[b], alloc[a]) => take[b] = Available(alloc[b])}

\* Mutant: what is reserved and not yet settled does not count.
WithinSettledQuota(actor, month, units) == usage[actor][month].settled + units <= Quota[actor]

WithinQuota(actor, month, units) ==
    usage[actor][month].reserved + usage[actor][month].settled + units <= Quota[actor]

-----------------------------------------------------------------------------
Init ==
    /\ clock = 0
    /\ allocations = [a \in AllocIds |-> NoBatch]
    /\ bookings = [b \in Bookings |-> NoBooking]
    /\ links = [b \in Bookings |-> [a \in AllocIds |-> 0]]
    /\ usage = [x \in Actors |-> [m \in Months |-> NoUsage]]

\* Bounded by Months, the part of the calendar the instance looks at.
Tick ==
    /\ MonthOf(clock + 1) \in Months
    /\ clock' = clock + 1
    /\ UNCHANGED <<allocations, bookings, links, usage>>

EnsureMonthlyAllowance(month) ==
    /\ allocations' = WithAllowance(allocations, month)
    /\ UNCHANGED <<clock, bookings, links, usage>>

GrantCredits(g, now) ==
    /\ allocations[g].amount = 0
    /\ allocations' = [allocations EXCEPT ![g] = NewBatch(GrantAmount, now, now + GrantLife)]
    /\ UNCHANGED <<clock, bookings, links, usage>>

\* Reading the balance sweeps expired batches first.
GetGroupCreditBalance(now) ==
    /\ allocations' = Expire(allocations, now)
    /\ UNCHANGED <<clock, bookings, links, usage>>

\* Mutant: released credits may be reserved again.
NotOpen(b) == bookings[b].status # "RESERVED"

Unbooked(b) == bookings[b].status = "NONE"

\* A second reserve for the same invocation returns the row it finds or raises.
ReserveCredits(i, month, units, now) ==
    LET alloc == Expire(WithAllowance(allocations, month), now) IN
    /\ Unbooked(i)
    /\ WithinQuota(Owner[i], month, units)
    /\ \E take \in Draws(alloc, now, units) :
          /\ allocations' = [a \in AllocIds |->
                                [alloc[a] EXCEPT !.reserved = @ + take[a]]]
          /\ links' = [links EXCEPT ![i] = take]
    /\ bookings' = [bookings EXCEPT ![i] =
            [status |-> "RESERVED", units |-> units, month |-> month]]
    /\ usage' = [usage EXCEPT ![Owner[i]][month].reserved = @ + units]
    /\ UNCHANGED clock

Open(i) == bookings[i].status = "RESERVED"

\* Mutant: the month in which the reservation closes.
MonthClosed(i) == MonthOf(clock)

\* The usage row of a reservation is the one of the month it was made for.
MonthBooked(i) == bookings[i].month

\* The checks settle and release make on the rows a reservation refers to.
Accountable(i) ==
    /\ usage[Owner[i]][MonthBooked(i)].reserved >= bookings[i].units
    /\ \A a \in AllocIds : allocations[a].reserved >= links[i][a]
    /\ Total(links[i], AllocIds) = bookings[i].units

\* Mutant: what is settled stays reserved as well.
ConsumeTwice(batch, drawn) == [batch EXCEPT !.settled = @ + drawn]

\* Of a batch, and of the usage of an actor.
Consume(batch, drawn) ==
    [batch EXCEPT !.reserved = @ - drawn, !.settled = @ + drawn]

SettleCredits(i) ==
    LET used == usage[Owner[i]][MonthBooked(i)] IN
    /\ Open(i)
    /\ Accountable(i)
    /\ allocations' = [a \in AllocIds |-> Consume(allocations[a], links[i][a])]
    /\ bookings' = [bookings EXCEPT ![i].status = "SETTLED"]
    /\ usage' = [usage EXCEPT ![Owner[i]][MonthBooked(i)] = Consume(used, bookings[i].units)]
    /\ UNCHANGED <<clock, links>>

\* Mutant: credits of an expired batch become spendable again.
GiveBackSpendable(batch, drawn, now) ==
    [batch EXCEPT !.reserved = @ - drawn, !.released = @ + drawn]

\* What is given back to a batch that has expired meanwhile lapses at once.
GiveBack(batch, drawn, now) ==
    [batch EXCEPT !.reserved = @ - drawn, !.released = @ + drawn,
                  !.expired = @ + IF batch.expiresAt <= now THEN drawn ELSE 0]

\* The sweep comes before the status is looked at, so a repeated release keeps
\* its effect; a release of settled credits raises and undoes it.
ReleaseCredits(i, now) ==
    LET alloc == Expire(allocations, now)
        used == usage[Owner[i]][MonthBooked(i)]
    IN
    \/ /\ Open(i)
       /\ Accountable(i)
       /\ allocations' = [a \in AllocIds |-> GiveBack(alloc[a], links[i][a], now)]
       /\ bookings' = [bookings EXCEPT ![i].status = "RELEASED"]
       /\ usage' = [usage EXCEPT ![Owner[i]][MonthBooked(i)] =
            [used EXCEPT !.reserved = @ - bookings[i].units,
                         !.released = @ + bookings[i].units]]
       /\ UNCHANGED <<clock, links>>
    \/ /\ bookings[i].status = "RELEASED"
       /\ allocations' = alloc
       /\ UNCHANGED <<clock, bookings, links, usage>>

\* The accounting half of finalize_ai_voice_session: one charge per session,
\* settled at once; a session too short to bill only leaves the charge row.
ChargeVoiceSession(s, month, units, now) ==
    LET alloc == Expire(WithAllowance(allocations, month), now) IN
    /\ Unbooked(s)
    /\ bookings' = [bookings EXCEPT ![s] =
            [status |-> "SETTLED", units |-> units, month |-> month]]
    /\ \/ /\ units = 0
          /\ UNCHANGED <<allocations, links, usage>>
       \/ /\ units > 0
          /\ WithinQuota(Owner[s], month, units)
          /\ \E take \in Draws(alloc, now, units) :
                /\ allocations' = [a \in AllocIds |->
                                      [alloc[a] EXCEPT !.settled = @ + take[a]]]
                /\ links' = [links EXCEPT ![s] = take]
          /\ usage' = [usage EXCEPT ![Owner[s]][month].settled = @ + units]
    /\ UNCHANGED clock

Next ==
    \/ Tick
    \/ \E m \in RequestedMonths(clock) : EnsureMonthlyAllowance(m)
    \/ \E now \in Started :
          \/ GetGroupCreditBalance(now)
          \/ \E g \in Grants : GrantCredits(g, now)
          \/ \E i \in Invocations : ReleaseCredits(i, now)
          \/ \E m \in RequestedMonths(now), i \in Invocations, u \in Prices :
                ReserveCredits(i, m, u, now)
          \/ \E m \in EndedMonths(now), s \in Sessions, u \in VoicePrices :
                ChargeVoiceSession(s, m, u, now)
    \/ \E i \in Invocations : SettleCredits(i)

Spec == Init /\ [][Next]_vars

-----------------------------------------------------------------------------
(* Properties *)

\* The rows hold what the columns of the credit tables can hold; the check
\* constraints of the migration that no counter is negative among them.
TypeOK ==
    /\ clock \in Nat
    /\ allocations \in [AllocIds -> Batch]
    /\ bookings \in [Bookings -> Booking]
    /\ links \in [Bookings -> [AllocIds -> Nat]]
    /\ usage \in [Actors -> [Months -> [reserved : Nat, settled : Nat, released : Nat]]]

DrawnFrom(a, status) ==
    Total([b \in Bookings |-> links[b][a]], {b \in Bookings : bookings[b].status = status})

\* Every counter of a batch is explained by the bookings that draw from it:
\* reserve, settle, release, voice charges and sweeps, in any order and with
\* stale clocks, lose or invent no credit.
LedgerBalances ==
    \A a \in AllocIds :
        /\ allocations[a].reserved = DrawnFrom(a, "RESERVED")
        /\ allocations[a].settled = DrawnFrom(a, "SETTLED")
        /\ allocations[a].released = DrawnFrom(a, "RELEASED")

BookedBy(x, m, status) ==
    Total([b \in Bookings |-> bookings[b].units],
        {b \in Bookings : Owner[b] = x /\ bookings[b].month = m /\ bookings[b].status = status})

\* The usage row an actor's quota is checked against is the sum of the actor's
\* bookings of that month, the ones closed in a later month included.
UsageMatchesBookings ==
    \A x \in Actors, m \in Months :
        /\ usage[x][m].reserved = BookedBy(x, m, "RESERVED")
        /\ usage[x][m].settled = BookedBy(x, m, "SETTLED")
        /\ usage[x][m].released = BookedBy(x, m, "RELEASED")

\* Both books, of the batches and of the actors, agree with the bookings: the
\* counters are written at different places and by every function.
BooksBalance == LedgerBalances /\ UsageMatchesBookings

\* However transactions race and sweeps interleave, no batch is drawn beyond
\* its credits and no actor beyond the quota of a month.
LimitsHold ==
    /\ \A a \in AllocIds : Available(allocations[a]) >= 0
    /\ \A x \in Actors, m \in Months :
          usage[x][m].reserved + usage[x][m].settled <= Quota[x]

\* No reservation can get stuck: the state checks of settle and release, which
\* raise AI_CREDIT_*_STATE_INVALID, hold for every open reservation.
OpenReservationsCanClose ==
    \A i \in Invocations : bookings[i].status = "RESERVED" => Accountable(i)

\* Once no transaction that started before a batch's expiry can still run, no
\* step draws on the batch and no release makes its credits spendable again.
ExpiredBatchesStayShut ==
    [][\A a \in AllocIds :
          allocations[a].amount > 0 /\ allocations[a].expiresAt + MaxWait <= clock =>
              /\ Available(allocations'[a]) <= Available(allocations[a])
              /\ allocations'[a].reserved <= allocations[a].reserved
              /\ allocations'[a].reserved + allocations'[a].settled
                    <= allocations[a].reserved + allocations[a].settled]_vars

\* A batch is only drawn on when every batch that expires sooner, and that the
\* same transaction could use, has been emptied: credits do not lapse needlessly.
SoonestExpiryFirst ==
    [][\A a, b \in AllocIds :
          /\ allocations'[a].reserved + allocations'[a].settled
                > allocations[a].reserved + allocations[a].settled
          /\ allocations'[b].expiresAt < allocations'[a].expiresAt
          /\ allocations'[b].expiresAt > clock
          => Available(allocations'[b]) = 0]_vars

\* The bookings of the ledger follow the contract of the credit service: settling
\* and releasing happen once and are final, whatever is retried.
Contract == INSTANCE CreditContract WITH
    Metered <- Sessions, Found <- {}, credit <- [b \in Bookings |-> bookings[b].status]
KeepsCreditContract == Contract!Spec
=============================================================================
