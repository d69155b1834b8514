------------------------ MODULE AiProviderSafetyProofs ------------------------
(***************************************************************************)
(* For any number of invocations, any caps and any lease: no hour or day    *)
(* sees more calls than its cap, and never are too many under way that     *)
(* hold a lease.                                                           *)
(*                                                                         *)
(* An instant read before the wait for the lock lies in the past, so what   *)
(* is counted against it contains every lease of its own window and every   *)
(* lease that is still active now.  Every call under way has such a lease   *)
(* if a lease outlasts the delay and the call together.                     *)
(***************************************************************************)
EXTENDS AiProviderSafety, FiniteSetTheorems, TLAPS

\* Requests and calls are no older than the clock lets them become.
Timely ==
    \A i \in Invocations :
        /\ since[i] <= clock
        /\ phase[i] \in {"asking", "granted"} => clock <= since[i] + MaxDelay
        /\ phase[i] = "calling" => clock <= since[i] + CallTime

\* Whoever may call, or calls, holds a lease, and one that lasts until the call
\* ends where leases are long enough for that.
Covered ==
    \A i \in Invocations :
        /\ phase[i] = "granted" =>
              /\ lease[i].status = "ACTIVE"
              /\ LeaseCoversCall => since[i] + MaxDelay + CallTime < lease[i].expiresAt
        /\ phase[i] = "calling" =>
              /\ lease[i].status = "ACTIVE"
              /\ LeaseCoversCall => since[i] + CallTime < lease[i].expiresAt
        /\ phase[i] = "called" => lease[i].status = "ACTIVE"

ActiveWithinCap == Cardinality(Active(clock)) <= MaxConcurrent

IInv == TypeOK /\ Timely /\ Covered /\ ActiveWithinCap /\ VolumeCapsHold

-----------------------------------------------------------------------------
\* An instant is not before the start of the window it lies in.
LEMMA WindowStart ==
    ASSUME NEW r \in Nat, NEW length \in Nat \ {0}
    PROVE  (r \div length) * length <= r
  OBVIOUS

\* A set that gains one element at most stays within a cap it had not reached.
LEMMA RoomForOne ==
    ASSUME NEW S, IsFiniteSet(S), NEW T, NEW e, T \subseteq S \cup {e},
           NEW cap \in Nat, Cardinality(S) < cap
    PROVE  Cardinality(T) <= cap
<1>0. Cardinality(S) \in Nat
  BY FS_CardinalityType
<1>1. /\ IsFiniteSet(S \cup {e})
      /\ Cardinality(S \cup {e}) <= Cardinality(S) + 1
  <2>1. CASE e \in S
    <3>1. S \cup {e} = S
      BY <2>1
    <3> QED  BY <1>0, <3>1
  <2>2. CASE e \notin S
    <3>1. /\ IsFiniteSet(S \cup {e})
          /\ Cardinality(S \cup {e}) =
               IF e \in S THEN Cardinality(S) ELSE Cardinality(S) + 1
      BY FS_AddElement, Zenon
    <3> QED  BY <1>0, <2>2, <3>1
  <2> QED  BY <2>1, <2>2
<1>2. /\ Cardinality(T) <= Cardinality(S \cup {e})
      /\ Cardinality(T) \in Nat
      /\ Cardinality(S \cup {e}) \in Nat
  BY <1>1, FS_Subset, FS_CardinalityType
<1> QED  BY <1>0, <1>1, <1>2

\* A set that only loses elements stays within its cap.
LEMMA FewerStayWithin ==
    ASSUME NEW S, IsFiniteSet(S), NEW T, T \subseteq S,
           NEW cap \in Nat, Cardinality(S) <= cap
    PROVE  Cardinality(T) <= cap
  BY FS_Subset, FS_CardinalityType

\* What is counted is finite, whatever the leases are.
LEMMA LeasesAreFinite ==
    ASSUME SafetyAssumption
    PROVE  /\ IsFiniteSet(Leased)
           /\ \A now : IsFiniteSet(Active(now))
           /\ \A now, length : IsFiniteSet(Counted(now, length))
           /\ \A w, length : IsFiniteSet(Within(w, length))
<1>1. IsFiniteSet(Leased)
  BY FS_Subset DEF SafetyAssumption, Leased
<1> QED  BY <1>1, FS_Subset DEF Active, Counted, Within

-----------------------------------------------------------------------------
LEMMA InitEstablishes ==
    ASSUME SafetyAssumption, Init
    PROVE  IInv
<1>1. TypeOK
  BY DEF SafetyAssumption, Init, TypeOK, Phases, NoLease, Leased
<1>2. Timely /\ Covered
  BY DEF SafetyAssumption, Init, Timely, Covered
<1>3. Leased = {}
  BY DEF Init, Leased, NoLease
<1>4. /\ Active(clock) = {}
      /\ \A w, length : Within(w, length) = {}
  BY <1>3 DEF Active, Within
<1>5. Cardinality({}) = 0
  BY FS_EmptySet
<1>6. ActiveWithinCap /\ VolumeCapsHold
  BY <1>4, <1>5 DEF SafetyAssumption, ActiveWithinCap, VolumeCapsHold
<1> QED  BY <1>1, <1>2, <1>6 DEF IInv

\* Time passes only while every request and every call may still go on, and
\* makes leases expire.
LEMMA TickPreserves ==
    ASSUME SafetyAssumption, IInv, Tick
    PROVE  IInv'
<1>1. TypeOK'
  BY DEF SafetyAssumption, IInv, TypeOK, Tick, Leased
<1>2. Timely'
  BY DEF SafetyAssumption, IInv, TypeOK, Timely, Tick
<1>3. Covered'
  BY DEF IInv, Covered, Tick
<1>4. Active(clock)' \subseteq Active(clock)
  BY DEF IInv, TypeOK, Tick, Active, Leased
<1>5. ActiveWithinCap'
  <2>1. MaxConcurrent \in Nat
    BY DEF SafetyAssumption
  <2> QED
    BY <1>4, <2>1, LeasesAreFinite, FewerStayWithin DEF IInv, ActiveWithinCap
<1>6. VolumeCapsHold'
  BY DEF IInv, Tick, VolumeCapsHold, Within, Leased
<1> QED  BY <1>1, <1>2, <1>3, <1>5, <1>6 DEF IInv

\* The lease of a grant is the only step that counts: it finds room in its
\* window and among the active leases, both measured at the instant it read.
LEMMA GrantPreserves ==
    ASSUME SafetyAssumption, IInv, NEW i \in Invocations, Grant(i)
    PROVE  IInv'
<1> DEFINE now == since[i]
<1>0. /\ now \in Nat
      /\ now <= clock
      /\ clock \in Nat
      /\ MaxConcurrent \in Nat
      /\ MaxCallsPerHour \in Nat
      /\ MaxCallsPerDay \in Nat
      /\ HourLength \in Nat \ {0}
      /\ DayLength \in Nat \ {0}
      /\ LeaseTime \in Nat \ {0}
      /\ MaxDelay \in Nat
      /\ CallTime \in Nat
  BY DEF SafetyAssumption, IInv, TypeOK, Timely
<1>1. /\ lease' = [lease EXCEPT ![i] = NewLease(now)]
      /\ phase' \in [Invocations -> Phases]
      /\ phase'[i] \in {"granted", "over"}
      /\ \A j \in Invocations \ {i} : phase'[j] = phase[j]
      /\ clock' = clock /\ since' = since
  BY DEF IInv, TypeOK, Grant, Phases
<1>2. /\ NewLease(now) \in [status : {"NONE", "ACTIVE", "COMPLETED"},
                            reservedAt : Nat, expiresAt : Nat]
      /\ NewLease(now).status = "ACTIVE"
      /\ NewLease(now).reservedAt = now
      /\ NewLease(now).expiresAt = now + LeaseTime
  BY <1>0 DEF NewLease
<1>3. /\ lease'[i] = NewLease(now)
      /\ \A j \in Invocations \ {i} : lease'[j] = lease[j]
  BY <1>1 DEF IInv, TypeOK
<1> HIDE DEF now
<1>4. TypeOK'
  <2>1. lease' \in [Invocations -> [status : {"NONE", "ACTIVE", "COMPLETED"},
                                    reservedAt : Nat, expiresAt : Nat]]
    BY <1>1, <1>2 DEF IInv, TypeOK
  <2>2. \A j \in Leased' : lease'[j].expiresAt > lease'[j].reservedAt
    BY <1>0, <1>2, <1>3 DEF IInv, TypeOK, Leased
  <2> QED  BY <1>1, <2>1, <2>2 DEF IInv, TypeOK
<1>5. Timely'
  <2>1. phase[i] = "asking"
    BY DEF Grant
  <2> QED  BY <1>0, <1>1, <2>1 DEF IInv, Timely
<1>6. Covered'
  <2>1. LeaseCoversCall => since[i] + MaxDelay + CallTime < now + LeaseTime
    BY <1>0 DEF LeaseCoversCall, now
  <2> QED  BY <1>1, <1>2, <1>3, <2>1 DEF IInv, Covered
<1>7. ActiveWithinCap'
  <2>1. Active(clock)' \subseteq Active(now) \cup {i}
    BY <1>0, <1>1, <1>3 DEF IInv, TypeOK, Active, Leased
  <2>2. Cardinality(Active(now)) < MaxConcurrent
    BY DEF Grant, now
  <2> QED
    BY <1>0, <2>1, <2>2, LeasesAreFinite, RoomForOne DEF ActiveWithinCap
<1>8. ASSUME NEW window \in 0 .. MaxClock, NEW length \in Nat \ {0}, NEW cap \in Nat,
             Cardinality(Counted(now, length)) < cap,
             Cardinality(Within(window, length)) <= cap
      PROVE  Cardinality(Within(window, length)') <= cap
  <2>1. CASE now \div length = window
    <3>1. Within(window, length)' \subseteq Counted(now, length) \cup {i}
      <4> SUFFICES ASSUME NEW j \in Invocations \ {i}, lease[j].status # "NONE",
                          lease[j].reservedAt \div length = window
                   PROVE  lease[j].reservedAt >= StartOf(now, length)
        BY <1>3 DEF Within, Leased, Counted
      <4>1. lease[j].reservedAt \in Nat
        BY DEF IInv, TypeOK
      <4> QED  BY <2>1, <4>1, WindowStart DEF StartOf
    <3> QED  BY <1>8, <3>1, LeasesAreFinite, RoomForOne
  <2>2. CASE now \div length # window
    <3>1. Within(window, length)' \subseteq Within(window, length)
      BY <1>2, <1>3, <2>2 DEF Within, Leased
    <3> QED  BY <1>8, <3>1, LeasesAreFinite, FewerStayWithin
  <2> QED  BY <2>1, <2>2
<1>9. VolumeCapsHold'
  <2>1. /\ Cardinality(Counted(now, HourLength)) < MaxCallsPerHour
        /\ Cardinality(Counted(now, DayLength)) < MaxCallsPerDay
    BY DEF Grant, now
  <2> QED  BY <1>0, <1>8, <2>1 DEF IInv, VolumeCapsHold
<1> QED  BY <1>4, <1>5, <1>6, <1>7, <1>9 DEF IInv

\* No other step of an invocation adds a lease or makes one active.
LEMMA OthersPreserve ==
    ASSUME SafetyAssumption, IInv, NEW i \in Invocations,
           Ask(i) \/ Block(i) \/ Call(i) \/ Return(i) \/ Complete(i) \/ Die(i)
    PROVE  IInv'
<1>0. /\ clock' = clock
      /\ clock \in Nat
      /\ MaxDelay \in Nat
      /\ CallTime \in Nat
      /\ MaxConcurrent \in Nat
      /\ MaxCallsPerHour \in Nat
      /\ MaxCallsPerDay \in Nat
  BY DEF SafetyAssumption, IInv, TypeOK, Ask, Block, Call, Return, Complete, Die
<1>1. /\ lease' \in [Invocations -> [status : {"NONE", "ACTIVE", "COMPLETED"},
                                     reservedAt : Nat, expiresAt : Nat]]
      /\ \A j \in Invocations :
            /\ lease'[j].reservedAt = lease[j].reservedAt
            /\ lease'[j].expiresAt = lease[j].expiresAt
            /\ lease'[j].status = "ACTIVE" => lease[j].status = "ACTIVE"
            /\ lease'[j].status # "NONE" => lease[j].status # "NONE"
  <2>1. CASE Complete(i)
    <3>1. lease[i].status = "ACTIVE"
      BY <2>1 DEF IInv, Covered, Complete
    <3>2. [lease[i] EXCEPT !.status = "COMPLETED"] \in
             [status : {"NONE", "ACTIVE", "COMPLETED"}, reservedAt : Nat, expiresAt : Nat]
      BY DEF IInv, TypeOK
    <3> QED  BY <2>1, <3>1, <3>2 DEF IInv, TypeOK, Complete
  <2>2. CASE UNCHANGED lease
    BY <2>2 DEF IInv, TypeOK
  <2> QED  BY <2>1, <2>2 DEF Ask, Block, Call, Return, Die
<1>2. TypeOK'
  <2>1. phase' \in [Invocations -> Phases] /\ since' \in [Invocations -> Nat]
    BY <1>0 DEF IInv, TypeOK, Phases, Ask, Block, Call, Return, Complete, Die
  <2>2. \A j \in Leased' : lease'[j].expiresAt > lease'[j].reservedAt
    BY <1>1 DEF IInv, TypeOK, Leased
  <2> QED  BY <1>0, <1>1, <2>1, <2>2 DEF IInv, TypeOK
<1>3. Timely' /\ Covered'
  <2>1. CASE Ask(i)
    BY <1>0, <2>1 DEF IInv, TypeOK, Timely, Covered, Ask
  <2>2. CASE Call(i)
    BY <1>0, <2>2 DEF IInv, TypeOK, Timely, Covered, Call
  <2>3. CASE Return(i) \/ Block(i) \/ Die(i)
    BY <1>0, <2>3 DEF IInv, TypeOK, Timely, Covered, Return, Block, Die
  <2>4. CASE Complete(i)
    BY <1>0, <2>4 DEF IInv, TypeOK, Timely, Covered, Complete
  <2> QED  BY <2>1, <2>2, <2>3, <2>4
<1>4. ActiveWithinCap'
  <2>1. Active(clock)' \subseteq Active(clock)
    BY <1>0, <1>1 DEF Active, Leased
  <2> QED
    BY <1>0, <2>1, LeasesAreFinite, FewerStayWithin DEF IInv, ActiveWithinCap
<1>5. VolumeCapsHold'
  <2>1. \A w, length : Within(w, length)' \subseteq Within(w, length)
    BY <1>1 DEF Within, Leased
  <2> QED
    BY <1>0, <2>1, LeasesAreFinite, FewerStayWithin DEF IInv, VolumeCapsHold
<1> QED  BY <1>2, <1>3, <1>4, <1>5 DEF IInv

\* The inductive invariant of the provider gate holds in every reachable state.
THEOREM SafetyInvariant == Spec => []IInv
<1>1. Init => IInv
  BY SafetyAssumption, InitEstablishes
<1>2. IInv /\ [Next]_vars => IInv'
  <2> SUFFICES ASSUME IInv, [Next]_vars PROVE IInv'
    OBVIOUS
  <2>1. CASE Tick
    BY <2>1, SafetyAssumption, TickPreserves
  <2>2. CASE \E i \in Invocations : Grant(i)
    BY <2>2, SafetyAssumption, GrantPreserves
  <2>3. CASE \E i \in Invocations :
                Ask(i) \/ Block(i) \/ Call(i) \/ Return(i) \/ Complete(i) \/ Die(i)
    BY <2>3, SafetyAssumption, OthersPreserve
  <2>4. CASE UNCHANGED vars
    BY <2>4 DEF IInv, TypeOK, Timely, Covered, ActiveWithinCap, VolumeCapsHold,
                Active, Within, Leased, vars
  <2> QED  BY <2>1, <2>2, <2>3, <2>4 DEF Next
<1> QED  BY <1>1, <1>2, PTL DEF Spec

\* Types are preserved, and every lease expires after it was reserved.
THEOREM SafetyTypes == Spec => []TypeOK
<1>1. IInv => TypeOK
  BY DEF IInv
<1> QED  BY <1>1, SafetyInvariant, PTL

\* No hour and no day sees more provider calls than its cap, however long a
\* request waited for the lock after it read the clock.
THEOREM VolumeIsCapped == Spec => []VolumeCapsHold
<1>1. IInv => VolumeCapsHold
  BY DEF IInv
<1> QED  BY <1>1, SafetyInvariant, PTL

\* Never are more than MaxConcurrent provider calls under way that hold a lease,
\* whatever the lease is; and none are under way besides these where a lease
\* outlasts the delay before the call and the call itself.
THEOREM ConcurrencyIsCapped == Spec => []CallsWithinConcurrency
<1>1. IInv => CallsWithinConcurrency
  <2> SUFFICES ASSUME IInv PROVE CallsWithinConcurrency
    OBVIOUS
  <2>1. LeaseCoversCall => Calling \subseteq Active(clock)
    BY SafetyAssumption DEF SafetyAssumption, IInv, TypeOK, Timely, Covered, Active, Leased, Calling
  <2>2. MaxConcurrent \in Nat
    BY SafetyAssumption DEF SafetyAssumption
  <2>3. ASSUME NEW calls, calls \subseteq Active(clock)
        PROVE  Cardinality(calls) <= MaxConcurrent
    BY <2>2, <2>3, SafetyAssumption, LeasesAreFinite, FewerStayWithin DEF IInv, ActiveWithinCap
  <2> QED  BY <2>1, <2>3 DEF CallsWithinConcurrency
<1> QED  BY <1>1, SafetyInvariant, PTL
=============================================================================
