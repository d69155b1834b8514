---------------------------- MODULE AiVoiceProofs ----------------------------
(***************************************************************************)
(* Proofs about AiVoice for every set of sessions, actors and requests,     *)
(* every duration, allowance and batch, and both rights of the wrapper:     *)
(* sessions and charges agree, ends are final, waiting is free, no actor is *)
(* charged more than is left, and nothing is charged twice.  What is        *)
(* charged is a sum over sessions: the facts about sums are those of        *)
(* AiCreditsProofs, whose variables keep that module from being extended    *)
(* here.                                                                    *)
(***************************************************************************)
EXTENDS AiVoice, FiniteSetTheorems, TLAPS

Rows == [status : {"NONE", "ACTIVE"} \cup Ends, startedAt : Nat, endedAt : Nat,
         credit : {"PENDING", "SETTLED"}, duration : Nat]
Charges == [status : {"NONE"} \cup Ends, endedAt : Nat, duration : Nat]
Requested == [phase : {"unsent", "denied", "sent", "locked", "refused", "charged"},
              session : {0} \cup Sessions, now : Nat, requested : Ends]

\* The types of everything but the credits that are left.
Types ==
    /\ clock \in Nat
    /\ row \in [Sessions -> Rows]
    /\ charge \in [Sessions -> Charges]
    /\ creating \subseteq Sessions
    /\ call \in [Calls -> Requested]

ChargedBy(c, s) == call[c].phase = "charged" /\ call[c].session = s

\* No request about a session arrived before an instant that has passed.
BeforeRequests(s, instant) ==
    /\ instant <= clock
    /\ \A c \in Calls :
          call[c].phase # "unsent" /\ call[c].session = s => instant <= call[c].now

\* An ended session ended at its deadline, when a request that charged it had
\* arrived, or, when its members could not be stored, before any request.
EndsInTime ==
    \A s \in Sessions : row[s].status \in Ends =>
        \/ row[s].endedAt = Deadline(s) /\ Deadline(s) <= clock
        \/ \E c \in Calls : ChargedBy(c, s) /\ row[s].endedAt <= call[c].now
        \/ BeforeRequests(s, row[s].endedAt)

\* Only ended sessions are charged.
ChargedHasEnded == \A s \in Sessions : charge[s] # NoCharge => row[s].status \in Ends

\* A team session whose members are being stored can neither end nor expire.
CreatedIsActive ==
    \A s \in creating : row[s].status = "ACTIVE" /\ clock < Deadline(s)

\* A request is about a session that has been created; who holds the lock is one.
RequestsKnowSession ==
    \A c \in Calls :
        /\ call[c].phase # "unsent" =>
              /\ call[c].session \in Sessions \ creating
              /\ row[call[c].session].status # "NONE"
        /\ holder = c => call[c].phase = "locked"

\* The inductive invariant.
IInv == /\ Types /\ SettledMatchesCharge /\ EndsInTime /\ ChargedHasEnded
        /\ CreatedIsActive /\ RequestsKnowSession

-----------------------------------------------------------------------------
(* Ending and charging                                                      *)

LEMMA CostIsDuration ==
    ASSUME NEW r \in Rows
    PROVE  Cost(r) \in Nat
  <1> DEFINE d == r.endedAt - r.startedAt
             m == Max({0, d})
  <1>1. d \in Int /\ MaxDuration \in Nat
    BY VoiceAssumption DEF Rows
  <1> HIDE DEF d
  <1>2. m \in {0, d} /\ m >= 0
    <2>1. \E x \in {0, d} : \A y \in {0, d} : x >= y
      <3>1. CASE d >= 0
        BY <1>1, <3>1
      <3>2. CASE d < 0
        BY <1>1, <3>2
      <3> QED
        BY <1>1, <3>1, <3>2
    <2>2. m \in {0, d} /\ \A y \in {0, d} : m >= y
      BY <2>1 DEF Max
    <2> QED
      BY <2>2
  <1>3. m \in Nat
    BY <1>1, <1>2
  <1> HIDE DEF m
  <1>4. Min({MaxDuration, m}) \in {MaxDuration, m}
    <2>1. \E x \in {MaxDuration, m} : \A y \in {MaxDuration, m} : x <= y
      <3>1. CASE m <= MaxDuration
        BY <1>1, <1>3, <3>1
      <3>2. CASE m > MaxDuration
        BY <1>1, <1>3, <3>2
      <3> QED
        BY <1>1, <1>3, <3>1, <3>2
    <2> QED
      BY <2>1 DEF Min
  <1> QED
    BY <1>1, <1>3, <1>4 DEF Cost, m, d

\* A session ends at most once; what it was and when it started remain.
LEMMA ClosedRow ==
    ASSUME NEW r \in Rows, r.status # "NONE", NEW end \in Nat, NEW status \in Ends
    PROVE  LET new == Closed(r, end, status) IN
           /\ new \in Rows
           /\ new.status \in Ends
           /\ new.startedAt = r.startedAt /\ new.credit = r.credit
           /\ new.duration = r.duration
           /\ r.status \in Ends => new = r
           /\ new.endedAt \in {r.endedAt, end}
           /\ r.status = "ACTIVE" => new.endedAt = end
  BY DEF Closed, Rows, Ends

LEMMA SettledRow ==
    ASSUME NEW r \in Rows, r.status \in Ends
    PROVE  /\ Settled(r) \in Rows
           /\ Settled(r).status = r.status /\ Settled(r).endedAt = r.endedAt
           /\ Settled(r).startedAt = r.startedAt /\ Settled(r).credit = "SETTLED"
           /\ ChargeOf(r) = [status |-> Settled(r).status, endedAt |-> Settled(r).endedAt,
                             duration |-> Settled(r).duration]
           /\ ChargeOf(r) \in Charges /\ ChargeOf(r) # NoCharge
  <1>1. Cost(r) \in Nat
    BY CostIsDuration
  <1> QED
    BY <1>1 DEF Settled, ChargeOf, Rows, Charges, NoCharge, Ends

\* What a step may do to the sessions: some active ones end, and of the ended
\* ones that were not charged some are.
EndsAndPays(rows, paid) ==
    /\ rows \in [Sessions -> Rows]
    /\ paid \subseteq Sessions
    /\ \A s \in Sessions :
          \/ rows[s] = row[s]
          \/ /\ row[s].status = "ACTIVE" /\ s \notin creating
             /\ rows[s].status \in Ends
             /\ rows[s].startedAt = row[s].startedAt /\ rows[s].credit = row[s].credit
             /\ \/ rows[s].endedAt = Deadline(s) /\ Deadline(s) <= clock
                \/ \E c \in Calls : ChargedBy(c, s)' /\ rows[s].endedAt <= call'[c].now
    /\ \A s \in paid : charge[s] = NoCharge /\ rows[s].status \in Ends
    /\ row' = [s \in Sessions |-> IF s \in paid THEN Settled(rows[s]) ELSE rows[s]]
    /\ charge' = [s \in Sessions |-> IF s \in paid THEN ChargeOf(rows[s]) ELSE charge[s]]

LEMMA EndingEffect ==
    ASSUME IInv, NEW rows, NEW paid, EndsAndPays(rows, paid), NEW s \in Sessions
    PROVE  /\ row'[s] \in Rows /\ charge'[s] \in Charges
           /\ row'[s].startedAt = row[s].startedAt
           /\ row[s].status \in Ends =>
                 row'[s].status = row[s].status /\ row'[s].endedAt = row[s].endedAt
           /\ row'[s].status # row[s].status => row[s].status = "ACTIVE" /\ s \notin creating
           /\ row'[s].status = "NONE" => row[s].status = "NONE"
           /\ row'[s].credit = "SETTLED" <=> charge'[s] # NoCharge
           /\ charge'[s] # NoCharge =>
                 /\ charge'[s] = [status |-> row'[s].status, endedAt |-> row'[s].endedAt,
                                  duration |-> row'[s].duration]
                 /\ row'[s].status \in Ends
           /\ row'[s].status \in Ends =>
                 \/ row[s].status \in Ends
                 \/ row'[s].endedAt = Deadline(s) /\ Deadline(s) <= clock
                 \/ \E c \in Calls : ChargedBy(c, s)' /\ row'[s].endedAt <= call'[c].now
  <1>0. /\ rows[s] \in Rows /\ row[s] \in Rows /\ charge[s] \in Charges
        /\ "ACTIVE" \notin Ends /\ "NONE" \notin Ends
    BY DEF EndsAndPays, IInv, Types, Ends
  <1>1. /\ row[s].credit = "SETTLED" <=> charge[s] # NoCharge
        /\ charge[s] # NoCharge =>
              /\ charge[s] = [status |-> row[s].status, endedAt |-> row[s].endedAt,
                              duration |-> row[s].duration]
              /\ row[s].status \in Ends
    BY DEF IInv, SettledMatchesCharge, ChargedHasEnded
  <1>2. \/ rows[s] = row[s]
        \/ /\ row[s].status = "ACTIVE" /\ s \notin creating
           /\ rows[s].status \in Ends
           /\ rows[s].startedAt = row[s].startedAt /\ rows[s].credit = row[s].credit
           /\ \/ rows[s].endedAt = Deadline(s) /\ Deadline(s) <= clock
              \/ \E c \in Calls : ChargedBy(c, s)' /\ rows[s].endedAt <= call'[c].now
    BY DEF EndsAndPays
  <1>3. CASE s \in paid
    <2>1. /\ row'[s] = Settled(rows[s]) /\ charge'[s] = ChargeOf(rows[s])
          /\ charge[s] = NoCharge /\ rows[s].status \in Ends
      BY <1>3 DEF EndsAndPays
    <2>2. /\ row'[s] \in Rows /\ charge'[s] \in Charges /\ charge'[s] # NoCharge
          /\ row'[s].status = rows[s].status /\ row'[s].endedAt = rows[s].endedAt
          /\ row'[s].startedAt = rows[s].startedAt /\ row'[s].credit = "SETTLED"
          /\ charge'[s] = [status |-> row'[s].status, endedAt |-> row'[s].endedAt,
                           duration |-> row'[s].duration]
      BY <1>0, <2>1, SettledRow
    <2> QED
      BY <1>0, <1>2, <2>1, <2>2
  <1>4. CASE s \notin paid
    <2>1. row'[s] = rows[s] /\ charge'[s] = charge[s]
      BY <1>4 DEF EndsAndPays
    <2> QED
      BY <1>0, <1>1, <1>2, <2>1
  <1> QED
    BY <1>3, <1>4

\* A step that ends or charges sessions, and of the requests moves at most one
\* that was sent.
LEMMA EndingKeeps ==
    ASSUME IInv, NEW rows, NEW paid, EndsAndPays(rows, paid),
           UNCHANGED <<clock, creating>>, call' \in [Calls -> Requested],
           \A c \in Calls :
               /\ call'[c].session = call[c].session /\ call'[c].now = call[c].now
               /\ call'[c].phase # call[c].phase => call[c].phase \notin {"unsent", "charged"}
               /\ call'[c].phase = "unsent" => call[c].phase = "unsent"
               /\ (holder = c)' => call'[c].phase = "locked"
    PROVE  IInv'
  <1>1. Types'
    <2>1. row' \in [Sessions -> Rows] /\ charge' \in [Sessions -> Charges]
      <3>1. /\ DOMAIN row' = Sessions /\ row' = [s \in Sessions |-> row'[s]]
            /\ charge' = [s \in Sessions |-> charge'[s]]
        BY DEF EndsAndPays
      <3> QED
        BY <3>1, EndingEffect
    <2> QED
      BY <2>1 DEF IInv, Types
  <1>2. SettledMatchesCharge' /\ ChargedHasEnded'
    BY EndingEffect DEF SettledMatchesCharge, ChargedHasEnded
  <1>3. EndsInTime'
    <2> SUFFICES ASSUME NEW s \in Sessions, row'[s].status \in Ends
                 PROVE  \/ row'[s].endedAt = Deadline(s)' /\ Deadline(s)' <= clock'
                        \/ \E c \in Calls : ChargedBy(c, s)' /\ row'[s].endedAt <= call'[c].now
                        \/ BeforeRequests(s, row[s].endedAt)'
      BY DEF EndsInTime, BeforeRequests
    <2>1. Deadline(s)' = Deadline(s) /\ clock' = clock
      BY EndingEffect DEF Deadline
    <2>2. CASE row[s].status \in Ends
      <3>1. row'[s].endedAt = row[s].endedAt
        BY <2>2, EndingEffect
      <3>2. CASE row[s].endedAt = Deadline(s) /\ Deadline(s) <= clock
        BY <2>1, <3>1, <3>2
      <3>3. ASSUME NEW c \in Calls, ChargedBy(c, s), row[s].endedAt <= call[c].now
            PROVE  ChargedBy(c, s)' /\ row'[s].endedAt <= call'[c].now
        BY <3>1, <3>3 DEF ChargedBy
      <3>4. CASE BeforeRequests(s, row[s].endedAt)
        BY <2>1, <3>1, <3>4 DEF BeforeRequests
      <3> QED
        BY <2>2, <3>2, <3>3, <3>4 DEF IInv, EndsInTime
    <2> QED
      BY <2>1, <2>2, EndingEffect
  <1>4. CreatedIsActive'
    <2> SUFFICES ASSUME NEW s \in creating
                 PROVE  row'[s].status = "ACTIVE" /\ clock < Deadline(s)'
      BY DEF CreatedIsActive
    <2>1. s \in Sessions /\ row[s].status = "ACTIVE" /\ clock < Deadline(s)
      BY DEF IInv, Types, CreatedIsActive
    <2> QED
      BY <2>1, EndingEffect DEF Deadline
  <1>5. RequestsKnowSession'
    <2> SUFFICES ASSUME NEW c \in Calls, call'[c].phase # "unsent"
                 PROVE  /\ call'[c].session \in Sessions \ creating
                        /\ row'[call'[c].session].status # "NONE"
      BY DEF RequestsKnowSession
    <2>1. /\ call[c].phase # "unsent" /\ call'[c].session = call[c].session
      OBVIOUS
    <2>2. call[c].session \in Sessions \ creating /\ row[call[c].session].status # "NONE"
      BY <2>1 DEF IInv, RequestsKnowSession
    <2> QED
      BY <2>1, <2>2, EndingEffect
  <1> QED
    BY <1>1, <1>2, <1>3, <1>4, <1>5 DEF IInv

\* A step that ends nothing and charges nothing.
LEMMA NothingEnds ==
    ASSUME IInv, UNCHANGED <<row, charge>>
    PROVE  EndsAndPays(row, {})
  BY DEF EndsAndPays, IInv, Types

-----------------------------------------------------------------------------
(* The actions                                                              *)

\* Whom an action ends and charges, and what it does to the requests.
Ending ==
    /\ UNCHANGED <<clock, creating>>
    /\ call' \in [Calls -> Requested]
    /\ \A c \in Calls :
          /\ call'[c].session = call[c].session /\ call'[c].now = call[c].now
          /\ call'[c].phase # call[c].phase => call[c].phase \notin {"unsent", "charged"}
          /\ call'[c].phase = "unsent" => call[c].phase = "unsent"
          /\ (holder = c)' => call'[c].phase = "locked"
    /\ \E rows \in [Sessions -> Rows], paid \in SUBSET Sessions : EndsAndPays(rows, paid)

LEMMA EndingsKeep == IInv /\ Ending => IInv'
  BY EndingKeeps DEF Ending

\* A change of the phase of one request is a change of nothing else of it.
LEMMA PhaseChange ==
    ASSUME IInv, NEW c \in Calls, call[c].phase \in {"sent", "locked"},
           NEW phase \in {"locked", "refused", "charged"},
           call' = [call EXCEPT ![c].phase = phase]
    PROVE  /\ call' \in [Calls -> Requested]
           /\ call'[c].phase = phase
           /\ \A d \in Calls :
                 /\ call'[d].session = call[d].session /\ call'[d].now = call[d].now
                 /\ d # c => call'[d] = call[d]
  <1>1. call \in [Calls -> Requested]
    BY DEF IInv, Types
  <1>2. call'[c] = [call[c] EXCEPT !.phase = phase] /\ \A d \in Calls \ {c} : call'[d] = call[d]
    BY <1>1
  <1>3. /\ [call[c] EXCEPT !.phase = phase] \in Requested
        /\ call'[c].phase = phase /\ call'[c].session = call[c].session
        /\ call'[c].now = call[c].now
    BY <1>1, <1>2 DEF Requested
  <1> QED
    BY <1>1, <1>2, <1>3

LEMMA RequestEnding ==
    ASSUME IInv, NEW c \in Calls, LockPolicy(c) \/ Lose(c)
    PROVE  Ending
  <1>1. \E rows \in [Sessions -> Rows], paid \in SUBSET Sessions : EndsAndPays(rows, paid)
    <2>1. EndsAndPays(row, {})
      BY NothingEnds DEF LockPolicy, Lose
    <2> QED
      BY <2>1 DEF IInv, Types
  <1>2. UNCHANGED <<clock, creating>>
    BY DEF LockPolicy, Lose
  <1>3. call[c].phase \in {"sent", "locked"}
    BY DEF LockPolicy, Lose
  <1>4. \/ /\ holder' = c /\ call' = [call EXCEPT ![c].phase = "locked"]
        \/ /\ holder' = NoCall \/ (holder' = holder /\ holder # c)
           /\ call' = [call EXCEPT ![c].phase = "refused"]
        \/ /\ holder = NoCall /\ holder' = holder
           /\ call' = [call EXCEPT ![c].phase = "refused"]
    BY DEF LockPolicy, Lose
  <1>5. \A d \in Calls : (holder = d)' => call'[d].phase = "locked"
    BY <1>3, <1>4, PhaseChange, VoiceAssumption DEF IInv, RequestsKnowSession
  <1>6. \E phase \in {"locked", "refused"} : call' = [call EXCEPT ![c].phase = phase]
    BY <1>4
  <1> QED
    BY <1>1, <1>2, <1>3, <1>5, <1>6, PhaseChange DEF Ending

LEMMA FinalizeEnding ==
    ASSUME IInv, NEW c \in Calls, Finalize(c)
    PROVE  Ending
  <1> DEFINE s == call[c].session
             rows == [row EXCEPT ![s] = Closed(row[s], Instant(c), call[c].requested)]
  <1>1. holder = c /\ call[c].phase = "locked"
    BY DEF Finalize, IInv, RequestsKnowSession
  <1>2. s \in Sessions \ creating /\ row[s].status # "NONE" /\ row[s] \in Rows
    BY <1>1 DEF IInv, RequestsKnowSession, Types
  <1>3. call[c].now \in Nat /\ call[c].requested \in Ends
    BY DEF IInv, Types, Requested
  <1>4. /\ UNCHANGED <<clock, creating>> /\ holder' = NoCall
        /\ call' = [call EXCEPT ![c].phase = IF charge'[s] # NoCharge THEN "charged" ELSE "refused"]
    BY DEF Finalize
  <1>5. PICK phase \in {"charged", "refused"} :
            /\ call' = [call EXCEPT ![c].phase = phase]
            /\ charge'[s] # NoCharge => phase = "charged"
    BY <1>4
  <1>6. /\ call' \in [Calls -> Requested] /\ call'[c].phase = phase
        /\ \A d \in Calls :
              /\ call'[d].session = call[d].session /\ call'[d].now = call[d].now
              /\ d # c => call'[d] = call[d]
    BY <1>1, <1>5, PhaseChange
  <1>7. \E new \in [Sessions -> Rows], paid \in SUBSET Sessions : EndsAndPays(new, paid)
    <2>1. CASE UNCHANGED <<row, charge, left>>
      <3>1. EndsAndPays(row, {})
        BY <2>1, NothingEnds
      <3> QED
        BY <3>1 DEF IInv, Types
    <2>2. CASE MayCharge(rows, s, {}) /\ Charge(rows, {s})
      <3>1. /\ rows[s] = Closed(row[s], call[c].now, call[c].requested)
            /\ \A t \in Sessions \ {s} : rows[t] = row[t]
        BY <1>2 DEF IInv, Types, Instant
      <3>2. /\ rows[s] \in Rows /\ rows[s].status \in Ends
            /\ rows[s].startedAt = row[s].startedAt /\ rows[s].credit = row[s].credit
            /\ row[s].status \in Ends => rows[s] = row[s]
            /\ row[s].status = "ACTIVE" => rows[s].endedAt = call[c].now
        BY <1>2, <1>3, <3>1, ClosedRow
      <3>3. rows \in [Sessions -> Rows]
        BY <1>2, <3>1, <3>2 DEF IInv, Types
      <3> HIDE DEF rows
      <3>4. /\ charge[s] = NoCharge
            /\ row' = [t \in Sessions |-> IF t \in {s} THEN Settled(rows[t]) ELSE rows[t]]
            /\ charge' = [t \in Sessions |-> IF t \in {s} THEN ChargeOf(rows[t]) ELSE charge[t]]
        BY <2>2 DEF MayCharge, Charge
      <3>5. charge'[s] # NoCharge
        BY <1>2, <3>2, <3>4, SettledRow
      <3>6. /\ call'[c].phase = "charged" /\ call'[c].session = s
            /\ call'[c].now = call[c].now
        BY <1>5, <1>6, <3>5
      <3>7. row[s].status \in Ends \/ row[s].status = "ACTIVE"
        BY <1>2 DEF Rows
      <3>8. row[s].status = "ACTIVE" =>
                /\ call'[c].phase = "charged" /\ call'[c].session = s
                /\ rows[s].endedAt <= call'[c].now
        BY <1>3, <3>2, <3>6
      <3>9. EndsAndPays(rows, {s})
        <4>1. \A t \in Sessions :
                \/ rows[t] = row[t]
                \/ /\ row[t].status = "ACTIVE" /\ t \notin creating
                   /\ rows[t].status \in Ends
                   /\ rows[t].startedAt = row[t].startedAt /\ rows[t].credit = row[t].credit
                   /\ \E d \in Calls : ChargedBy(d, t)' /\ rows[t].endedAt <= call'[d].now
          <5>1. CASE row[s].status \in Ends
            BY <3>1, <3>2, <5>1
          <5>2. CASE row[s].status = "ACTIVE"
            BY <1>2, <3>1, <3>2, <3>8, <5>2 DEF ChargedBy
          <5> QED
            BY <3>7, <5>1, <5>2
        <4>2. \A t \in {s} : charge[t] = NoCharge /\ rows[t].status \in Ends
          BY <3>2, <3>4
        <4> QED
          BY <1>2, <3>3, <3>4, <4>1, <4>2 DEF EndsAndPays
      <3> QED
        BY <1>2, <3>3, <3>9
    <2> QED
      BY <2>1, <2>2 DEF Finalize
  <1> QED
    BY <1>1, <1>4, <1>6, <1>7, VoiceAssumption DEF Ending

\* The reaper ends overdue sessions at their deadline, and those have their members.
LEMMA MarkedRows ==
    ASSUME IInv, NEW batch \in SUBSET Candidates
    PROVE  /\ Marked(batch) \in [Sessions -> Rows]
           /\ \A s \in Sessions :
                 \/ Marked(batch)[s] = row[s]
                 \/ /\ row[s].status = "ACTIVE" /\ s \notin creating
                    /\ Marked(batch)[s].status \in Ends
                    /\ Marked(batch)[s].startedAt = row[s].startedAt
                    /\ Marked(batch)[s].credit = row[s].credit
                    /\ Marked(batch)[s].endedAt = Deadline(s) /\ Deadline(s) <= clock
           /\ \A s \in batch : Marked(batch)[s].status \in Ends
  <1>1. ASSUME NEW s \in batch
        PROVE  /\ Expired(s) \in Rows /\ Expired(s).status \in Ends
               /\ \/ Expired(s) = row[s]
                  \/ /\ row[s].status = "ACTIVE" /\ s \notin creating
                     /\ Expired(s).startedAt = row[s].startedAt
                     /\ Expired(s).credit = row[s].credit
                     /\ Expired(s).endedAt = Deadline(s) /\ Deadline(s) <= clock
    <2>1. /\ s \in Sessions /\ row[s] \in Rows /\ row[s].status # "NONE"
          /\ \/ row[s].status = "ACTIVE" /\ Deadline(s) <= clock
             \/ row[s].status \in Ends
      BY DEF Candidates, Known, IInv, Types
    <2>2. Deadline(s) \in Nat /\ clock \in Nat /\ "ENDED" \in Ends
      BY <2>1, VoiceAssumption DEF Deadline, Rows, Ends, IInv, Types
    <2>3. row[s].status = "ACTIVE" => s \notin creating
      BY <2>1, <2>2 DEF IInv, CreatedIsActive, Ends
    <2> QED
      BY <2>1, <2>2, <2>3, ClosedRow DEF Expired
  <1>2. batch \subseteq Sessions
    BY DEF Candidates, Known
  <1> QED
    BY <1>1, <1>2 DEF Marked, IInv, Types

LEMMA RecoverEnding ==
    ASSUME IInv, Recover
    PROVE  Ending
  <1>1. ASSUME NEW candidates \in SUBSET Candidates
        PROVE  Batch(candidates) \in SUBSET Candidates
    BY <1>1 DEF Batch, FirstOf
  <1>2. \E batch \in SUBSET Candidates, paid \in SUBSET Sessions :
            /\ paid \subseteq batch /\ \A s \in paid : charge[s] = NoCharge
            /\ row' = [s \in Sessions |->
                          IF s \in paid THEN Settled(Marked(batch)[s]) ELSE Marked(batch)[s]]
            /\ charge' = [s \in Sessions |->
                          IF s \in paid THEN ChargeOf(Marked(batch)[s]) ELSE charge[s]]
    <2>1. CASE Reap
      <3>1. PICK paid \in SUBSET Candidates :
                /\ paid \subseteq Batch(Candidates)
                /\ \A s \in Batch(Candidates) :
                      s \in paid <=> MayCharge(Marked(Batch(Candidates)), s,
                                               {t \in paid : TakenBefore(t, s)})
                /\ Charge(Marked(Batch(Candidates)), paid)
        BY <2>1 DEF Reap
      <3>2. \A s \in paid : charge[s] = NoCharge
        BY <3>1 DEF MayCharge
      <3>3. paid \in SUBSET Sessions
        BY DEF Candidates, Known
      <3> QED
        BY <1>1, <3>1, <3>2, <3>3 DEF Charge
    <2>2. CASE ReapWithoutPolicy
      <3>1. PICK batch \in SUBSET Candidates : row' = Marked(batch)
        BY <1>1, <2>2 DEF ReapWithoutPolicy
      <3>2. charge' = charge /\ charge \in [Sessions -> Charges]
        BY <2>2 DEF ReapWithoutPolicy, IInv, Types
      <3>3. /\ row' = [s \in Sessions |->
                   IF s \in {} THEN Settled(Marked(batch)[s]) ELSE Marked(batch)[s]]
            /\ charge' = [s \in Sessions |->
                   IF s \in {} THEN ChargeOf(Marked(batch)[s]) ELSE charge[s]]
        BY <3>1, <3>2 DEF Marked
      <3>4. /\ {} \in SUBSET Sessions /\ {} \subseteq batch
            /\ \A s \in {} : charge[s] = NoCharge
        OBVIOUS
      <3> QED
        BY <3>3, <3>4, Zenon
    <2> QED
      BY <2>1, <2>2 DEF Recover
  <1>3. \E rows \in [Sessions -> Rows], paid \in SUBSET Sessions : EndsAndPays(rows, paid)
    <2>1. PICK batch \in SUBSET Candidates, paid \in SUBSET Sessions :
            /\ paid \subseteq batch /\ \A s \in paid : charge[s] = NoCharge
            /\ row' = [s \in Sessions |->
                          IF s \in paid THEN Settled(Marked(batch)[s]) ELSE Marked(batch)[s]]
            /\ charge' = [s \in Sessions |->
                          IF s \in paid THEN ChargeOf(Marked(batch)[s]) ELSE charge[s]]
      BY <1>2
    <2>2. EndsAndPays(Marked(batch), paid)
      <3> DEFINE rows == Marked(batch)
      <3>1. /\ rows \in [Sessions -> Rows]
            /\ \A s \in Sessions :
                 \/ rows[s] = row[s]
                 \/ /\ row[s].status = "ACTIVE" /\ s \notin creating
                    /\ rows[s].status \in Ends
                    /\ rows[s].startedAt = row[s].startedAt /\ rows[s].credit = row[s].credit
                    /\ rows[s].endedAt = Deadline(s) /\ Deadline(s) <= clock
            /\ \A s \in batch : rows[s].status \in Ends
        BY MarkedRows
      <3>2. /\ row' = [s \in Sessions |-> IF s \in paid THEN Settled(rows[s]) ELSE rows[s]]
            /\ charge' = [s \in Sessions |-> IF s \in paid THEN ChargeOf(rows[s]) ELSE charge[s]]
        BY <2>1
      <3> HIDE DEF rows
      <3>3. EndsAndPays(rows, paid)
        BY <2>1, <3>1, <3>2 DEF EndsAndPays
      <3> QED
        BY <3>3 DEF rows
    <2> QED
      BY <2>2, MarkedRows
  <1>4. UNCHANGED <<clock, creating, call, holder>>
    BY DEF Recover, Reap, ReapWithoutPolicy
  <1> QED
    BY <1>3, <1>4 DEF Ending, IInv, Types, RequestsKnowSession

LEMMA OthersEnding ==
    ASSUME IInv, SetPolicy \/ \E a \in Actors : Replenish(a)
    PROVE  Ending
  <1>1. EndsAndPays(row, {}) /\ UNCHANGED <<clock, creating, call, holder>>
    BY NothingEnds DEF SetPolicy, Replenish
  <1> QED
    BY <1>1 DEF Ending, IInv, Types, RequestsKnowSession

LEMMA TickKeeps ==
    ASSUME IInv, Tick
    PROVE  IInv'
  <1>1. /\ UNCHANGED <<row, charge, creating, call, holder>>
        /\ clock' = clock + 1 /\ \A s \in creating : clock + 1 < Deadline(s)
    BY DEF Tick
  <1>2. EndsInTime'
    <2> SUFFICES ASSUME NEW s \in Sessions, row[s].status \in Ends
                 PROVE  \/ row[s].endedAt = Deadline(s) /\ Deadline(s) <= clock + 1
                        \/ \E c \in Calls : ChargedBy(c, s) /\ row[s].endedAt <= call[c].now
                        \/ BeforeRequests(s, row[s].endedAt)'
      BY <1>1 DEF EndsInTime, ChargedBy, Deadline
    <2>1. /\ row[s].endedAt \in Nat /\ clock \in Nat
          /\ Deadline(s) <= clock => Deadline(s) <= clock + 1
      BY VoiceAssumption DEF IInv, Types, Rows, Deadline
    <2>2. BeforeRequests(s, row[s].endedAt) => BeforeRequests(s, row[s].endedAt)'
      BY <1>1, <2>1 DEF BeforeRequests
    <2> QED
      BY <2>1, <2>2 DEF IInv, EndsInTime
  <1> QED
    BY <1>1, <1>2 DEF IInv, Types, SettledMatchesCharge, ChargedHasEnded,
                      CreatedIsActive, RequestsKnowSession, Deadline

LEMMA StartKeeps ==
    ASSUME IInv, NEW s \in Sessions, Start(s)
    PROVE  IInv'
  <1>1. /\ row[s].status = "NONE" /\ row[s] \in Rows /\ clock \in Nat /\ s \notin creating
        /\ "NONE" \notin Ends /\ "ACTIVE" \notin Ends
    BY DEF Start, IInv, Types, CreatedIsActive, Ends
  <1>2. UNCHANGED <<clock, charge, call, holder>> /\ creating' \in {creating, creating \cup {s}}
    BY DEF Start
  <1>3. /\ row'[s] = [row[s] EXCEPT !.status = "ACTIVE", !.startedAt = clock]
        /\ \A t \in Sessions \ {s} : row'[t] = row[t]
        /\ row' \in [Sessions -> Rows]
    <2>1. row' = [row EXCEPT ![s] = [row[s] EXCEPT !.status = "ACTIVE", !.startedAt = clock]]
      BY DEF Start, IInv, Types
    <2>2. [row[s] EXCEPT !.status = "ACTIVE", !.startedAt = clock] \in Rows
      BY <1>1 DEF Rows
    <2> QED
      BY <2>1, <2>2 DEF IInv, Types
  <1>4. /\ row'[s].status = "ACTIVE" /\ row'[s].startedAt = clock /\ row'[s].credit = row[s].credit
    BY <1>1, <1>3 DEF Rows
  <1>5. charge[s] = NoCharge
    BY <1>1 DEF IInv, ChargedHasEnded
  <1>6. Types'
    BY <1>2, <1>3 DEF IInv, Types
  <1>7. SettledMatchesCharge' /\ ChargedHasEnded'
    BY <1>2, <1>3, <1>4, <1>5 DEF IInv, SettledMatchesCharge, ChargedHasEnded
  <1>8. EndsInTime'
    <2> SUFFICES ASSUME NEW t \in Sessions, row'[t].status \in Ends
                 PROVE  \/ /\ row'[t].endedAt = row'[t].startedAt + MaxDuration
                           /\ row'[t].startedAt + MaxDuration <= clock'
                        \/ \E c \in Calls :
                              /\ call'[c].phase = "charged" /\ call'[c].session = t
                              /\ row'[t].endedAt <= call'[c].now
                        \/ BeforeRequests(t, row[t].endedAt)'
      BY DEF EndsInTime, ChargedBy, Deadline
    <2>1. row'[t] = row[t]
      BY <1>1, <1>3, <1>4
    <2> QED
      BY <1>2, <2>1 DEF IInv, EndsInTime, BeforeRequests, ChargedBy, Deadline
  <1>9. CreatedIsActive'
    <2>1. clock < clock + MaxDuration
      BY <1>1, VoiceAssumption
    <2> QED
      <3> SUFFICES ASSUME NEW t \in creating'
                   PROVE  row'[t].status = "ACTIVE" /\ clock < row'[t].startedAt + MaxDuration
        BY <1>2 DEF CreatedIsActive, Deadline
      <3>1. CASE t = s
        BY <1>4, <2>1, <3>1
      <3>2. CASE t # s
        BY <1>2, <1>3, <3>2 DEF IInv, CreatedIsActive, Types, Deadline
      <3> QED
        BY <3>1, <3>2
  <1>10. RequestsKnowSession'
    <2>1. \A c \in Calls : call[c].phase # "unsent" => call[c].session # s
      BY <1>1 DEF IInv, RequestsKnowSession
    <2> QED
      BY <1>2, <1>3, <2>1 DEF IInv, RequestsKnowSession
  <1> QED
    BY <1>6, <1>7, <1>8, <1>9, <1>10 DEF IInv

LEMMA StoreKeeps ==
    ASSUME IInv, NEW s \in Sessions, StoreMembers(s) \/ StoreMembersFails(s)
    PROVE  IInv'
  <1>1. CASE StoreMembers(s)
    <2>1. UNCHANGED <<clock, row, charge, call, holder>> /\ creating' = creating \ {s}
      BY <1>1 DEF StoreMembers
    <2> QED
      BY <2>1 DEF IInv, Types, SettledMatchesCharge, EndsInTime, BeforeRequests, ChargedHasEnded,
                  ChargedBy, CreatedIsActive, RequestsKnowSession, Deadline
  <1>2. CASE StoreMembersFails(s)
    <2>1. /\ row[s].status = "ACTIVE" /\ row[s] \in Rows /\ clock < Deadline(s)
          /\ clock \in Nat /\ "ACTIVE" \notin Ends /\ s \in creating
      BY <1>2 DEF StoreMembersFails, IInv, Types, CreatedIsActive, Ends
    <2>2. UNCHANGED <<clock, charge, call, holder>> /\ creating' = creating \ {s}
      BY <1>2 DEF StoreMembersFails
    <2>3. /\ row'[s] = [row[s] EXCEPT !.status = "FAILED", !.endedAt = clock]
          /\ \A t \in Sessions \ {s} : row'[t] = row[t]
          /\ row' \in [Sessions -> Rows]
      <3>1. row' = [row EXCEPT ![s] = [row[s] EXCEPT !.status = "FAILED", !.endedAt = clock]]
        BY <1>2 DEF StoreMembersFails, IInv, Types
      <3>2. [row[s] EXCEPT !.status = "FAILED", !.endedAt = clock] \in Rows
        BY <2>1 DEF Rows, Ends
      <3> QED
        BY <3>1, <3>2 DEF IInv, Types
    <2>4. /\ row'[s].status = "FAILED" /\ row'[s].endedAt = clock
          /\ row'[s].startedAt = row[s].startedAt /\ row'[s].credit = row[s].credit
      BY <2>1, <2>3 DEF Rows
    <2>5. charge[s] = NoCharge
      BY <2>1 DEF IInv, ChargedHasEnded
    <2>6. Types'
      BY <2>2, <2>3 DEF IInv, Types
    <2>7. SettledMatchesCharge' /\ ChargedHasEnded'
      BY <2>2, <2>3, <2>4, <2>5 DEF IInv, SettledMatchesCharge, ChargedHasEnded
    <2>8. EndsInTime'
      <3>1. \A c \in Calls : call[c].phase # "unsent" => call[c].session # s
        BY <2>1 DEF IInv, RequestsKnowSession
      <3>2. BeforeRequests(s, row[s].endedAt)'
        BY <2>1, <2>2, <2>4, <3>1 DEF BeforeRequests
      <3> SUFFICES ASSUME NEW t \in Sessions, t # s, row'[t].status \in Ends
                   PROVE  \/ row'[t].endedAt = Deadline(t)' /\ Deadline(t)' <= clock'
                          \/ \E c \in Calls : ChargedBy(c, t)' /\ row'[t].endedAt <= call'[c].now
                          \/ BeforeRequests(t, row[t].endedAt)'
        BY <3>2 DEF EndsInTime
      <3>3. row'[t] = row[t]
        BY <2>3
      <3> QED
        BY <2>2, <3>3 DEF IInv, EndsInTime, BeforeRequests, ChargedBy, Deadline
    <2>9. CreatedIsActive'
      BY <2>2, <2>3 DEF IInv, CreatedIsActive, Types, Deadline
    <2>10. RequestsKnowSession'
      BY <2>2, <2>3, <2>4 DEF IInv, RequestsKnowSession
    <2> QED
      BY <2>6, <2>7, <2>8, <2>9, <2>10 DEF IInv
  <1> QED
    BY <1>1, <1>2

LEMMA SendKeeps ==
    ASSUME IInv, NEW c \in Calls, NEW s \in Sessions, NEW requested \in Ends,
           SendEnd(c, s, requested)
    PROVE  IInv'
  <1> DEFINE new == [phase |-> IF WrapperIsDefiner THEN "sent" ELSE "denied", session |-> s,
                     now |-> clock, requested |-> requested]
  <1>1. /\ call[c].phase = "unsent" /\ s \notin creating /\ row[s].status # "NONE"
        /\ call' = [call EXCEPT ![c] = new]
        /\ UNCHANGED <<clock, row, charge, creating, holder>>
    BY DEF SendEnd, Known
  <1>2. /\ new \in Requested /\ new.phase \notin {"unsent", "locked", "charged"} /\ new.session = s
        /\ new.now = clock
    BY DEF Requested, IInv, Types
  <1> HIDE DEF new
  <1>3. /\ call' \in [Calls -> Requested] /\ call'[c] = new
        /\ \A d \in Calls \ {c} : call'[d] = call[d]
    BY <1>1, <1>2 DEF IInv, Types
  <1>4. holder # c
    BY <1>1 DEF IInv, RequestsKnowSession
  <1>5. Types' /\ SettledMatchesCharge' /\ ChargedHasEnded' /\ CreatedIsActive'
    BY <1>1, <1>3 DEF IInv, Types, SettledMatchesCharge, ChargedHasEnded, CreatedIsActive, Deadline
  <1>6. EndsInTime'
    <2> SUFFICES ASSUME NEW t \in Sessions, row[t].status \in Ends
                 PROVE  \/ row[t].endedAt = Deadline(t) /\ Deadline(t) <= clock
                        \/ \E d \in Calls : ChargedBy(d, t)' /\ row[t].endedAt <= call'[d].now
                        \/ BeforeRequests(t, row[t].endedAt)'
      BY <1>1 DEF EndsInTime, Deadline
    <2>1. \A d \in Calls : ChargedBy(d, t) => ChargedBy(d, t)' /\ call'[d].now = call[d].now
      BY <1>1, <1>3 DEF ChargedBy
    <2>2. BeforeRequests(t, row[t].endedAt) => BeforeRequests(t, row[t].endedAt)'
      BY <1>1, <1>2, <1>3 DEF BeforeRequests
    <2> QED
      BY <2>1, <2>2 DEF IInv, EndsInTime
  <1>7. RequestsKnowSession'
    BY <1>1, <1>2, <1>3, <1>4 DEF IInv, RequestsKnowSession
  <1> QED
    BY <1>5, <1>6, <1>7 DEF IInv

-----------------------------------------------------------------------------
(* The theorems                                                             *)

LEMMA InitHolds == Init => IInv
  <1> SUFFICES ASSUME Init PROVE IInv
    OBVIOUS
  <1>1. NoRow \in Rows /\ NoCharge \in Charges /\ Unsent \in Requested
    BY DEF NoRow, NoCharge, Unsent, Rows, Charges, Requested, Ends
  <1>2. Types
    BY <1>1 DEF Init, Types
  <1>3. SettledMatchesCharge /\ EndsInTime /\ ChargedHasEnded /\ CreatedIsActive
    BY DEF Init, SettledMatchesCharge, EndsInTime, ChargedHasEnded, CreatedIsActive, NoRow, Ends
  <1>4. RequestsKnowSession
    BY VoiceAssumption DEF Init, RequestsKnowSession, Unsent
  <1> QED
    BY <1>2, <1>3, <1>4 DEF IInv

LEMMA NextKeeps == IInv /\ [Next]_vars => IInv'
  <1> SUFFICES ASSUME IInv, [Next]_vars PROVE IInv'
    OBVIOUS
  <1>1. CASE Tick
    BY <1>1, TickKeeps
  <1>2. CASE Recover \/ SetPolicy \/ \E a \in Actors : Replenish(a)
    BY <1>2, RecoverEnding, OthersEnding, EndingsKeep
  <1>3. ASSUME NEW s \in Sessions, Start(s) \/ StoreMembers(s) \/ StoreMembersFails(s)
        PROVE  IInv'
    BY <1>3, StartKeeps, StoreKeeps
  <1>4. ASSUME NEW c \in Calls, Progress(c) PROVE IInv'
    BY <1>4, RequestEnding, FinalizeEnding, EndingsKeep DEF Progress
  <1>5. ASSUME NEW c \in Calls, NEW s \in Sessions, NEW requested \in Ends,
               SendEnd(c, s, requested)
        PROVE  IInv'
    BY <1>5, SendKeeps
  <1>6. CASE UNCHANGED vars
    BY <1>6 DEF vars, IInv, Types, SettledMatchesCharge, EndsInTime, BeforeRequests,
                ChargedHasEnded, ChargedBy, CreatedIsActive, RequestsKnowSession, Deadline
  <1> QED
    BY <1>1, <1>2, <1>3, <1>4, <1>5, <1>6 DEF Next

\* The invariant of sessions, charges and requests holds in every reachable state.
THEOREM Invariance == Spec => []IInv
  BY InitHolds, NextKeeps, PTL DEF Spec

\* A session is settled exactly when it is charged, and session and charge agree on
\* how, when and after how long it ended.
THEOREM SessionsMatchCharges == Spec => []SettledMatchesCharge
  BY Invariance, PTL DEF IInv

\* Waiting for the lock of the policy is never billed, however long it takes: what
\* a client ended costs until a request of its arrived, and no minute more, unless
\* the reaper ended it at a deadline that had passed.
THEOREM WaitingIsFree == Spec => []WaitingIsNotBilled
  <1>1. IInv => WaitingIsNotBilled
    <2> SUFFICES ASSUME IInv, NEW s \in Sessions,
                        NEW c \in Calls, call[c].phase = "charged", call[c].session = s
                 PROVE  \/ charge[s].endedAt = Deadline(s) /\ Deadline(s) <= clock
                        \/ \E d \in Calls : ChargedBy(d, s) /\ charge[s].endedAt <= call[d].now
      BY DEF WaitingIsNotBilled, ChargedBy
    <2>1. CASE charge[s] = NoCharge
      <3>1. call[c].now \in Nat
        BY DEF IInv, Types, Requested
      <3> QED
        BY <2>1, <3>1 DEF NoCharge, ChargedBy
    <2>2. CASE charge[s] # NoCharge
      <3>1. charge[s] = [status |-> row[s].status, endedAt |-> row[s].endedAt,
                         duration |-> row[s].duration]
        BY <2>2 DEF IInv, SettledMatchesCharge
      <3>2. charge[s].endedAt = row[s].endedAt
        BY <3>1
      <3> QED
        BY <2>2, <3>2 DEF IInv, ChargedHasEnded, EndsInTime, BeforeRequests, ChargedBy
    <2> QED
      BY <2>1, <2>2
  <1> QED
    BY <1>1, Invariance, PTL

\* Once a session has ended, nothing changes how or when it ended.
THEOREM EndsAreFinal == Spec => EndIsFinal
  <1>1. IInv /\ [Next]_vars =>
            \A s \in Sessions : row[s].status \in Ends =>
                /\ row'[s].status = row[s].status
                /\ row'[s].endedAt = row[s].endedAt
    <2> SUFFICES ASSUME IInv, [Next]_vars, NEW s \in Sessions, row[s].status \in Ends
                 PROVE  row'[s].status = row[s].status /\ row'[s].endedAt = row[s].endedAt
      OBVIOUS
    <2>1. CASE Ending
      BY <2>1, EndingEffect DEF Ending
    <2>2. CASE UNCHANGED row
      BY <2>2
    <2>3. ASSUME NEW t \in Sessions, Start(t) \/ StoreMembersFails(t)
          PROVE  row'[s] = row[s]
      <3>1. row[t].status \notin Ends
        BY <2>3 DEF Start, StoreMembersFails, IInv, CreatedIsActive, Ends
      <3>2. s # t
        BY <3>1
      <3> QED
        BY <2>3, <3>2 DEF Start, StoreMembersFails, IInv, Types
    <2>4. \/ Ending \/ UNCHANGED row
          \/ \E t \in Sessions : Start(t) \/ StoreMembersFails(t)
      BY RecoverEnding, OthersEnding, RequestEnding, FinalizeEnding
         DEF Next, Progress, Tick, StoreMembers, SendEnd, vars
    <2> QED
      BY <2>1, <2>2, <2>3, <2>4
  <1> QED
    BY <1>1, Invariance, PTL DEF Spec, EndIsFinal

-----------------------------------------------------------------------------
(* Sums over finite sets                                                    *)

\* The element the fold takes next, and the equation its recursive function solves.
First(s) == CHOOSE x \in s : TRUE
StepOf(g, f, s) == IF s = {} THEN 0 ELSE f[First(s)] + g[s \ {First(s)}]
IsSum(g, f, S) == g = [s \in SUBSET S |-> StepOf(g, f, s)]

\* Induction over the naturals, stated for a set: the library's induction theorems
\* take an operator as parameter, its least-element theorem takes sets.
LEMMA CountingUp ==
    ASSUME NEW P \in SUBSET Nat, 0 \in P, \A n \in P : n + 1 \in P
    PROVE  Nat \subseteq P
<1> SUFFICES ASSUME Nat \ P # {} PROVE FALSE
  OBVIOUS
<1> DEFINE Q == Nat \ P
<1>1. PICK n \in Q : \A m \in Q : <<m, n>> \notin OpToRel(<, Nat)
  BY NatLessThanWellFounded, WFMin, Q \subseteq Nat, Zenon
<1>2. n \in Nat /\ n # 0
  OBVIOUS
<1>3. n - 1 \in Nat /\ n - 1 < n
  BY <1>2
<1>4. <<n - 1, n>> \in OpToRel(<, Nat)
  BY <1>2, <1>3, SMT DEF OpToRel
<1>5. n - 1 \in P
  BY <1>1, <1>3, <1>4
<1>6. n \in P
  BY <1>2, <1>3, <1>5
<1> QED BY <1>6

\* Subsets of a finite set, and what taking the next element leaves of them.
LEMMA FirstRemoved ==
    ASSUME NEW S, IsFiniteSet(S), NEW s \in SUBSET S
    PROVE  /\ IsFiniteSet(s) /\ Cardinality(s) \in Nat /\ Cardinality(s) <= Cardinality(S)
           /\ s # {} => /\ First(s) \in s
                        /\ s \ {First(s)} \in SUBSET S
                        /\ Cardinality(s \ {First(s)}) = Cardinality(s) - 1
           /\ Cardinality(s) = 0 <=> s = {}
BY FS_Subset, FS_CardinalityType, FS_RemoveElement, FS_EmptySet DEF First

\* One step of the fold yields a number.
LEMMA StepType ==
    ASSUME NEW S, IsFiniteSet(S), NEW f, \A x \in S : f[x] \in Int,
           NEW g \in [SUBSET S -> Int], NEW s \in SUBSET S
    PROVE  StepOf(g, f, s) \in Int
<1>1. CASE s = {}
  BY <1>1 DEF StepOf
<1>2. CASE s # {}
  <2>1. First(s) \in s /\ s \ {First(s)} \in SUBSET S
    BY <1>2, FirstRemoved
  <2> QED BY <1>2, <2>1 DEF StepOf
<1> QED BY <1>1, <1>2

\* The recursive function exists: by induction on the size of the sets it is right for.
LEMMA SumsExist ==
    ASSUME NEW S, IsFiniteSet(S), NEW f, \A x \in S : f[x] \in Int
    PROVE  \E g \in [SUBSET S -> Int] : IsSum(g, f, S)
<1> DEFINE Good(g, n) == \A s \in SUBSET S : Cardinality(s) <= n => g[s] = StepOf(g, f, s)
           P == {n \in Nat : \E g \in [SUBSET S -> Int] : Good(g, n)}
<1>1. 0 \in P
  <2> DEFINE z == [s \in SUBSET S |-> 0]
  <2>1. z \in [SUBSET S -> Int] OBVIOUS
  <2>2. ASSUME NEW s \in SUBSET S, Cardinality(s) <= 0 PROVE z[s] = StepOf(z, f, s)
    <3>1. Cardinality(s) \in Nat /\ (Cardinality(s) = 0 <=> s = {})
      BY FirstRemoved
    <3>2. s = {}
      BY <2>2, <3>1
    <3> QED BY <3>2 DEF StepOf
  <2> QED BY <2>1, <2>2
<1>2. ASSUME NEW n \in P PROVE n + 1 \in P
  <2>1. PICK g \in [SUBSET S -> Int] : Good(g, n)
    OBVIOUS
  <2> DEFINE h == [s \in SUBSET S |-> StepOf(g, f, s)]
  <2>2. h \in [SUBSET S -> Int]
    BY StepType
  <2>3. ASSUME NEW s \in SUBSET S, Cardinality(s) <= n + 1 PROVE h[s] = StepOf(h, f, s)
    <3>1. CASE s = {}
      BY <3>1 DEF StepOf
    <3>2. CASE s # {}
      <4> DEFINE r == s \ {First(s)}
      <4>1. r \in SUBSET S /\ Cardinality(r) <= n
        BY FirstRemoved, <2>3, <3>2
      <4>2. g[r] = h[r]
        BY <2>1, <4>1
      <4>3. h[s] = f[First(s)] + g[r]
        BY <3>2 DEF StepOf
      <4>4. StepOf(h, f, s) = f[First(s)] + h[r]
        BY <3>2 DEF StepOf
      <4> QED BY <4>2, <4>3, <4>4
    <3> QED BY <3>1, <3>2
  <2>4. Good(h, n + 1)
    BY <2>3
  <2>5. \E k \in [SUBSET S -> Int] : Good(k, n + 1)
    <3> HIDE DEF h, Good
    <3> QED BY <2>2, <2>4
  <2>6. n + 1 \in Nat
    OBVIOUS
  <2> QED BY <2>5, <2>6
<1>3. Cardinality(S) \in P
  <2>1. P \subseteq Nat
    OBVIOUS
  <2> HIDE DEF P
  <2>2. Nat \subseteq P
    BY <1>1, <1>2, <2>1, CountingUp
  <2> QED BY <2>2, FirstRemoved
<1>4. PICK g \in [SUBSET S -> Int] : Good(g, Cardinality(S))
  BY <1>3
<1>5. IsSum(g, f, S)
  BY <1>4, FirstRemoved DEF IsSum
<1> QED BY <1>5

\* Its value at a set.
LEMMA SumAt ==
    ASSUME NEW S, NEW f, NEW g, IsSum(g, f, S), NEW s \in SUBSET S
    PROVE  g[s] = StepOf(g, f, s)
<1> DEFINE h == [t \in SUBSET S |-> StepOf(g, f, t)]
<1>1. g = h
  BY DEF IsSum
<1>2. h[s] = StepOf(g, f, s)
  OBVIOUS
<1> HIDE DEF h
<1> QED BY <1>1, <1>2

\* There is only one such function, whatever set it is defined on.
LEMMA SumsAgree ==
    ASSUME NEW S, IsFiniteSet(S), NEW T \in SUBSET S, NEW f, \A x \in S : f[x] \in Int,
           NEW g, IsSum(g, f, S), NEW h, IsSum(h, f, T)
    PROVE  \A s \in SUBSET T : g[s] = h[s]
<1> DEFINE P == {n \in Nat : \A s \in SUBSET T : Cardinality(s) = n => g[s] = h[s]}
<1>1. 0 \in P
  <2> SUFFICES ASSUME NEW s \in SUBSET T, Cardinality(s) = 0 PROVE g[s] = h[s]
    OBVIOUS
  <2>1. s = {} /\ s \in SUBSET S
    BY FirstRemoved
  <2> QED BY <2>1, SumAt DEF StepOf
<1>2. ASSUME NEW n \in P PROVE n + 1 \in P
  <2> SUFFICES ASSUME NEW s \in SUBSET T, Cardinality(s) = n + 1 PROVE g[s] = h[s]
    OBVIOUS
  <2> DEFINE r == s \ {First(s)}
  <2>1. s # {} /\ r \in SUBSET T /\ r \in SUBSET S /\ Cardinality(r) = n
    BY FirstRemoved
  <2>2. g[r] = h[r]
    BY <2>1
  <2>3. g[s] = StepOf(g, f, s) /\ h[s] = StepOf(h, f, s)
    BY SumAt
  <2> QED BY <2>1, <2>2, <2>3 DEF StepOf
<1>3. Nat \subseteq P
  <2>1. P \subseteq Nat
    OBVIOUS
  <2> HIDE DEF P
  <2> QED BY <1>1, <1>2, <2>1, CountingUp
<1> QED BY <1>3, FirstRemoved

\* Total is the value of that function.
LEMMA TotalIsSum ==
    ASSUME NEW S, IsFiniteSet(S), NEW f, \A x \in S : f[x] \in Int
    PROVE  \E g \in [SUBSET S -> Int] : IsSum(g, f, S) /\ Total(f, S) = g[S]
<1>1. Total(f, S) = (CHOOSE g : IsSum(g, f, S))[S]
  BY DEF Total, MapThenSumSet, MapThenFoldSet, First, IsSum, StepOf
<1>2. IsSum(CHOOSE g : IsSum(g, f, S), f, S)
  BY SumsExist
<1>3. PICK g \in [SUBSET S -> Int] : IsSum(g, f, S)
  BY SumsExist
<1>4. (CHOOSE h : IsSum(h, f, S))[S] = g[S]
  BY <1>2, <1>3, SumsAgree
<1> QED BY <1>1, <1>3, <1>4

\* Nothing adds up to zero.
LEMMA TotalEmpty == ASSUME NEW f PROVE Total(f, {}) = 0
BY TotalIsSum, FS_EmptySet DEF IsSum, StepOf

\* A sum of integers is an integer.
LEMMA TotalType ==
    ASSUME NEW S, IsFiniteSet(S), NEW f, \A x \in S : f[x] \in Int
    PROVE  Total(f, S) \in Int
<1>1. PICK g \in [SUBSET S -> Int] : Total(f, S) = g[S]
  BY TotalIsSum
<1> QED BY <1>1

\* Sums over equal summands are equal: the two functions need not be.
LEMMA TotalSame ==
    ASSUME NEW S, IsFiniteSet(S), NEW f, NEW h, \A x \in S : f[x] = h[x] /\ f[x] \in Int
    PROVE  Total(f, S) = Total(h, S)
<1>1. PICK g \in [SUBSET S -> Int] : IsSum(g, f, S) /\ Total(f, S) = g[S]
  BY TotalIsSum
<1>2. ASSUME NEW s \in SUBSET S PROVE StepOf(g, f, s) = StepOf(g, h, s)
  <2>1. s # {} => First(s) \in S
    BY FirstRemoved
  <2> QED BY <2>1 DEF StepOf
<1>3. IsSum(g, h, S)
  BY <1>1, <1>2 DEF IsSum
<1>4. PICK k \in [SUBSET S -> Int] : IsSum(k, h, S) /\ Total(h, S) = k[S]
  BY TotalIsSum
<1>5. g[S] = k[S]
  BY <1>3, <1>4, SumsAgree
<1> QED BY <1>1, <1>4, <1>5

\* Induction over the subsets of a finite set.
LEMMA SubsetsGrow ==
    ASSUME NEW S, IsFiniteSet(S), NEW G \in SUBSET SUBSET S, {} \in G,
           \A T \in G : \A x \in S \ T : T \cup {x} \in G
    PROVE  S \in G
<1> DEFINE P == {n \in Nat : \A T \in SUBSET S : Cardinality(T) = n => T \in G}
<1>1. 0 \in P
  BY FirstRemoved
<1>2. ASSUME NEW n \in P PROVE n + 1 \in P
  <2> SUFFICES ASSUME NEW T \in SUBSET S, Cardinality(T) = n + 1 PROVE T \in G
    OBVIOUS
  <2> DEFINE r == T \ {First(T)}
  <2>1. T # {} /\ First(T) \in T /\ r \in SUBSET S /\ Cardinality(r) = n
    BY FirstRemoved
  <2>2. r \in G
    BY <2>1
  <2>3. T = r \cup {First(T)} /\ First(T) \in S \ r
    BY <2>1
  <2> HIDE DEF r
  <2> QED BY <2>2, <2>3
<1>3. Nat \subseteq P
  <2>1. P \subseteq Nat
    OBVIOUS
  <2> HIDE DEF P
  <2> QED BY <1>1, <1>2, <2>1, CountingUp
<1> QED BY <1>3, FirstRemoved

-----------------------------------------------------------------------------
(* The credits that are left                                                 *)

\* What a set of sessions of one actor costs is a number.
LEMMA CostType ==
    ASSUME NEW rows \in [Sessions -> Rows], NEW S \in SUBSET Sessions, NEW a
    PROVE  /\ CostOfAll(rows, S, a) \in Int
           /\ (\A s \in S : Actor[s] # a) => CostOfAll(rows, S, a) = 0
  <1> DEFINE mine == {s \in S : Actor[s] = a}
             cost == [s \in Sessions |-> Cost(rows[s])]
  <1>1. IsFiniteSet(mine) /\ mine \in SUBSET Sessions
    BY FS_Subset, VoiceAssumption
  <1>2. \A s \in mine : cost[s] \in Int
    BY <1>1, CostIsDuration
  <1>3. CostOfAll(rows, S, a) = Total(cost, mine)
    BY DEF CostOfAll
  <1>4. (\A s \in S : Actor[s] # a) => mine = {}
    OBVIOUS
  <1> HIDE DEF mine, cost
  <1> QED
    BY <1>1, <1>2, <1>3, <1>4, TotalType, TotalEmpty

\* The order in which a run of the reaper charges is total.
LEMMA TakenInOrder ==
    ASSUME Types, NEW s \in Sessions, NEW t \in Sessions, NEW u \in Sessions
    PROVE  /\ s = t \/ TakenBefore(s, t) \/ TakenBefore(t, s)
           /\ TakenBefore(s, t) /\ TakenBefore(t, u) => TakenBefore(s, u)
  <1>1. ASSUME NEW v \in Sessions
        PROVE  v \in Nat /\ Expired(v).endedAt \in Nat
    <2>1. v \in Nat /\ row[v] \in Rows /\ Deadline(v) \in Nat
      BY VoiceAssumption DEF Types, Rows, Deadline
    <2> QED
      BY <2>1 DEF Expired, Closed, Rows
  <1> DEFINE at(v) == Expired(v).endedAt
  <1>2. /\ s \in Nat /\ t \in Nat /\ u \in Nat
        /\ at(s) \in Nat /\ at(t) \in Nat /\ at(u) \in Nat
    BY <1>1
  <1>3. \A v, w : TakenBefore(v, w) <=>
            \/ v \notin TeamSessions /\ w \in TeamSessions
            \/ /\ v \in TeamSessions <=> w \in TeamSessions
               /\ at(v) < at(w) \/ (at(v) = at(w) /\ v < w)
    BY DEF TakenBefore, DueBefore
  <1> HIDE DEF at
  <1>4. s = t \/ TakenBefore(s, t) \/ TakenBefore(t, s)
    BY <1>2, <1>3
  <1>5. TakenBefore(s, t) /\ TakenBefore(t, u) => TakenBefore(s, u)
    BY <1>2, <1>3
  <1> QED
    BY <1>4, <1>5

\* Of the sessions of a set one is the last to be charged.
IsLast(s, S) == s \in S /\ \A t \in S \ {s} : TakenBefore(t, s)

LEMMA OneIsLast ==
    ASSUME Types, NEW S \in SUBSET Sessions, S # {}
    PROVE  \E s \in S : IsLast(s, S)
  <1> DEFINE G == {T \in SUBSET S : T = {} \/ \E s \in T : IsLast(s, T)}
  <1>1. IsFiniteSet(S) /\ {} \in G /\ G \in SUBSET SUBSET S
    BY FS_Subset, VoiceAssumption
  <1>2. ASSUME NEW T \in G, NEW x \in S \ T
        PROVE  T \cup {x} \in G
    <2>1. CASE T = {}
      <3>1. IsLast(x, T \cup {x})
        BY <2>1 DEF IsLast
      <3> QED
        BY <3>1
    <2>2. CASE T # {}
      <3>1. PICK s \in T : IsLast(s, T)
        BY <2>2
      <3>2. CASE TakenBefore(x, s)
        <4>1. IsLast(s, T \cup {x})
          BY <3>1, <3>2 DEF IsLast
        <4> QED
          BY <4>1
      <3>3. CASE TakenBefore(s, x)
        <4>1. \A t \in T : TakenBefore(t, x)
          BY <3>1, <3>3, TakenInOrder DEF IsLast
        <4>2. IsLast(x, T \cup {x})
          BY <4>1 DEF IsLast
        <4> QED
          BY <4>2
      <3> QED
        BY <3>2, <3>3, TakenInOrder
    <2> QED
      BY <2>1, <2>2
  <1>3. S \in G
    <2> HIDE DEF G
    <2> QED
      BY <1>1, <1>2, SubsetsGrow
  <1> QED
    BY <1>3

\* What an action charges, if it charges anything, it charges in the means of
\* each actor.
Charging ==
    \E rows \in [Sessions -> Rows], paid \in SUBSET Sessions :
        /\ \A s \in paid : charge[s] = NoCharge /\ rows[s].status \in Ends
        /\ Charge(rows, paid)
        /\ \A a \in Actors : \/ \A s \in paid : Actor[s] # a
                             \/ CostOfAll(rows, paid, a) <= left[a]

\* A request charges at most its own session.
LEMMA FinalizeCharges ==
    ASSUME IInv, NEW c \in Calls, Finalize(c)
    PROVE  Charging \/ UNCHANGED <<charge, left>>
  <1> DEFINE s == call[c].session
             rows == [row EXCEPT ![s] = Closed(row[s], Instant(c), call[c].requested)]
  <1>1. CASE MayCharge(rows, s, {}) /\ Charge(rows, {s})
    <2>1. /\ s \in Sessions /\ row[s] \in Rows /\ row[s].status # "NONE"
          /\ Instant(c) \in Nat /\ call[c].requested \in Ends
      BY DEF Finalize, IInv, RequestsKnowSession, Types, Requested, Instant
    <2>2. rows[s] \in Rows /\ rows[s].status \in Ends
      BY <2>1, ClosedRow DEF IInv, Types
    <2>3. rows \in [Sessions -> Rows]
      BY <2>1, <2>2 DEF IInv, Types
    <2> HIDE DEF rows
    <2>4. charge[s] = NoCharge /\ CostOfAll(rows, {} \cup {s}, Actor[s]) <= left[Actor[s]]
      BY <1>1 DEF MayCharge
    <2>5. {} \cup {s} = {s}
      OBVIOUS
    <2>6. \A a \in Actors : \/ \A t \in {s} : Actor[t] # a
                            \/ CostOfAll(rows, {s}, a) <= left[a]
      BY <2>4, <2>5
    <2> QED
      BY <1>1, <2>1, <2>2, <2>3, <2>4, <2>6 DEF Charging
  <1>2. CASE UNCHANGED <<row, charge, left>>
    BY <1>2
  <1> QED
    BY <1>1, <1>2 DEF Finalize

\* The reaper charges one session after the other, and each only if its actor can
\* pay for it with all that were charged before it: so the last one of an actor
\* answers for all of them.
LEMMA ReapCharges ==
    ASSUME IInv, Reap
    PROVE  Charging
  <1> DEFINE batch == Batch(Candidates)
             rows == Marked(batch)
  <1>1. PICK paid \in SUBSET Candidates :
            /\ paid \subseteq batch
            /\ \A s \in batch : s \in paid <=> MayCharge(rows, s, {t \in paid : TakenBefore(t, s)})
            /\ Charge(rows, paid)
    BY DEF Reap
  <1>2. batch \in SUBSET Candidates
    BY DEF Batch, FirstOf
  <1>3. rows \in [Sessions -> Rows] /\ \A s \in batch : rows[s].status \in Ends
    BY <1>2, MarkedRows
  <1>4. paid \in SUBSET Sessions
    BY DEF Candidates, Known
  <1> HIDE DEF rows, batch
  <1>5. \A s \in paid : charge[s] = NoCharge /\ rows[s].status \in Ends
    BY <1>1, <1>3 DEF MayCharge
  <1>6. ASSUME NEW a \in Actors, NEW s0 \in paid, Actor[s0] = a
        PROVE  CostOfAll(rows, paid, a) <= left[a]
    <2> DEFINE mine == {s \in paid : Actor[s] = a}
    <2>1. PICK s \in mine : IsLast(s, mine)
      BY <1>4, <1>6, OneIsLast DEF IInv
    <2> DEFINE upTo == {t \in paid : TakenBefore(t, s)} \cup {s}
    <2>2. {t \in upTo : Actor[t] = a} = mine
      BY <2>1 DEF IsLast
    <2>3. CostOfAll(rows, upTo, Actor[s]) <= left[Actor[s]]
      BY <1>1, <2>1 DEF MayCharge
    <2>4. Actor[s] = a
      BY <2>1
    <2>5. CostOfAll(rows, upTo, a) = CostOfAll(rows, paid, a)
      BY <2>2 DEF CostOfAll
    <2> QED
      BY <2>3, <2>4, <2>5
  <1> QED
    BY <1>1, <1>3, <1>4, <1>5, <1>6 DEF Charging

\* Whatever happens to the credits is a charge or a new month.
LEMMA CreditsMove ==
    ASSUME IInv, [Next]_vars
    PROVE  \/ Charging
           \/ UNCHANGED <<charge, left>>
           \/ \E a \in Actors : Replenish(a)
  <1>1. CASE Recover
    <2>1. ReapWithoutPolicy => UNCHANGED <<charge, left>>
      BY DEF ReapWithoutPolicy
    <2> QED
      BY <1>1, <2>1, ReapCharges DEF Recover
  <1>2. ASSUME NEW c \in Calls, Progress(c)
        PROVE  Charging \/ UNCHANGED <<charge, left>>
    <2>1. LockPolicy(c) \/ Lose(c) => UNCHANGED <<charge, left>>
      BY DEF LockPolicy, Lose
    <2> QED
      BY <1>2, <2>1, FinalizeCharges DEF Progress
  <1>3. Tick \/ SetPolicy \/ UNCHANGED vars => UNCHANGED <<charge, left>>
    BY DEF Tick, SetPolicy, vars
  <1>4. ASSUME NEW s \in Sessions, Start(s) \/ StoreMembers(s) \/ StoreMembersFails(s)
        PROVE  UNCHANGED <<charge, left>>
    BY <1>4 DEF Start, StoreMembers, StoreMembersFails
  <1>5. ASSUME NEW c \in Calls, NEW s \in Sessions, NEW requested \in Ends,
               SendEnd(c, s, requested)
        PROVE  UNCHANGED <<charge, left>>
    BY <1>5 DEF SendEnd
  <1> QED
    BY <1>1, <1>2, <1>3, <1>4, <1>5 DEF Next

\* No charge takes an actor below zero.
LEMMA LeftIsNat ==
    ASSUME IInv, [Next]_vars, left \in [Actors -> Nat]
    PROVE  left' \in [Actors -> Nat]
  <1>1. CASE Charging
    <2>1. PICK rows \in [Sessions -> Rows], paid \in SUBSET Sessions :
            /\ Charge(rows, paid)
            /\ \A a \in Actors : \/ \A s \in paid : Actor[s] # a
                                 \/ CostOfAll(rows, paid, a) <= left[a]
      BY <1>1 DEF Charging
    <2>2. ASSUME NEW a \in Actors
          PROVE  left[a] - CostOfAll(rows, paid, a) \in Nat
      BY <2>1, CostType
    <2>3. left' = [a \in Actors |-> left[a] - CostOfAll(rows, paid, a)]
      BY <2>1 DEF Charge
    <2> QED
      BY <2>2, <2>3
  <1>2. CASE \E a \in Actors : Replenish(a)
    BY <1>2, VoiceAssumption DEF Replenish
  <1> QED
    BY <1>1, <1>2, CreditsMove

\* Every variable keeps to its type; in particular no actor is ever charged more
\* than is left, whatever a run of the reaper charges in one transaction.
THEOREM TypesAreRight == Spec => []TypeOK
  <1>1. Init => TypeOK
    <2> SUFFICES ASSUME Init PROVE TypeOK
      OBVIOUS
    <2>1. Types
      BY InitHolds DEF IInv
    <2>2. 0 \in 0 .. MaxClock /\ Allowance \in Nat
      BY VoiceAssumption
    <2> QED
      BY <2>1, <2>2 DEF Init, TypeOK, Types, Rows, Charges, Requested
  <1>2. IInv /\ IInv' /\ TypeOK /\ [Next]_vars => TypeOK'
    <2> SUFFICES ASSUME IInv, IInv', TypeOK, [Next]_vars PROVE TypeOK'
      OBVIOUS
    <2>1. left' \in [Actors -> Nat]
      BY LeftIsNat DEF TypeOK
    <2>2. clock' \in 0 .. MaxClock
      <3>1. clock' = clock \/ (clock < MaxClock /\ clock' = clock + 1)
        BY DEF Next, vars, Tick, Recover, Reap, ReapWithoutPolicy, SetPolicy, Replenish, Start,
               StoreMembers, StoreMembersFails, Progress, LockPolicy, Finalize, Lose, SendEnd
      <3> QED
        BY <3>1, VoiceAssumption DEF TypeOK
    <2>3. active' \in BOOLEAN
      <3>1. active' \in {active, ~active}
        BY DEF Next, vars, Tick, Recover, Reap, ReapWithoutPolicy, SetPolicy, Replenish, Start,
               StoreMembers, StoreMembersFails, Progress, LockPolicy, Finalize, Lose, SendEnd
      <3> QED
        BY <3>1 DEF TypeOK
    <2>4. creating' \subseteq TeamSessions
      <3>1. \/ creating' = creating
            \/ \E s \in Sessions : creating' = creating \ {s}
            \/ \E s \in TeamSessions : creating' = creating \cup {s}
        <4>1. ASSUME NEW s \in Sessions, Start(s)
              PROVE  creating' = creating \/ (s \in TeamSessions /\ creating' = creating \cup {s})
          BY <4>1 DEF Start
        <4> QED
          BY <4>1 DEF Next, vars, Tick, Recover, Reap, ReapWithoutPolicy, SetPolicy, Replenish,
             StoreMembers, StoreMembersFails, Progress, LockPolicy, Finalize, Lose, SendEnd
      <3> QED
        BY <3>1 DEF TypeOK
    <2>5. holder' \in {NoCall} \cup Calls
      BY DEF TypeOK, Next, vars, Tick, Recover, Reap, ReapWithoutPolicy, SetPolicy, Replenish, Start,
             StoreMembers, StoreMembersFails, Progress, LockPolicy, Finalize, Lose, SendEnd
    <2>6. Types'
      BY DEF IInv
    <2> QED
      BY <2>1, <2>2, <2>3, <2>4, <2>5, <2>6 DEF TypeOK, Types, Rows, Charges, Requested
  <1> QED
    BY <1>1, <1>2, Invariance, PTL DEF Spec

\* Credits are taken with new charges and with nothing else, exactly what those say:
\* no session is charged twice, by whichever of its clients and the reaper.
THEOREM EachChargedOnce == Spec => ChargedOnce
  <1> DEFINE Fresh(a) == {s \in Charged' \ Charged : Actor[s] = a}
             Step == /\ \A s \in Charged : charge'[s] = charge[s]
                     /\ \A a \in Actors : Spent(a) > 0 \/ Fresh(a) # {} =>
                                              Spent(a) = Worth(charge', Fresh(a))
  <1>1. ASSUME IInv, TypeOK, [Next]_vars
        PROVE  Step
    <2>1. ASSUME Charging
          PROVE  Step
      <3>1. PICK rows \in [Sessions -> Rows], paid \in SUBSET Sessions :
              /\ \A s \in paid : charge[s] = NoCharge /\ rows[s].status \in Ends
              /\ Charge(rows, paid)
        BY <2>1 DEF Charging
      <3>2. ASSUME NEW s \in Sessions
            PROVE  /\ s \notin paid => charge'[s] = charge[s]
                   /\ s \in paid => charge'[s] = ChargeOf(rows[s]) /\ charge'[s] # NoCharge
        BY <3>1, SettledRow DEF Charge
      <3>3. \A s \in Charged : charge'[s] = charge[s]
        BY <3>1, <3>2 DEF Charged
      <3>4. Charged' \ Charged = paid
        BY <3>1, <3>2 DEF Charged
      <3>5. ASSUME NEW a \in Actors
            PROVE  Spent(a) = Worth(charge', Fresh(a))
        <4> DEFINE mine == {s \in paid : Actor[s] = a}
                   cost == [s \in Sessions |-> Cost(rows[s])]
                   duration == [s \in Sessions |-> charge'[s].duration]
        <4>1. Fresh(a) = mine
          BY <3>4
        <4>2. left[a] \in Nat /\ CostOfAll(rows, paid, a) \in Int
              /\ left'[a] = left[a] - CostOfAll(rows, paid, a)
          <5>1. left[a] \in Nat
            BY <1>1 DEF TypeOK
          <5>2. CostOfAll(rows, paid, a) \in Int
            BY CostType
          <5>3. left'[a] = left[a] - CostOfAll(rows, paid, a)
            BY <3>1 DEF Charge
          <5> QED
            BY <5>1, <5>2, <5>3
        <4>3. Spent(a) = CostOfAll(rows, paid, a)
          BY <4>2 DEF Spent
        <4>4. \A s \in mine : cost[s] = duration[s] /\ cost[s] \in Int
          <5> SUFFICES ASSUME NEW s \in mine PROVE cost[s] = duration[s] /\ cost[s] \in Int
            OBVIOUS
          <5>1. s \in Sessions /\ s \in paid
            OBVIOUS
          <5>2. cost[s] = Cost(rows[s]) /\ duration[s] = charge'[s].duration
            BY <5>1
          <5>3. charge'[s].duration = Cost(rows[s])
            <6>1. charge'[s] = ChargeOf(rows[s])
              BY <5>1, <3>2
            <6>2. ChargeOf(rows[s]).duration = Cost(rows[s])
              BY DEF ChargeOf
            <6> QED
              BY <6>1, <6>2
          <5>4. Cost(rows[s]) \in Int
            BY <5>1, CostIsDuration
          <5> HIDE DEF cost, duration, mine
          <5> QED
            BY <5>2, <5>3, <5>4
        <4>5. IsFiniteSet(mine)
          BY FS_Subset, VoiceAssumption
        <4>6. CostOfAll(rows, paid, a) = Total(cost, mine)
          BY DEF CostOfAll
        <4>7. Worth(charge', Fresh(a)) = Total(duration, mine)
          BY <4>1 DEF Worth
        <4> HIDE DEF mine, cost, duration, Fresh
        <4> QED
          BY <4>3, <4>4, <4>5, <4>6, <4>7, TotalSame
      <3> QED
        BY <3>3, <3>5
    <2>2. ASSUME UNCHANGED charge, \A a \in Actors : ~(Spent(a) > 0)
          PROVE  Step
      <3>1. Charged' \ Charged = {}
        BY <2>2 DEF Charged
      <3> QED
        BY <2>2, <3>1 DEF Charged
    <2>3. UNCHANGED <<charge, left>> => \A a \in Actors : ~(Spent(a) > 0)
      BY <1>1 DEF Spent, TypeOK
    <2>4. ASSUME NEW b \in Actors, Replenish(b)
          PROVE  UNCHANGED charge /\ \A a \in Actors : ~(Spent(a) > 0)
      BY <1>1, <2>4, VoiceAssumption DEF Replenish, Spent, TypeOK
    <2> QED
      BY <1>1, <2>1, <2>2, <2>3, <2>4, CreditsMove
  <1>2. IInv /\ TypeOK /\ [Next]_vars => Step
    BY <1>1
  <1> QED
    BY <1>2, Invariance, TypesAreRight, PTL DEF Spec, ChargedOnce
=============================================================================
