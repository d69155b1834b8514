------------------------- MODULE ProcessRuntimeProofs -------------------------
(***************************************************************************)
(* Proofs about ProcessRuntime, for every set of steps, definitions, users   *)
(* and requests.  Sound says of one copy of the tables that its steps and    *)
(* items fit together; it holds of the committed copy and of the working     *)
(* copy after every step of a transaction.  Rows only change together with   *)
(* their versions (Grows), so that a version that is still the same means    *)
(* a row that is still the same.                                             *)
(*                                                                         *)
(* What joins do depends on the definition: when they open is proved for       *)
(* definitions that are WellJoined; that an instance goes on, of every         *)
(* instance whose own definition is WellFormed.                               *)
(***************************************************************************)
EXTENDS ProcessRuntime, FiniteSetTheorems, TLAPS

Undone == {"OPEN", "CLAIMED"}

HasWork(p, s) == \E i \in ItemIds : StepOf(i) = s /\ p.item[i].status \in Undone

\* Steps and items of one copy fit together.
Sound(p) ==
    /\ p \in Process
    /\ \A s \in StepIds : p.step[s].status = "ACTIVE" <=> HasWork(p, s)
    /\ \A i \in ItemIds : p.item[i].acted = IF p.item[i].status = "COMPLETED" THEN 1 ELSE 0
    /\ \A s \in StepIds : p.step[s] = NoStepRow \/ p.step[s].version >= 1
    /\ \A i \in ItemIds : p.item[i] = NoItem \/ p.item[i].version >= 1
    /\ \A i \in ItemIds : p.step[StepOf(i)] = NoStepRow => p.item[i] = NoItem
    /\ \A i \in ItemIds : p.item[i].status # "NONE" =>
          (i[3] = Shared <=> Definition[p.version].mode[i[1]] # "ALL")

\* Whatever changed has a higher version.
Grows(p, q) ==
    /\ q.version = p.version
    /\ \A s \in StepIds : q.step[s] = p.step[s] \/ q.step[s].version > p.step[s].version
    /\ \A i \in ItemIds : q.item[i] = p.item[i] \/ q.item[i].version > p.item[i].version

\* What a request saw is what there is, or older.
SeenFits(p, q) ==
    /\ q.item \in ItemIds
    /\ p.item[q.item] = q.seen \/ p.item[q.item].version > q.seen.version
    /\ \/ q.seenStep = NoStepRow
       \/ p.step[StepOf(q.item)] = q.seenStep
       \/ p.step[StepOf(q.item)].version > q.seenStep.version

ActingFits ==
    /\ acting \in Requests => request[acting].phase = "sent" /\ MayAct(db, request[acting])
    /\ acting = Shared => db.status = "NONE"

IInv ==
    /\ TypeOK
    /\ Sound(db) /\ Sound(work) /\ Grows(db, work)
    /\ \A r \in Requests : request[r].phase = "sent" => SeenFits(db, request[r])
    /\ ActingFits

-----------------------------------------------------------------------------
LEMMA ItemParts ==
    ASSUME NEW i \in ItemIds
    PROVE  /\ i[1] \in Steps /\ i[2] \in Rounds /\ i[3] \in Slots
           /\ StepOf(i) \in StepIds
           /\ i = <<i[1], i[2], i[3]>>
BY DEF ItemIds, StepOf, StepIds

LEMMA SlotOfStep ==
    ASSUME NEW s \in StepIds, NEW x \in Slots
    PROVE  /\ <<s[1], s[2], x>> \in ItemIds
           /\ StepOf(<<s[1], s[2], x>>) = s
           /\ <<s[1], s[2], x>>[3] = x
           /\ <<s[1], s[2], x>>[1] = s[1]
BY DEF ItemIds, StepOf, StepIds

LEMMA GrowsOn ==
    ASSUME NEW p \in Process, NEW q \in Process, NEW r \in Process, Grows(p, q), Grows(q, r)
    PROVE  Grows(p, r)
<1>1. r.version = p.version
  BY DEF Grows
<1>2. ASSUME NEW s \in StepIds
      PROVE  r.step[s] = p.step[s] \/ r.step[s].version > p.step[s].version
  <2>1. /\ p.step[s].version \in Nat /\ q.step[s].version \in Nat /\ r.step[s].version \in Nat
    BY DEF Process, StepRow
  <2> QED
    BY <2>1 DEF Grows
<1>3. ASSUME NEW i \in ItemIds
      PROVE  r.item[i] = p.item[i] \/ r.item[i].version > p.item[i].version
  <2>1. /\ p.item[i].version \in Nat /\ q.item[i].version \in Nat /\ r.item[i].version \in Nat
    BY DEF Process, ItemRow
  <2> QED
    BY <2>1 DEF Grows
<1> QED
  BY <1>1, <1>2, <1>3 DEF Grows

LEMMA GrowsSelf == ASSUME NEW p PROVE Grows(p, p)
BY DEF Grows

LEMMA StepPut ==
    ASSUME NEW p \in Process, NEW row \in StepRow, NEW s \in StepIds
    PROVE  LET q == PutStep(p, s, row)
           IN  /\ q \in Process
               /\ q.status = p.status /\ q.version = p.version /\ q.item = p.item
               /\ \A t \in StepIds : q.step[t] = IF t = s THEN row ELSE p.step[t]
BY DEF Process, PutStep

LEMMA ItemPut ==
    ASSUME NEW p \in Process, NEW row \in ItemRow, NEW i \in ItemIds
    PROVE  LET q == PutItem(p, i, row)
           IN  /\ q \in Process
               /\ q.status = p.status /\ q.version = p.version /\ q.step = p.step
               /\ \A j \in ItemIds : q.item[j] = IF j = i THEN row ELSE p.item[j]
BY DEF Process, PutItem

LEMMA StatusPut ==
    ASSUME NEW p \in Process, NEW st \in {"NONE", "RUNNING"} \cup Outcomes
    PROVE  LET q == [p EXCEPT !.status = st]
           IN  /\ q \in Process
               /\ q.status = st /\ q.version = p.version /\ q.step = p.step /\ q.item = p.item
BY DEF Process

LEMMA StepEntered ==
    ASSUME NEW p \in Process, NEW s \in StepIds
    PROVE  LET q == Entered(p, s)
           IN  /\ q \in Process
               /\ q.status = "RUNNING" /\ q.version = p.version /\ q.item = p.item
               /\ \A t \in StepIds :
                      q.step[t] = IF t = s THEN [status |-> "ACTIVE", version |-> 1] ELSE p.step[t]
<1>1. [status |-> "ACTIVE", version |-> 1] \in StepRow
  BY DEF StepRow
<1> DEFINE e == PutStep(p, s, [status |-> "ACTIVE", version |-> 1])
<1>2. /\ e \in Process /\ e.version = p.version /\ e.item = p.item
      /\ \A t \in StepIds :
            e.step[t] = IF t = s THEN [status |-> "ACTIVE", version |-> 1] ELSE p.step[t]
  BY <1>1, StepPut
<1>3. Entered(p, s) = [e EXCEPT !.status = "RUNNING"]
  BY DEF Entered
<1> HIDE DEF e
<1> QED
  BY <1>2, <1>3, StatusPut

LEMMA StepFinished ==
    ASSUME NEW p \in Process, NEW s \in StepIds, NEW st \in Closed
    PROVE  LET q == Finished(p, s, st)
           IN  /\ q \in Process
               /\ q.status = p.status /\ q.version = p.version /\ q.item = p.item
               /\ \A t \in StepIds :
                      q.step[t] = IF t = s THEN [status |-> st, version |-> p.step[s].version + 1]
                                  ELSE p.step[t]
<1>1. [status |-> st, version |-> p.step[s].version + 1] \in StepRow
  BY DEF Process, StepRow, Closed
<1> QED
  BY <1>1, StepPut DEF Finished

\* A new step that is over at once: forks, automatic steps and ends.
LEMMA StepPassed ==
    ASSUME NEW p, Sound(p), NEW s \in StepIds, p.step[s] = NoStepRow, NEW st \in Closed,
           NEW q \in Process, q.version = p.version, q.item = p.item,
           q.step = Finished(Entered(p, s), s, st).step
    PROVE  Sound(q) /\ Grows(p, q)
<1>1. p \in Process
  BY DEF Sound
<1> DEFINE e == Entered(p, s)
<1>2. /\ e \in Process /\ e.step[s].version = 1
      /\ \A t \in StepIds : t # s => e.step[t] = p.step[t]
  BY <1>1, StepEntered
<1> HIDE DEF e
<1>4. \A t \in StepIds : q.step[t] = IF t = s THEN [status |-> st, version |-> 2] ELSE p.step[t]
  BY <1>2, StepFinished DEF e
<1>5. p.step[s].status = "NONE" /\ p.step[s].version = 0
  BY DEF NoStepRow
<1>6. ~HasWork(p, s)
  BY <1>5 DEF Sound
<1>7. ASSUME NEW t \in StepIds PROVE q.step[t].status = "ACTIVE" <=> HasWork(q, t)
  <2>1. HasWork(q, t) <=> HasWork(p, t)
    BY DEF HasWork
  <2>2. CASE t = s
    BY <2>1, <2>2, <1>4, <1>6 DEF Closed
  <2>3. CASE t # s
    BY <2>1, <2>3, <1>4 DEF Sound
  <2> QED
    BY <2>2, <2>3
<1>8. ASSUME NEW i \in ItemIds PROVE q.step[StepOf(i)] = NoStepRow => q.item[i] = NoItem
  BY <1>4, ItemParts DEF Sound, NoStepRow
<1>9. Sound(q)
  BY <1>4, <1>7, <1>8 DEF Sound
<1>10. Grows(p, q)
  BY <1>4, <1>5 DEF Grows
<1> QED
  BY <1>9, <1>10

\* A new step that people have to do.
LEMMA StepMaterialized ==
    ASSUME NEW p, Sound(p), p.version \in Versions, NEW s \in StepIds, p.step[s] = NoStepRow,
           NEW C \in SUBSET Users, C # {}
    PROVE  LET q == Materialized(Entered(p, s), s, Definition[p.version].mode[s[1]], C)
           IN  Sound(q) /\ Grows(p, q)
<1> DEFINE mode == Definition[p.version].mode[s[1]]
           it(i) == IF StepOf(i) # s THEN p.item[i]
                    ELSE IF mode = "ALL" /\ i[3] \in C THEN NewItem({i[3]})
                    ELSE IF mode # "ALL" /\ i[3] = Shared THEN NewItem(C)
                    ELSE p.item[i]
           q == Materialized(Entered(p, s), s, mode, C)
<1>1. p \in Process
  BY DEF Sound
<1> DEFINE e == Entered(p, s)
<1>2. /\ e \in Process
      /\ e.version = p.version /\ e.item = p.item
      /\ \A t \in StepIds :
            e.step[t] = IF t = s THEN [status |-> "ACTIVE", version |-> 1] ELSE p.step[t]
  BY <1>1, StepEntered
<1>13. q = [e EXCEPT !.item = [i \in ItemIds |-> it(i)]]
  BY <1>2 DEF Materialized
<1> HIDE DEF q, e
<1>3. ASSUME NEW i \in ItemIds
      PROVE  /\ it(i) \in ItemRow
             /\ it(i).acted = IF it(i).status = "COMPLETED" THEN 1 ELSE 0
             /\ it(i) = NoItem \/ it(i).version >= 1
             /\ StepOf(i) = s /\ it(i) # NoItem => it(i).status = "OPEN" /\ it(i).version = 1
                                  /\ (i[3] = Shared <=> mode # "ALL")
             /\ StepOf(i) = s => p.item[i] = NoItem
  <2>1. p.item[i] \in ItemRow
    BY <1>1 DEF Process
  <2>2. StepOf(i) = s => p.item[i] = NoItem
    BY DEF Sound
  <2>3. \A D \in SUBSET Users :
           /\ NewItem(D) \in ItemRow /\ NewItem(D).acted = 0 /\ NewItem(D).status = "OPEN"
           /\ NewItem(D).version = 1
    BY DEF NewItem, ItemRow
  <2>4. CASE StepOf(i) # s
    BY <2>1, <2>4 DEF Sound
  <2>5. CASE StepOf(i) = s /\ mode = "ALL" /\ i[3] \in C
    <3>1. {i[3]} \in SUBSET Users /\ i[3] # Shared
      BY <2>5, RuntimeAssumption
    <3>2. it(i) = NewItem({i[3]})
      BY <2>5
    <3> QED
      BY <2>2, <2>3, <2>5, <3>1, <3>2
  <2>6. CASE StepOf(i) = s /\ mode # "ALL" /\ i[3] = Shared
    <3>1. it(i) = NewItem(C)
      BY <2>6
    <3> QED
      BY <2>2, <2>3, <2>6, <3>1
  <2>7. CASE StepOf(i) = s /\ ~(mode = "ALL" /\ i[3] \in C) /\ ~(mode # "ALL" /\ i[3] = Shared)
    <3>1. it(i) = NoItem
      BY <2>2, <2>7
    <3> QED
      BY <2>1, <2>2, <2>7, <3>1 DEF NoItem
  <2> HIDE DEF it
  <2> QED
    BY <2>4, <2>5, <2>6, <2>7
<1>4. ASSUME NEW i \in ItemIds, StepOf(i) # s PROVE it(i) = p.item[i]
  BY <1>4
<1>5. \E i \in ItemIds : StepOf(i) = s /\ it(i).status = "OPEN"
  <2>1. CASE mode = "ALL"
    <3>1. PICK u \in C : TRUE
      OBVIOUS
    <3>2. u \in Slots
      BY DEF Slots
    <3>3. it(<<s[1], s[2], u>>).status = "OPEN"
      BY <2>1, <3>2, SlotOfStep DEF NewItem
    <3> QED
      BY <3>2, <3>3, SlotOfStep
  <2>2. CASE mode # "ALL"
    <3>1. Shared \in Slots
      BY DEF Slots
    <3>2. it(<<s[1], s[2], Shared>>).status = "OPEN"
      BY <2>2, <3>1, SlotOfStep DEF NewItem
    <3> QED
      BY <3>1, <3>2, SlotOfStep
  <2> QED
    BY <2>1, <2>2
<1> HIDE DEF it, mode
<1>6. q \in Process
  BY <1>13, <1>2, <1>3 DEF Process
<1>7. /\ q.version = p.version
      /\ \A i \in ItemIds : q.item[i] = it(i)
      /\ \A t \in StepIds : q.step[t] = IF t = s THEN [status |-> "ACTIVE", version |-> 1] ELSE p.step[t]
  BY <1>13, <1>2 DEF Process
<1>8. ASSUME NEW t \in StepIds PROVE q.step[t].status = "ACTIVE" <=> HasWork(q, t)
  <2>1. CASE t = s
    BY <2>1, <1>5, <1>7 DEF HasWork, Undone
  <2>2. CASE t # s
    BY <2>2, <1>4, <1>7 DEF HasWork, Sound
  <2> QED
    BY <2>1, <2>2
<1>9. ASSUME NEW i \in ItemIds
      PROVE  /\ q.step[StepOf(i)] = NoStepRow => q.item[i] = NoItem
             /\ q.item[i].status # "NONE" =>
                   (i[3] = Shared <=> Definition[q.version].mode[i[1]] # "ALL")
  <2>1. CASE StepOf(i) = s
    <3>1. i[1] = s[1]
      BY <2>1 DEF StepOf
    <3>2. q.step[StepOf(i)] # NoStepRow
      BY <2>1, <1>7 DEF NoStepRow
    <3>3. q.item[i].status # "NONE" => it(i) # NoItem
      BY <1>7 DEF NoItem
    <3> QED
      BY <2>1, <3>1, <3>2, <3>3, <1>3, <1>7 DEF mode
  <2>2. CASE StepOf(i) # s
    BY <2>2, <1>4, <1>7, ItemParts DEF Sound
  <2> QED
    BY <2>1, <2>2
<1>10. \A t \in StepIds : q.step[t] = NoStepRow \/ q.step[t].version >= 1
  BY <1>7 DEF Sound
<1>11. Sound(q)
  BY <1>3, <1>6, <1>7, <1>8, <1>9, <1>10 DEF Sound
<1>12. Grows(p, q)
  <2>1. \A i \in ItemIds : q.item[i] = p.item[i] \/ q.item[i].version > p.item[i].version
    BY <1>3, <1>4, <1>7 DEF NoItem
  <2> QED
    BY <1>7, <2>1 DEF Grows, NoStepRow
<1> QED
  BY <1>11, <1>12 DEF q, mode

-----------------------------------------------------------------------------
(* What people do to items                                                    *)

\* A claim, a release or a reassignment.
LEMMA ItemMoved ==
    ASSUME NEW p, Sound(p), NEW i \in ItemIds, p.item[i].status \in Undone,
           NEW row \in ItemRow, row.status \in Undone, row.acted = p.item[i].acted,
           row.version = p.item[i].version + 1
    PROVE  Sound(PutItem(p, i, row)) /\ Grows(p, PutItem(p, i, row))
<1> DEFINE q == PutItem(p, i, row)
<1>1. p \in Process
  BY DEF Sound
<1>2. /\ q \in Process /\ q.version = p.version /\ q.step = p.step
      /\ \A j \in ItemIds : q.item[j] = IF j = i THEN row ELSE p.item[j]
  BY <1>1, ItemPut
<1>3. p.item[i].version \in Nat /\ p.item[i].acted = 0
  BY <1>1 DEF Process, ItemRow, Sound, Undone
<1>4. p.step[StepOf(i)] # NoStepRow
  BY DEF Sound, NoItem, Undone
<1> HIDE DEF q
<1>5. ASSUME NEW s \in StepIds PROVE HasWork(q, s) <=> HasWork(p, s)
  BY <1>2 DEF HasWork
<1>6. \A s \in StepIds : q.step[s].status = "ACTIVE" <=> HasWork(q, s)
  BY <1>2, <1>5 DEF Sound
<1>7. \A j \in ItemIds : q.item[j].acted = IF q.item[j].status = "COMPLETED" THEN 1 ELSE 0
  BY <1>2, <1>3 DEF Sound, Undone
<1>8. \A j \in ItemIds : q.item[j] = NoItem \/ q.item[j].version >= 1
  BY <1>2, <1>3 DEF Sound
<1>9. \A j \in ItemIds : q.step[StepOf(j)] = NoStepRow => q.item[j] = NoItem
  BY <1>2, <1>4 DEF Sound
<1>10. \A j \in ItemIds : q.item[j].status # "NONE" =>
          (j[3] = Shared <=> Definition[q.version].mode[j[1]] # "ALL")
  BY <1>2 DEF Sound, Undone
<1>11. Sound(q)
  BY <1>2, <1>6, <1>7, <1>8, <1>9, <1>10 DEF Sound
<1>12. Grows(p, q)
  BY <1>2, <1>3 DEF Grows
<1> QED
  BY <1>11, <1>12 DEF q

\* A claimed item that is completed, and its step with it or not.
LEMMA ItemDone ==
    ASSUME NEW p, Sound(p), NEW i \in ItemIds, p.item[i].status = "CLAIMED",
           NEW q \in Process, q.version = p.version,
           \A j \in ItemIds : q.item[j] = IF j = i THEN CompletedItem(p.item[i]) ELSE p.item[j],
           \A s \in StepIds \ {StepOf(i)} : q.step[s] = p.step[s],
           q.step[StepOf(i)].version = p.step[StepOf(i)].version + 1,
           q.step[StepOf(i)].status = "ACTIVE" <=> HasWork(q, StepOf(i))
    PROVE  Sound(q) /\ Grows(p, q)
<1> DEFINE s == StepOf(i)
<1>1. p \in Process /\ s \in StepIds
  BY ItemParts DEF Sound
<1>2. /\ p.item[i].version \in Nat /\ p.item[i].acted = 0 /\ p.step[s].version \in Nat
  BY <1>1 DEF Process, ItemRow, StepRow, Sound
<1>3. /\ CompletedItem(p.item[i]).status = "COMPLETED" /\ CompletedItem(p.item[i]).acted = 1
      /\ CompletedItem(p.item[i]).version = p.item[i].version + 1
  BY <1>1, <1>2 DEF Process, ItemRow, CompletedItem, Moved
<1> HIDE DEF s
<1>4. ASSUME NEW t \in StepIds, t # s PROVE HasWork(q, t) <=> HasWork(p, t)
  BY <1>4 DEF HasWork, s
<1>5. \A t \in StepIds : q.step[t].status = "ACTIVE" <=> HasWork(q, t)
  BY <1>4 DEF Sound, s
<1>6. \A j \in ItemIds : q.item[j].acted = IF q.item[j].status = "COMPLETED" THEN 1 ELSE 0
  BY <1>3 DEF Sound
<1>7. \A j \in ItemIds : q.item[j] = NoItem \/ q.item[j].version >= 1
  BY <1>2, <1>3 DEF Sound
<1>8. \A t \in StepIds : q.step[t] = NoStepRow \/ q.step[t].version >= 1
  BY <1>2 DEF Sound, s
<1>9. ASSUME NEW j \in ItemIds, q.step[StepOf(j)] = NoStepRow PROVE q.item[j] = NoItem
  <2>1. StepOf(j) # s
    BY <1>2, <1>9 DEF NoStepRow, s
  <2>2. j # i /\ StepOf(j) \in StepIds
    BY <2>1, ItemParts DEF s
  <2> QED
    BY <1>9, <2>1, <2>2 DEF Sound, s
<1>10. \A j \in ItemIds : q.item[j].status # "NONE" =>
          (j[3] = Shared <=> Definition[q.version].mode[j[1]] # "ALL")
  BY DEF Sound
<1>11. Sound(q)
  BY <1>5, <1>6, <1>7, <1>8, <1>9, <1>10 DEF Sound
<1>12. Grows(p, q)
  BY <1>2, <1>3 DEF Grows, s
<1> QED
  BY <1>11, <1>12

LEMMA CompletedRow ==
    ASSUME NEW p \in Process, NEW i \in ItemIds
    PROVE  CompletedItem(p.item[i]) \in ItemRow /\ CompletedItem(p.item[i]).status = "COMPLETED"
<1>1. p.item[i] \in ItemRow
  BY DEF Process
<1>2. \A it \in ItemRow : CompletedItem(it).status = "COMPLETED"
  BY DEF ItemRow, CompletedItem, Moved
<1>3. \A it \in ItemRow : CompletedItem(it) \in ItemRow
  BY DEF ItemRow, CompletedItem, Moved
<1> QED
  BY <1>1, <1>2, <1>3

\* One of several, so that work is left.
LEMMA PartDone ==
    ASSUME NEW p, Sound(p), NEW i \in ItemIds, p.item[i].status = "CLAIMED", Remaining(p, i) # {}
    PROVE  Sound(Partly(p, i)) /\ Grows(p, Partly(p, i)) /\ Partly(p, i).status = p.status
<1> DEFINE s == StepOf(i)
           e == PutItem(p, i, CompletedItem(p.item[i]))
           row == [status |-> p.step[s].status, version |-> p.step[s].version + 1]
           q == PutStep(e, s, row)
<1>1. p \in Process /\ s \in StepIds
  BY ItemParts DEF Sound
<1>2. /\ e \in Process /\ e.version = p.version /\ e.step = p.step /\ e.status = p.status
      /\ \A j \in ItemIds : e.item[j] = IF j = i THEN CompletedItem(p.item[i]) ELSE p.item[j]
  BY <1>1, ItemPut, CompletedRow
<1>3. row \in StepRow
  BY <1>1 DEF Process, StepRow
<1> HIDE DEF e
<1>4. /\ q \in Process /\ q.version = e.version /\ q.item = e.item /\ q.status = e.status
      /\ \A t \in StepIds : q.step[t] = IF t = s THEN row ELSE e.step[t]
  BY <1>1, <1>2, <1>3, StepPut
<1> HIDE DEF q
<1>5. PICK j \in ItemIds : /\ StepOf(j) = s /\ j # i
                          /\ p.item[j].status \notin {"NONE", "COMPLETED", "CANCELLED"}
  BY DEF Remaining, ItemsOf
<1>6. p.item[j].status \in Undone
  BY <1>1, <1>5 DEF Process, ItemRow, Undone
<1>7. HasWork(q, s)
  BY <1>2, <1>4, <1>5, <1>6 DEF HasWork
<1>8. HasWork(p, s)
  BY <1>5, <1>6 DEF HasWork
<1>9. q.step[s].status = "ACTIVE"
  BY <1>1, <1>4, <1>8 DEF Sound
<1>10. Sound(q) /\ Grows(p, q)
  BY <1>1, <1>2, <1>4, <1>7, <1>9, ItemDone
<1>11. q = Partly(p, i)
  BY DEF q, e, Partly
<1> QED
  BY <1>2, <1>4, <1>10, <1>11

\* The last one, so that none is left.
LEMMA WholeDone ==
    ASSUME NEW p, Sound(p), NEW i \in ItemIds, p.item[i].status = "CLAIMED", NEW a,
           Definition[p.version].mode[i[1]] = "ALL" => Remaining(p, i) = {}
    PROVE  Sound(Wholly(p, i, a)) /\ Grows(p, Wholly(p, i, a)) /\ Wholly(p, i, a).status = p.status
<1> DEFINE s == StepOf(i)
           e == PutItem(p, i, CompletedItem(p.item[i]))
           q == Finished(e, s, StepOutcome(a))
<1>1. p \in Process /\ s \in StepIds
  BY ItemParts DEF Sound
<1>2. /\ e \in Process /\ e.version = p.version /\ e.step = p.step /\ e.status = p.status
      /\ \A j \in ItemIds : e.item[j] = IF j = i THEN CompletedItem(p.item[i]) ELSE p.item[j]
  BY <1>1, ItemPut, CompletedRow
<1>3. StepOutcome(a) \in Closed
  BY DEF StepOutcome, Closed
<1> HIDE DEF e
<1>4. /\ q \in Process /\ q.version = e.version /\ q.item = e.item /\ q.status = e.status
      /\ \A t \in StepIds :
            q.step[t] = IF t = s THEN [status |-> StepOutcome(a), version |-> e.step[s].version + 1]
                        ELSE e.step[t]
  BY <1>1, <1>2, <1>3, StepFinished
<1> HIDE DEF q
<1>5. ASSUME NEW j \in ItemIds, StepOf(j) = s, j # i PROVE p.item[j].status \notin Undone
  <2>1. CASE Definition[p.version].mode[i[1]] = "ALL"
    BY <1>5, <2>1 DEF Remaining, ItemsOf, Undone
  <2>2. CASE Definition[p.version].mode[i[1]] # "ALL"
    <3>1. i[1] = j[1] /\ i[2] = j[2]
      BY <1>5 DEF StepOf
    <3>2. i[3] = Shared
      BY <2>2 DEF Sound
    <3>3. j[3] # Shared
      BY <1>5, <3>1, <3>2, ItemParts
    <3>4. p.item[j].status = "NONE"
      BY <2>2, <3>1, <3>3 DEF Sound
    <3> QED
      BY <3>4 DEF Undone
  <2> QED
    BY <2>1, <2>2
<1>6. ~HasWork(q, s)
  BY <1>1, <1>2, <1>4, <1>5, CompletedRow DEF HasWork, Undone
<1>7. q.step[s].status # "ACTIVE"
  BY <1>1, <1>3, <1>4 DEF Closed
<1>8. Sound(q) /\ Grows(p, q)
  BY <1>1, <1>2, <1>4, <1>6, <1>7, ItemDone
<1>9. q = Wholly(p, i, a)
  BY DEF q, e, Wholly
<1> QED
  BY <1>2, <1>4, <1>8, <1>9

-----------------------------------------------------------------------------
(* The invariant                                                              *)

LEMMA SeenStaysFit ==
    ASSUME NEW p \in Process, NEW w \in Process, Grows(p, w),
           NEW q, SeenFits(p, q), q.seen \in ItemRow, q.seenStep \in StepRow
    PROVE  SeenFits(w, q)
<1>1. q.item \in ItemIds /\ StepOf(q.item) \in StepIds
  BY ItemParts DEF SeenFits
<1>2. /\ p.item[q.item].version \in Nat /\ w.item[q.item].version \in Nat
      /\ p.step[StepOf(q.item)].version \in Nat /\ w.step[StepOf(q.item)].version \in Nat
      /\ q.seen.version \in Nat /\ q.seenStep.version \in Nat
  BY <1>1 DEF Process, ItemRow, StepRow
<1> QED
  BY <1>1, <1>2 DEF SeenFits, Grows

\* A step of a transaction only touches the working copy and what is to do.
LEMMA WorkingKeeps ==
    ASSUME IInv, ~Idle, UNCHANGED <<db, acting, request>>,
           Sound(work'), Grows(work, work'), todo' \in Seq(Steps)
    PROVE  IInv'
<1>1. db \in Process /\ work \in Process /\ work' \in Process
  BY DEF IInv, Sound
<1>2. Grows(db, work)'
  BY <1>1, GrowsOn DEF IInv
<1>3. TypeOK'
  BY <1>1 DEF IInv, TypeOK, Idle
<1>4. \A r \in Requests : request'[r].phase = "sent" => SeenFits(db', request'[r])
  BY DEF IInv, SeenFits
<1>5. ActingFits'
  BY DEF IInv, ActingFits
<1> QED
  BY <1>2, <1>3, <1>4, <1>5 DEF IInv

\* A transaction that begins: a request that was let through, or the start.
LEMMA BeginKeeps ==
    ASSUME IInv, Idle, UNCHANGED <<db, request>>, Sound(work'), Grows(db, work'),
           todo' \in Seq(Steps),
           \/ acting' \in Requests /\ request[acting'].phase = "sent" /\ MayAct(db, request[acting'])
           \/ acting' = Shared /\ db.status = "NONE"
    PROVE  IInv'
<1>1. acting' \in Requests \cup {Shared} /\ acting' # Nobody
  BY RuntimeAssumption DEF Shared, Nobody
<1>2. TypeOK'
  BY <1>1 DEF IInv, TypeOK, Idle, Sound
<1>3. \A r \in Requests : request'[r].phase = "sent" => SeenFits(db', request'[r])
  BY DEF IInv, SeenFits
<1>4. ActingFits'
  BY RuntimeAssumption DEF ActingFits
<1> QED
  BY <1>2, <1>3, <1>4 DEF IInv

\* Between transactions the tables change, and with them their versions.
LEMMA TablesKeep ==
    ASSUME IInv, acting' = Nobody, todo' = <<>>, Sound(db'), Grows(db, db'), work' = db',
           \A r \in Requests : request'[r] = request[r] \/ request'[r] = Unsent,
           request' \in [Requests ->
               [phase : {"unsent", "sent"}, by : Users \cup {Nobody}, item : ItemIds \cup {<<>>},
                seen : ItemRow, seenStep : StepRow, action : Actions \cup {NoAction}]]
    PROVE  IInv'
<1>1. db \in Process /\ db' \in Process
  BY DEF IInv, Sound
<1>2. TypeOK'
  BY <1>1 DEF TypeOK
<1>3. ASSUME NEW r \in Requests, request'[r].phase = "sent" PROVE SeenFits(db', request'[r])
  <2>1. request'[r] = request[r]
    BY <1>3 DEF Unsent
  <2>2. SeenFits(db, request[r]) /\ request[r].seen \in ItemRow /\ request[r].seenStep \in StepRow
    BY <1>3, <2>1 DEF IInv, TypeOK
  <2>3. SeenFits(db', request[r])
    BY <1>1, <2>2, SeenStaysFit
  <2> QED
    BY <2>1, <2>3
<1>4. ActingFits'
  BY RuntimeAssumption DEF ActingFits, Shared, Nobody
<1> QED
  BY <1>2, <1>3, <1>4, GrowsSelf DEF IInv

LEMMA RowTypes ==
    /\ NoItem \in ItemRow /\ NoStepRow \in StepRow
    /\ Unsent \in [phase : {"unsent", "sent"}, by : Users \cup {Nobody}, item : ItemIds \cup {<<>>},
                    seen : ItemRow, seenStep : StepRow, action : Actions \cup {NoAction}]
    /\ Unsent.phase = "unsent"
BY DEF NoItem, ItemRow, NoStepRow, StepRow, Unsent

LEMMA InitInv == Init => IInv
<1> SUFFICES ASSUME Init PROVE IInv
  OBVIOUS
<1>1. PICK v \in Versions : db = NoProcess(v)
  BY DEF Init
<1>2. db \in Process
  BY <1>1, RowTypes DEF NoProcess, Process
<1>3. Sound(db)
  <2>1. \A s \in StepIds : db.step[s] = NoStepRow /\ \A i \in ItemIds : db.item[i] = NoItem
    BY <1>1 DEF NoProcess
  <2>2. \A i \in ItemIds : db.item[i] = NoItem
    BY <1>1 DEF NoProcess
  <2> QED
    BY <1>2, <2>1, <2>2 DEF Sound, HasWork, Undone, NoItem, NoStepRow
<1>4. TypeOK
  BY <1>2, RowTypes DEF Init, TypeOK, Idle
<1>5. ActingFits
  BY RuntimeAssumption DEF Init, ActingFits, Shared, Nobody
<1> QED
  BY <1>3, <1>4, <1>5, GrowsSelf, RowTypes DEF IInv, Init

\* What the definition of the instance says of a step, by its type.
LEMMA DefinitionParts ==
    ASSUME NEW p \in Process, NEW k \in Steps
    PROVE  LET d == Definition[p.version]
           IN  /\ p.version \in Versions
               /\ d.start \in Steps
               /\ d.outcome[k] \in Outcomes
               /\ d.out[k] \in Seq(Transition)
               /\ \A j \in DOMAIN d.out[k] : d.out[k][j].to \in Steps
<1>1. p.version \in Versions
  BY DEF Process
<1>2. Definition[p.version] \in DefinitionType
  BY <1>1, RuntimeAssumption
<1>3. Definition[p.version].out[k] \in Seq(Transition)
  BY <1>2 DEF DefinitionType
<1>4. \A t \in Transition : t.to \in Steps
  BY DEF Transition
<1> QED
  BY <1>1, <1>2, <1>3, <1>4 DEF DefinitionType

LEMMA FreshStep ==
    ASSUME NEW p, NEW k \in Steps, NEW n \in Rounds, IsNextRound(p, k, n)
    PROVE  <<k, n>> \in StepIds /\ p.step[<<k, n>>] = NoStepRow /\ <<k, n>>[1] = k
BY DEF IsNextRound, StepIds, Rounds

\* The steps of a transaction.
LEMMA ActivationKeeps ==
    ASSUME IInv, NEW k \in Steps, NEW n \in Rounds,
           \/ DeferJoin(k)
           \/ ActivateEnd(k, n)
           \/ \E C \in Candidates(Def, k) : ActivateHuman(k, n, C)
           \/ \E F \in Forked(Def, k) : \E f \in InOrder(F) : ActivateFork(k, n, f)
           \/ \E j \in Selectable(Def, k, "COMPLETE") : ActivateAutomatic(k, n, j)
    PROVE  IInv'
<1> DEFINE s == <<k, n>>
<1>1. /\ work \in Process /\ Sound(work) /\ todo \in Seq(Steps)
      /\ ~Idle /\ todo # <<>> /\ UNCHANGED <<db, acting, request>>
  BY DEF IInv, TypeOK, Activating, DeferJoin, ActivateEnd, ActivateHuman, ActivateFork,
         ActivateAutomatic
<1>2. Tail(todo) \in Seq(Steps)
  BY <1>1
<1>3. CASE DeferJoin(k)
  BY <1>1, <1>2, <1>3, WorkingKeeps, GrowsSelf DEF DeferJoin, IInv
<1>4. ASSUME IsNextRound(work, k, n), NEW st \in Closed
      PROVE  LET q == Finished(Entered(work, s), s, st)
             IN  q \in Process /\ Sound(q) /\ Grows(work, q) /\ q.version = work.version
                 /\ q.item = work.item
  <2> DEFINE e == Entered(work, s)
             q == Finished(e, s, st)
  <2>1. s \in StepIds /\ work.step[s] = NoStepRow
    BY <1>4, FreshStep
  <2>2. e \in Process /\ e.version = work.version /\ e.item = work.item
    BY <1>1, <2>1, StepEntered
  <2> HIDE DEF e
  <2>3. q \in Process /\ q.version = work.version /\ q.item = work.item
    BY <2>1, <2>2, StepFinished
  <2> HIDE DEF q
  <2>4. q.step = Finished(Entered(work, s), s, st).step
    BY DEF q, e
  <2>5. Sound(q) /\ Grows(work, q)
    BY <1>1, <2>1, <2>3, <2>4, StepPassed DEF s
  <2> QED
    BY <2>3, <2>5 DEF q, e
<1>5. CASE ActivateEnd(k, n)
  <2>1. Def.outcome[k] \in Outcomes /\ Def.outcome[k] \in Closed
    BY <1>1, DefinitionParts DEF Def, Outcomes, Closed
  <2> DEFINE q == Finished(Entered(work, s), s, Def.outcome[k])
             w == [q EXCEPT !.status = Def.outcome[k]]
  <2>2. /\ q \in Process /\ Sound(q) /\ Grows(work, q) /\ q.version = work.version
        /\ q.item = work.item
    BY <1>4, <1>5, <2>1 DEF ActivateEnd
  <2>3. w \in Process /\ w.version = q.version /\ w.item = q.item /\ w.step = q.step
    <3> HIDE DEF q
    <3> QED
      BY <2>1, <2>2, StatusPut
  <2>4. work' = w /\ todo' = Tail(todo)
    BY <1>5 DEF ActivateEnd
  <2>5. Sound(w)
    <3> HIDE DEF q, w
    <3>1. \A t \in StepIds : HasWork(w, t) <=> HasWork(q, t)
      BY <2>3 DEF HasWork
    <3> QED
      BY <2>2, <2>3, <3>1 DEF Sound
  <2>6. Grows(work, w)
    <3> HIDE DEF q, w
    <3> QED
      BY <2>2, <2>3 DEF Grows
  <2> HIDE DEF q, w
  <2> QED
    BY <1>1, <1>2, <2>4, <2>5, <2>6, WorkingKeeps
<1>6. ASSUME NEW C \in Candidates(Def, k), ActivateHuman(k, n, C) PROVE IInv'
  <2> DEFINE q == Materialized(Entered(work, s), s, Definition[work.version].mode[s[1]], C)
  <2>1. s \in StepIds /\ work.step[s] = NoStepRow /\ s[1] = k
    BY <1>6, FreshStep DEF ActivateHuman
  <2>2. C \in SUBSET Users /\ C # {}
    BY DEF Candidates
  <2>3. work.version \in Versions
    BY <1>1 DEF Process
  <2>4. Sound(q) /\ Grows(work, q)
    BY <1>1, <2>1, <2>2, <2>3, StepMaterialized
  <2>5. work' = q /\ todo' = Tail(todo)
    BY <1>6, <2>1 DEF ActivateHuman, Def
  <2> HIDE DEF q
  <2> QED
    BY <1>1, <1>2, <2>4, <2>5, WorkingKeeps
<1>7. ASSUME NEW F \in Forked(Def, k), NEW f \in InOrder(F), ActivateFork(k, n, f) PROVE IInv'
  <2> DEFINE q == Finished(Entered(work, s), s, "COMPLETED")
             branches == [i \in DOMAIN f |-> Def.out[k][f[i]].to]
  <2>1. Sound(q) /\ Grows(work, q)
    BY <1>4, <1>7 DEF ActivateFork, Closed
  <2>2. work' = q /\ todo' = branches \o Tail(todo)
    BY <1>7 DEF ActivateFork
  <2>3. Def.out[k] \in Seq(Transition) /\ \A j \in DOMAIN Def.out[k] : Def.out[k][j].to \in Steps
    BY <1>1, DefinitionParts DEF Def
  <2>4. F \subseteq DOMAIN Def.out[k] /\ f \in [1..Cardinality(F) -> F]
    BY DEF Forked, InOrder
  <2>5. Cardinality(F) \in Nat
    <3>1. DOMAIN Def.out[k] = 1..Len(Def.out[k]) /\ Len(Def.out[k]) \in Nat
      BY <2>3
    <3>2. \A l \in Nat : IsFiniteSet(1..l)
      BY FS_Interval
    <3> QED
      BY <2>4, <3>1, <3>2, FS_Subset, FS_CardinalityType
  <2>6. branches \in Seq(Steps)
    BY <2>3, <2>4, <2>5
  <2>7. branches \o Tail(todo) \in Seq(Steps)
    BY <1>2, <2>6
  <2> HIDE DEF q, branches
  <2> QED
    BY <1>1, <2>1, <2>2, <2>7, WorkingKeeps
<1>8. ASSUME NEW j \in Selectable(Def, k, "COMPLETE"), ActivateAutomatic(k, n, j) PROVE IInv'
  <2> DEFINE q == Finished(Entered(work, s), s, "COMPLETED")
             next == Def.out[k][j].to
  <2>1. Sound(q) /\ Grows(work, q)
    BY <1>4, <1>8 DEF ActivateAutomatic, Closed
  <2>2. work' = q /\ todo' = <<next>> \o Tail(todo)
    BY <1>8 DEF ActivateAutomatic
  <2>3. next \in Steps
    BY <1>1, DefinitionParts DEF Def, Selectable
  <2>4. <<next>> \o Tail(todo) \in Seq(Steps)
    BY <1>2, <2>3
  <2> HIDE DEF q, next
  <2> QED
    BY <1>1, <2>1, <2>2, <2>4, WorkingKeeps
<1> QED
  BY <1>3, <1>5, <1>6, <1>7, <1>8

\* An action that passes the checks takes an item the sender saw unchanged.
LEMMA ActsOnSeen ==
    ASSUME IInv, NEW r \in Requests, request[r].phase = "sent", MayAct(db, request[r])
    PROVE  LET q == request[r]
           IN  /\ q.item \in ItemIds
               /\ db.item[q.item] = q.seen
               /\ q.seenStep \in {NoStepRow, db.step[StepOf(q.item)]}
<1> DEFINE q == request[r]
<1>1. SeenFits(db, q) /\ q.seen \in ItemRow /\ q.seenStep \in StepRow
  BY DEF IInv, TypeOK
<1>2. q.item \in ItemIds /\ StepOf(q.item) \in StepIds
  BY <1>1, ItemParts DEF SeenFits
<1>3. db.item[q.item].version \in Nat /\ db.step[StepOf(q.item)].version \in Nat
  BY <1>2 DEF IInv, TypeOK, Process, ItemRow, StepRow
<1>4. /\ db.item[q.item].version = q.seen.version
      /\ q.seenStep = NoStepRow \/ db.step[StepOf(q.item)].version = q.seenStep.version
  BY DEF MayAct
<1> QED
  BY <1>1, <1>2, <1>3, <1>4 DEF SeenFits

LEMMA BeginsKeep ==
    ASSUME IInv,
           \/ StartProcess
           \/ \E r \in Sent : \E j \in Selectable(Def, request[r].item[1], request[r].action) :
                 PerformPart(r, j) \/ PerformLast(r, j)
    PROVE  IInv'
<1>1. Sound(db) /\ db \in Process /\ work \in Process
  BY DEF IInv, TypeOK
<1>2. CASE StartProcess
  <2> DEFINE w == [db EXCEPT !.status = "RUNNING"]
  <2>1. w \in Process /\ w.version = db.version /\ w.step = db.step /\ w.item = db.item
    BY <1>1, StatusPut
  <2>2. work' = w /\ todo' = <<Def.start>>
    BY <1>2 DEF StartProcess
  <2>3. Sound(w) /\ Grows(db, w)
    <3> HIDE DEF w
    <3>1. \A t \in StepIds : HasWork(w, t) <=> HasWork(db, t)
      BY <2>1 DEF HasWork
    <3> QED
      BY <1>1, <2>1, <3>1 DEF Sound, Grows
  <2>4. Def.start \in Steps
    <3>1. Definition[work.version] \in DefinitionType
      BY <1>1, RuntimeAssumption DEF Process
    <3> QED
      BY <3>1 DEF Def, DefinitionType
  <2>5. <<Def.start>> \in Seq(Steps)
    BY <2>4
  <2> HIDE DEF w
  <2> QED
    BY <1>2, <2>2, <2>3, <2>5, BeginKeeps DEF StartProcess
<1>3. ASSUME NEW r \in Sent, NEW j \in Selectable(Def, request[r].item[1], request[r].action),
             PerformPart(r, j) \/ PerformLast(r, j)
      PROVE  IInv'
  <2> DEFINE q == request[r]
             i == q.item
  <2>1. /\ r \in Requests /\ q.phase = "sent" /\ MayAct(db, q) /\ Idle /\ acting' = r
        /\ UNCHANGED <<db, request>> /\ work = db
    BY <1>3 DEF Sent, PerformPart, PerformLast, IInv, TypeOK
  <2>2. i \in ItemIds /\ db.item[i].status = "CLAIMED" /\ i[1] \in Steps
    BY <2>1, ActsOnSeen, ItemParts DEF MayAct
  <2>3. CASE PerformPart(r, j)
    <3>1. Sound(Partly(db, i)) /\ Grows(db, Partly(db, i))
      BY <1>1, <2>2, <2>3, PartDone DEF PerformPart
    <3>2. work' = Partly(db, i) /\ todo' = <<>>
      BY <2>3 DEF PerformPart
    <3> HIDE DEF i
    <3> QED
      BY <2>1, <3>1, <3>2, BeginKeeps
  <2>4. CASE PerformLast(r, j)
    <3>1. Definition[db.version].mode[i[1]] = "ALL" => Remaining(db, i) = {}
      BY <2>1, <2>4 DEF PerformLast, Def
    <3>2. Sound(Wholly(db, i, q.action)) /\ Grows(db, Wholly(db, i, q.action))
      BY <1>1, <2>2, <3>1, WholeDone
    <3>3. work' = Wholly(db, i, q.action) /\ todo' = <<Def.out[i[1]][j].to>>
      BY <2>4 DEF PerformLast
    <3>4. Def.out[i[1]][j].to \in Steps
      BY <1>1, <2>2, DefinitionParts DEF Def, Selectable
    <3>5. <<Def.out[i[1]][j].to>> \in Seq(Steps)
      BY <3>4
    <3> HIDE DEF i
    <3> QED
      BY <2>1, <3>2, <3>3, <3>5, BeginKeeps
  <2> QED
    BY <1>3, <2>3, <2>4
<1> QED
  BY <1>2, <1>3

LEMMA SendKeeps ==
    ASSUME IInv, NEW r \in Requests, NEW u \in Users, NEW i \in ItemIds, NEW a \in Actions,
           NEW row \in {db.step[StepOf(i)], NoStepRow}, SendAction(r, u, i, a, row)
    PROVE  IInv'
<1> DEFINE q == [phase |-> "sent", by |-> u, item |-> i, seen |-> db.item[i],
                 seenStep |-> row, action |-> a]
<1>1. /\ request' = [request EXCEPT ![r] = q] /\ request[r].phase = "unsent"
      /\ UNCHANGED <<db, work, todo, acting>>
  BY DEF SendAction
<1>2. db \in Process /\ StepOf(i) \in StepIds
  BY ItemParts DEF IInv, TypeOK
<1>3. db.item[i] \in ItemRow /\ row \in StepRow
  BY <1>2, RowTypes DEF Process
<1>4. TypeOK'
  BY <1>1, <1>3 DEF IInv, TypeOK, Idle
<1>5. SeenFits(db, q)
  BY <1>2 DEF SeenFits
<1> HIDE DEF q
<1>6. \A x \in Requests : request'[x] = IF x = r THEN q ELSE request[x]
  BY <1>1 DEF IInv, TypeOK
<1>7. \A x \in Requests : request'[x].phase = "sent" => SeenFits(db', request'[x])
  BY <1>1, <1>5, <1>6 DEF IInv
<1>8. ActingFits'
  <2>1. acting \in Requests => acting # r
    BY <1>1 DEF IInv, ActingFits
  <2> QED
    BY <1>1, <1>6, <2>1 DEF IInv, ActingFits
<1> QED
  BY <1>1, <1>4, <1>7, <1>8 DEF IInv

LEMMA ForgetKeeps == ASSUME IInv, NEW r \in Requests, Forget(r) PROVE IInv'
<1>1. /\ request' = [request EXCEPT ![r] = Unsent] /\ acting # r
      /\ UNCHANGED <<db, work, todo, acting>>
  BY DEF Forget
<1>2. \A x \in Requests : request'[x] = IF x = r THEN Unsent ELSE request[x]
  BY <1>1 DEF IInv, TypeOK
<1>3. TypeOK'
  BY <1>1, RowTypes DEF IInv, TypeOK, Idle
<1>4. ActingFits'
  BY <1>1, <1>2 DEF IInv, ActingFits
<1> QED
  BY <1>1, <1>2, <1>3, <1>4, RowTypes DEF IInv

LEMMA TransactionEndKeeps == ASSUME IInv, Commit \/ Abort PROVE IInv'
<1> DEFINE Request == [phase : {"unsent", "sent"}, by : Users \cup {Nobody},
                item : ItemIds \cup {<<>>}, seen : ItemRow, seenStep : StepRow,
                action : Actions \cup {NoAction}]
<1>1. request \in [Requests -> Request]
  BY DEF IInv, TypeOK
<1>2. CASE Commit
  <2>1. /\ acting' = Nobody /\ todo' = <<>> /\ db' = work /\ work' = work
    BY <1>2 DEF Commit
  <2>2. Sound(work) /\ Grows(db, work)
    BY DEF IInv
  <2>3. /\ request' \in [Requests -> Request]
        /\ \A r \in Requests : request'[r] = request[r] \/ request'[r] = Unsent
    BY <1>1, <1>2, RowTypes DEF Commit
  <2> QED
    BY <2>1, <2>2, <2>3, TablesKeep
<1>3. CASE Abort
  <2>1. /\ acting' = Nobody /\ todo' = <<>> /\ db' = db /\ work' = db /\ request' = request
    BY <1>3 DEF Abort
  <2>2. Sound(db) /\ Grows(db, db)
    BY GrowsSelf DEF IInv
  <2> QED
    BY <1>1, <2>1, <2>2, TablesKeep
<1> QED
  BY <1>2, <1>3

LEMMA KernelKeeps ==
    ASSUME IInv, NEW i \in ItemIds,
           Release(i) \/ Reassign(i) \/ \E u \in Users : Claim(u, i)
    PROVE  IInv'
<1>1. db \in Process /\ Sound(db) /\ db.item[i] \in ItemRow
  BY DEF IInv, TypeOK, Process
<1>2. db.item[i].status \in Undone
  BY DEF Release, Reassign, Claim, Undone
<1>3. PICK row : /\ Set(i, row)
                 /\ \/ row = Reopened(db.item[i])
                    \/ \E u \in Users : row = ClaimedBy(db.item[i], u)
  BY DEF Release, Reassign, Claim
<1>4. /\ row \in ItemRow /\ row.status \in Undone /\ row.acted = db.item[i].acted
      /\ row.version = db.item[i].version + 1
  BY <1>1, <1>3 DEF Reopened, ClaimedBy, Moved, ItemRow, Undone
<1>5. Sound(PutItem(db, i, row)) /\ Grows(db, PutItem(db, i, row))
  BY <1>1, <1>2, <1>4, ItemMoved
<1>6. /\ db' = PutItem(db, i, row) /\ work' = db' /\ UNCHANGED <<todo, acting, request>>
      /\ acting = Nobody /\ todo = <<>>
  BY <1>3 DEF Set, Idle, IInv, TypeOK
<1>7. request \in [Requests ->
           [phase : {"unsent", "sent"}, by : Users \cup {Nobody}, item : ItemIds \cup {<<>>},
            seen : ItemRow, seenStep : StepRow, action : Actions \cup {NoAction}]]
  BY DEF IInv, TypeOK
<1> QED
  BY <1>5, <1>6, <1>7, TablesKeep

LEMMA StepInv == IInv /\ [Next]_vars => IInv'
<1> SUFFICES ASSUME IInv, [Next]_vars PROVE IInv'
  OBVIOUS
<1>1. CASE UNCHANGED vars
  BY <1>1 DEF vars, IInv, TypeOK, Idle, ActingFits
<1>2. CASE Next
  <2>1. CASE StartProcess \/ \E r \in Sent :
                \E j \in Selectable(Def, request[r].item[1], request[r].action) :
                    PerformPart(r, j) \/ PerformLast(r, j)
    BY <2>1, BeginsKeep
  <2>2. ASSUME NEW k \in Steps, DeferJoin(k) PROVE IInv'
    <3>1. 1 \in Rounds
      BY RuntimeAssumption DEF Rounds
    <3> QED
      BY <2>2, <3>1, ActivationKeeps
  <2>3. ASSUME NEW k \in Steps, NEW n \in Rounds,
               \/ ActivateEnd(k, n)
               \/ \E C \in Candidates(Def, k) : ActivateHuman(k, n, C)
               \/ \E F \in Forked(Def, k) : \E f \in InOrder(F) : ActivateFork(k, n, f)
               \/ \E j \in Selectable(Def, k, "COMPLETE") : ActivateAutomatic(k, n, j)
        PROVE  IInv'
    BY <2>3, ActivationKeeps
  <2>4. ASSUME NEW r \in Requests, NEW u \in Users, NEW i \in ItemIds, NEW a \in Actions,
               NEW row \in {db.step[StepOf(i)], NoStepRow}, SendAction(r, u, i, a, row)
        PROVE  IInv'
    BY <2>4, SendKeeps
  <2>5. ASSUME NEW r \in Requests, Forget(r) PROVE IInv'
    BY <2>5, ForgetKeeps
  <2>6. CASE Commit \/ Abort
    BY <2>6, TransactionEndKeeps
  <2>7. ASSUME NEW i \in ItemIds, Release(i) \/ Reassign(i) \/ \E u \in Users : Claim(u, i)
        PROVE  IInv'
    BY <2>7, KernelKeeps
  <2> QED
    BY <1>2, <2>1, <2>2, <2>3, <2>4, <2>5, <2>6, <2>7 DEF Next
<1> QED
  BY <1>1, <1>2

LEMMA Invariance == Spec => []IInv
BY InitInv, StepInv, PTL DEF Spec

-----------------------------------------------------------------------------
(* The results                                                                *)

\* Every state has the type it should, and outside a transaction the working
\* copy is what was committed.
THEOREM Typed == Spec => []TypeOK
<1>1. IInv => TypeOK
  BY DEF IInv
<1> QED
  BY <1>1, Invariance, PTL

\* Steps under way and open items always fit together, and every completed
\* item was acted on once.
THEOREM StepsFitItems == Spec => []StepsMatchItems
<1>1. IInv => StepsMatchItems
  <2> SUFFICES ASSUME IInv PROVE StepsMatchItems
    OBVIOUS
  <2>1. \A s \in StepIds : Open(db) \cap ItemsOf(s) # {} <=> HasWork(db, s)
    BY DEF Open, ItemsOf, HasWork, Undone
  <2>2. \A s \in StepIds : s \in Active(db) <=> db.step[s].status = "ACTIVE"
    BY DEF Active
  <2> QED
    BY <2>1, <2>2 DEF IInv, Sound, StepsMatchItems
<1> QED
  BY <1>1, Invariance, PTL

\* What an action does, it does to the item and the step its user saw.
THEOREM SeenIsWhatIsActedOn == Spec => ActsOnWhatWasSeen
<1>1. IInv /\ [Next]_vars => [\A r \in Requests : acting = r /\ db' # db =>
           LET q == request[r] IN
           /\ db.item[q.item] = q.seen
           /\ q.seenStep \in {NoStepRow, db.step[StepOf(q.item)]}]_vars
  BY ActsOnSeen DEF IInv, ActingFits
<1> QED
  BY <1>1, Invariance, PTL DEF Spec, ActsOnWhatWasSeen

\* No transaction is begun on an instance that ended, and the kernel of work
\* items touches neither the instance nor its steps.
THEOREM EndIsFinal == Spec => EndedForGood
<1>1. IInv /\ [Next]_vars => [db.status \in Outcomes => db'.status = db.status /\ db'.step = db.step]_vars
  <2> SUFFICES ASSUME IInv, Next, db.status \in Outcomes, db' # db
               PROVE  db'.status = db.status /\ db'.step = db.step
    BY DEF vars
  <2>1. Idle
    BY DEF IInv, TypeOK, ActingFits, MayAct, Outcomes, Idle
  <2>2. PICK i \in ItemIds : Release(i) \/ Reassign(i) \/ \E u \in Users : Claim(u, i)
    BY <2>1 DEF Next, StartProcess, DeferJoin, ActivateEnd, ActivateHuman, ActivateFork,
           ActivateAutomatic, Activating, SendAction, Forget, PerformPart, PerformLast, Commit, Abort
  <2>3. PICK row : db' = PutItem(db, i, row)
    BY <2>2 DEF Release, Reassign, Claim, Set
  <2> QED
    BY <2>3 DEF PutItem, IInv, TypeOK, Process
<1> QED
  BY <1>1, Invariance, PTL DEF Spec, EndedForGood

-----------------------------------------------------------------------------
(* Joins.  What leads to a join of a well-joined definition happens once, so   *)
(* that the number of completed steps a join counts is the number of its       *)
(* branches.                                                                   *)

Upstream(d) == CHOOSE U \in SUBSET Steps : EnteredOnce(d, U)

Begun(p, k) == p.step[<<k, 1>>] # NoStepRow
Over(p, k) == p.step[<<k, 1>>].status \in Closed
Done(p, k) == p.step[<<k, 1>>].status = "COMPLETED"

Listed(k, t) == \E i \in DOMAIN t : t[i] = k

\* A step upstream of a join that is listed or begun was reached from a step
\* that is over.  A join is only looked at when the step before it has just
\* completed, and it was not opened before all its branches were completed.
FlowsOnce(p, t, d, U) ==
    /\ \A k \in U \cup Joins(d), n \in Rounds : n # 1 => p.step[<<k, n>>] = NoStepRow
    /\ \A k \in U \ Joins(d) :
          /\ Begun(p, k) \/ Listed(k, t) => \A b \in Sources(d, k) : Over(p, b)
          /\ Listed(k, t) => ~Begun(p, k)
          /\ \A i, j \in DOMAIN t : t[i] = k /\ t[j] = k => i = j
    /\ \A k \in Joins(d) :
          /\ \A i \in DOMAIN t : t[i] = k => i = 1 /\ ~Begun(p, k)
          /\ Begun(p, k) => \A b \in Sources(d, k) : Done(p, b)
    /\ p.status = "NONE" => \A s \in StepIds : p.step[s] = NoStepRow

Flow(p, t) == FlowsOnce(p, t, Definition[p.version], Upstream(Definition[p.version]))

FlowInv == Flow(db, <<>>) /\ Flow(work, todo)

LEMMA UpstreamFits ==
    ASSUME NEW d, WellJoined(d)
    PROVE  Upstream(d) \in SUBSET Steps /\ EnteredOnce(d, Upstream(d))
BY DEF WellJoined, Upstream

LEMMA OverIsBegun ==
    ASSUME NEW p, NEW k
    PROVE  /\ Over(p, k) => Begun(p, k)
           /\ Done(p, k) => Over(p, k)
           /\ Begun(p, k) => \A s : s = <<k, 1>> => p.step[s] # NoStepRow
BY DEF Over, Begun, Done, Closed, NoStepRow

LEMMA FirstRound == 1 \in Rounds
BY RuntimeAssumption DEF Rounds

\* A join that no longer waits saw all its branches completed: a branch counts
\* once, and there are no more branches than transitions.
LEMMA OpenJoinIsComplete ==
    ASSUME NEW p, NEW t, NEW d \in DefinitionType, NEW U \in SUBSET Steps, EnteredOnce(d, U),
           FlowsOnce(p, t, d, U), NEW k \in Joins(d), ~JoinWaits(p, d, k)
    PROVE  \A b \in Sources(d, k) : Done(p, b)
<1> DEFINE I == Incoming(d, k)
           S == Sources(d, k)
           C == CompletedSources(p, d, k)
<1>1. IsFiniteSet(I)
  <2> DEFINE of(s) == {s} \X DOMAIN d.out[s]
  <2>1. ASSUME NEW s \in Steps PROVE IsFiniteSet(of(s))
    <3>1. d.out[s] \in Seq(Transition)
      BY DEF DefinitionType
    <3>2. DOMAIN d.out[s] = 1..Len(d.out[s]) /\ Len(d.out[s]) \in Int
      BY <3>1
    <3>3. \A l \in Int : IsFiniteSet(1..l)
      BY FS_Interval
    <3>4. IsFiniteSet(DOMAIN d.out[s])
      BY <3>2, <3>3
    <3>5. IsFiniteSet({s})
      BY FS_Singleton
    <3> QED
      BY <3>4, <3>5, FS_Product
  <2> DEFINE all == {of(s) : s \in Steps}
  <2>2. IsFiniteSet(all)
    <3> DEFINE f == [s \in Steps |-> of(s)]
    <3>1. f \in Surjection(Steps, all)
      <4> HIDE DEF of
      <4> QED
        BY DEF Surjection
    <3> HIDE DEF f, all
    <3> QED
      BY <3>1, RuntimeAssumption, FS_Surjection
  <2>3. IsFiniteSet(UNION all)
    BY <2>1, <2>2, FS_UNION
  <2>4. I \subseteq UNION all
    BY DEF Incoming
  <2> HIDE DEF all, I
  <2> QED
    BY <2>3, <2>4, FS_Subset
<1>2. IsFiniteSet(S) /\ Cardinality(S) <= Cardinality(I)
  <2> DEFINE f == [e \in I |-> e[1]]
  <2>1. f \in Surjection(I, S)
    BY DEF Surjection, Sources
  <2> HIDE DEF f, I, S
  <2> QED
    BY <1>1, <2>1, FS_Surjection
<1>3. SUFFICES ASSUME NEW b \in S, ~Done(p, b) PROVE FALSE
  OBVIOUS
<1>4. S \subseteq U
  BY DEF EnteredOnce
<1>5. ASSUME NEW s \in C PROVE s[1] \in S \ {b} /\ s = <<s[1], 1>>
  <2>1. /\ s \in StepIds /\ s[1] \in S /\ p.step[s].status = "COMPLETED"
        /\ s[2] \in Rounds /\ s = <<s[1], s[2]>>
    BY <1>5 DEF CompletedSources, StepIds
  <2>2. p.step[s] # NoStepRow
    BY <2>1 DEF NoStepRow
  <2>3. s[2] = 1
    BY <1>4, <2>1, <2>2 DEF FlowsOnce
  <2>4. s[1] # b
    BY <1>3, <2>1, <2>3 DEF Done
  <2> QED
    BY <2>1, <2>3, <2>4
<1>6. IsFiniteSet(C) /\ Cardinality(C) <= Cardinality(S \ {b})
  <2> DEFINE f == [s \in C |-> s[1]]
  <2>1. f \in Injection(C, S \ {b})
    <3>1. f \in [C -> S \ {b}]
      BY <1>5
    <3>2. \A x, y \in C : f[x] = f[y] => x = y
      BY <1>5
    <3> HIDE DEF f, C, S
    <3> QED
      BY <3>1, <3>2 DEF Injection, IsInjective
  <2> HIDE DEF f, C, S
  <2>2. IsFiniteSet(S \ {b})
    BY <1>2, FS_RemoveElement
  <2> QED
    BY <2>1, <2>2, FS_Injection
<1> HIDE DEF I, S, C
<1>7. Cardinality(S \ {b}) = Cardinality(S) - 1
  BY <1>2, <1>3, FS_RemoveElement
<1>8. Cardinality(S) \in Nat /\ Cardinality(I) \in Nat
  BY <1>1, <1>2, FS_CardinalityType
<1>9. Cardinality(C) \in Nat
  BY <1>6, FS_CardinalityType
<1>10. ~(Cardinality(C) < Cardinality(I))
  BY DEF JoinWaits, C, I
<1> QED
  BY <1>2, <1>6, <1>7, <1>8, <1>9, <1>10

\* What of one copy of the tables the flow depends on.
SameSteps(p, q) ==
    \A s \in StepIds : /\ q.step[s].status = p.step[s].status
                       /\ q.step[s] = NoStepRow <=> p.step[s] = NoStepRow

LEMMA FlowDependsOnSteps ==
    ASSUME NEW p, NEW q, NEW t, NEW d, NEW U \in SUBSET Steps, EnteredOnce(d, U),
           FlowsOnce(p, t, d, U), SameSteps(p, q), q.status = "NONE" => p.status = "NONE"
    PROVE  FlowsOnce(q, t, d, U)
<1>1. \A k \in Steps, n \in Rounds : <<k, n>> \in StepIds
  BY DEF StepIds
<1>2. \A k \in Steps : <<k, 1>> \in StepIds
  BY <1>1, FirstRound
<1>3. ASSUME NEW k \in Steps
      PROVE  /\ Begun(q, k) <=> Begun(p, k)
             /\ Over(q, k) <=> Over(p, k)
             /\ Done(q, k) <=> Done(p, k)
             /\ \A n \in Rounds : q.step[<<k, n>>] = NoStepRow <=> p.step[<<k, n>>] = NoStepRow
  BY <1>1, <1>2 DEF SameSteps, Begun, Over, Done
<1>4. \A k \in U \cup Joins(d) : k \in Steps /\ \A b \in Sources(d, k) : b \in Steps
  BY DEF EnteredOnce, Joins
<1>5. q.status = "NONE" => \A s \in StepIds : q.step[s] = NoStepRow
  BY DEF FlowsOnce, SameSteps
<1>6. \A k \in U \cup Joins(d), n \in Rounds : n # 1 => q.step[<<k, n>>] = NoStepRow
  BY <1>3, <1>4 DEF FlowsOnce
<1>7. \A k \in U \ Joins(d) :
          /\ Begun(q, k) \/ Listed(k, t) => \A b \in Sources(d, k) : Over(q, b)
          /\ Listed(k, t) => ~Begun(q, k)
          /\ \A i, j \in DOMAIN t : t[i] = k /\ t[j] = k => i = j
  BY <1>3, <1>4 DEF FlowsOnce
<1>8. \A k \in Joins(d) :
          /\ \A i \in DOMAIN t : t[i] = k => i = 1 /\ ~Begun(q, k)
          /\ Begun(q, k) => \A b \in Sources(d, k) : Done(q, b)
  BY <1>3, <1>4 DEF FlowsOnce
<1> QED
  BY <1>5, <1>6, <1>7, <1>8 DEF FlowsOnce

\* A join that waits is dropped from the list.
LEMMA FlowDropped ==
    ASSUME NEW p, NEW t \in Seq(Steps), t # <<>>, NEW d, NEW U \in SUBSET Steps,
           FlowsOnce(p, t, d, U)
    PROVE  FlowsOnce(p, Tail(t), d, U)
<1>1. \A i \in DOMAIN Tail(t) : i + 1 \in DOMAIN t /\ i + 1 # 1 /\ Tail(t)[i] = t[i + 1] /\ i \in Nat
  OBVIOUS
<1>2. \A k : Listed(k, Tail(t)) => Listed(k, t)
  BY <1>1 DEF Listed
<1>3. ASSUME NEW k \in U \ Joins(d), NEW i \in DOMAIN Tail(t), NEW j \in DOMAIN Tail(t),
             Tail(t)[i] = k, Tail(t)[j] = k
      PROVE  i = j
  <2>1. i + 1 = j + 1
    BY <1>1, <1>3 DEF FlowsOnce
  <2> QED
    BY <1>1, <2>1
<1>4. \A k \in Joins(d) : ~Listed(k, Tail(t))
  BY <1>1 DEF FlowsOnce, Listed
<1> QED
  BY <1>2, <1>3, <1>4 DEF FlowsOnce, Listed

\* The transitions that lead from a step to what it adds to the list.
Follows(d, k, new, g) ==
    /\ \A i \in DOMAIN new : <<k, g[i]>> \in Incoming(d, new[i])
    /\ \A i, j \in DOMAIN new : g[i] = g[j] => i = j

\* The first step of the list is begun, and over at once or not, and what
\* follows it takes its place.
LEMMA FlowEntered ==
    ASSUME NEW p, NEW q, NEW t \in Seq(Steps), t # <<>>, NEW d, NEW U \in SUBSET Steps,
           EnteredOnce(d, U), FlowsOnce(p, t, d, U),
           NEW k, k = Head(t), NEW n \in Rounds, IsNextRound(p, k, n),
           \A s \in StepIds : s # <<k, n>> => q.step[s] = p.step[s],
           q.step[<<k, n>>] # NoStepRow, q.status # "NONE",
           NEW new \in Seq(Steps), NEW g, Follows(d, k, new, g),
           new # <<>> => q.step[<<k, n>>].status = "COMPLETED",
           Len(new) <= 1 \/ d.type[k] = "PARALLEL_FORK",
           k \in Joins(d) => \A b \in Sources(d, k) : Done(p, b)
    PROVE  FlowsOnce(q, new \o Tail(t), d, U)
<1> DEFINE list == new \o Tail(t)
           L == Len(new)
<1>1. /\ k \in Steps /\ 1 \in DOMAIN t /\ t[1] = k /\ L \in Nat /\ DOMAIN new = 1..L
      /\ <<k, n>> \in StepIds
  BY DEF StepIds
<1>2. ASSUME NEW i \in DOMAIN list
      PROVE  \/ i \in DOMAIN new /\ list[i] = new[i]
             \/ /\ i \notin DOMAIN new /\ i - L + 1 \in DOMAIN t /\ i - L + 1 # 1 /\ i \in Int
                /\ list[i] = t[i - L + 1]
  OBVIOUS
<1>3. \A x \in Steps, m \in Rounds : <<x, m>> \in StepIds
  BY DEF StepIds
<1>4. p.step[<<k, n>>] = NoStepRow
  BY DEF IsNextRound, Rounds
<1>5. ASSUME k \in U \cup Joins(d) PROVE ~Begun(p, k) /\ n = 1
  <2>1. ~Begun(p, k)
    BY <1>1, <1>5 DEF FlowsOnce, Listed
  <2>2. ~(1 < n)
    BY <2>1, FirstRound DEF IsNextRound, Begun
  <2> QED
    BY <2>1, <2>2 DEF Rounds
<1>6. ASSUME NEW x \in Steps
      PROVE  /\ Over(p, x) => Over(q, x)
             /\ Done(p, x) => Done(q, x)
             /\ Begun(q, x) /\ ~Begun(p, x) => x = k /\ n = 1
  <2>1. <<x, 1>> \in StepIds
    BY <1>3, FirstRound
  <2>2. CASE <<x, 1>> = <<k, n>>
    BY <1>4, <2>2, OverIsBegun DEF Begun
  <2>3. CASE <<x, 1>> # <<k, n>>
    BY <2>1, <2>3 DEF Over, Done, Begun
  <2> QED
    BY <2>2, <2>3
<1>7. \A x \in U \cup Joins(d) : x \in Steps /\ \A b \in Sources(d, x) : b \in U /\ b \in Steps
  BY DEF EnteredOnce, Joins
<1>8. ASSUME NEW i \in DOMAIN new, new[i] \in U \cup Joins(d)
      PROVE  /\ k \in Sources(d, new[i]) /\ k \in U
             /\ new[i] # k /\ ~Begun(p, new[i]) /\ ~Begun(q, new[i])
             /\ new[i] \in U \ Joins(d) => ~Listed(new[i], t)
             /\ new[i] \in Joins(d) => i = 1
  <2> DEFINE x == new[i]
  <2>1. <<k, g[i]>> \in Incoming(d, x)
    BY DEF Follows
  <2>2. k \in Sources(d, x)
    BY <2>1 DEF Sources
  <2>3. k \in U /\ x \in Steps
    BY <1>7, <1>8, <2>2
  <2>4. ~Begun(p, k) /\ ~Over(p, k) /\ ~Done(p, k)
    BY <1>5, <2>3, OverIsBegun
  <2> HIDE DEF x
  <2>5. CASE x \in U \ Joins(d)
    <3>1. ~Begun(p, x) /\ ~Listed(x, t)
      BY <2>2, <2>4, <2>5 DEF FlowsOnce
    <3>2. x # k
      BY <1>1, <3>1 DEF Listed
    <3> QED
      BY <1>6, <2>2, <2>3, <2>5, <3>1, <3>2 DEF x
  <2>6. CASE x \in Joins(d)
    <3>1. ~Begun(p, x)
      BY <2>2, <2>4, <2>6 DEF FlowsOnce
    <3>2. x # k
      BY <2>2, <2>4, <2>6
    <3>3. d.type[k] # "PARALLEL_FORK"
      BY <2>2, <2>6 DEF EnteredOnce
    <3>4. i = 1
      BY <1>1, <3>3
    <3> QED
      BY <1>6, <2>2, <2>3, <2>6, <3>1, <3>2, <3>4 DEF x
  <2> QED
    BY <1>8, <2>5, <2>6 DEF x
<1>9. ASSUME NEW x \in U \cup Joins(d), NEW m \in Rounds, m # 1
      PROVE  q.step[<<x, m>>] = NoStepRow
  <2>1. <<x, m>> \in StepIds /\ p.step[<<x, m>>] = NoStepRow
    BY <1>3, <1>7, <1>9 DEF FlowsOnce
  <2>2. <<x, m>> # <<k, n>>
    BY <1>5, <1>9
  <2> QED
    BY <2>1, <2>2
<1>10. ASSUME NEW x, NEW i \in DOMAIN list, list[i] = x, i \notin DOMAIN new
       PROVE  /\ i - L + 1 \in DOMAIN t /\ i - L + 1 # 1 /\ t[i - L + 1] = x
              /\ Listed(x, t) /\ i \in Int
  BY <1>2, <1>10 DEF Listed
<1>11. \A i \in DOMAIN list : i \in DOMAIN new => list[i] = new[i]
  BY <1>2
<1> HIDE DEF list
<1>12. ASSUME NEW x \in U \ Joins(d)
       PROVE  /\ Begun(q, x) \/ Listed(x, list) => \A b \in Sources(d, x) : Over(q, b)
              /\ Listed(x, list) => ~Begun(q, x)
              /\ \A i, j \in DOMAIN list : list[i] = x /\ list[j] = x => i = j
  <2>1. ASSUME Begun(p, x) \/ Listed(x, t) PROVE \A b \in Sources(d, x) : Over(q, b)
    BY <1>6, <1>7, <2>1 DEF FlowsOnce
  <2>2. ASSUME Begun(q, x) PROVE \A b \in Sources(d, x) : Over(q, b)
    <3>1. CASE Begun(p, x)
      BY <2>1, <3>1
    <3>2. CASE ~Begun(p, x)
      <4>1. Listed(x, t)
        BY <1>1, <1>6, <1>7, <2>2, <3>2 DEF Listed
      <4> QED
        BY <2>1, <4>1
    <3> QED
      BY <3>1, <3>2
  <2>3. ASSUME NEW i \in DOMAIN list, list[i] = x, i \notin DOMAIN new
        PROVE  /\ Listed(x, t) /\ ~Begun(q, x)
               /\ i - L + 1 \in DOMAIN t /\ t[i - L + 1] = x /\ i \in Int
    <3>1. Listed(x, t) /\ i - L + 1 \in DOMAIN t /\ i - L + 1 # 1 /\ t[i - L + 1] = x /\ i \in Int
      BY <1>10, <2>3
    <3>2. x # k
      BY <1>1, <3>1 DEF FlowsOnce
    <3> QED
      BY <1>6, <1>7, <3>1, <3>2 DEF FlowsOnce
  <2>4. ASSUME NEW i \in DOMAIN list, list[i] = x, i \in DOMAIN new
        PROVE  /\ new[i] = x /\ ~Listed(x, t) /\ ~Begun(q, x)
               /\ \A b \in Sources(d, x) : Over(q, b)
    <3>1. new[i] = x
      BY <1>11, <2>4
    <3>2. k \in U /\ ~Listed(x, t) /\ ~Begun(q, x)
      BY <1>8, <2>4, <3>1
    <3>3. <<k, g[i]>> \in Incoming(d, x)
      BY <2>4, <3>1 DEF Follows
    <3>4. \A b \in Sources(d, x) : b = k
      BY <3>3 DEF EnteredOnce, Sources
    <3>5. new # <<>>
      BY <2>4, <1>1
    <3>6. Over(q, k)
      BY <1>5, <3>2, <3>5 DEF Over, Closed
    <3> QED
      BY <3>1, <3>2, <3>4, <3>6
  <2>5. ASSUME NEW i \in DOMAIN list, NEW j \in DOMAIN list, list[i] = x, list[j] = x
        PROVE  i = j
    <3>1. CASE i \in DOMAIN new /\ j \in DOMAIN new
      <4>1. new[i] = x /\ new[j] = x
        BY <2>4, <2>5, <3>1
      <4>2. <<k, g[i]>> \in Incoming(d, x) /\ <<k, g[j]>> \in Incoming(d, x)
        BY <3>1, <4>1 DEF Follows
      <4>3. d.type[k] = "PARALLEL_FORK" => g[i] = g[j]
        BY <4>2 DEF EnteredOnce
      <4> QED
        BY <1>1, <3>1, <4>3 DEF Follows
    <3>2. CASE i \notin DOMAIN new /\ j \notin DOMAIN new
      <4>1. /\ i - L + 1 \in DOMAIN t /\ t[i - L + 1] = x /\ i \in Int
            /\ j - L + 1 \in DOMAIN t /\ t[j - L + 1] = x /\ j \in Int
        BY <2>3, <2>5, <3>2
      <4>2. i - L + 1 = j - L + 1
        BY <4>1 DEF FlowsOnce
      <4> QED
        BY <1>1, <4>1, <4>2
    <3> QED
      BY <2>3, <2>4, <2>5, <3>1, <3>2
  <2>6. Listed(x, list) => ~Begun(q, x) /\ \A b \in Sources(d, x) : Over(q, b)
    BY <2>1, <2>3, <2>4 DEF Listed
  <2> QED
    BY <2>2, <2>5, <2>6
<1>13. ASSUME NEW x \in Joins(d)
       PROVE  /\ \A i \in DOMAIN list : list[i] = x => i = 1 /\ ~Begun(q, x)
              /\ Begun(q, x) => \A b \in Sources(d, x) : Done(q, b)
  <2>1. ASSUME NEW i \in DOMAIN list, list[i] = x PROVE i = 1 /\ ~Begun(q, x)
    <3>1. CASE i \in DOMAIN new
      BY <1>8, <1>11, <2>1, <3>1
    <3>2. CASE i \notin DOMAIN new
      BY <1>10, <2>1, <3>2 DEF FlowsOnce
    <3> QED
      BY <3>1, <3>2
  <2>2. ASSUME Begun(q, x) PROVE \A b \in Sources(d, x) : Done(q, b)
    <3>1. \A b \in Sources(d, x) : Done(p, b)
      BY <1>6, <1>7, <2>2 DEF FlowsOnce
    <3> QED
      BY <1>6, <1>7, <3>1
  <2> QED
    BY <2>1, <2>2
<1> QED
  BY <1>9, <1>12, <1>13 DEF FlowsOnce, list

\* A step under way ends, and what follows it is all that is listed.
LEMMA FlowCompleted ==
    ASSUME NEW p, NEW q, NEW d, NEW U \in SUBSET Steps,
           EnteredOnce(d, U), FlowsOnce(p, <<>>, d, U),
           NEW s \in StepIds, p.step[s].status = "ACTIVE", q.step[s].status \in Closed,
           \A x \in StepIds : x # s => q.step[x] = p.step[x], q.status # "NONE",
           NEW x \in Steps, s[1] \in Sources(d, x)
    PROVE  FlowsOnce(q, <<x>>, d, U)
<1> DEFINE k == s[1]
<1>1. /\ k \in Steps /\ s[2] \in Rounds /\ s = <<k, s[2]>>
      /\ p.step[s] # NoStepRow /\ q.step[s] # NoStepRow
  BY DEF StepIds, NoStepRow, Closed
<1>2. \A y \in Steps, m \in Rounds : <<y, m>> \in StepIds
  BY DEF StepIds
<1>3. ASSUME k \in U \cup Joins(d) PROVE s = <<k, 1>> /\ ~Over(p, k)
  BY <1>1, <1>3 DEF FlowsOnce, Over, Closed
<1>4. ASSUME NEW y \in Steps
      PROVE  /\ Over(p, y) => Over(q, y)
             /\ Done(p, y) => Done(q, y)
             /\ Begun(q, y) => Begun(p, y)
  <2>1. <<y, 1>> \in StepIds
    BY <1>2, FirstRound
  <2> QED
    BY <1>1, <2>1 DEF Over, Done, Begun, Closed
<1>5. \A y \in U \cup Joins(d) : y \in Steps /\ \A b \in Sources(d, y) : b \in U /\ b \in Steps
  BY DEF EnteredOnce, Joins
<1>6. \A y \in U \cup Joins(d), m \in Rounds : m # 1 => q.step[<<y, m>>] = NoStepRow
  BY <1>1, <1>2, <1>5 DEF FlowsOnce
<1>7. \A y : Listed(y, <<x>>) <=> y = x
  BY DEF Listed
<1>8. x \in U \cup Joins(d) => /\ s = <<k, 1>> /\ k \in U /\ ~Begun(p, x) /\ ~Begun(q, x)
                               /\ Over(q, k)
  <2> SUFFICES ASSUME x \in U \cup Joins(d)
               PROVE  /\ s = <<k, 1>> /\ k \in U /\ ~Begun(p, x) /\ ~Begun(q, x) /\ Over(q, k)
    OBVIOUS
  <2>1. k \in U
    BY <1>5
  <2>2. s = <<k, 1>> /\ ~Over(p, k) /\ ~Done(p, k)
    BY <1>3, <2>1, OverIsBegun
  <2>3. ~Begun(p, x)
    BY <2>2 DEF FlowsOnce
  <2> QED
    BY <1>4, <2>1, <2>2, <2>3 DEF Over
<1>9. ASSUME NEW y \in U \ Joins(d)
      PROVE  /\ Begun(q, y) \/ Listed(y, <<x>>) => \A b \in Sources(d, y) : Over(q, b)
             /\ Listed(y, <<x>>) => ~Begun(q, y)
             /\ \A i, j \in DOMAIN <<x>> : <<x>>[i] = y /\ <<x>>[j] = y => i = j
  <2>1. Begun(q, y) => \A b \in Sources(d, y) : Over(q, b)
    BY <1>4, <1>5 DEF FlowsOnce
  <2>2. ASSUME y = x PROVE \A b \in Sources(d, y) : Over(q, b)
    <3>1. \A b \in Sources(d, y) : b = k
      BY <2>2 DEF EnteredOnce, Sources
    <3> QED
      BY <1>8, <2>2, <3>1
  <2> QED
    BY <1>7, <1>8, <2>1, <2>2
<1>10. ASSUME NEW y \in Joins(d)
       PROVE  /\ \A i \in DOMAIN <<x>> : <<x>>[i] = y => i = 1 /\ ~Begun(q, y)
              /\ Begun(q, y) => \A b \in Sources(d, y) : Done(q, b)
  BY <1>4, <1>5, <1>8 DEF FlowsOnce
<1> QED
  BY <1>6, <1>9, <1>10 DEF FlowsOnce

AllWellJoined == \A v \in Versions : WellJoined(Definition[v])

\* What the lemmas above need of the definition a copy is pinned to.
LEMMA PinnedDefinition ==
    ASSUME AllWellJoined, NEW p \in Process
    PROVE  LET d == Definition[p.version]
           IN  d \in DefinitionType /\ Upstream(d) \in SUBSET Steps /\ EnteredOnce(d, Upstream(d))
BY UpstreamFits, RuntimeAssumption DEF Process, AllWellJoined

LEMMA FlowStarts == ASSUME AllWellJoined PROVE Init => FlowInv
<1> SUFFICES ASSUME Init PROVE FlowInv
  OBVIOUS
<1>1. PICK v \in Versions : db = NoProcess(v)
  BY DEF Init
<1>2. (\A s \in StepIds : db.step[s] = NoStepRow) /\ work = db /\ todo = <<>>
  BY <1>1 DEF NoProcess, Init
<1>3. \A k \in Steps, n \in Rounds : <<k, n>> \in StepIds
  BY DEF StepIds
<1> DEFINE d == Definition[db.version]
           U == Upstream(d)
<1>4. WellJoined(d)
  BY <1>1 DEF NoProcess, AllWellJoined
<1>5. U \in SUBSET Steps
  BY <1>4, UpstreamFits
<1> HIDE DEF d, U
<1>6. \A k \in U \cup Joins(d), n \in Rounds : db.step[<<k, n>>] = NoStepRow
  BY <1>2, <1>3, <1>5 DEF Joins
<1>7. \A k \in U \cup Joins(d) : ~Begun(db, k)
  BY <1>6, FirstRound DEF Begun
<1>8. FlowsOnce(db, <<>>, d, U)
  BY <1>2, <1>6, <1>7 DEF FlowsOnce, Listed
<1> QED
  BY <1>2, <1>8 DEF FlowInv, Flow, d, U

LEMMA EnteredSteps ==
    ASSUME NEW p \in Process, NEW s \in StepIds, NEW st \in Closed
    PROVE  LET e == Entered(p, s)
               q == Finished(e, s, st)
           IN  /\ e.version = p.version /\ e.status = "RUNNING"
               /\ e.step[s].status = "ACTIVE" /\ \A x \in StepIds : x # s => e.step[x] = p.step[x]
               /\ q \in Process /\ q.version = p.version /\ q.status = "RUNNING"
               /\ q.step[s].status = st /\ \A x \in StepIds : x # s => q.step[x] = p.step[x]
<1> DEFINE e == Entered(p, s)
           q == Finished(e, s, st)
<1>1. /\ e \in Process /\ e.version = p.version /\ e.status = "RUNNING"
      /\ e.step[s].status = "ACTIVE" /\ \A x \in StepIds : x # s => e.step[x] = p.step[x]
  <2>1. /\ e \in Process /\ e.version = p.version /\ e.status = "RUNNING"
        /\ \A x \in StepIds :
              e.step[x] = IF x = s THEN [status |-> "ACTIVE", version |-> 1] ELSE p.step[x]
    BY StepEntered
  <2> HIDE DEF e
  <2> QED
    BY <2>1
<1> HIDE DEF e
<1>4. /\ q \in Process /\ q.version = e.version /\ q.status = e.status
      /\ \A x \in StepIds :
            q.step[x] = IF x = s THEN [status |-> st, version |-> e.step[s].version + 1]
                        ELSE e.step[x]
  BY <1>1, StepFinished
<1> HIDE DEF q
<1>2. /\ q \in Process /\ q.version = e.version /\ q.status = e.status
      /\ q.step[s].status = st /\ \A x \in StepIds : x # s => q.step[x] = e.step[x]
  BY <1>4
<1>3. \A x \in StepIds : x # s => q.step[x] = p.step[x]
  BY <1>1, <1>2
<1> QED
  BY <1>1, <1>2, <1>3 DEF q, e

LEMMA FlowActivates ==
    ASSUME AllWellJoined, IInv, Flow(work, todo), NEW k \in Steps, NEW n \in Rounds,
           \/ DeferJoin(k)
           \/ ActivateEnd(k, n)
           \/ \E C \in Candidates(Def, k) : ActivateHuman(k, n, C)
           \/ \E F \in Forked(Def, k) : \E f \in InOrder(F) : ActivateFork(k, n, f)
           \/ \E j \in Selectable(Def, k, "COMPLETE") : ActivateAutomatic(k, n, j)
    PROVE  Flow(work', todo') /\ UNCHANGED db
<1> DEFINE s == <<k, n>>
           d == Def
           U == Upstream(d)
<1>1. /\ work \in Process /\ todo \in Seq(Steps) /\ todo # <<>> /\ k = Head(todo) /\ UNCHANGED db
      /\ s \in StepIds
  BY DEF IInv, TypeOK, Activating, DeferJoin, ActivateEnd, ActivateHuman, ActivateFork,
         ActivateAutomatic, StepIds
<1>2. /\ d = Definition[work.version] /\ d \in DefinitionType /\ U \in SUBSET Steps
      /\ EnteredOnce(d, U) /\ FlowsOnce(work, todo, d, U)
  BY <1>1, PinnedDefinition DEF Flow, Def
<1>3. Tail(todo) \in Seq(Steps) /\ <<>> \o Tail(todo) = Tail(todo)
  BY <1>1
<1>4. CASE DeferJoin(k)
  <2>1. work' = work /\ todo' = Tail(todo)
    BY <1>4 DEF DeferJoin
  <2>2. FlowsOnce(work, Tail(todo), d, U)
    BY <1>1, <1>2, FlowDropped
  <2> QED
    BY <1>1, <1>2, <2>1, <2>2 DEF Flow
<1>5. d.out[k] \in Seq(Transition) /\ \A j \in DOMAIN d.out[k] : d.out[k][j].to \in Steps
  BY <1>1, <1>2, DefinitionParts
<1>6. ASSUME NEW j \in DOMAIN d.out[k] PROVE <<k, j>> \in Incoming(d, d.out[k][j].to)
  BY DEF Incoming
<1>7. "ACTIVE" # "NONE" /\ \A st \in Closed : st # "NONE" /\ st # "ACTIVE"
  BY DEF Closed
<1>8. ASSUME NEW q, q.version = work.version, q.status # "NONE",
             q.step[s].status \in Closed \cup {"ACTIVE"},
             \A x \in StepIds : x # s => q.step[x] = work.step[x],
             IsNextRound(work, k, n), d.type[k] # "PARALLEL_JOIN",
             work' = q, todo' = Tail(todo)
      PROVE  Flow(work', todo')
  <2>1. q.step[s] # NoStepRow
    BY <1>7, <1>8 DEF NoStepRow
  <2>2. Follows(d, k, <<>>, <<>>) /\ Len(<<>>) <= 1 /\ <<>> \in Seq(Steps)
    BY DEF Follows
  <2>3. k \notin Joins(d)
    BY <1>8 DEF Joins
  <2>4. FlowsOnce(q, <<>> \o Tail(todo), d, U)
    BY <1>1, <1>2, <1>8, <2>1, <2>2, <2>3, FlowEntered
  <2> QED
    BY <1>2, <1>3, <1>8, <2>4 DEF Flow
<1>9. CASE ActivateEnd(k, n)
  <2>1. d.outcome[k] \in Outcomes /\ d.outcome[k] \in Closed
    BY <1>1, <1>2, DefinitionParts DEF Outcomes, Closed
  <2> DEFINE q == Finished(Entered(work, s), s, d.outcome[k])
             w == [q EXCEPT !.status = d.outcome[k]]
  <2>2. /\ q \in Process /\ q.version = work.version /\ q.step[s].status = d.outcome[k]
        /\ \A x \in StepIds : x # s => q.step[x] = work.step[x]
    BY <1>1, <2>1, EnteredSteps
  <2>3. w.version = q.version /\ w.status = d.outcome[k] /\ w.step = q.step
    <3> HIDE DEF q
    <3> QED
      BY <2>1, <2>2, StatusPut
  <2>4. /\ work' = w /\ todo' = Tail(todo) /\ IsNextRound(work, k, n)
        /\ d.type[k] # "PARALLEL_JOIN"
    BY <1>9 DEF ActivateEnd
  <2> HIDE DEF w, q
  <2> QED
    BY <1>1, <1>7, <1>8, <2>1, <2>2, <2>3, <2>4
<1>10. ASSUME NEW C \in Candidates(Def, k), ActivateHuman(k, n, C) PROVE Flow(work', todo')
  <2> DEFINE e == Entered(work, s)
             q == Materialized(e, s, d.mode[k], C)
  <2>1. /\ e \in Process /\ e.version = work.version /\ e.status = "RUNNING"
        /\ e.step[s].status = "ACTIVE" /\ \A x \in StepIds : x # s => e.step[x] = work.step[x]
    <3> HIDE DEF s
    <3> QED
      BY <1>1, EnteredSteps, StepEntered DEF Closed
  <2>2. q.version = e.version /\ q.status = e.status /\ q.step = e.step
    <3> HIDE DEF e
    <3> QED
      BY <2>1 DEF Materialized, Process
  <2>3. work' = q /\ todo' = Tail(todo) /\ IsNextRound(work, k, n) /\ d.type[k] \in Human
    BY <1>10 DEF ActivateHuman
  <2>4. d.type[k] # "PARALLEL_JOIN"
    BY <2>3 DEF Human
  <2> HIDE DEF q, e
  <2> QED
    BY <1>8, <2>1, <2>2, <2>3, <2>4
<1>11. ASSUME NEW new \in Seq(Steps), NEW g, Follows(d, k, new, g), IsNextRound(work, k, n),
              Len(new) <= 1 \/ d.type[k] = "PARALLEL_FORK",
              k \in Joins(d) => \A b \in Sources(d, k) : Done(work, b),
              work' = Finished(Entered(work, s), s, "COMPLETED"),
              todo' = new \o Tail(todo)
       PROVE  Flow(work', todo')
  <2> DEFINE q == Finished(Entered(work, s), s, "COMPLETED")
  <2>1. /\ q.version = work.version /\ q.status = "RUNNING" /\ q.step[s].status = "COMPLETED"
        /\ \A x \in StepIds : x # s => q.step[x] = work.step[x]
    <3> HIDE DEF s
    <3>1. "COMPLETED" \in Closed
      BY DEF Closed
    <3> QED
      BY <1>1, <3>1, EnteredSteps
  <2> HIDE DEF q
  <2>2. q.step[s] # NoStepRow /\ q.status # "NONE"
    BY <2>1 DEF NoStepRow
  <2>3. FlowsOnce(q, new \o Tail(todo), d, U)
    BY <1>1, <1>2, <1>11, <2>1, <2>2, FlowEntered
  <2> QED
    BY <1>2, <1>11, <2>1, <2>3 DEF Flow, q
<1>12. ASSUME NEW F \in Forked(Def, k), NEW f \in InOrder(F), ActivateFork(k, n, f)
       PROVE  Flow(work', todo')
  <2> DEFINE new == [i \in DOMAIN f |-> d.out[k][f[i]].to]
  <2>1. F \subseteq DOMAIN d.out[k] /\ f \in [1..Cardinality(F) -> F]
    BY DEF Forked, InOrder
  <2>2. Cardinality(F) \in Nat
    <3>1. DOMAIN d.out[k] = 1..Len(d.out[k]) /\ Len(d.out[k]) \in Nat
      BY <1>5
    <3>2. \A l \in Nat : IsFiniteSet(1..l)
      BY FS_Interval
    <3> QED
      BY <2>1, <3>1, <3>2, FS_Subset, FS_CardinalityType
  <2>3. new \in Seq(Steps) /\ DOMAIN new = DOMAIN f /\ DOMAIN f = 1..Cardinality(F)
    BY <1>5, <2>1, <2>2
  <2>4. \A i, j \in DOMAIN f : f[i] = f[j] => i = j
    <3>1. \A i, j \in DOMAIN f : i < j => f[i] < f[j]
      BY DEF InOrder
    <3>2. \A i \in DOMAIN f : i \in Int /\ f[i] \in Int
      BY <1>5, <2>1, <2>3
    <3> QED
      BY <3>1, <3>2
  <2>5. \A i \in DOMAIN new : <<k, f[i]>> \in Incoming(d, new[i])
    BY <1>6, <2>1
  <2>6. /\ work' = Finished(Entered(work, s), s, "COMPLETED") /\ todo' = new \o Tail(todo)
        /\ IsNextRound(work, k, n) /\ d.type[k] = "PARALLEL_FORK" /\ k \notin Joins(d)
    BY <1>12 DEF ActivateFork, Joins
  <2> HIDE DEF new
  <2>7. Follows(d, k, new, f)
    BY <2>3, <2>4, <2>5 DEF Follows
  <2> QED
    BY <1>11, <2>3, <2>6, <2>7
<1>13. ASSUME NEW j \in Selectable(Def, k, "COMPLETE"), ActivateAutomatic(k, n, j)
       PROVE  Flow(work', todo')
  <2> DEFINE new == <<d.out[k][j].to>>
             g == <<j>>
  <2>1. j \in DOMAIN d.out[k]
    BY DEF Selectable
  <2>2. new \in Seq(Steps) /\ Len(new) <= 1 /\ Follows(d, k, new, g)
    BY <1>5, <1>6, <2>1 DEF Follows
  <2>3. /\ work' = Finished(Entered(work, s), s, "COMPLETED") /\ todo' = new \o Tail(todo)
        /\ IsNextRound(work, k, n)
        /\ d.type[k] \in Automatic \/ ~JoinWaits(work, d, k)
    BY <1>13 DEF ActivateAutomatic
  <2>4. ASSUME k \in Joins(d) PROVE \A b \in Sources(d, k) : Done(work, b)
    <3>1. ~JoinWaits(work, d, k)
      BY <2>3, <2>4 DEF Joins, Automatic
    <3> QED
      BY <1>2, <2>4, <3>1, OpenJoinIsComplete
  <2> HIDE DEF new, g, d
  <2>5. k \in Joins(d) => \A b \in Sources(d, k) : Done(work, b)
    BY <2>4
  <2> QED
    BY <1>11, <2>2, <2>3, <2>5
<1> QED
  BY <1>1, <1>4, <1>9, <1>10, <1>12, <1>13

LEMMA FlowBegins ==
    ASSUME AllWellJoined, IInv, FlowInv,
           \/ StartProcess
           \/ \E r \in Sent : \E j \in Selectable(Def, request[r].item[1], request[r].action) :
                 PerformPart(r, j) \/ PerformLast(r, j)
    PROVE  Flow(work', todo') /\ UNCHANGED db
<1> DEFINE d == Def
           U == Upstream(d)
<1>1. Idle /\ UNCHANGED db
  BY DEF StartProcess, PerformPart, PerformLast
<1>2. work = db /\ todo = <<>> /\ db \in Process
  BY <1>1 DEF IInv, TypeOK
<1>3. /\ d = Definition[db.version] /\ d \in DefinitionType /\ U \in SUBSET Steps
      /\ EnteredOnce(d, U) /\ FlowsOnce(db, <<>>, d, U)
  BY <1>2, PinnedDefinition DEF FlowInv, Flow, Def
<1>4. CASE StartProcess
  <2> DEFINE w == [db EXCEPT !.status = "RUNNING"]
  <2>1. w.version = db.version /\ w.step = db.step /\ w.status = "RUNNING"
    BY <1>2, StatusPut
  <2>2. work' = w /\ todo' = <<d.start>> /\ db.status = "NONE"
    BY <1>4 DEF StartProcess
  <2> HIDE DEF w
  <2>3. \A s \in StepIds : w.step[s] = NoStepRow
    BY <1>3, <2>1, <2>2 DEF FlowsOnce
  <2>4. \A k \in U \cup Joins(d), n \in Rounds : w.step[<<k, n>>] = NoStepRow
    BY <1>3, <2>3 DEF Joins, StepIds
  <2>5. \A k \in U \cup Joins(d) : ~Begun(w, k)
    BY <2>4, FirstRound DEF Begun
  <2>6. \A k : Listed(k, <<d.start>>) <=> k = d.start
    BY DEF Listed
  <2>7. \A k \in U \ Joins(d) : k = d.start => Sources(d, k) = {}
    BY <1>3 DEF EnteredOnce, Sources
  <2>8. FlowsOnce(w, <<d.start>>, d, U)
    BY <2>1, <2>4, <2>5, <2>6, <2>7 DEF FlowsOnce
  <2> QED
    BY <1>1, <1>3, <2>1, <2>2, <2>8 DEF Flow
<1>5. ASSUME NEW r \in Sent, NEW j \in Selectable(Def, request[r].item[1], request[r].action),
             PerformPart(r, j) \/ PerformLast(r, j)
      PROVE  Flow(work', todo')
  <2> DEFINE q == request[r]
             i == q.item
             s == StepOf(i)
             e == PutItem(db, i, CompletedItem(db.item[i]))
  <2>1. r \in Requests /\ q.phase = "sent" /\ MayAct(db, q)
    BY <1>5 DEF Sent, PerformPart, PerformLast
  <2>2. i \in ItemIds /\ s \in StepIds /\ s[1] = i[1] /\ i[1] \in Steps
    BY <2>1, ActsOnSeen, ItemParts DEF StepOf
  <2>3. db.step[s].status = "ACTIVE" /\ db.status = "RUNNING"
    BY <2>1 DEF MayAct
  <2> HIDE DEF i, s
  <2>4. e \in Process /\ e.version = db.version /\ e.step = db.step /\ e.status = db.status
    BY <1>2, <2>2, ItemPut, CompletedRow
  <2>5. CASE PerformPart(r, j)
    <3> DEFINE w == PutStep(e, s, [status |-> db.step[s].status, version |-> db.step[s].version + 1])
    <3>1. [status |-> db.step[s].status, version |-> db.step[s].version + 1] \in StepRow
      BY <1>2, <2>2 DEF Process, StepRow
    <3>2. /\ w.version = db.version /\ w.status = "RUNNING"
          /\ \A x \in StepIds : x # s => w.step[x] = db.step[x]
          /\ w.step[s].status = "ACTIVE"
      <4> HIDE DEF e
      <4> QED
        BY <2>2, <2>3, <2>4, <3>1, StepPut
    <3>3. work' = w /\ todo' = <<>>
      BY <2>5 DEF PerformPart, Partly, i, s
    <3> HIDE DEF w
    <3>4. SameSteps(db, w)
      BY <2>3, <3>2 DEF SameSteps, NoStepRow
    <3>5. FlowsOnce(w, <<>>, d, U)
      BY <1>3, <3>2, <3>4, FlowDependsOnSteps
    <3> QED
      BY <1>3, <3>2, <3>3, <3>5 DEF Flow
  <2>6. CASE PerformLast(r, j)
    <3> DEFINE w == Finished(e, s, StepOutcome(q.action))
               x == d.out[i[1]][j].to
    <3>1. StepOutcome(q.action) \in Closed
      BY DEF StepOutcome, Closed
    <3>2. /\ w.version = db.version /\ w.status = "RUNNING"
          /\ \A y \in StepIds : y # s => w.step[y] = db.step[y]
          /\ w.step[s].status \in Closed
      <4>1. /\ w.version = e.version /\ w.status = e.status
            /\ \A y \in StepIds :
                  w.step[y] = IF y = s THEN [status |-> StepOutcome(q.action),
                                             version |-> e.step[s].version + 1]
                              ELSE e.step[y]
        <5> HIDE DEF e
        <5> QED
          BY <2>2, <2>4, <3>1, StepFinished
      <4> HIDE DEF e, w
      <4> QED
        BY <2>2, <2>3, <2>4, <3>1, <4>1
    <3>3. work' = w /\ todo' = <<x>>
      BY <2>6 DEF PerformLast, Wholly, i, s
    <3>4. j \in DOMAIN d.out[i[1]]
      BY DEF Selectable, i
    <3>5. x \in Steps
      BY <1>2, <1>3, <2>2, <3>4, DefinitionParts
    <3>6. s[1] \in Sources(d, x)
      <4>1. <<i[1], j>> \in Incoming(d, x)
        BY <2>2, <3>4 DEF Incoming
      <4> QED
        BY <2>2, <4>1 DEF Sources
    <3> HIDE DEF w, x
    <3>7. FlowsOnce(w, <<x>>, d, U)
      BY <1>3, <2>2, <2>3, <3>2, <3>5, <3>6, FlowCompleted
    <3> QED
      BY <1>3, <3>2, <3>3, <3>7 DEF Flow
  <2> QED
    BY <1>5, <2>5, <2>6
<1> QED
  BY <1>1, <1>4, <1>5

LEMMA FlowHolds == ASSUME AllWellJoined PROVE IInv /\ FlowInv /\ [Next]_vars => FlowInv'
<1> SUFFICES ASSUME IInv, FlowInv, [Next]_vars PROVE FlowInv'
  OBVIOUS
<1>1. ASSUME Flow(work', todo'), UNCHANGED db PROVE FlowInv'
  BY <1>1 DEF FlowInv
<1>2. ASSUME UNCHANGED <<db, work, todo>> PROVE FlowInv'
  BY <1>2 DEF FlowInv
<1>3. CASE StartProcess \/ \E r \in Sent :
              \E j \in Selectable(Def, request[r].item[1], request[r].action) :
                  PerformPart(r, j) \/ PerformLast(r, j)
  BY <1>1, <1>3, FlowBegins
<1>4. ASSUME NEW k \in Steps, DeferJoin(k) PROVE FlowInv'
  BY <1>1, <1>4, FirstRound, FlowActivates DEF FlowInv
<1>5. ASSUME NEW k \in Steps, NEW n \in Rounds,
             \/ ActivateEnd(k, n)
             \/ \E C \in Candidates(Def, k) : ActivateHuman(k, n, C)
             \/ \E F \in Forked(Def, k) : \E f \in InOrder(F) : ActivateFork(k, n, f)
             \/ \E j \in Selectable(Def, k, "COMPLETE") : ActivateAutomatic(k, n, j)
      PROVE  FlowInv'
  BY <1>1, <1>5, FlowActivates DEF FlowInv
<1>6. CASE Commit
  BY <1>6 DEF Commit, FlowInv
<1>7. CASE Abort
  BY <1>7 DEF Abort, FlowInv
<1>8. ASSUME NEW i \in ItemIds, Release(i) \/ Reassign(i) \/ \E u \in Users : Claim(u, i)
      PROVE  FlowInv'
  <2>1. PICK row : Set(i, row)
    BY <1>8 DEF Release, Reassign, Claim
  <2>2. db \in Process /\ Flow(db, <<>>)
    BY DEF IInv, TypeOK, FlowInv
  <2>3. /\ db' = PutItem(db, i, row) /\ work' = db' /\ todo' = <<>>
    BY <2>1 DEF Set, IInv, TypeOK
  <2>4. db'.version = db.version /\ db'.step = db.step /\ db'.status = db.status
    BY <2>2, <2>3 DEF Process, PutItem
  <2>5. SameSteps(db, db')
    BY <2>4 DEF SameSteps
  <2>6. Flow(db', <<>>)
    BY <2>2, <2>4, <2>5, PinnedDefinition, FlowDependsOnSteps DEF Flow
  <2> QED
    BY <2>3, <2>6 DEF FlowInv
<1>9. CASE UNCHANGED vars
  BY <1>2, <1>9 DEF vars
<1>10. ASSUME NEW r \in Requests, NEW u \in Users, NEW i \in ItemIds, NEW a \in Actions,
              NEW row \in {db.step[StepOf(i)], NoStepRow}, SendAction(r, u, i, a, row)
       PROVE  FlowInv'
  BY <1>2, <1>10 DEF SendAction
<1>11. ASSUME NEW r \in Requests, Forget(r) PROVE FlowInv'
  BY <1>2, <1>11 DEF Forget
<1> QED
  BY <1>3, <1>4, <1>5, <1>6, <1>7, <1>8, <1>9, <1>10, <1>11 DEF Next

\* In definitions where what leads to a join happens once, a join opens only when
\* all its branches are completed, and it opens once: also when branches are
\* completed at the same time, when the transaction of one is rolled back, and
\* when actions are repeated.
THEOREM JoinsFollowTheirBranches ==
    ASSUME AllWellJoined PROVE Spec => []JoinFollowsItsBranches
<1>1. IInv /\ FlowInv => JoinFollowsItsBranches
  <2> SUFFICES ASSUME IInv, FlowInv, NEW k \in Steps,
                      Definition[db.version].type[k] = "PARALLEL_JOIN",
                      NEW b \in Sources(Definition[db.version], k)
               PROVE  Cardinality({n \in Rounds : db.step[<<k, n>>] # NoStepRow})
                         <= Cardinality({n \in Rounds : db.step[<<b, n>>].status = "COMPLETED"})
    BY DEF JoinFollowsItsBranches
  <2> DEFINE d == Definition[db.version]
             U == Upstream(d)
             opened == {n \in Rounds : db.step[<<k, n>>] # NoStepRow}
             done == {n \in Rounds : db.step[<<b, n>>].status = "COMPLETED"}
  <2>1. U \in SUBSET Steps /\ EnteredOnce(d, U) /\ FlowsOnce(db, <<>>, d, U)
    BY PinnedDefinition DEF FlowInv, Flow, IInv, TypeOK
  <2>2. k \in Joins(d) /\ b \in U
    BY <2>1 DEF Joins, EnteredOnce
  <2>3. opened \subseteq {1}
    BY <2>1, <2>2 DEF FlowsOnce
  <2>4. done \subseteq {1}
    <3>1. \A n \in Rounds : n # 1 => db.step[<<b, n>>] = NoStepRow
      BY <2>1, <2>2 DEF FlowsOnce
    <3> QED
      BY <3>1 DEF NoStepRow
  <2>5. 1 \in opened => 1 \in done
    BY <2>1, <2>2, FirstRound DEF FlowsOnce, Begun, Done
  <2> HIDE DEF opened, done
  <2>6. opened = {} \/ (opened = {1} /\ done = {1})
    BY <2>3, <2>4, <2>5
  <2>7. Cardinality({}) = 0 /\ Cardinality({1}) = 1 /\ IsFiniteSet(done)
    <3>1. IsFiniteSet({1})
      BY FS_Singleton
    <3> QED
      BY <2>4, <3>1, FS_EmptySet, FS_Singleton, FS_Subset
  <2>8. Cardinality(done) \in Nat
    BY <2>7, FS_CardinalityType
  <2>9. Cardinality(opened) <= Cardinality(done)
    BY <2>6, <2>7, <2>8
  <2> QED
    BY <2>9 DEF opened, done
<1>2. Init => FlowInv
  BY FlowStarts
<1>3. IInv /\ FlowInv /\ [Next]_vars => FlowInv'
  BY FlowHolds
<1> QED
  BY <1>1, <1>2, <1>3, Invariance, PTL DEF Spec

-----------------------------------------------------------------------------
(* Work.  An instance that is RUNNING has somebody's work, something to         *)
(* activate, or a join that waits; and where branches rejoin, a join that waits *)
(* has a branch under way.                                                     *)

Reached(p, k) == \E n \in Rounds : p.step[<<k, n>>] # NoStepRow
Passed(p, k) == \E n \in Rounds : p.step[<<k, n>>].status = "COMPLETED"

\* A row is under way only in the hands of people, and over as its step can end.
RowsFit(p, d) ==
    \A s \in StepIds :
        /\ p.step[s] # NoStepRow => p.step[s].status \in {"ACTIVE"} \cup Closed
        /\ p.step[s].status = "ACTIVE" => d.type[s[1]] \in Human
        /\ Affirms(d, s[1]) => p.step[s].status \notin {"REJECTED", "CANCELLED"}

\* What is reached or listed comes after a step that was passed.
CameFrom(p, t, d, B) ==
    \A k \in B : Reached(p, k) \/ Listed(k, t) => \E b \in Sources(d, k) : Passed(p, b)

\* What was passed led on, unless to a join that waits.
LedOn(p, t, d, B) ==
    \A k \in B : \A b \in Sources(d, k) : Passed(p, b) =>
        \/ Reached(p, k) \/ Listed(k, t)
        \/ k \in Joins(d) /\ JoinWaits(p, d, k)

Busy(p, t, d) ==
    p.status = "RUNNING" =>
        \/ t # <<>>
        \/ \E s \in StepIds : p.step[s].status = "ACTIVE"
        \/ \E k \in Joins(d) : JoinWaits(p, d, k) /\ \E b \in Sources(d, k) : Passed(p, b)

GoesOn(p, t, d, B) ==
    /\ RowsFit(p, d) /\ CameFrom(p, t, d, B) /\ LedOn(p, t, d, B) /\ Busy(p, t, d)
    /\ p.status = "NONE" => \A s \in StepIds : p.step[s] = NoStepRow

\* Induction for a set: what holds of 0 and goes on to the next number holds of all.
LEMMA CountingUp ==
    ASSUME NEW P \in SUBSET Nat, 0 \in P, \A n \in P : n + 1 \in P
    PROVE  Nat \subseteq P
<1> SUFFICES ASSUME Nat \ P # {} PROVE FALSE
  OBVIOUS
<1> DEFINE Q == Nat \ P
<1>1. PICK n \in Q : \A m \in Q : <<m, n>> \notin OpToRel(<, Nat)
  BY NatLessThanWellFounded, WFMin, Q \subseteq Nat, Zenon
<1>2. n \in Nat /\ n # 0
  OBVIOUS
<1>3. n - 1 \in Nat /\ n - 1 < n
  BY <1>2
<1>4. <<n - 1, n>> \in OpToRel(<, Nat)
  BY <1>2, <1>3, SMT DEF OpToRel
<1>5. n - 1 \in P
  BY <1>1, <1>3, <1>4
<1>6. n \in P
  BY <1>2, <1>3, <1>5
<1> QED BY <1>6

\* A join whose branches were all passed waits no longer: each transition to it
\* has a step of its own that is completed.
LEMMA FullJoinOpens ==
    ASSUME NEW p, NEW d, NEW k \in Steps,
           \A e, f \in Incoming(d, k) : e[1] = f[1] => e = f,
           \A b \in Sources(d, k) : Passed(p, b)
    PROVE  ~JoinWaits(p, d, k)
<1> DEFINE I == Incoming(d, k)
           C == CompletedSources(p, d, k)
           round(b) == CHOOSE n \in Rounds : p.step[<<b, n>>].status = "COMPLETED"
           f == [e \in I |-> <<e[1], round(e[1])>>]
<1>1. ASSUME NEW e \in I PROVE f[e] \in C /\ f[e][1] = e[1]
  <2>1. e[1] \in Sources(d, k) /\ e[1] \in Steps
    BY DEF Sources, Incoming
  <2>2. round(e[1]) \in Rounds /\ p.step[<<e[1], round(e[1])>>].status = "COMPLETED"
    BY <2>1 DEF Passed
  <2>3. f[e] = <<e[1], round(e[1])>>
    OBVIOUS
  <2> HIDE DEF round, f
  <2> QED
    BY <2>1, <2>2, <2>3 DEF CompletedSources, StepIds
<1>2. f \in [I -> C]
  BY <1>1
<1>3. \A x, y \in I : f[x] = f[y] => x = y
  BY <1>1
<1>4. IsFiniteSet(C)
  <2>1. MaxActivations \in Int
    BY RuntimeAssumption
  <2>2. \A l \in Int : IsFiniteSet(1..l)
    BY FS_Interval
  <2>3. IsFiniteSet(Rounds)
    BY <2>1, <2>2 DEF Rounds
  <2>4. IsFiniteSet(StepIds)
    BY <2>3, RuntimeAssumption, FS_Product DEF StepIds
  <2>5. C \subseteq StepIds
    BY DEF CompletedSources
  <2> HIDE DEF C
  <2> QED
    BY <2>4, <2>5, FS_Subset
<1> HIDE DEF f, I, C
<1>5. f \in Injection(I, C)
  BY <1>2, <1>3 DEF Injection, IsInjective
<1>6. IsFiniteSet(I) /\ Cardinality(I) <= Cardinality(C)
  BY <1>4, <1>5, FS_Injection
<1>7. Cardinality(I) \in Nat /\ Cardinality(C) \in Nat
  BY <1>4, <1>6, FS_CardinalityType
<1> QED
  BY <1>6, <1>7 DEF JoinWaits, I, C

\* What of a definition the lemmas below need.
Plan(d, B) ==
    /\ B \subseteq Steps /\ Joins(d) \subseteq B /\ d.start \notin B
    /\ \A k \in B : \A b \in Sources(d, k) : b \in Steps /\ Affirms(d, b) /\ LeadsOn(d, b, k)

\* Step s is begun, or it was under way, and new is what is to be activated next.
Turn(d, B, p, q, s, new) ==
    /\ q.status # "NONE"
    /\ p.step[s].status \in {"NONE", "ACTIVE"}
    /\ q.step[s].status \in {"ACTIVE"} \cup Closed
    /\ \A x \in StepIds : x # s => q.step[x] = p.step[x]
    /\ q.step[s].status = "ACTIVE" => d.type[s[1]] \in Human
    /\ Affirms(d, s[1]) => q.step[s].status \notin {"REJECTED", "CANCELLED"}
    /\ \A x : Listed(x, new) => s[1] \in Sources(d, x) /\ q.step[s].status # "ACTIVE"
    /\ q.step[s].status = "COMPLETED" => \A x \in B : s[1] \in Sources(d, x) => Listed(x, new)
    /\ q.status = "RUNNING" => new # <<>> \/ q.step[s].status = "ACTIVE"

\* The list t2 is t with new instead of k.
Relisted(t, t2, k, new) ==
    /\ \A x : Listed(x, t) => Listed(x, t2) \/ x = k
    /\ \A x : Listed(x, new) => Listed(x, t2)
    /\ \A x : Listed(x, t2) => Listed(x, new) \/ Listed(x, t)
    /\ new # <<>> => t2 # <<>>

\* The instance goes on when a step changes.
LEMMA GoesOnAfter ==
    ASSUME NEW d, NEW B, Plan(d, B), NEW p, NEW q, NEW t, NEW t2, NEW new, NEW s \in StepIds,
           GoesOn(p, t, d, B), Turn(d, B, p, q, s, new), Relisted(t, t2, s[1], new),
           Reached(p, s[1]) \/ Listed(s[1], t)
    PROVE  GoesOn(q, t2, d, B)
<1> DEFINE k == s[1]
<1>1. k \in Steps /\ s[2] \in Rounds /\ s = <<k, s[2]>>
  BY DEF StepIds
<1>2. /\ p.step[s].status \in {"NONE", "ACTIVE"} /\ q.step[s].status \in {"ACTIVE"} \cup Closed
      /\ q.step[s].status = "ACTIVE" => d.type[k] \in Human
      /\ Affirms(d, k) => q.step[s].status \notin {"REJECTED", "CANCELLED"}
      /\ \A x \in StepIds : x # s => q.step[x] = p.step[x]
  BY DEF Turn
<1>3. /\ \A x : Listed(x, new) => k \in Sources(d, x) /\ q.step[s].status # "ACTIVE"
      /\ q.step[s].status = "COMPLETED" => \A x \in B : k \in Sources(d, x) => Listed(x, new)
      /\ q.status = "RUNNING" => t2 # <<>> \/ q.step[s].status = "ACTIVE"
      /\ q.status # "NONE"
  BY DEF Turn, Relisted
<1>4. /\ \A x : Listed(x, t) => Listed(x, t2) \/ x = k
      /\ \A x : Listed(x, new) => Listed(x, t2)
      /\ \A x : Listed(x, t2) => Listed(x, new) \/ Listed(x, t)
  BY DEF Relisted
<1>5. Reached(p, k) \/ Listed(k, t)
  OBVIOUS
<1> HIDE DEF k
<1>6. q.step[s] # NoStepRow
  BY <1>2 DEF NoStepRow, Closed
<1>7. \A y \in Steps, m \in Rounds : <<y, m>> \in StepIds
  BY DEF StepIds
<1>8. ASSUME NEW y \in Steps
      PROVE  /\ Reached(p, y) => Reached(q, y)
             /\ Reached(q, y) => Reached(p, y) \/ y = k
             /\ Passed(p, y) => Passed(q, y)
             /\ Passed(q, y) => Passed(p, y) \/ (y = k /\ q.step[s].status = "COMPLETED")
  <2>1. \A m \in Rounds : <<y, m>> # s => q.step[<<y, m>>] = p.step[<<y, m>>]
    BY <1>7, <1>2
  <2>2. \A m \in Rounds : <<y, m>> = s => y = k
    BY <1>1
  <2>3. Reached(p, y) => Reached(q, y)
    BY <1>6, <2>1 DEF Reached
  <2>4. Reached(q, y) => Reached(p, y) \/ y = k
    BY <2>1, <2>2 DEF Reached
  <2>5. Passed(p, y) => Passed(q, y)
    BY <1>2, <2>1, <2>2, <1>1 DEF Passed
  <2>6. Passed(q, y) => Passed(p, y) \/ (y = k /\ q.step[s].status = "COMPLETED")
    BY <2>1, <2>2 DEF Passed
  <2> QED
    BY <2>3, <2>4, <2>5, <2>6
<1>9. Reached(q, k)
  BY <1>1, <1>6 DEF Reached
<1>10. RowsFit(q, d)
  BY <1>1, <1>2 DEF GoesOn, RowsFit
<1>11. CameFrom(q, t2, d, B)
  <2> SUFFICES ASSUME NEW x \in B, Reached(q, x) \/ Listed(x, t2)
               PROVE  \E b \in Sources(d, x) : Passed(q, b)
    BY DEF CameFrom
  <2>1. x \in Steps /\ \A b \in Sources(d, x) : b \in Steps /\ Affirms(d, b)
    BY DEF Plan
  <2>2. CASE Reached(p, x) \/ Listed(x, t)
    BY <1>8, <2>1, <2>2 DEF GoesOn, CameFrom
  <2>3. CASE Listed(x, new)
    <3>1. k \in Sources(d, x) /\ Affirms(d, k)
      BY <1>3, <2>1, <2>3
    <3>2. q.step[s].status = "COMPLETED"
      BY <1>2, <1>3, <2>3, <3>1 DEF Closed
    <3>3. Passed(q, k)
      BY <1>1, <3>2 DEF Passed
    <3> QED
      BY <3>1, <3>3
  <2>4. CASE x = k
    BY <1>8, <1>5, <2>1, <2>4 DEF GoesOn, CameFrom
  <2> QED
    BY <1>8, <1>4, <2>1, <2>2, <2>3, <2>4
<1>12. LedOn(q, t2, d, B)
  <2> SUFFICES ASSUME NEW x \in B, NEW b \in Sources(d, x), Passed(q, b)
               PROVE  \/ Reached(q, x) \/ Listed(x, t2)
                      \/ x \in Joins(d) /\ JoinWaits(q, d, x)
    BY DEF LedOn
  <2>1. x \in Steps /\ b \in Steps
    BY DEF Plan
  <2>2. CASE k \in Sources(d, x) /\ q.step[s].status = "COMPLETED"
    BY <1>3, <1>4, <2>2
  <2>3. CASE ~(k \in Sources(d, x) /\ q.step[s].status = "COMPLETED")
    <3>1. Passed(p, b)
      BY <1>8, <2>1, <2>3
    <3>2. CompletedSources(q, d, x) = CompletedSources(p, d, x)
      <4>1. \A y \in StepIds :
                y[1] \in Sources(d, x) /\ q.step[y].status = "COMPLETED" <=>
                y[1] \in Sources(d, x) /\ p.step[y].status = "COMPLETED"
        BY <1>2, <2>3 DEF k
      <4> QED
        BY <4>1 DEF CompletedSources
    <3>3. JoinWaits(p, d, x) <=> JoinWaits(q, d, x)
      BY <3>2 DEF JoinWaits
    <3>4. Reached(p, x) \/ Listed(x, t) \/ (x \in Joins(d) /\ JoinWaits(p, d, x))
      BY <3>1 DEF GoesOn, LedOn
    <3> QED
      BY <1>8, <1>9, <1>4, <2>1, <3>3, <3>4
  <2> QED
    BY <2>2, <2>3
<1>13. Busy(q, t2, d)
  BY <1>3 DEF Busy
<1> QED
  BY <1>10, <1>11, <1>12, <1>13, <1>3 DEF GoesOn

\* A join that waits leaves the list to the others.
LEMMA GoesOnWaiting ==
    ASSUME NEW d, NEW B, Plan(d, B), NEW p, NEW t \in Seq(Steps), t # <<>>, GoesOn(p, t, d, B),
           NEW k, k = Head(t), k \in Joins(d), JoinWaits(p, d, k)
    PROVE  GoesOn(p, Tail(t), d, B)
<1>1. \A x : Listed(x, t) <=> x = k \/ Listed(x, Tail(t))
  <2>1. 1 \in DOMAIN t /\ t[1] = k
    OBVIOUS
  <2>2. \A i \in DOMAIN Tail(t) : i + 1 \in DOMAIN t /\ Tail(t)[i] = t[i + 1]
    OBVIOUS
  <2>3. \A i \in DOMAIN t : i # 1 => i - 1 \in DOMAIN Tail(t) /\ Tail(t)[i - 1] = t[i]
    OBVIOUS
  <2> QED
    BY <2>1, <2>2, <2>3 DEF Listed
<1>2. CameFrom(p, Tail(t), d, B) /\ LedOn(p, Tail(t), d, B)
  BY <1>1 DEF GoesOn, CameFrom, LedOn
<1>3. k \in B
  BY DEF Plan
<1>4. \E b \in Sources(d, k) : Passed(p, b)
  BY <1>1, <1>3 DEF GoesOn, CameFrom
<1>5. Busy(p, Tail(t), d)
  BY <1>4 DEF Busy
<1> QED
  BY <1>2, <1>5 DEF GoesOn

\* The flow of work depends on the steps and the status only.
LEMMA GoesOnSame ==
    ASSUME NEW d, NEW B, Plan(d, B), NEW p, NEW q, NEW t, GoesOn(p, t, d, B),
           SameSteps(p, q), q.status = p.status
    PROVE  GoesOn(q, t, d, B)
<1>1. \A y \in Steps, m \in Rounds : <<y, m>> \in StepIds
  BY DEF StepIds
<1>2. ASSUME NEW y \in Steps
      PROVE  (Reached(q, y) <=> Reached(p, y)) /\ (Passed(q, y) <=> Passed(p, y))
  BY <1>1 DEF SameSteps, Reached, Passed
<1>3. \A x : CompletedSources(q, d, x) = CompletedSources(p, d, x)
  BY DEF SameSteps, CompletedSources
<1>4. \A x : JoinWaits(q, d, x) <=> JoinWaits(p, d, x)
  BY <1>3 DEF JoinWaits
<1>5. \A x \in B : x \in Steps /\ \A b \in Sources(d, x) : b \in Steps
  BY DEF Plan
<1>6. RowsFit(q, d)
  BY DEF GoesOn, RowsFit, SameSteps
<1>7. CameFrom(q, t, d, B) /\ LedOn(q, t, d, B)
  BY <1>2, <1>4, <1>5 DEF GoesOn, CameFrom, LedOn
<1>8. Busy(q, t, d)
  <2>1. \A x \in Joins(d) : x \in B
    BY DEF Plan
  <2>2. \A s \in StepIds : q.step[s].status = p.step[s].status
    BY DEF SameSteps
  <2> QED
    BY <1>2, <1>4, <1>5, <2>1, <2>2 DEF GoesOn, Busy
<1> QED
  BY <1>6, <1>7, <1>8 DEF GoesOn, SameSteps

\* With nothing under way and nothing to activate, a step was passed exactly if
\* its root was: by induction on the distance from the root.
LEMMA QuietAsRoot ==
    ASSUME NEW d, NEW root \in [Steps -> Steps], NEW depth \in [Steps -> Nat],
           Rejoins(d, root, depth), Plan(d, Joins(d) \cup Bound(d, root)),
           NEW p, GoesOn(p, <<>>, d, Joins(d) \cup Bound(d, root)),
           \A s \in StepIds : p.step[s].status # "ACTIVE",
           NEW x \in Steps
    PROVE  Passed(p, x) <=> Passed(p, root[x])
<1> DEFINE B == Joins(d) \cup Bound(d, root)
           P == {n \in Nat : \A y \in Steps : depth[y] < n => (Passed(p, y) <=> Passed(p, root[y]))}
<1>1. \A y : ~Listed(y, <<>>)
  BY DEF Listed
<1>2. ASSUME NEW y \in Steps, Affirms(d, y), Reached(p, y)
      PROVE  Passed(p, y)
  <2>1. PICK n \in Rounds : p.step[<<y, n>>] # NoStepRow
    BY <1>2 DEF Reached
  <2>2. <<y, n>> \in StepIds /\ <<y, n>>[1] = y
    BY DEF StepIds
  <2>3. p.step[<<y, n>>].status = "COMPLETED"
    BY <1>2, <2>1, <2>2 DEF GoesOn, RowsFit, Closed
  <2> QED
    BY <2>3 DEF Passed
<1>3. \A y : Passed(p, y) => Reached(p, y)
  BY DEF Passed, Reached, NoStepRow
<1>4. 0 \in P
  OBVIOUS
<1>5. ASSUME NEW n \in P PROVE n + 1 \in P
  <2> SUFFICES ASSUME NEW y \in Steps, depth[y] < n + 1, root[y] # y
               PROVE  Passed(p, y) <=> Passed(p, root[y])
    OBVIOUS
  <2>1. y \in B /\ y \in Bound(d, root)
    BY DEF Bound
  <2>2. /\ Affirms(d, y) /\ Sources(d, y) # {}
        /\ y \notin Joins(d) => \A b, c \in Sources(d, y) : b = c
        /\ \A b \in Sources(d, y) : root[b] = root[y] /\ depth[b] < depth[y]
    BY <2>1 DEF Rejoins
  <2>3. \A b \in Sources(d, y) : b \in Steps
    BY <2>1 DEF Plan
  <2>4. ASSUME NEW b \in Sources(d, y) PROVE Passed(p, b) <=> Passed(p, root[y])
    <3>1. b \in Steps /\ depth[b] \in Nat /\ depth[y] \in Nat
      BY <2>3
    <3>2. depth[b] < n
      BY <2>2, <3>1
    <3> QED
      BY <2>2, <3>1, <3>2
  <2>5. Reached(p, y) => \E b \in Sources(d, y) : Passed(p, b)
    BY <2>1 DEF GoesOn, CameFrom
  <2>6. Passed(p, y) => Passed(p, root[y])
    BY <1>3, <2>4, <2>5
  <2>7. ASSUME Passed(p, root[y]) PROVE Passed(p, y)
    <3>1. \A b \in Sources(d, y) : Passed(p, b)
      BY <2>4, <2>7
    <3>2. Reached(p, y) \/ (y \in Joins(d) /\ JoinWaits(p, d, y))
      BY <1>1, <2>1, <2>2, <3>1 DEF GoesOn, LedOn
    <3>3. y \in Joins(d) => ~JoinWaits(p, d, y)
      BY <3>1, FullJoinOpens DEF Rejoins
    <3> QED
      BY <1>2, <2>2, <3>2, <3>3
  <2> QED
    BY <2>6, <2>7
<1>6. Nat \subseteq P
  <2>1. P \subseteq Nat
    OBVIOUS
  <2> HIDE DEF P
  <2> QED
    BY <1>4, <1>5, <2>1, CountingUp
<1>7. depth[x] + 1 \in P /\ depth[x] < depth[x] + 1
  BY <1>6
<1> QED
  BY <1>7

\* So no join waits when nothing is under way: an instance that is RUNNING has a
\* step that is.
LEMMA QuietIsOver ==
    ASSUME NEW d, NEW root \in [Steps -> Steps], NEW depth \in [Steps -> Nat],
           Rejoins(d, root, depth), Plan(d, Joins(d) \cup Bound(d, root)),
           NEW p, GoesOn(p, <<>>, d, Joins(d) \cup Bound(d, root)), p.status = "RUNNING"
    PROVE  \E s \in StepIds : p.step[s].status = "ACTIVE"
<1> SUFFICES ASSUME \A s \in StepIds : p.step[s].status # "ACTIVE" PROVE FALSE
  OBVIOUS
<1>1. PICK k \in Joins(d) : JoinWaits(p, d, k) /\ \E b \in Sources(d, k) : Passed(p, b)
  BY DEF GoesOn, Busy
<1>2. PICK b \in Sources(d, k) : Passed(p, b)
  BY <1>1
<1>3. k \in Steps /\ \A c \in Sources(d, k) : c \in Steps
  BY DEF Plan
<1>4. \A c \in Sources(d, k) : root[b] = root[c]
  BY DEF Rejoins
<1>5. \A c \in Sources(d, k) : Passed(p, c)
  BY <1>2, <1>3, <1>4, QuietAsRoot
<1> QED
  BY <1>1, <1>3, <1>5, FullJoinOpens DEF Rejoins

Root(d) == CHOOSE root \in [Steps -> Steps] : \E depth \in [Steps -> Nat] : Rejoins(d, root, depth)

Inner(d) == Joins(d) \cup Bound(d, Root(d))

Going(p, t) == GoesOn(p, t, Definition[p.version], Inner(Definition[p.version]))

Goings == Going(db, <<>>) /\ Going(work, todo)

\* Of the instances whose definition goes on.
GoingInv == WellFormed(Definition[db.version]) => Goings

\* The definition an instance is pinned to.
LEMMA PinnedPlan ==
    ASSUME NEW p \in Process, WellFormed(Definition[p.version])
    PROVE  LET d == Definition[p.version]
           IN  /\ d \in DefinitionType /\ Root(d) \in [Steps -> Steps]
               /\ \E depth \in [Steps -> Nat] : Rejoins(d, Root(d), depth)
               /\ Plan(d, Inner(d))
<1> DEFINE d == Definition[p.version]
           root == Root(d)
<1>1. d \in DefinitionType /\ WellFormed(d)
  BY RuntimeAssumption DEF Process
<1>2. root \in [Steps -> Steps] /\ \E depth \in [Steps -> Nat] : Rejoins(d, root, depth)
  <2> HIDE DEF d
  <2>1. PICK l \in Layouts : Rejoins(d, l.root, l.depth)
    BY <1>1 DEF WellFormed
  <2>2. l.root \in [Steps -> Steps] /\ l.depth \in [Steps -> Nat]
    BY RuntimeAssumption
  <2> QED
    BY <2>1, <2>2 DEF Root
<1>3. PICK depth \in [Steps -> Nat] : Rejoins(d, root, depth)
  BY <1>2
<1>4. \A k, b : b \in Sources(d, k) => b \in Steps
  BY DEF Sources, Incoming
<1>5. Plan(d, Joins(d) \cup Bound(d, root))
  <2> HIDE DEF d, root
  <2>1. Joins(d) \cup Bound(d, root) \subseteq Steps
    BY DEF Joins, Bound
  <2> QED
    BY <1>3, <1>4, <2>1 DEF Plan, Rejoins
<1> QED
  BY <1>1, <1>2, <1>5 DEF Inner

\* No instance has a step or a list to begin with.
LEMMA GoingStarts == Init => GoingInv
<1> SUFFICES ASSUME Init, WellFormed(Definition[db.version]) PROVE Goings
  BY DEF GoingInv
<1>1. PICK v \in Versions : db = NoProcess(v)
  BY DEF Init
<1>2. /\ \A s \in StepIds : db.step[s] = NoStepRow
      /\ work = db /\ todo = <<>> /\ db.status = "NONE" /\ db \in Process
  BY <1>1, InitInv DEF NoProcess, Init, IInv, TypeOK
<1> DEFINE d == Definition[db.version]
           B == Inner(d)
<1>3. Plan(d, B)
  BY <1>2, PinnedPlan
<1> HIDE DEF d, B
<1>4. \A k \in Steps, n \in Rounds : <<k, n>> \in StepIds
  BY DEF StepIds
<1>5. ASSUME NEW k \in Steps PROVE ~Reached(db, k) /\ ~Passed(db, k)
  <2>1. \A n \in Rounds : db.step[<<k, n>>] = NoStepRow
    BY <1>2, <1>4
  <2>2. NoStepRow.status = "NONE"
    BY DEF NoStepRow
  <2> QED
    BY <2>1, <2>2 DEF Reached, Passed
<1>6. \A k \in B : k \in Steps /\ \A b \in Sources(d, k) : b \in Steps
  BY <1>3 DEF Plan
<1>7. \A k : ~Listed(k, <<>>)
  BY DEF Listed
<1>8. RowsFit(db, d)
  BY <1>2 DEF RowsFit, NoStepRow
<1>9. CameFrom(db, <<>>, d, B) /\ LedOn(db, <<>>, d, B) /\ Busy(db, <<>>, d)
  BY <1>2, <1>5, <1>6, <1>7 DEF CameFrom, LedOn, Busy
<1>10. GoesOn(db, <<>>, d, B)
  BY <1>2, <1>8, <1>9 DEF GoesOn
<1> QED
  BY <1>2, <1>10 DEF Goings, Going, d, B

\* What is listed when the first step of the list is replaced by what follows it.
LEMMA ListedAfter ==
    ASSUME NEW t \in Seq(Steps), t # <<>>, NEW new \in Seq(Steps), NEW x
    PROVE  /\ Listed(x, t) <=> x = Head(t) \/ Listed(x, Tail(t))
           /\ Listed(x, new \o Tail(t)) <=> Listed(x, new) \/ Listed(x, Tail(t))
<1>1. 1 \in DOMAIN t /\ t[1] = Head(t)
  OBVIOUS
<1>2. \A i \in DOMAIN Tail(t) : i + 1 \in DOMAIN t /\ Tail(t)[i] = t[i + 1]
  OBVIOUS
<1>3. \A i \in DOMAIN t : i # 1 => i - 1 \in DOMAIN Tail(t) /\ Tail(t)[i - 1] = t[i]
  OBVIOUS
<1> DEFINE r == Tail(t)
           l == new \o r
<1>4. r \in Seq(Steps)
  OBVIOUS
<1>5. Listed(x, t) <=> x = Head(t) \/ Listed(x, r)
  BY <1>1, <1>2, <1>3 DEF Listed
<1> HIDE DEF r
<1>6. \A i \in DOMAIN new : i \in DOMAIN l /\ l[i] = new[i]
  BY <1>4
<1>7. \A i \in DOMAIN r : i + Len(new) \in DOMAIN l /\ l[i + Len(new)] = r[i]
  BY <1>4
<1>8. \A i \in DOMAIN l : \/ i \in DOMAIN new /\ l[i] = new[i]
                          \/ i - Len(new) \in DOMAIN r /\ l[i] = r[i - Len(new)]
  BY <1>4
<1>9. Listed(x, l) <=> Listed(x, new) \/ Listed(x, r)
  <2> HIDE DEF l
  <2> QED
    BY <1>6, <1>7, <1>8 DEF Listed
<1> QED
  BY <1>5, <1>9 DEF r

\* A list in order leaves nothing out.
LEMMA InOrderHitsAll ==
    ASSUME NEW F, IsFiniteSet(F), F \subseteq Int, NEW f \in InOrder(F), NEW j \in F
    PROVE  \E i \in DOMAIN f : f[i] = j
<1> DEFINE c == Cardinality(F)
<1>1. c \in Nat /\ f \in [1..c -> F] /\ \A x, y \in DOMAIN f : x < y => f[x] < f[y]
  BY FS_CardinalityType DEF InOrder
<1> HIDE DEF c
<1>2. ASSUME NEW x \in 1..c, NEW y \in 1..c, f[x] = f[y] PROVE x = y
  <2>1. DOMAIN f = 1..c /\ x \in Int /\ y \in Int
    BY <1>1
  <2>2. f[x] \in F /\ f[y] \in F
    BY <1>1
  <2>3. f[x] \in Int /\ f[y] \in Int
    BY <2>2
  <2>4. (x < y => f[x] < f[y]) /\ (y < x => f[y] < f[x])
    BY <1>1, <2>1
  <2> QED
    BY <1>2, <2>1, <2>4, <2>3
<1>3. f \in Injection(1..c, F)
  BY <1>1, <1>2 DEF Injection, IsInjective
<1>4. \A a, b \in Int : a <= b => Cardinality(a..b) = b - a + 1
  BY FS_Interval
<1>5. \A a, b \in Int : a > b => Cardinality(a..b) = 0
  BY FS_Interval
<1>6. Cardinality(1..c) = c
  BY <1>1, <1>4, <1>5
<1>7. f \in Surjection(1..c, F)
  BY <1>3, <1>6, FS_Injection DEF c
<1> QED
  BY <1>1, <1>7 DEF Surjection

\* The steps of activate_process_step.
LEMMA GoingActivates ==
    ASSUME WellFormed(Definition[db.version]), IInv, Going(work, todo), NEW k \in Steps, NEW n \in Rounds,
           \/ DeferJoin(k)
           \/ ActivateEnd(k, n)
           \/ \E C \in Candidates(Def, k) : ActivateHuman(k, n, C)
           \/ \E F \in Forked(Def, k) : \E f \in InOrder(F) : ActivateFork(k, n, f)
           \/ \E j \in Selectable(Def, k, "COMPLETE") : ActivateAutomatic(k, n, j)
    PROVE  Going(work', todo') /\ UNCHANGED db
<1> DEFINE s == <<k, n>>
           d == Def
           B == Inner(d)
<1>1. /\ work \in Process /\ todo \in Seq(Steps) /\ todo # <<>> /\ k = Head(todo) /\ UNCHANGED db
      /\ s \in StepIds /\ s[1] = k
  BY DEF IInv, TypeOK, Activating, DeferJoin, ActivateEnd, ActivateHuman, ActivateFork,
         ActivateAutomatic, StepIds
<1>17. work.version = db.version
  BY DEF IInv, Grows
<1>2. /\ d = Definition[work.version] /\ d \in DefinitionType /\ Plan(d, B)
      /\ GoesOn(work, todo, d, B)
      /\ \E depth \in [Steps -> Nat] : Rejoins(d, Root(d), depth)
  BY <1>1, <1>17, PinnedPlan DEF Going, Def
<1>3. Tail(todo) \in Seq(Steps) /\ <<>> \o Tail(todo) = Tail(todo)
  BY <1>1
<1>4. CASE DeferJoin(k)
  <2>1. /\ work' = work /\ todo' = Tail(todo) /\ k \in Joins(d) /\ JoinWaits(work, d, k)
    BY <1>4 DEF DeferJoin, Joins
  <2>2. GoesOn(work, Tail(todo), d, B)
    BY <1>1, <1>2, <2>1, GoesOnWaiting
  <2> QED
    BY <1>1, <1>2, <2>1, <2>2 DEF Going
<1>5. d.out[k] \in Seq(Transition) /\ \A j \in DOMAIN d.out[k] : d.out[k][j].to \in Steps
  BY <1>1, <1>2, DefinitionParts
<1>6. ASSUME NEW j \in DOMAIN d.out[k] PROVE k \in Sources(d, d.out[k][j].to)
  <2>1. <<k, j>> \in Incoming(d, d.out[k][j].to)
    BY DEF Incoming
  <2> QED
    BY <2>1 DEF Sources
<1>7. ASSUME NEW q, NEW new \in Seq(Steps), q.version = work.version,
             Turn(d, B, work, q, s, new), work' = q, todo' = new \o Tail(todo)
      PROVE  Going(work', todo')
  <2> DEFINE L == Tail(todo)
             t2 == new \o L
  <2>1. \A x : Listed(x, todo) <=> x = k \/ Listed(x, L)
    BY <1>1, <1>7, ListedAfter
  <2>2. \A x : Listed(x, t2) <=> Listed(x, new) \/ Listed(x, L)
    BY <1>1, <1>7, ListedAfter
  <2>3. new # <<>> => t2 # <<>>
    BY <1>3, <1>7
  <2> HIDE DEF t2, L, s, d, B
  <2>4. Listed(s[1], todo) /\ Relisted(todo, t2, s[1], new)
    BY <1>1, <2>1, <2>2, <2>3 DEF Relisted
  <2>5. GoesOn(q, t2, d, B)
    BY <1>1, <1>2, <1>7, <2>4, GoesOnAfter
  <2> QED
    BY <1>2, <1>7, <2>5 DEF Going, t2, L, B
<1>8. ASSUME IsNextRound(work, k, n) PROVE work.step[s].status = "NONE"
  <2>1. work.step[s] = NoStepRow
    BY <1>8, FreshStep
  <2> QED
    BY <2>1 DEF NoStepRow
<1>9. <<>> \in Seq(Steps) /\ \A x : ~Listed(x, <<>>)
  BY DEF Listed
<1>10. "COMPLETED" \in Closed /\ "ACTIVE" \notin Closed
  BY DEF Closed
<1>11. CASE ActivateEnd(k, n)
  <2>1. d.outcome[k] \in Outcomes /\ d.outcome[k] \in Closed
    BY <1>1, <1>2, DefinitionParts DEF Outcomes, Closed
  <2> DEFINE q == Finished(Entered(work, s), s, d.outcome[k])
             w == [q EXCEPT !.status = d.outcome[k]]
  <2>2. /\ q \in Process /\ q.version = work.version /\ q.step[s].status = d.outcome[k]
        /\ \A x \in StepIds : x # s => q.step[x] = work.step[x]
    BY <1>1, <2>1, EnteredSteps
  <2>3. w.version = q.version /\ w.status = d.outcome[k] /\ w.step = q.step
    <3> HIDE DEF q
    <3> QED
      BY <2>1, <2>2, StatusPut
  <2>4. /\ work' = w /\ todo' = Tail(todo) /\ IsNextRound(work, k, n) /\ d.type[k] = "END"
    BY <1>11 DEF ActivateEnd
  <2>5. ~Affirms(d, k)
    BY <2>4 DEF Affirms
  <2>6. \A x \in B : k \notin Sources(d, x)
    BY <1>2, <2>5 DEF Plan
  <2>7. w.status \notin {"NONE", "RUNNING"} /\ w.step[s].status \in Closed
    BY <2>1, <2>2, <2>3 DEF Outcomes
  <2>8. /\ w.version = work.version /\ w.status # "NONE" /\ w.step[s].status # "ACTIVE"
        /\ \A x \in StepIds : x # s => w.step[x] = work.step[x]
    BY <1>10, <2>2, <2>3, <2>7
  <2> HIDE DEF w, q, d, B, s
  <2>9. todo' = <<>> \o Tail(todo)
    BY <1>3, <2>4
  <2>10. Turn(d, B, work, w, s, <<>>)
    BY <1>1, <1>9, <1>8, <2>4, <2>5, <2>6, <2>7, <2>8 DEF Turn
  <2> QED
    BY <1>1, <1>7, <1>9, <2>4, <2>8, <2>9, <2>10
<1>12. ASSUME NEW C \in Candidates(Def, k), ActivateHuman(k, n, C) PROVE Going(work', todo')
  <2> DEFINE e == Entered(work, s)
             q == Materialized(e, s, d.mode[k], C)
  <2>1. /\ e \in Process /\ e.version = work.version /\ e.status = "RUNNING"
        /\ e.step[s].status = "ACTIVE" /\ \A x \in StepIds : x # s => e.step[x] = work.step[x]
    <3> HIDE DEF s
    <3> QED
      BY <1>1, EnteredSteps, StepEntered DEF Closed
  <2>2. q.version = e.version /\ q.status = e.status /\ q.step = e.step
    <3> HIDE DEF e
    <3> QED
      BY <2>1 DEF Materialized, Process
  <2>3. work' = q /\ todo' = Tail(todo) /\ IsNextRound(work, k, n) /\ d.type[k] \in Human
    BY <1>12 DEF ActivateHuman
  <2> HIDE DEF q, e, d, B, s
  <2>4. ~Affirms(d, k) \/ q.step[s].status \notin {"REJECTED", "CANCELLED"}
    BY <2>1, <2>2
  <2>5. Turn(d, B, work, q, s, <<>>)
    BY <1>1, <1>9, <1>8, <2>1, <2>2, <2>3, <2>4 DEF Turn
  <2>6. todo' = <<>> \o Tail(todo)
    BY <1>3, <2>3
  <2> QED
    BY <1>7, <1>9, <2>1, <2>2, <2>3, <2>5, <2>6
<1>13. ASSUME NEW new \in Seq(Steps), new # <<>>, IsNextRound(work, k, n),
              \A x : Listed(x, new) => k \in Sources(d, x),
              \A x \in B : k \in Sources(d, x) => Listed(x, new),
              work' = Finished(Entered(work, s), s, "COMPLETED"),
              todo' = new \o Tail(todo)
       PROVE  Going(work', todo')
  <2> DEFINE q == Finished(Entered(work, s), s, "COMPLETED")
  <2>1. /\ q.version = work.version /\ q.status = "RUNNING" /\ q.step[s].status = "COMPLETED"
        /\ \A x \in StepIds : x # s => q.step[x] = work.step[x]
    <3> HIDE DEF s
    <3> QED
      BY <1>1, <1>10, EnteredSteps
  <2> HIDE DEF q, d, B, s
  <2>2. Turn(d, B, work, q, s, new)
    BY <1>1, <1>10, <1>13, <1>8, <2>1 DEF Turn
  <2> QED
    BY <1>7, <1>13, <2>1, <2>2 DEF q
<1>14. ASSUME NEW F \in Forked(Def, k), NEW f \in InOrder(F), ActivateFork(k, n, f)
       PROVE  Going(work', todo')
  <2> DEFINE new == [i \in DOMAIN f |-> d.out[k][f[i]].to]
  <2>1. F \subseteq DOMAIN d.out[k] /\ f \in [1..Cardinality(F) -> F]
    BY DEF Forked, InOrder
  <2>2. IsFiniteSet(F) /\ F \subseteq Int
    <3>1. DOMAIN d.out[k] = 1..Len(d.out[k]) /\ Len(d.out[k]) \in Nat
      BY <1>5
    <3>2. \A l \in Nat : IsFiniteSet(1..l)
      BY FS_Interval
    <3> QED
      BY <2>1, <3>1, <3>2, FS_Subset
  <2>3. Cardinality(F) \in Nat
    BY <2>2, FS_CardinalityType
  <2>4. new \in Seq(Steps) /\ DOMAIN new = DOMAIN f /\ DOMAIN f = 1..Cardinality(F)
    BY <1>5, <2>1, <2>3
  <2>5. /\ work' = Finished(Entered(work, s), s, "COMPLETED") /\ todo' = new \o Tail(todo)
        /\ IsNextRound(work, k, n) /\ d.type[k] = "PARALLEL_FORK"
    BY <1>14 DEF ActivateFork
  <2>6. \A i \in DOMAIN new : f[i] \in DOMAIN d.out[k] /\ new[i] = d.out[k][f[i]].to
    BY <2>1, <2>4
  <2>7. ASSUME NEW j \in DOMAIN d.out[k], SureBranch(d, k, j)
        PROVE  Listed(d.out[k][j].to, new)
    <3>1. j \in F
      BY <2>7 DEF Forked, SureBranch
    <3>2. PICK i \in DOMAIN f : f[i] = j
      BY <2>2, <3>1, InOrderHitsAll
    <3> QED
      BY <2>4, <2>6, <3>2 DEF Listed
  <2> HIDE DEF new
  <2>8. \A x : Listed(x, new) => k \in Sources(d, x)
    BY <1>6, <2>6 DEF Listed
  <2>9. \A x \in B : k \in Sources(d, x) => Listed(x, new)
    <3>1. ASSUME NEW x \in B, k \in Sources(d, x)
          PROVE  Listed(x, new)
      <4>1. LeadsOn(d, k, x)
        BY <1>2, <3>1 DEF Plan
      <4>2. PICK j \in DOMAIN d.out[k] : SureBranch(d, k, j) /\ d.out[k][j].to = x
        BY <2>5, <4>1 DEF LeadsOn
      <4> QED
        BY <2>7, <4>2
    <3> QED
      BY <3>1
  <2>10. new # <<>>
    <3>1. PICK j \in DOMAIN d.out[k] : SureBranch(d, k, j)
      BY <1>2, <2>5 DEF Rejoins
    <3>2. Listed(d.out[k][j].to, new)
      BY <2>7, <3>1
    <3> QED
      BY <3>2, <1>9
  <2> HIDE DEF d, B, s
  <2> QED
    BY <1>13, <2>4, <2>5, <2>8, <2>9, <2>10
<1>15. ASSUME NEW j \in Selectable(Def, k, "COMPLETE"), ActivateAutomatic(k, n, j)
       PROVE  Going(work', todo')
  <2> DEFINE x0 == d.out[k][j].to
             new == <<x0>>
  <2>1. j \in DOMAIN d.out[k]
    BY DEF Selectable
  <2>2. x0 \in Steps /\ k \in Sources(d, x0)
    BY <1>5, <1>6, <2>1
  <2>3. /\ work' = Finished(Entered(work, s), s, "COMPLETED") /\ todo' = new \o Tail(todo)
        /\ IsNextRound(work, k, n) /\ d.type[k] # "PARALLEL_FORK"
    BY <1>15 DEF ActivateAutomatic, Automatic
  <2>4. ASSUME NEW x \in B, k \in Sources(d, x)
        PROVE  x = x0
    <3>1. LeadsOn(d, k, x)
      BY <1>2, <2>4 DEF Plan
    <3> QED
      BY <2>1, <2>3, <3>1 DEF LeadsOn
  <2> HIDE DEF x0
  <2>5. new \in Seq(Steps) /\ new # <<>> /\ \A x : Listed(x, new) <=> x = x0
    BY <2>2 DEF Listed
  <2> HIDE DEF new, d, B, s
  <2> QED
    BY <1>13, <2>2, <2>3, <2>4, <2>5
<1> QED
  BY <1>1, <1>4, <1>11, <1>12, <1>14, <1>15

\* A start, and an action of a user.
LEMMA GoingBegins ==
    ASSUME WellFormed(Definition[db.version]), IInv, Goings,
           \/ StartProcess
           \/ \E r \in Sent : \E j \in Selectable(Def, request[r].item[1], request[r].action) :
                 PerformPart(r, j) \/ PerformLast(r, j)
    PROVE  Going(work', todo') /\ UNCHANGED db
<1> DEFINE d == Def
           B == Inner(d)
<1>1. Idle /\ UNCHANGED db
  BY DEF StartProcess, PerformPart, PerformLast
<1>2. work = db /\ todo = <<>> /\ db \in Process
  BY <1>1 DEF IInv, TypeOK
<1>3. /\ d = Definition[db.version] /\ d \in DefinitionType /\ Plan(d, B)
      /\ GoesOn(db, <<>>, d, B)
  BY <1>2, PinnedPlan DEF Goings, Going, Def
<1>4. \A x : ~Listed(x, <<>>)
  BY DEF Listed
<1>5. CASE StartProcess
  <2> DEFINE w == [db EXCEPT !.status = "RUNNING"]
  <2>1. w.version = db.version /\ w.step = db.step /\ w.status = "RUNNING"
    BY <1>2, StatusPut
  <2>2. work' = w /\ todo' = <<d.start>> /\ db.status = "NONE"
    BY <1>5 DEF StartProcess
  <2> HIDE DEF w, d, B
  <2>3. \A s \in StepIds : w.step[s] = NoStepRow
    BY <1>3, <2>1, <2>2 DEF GoesOn
  <2>4. ASSUME NEW k \in Steps PROVE ~Reached(w, k) /\ ~Passed(w, k)
    <3>1. \A n \in Rounds : w.step[<<k, n>>] = NoStepRow
      BY <2>3 DEF StepIds
    <3>2. NoStepRow.status = "NONE"
      BY DEF NoStepRow
    <3> QED
      BY <3>1, <3>2 DEF Reached, Passed
  <2>5. \A k : Listed(k, <<d.start>>) => k = d.start
    BY DEF Listed
  <2>6. d.start \notin B /\ \A k \in B : k \in Steps /\ \A b \in Sources(d, k) : b \in Steps
    BY <1>3 DEF Plan
  <2>7. RowsFit(w, d)
    BY <2>3 DEF RowsFit, NoStepRow
  <2>8. CameFrom(w, <<d.start>>, d, B) /\ LedOn(w, <<d.start>>, d, B)
    BY <2>4, <2>5, <2>6 DEF CameFrom, LedOn
  <2>9. Busy(w, <<d.start>>, d)
    BY DEF Busy
  <2>10. GoesOn(w, <<d.start>>, d, B)
    BY <2>1, <2>7, <2>8, <2>9 DEF GoesOn
  <2> QED
    BY <1>1, <1>3, <2>1, <2>2, <2>10 DEF Going, B
<1>6. ASSUME NEW r \in Sent, NEW j \in Selectable(Def, request[r].item[1], request[r].action),
             PerformPart(r, j) \/ PerformLast(r, j)
      PROVE  Going(work', todo')
  <2> DEFINE q == request[r]
             i == q.item
             s == StepOf(i)
             e == PutItem(db, i, CompletedItem(db.item[i]))
  <2>1. r \in Requests /\ q.phase = "sent" /\ MayAct(db, q)
    BY <1>6 DEF Sent, PerformPart, PerformLast
  <2>2. i \in ItemIds /\ s \in StepIds /\ s[1] = i[1] /\ i[1] \in Steps
    BY <2>1, ActsOnSeen, ItemParts DEF StepOf
  <2>3. db.step[s].status = "ACTIVE" /\ db.status = "RUNNING"
    BY <2>1 DEF MayAct
  <2> HIDE DEF i, s
  <2>4. e \in Process /\ e.version = db.version /\ e.step = db.step /\ e.status = db.status
    BY <1>2, <2>2, ItemPut, CompletedRow
  <2>5. CASE PerformPart(r, j)
    <3> DEFINE w == PutStep(e, s, [status |-> db.step[s].status, version |-> db.step[s].version + 1])
    <3>1. [status |-> db.step[s].status, version |-> db.step[s].version + 1] \in StepRow
      BY <1>2, <2>2 DEF Process, StepRow
    <3>2. /\ w.version = db.version /\ w.status = "RUNNING"
          /\ \A x \in StepIds : x # s => w.step[x] = db.step[x]
          /\ w.step[s].status = "ACTIVE"
      <4> HIDE DEF e
      <4> QED
        BY <2>2, <2>3, <2>4, <3>1, StepPut
    <3>3. work' = w /\ todo' = <<>>
      BY <2>5 DEF PerformPart, Partly, i, s
    <3> HIDE DEF w
    <3>4. SameSteps(db, w)
      BY <2>3, <3>2 DEF SameSteps, NoStepRow
    <3> HIDE DEF B
    <3>5. GoesOn(w, <<>>, d, B)
      BY <1>3, <2>3, <3>2, <3>4, GoesOnSame
    <3> QED
      BY <1>3, <3>2, <3>3, <3>5 DEF Going, B
  <2>6. CASE PerformLast(r, j)
    <3> DEFINE w == Finished(e, s, StepOutcome(q.action))
               k == i[1]
               x == d.out[k][j].to
               new == <<x>>
    <3>1. StepOutcome(q.action) \in Closed
      BY DEF StepOutcome, Closed
    <3>2. /\ w.version = db.version /\ w.status = "RUNNING"
          /\ \A y \in StepIds : y # s => w.step[y] = db.step[y]
          /\ w.step[s].status = StepOutcome(q.action)
      <4>1. /\ w.version = e.version /\ w.status = e.status
            /\ \A y \in StepIds :
                  w.step[y] = IF y = s THEN [status |-> StepOutcome(q.action),
                                             version |-> e.step[s].version + 1]
                              ELSE e.step[y]
        <5> HIDE DEF e
        <5> QED
          BY <2>2, <2>4, <3>1, StepFinished
      <4> HIDE DEF e, w
      <4> QED
        BY <2>2, <2>3, <2>4, <3>1, <4>1
    <3>3. work' = w /\ todo' = new
      BY <2>6 DEF PerformLast, Wholly, i, s
    <3>4. j \in DOMAIN d.out[k] /\ d.out[k][j].action = q.action
      BY DEF Selectable, i
    <3>5. k \in Sources(d, x)
      <4>1. <<k, j>> \in Incoming(d, x)
        BY <2>2, <3>4 DEF Incoming
      <4> QED
        BY <4>1 DEF Sources
    <3>6. d.type[k] \in Human /\ d.type[k] # "PARALLEL_FORK"
      BY <1>3, <2>2, <2>3 DEF GoesOn, RowsFit, Human
    <3>7. Affirms(d, k) => StepOutcome(q.action) = "COMPLETED"
      BY <3>4 DEF Affirms, StepOutcome
    <3>8. ASSUME NEW y \in B, k \in Sources(d, y) PROVE y = x
      <4>1. LeadsOn(d, k, y)
        BY <1>3, <3>8 DEF Plan
      <4> QED
        BY <3>4, <3>6, <4>1 DEF LeadsOn
    <3> HIDE DEF w, x
    <3>9. new # <<>> /\ \A y : Listed(y, new) <=> y = x
      BY DEF Listed
    <3> HIDE DEF new, d, B, k
    <3>10. s[1] = k
      BY <2>2 DEF k
    <3>11. w.step[s].status # "ACTIVE"
      BY <3>1, <3>2 DEF Closed
    <3>12. Turn(d, B, db, w, s, new)
      BY <2>3, <3>1, <3>2, <3>5, <3>7, <3>8, <3>9, <3>10, <3>11 DEF Turn
    <3>13. Relisted(<<>>, new, s[1], new)
      BY <1>4 DEF Relisted
    <3>14. Reached(db, s[1])
      <4>1. s[2] \in Rounds /\ s = <<s[1], s[2]>>
        BY <2>2 DEF StepIds
      <4> QED
        BY <2>3, <4>1 DEF Reached, NoStepRow
    <3>15. GoesOn(w, new, d, B)
      BY <1>3, <2>2, <3>12, <3>13, <3>14, GoesOnAfter
    <3> QED
      BY <1>3, <3>2, <3>3, <3>15 DEF Going, B
  <2> QED
    BY <1>6, <2>5, <2>6
<1> QED
  BY <1>1, <1>5, <1>6

\* Every step of the engine and of the kernel of work items.
LEMMA GoingStays ==
    ASSUME WellFormed(Definition[db.version]), IInv, Goings, [Next]_vars PROVE Goings'
<1>1. ASSUME Going(work', todo'), UNCHANGED db PROVE Goings'
  BY <1>1 DEF Goings
<1>2. ASSUME UNCHANGED <<db, work, todo>> PROVE Goings'
  BY <1>2 DEF Goings
<1>3. CASE StartProcess \/ \E r \in Sent :
              \E j \in Selectable(Def, request[r].item[1], request[r].action) :
                  PerformPart(r, j) \/ PerformLast(r, j)
  BY <1>1, <1>3, GoingBegins
<1>4. ASSUME NEW k \in Steps, DeferJoin(k) PROVE Goings'
  BY <1>1, <1>4, FirstRound, GoingActivates DEF Goings
<1>5. ASSUME NEW k \in Steps, NEW n \in Rounds,
             \/ ActivateEnd(k, n)
             \/ \E C \in Candidates(Def, k) : ActivateHuman(k, n, C)
             \/ \E F \in Forked(Def, k) : \E f \in InOrder(F) : ActivateFork(k, n, f)
             \/ \E j \in Selectable(Def, k, "COMPLETE") : ActivateAutomatic(k, n, j)
      PROVE  Goings'
  BY <1>1, <1>5, GoingActivates DEF Goings
<1>6. CASE Commit
  BY <1>6 DEF Commit, Goings
<1>7. CASE Abort
  BY <1>7 DEF Abort, Goings
<1>8. ASSUME NEW i \in ItemIds, Release(i) \/ Reassign(i) \/ \E u \in Users : Claim(u, i)
      PROVE  Goings'
  <2>1. PICK row : Set(i, row)
    BY <1>8 DEF Release, Reassign, Claim
  <2>2. db \in Process /\ Going(db, <<>>)
    BY DEF IInv, TypeOK, Goings
  <2>3. /\ db' = PutItem(db, i, row) /\ work' = db' /\ todo' = <<>>
    BY <2>1 DEF Set, IInv, TypeOK
  <2>4. db'.version = db.version /\ db'.step = db.step /\ db'.status = db.status
    BY <2>2, <2>3 DEF Process, PutItem
  <2>5. SameSteps(db, db')
    BY <2>4 DEF SameSteps
  <2>6. Going(db', <<>>)
    BY <2>2, <2>4, <2>5, PinnedPlan, GoesOnSame DEF Going
  <2> QED
    BY <2>3, <2>6 DEF Goings
<1>9. CASE UNCHANGED vars
  BY <1>2, <1>9 DEF vars
<1>10. ASSUME NEW r \in Requests, NEW u \in Users, NEW i \in ItemIds, NEW a \in Actions,
              NEW row \in {db.step[StepOf(i)], NoStepRow}, SendAction(r, u, i, a, row)
       PROVE  Goings'
  BY <1>2, <1>10 DEF SendAction
<1>11. ASSUME NEW r \in Requests, Forget(r) PROVE Goings'
  BY <1>2, <1>11 DEF Forget
<1> QED
  BY <1>3, <1>4, <1>5, <1>6, <1>7, <1>8, <1>9, <1>10, <1>11 DEF Next

\* An instance keeps the definition it was started with.
LEMMA VersionStays == ASSUME IInv, [Next]_vars PROVE db'.version = db.version
<1>1. CASE UNCHANGED db
  BY <1>1
<1>2. CASE Commit
  BY <1>2 DEF Commit, IInv, Grows
<1>3. ASSUME NEW i \in ItemIds, NEW row, Set(i, row) PROVE db'.version = db.version
  BY <1>3 DEF Set, PutItem, IInv, TypeOK, Process
<1>4. CASE UNCHANGED vars
  BY <1>1, <1>4 DEF vars
<1>5. CASE \E i \in ItemIds : Release(i) \/ Reassign(i)
  BY <1>3, <1>5 DEF Release, Reassign
<1>6. CASE \E u \in Users, i \in ItemIds : Claim(u, i)
  BY <1>3, <1>6 DEF Claim
<1>7. CASE StartProcess \/ \E r \in Sent :
              \E j \in Selectable(Def, request[r].item[1], request[r].action) :
                  PerformPart(r, j) \/ PerformLast(r, j)
  BY <1>1, <1>7 DEF StartProcess, PerformPart, PerformLast
<1>8. ASSUME NEW k \in Steps, DeferJoin(k) PROVE UNCHANGED db
  BY <1>8 DEF DeferJoin, Activating
<1>9. ASSUME NEW k \in Steps, NEW n \in Rounds,
             \/ ActivateEnd(k, n)
             \/ \E C \in Candidates(Def, k) : ActivateHuman(k, n, C)
             \/ \E F \in Forked(Def, k) : \E f \in InOrder(F) : ActivateFork(k, n, f)
             \/ \E j \in Selectable(Def, k, "COMPLETE") : ActivateAutomatic(k, n, j)
      PROVE  UNCHANGED db
  BY <1>9 DEF ActivateEnd, ActivateHuman, ActivateFork, ActivateAutomatic, Activating
<1>10. ASSUME NEW r \in Requests, NEW u \in Users, NEW i \in ItemIds, NEW a \in Actions,
              NEW row \in {db.step[StepOf(i)], NoStepRow}, SendAction(r, u, i, a, row)
       PROVE  UNCHANGED db
  BY <1>10 DEF SendAction
<1>11. CASE Abort \/ \E r \in Requests : Forget(r)
  BY <1>1, <1>11 DEF Abort, Forget
<1> QED
  BY <1>1, <1>2, <1>4, <1>5, <1>6, <1>7, <1>8, <1>9, <1>10, <1>11 DEF Next

LEMMA GoingHolds == IInv /\ GoingInv /\ [Next]_vars => GoingInv'
<1> SUFFICES ASSUME IInv, GoingInv, [Next]_vars, WellFormed(Definition[db'.version])
             PROVE  Goings'
  BY DEF GoingInv, WellFormed, Rejoins
<1>1. WellFormed(Definition[db.version])
  BY VersionStays
<1> QED
  BY <1>1, GoingStays DEF GoingInv

\* In every instance whose definition has branches that rejoin, a process that is
\* RUNNING has a work item that is open: it never waits at a join whose branches
\* are all over, whatever is rolled back, repeated or done at the same time, and
\* whatever the other definitions are.
THEOREM RunningInstancesHaveWork == Spec => []RunningHasWork
<1>1. IInv /\ GoingInv => RunningHasWork
  <2> SUFFICES ASSUME IInv, GoingInv, db.status = "RUNNING", db.version \in GoingVersions
               PROVE  Open(db) # {}
    BY DEF RunningHasWork
  <2> DEFINE d == Definition[db.version]
             root == Root(d)
  <2>1. db \in Process /\ Sound(db)
    BY DEF IInv, TypeOK
  <2>7. WellFormed(Definition[db.version])
    BY DEF GoingVersions
  <2>2. /\ root \in [Steps -> Steps] /\ \E depth \in [Steps -> Nat] : Rejoins(d, root, depth)
        /\ Plan(d, Joins(d) \cup Bound(d, root))
    BY <2>1, <2>7, PinnedPlan DEF Inner
  <2>3. GoesOn(db, <<>>, d, Joins(d) \cup Bound(d, root))
    BY <2>7 DEF GoingInv, Goings, Going, Inner
  <2> HIDE DEF d, root
  <2>4. PICK depth \in [Steps -> Nat] : Rejoins(d, root, depth)
    BY <2>2
  <2>5. PICK s \in StepIds : db.step[s].status = "ACTIVE"
    BY <2>2, <2>3, <2>4, QuietIsOver
  <2>6. HasWork(db, s)
    BY <2>1, <2>5 DEF Sound
  <2> QED
    BY <2>6 DEF HasWork, Open, Undone
<1>2. Init => GoingInv
  BY GoingStarts
<1>3. IInv /\ GoingInv /\ [Next]_vars => GoingInv'
  BY GoingHolds
<1> QED
  BY <1>1, <1>2, <1>3, Invariance, PTL DEF Spec
=============================================================================
