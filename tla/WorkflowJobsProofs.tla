-------------------------- MODULE WorkflowJobsProofs --------------------------
(***************************************************************************)
(* Proofs about WorkflowJobs, for every set of jobs and workers and every     *)
(* number of attempts.  What a worker has reached (WorkFits) speaks of data   *)
(* that is only ever added to (Grows), so it stays true while others work on  *)
(* the same job; that is what the refinement of JobContract rests on.         *)
(***************************************************************************)
EXTENDS WorkflowJobs, TLAPS

\* The result is there, or nobody needs it.
Served(j, rem, out) ==
    IF j \in Reminders THEN rem[j].deliveries = 1 \/ rem[j].over
    ELSE out[j].status = "AVAILABLE"

OutputCalls == {"begin", "attach", "grant", "upload", "complete"}

\* What has been done when a worker gets where it is.
WorkFits(p, rem, out) ==
    /\ p.at \in OutputCalls => p.language \in Languages
    /\ p.at \in {"grant", "upload", "complete"} => out[p.job].documents = 1
    /\ p.at \in {"upload", "complete"} => out[p.job].granted
    /\ p.at = "complete" => out[p.job].file # NoFile
    /\ p.at = "succeed" => Served(p.job, rem, out)

OutputFits(o) ==
    /\ o.documents \in {0, 1}
    /\ o.status = "AVAILABLE" => o.documents = 1 /\ o.granted /\ o.file # NoFile

IInv ==
    /\ TypeOK
    /\ \A w \in Workers : WorkFits(worker[w], reminder, output)
    /\ \A j \in Reminders : reminder[j].deliveries \in {0, 1}
    /\ \A j \in Outputs : OutputFits(output[j])
    /\ \A j \in Jobs : job[j].status = "SUCCEEDED" => Served(j, reminder, output)

\* Reminders and outputs are only added to.
ReminderGrows(r, q) ==
    /\ r.deliveries = 1 => q.deliveries = 1
    /\ r.over => q.over

OutputGrows(o, q) ==
    /\ o.documents = 1 => q.documents = 1
    /\ o.granted => q.granted
    /\ o.file # NoFile => q.file # NoFile
    /\ o.status = "AVAILABLE" => q.status = "AVAILABLE"

Grows ==
    /\ \A j \in Reminders : ReminderGrows(reminder[j], reminder'[j])
    /\ \A j \in Outputs : OutputGrows(output[j], output'[j])

-----------------------------------------------------------------------------
LEMMA ServedStays ==
    ASSUME Grows, NEW j \in Jobs, Served(j, reminder, output)
    PROVE  Served(j, reminder', output')
BY DEF Grows, ReminderGrows, OutputGrows, Served, Outputs

\* A worker that stays where it is, or goes to its report of a failure.
LEMMA WorkStaysFit ==
    ASSUME Grows, NEW p \in Place \cup {Idle}, WorkFits(p, reminder, output),
           p.at \in OutputCalls => p.job \in Outputs
    PROVE  WorkFits(p, reminder', output') /\ WorkFits([p EXCEPT !.at = "fail"], reminder', output')
<1>1. CASE p.at \in OutputCalls
  BY <1>1 DEF WorkFits, Grows, OutputGrows, OutputCalls, Place, Idle
<1>2. CASE p.at = "succeed"
  <2>1. p.job \in Jobs
    BY <1>2 DEF Place, Idle
  <2> QED
    BY <1>2, <2>1, ServedStays DEF WorkFits, OutputCalls, Place, Idle
<1>3. CASE p.at \notin OutputCalls \cup {"succeed"}
  BY <1>3 DEF WorkFits, OutputCalls, Place, Idle
<1> QED
  BY <1>1, <1>2, <1>3

LEMMA TurnedRow ==
    ASSUME NEW row \in JobRow, NEW st \in Statuses, NEW h \in Workers \cup {Nobody}, NEW d \in BOOLEAN
    PROVE  /\ Turned(row, st, h, d) \in JobRow
           /\ Turned(row, st, h, d).status = st /\ Turned(row, st, h, d).holder = h
           /\ Turned(row, st, h, d).attempts = row.attempts
           /\ Turned(row, st, h, d).requeues = row.requeues
BY DEF Turned, Row, JobRow

LEMMA RecoveredRows ==
    ASSUME TypeOK, NEW path \in Paths, NEW j \in Jobs
    PROVE  /\ Recovered(path) \in [Jobs -> JobRow]
           /\ Recovered(path)[j].attempts = job[j].attempts
           /\ Recovered(path)[j].requeues = job[j].requeues
           /\ Recovered(path)[j].status \in {job[j].status, "RETRY"}
           /\ ~job[j].late => Recovered(path)[j] = job[j]
           /\ job[j].status # "RUNNING" => Recovered(path)[j] = job[j]
<1>1. \A k \in Jobs : job[k] \in JobRow
  BY DEF TypeOK
<1>2. \A k \in Jobs : /\ Turned(job[k], "RETRY", Nobody, TRUE) \in JobRow
                      /\ Turned(job[k], "RETRY", Nobody, TRUE).status = "RETRY"
                      /\ Turned(job[k], "RETRY", Nobody, TRUE).attempts = job[k].attempts
                      /\ Turned(job[k], "RETRY", Nobody, TRUE).requeues = job[k].requeues
  BY <1>1 DEF Turned, Row, JobRow, Statuses
<1> QED
  BY <1>1, <1>2 DEF Recovered, Lapsed

\* Actions that change the queue and leave the workers where they are.
LEMMA QueueKeeps ==
    ASSUME IInv, UNCHANGED <<reminder, output, worker>>, job' \in [Jobs -> JobRow],
           \A j \in Jobs : /\ job'[j].attempts <= MaxAttempts[j]
                           /\ job'[j].requeues <= MaxRequeues[j]
                           /\ job'[j].status = "SUCCEEDED" => job[j].status = "SUCCEEDED"
    PROVE  IInv'
BY DEF IInv, TypeOK

\* Actions of one worker w that leave the queue as it is.
LEMMA WorkerKeeps ==
    ASSUME IInv, NEW w \in Workers, NEW p \in Place \cup {Idle}, UNCHANGED job,
           worker' = [worker EXCEPT ![w] = p], Grows,
           p.at = "remind" => p.job \in Reminders,
           p.at \in OutputCalls => p.job \in Outputs,
           WorkFits(p, reminder', output'),
           reminder' \in [Reminders -> ReminderRow], output' \in [Outputs -> OutputRow],
           \A j \in Reminders : reminder'[j].deliveries \in {0, 1},
           \A j \in Outputs : OutputFits(output'[j])
    PROVE  IInv'
<1>1. \A v \in Workers : worker'[v] = IF v = w THEN p ELSE worker[v]
  BY DEF IInv, TypeOK
<1>2. worker' \in [Workers -> Place \cup {Idle}]
  BY DEF IInv, TypeOK
<1>3. \A v \in Workers : WorkFits(worker[v], reminder', output')
  BY WorkStaysFit DEF IInv, TypeOK, OutputCalls
<1>4. \A v \in Workers : WorkFits(worker'[v], reminder', output')
  BY <1>1, <1>3
<1>5. TypeOK'
  BY <1>1, <1>2 DEF IInv, TypeOK, OutputCalls
<1>6. \A j \in Jobs : job'[j].status = "SUCCEEDED" => Served(j, reminder', output')
  BY ServedStays DEF IInv
<1> QED
  BY <1>4, <1>5, <1>6 DEF IInv

-----------------------------------------------------------------------------
LEMMA InitInv == Init => IInv
BY JobsAssumption DEF Init, IInv, TypeOK, NoJob, Row, JobRow, Statuses, NoReminder, ReminderRow, NoOutput,
   OutputRow, Idle, Place, WorkFits, OutputFits, OutputCalls

LEMMA QueueSteps ==
    ASSUME IInv,
           \/ \E j \in Jobs : Enqueue(j) \/ FallDue(j) \/ FallBehind(j) \/ Requeue(j)
           \/ \E w \in Workers, path \in Paths : ClaimNothing(w, path)
    PROVE  IInv'
<1>1. \A j \in Jobs : /\ job[j] \in JobRow /\ job[j].attempts \in Nat /\ job[j].requeues \in Nat
                      /\ job[j].attempts <= MaxAttempts[j] /\ job[j].requeues <= MaxRequeues[j]
                      /\ MaxAttempts[j] \in Nat /\ MaxRequeues[j] \in Nat
  BY JobsAssumption DEF IInv, TypeOK, JobRow
<1>2. job \in [Jobs -> JobRow]
  BY DEF IInv, TypeOK
<1>3. ASSUME NEW j \in Jobs, Enqueue(j) PROVE IInv'
  <2>1. Turned(job[j], "READY", Nobody, j \in Outputs) \in JobRow
    BY <1>1 DEF Turned, Row, JobRow, Statuses
  <2>2. /\ Turned(job[j], "READY", Nobody, j \in Outputs).attempts = job[j].attempts
        /\ Turned(job[j], "READY", Nobody, j \in Outputs).requeues = job[j].requeues
        /\ Turned(job[j], "READY", Nobody, j \in Outputs).status = "READY"
    BY DEF Turned, Row
  <2> QED
    BY <1>1, <1>2, <1>3, <2>1, <2>2, QueueKeeps DEF Enqueue
<1>4. ASSUME NEW j \in Jobs, FallDue(j) PROVE IInv'
  <2>1. /\ [job[j] EXCEPT !.due = TRUE] \in JobRow
        /\ job'[j] = [job[j] EXCEPT !.due = TRUE]
        /\ \A k \in Jobs \ {j} : job'[k] = job[k]
        /\ job' \in [Jobs -> JobRow]
    BY <1>1, <1>2, <1>4 DEF FallDue, JobRow
  <2>2. /\ job'[j].attempts = job[j].attempts /\ job'[j].requeues = job[j].requeues
        /\ job'[j].status = job[j].status
    BY <1>1, <2>1 DEF JobRow
  <2> QED
    BY <1>1, <1>4, <2>1, <2>2, QueueKeeps DEF FallDue
<1>5. ASSUME NEW j \in Jobs, FallBehind(j) PROVE IInv'
  <2>1. /\ [job[j] EXCEPT !.late = TRUE] \in JobRow
        /\ job'[j] = [job[j] EXCEPT !.late = TRUE]
        /\ \A k \in Jobs \ {j} : job'[k] = job[k]
        /\ job' \in [Jobs -> JobRow]
    BY <1>1, <1>2, <1>5 DEF FallBehind, JobRow
  <2>2. /\ job'[j].attempts = job[j].attempts /\ job'[j].requeues = job[j].requeues
        /\ job'[j].status = job[j].status
    BY <1>1, <2>1 DEF JobRow
  <2> QED
    BY <1>1, <1>5, <2>1, <2>2, QueueKeeps DEF FallBehind
<1>6. ASSUME NEW j \in Jobs, Requeue(j) PROVE IInv'
  <2> DEFINE row == Row("READY", 0, Nobody, TRUE, job[j].requeues + 1)
  <2>1. /\ row \in JobRow /\ row.attempts = 0 /\ row.requeues = job[j].requeues + 1
        /\ row.status = "READY"
    BY <1>1 DEF Row, JobRow, Statuses
  <2>2. job' = [job EXCEPT ![j] = row] /\ job[j].requeues < MaxRequeues[j]
        /\ UNCHANGED <<reminder, output, worker>>
    BY <1>6 DEF Requeue
  <2> HIDE DEF row
  <2>3. /\ job' \in [Jobs -> JobRow]
        /\ \A k \in Jobs : job'[k] = IF k = j THEN row ELSE job[k]
    BY <1>2, <2>1, <2>2
  <2>4. \A k \in Jobs : /\ job'[k].attempts <= MaxAttempts[k]
                        /\ job'[k].requeues <= MaxRequeues[k]
                        /\ job'[k].status = "SUCCEEDED" => job[k].status = "SUCCEEDED"
    BY <1>1, <2>1, <2>2, <2>3
  <2>5. job' \in [Jobs -> JobRow]
    BY <2>3
  <2>6. UNCHANGED <<reminder, output, worker>>
    BY <2>2
  <2> QED
    BY <2>4, <2>5, <2>6, QueueKeeps
<1>7. ASSUME NEW w \in Workers, NEW path \in Paths, ClaimNothing(w, path) PROVE IInv'
  <2>1. job' = Recovered(path) /\ UNCHANGED <<reminder, output, worker>>
    BY <1>7 DEF ClaimNothing
  <2>2. \A j \in Jobs : /\ job'[j].attempts = job[j].attempts /\ job'[j].requeues = job[j].requeues
                        /\ job'[j].status \in {job[j].status, "RETRY"}
    BY <2>1, RecoveredRows DEF IInv
  <2>3. job' \in [Jobs -> JobRow]
    BY <2>1, RecoveredRows DEF IInv, Recovered
  <2> QED
    BY <1>1, <2>1, <2>2, <2>3, QueueKeeps
<1> QED
  BY <1>3, <1>4, <1>5, <1>6, <1>7

LEMMA NothingLost == ASSUME UNCHANGED <<reminder, output>> PROVE Grows
BY DEF Grows, ReminderGrows, OutputGrows

LEMMA ClaimKeeps == ASSUME IInv, NEW j \in Jobs, ClaimAny(j) PROVE IInv'
<1>1. PICK w \in Workers, path \in Paths,
           language \in IF j \in Outputs THEN Languages ELSE {NoFile} : Claim(w, j, path, language)
  BY DEF ClaimAny
<1> DEFINE queue == Recovered(path)
           p == [at |-> IF j \in Reminders THEN "remind" ELSE "begin", job |-> j,
                 path |-> path, language |-> language]
           row == Row("RUNNING", queue[j].attempts + 1, w, TRUE, queue[j].requeues)
<1>2. /\ worker' = [worker EXCEPT ![w] = p] /\ UNCHANGED <<reminder, output>>
      /\ job' = [queue EXCEPT ![j] = row] /\ queue[j].attempts < MaxAttempts[j]
  BY <1>1 DEF Claim, Claimable
<1>3. /\ queue \in [Jobs -> JobRow]
      /\ \A k \in Jobs : /\ queue[k].attempts = job[k].attempts /\ queue[k].requeues = job[k].requeues
                         /\ queue[k].status \in {job[k].status, "RETRY"}
  BY RecoveredRows DEF IInv
<1>4. \A k \in Jobs : /\ job[k].attempts \in Nat /\ job[k].requeues \in Nat
                      /\ job[k].attempts <= MaxAttempts[k] /\ job[k].requeues <= MaxRequeues[k]
                      /\ MaxAttempts[k] \in Nat
  BY JobsAssumption DEF IInv, TypeOK, JobRow
<1> HIDE DEF queue
<1>5. /\ row \in JobRow /\ row.attempts = queue[j].attempts + 1
      /\ row.requeues = queue[j].requeues /\ row.status = "RUNNING"
  <2>1. queue[j] \in JobRow /\ queue[j].attempts \in Nat
    BY <1>3, <1>4
  <2> QED
    BY <1>1, <2>1 DEF Row, JobRow, Statuses
<1>6. p \in Place
  BY JobsAssumption DEF Place, Calls, Outputs
<1>7. WorkFits(p, reminder, output)
  BY DEF WorkFits, OutputCalls, Outputs
<1> HIDE DEF row
<1>8. /\ job' \in [Jobs -> JobRow]
      /\ \A k \in Jobs : job'[k].attempts <= MaxAttempts[k] /\ job'[k].requeues <= MaxRequeues[k]
      /\ \A k \in Jobs : job'[k].status = "SUCCEEDED" => job[k].status = "SUCCEEDED"
  BY <1>2, <1>3, <1>4, <1>5
<1>9. p.at = "remind" => p.job \in Reminders
  OBVIOUS
<1>10. p.at \in OutputCalls => p.job \in Outputs
  BY DEF OutputCalls, Outputs
<1> HIDE DEF p
<1>11. /\ worker' \in [Workers -> Place \cup {Idle}]
       /\ \A v \in Workers : worker'[v] = IF v = w THEN p ELSE worker[v]
  BY <1>2, <1>6 DEF IInv, TypeOK
<1>12. TypeOK'
  BY <1>2, <1>8, <1>9, <1>10, <1>11 DEF IInv, TypeOK, OutputCalls
<1> QED
  BY <1>2, <1>7, <1>8, <1>11, <1>12 DEF IInv

-----------------------------------------------------------------------------
(* The calls of a worker.                                                    *)

\* What is known of a worker that is somewhere.
LEMMA Whereabouts ==
    ASSUME TypeOK, NEW w \in Workers, worker[w].at # "idle"
    PROVE  /\ worker[w] \in Place /\ worker[w].job \in Jobs
           /\ \A at \in Calls \cup {"fail"} : [worker[w] EXCEPT !.at = at] \in Place
BY DEF TypeOK, Idle, Place

\* A worker that is told to go to the report of a failure, whatever changed.
LEMMA ToFailure ==
    ASSUME IInv, NEW w \in Workers, worker[w].at # "idle", Grows, UNCHANGED job,
           worker' = [worker EXCEPT ![w].at = "fail"],
           reminder' \in [Reminders -> ReminderRow], output' \in [Outputs -> OutputRow],
           \A j \in Reminders : reminder'[j].deliveries \in {0, 1},
           \A j \in Outputs : OutputFits(output'[j])
    PROVE  IInv'
<1> DEFINE p == [worker[w] EXCEPT !.at = "fail"]
<1>1. p \in Place /\ p.at = "fail"
  BY Whereabouts DEF IInv, Place
<1>2. worker' = [worker EXCEPT ![w] = p]
  BY DEF IInv, TypeOK
<1>3. WorkFits(p, reminder', output')
  BY <1>1 DEF WorkFits, OutputCalls
<1> HIDE DEF p
<1> QED
  BY <1>1, <1>2, <1>3, WorkerKeeps DEF OutputCalls

\* A worker that got its answer and goes on to the next call.
LEMMA ToNextCall ==
    ASSUME IInv, NEW w \in Workers, worker[w].at # "idle", Grows, UNCHANGED job,
           NEW next \in {"attach", "grant", "upload", "complete", "succeed"},
           worker' = [worker EXCEPT ![w].at = next],
           next # "succeed" => worker[w].job \in Outputs /\ worker[w].language \in Languages,
           next \in {"grant", "upload", "complete"} => output'[worker[w].job].documents = 1,
           next \in {"upload", "complete"} => output'[worker[w].job].granted,
           next = "complete" => output'[worker[w].job].file # NoFile,
           next = "succeed" => Served(worker[w].job, reminder', output'),
           reminder' \in [Reminders -> ReminderRow], output' \in [Outputs -> OutputRow],
           \A j \in Reminders : reminder'[j].deliveries \in {0, 1},
           \A j \in Outputs : OutputFits(output'[j])
    PROVE  IInv'
<1> DEFINE p == [worker[w] EXCEPT !.at = next]
<1>1. p \in Place /\ p.at = next /\ p.job = worker[w].job /\ p.language = worker[w].language
  <2>1. worker[w] \in Place /\ next \in Calls
    BY Whereabouts DEF IInv, Calls
  <2> QED
    BY <2>1 DEF Place
<1>2. worker' = [worker EXCEPT ![w] = p]
  BY DEF IInv, TypeOK
<1> HIDE DEF p
<1>3. WorkFits(p, reminder', output')
  BY <1>1 DEF WorkFits, OutputCalls
<1>4. p.at \in OutputCalls => p.job \in Outputs
  BY <1>1 DEF OutputCalls
<1>5. p.at # "remind"
  BY <1>1
<1> QED
  BY <1>1, <1>2, <1>3, <1>4, <1>5, WorkerKeeps

LEMMA RowsOf ==
    ASSUME IInv
    PROVE  /\ \A j \in Reminders : reminder[j] \in ReminderRow
           /\ \A j \in Outputs : output[j] \in OutputRow
           /\ reminder \in [Reminders -> ReminderRow] /\ output \in [Outputs -> OutputRow]
           /\ \A j \in Reminders : reminder[j].deliveries \in {0, 1}
           /\ \A j \in Outputs : OutputFits(output[j])
BY DEF IInv, TypeOK

LEMMA RemindedRow ==
    ASSUME NEW r \in ReminderRow, r.deliveries \in {0, 1}
    PROVE  /\ Reminded(r) \in ReminderRow /\ Reminded(r).deliveries \in {0, 1}
           /\ ReminderGrows(r, Reminded(r)) /\ Reminded(r).over = r.over
           /\ Reminded(r).deliveries = 1 \/ Reminded(r).over
BY DEF Reminded, ReminderRow, ReminderGrows

LEMMA RemindKeeps ==
    ASSUME IInv, NEW w \in Workers, NEW answered \in BOOLEAN, Remind(w, answered)
    PROVE  IInv'
<1> DEFINE j == worker[w].job
<1>1. worker[w].at = "remind" /\ UNCHANGED <<job, output>>
  BY DEF Remind, Proceed
<1>2. j \in Reminders
  BY <1>1 DEF IInv, TypeOK
<1>3. reminder' = [reminder EXCEPT ![j] = Reminded(reminder[j])]
  BY DEF Remind
<1>4. worker' = [worker EXCEPT ![w].at = IF answered THEN "succeed" ELSE "fail"]
  BY DEF Remind, Proceed
<1> HIDE DEF j
<1>5. /\ Reminded(reminder[j]) \in ReminderRow /\ Reminded(reminder[j]).deliveries \in {0, 1}
      /\ ReminderGrows(reminder[j], Reminded(reminder[j]))
      /\ Reminded(reminder[j]).deliveries = 1 \/ Reminded(reminder[j]).over
  BY <1>2, RowsOf, RemindedRow
<1>6. /\ reminder' \in [Reminders -> ReminderRow]
      /\ \A k \in Reminders : reminder'[k] = IF k = j THEN Reminded(reminder[j]) ELSE reminder[k]
  BY <1>2, <1>3, <1>5, RowsOf
<1>7. \A k \in Reminders : reminder'[k].deliveries \in {0, 1} /\ ReminderGrows(reminder[k], reminder'[k])
  <2>1. \A k \in Reminders : ReminderGrows(reminder[k], reminder[k])
    BY DEF ReminderGrows
  <2> QED
    BY <1>5, <1>6, <2>1, RowsOf
<1>8. Grows
  BY <1>1, <1>7 DEF Grows, OutputGrows
<1>9. Served(j, reminder', output')
  BY <1>2, <1>5, <1>6 DEF Served
<1>10. output' \in [Outputs -> OutputRow] /\ \A k \in Outputs : OutputFits(output'[k])
  BY <1>1, RowsOf
<1>11. CASE answered
  <2>1. worker' = [worker EXCEPT ![w].at = "succeed"]
    BY <1>4, <1>11
  <2> QED
    BY <1>1, <1>6, <1>7, <1>8, <1>9, <1>10, <2>1, ToNextCall DEF j
<1>12. CASE ~answered
  <2>1. worker' = [worker EXCEPT ![w].at = "fail"]
    BY <1>4, <1>12
  <2> QED
    BY <1>1, <1>6, <1>7, <1>8, <1>10, <2>1, ToFailure
<1> QED
  BY <1>11, <1>12

\* A call that changes the output of the job a worker holds, and takes that
\* worker to its next call or to its report of a failure.
LEMMA OutputCallKeeps ==
    ASSUME IInv, NEW w \in Workers, NEW j \in Outputs, j = worker[w].job, worker[w].at \in OutputCalls,
           NEW row \in OutputRow, OutputGrows(output[j], row), OutputFits(row),
           output' = [output EXCEPT ![j] = row], UNCHANGED <<job, reminder>>,
           NEW answered \in BOOLEAN, NEW next \in {"attach", "grant", "upload", "complete", "succeed"},
           worker' = [worker EXCEPT ![w].at = IF answered THEN next ELSE "fail"],
           next \in {"grant", "upload", "complete"} => row.documents = 1,
           next \in {"upload", "complete"} => row.granted,
           next = "complete" => row.file # NoFile,
           next = "succeed" => row.status = "AVAILABLE"
    PROVE  IInv'
<1>1. /\ output' \in [Outputs -> OutputRow]
      /\ \A k \in Outputs : output'[k] = IF k = j THEN row ELSE output[k]
  BY RowsOf
<1>2. \A k \in Outputs : OutputFits(output'[k]) /\ OutputGrows(output[k], output'[k])
  <2>1. \A k \in Outputs : OutputGrows(output[k], output[k])
    BY DEF OutputGrows
  <2> QED
    BY <1>1, <2>1, RowsOf
<1>3. Grows
  BY <1>2 DEF Grows, ReminderGrows
<1>4. reminder' \in [Reminders -> ReminderRow] /\ \A k \in Reminders : reminder'[k].deliveries \in {0, 1}
  BY RowsOf
<1>5. worker[w].at # "idle"
  BY DEF OutputCalls
<1>6. CASE answered
  <2>1. worker' = [worker EXCEPT ![w].at = next]
    BY <1>6
  <2>2. worker[w].language \in Languages
    BY DEF IInv, WorkFits
  <2>3. next = "succeed" => Served(worker[w].job, reminder', output')
    BY <1>1 DEF Served, Outputs
  <2>4. output'[worker[w].job] = row
    BY <1>1
  <2> QED
    BY <1>1, <1>2, <1>3, <1>4, <1>5, <2>1, <2>2, <2>3, <2>4, ToNextCall
<1>7. CASE ~answered
  <2>1. worker' = [worker EXCEPT ![w].at = "fail"]
    BY <1>7
  <2> QED
    BY <1>1, <1>2, <1>3, <1>4, <1>5, <2>1, ToFailure
<1> QED
  BY <1>6, <1>7

LEMMA WorkersOutput ==
    ASSUME IInv, NEW w \in Workers, worker[w].at \in OutputCalls
    PROVE  /\ worker[w].job \in Outputs /\ output[worker[w].job] \in OutputRow
           /\ OutputFits(output[worker[w].job])
           /\ worker[w].language \in Languages
           /\ worker[w].at \in {"grant", "upload", "complete"} => output[worker[w].job].documents = 1
           /\ worker[w].at \in {"upload", "complete"} => output[worker[w].job].granted
           /\ worker[w].at = "complete" => output[worker[w].job].file # NoFile
<1>1. worker[w].job \in Outputs
  BY DEF IInv, TypeOK, OutputCalls
<1> QED
  BY <1>1, RowsOf DEF IInv, WorkFits

LEMMA BeginKeeps ==
    ASSUME IInv, NEW w \in Workers, NEW answered \in BOOLEAN, Begin(w, answered)
    PROVE  IInv'
<1> DEFINE j == worker[w].job
           o == output[j]
           row == [o EXCEPT !.status = IF o.status = "NONE" THEN "PENDING" ELSE o.status]
<1>1. worker[w].at = "begin" /\ UNCHANGED <<job, reminder>>
  BY DEF Begin, Proceed
<1>2. j \in Outputs /\ o \in OutputRow /\ OutputFits(o)
  BY <1>1, WorkersOutput DEF OutputCalls
<1>3. output' = [output EXCEPT ![j] = row]
  BY <1>2, RowsOf DEF Begin
<1>4. worker' = [worker EXCEPT ![w].at = IF answered THEN "attach" ELSE "fail"]
  BY DEF Begin, Proceed
<1>5. row \in OutputRow /\ OutputGrows(o, row) /\ OutputFits(row)
  BY <1>2 DEF OutputRow, OutputGrows, OutputFits
<1> HIDE DEF row
<1> QED
  BY <1>1, <1>2, <1>3, <1>4, <1>5, OutputCallKeeps DEF OutputCalls

LEMMA AttachKeeps ==
    ASSUME IInv, NEW w \in Workers, NEW answered \in BOOLEAN, Attach(w, answered)
    PROVE  IInv'
<1> DEFINE j == worker[w].job
           o == output[j]
           a == [o EXCEPT !.documents = o.documents + 1]
           row == IF o.documents > 0 THEN o ELSE [a EXCEPT !.checksum = worker[w].language]
<1>1. worker[w].at = "attach" /\ UNCHANGED <<job, reminder>>
  BY DEF Attach, Proceed
<1>2. j \in Outputs /\ o \in OutputRow /\ OutputFits(o) /\ worker[w].language \in Languages
  BY <1>1, WorkersOutput DEF OutputCalls
<1>3. output' = [output EXCEPT ![j] = row]
  BY <1>2, RowsOf DEF Attach, Attached
<1>4. worker' = [worker EXCEPT ![w].at = IF answered THEN "grant" ELSE "fail"]
  BY DEF Attach, Proceed
<1>5. a \in OutputRow /\ a.documents = o.documents + 1 /\ a.status = o.status /\ a.granted = o.granted
      /\ a.file = o.file
  BY <1>2 DEF OutputRow
<1>6. row \in OutputRow /\ row.documents = 1 /\ row.status = o.status /\ row.granted = o.granted
      /\ row.file = o.file
  <2> HIDE DEF a
  <2> QED
    BY <1>2, <1>5 DEF OutputRow, OutputFits
<1>7. OutputGrows(o, row) /\ OutputFits(row)
  <2> HIDE DEF row
  <2> QED
    BY <1>2, <1>6 DEF OutputGrows, OutputFits
<1> HIDE DEF row
<1> QED
  BY <1>1, <1>2, <1>3, <1>4, <1>6, <1>7, OutputCallKeeps DEF OutputCalls

LEMMA GrantKeeps ==
    ASSUME IInv, NEW w \in Workers, NEW answered \in BOOLEAN, Grant(w, answered)
    PROVE  IInv'
<1> DEFINE j == worker[w].job
           o == output[j]
           row == [o EXCEPT !.granted = TRUE]
<1>1. worker[w].at = "grant" /\ UNCHANGED <<job, reminder>>
  BY DEF Grant, Proceed
<1>2. j \in Outputs /\ o \in OutputRow /\ OutputFits(o) /\ o.documents = 1
  BY <1>1, WorkersOutput DEF OutputCalls
<1>3. output' = [output EXCEPT ![j] = row]
  BY <1>2, RowsOf DEF Grant
<1>4. worker' = [worker EXCEPT ![w].at = IF answered THEN "upload" ELSE "fail"]
  BY DEF Grant, Proceed
<1>5. /\ row \in OutputRow /\ OutputGrows(o, row) /\ OutputFits(row)
      /\ row.documents = 1 /\ row.granted
  BY <1>2 DEF OutputRow, OutputGrows, OutputFits
<1> HIDE DEF row
<1> QED
  BY <1>1, <1>2, <1>3, <1>4, <1>5, OutputCallKeeps DEF OutputCalls

LEMMA UploadKeeps ==
    ASSUME IInv, NEW w \in Workers, NEW answered \in BOOLEAN, Upload(w, answered)
    PROVE  IInv'
<1> DEFINE j == worker[w].job
           o == output[j]
           row == [o EXCEPT !.file = IF o.file = NoFile THEN worker[w].language ELSE o.file]
<1>1. worker[w].at = "upload" /\ UNCHANGED <<job, reminder>>
  BY DEF Upload, Proceed
<1>2. /\ j \in Outputs /\ o \in OutputRow /\ OutputFits(o) /\ o.documents = 1 /\ o.granted
      /\ worker[w].language \in Languages
  BY <1>1, WorkersOutput DEF OutputCalls
<1>3. output' = [output EXCEPT ![j] = row]
  BY <1>2, RowsOf DEF Upload
<1>4. worker' = [worker EXCEPT ![w].at = IF answered THEN "complete" ELSE "fail"]
  BY DEF Upload, Proceed
<1>5. /\ row \in OutputRow /\ OutputGrows(o, row) /\ OutputFits(row)
      /\ row.documents = 1 /\ row.granted /\ row.file # NoFile
  BY <1>2, JobsAssumption DEF OutputRow, OutputGrows, OutputFits
<1> HIDE DEF row
<1> QED
  BY <1>1, <1>2, <1>3, <1>4, <1>5, OutputCallKeeps DEF OutputCalls

LEMMA CompleteKeeps ==
    ASSUME IInv, NEW w \in Workers, NEW answered \in BOOLEAN, Complete(w, answered)
    PROVE  IInv'
<1> DEFINE j == worker[w].job
           o == output[j]
           row == [o EXCEPT !.status = "AVAILABLE"]
<1>1. worker[w].at = "complete" /\ UNCHANGED <<job, reminder>>
  BY DEF Complete, Proceed
<1>2. /\ j \in Outputs /\ o \in OutputRow /\ OutputFits(o) /\ o.documents = 1 /\ o.granted
      /\ o.file # NoFile
  BY <1>1, WorkersOutput DEF OutputCalls
<1>3. output' = [output EXCEPT ![j] = row]
  BY <1>2, RowsOf DEF Complete
<1>4. worker' = [worker EXCEPT ![w].at = IF answered THEN "succeed" ELSE "fail"]
  BY DEF Complete, Proceed
<1>5. /\ row \in OutputRow /\ OutputGrows(o, row) /\ OutputFits(row)
      /\ row.status = "AVAILABLE"
  BY <1>2 DEF OutputRow, OutputGrows, OutputFits
<1> HIDE DEF row
<1> QED
  BY <1>1, <1>2, <1>3, <1>4, <1>5, OutputCallKeeps DEF OutputCalls

LEMMA RefusedKeeps == ASSUME IInv, NEW w \in Workers, Refused(w) PROVE IInv'
<1>1. /\ worker[w].at # "idle" /\ UNCHANGED <<job, reminder, output>>
      /\ worker' = [worker EXCEPT ![w].at = "fail"]
  BY DEF Refused, Calls
<1>2. Grows
  BY <1>1, NothingLost
<1> QED
  BY <1>1, <1>2, RowsOf, ToFailure

LEMMA StopKeeps == ASSUME IInv, NEW w \in Workers, Stop(w) PROVE IInv'
<1>1. WorkFits(Idle, reminder', output') /\ Idle.at \notin OutputCalls \cup {"remind"}
  BY DEF WorkFits, OutputCalls, Idle
<1>2. worker' = [worker EXCEPT ![w] = Idle] /\ UNCHANGED <<job, reminder, output>>
  BY DEF Stop
<1>3. Grows
  BY <1>2, NothingLost
<1> HIDE DEF Idle
<1> QED
  BY <1>1, <1>2, <1>3, RowsOf, WorkerKeeps

\* A worker that reports how its job ended: one row of the queue changes.
LEMMA ReportKeeps ==
    ASSUME IInv, NEW w \in Workers, NEW p \in Place \cup {Idle}, p.at \in {"idle", "fail"},
           worker' = [worker EXCEPT ![w] = p], UNCHANGED <<reminder, output>>,
           NEW j \in Jobs, NEW status \in Statuses, NEW due \in BOOLEAN,
           job' = [job EXCEPT ![j] = Turned(job[j], status, Nobody, due)],
           status = "SUCCEEDED" => Served(j, reminder, output)
    PROVE  IInv'
<1> DEFINE row == Turned(job[j], status, Nobody, due)
<1>1. \A k \in Jobs : /\ job[k] \in JobRow
                      /\ job[k].attempts <= MaxAttempts[k] /\ job[k].requeues <= MaxRequeues[k]
  BY DEF IInv, TypeOK
<1>2. /\ row \in JobRow /\ row.status = status
      /\ row.attempts = job[j].attempts /\ row.requeues = job[j].requeues
  BY <1>1 DEF Turned, Row, JobRow
<1> HIDE DEF row
<1>3. /\ job' \in [Jobs -> JobRow]
      /\ \A k \in Jobs : job'[k] = IF k = j THEN row ELSE job[k]
  BY <1>2 DEF row, IInv, TypeOK
<1>4. \A k \in Jobs : /\ job'[k].attempts <= MaxAttempts[k] /\ job'[k].requeues <= MaxRequeues[k]
                      /\ job'[k].status = "SUCCEEDED" => Served(k, reminder, output)
  BY <1>1, <1>2, <1>3 DEF IInv
<1>5. /\ worker' \in [Workers -> Place \cup {Idle}]
      /\ \A v \in Workers : worker'[v] = IF v = w THEN p ELSE worker[v]
  BY DEF IInv, TypeOK
<1>6. WorkFits(p, reminder, output)
  BY DEF WorkFits, OutputCalls
<1>7. TypeOK'
  BY <1>3, <1>4, <1>5 DEF IInv, TypeOK
<1> QED
  BY <1>4, <1>5, <1>6, <1>7 DEF IInv

LEMMA ReportSteps ==
    ASSUME IInv, NEW w \in Workers, (\E answered \in BOOLEAN : Succeed(w, answered)) \/ Fail(w)
    PROVE  IInv'
<1> DEFINE j == worker[w].job
<1>1. ASSUME NEW answered \in BOOLEAN, Succeed(w, answered) PROVE IInv'
  <2> DEFINE p == IF answered THEN Idle ELSE [worker[w] EXCEPT !.at = "fail"]
  <2>1. /\ worker[w].at = "succeed" /\ UNCHANGED <<reminder, output>>
        /\ job' = [job EXCEPT ![j] = Turned(job[j], "SUCCEEDED", Nobody, TRUE)]
    BY <1>1 DEF Succeed
  <2>2. worker' = [worker EXCEPT ![w] = p]
    BY <1>1 DEF Succeed
  <2>3. worker[w] \in Place /\ j \in Jobs /\ Served(j, reminder, output)
    BY <2>1, Whereabouts DEF IInv, WorkFits
  <2>4. p \in Place \cup {Idle} /\ p.at \in {"idle", "fail"}
    BY <2>3 DEF Place, Idle
  <2> HIDE DEF p, j
  <2> QED
    BY <2>1, <2>2, <2>3, <2>4, ReportKeeps DEF Statuses
<1>2. ASSUME Fail(w) PROVE IInv'
  <2>1. /\ worker[w].at = "fail" /\ UNCHANGED <<reminder, output>>
        /\ worker' = [worker EXCEPT ![w] = Idle]
    BY <1>2 DEF Fail
  <2>2. j \in Jobs
    BY <2>1, Whereabouts DEF IInv
  <2>3. \/ job' = [job EXCEPT ![j] = Turned(job[j], "DEAD_LETTER", Nobody, TRUE)]
        \/ job' = [job EXCEPT ![j] = Turned(job[j], "RETRY", Nobody, FALSE)]
    BY <1>2 DEF Fail
  <2>4. Idle.at = "idle"
    BY DEF Idle
  <2> HIDE DEF j
  <2> QED
    BY <2>1, <2>2, <2>3, <2>4, ReportKeeps DEF Statuses
<1> QED
  BY <1>1, <1>2

LEMMA WorkKeeps == ASSUME IInv, NEW w \in Workers, Work(w) PROVE IInv'
BY RemindKeeps, BeginKeeps, AttachKeeps, GrantKeeps, UploadKeeps, CompleteKeeps, RefusedKeeps,
   ReportSteps, StopKeeps DEF Work

-----------------------------------------------------------------------------
(* What happens around the queue, and the invariant.                         *)

\* Steps that only change reminders and outputs.
LEMMA AroundKeeps ==
    ASSUME IInv, UNCHANGED <<job, worker>>, Grows,
           reminder' \in [Reminders -> ReminderRow], output' \in [Outputs -> OutputRow],
           \A j \in Reminders : reminder'[j].deliveries \in {0, 1},
           \A j \in Outputs : OutputFits(output'[j])
    PROVE  IInv'
<1>1. \A v \in Workers : WorkFits(worker[v], reminder', output')
  BY WorkStaysFit DEF IInv, TypeOK, OutputCalls
<1>2. \A j \in Jobs : job'[j].status = "SUCCEEDED" => Served(j, reminder', output')
  BY ServedStays DEF IInv
<1>3. TypeOK'
  BY DEF IInv, TypeOK
<1> QED
  BY <1>1, <1>2, <1>3 DEF IInv

LEMMA StepEndsKeeps == ASSUME IInv, NEW j \in Reminders, StepEnds(j) PROVE IInv'
<1> DEFINE row == [reminder[j] EXCEPT !.over = TRUE]
<1>1. /\ row \in ReminderRow /\ row.deliveries \in {0, 1} /\ ReminderGrows(reminder[j], row)
  BY RowsOf DEF ReminderRow, ReminderGrows
<1>2. reminder' = [reminder EXCEPT ![j] = row] /\ UNCHANGED <<job, output, worker>>
  BY RowsOf DEF StepEnds
<1> HIDE DEF row
<1>3. /\ reminder' \in [Reminders -> ReminderRow]
      /\ \A k \in Reminders : reminder'[k] = IF k = j THEN row ELSE reminder[k]
  BY <1>1, <1>2, RowsOf
<1>4. \A k \in Reminders : reminder'[k].deliveries \in {0, 1}
  BY <1>1, <1>3, RowsOf
<1>5. \A k \in Reminders : ReminderGrows(reminder[k], reminder[k])
  BY DEF ReminderGrows
<1>6. Grows
  BY <1>1, <1>2, <1>3, <1>5 DEF Grows, OutputGrows
<1> QED
  BY <1>2, <1>3, <1>4, <1>6, RowsOf, AroundKeeps

LEMMA DocumentSteps ==
    ASSUME IInv, NEW j \in Outputs, DeleteDocument(j) \/ RestoreDocument(j)
    PROVE  IInv'
<1>1. PICK deleted \in BOOLEAN : output' = [output EXCEPT ![j].deleted = deleted]
  BY DEF DeleteDocument, RestoreDocument
<1> DEFINE row == [output[j] EXCEPT !.deleted = deleted]
<1>2. /\ row \in OutputRow /\ OutputGrows(output[j], row) /\ OutputFits(row)
  BY RowsOf DEF OutputRow, OutputGrows, OutputFits
<1>3. output' = [output EXCEPT ![j] = row] /\ UNCHANGED <<job, reminder, worker>>
  BY <1>1, RowsOf DEF DeleteDocument, RestoreDocument
<1> HIDE DEF row
<1>4. /\ output' \in [Outputs -> OutputRow]
      /\ \A k \in Outputs : output'[k] = IF k = j THEN row ELSE output[k]
  BY <1>2, <1>3, RowsOf
<1>5. \A k \in Outputs : OutputGrows(output[k], output[k])
  BY DEF OutputGrows
<1>6. Grows
  BY <1>2, <1>3, <1>4, <1>5 DEF Grows, ReminderGrows
<1> QED
  BY <1>2, <1>3, <1>4, <1>6, RowsOf, AroundKeeps

LEMMA StepInv == IInv /\ [Next]_vars => IInv'
<1> SUFFICES ASSUME IInv, [Next]_vars PROVE IInv'
  OBVIOUS
<1>1. CASE UNCHANGED vars
  <2>1. UNCHANGED <<job, reminder, output, worker>>
    BY <1>1 DEF vars
  <2>2. Grows
    BY <2>1, NothingLost
  <2> QED
    BY <2>1, <2>2, RowsOf, AroundKeeps
<1>2. CASE Next
  BY <1>2, QueueSteps, ClaimKeeps, WorkKeeps, StepEndsKeeps, DocumentSteps DEF Next
<1> QED
  BY <1>1, <1>2

LEMMA Invariance == Spec => []IInv
BY InitInv, StepInv, PTL DEF Spec

-----------------------------------------------------------------------------
(* What the runs check, for every value of the constants.                    *)

\* The types of the queue, the results and the workers; attempts and requeues
\* stay within their limits (claim_workflow_job).
THEOREM Typed == Spec => []TypeOK
<1>1. IInv => TypeOK
  BY DEF IInv
<1> QED
  BY <1>1, Invariance, PTL

\* Whatever worker stopped or was overtaken, an available document has its row,
\* its readers and its file (processClaimedJob).
THEOREM OutputsAreWhole == Spec => []AvailableHasItsFile
<1>1. IInv => AvailableHasItsFile
  BY DEF IInv, AvailableHasItsFile, OutputFits
<1> QED
  BY <1>1, Invariance, PTL

-----------------------------------------------------------------------------
(* A worker within its time is left alone.                                   *)

LEMMA ClaimedRows ==
    ASSUME IInv, NEW k \in Jobs, job[k].status = "RUNNING", ~job[k].late,
           \/ \E j \in Jobs : ClaimAny(j)
           \/ \E w \in Workers, path \in Paths : ClaimNothing(w, path)
    PROVE  job'[k] = job[k]
<1>1. CASE \E w \in Workers, path \in Paths : ClaimNothing(w, path)
  BY <1>1, RecoveredRows DEF ClaimNothing, IInv
<1>2. ASSUME NEW j \in Jobs, ClaimAny(j) PROVE job'[k] = job[k]
  <2>1. PICK w \in Workers, path \in Paths,
             language \in IF j \in Outputs THEN Languages ELSE {NoFile} : Claim(w, j, path, language)
    BY <1>2 DEF ClaimAny
  <2> DEFINE queue == Recovered(path)
  <2>2. queue[k] = job[k] /\ queue \in [Jobs -> JobRow]
    BY RecoveredRows DEF IInv
  <2>3. queue[j].status \in {"READY", "RETRY"}
    BY <2>1 DEF Claim, Claimable
  <2>4. job' = [queue EXCEPT ![j] =
                   Row("RUNNING", queue[j].attempts + 1, w, TRUE, queue[j].requeues)]
    BY <2>1 DEF Claim
  <2> HIDE DEF queue
  <2> QED
    BY <2>2, <2>3, <2>4
<1> QED
  BY <1>1, <1>2

LEMMA LeftAlone ==
    ASSUME IInv, [Next]_vars, NEW w \in Workers, Holds(w), ~job[worker[w].job].late,
           worker'[w] = worker[w]
    PROVE  job'[worker[w].job].status = "RUNNING" /\ job'[worker[w].job].holder = w
<1> DEFINE k == worker[w].job
<1>1. /\ k \in Jobs /\ job[k] \in JobRow /\ job[k].status = "RUNNING" /\ job[k].holder = w
      /\ ~job[k].late /\ worker[w] \in Place
  BY DEF Holds, IInv, TypeOK, Place
<1>2. job \in [Jobs -> JobRow] /\ worker \in [Workers -> Place \cup {Idle}]
  BY DEF IInv, TypeOK
<1> HIDE DEF k
<1> SUFFICES job'[k].status = "RUNNING" /\ job'[k].holder = w
  BY DEF k
<1>3. CASE job' = job
  BY <1>1, <1>3
<1>4. ASSUME NEW j \in Jobs, Enqueue(j) \/ FallDue(j) \/ FallBehind(j) \/ Requeue(j)
      PROVE  job'[k].status = "RUNNING" /\ job'[k].holder = w
  <2>1. CASE j # k
    BY <1>1, <1>2, <1>4, <2>1 DEF Enqueue, FallDue, FallBehind, Requeue
  <2>2. CASE j = k
    <3>1. job' = [job EXCEPT ![k].late = TRUE]
      BY <1>1, <1>4, <2>2 DEF Enqueue, FallDue, FallBehind, Requeue
    <3> QED
      BY <1>1, <1>2, <3>1 DEF JobRow
  <2> QED
    BY <2>1, <2>2
<1>5. ASSUME NEW v \in Workers, (\E answered \in BOOLEAN : Succeed(v, answered)) \/ Fail(v)
      PROVE  job'[k].status = "RUNNING" /\ job'[k].holder = w
  <2>1. Holds(v) /\ worker[v].at \in {"succeed", "fail"}
    BY <1>5 DEF Succeed, Fail
  <2>2. v # w
    <3>1. ASSUME v = w PROVE FALSE
      <4>1. CASE Fail(v)
        BY <1>1, <1>2, <2>1, <3>1, <4>1 DEF Fail, Idle, Place, Calls
      <4>2. ASSUME NEW answered \in BOOLEAN, Succeed(v, answered) PROVE FALSE
        BY <1>1, <1>2, <3>1, <4>2 DEF Succeed, Idle, Place, Calls
      <4> QED
        BY <1>5, <4>1, <4>2
    <3> QED
      BY <3>1
  <2>3. worker[v].job \in Jobs /\ worker[v].job # k
    BY <1>1, <1>2, <2>1, <2>2 DEF Holds, Place, Idle
  <2>4. \A i \in Jobs : i # worker[v].job => job'[i] = job[i]
    BY <1>2, <1>5 DEF Succeed, Fail
  <2> QED
    BY <1>1, <2>3, <2>4
<1>6. CASE \E j \in Jobs : ClaimAny(j)
  BY <1>1, <1>6, ClaimedRows
<1>7. CASE \E v \in Workers, path \in Paths : ClaimNothing(v, path)
  BY <1>1, <1>7, ClaimedRows
<1>8. ASSUME NEW v \in Workers, Work(v), ~(\E answered \in BOOLEAN : Succeed(v, answered)), ~Fail(v)
      PROVE  job' = job
  BY <1>8 DEF Work, Remind, Begin, Attach, Grant, Upload, Complete, Refused, Stop
<1>9. ASSUME NEW j, StepEnds(j) \/ DeleteDocument(j) \/ RestoreDocument(j) PROVE job' = job
  BY <1>9 DEF StepEnds, DeleteDocument, RestoreDocument
<1>10. UNCHANGED vars => job' = job
  BY DEF vars
<1> QED
  BY <1>3, <1>4, <1>5, <1>6, <1>7, <1>8, <1>9, <1>10 DEF Next

\* A job is taken from its worker only after the fifteen minutes, and is
\* reported on by that worker alone (claim_workflow_job, finish_workflow_job).
THEOREM WorkersAreLeftAlone == Spec => HolderIsLeftAlone
<1>1. IInv /\ [Next]_vars =>
        [\A w \in Workers :
             Holds(w) /\ ~job[worker[w].job].late /\ worker'[w] = worker[w] =>
                 LET row == job'[worker[w].job] IN row.status = "RUNNING" /\ row.holder = w]_vars
  BY LeftAlone
<1> QED
  BY <1>1, Invariance, PTL DEF Spec, HolderIsLeftAlone

-----------------------------------------------------------------------------
(* The queue implements JobContract.                                         *)

LEMMA ResultsOf ==
    ASSUME IInv, NEW j \in Jobs
    PROVE  /\ Results(j) \in {0, 1}
           /\ Served(j, reminder, output) => Results(j) = 1 \/ ~Needed(j)
           /\ j \in Outputs => Results(j) = IF output[j].status = "AVAILABLE" THEN 1 ELSE 0
BY RowsOf DEF Results, Needed, Served, OutputFits, Outputs

\* A change of job j alone, from one state of the contract to another.
LEMMA StateMoves ==
    ASSUME NEW j \in Jobs, \A k \in Jobs \ {j} : StateOf(k)' = StateOf(k)
    PROVE  [k \in Jobs |-> StateOf(k)]' = [[k \in Jobs |-> StateOf(k)] EXCEPT ![j] = StateOf(j)']
<1> DEFINE old == [k \in Jobs |-> StateOf(k)]
           new == [k \in Jobs |-> StateOf(k)']
<1>1. \A k \in Jobs : new[k] = [old EXCEPT ![j] = StateOf(j)'][k]
  OBVIOUS
<1> QED
  BY <1>1

LEMMA ResultMoves ==
    ASSUME NEW j \in Jobs, \A k \in Jobs \ {j} : Results(k)' = Results(k)
    PROVE  [k \in Jobs |-> Results(k)]' = [[k \in Jobs |-> Results(k)] EXCEPT ![j] = Results(j)']
<1> DEFINE old == [k \in Jobs |-> Results(k)]
           new == [k \in Jobs |-> Results(k)']
<1>1. \A k \in Jobs : new[k] = [old EXCEPT ![j] = Results(j)'][k]
  OBVIOUS
<1> QED
  BY <1>1

LEMMA NeededMoves ==
    ASSUME NEW j \in Jobs, \A k \in Jobs \ {j} : Needed(k)' = Needed(k)
    PROVE  [k \in Jobs |-> Needed(k)]' = [[k \in Jobs |-> Needed(k)] EXCEPT ![j] = Needed(j)']
<1> DEFINE old == [k \in Jobs |-> Needed(k)]
           new == [k \in Jobs |-> Needed(k)']
<1>1. \A k \in Jobs : new[k] = [old EXCEPT ![j] = Needed(j)'][k]
  OBVIOUS
<1> QED
  BY <1>1

\* Reminders and outputs do not change.
LEMMA ResultsStay ==
    ASSUME UNCHANGED <<reminder, output>>
    PROVE  /\ \A k \in Jobs : Results(k)' = Results(k) /\ Needed(k)' = Needed(k)
           /\ [k \in Jobs |-> Results(k)]' = [k \in Jobs |-> Results(k)]
           /\ [k \in Jobs |-> Needed(k)]' = [k \in Jobs |-> Needed(k)]
<1>1. \A k \in Jobs : Results(k)' = Results(k) /\ Needed(k)' = Needed(k)
  BY DEF Results, Needed
<1> QED
  BY <1>1

\* The queue does not change.
LEMMA StatesStay ==
    ASSUME \A k \in Jobs : StateOf(k)' = StateOf(k)
    PROVE  [k \in Jobs |-> StateOf(k)]' = [k \in Jobs |-> StateOf(k)]
OBVIOUS

LEMMA Stutters ==
    ASSUME UNCHANGED <<reminder, output>>, \A k \in Jobs : StateOf(k)' = StateOf(k)
    PROVE  UNCHANGED Contract!contract
BY ResultsStay, StatesStay DEF Contract!contract

\* A claim takes no job from one state of the contract to another.
LEMMA ClaimsAreOpen ==
    ASSUME IInv,
           \/ \E j \in Jobs : ClaimAny(j)
           \/ \E w \in Workers, path \in Paths : ClaimNothing(w, path)
    PROVE  UNCHANGED Contract!contract
<1>1. ASSUME NEW path \in Paths, NEW k \in Jobs
      PROVE  \/ Recovered(path)[k] = job[k]
             \/ job[k].status = "RUNNING" /\ Recovered(path)[k].status = "RETRY"
  BY <1>1 DEF Recovered, Lapsed, Turned, Row
<1>2. CASE \E w \in Workers, path \in Paths : ClaimNothing(w, path)
  <2>1. PICK w \in Workers, path \in Paths : ClaimNothing(w, path)
    BY <1>2
  <2>2. job' = Recovered(path) /\ UNCHANGED <<reminder, output>>
    BY <2>1 DEF ClaimNothing
  <2>3. \A k \in Jobs : StateOf(k)' = StateOf(k)
    BY <1>1, <2>2 DEF StateOf
  <2> QED
    BY <2>2, <2>3, Stutters
<1>3. ASSUME NEW j \in Jobs, ClaimAny(j) PROVE UNCHANGED Contract!contract
  <2>1. PICK w \in Workers, path \in Paths,
             language \in IF j \in Outputs THEN Languages ELSE {NoFile} : Claim(w, j, path, language)
    BY <1>3 DEF ClaimAny
  <2> DEFINE queue == Recovered(path)
             row == Row("RUNNING", queue[j].attempts + 1, w, TRUE, queue[j].requeues)
  <2>2. job' = [queue EXCEPT ![j] = row] /\ queue[j].status \in {"READY", "RETRY"}
        /\ UNCHANGED <<reminder, output>>
    BY <2>1 DEF Claim, Claimable
  <2>3. queue \in [Jobs -> JobRow] /\ row.status = "RUNNING"
    BY RecoveredRows DEF IInv, Row
  <2>4. \A k \in Jobs : \/ queue[k] = job[k]
                        \/ job[k].status = "RUNNING" /\ queue[k].status = "RETRY"
    BY <1>1
  <2> HIDE DEF queue, row
  <2>5. \A k \in Jobs : StateOf(k)' = StateOf(k)
    BY <2>2, <2>3, <2>4 DEF StateOf
  <2> QED
    BY <2>2, <2>5, Stutters
<1> QED
  BY <1>2, <1>3

LEMMA QueueRefines ==
    ASSUME IInv, NEW j \in Jobs, Enqueue(j) \/ FallDue(j) \/ FallBehind(j) \/ Requeue(j)
    PROVE  [Contract!Next]_(Contract!contract)
<1>1. job \in [Jobs -> JobRow] /\ UNCHANGED <<reminder, output>>
  BY DEF IInv, TypeOK, Enqueue, FallDue, FallBehind, Requeue
<1>2. \A k \in Jobs \ {j} : StateOf(k)' = StateOf(k)
  BY <1>1 DEF Enqueue, FallDue, FallBehind, Requeue, StateOf
<1>3. CASE StateOf(j)' = StateOf(j)
  BY <1>1, <1>2, <1>3, Stutters
<1>4. CASE StateOf(j)' # StateOf(j)
  <2>1. Requeue(j)
    BY <1>1, <1>4 DEF Enqueue, FallDue, FallBehind, StateOf, JobRow, Turned, Row
  <2>2. StateOf(j) = "dropped" /\ StateOf(j)' = "open"
    BY <1>1, <1>4, <2>1 DEF Requeue, StateOf, Row
  <2> QED
    BY <1>1, <1>2, <2>2, StateMoves, ResultsStay DEF Contract!Next, Contract!TakeUp
<1> QED
  BY <1>3, <1>4

LEMMA ReportRefines ==
    ASSUME IInv, NEW w \in Workers, (\E answered \in BOOLEAN : Succeed(w, answered)) \/ Fail(w)
    PROVE  [Contract!Next]_(Contract!contract)
<1>1. /\ worker[w].at \in {"succeed", "fail"} /\ UNCHANGED <<reminder, output>>
      /\ job[worker[w].job].status = "RUNNING" /\ job \in [Jobs -> JobRow]
  BY DEF Succeed, Fail, Holds, IInv, TypeOK
<1>2. PICK j \in Jobs : j = worker[w].job
  BY <1>1, Whereabouts DEF IInv
<1>3. ASSUME NEW status \in {"SUCCEEDED", "DEAD_LETTER", "RETRY"}, NEW due,
             job' = [job EXCEPT ![j] = Turned(job[j], status, Nobody, due)]
      PROVE  /\ \A k \in Jobs \ {j} : StateOf(k)' = StateOf(k)
             /\ StateOf(j) = "open"
             /\ status = "SUCCEEDED" => StateOf(j)' = "done"
             /\ status = "DEAD_LETTER" => StateOf(j)' = "dropped"
             /\ status = "RETRY" => StateOf(j)' = "open"
  <2>1. job'[j].status = status /\ \A k \in Jobs \ {j} : job'[k] = job[k]
    BY <1>1, <1>2, <1>3 DEF Turned, Row
  <2>2. \A k \in Jobs \ {j} : StateOf(k)' = StateOf(k)
    BY <2>1 DEF StateOf
  <2>3. StateOf(j) = "open"
    BY <1>1, <1>2 DEF StateOf
  <2>4. StateOf(j)' = IF status = "SUCCEEDED" THEN "done"
                      ELSE IF status = "DEAD_LETTER" THEN "dropped" ELSE "open"
    BY <2>1 DEF StateOf
  <2> QED
    BY <2>2, <2>3, <2>4
<1> DEFINE Moves(status) ==
      /\ \A k \in Jobs \ {j} : StateOf(k)' = StateOf(k)
      /\ StateOf(j) = "open" /\ StateOf(j)' = status
<1>4. CASE Fail(w)
  <2>1. \/ job' = [job EXCEPT ![j] = Turned(job[j], "DEAD_LETTER", Nobody, TRUE)]
        \/ job' = [job EXCEPT ![j] = Turned(job[j], "RETRY", Nobody, FALSE)]
    BY <1>2, <1>4 DEF Fail
  <2>2. Moves("dropped") \/ Moves("open")
    BY <1>3, <2>1
  <2>3. CASE Moves("open")
    BY <1>1, <2>3, Stutters
  <2>4. CASE Moves("dropped")
    <3>1. Contract!GiveUp(j)
      BY <1>1, <1>2, <2>4, StateMoves, ResultsStay DEF Contract!GiveUp
    <3> QED
      BY <1>2, <3>1 DEF Contract!Next
  <2> QED
    BY <2>2, <2>3, <2>4
<1>5. CASE \E answered \in BOOLEAN : Succeed(w, answered)
  <2>1. /\ job' = [job EXCEPT ![j] = Turned(job[j], "SUCCEEDED", Nobody, TRUE)]
        /\ worker[w].at = "succeed"
    BY <1>2, <1>5 DEF Succeed
  <2>2. Moves("done")
    BY <1>3, <2>1
  <2>3. Results(j) = 1 \/ ~Needed(j)
    BY <1>2, <2>1, ResultsOf DEF IInv, WorkFits
  <2>4. Contract!Finish(j)
    BY <1>1, <1>2, <2>2, <2>3, StateMoves, ResultsStay DEF Contract!Finish
  <2> QED
    BY <1>2, <2>4 DEF Contract!Next
<1> QED
  BY <1>4, <1>5

\* The calls that make a result, and those around the queue.
LEMMA OthersRefine ==
    ASSUME IInv, UNCHANGED job, NEW j \in Jobs,
           \A k \in Jobs \ {j} : Results(k)' = Results(k),
           \A k \in Jobs : Needed(k)' = Needed(k),
           Results(j)' = Results(j) \/ (Results(j) = 0 /\ Needed(j) /\ Results(j)' = 1)
    PROVE  [Contract!Next]_(Contract!contract)
<1>1. \A k \in Jobs : StateOf(k)' = StateOf(k)
  BY DEF StateOf
<1>2. [k \in Jobs |-> Needed(k)]' = [k \in Jobs |-> Needed(k)]
  OBVIOUS
<1>3. CASE Results(j)' = Results(j)
  <2>1. [k \in Jobs |-> Results(k)]' = [k \in Jobs |-> Results(k)]
    <3>1. \A k \in Jobs : Results(k)' = Results(k)
      BY <1>3
    <3> QED
      BY <3>1
  <2> QED
    BY <1>1, <1>2, <2>1, StatesStay DEF Contract!contract
<1>4. CASE Results(j) = 0 /\ Needed(j) /\ Results(j)' = 1
  <2>1. Contract!Produce(j)
    BY <1>1, <1>2, <1>4, ResultMoves, StatesStay DEF Contract!Produce
  <2> QED
    BY <2>1 DEF Contract!Next
<1> QED
  BY <1>3, <1>4

LEMMA RemindRefines ==
    ASSUME IInv, NEW w \in Workers, NEW answered \in BOOLEAN, Remind(w, answered)
    PROVE  [Contract!Next]_(Contract!contract)
<1>1. worker[w].at = "remind" /\ UNCHANGED <<job, output>>
  BY DEF Remind, Proceed
<1>2. PICK j \in Reminders : j = worker[w].job
  BY <1>1 DEF IInv, TypeOK
<1>3. reminder' = [reminder EXCEPT ![j] = Reminded(reminder[j])]
  BY <1>2 DEF Remind
<1>4. /\ reminder[j] \in ReminderRow /\ reminder[j].deliveries \in {0, 1}
      /\ reminder \in [Reminders -> ReminderRow]
  BY RowsOf
<1>5. /\ Reminded(reminder[j]).over = reminder[j].over
      /\ \/ Reminded(reminder[j]).deliveries = reminder[j].deliveries
         \/ /\ reminder[j].deliveries = 0 /\ ~reminder[j].over
            /\ Reminded(reminder[j]).deliveries = 1
  BY <1>4 DEF Reminded, ReminderRow
<1>6. \A k \in Reminders : reminder'[k] = IF k = j THEN Reminded(reminder[j]) ELSE reminder[k]
  BY <1>3, <1>4
<1>7. \A k \in Jobs \ {j} : Results(k)' = Results(k)
  BY <1>1, <1>6 DEF Results
<1>8. \A k \in Jobs : Needed(k)' = Needed(k)
  BY <1>5, <1>6 DEF Needed
<1>9. Results(j)' = Results(j) \/ (Results(j) = 0 /\ Needed(j) /\ Results(j)' = 1)
  BY <1>2, <1>5, <1>6 DEF Results, Needed
<1>10. j \in Jobs
  BY <1>2, JobsAssumption
<1> QED
  BY <1>1, <1>7, <1>8, <1>9, <1>10, OthersRefine

\* The document of one output changes, and with it at most its result.
LEMMA OutputRefines ==
    ASSUME IInv, UNCHANGED <<job, reminder>>, NEW j \in Outputs, IInv',
           \A k \in Outputs \ {j} : output'[k] = output[k],
           output[j].status = "AVAILABLE" => output'[j].status = "AVAILABLE"
    PROVE  [Contract!Next]_(Contract!contract)
<1>1. j \in Jobs /\ j \notin Reminders
  BY DEF Outputs
<1>2. \A k \in Jobs \ {j} : Results(k)' = Results(k)
  BY DEF Results, Outputs
<1>3. \A k \in Jobs : Needed(k)' = Needed(k)
  BY DEF Needed
<1>4. Needed(j)
  BY <1>1 DEF Needed
<1>5. Results(j) = IF output[j].status = "AVAILABLE" THEN 1 ELSE 0
  BY <1>1, ResultsOf
<1>6. Results(j)' = IF output'[j].status = "AVAILABLE" THEN 1 ELSE 0
  BY <1>1, RowsOf DEF Results, OutputFits, IInv
<1> QED
  BY <1>1, <1>2, <1>3, <1>4, <1>5, <1>6, OthersRefine

LEMMA OutputCallRefines ==
    ASSUME IInv, NEW w \in Workers, NEW answered \in BOOLEAN,
           \/ Begin(w, answered) \/ Attach(w, answered) \/ Grant(w, answered)
           \/ Upload(w, answered) \/ Complete(w, answered)
    PROVE  [Contract!Next]_(Contract!contract)
<1>1. worker[w].at \in OutputCalls /\ UNCHANGED <<job, reminder>>
  BY DEF Begin, Attach, Grant, Upload, Complete, Proceed, OutputCalls
<1>2. PICK j \in Outputs : j = worker[w].job
  BY <1>1, WorkersOutput
<1>3. output \in [Outputs -> OutputRow] /\ output[j] \in OutputRow
  BY RowsOf
<1>4. \A k \in Outputs \ {j} : output'[k] = output[k]
  BY <1>2, <1>3 DEF Begin, Attach, Grant, Upload, Complete
<1>5. output[j].status = "AVAILABLE" => output'[j].status = "AVAILABLE"
  <2>1. CASE Begin(w, answered) \/ Grant(w, answered) \/ Upload(w, answered) \/ Complete(w, answered)
    BY <1>2, <1>3, <2>1 DEF Begin, Grant, Upload, Complete, OutputRow
  <2>2. CASE Attach(w, answered)
    <3>1. output[j].status = "AVAILABLE" => output[j].documents > 0
      BY RowsOf DEF OutputFits
    <3> QED
      BY <1>2, <2>2, <3>1 DEF Attach
  <2> QED
    BY <2>1, <2>2
<1>6. IInv'
  BY BeginKeeps, AttachKeeps, GrantKeeps, UploadKeeps, CompleteKeeps
<1> QED
  BY <1>1, <1>4, <1>5, <1>6, OutputRefines

LEMMA AroundRefines ==
    ASSUME IInv, IInv',
           \/ \E j \in Reminders : StepEnds(j)
           \/ \E j \in Outputs : DeleteDocument(j) \/ RestoreDocument(j)
    PROVE  [Contract!Next]_(Contract!contract)
<1>1. ASSUME NEW j \in Reminders, StepEnds(j) PROVE [Contract!Next]_(Contract!contract)
  <2>1. /\ reminder[j] \in ReminderRow /\ ~reminder[j].over /\ UNCHANGED <<job, output>>
        /\ reminder' = [reminder EXCEPT ![j].over = TRUE] /\ reminder \in [Reminders -> ReminderRow]
    BY <1>1, RowsOf DEF StepEnds
  <2>2. /\ \A k \in Reminders : reminder'[k].deliveries = reminder[k].deliveries
        /\ \A k \in Reminders : reminder'[k].over = (k = j \/ reminder[k].over)
    BY <2>1 DEF ReminderRow
  <2>3. j \in Jobs
    BY JobsAssumption
  <2>4. \A k \in Jobs : StateOf(k)' = StateOf(k)
    BY <2>1 DEF StateOf
  <2>5. \A k \in Jobs : Results(k)' = Results(k)
    BY <2>1, <2>2 DEF Results
  <2>7. Needed(j)
    BY <2>1 DEF Needed
  <2>8. \A k \in Jobs \ {j} : Needed(k)' = Needed(k)
    BY <2>2 DEF Needed
  <2>9. [k \in Jobs |-> Needed(k)]' = [[k \in Jobs |-> Needed(k)] EXCEPT ![j] = FALSE]
    <3>1. Needed(j)' = FALSE
      BY <2>2 DEF Needed
    <3> QED
      BY <2>3, <2>8, <3>1, NeededMoves
  <2>10. [k \in Jobs |-> Results(k)]' = [k \in Jobs |-> Results(k)]
    BY <2>5
  <2>11. Contract!LoseInterest(j)
    BY <2>3, <2>4, <2>7, <2>9, <2>10, StatesStay DEF Contract!LoseInterest
  <2> QED
    BY <2>3, <2>11 DEF Contract!Next
<1>2. ASSUME NEW j \in Outputs, DeleteDocument(j) \/ RestoreDocument(j)
      PROVE  [Contract!Next]_(Contract!contract)
  <2>1. UNCHANGED <<job, reminder>> /\ output[j] \in OutputRow /\ output \in [Outputs -> OutputRow]
    BY <1>2, RowsOf DEF DeleteDocument, RestoreDocument
  <2>2. \A k \in Outputs \ {j} : output'[k] = output[k]
    BY <1>2, <2>1 DEF DeleteDocument, RestoreDocument
  <2>3. output[j].status = "AVAILABLE" => output'[j].status = "AVAILABLE"
    BY <1>2, <2>1 DEF DeleteDocument, RestoreDocument, OutputRow
  <2> QED
    BY <2>1, <2>2, <2>3, OutputRefines
<1> QED
  BY <1>1, <1>2

LEMMA InitRefines == Init => Contract!Init
<1> SUFFICES ASSUME Init PROVE Contract!Init
  OBVIOUS
<1>1. \A j \in Jobs : job[j].status = "NONE"
  BY DEF Init, NoJob, Row
<1>2. \A j \in Jobs : StateOf(j) = "open"
  BY <1>1 DEF StateOf
<1>3. \A j \in Jobs : Results(j) = 0 /\ Needed(j) = TRUE
  BY DEF Init, Results, Needed, NoReminder, NoOutput, Outputs
<1> QED
  BY <1>2, <1>3 DEF Contract!Init

LEMMA StepRefines == IInv /\ IInv' /\ [Next]_vars => [Contract!Next]_(Contract!contract)
<1> SUFFICES ASSUME IInv, IInv', [Next]_vars PROVE [Contract!Next]_(Contract!contract)
  OBVIOUS
<1>1. CASE UNCHANGED vars
  <2>1. UNCHANGED <<job, reminder, output>>
    BY <1>1 DEF vars
  <2>2. \A k \in Jobs : StateOf(k)' = StateOf(k)
    BY <2>1 DEF StateOf
  <2> QED
    BY <2>1, <2>2, Stutters
<1>2. ASSUME NEW w \in Workers, Refused(w) \/ Stop(w) PROVE [Contract!Next]_(Contract!contract)
  <2>1. UNCHANGED <<job, reminder, output>>
    BY <1>2 DEF Refused, Stop
  <2>2. \A k \in Jobs : StateOf(k)' = StateOf(k)
    BY <2>1 DEF StateOf
  <2> QED
    BY <2>1, <2>2, Stutters
<1>3. ASSUME NEW w \in Workers, Work(w) PROVE [Contract!Next]_(Contract!contract)
  BY <1>2, <1>3, RemindRefines, OutputCallRefines, ReportRefines DEF Work
<1> QED
  BY <1>1, <1>3, ClaimsAreOpen, QueueRefines, AroundRefines DEF Next

\* Results appear once and SUCCEEDED is final and true, however often a job is
\* attempted and by however many workers (the whole of the queue).
THEOREM QueueKeepsContract == Spec => KeepsContract
<1>1. Spec => Contract!Init
  BY InitRefines DEF Spec
<1>2. Spec => [][Contract!Next]_(Contract!contract)
  BY Invariance, StepRefines, PTL DEF Spec
<1> QED
  BY <1>1, <1>2, PTL DEF KeepsContract, Contract!Spec
=============================================================================
