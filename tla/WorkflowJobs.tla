----------------------------- MODULE WorkflowJobs -----------------------------
(***************************************************************************)
(* The queue of automation jobs of the process engine: reminders of a        *)
(* deadline and the document a process leaves behind (workflow_jobs).        *)
(* Workers claim a job for fifteen minutes, call the database and the file    *)
(* storage several times, and report how it ended.  Every call is an action:  *)
(* it may be refused, and its answer may be lost after it took effect.  A     *)
(* worker may stop anywhere, and one that is only slow goes on while its job  *)
(* is given to another.                                                      *)
(***************************************************************************)
EXTENDS Integers

CONSTANTS
    Jobs,              \* rows of workflow_jobs, by their idempotency key
    Reminders,         \* the ones of type PROCESS_REMINDER; the others make a document
    Workers,           \* drains of the queue, by their worker id
    Languages,         \* what a drain can be asked to write in
    MaxAttempts,       \* max_attempts of each job
    MaxRequeues        \* bound on how often an operator offers each job again

Nobody == "nobody"
NoFile == "none"
Outputs == Jobs \ Reminders
Paths == {"USER", "SCHEDULER"}
Statuses == {"NONE", "READY", "RUNNING", "RETRY", "SUCCEEDED", "DEAD_LETTER"}
Calls == {"remind", "begin", "attach", "grant", "upload", "complete", "succeed"}

ASSUME JobsAssumption ==
    /\ Reminders \subseteq Jobs
    /\ Nobody \notin Workers \cup Jobs /\ NoFile \notin Languages
    /\ MaxAttempts \in [Jobs -> Nat \ {0}] /\ MaxRequeues \in [Jobs -> Nat]

VARIABLES
    job,               \* workflow_jobs
    reminder,          \* what became of a reminder, and whether its step is over
    output,            \* process_outputs, the document and its file
    worker             \* where each drain is
vars == <<job, reminder, output, worker>>

\* Every change of a status sets the lock and available_at anew.
Row(status, attempts, holder, due, requeues) ==
    [status |-> status, attempts |-> attempts, holder |-> holder, late |-> FALSE,
     due |-> due, requeues |-> requeues]

NoJob == Row("NONE", 0, Nobody, FALSE, 0)
NoReminder == [deliveries |-> 0, over |-> FALSE]
NoOutput == [status |-> "NONE", documents |-> 0, deleted |-> FALSE, checksum |-> NoFile,
             granted |-> FALSE, file |-> NoFile]
Idle == [at |-> "idle", job |-> Nobody, path |-> "USER", language |-> NoFile]

Init ==
    /\ job = [j \in Jobs |-> NoJob]
    /\ reminder = [j \in Reminders |-> NoReminder]
    /\ output = [j \in Outputs |-> NoOutput]
    /\ worker = [w \in Workers |-> Idle]

-----------------------------------------------------------------------------
(* The queue                                                                 *)

Turned(row, status, holder, due) ==
    Row(status, row.attempts, holder, due, row.requeues)

\* The triggers of the engine: a reminder waits for its deadline, an output is
\* due at once.  The key is unique, so a job is put in the queue once.
Enqueue(j) ==
    /\ job[j].status = "NONE"
    /\ j \in Reminders => ~reminder[j].over
    /\ job' = [job EXCEPT ![j] = Turned(@, "READY", Nobody, j \in Outputs)]
    /\ UNCHANGED <<reminder, output, worker>>

\* available_at passes.
FallDue(j) ==
    /\ job[j].status \in {"READY", "RETRY"} /\ ~job[j].due
    /\ job' = [job EXCEPT ![j].due = TRUE]
    /\ UNCHANGED <<reminder, output, worker>>

\* The job is locked for more than fifteen minutes.
FallBehind(j) ==
    /\ job[j].status = "RUNNING" /\ ~job[j].late
    /\ job' = [job EXCEPT ![j].late = TRUE]
    /\ UNCHANGED <<reminder, output, worker>>

\* The scheduler only handles reminders.
Handles(path, j) == path = "SCHEDULER" => j \in Reminders

\* Mutant: late jobs are left alone.
LapsedNever(path, j) == FALSE

\* Mutant: the fifteen minutes are not waited for.
LapsedAtOnce(path, j) == job[j].status = "RUNNING" /\ Handles(path, j)

Lapsed(path, j) == job[j].status = "RUNNING" /\ job[j].late /\ Handles(path, j)

\* The first statement of claim_workflow_job, whatever is claimed afterwards.
Recovered(path) ==
    [j \in Jobs |->
        IF Lapsed(path, j) THEN Turned(job[j], "RETRY", Nobody, TRUE) ELSE job[j]]

Claimable(row, path, j) ==
    /\ row.status \in {"READY", "RETRY"} /\ row.due
    /\ row.attempts < MaxAttempts[j]
    /\ Handles(path, j)

Claim(w, j, path, language) ==
    LET queue == Recovered(path) IN
    /\ worker[w] = Idle
    /\ Claimable(queue[j], path, j)
    /\ job' = [queue EXCEPT ![j] =
           Row("RUNNING", queue[j].attempts + 1, w, TRUE, queue[j].requeues)]
    /\ worker' = [worker EXCEPT ![w] =
           [at |-> IF j \in Reminders THEN "remind" ELSE "begin", job |-> j,
            path |-> path, language |-> language]]
    /\ UNCHANGED <<reminder, output>>

\* A claim that finds nothing ends the drain, and has recovered all the same.
ClaimNothing(w, path) ==
    LET queue == Recovered(path) IN
    /\ worker[w] = Idle
    /\ \A j \in Jobs : ~Claimable(queue[j], path, j)
    /\ job' = queue
    /\ UNCHANGED <<reminder, output, worker>>

Holds(w) ==
    /\ worker[w] # Idle
    /\ LET row == job[worker[w].job] IN row.status = "RUNNING" /\ row.holder = w

\* An operator offers a job again.
Requeue(j) ==
    /\ job[j].status \in {"DEAD_LETTER", "RETRY"}
    /\ job[j].requeues < MaxRequeues[j]
    /\ job' = [job EXCEPT ![j] = Row("READY", 0, Nobody, TRUE, job[j].requeues + 1)]
    /\ UNCHANGED <<reminder, output, worker>>

-----------------------------------------------------------------------------
(* What a worker does with the job it claimed                                *)

\* The next call, or the report of a failure when no answer came.
Proceed(w, here, answered, next) ==
    /\ worker[w].at = here
    /\ worker' = [worker EXCEPT ![w].at = IF answered THEN next ELSE "fail"]

\* Any call may raise an error or not arrive.
Refused(w) ==
    /\ worker[w].at \in Calls
    /\ worker' = [worker EXCEPT ![w].at = "fail"]
    /\ UNCHANGED <<job, reminder, output>>

\* Mutant: the delivery of an earlier attempt is not looked for.
RemindedTwice(r) == IF r.over THEN r ELSE [r EXCEPT !.deliveries = @ + 1]

\* create_process_deadline_reminder: once, and not for a step that is over.  A
\* breach that blocks delivers an event only, once by the key of that event.
Reminded(r) ==
    IF r.deliveries > 0 \/ r.over THEN r ELSE [r EXCEPT !.deliveries = @ + 1]

\* Only the path of the scheduler asks whether the worker still holds the job.
Remind(w, answered) ==
    LET j == worker[w].job IN
    /\ worker[w].path = "SCHEDULER" => Holds(w)
    /\ Proceed(w, "remind", answered, "succeed")
    /\ reminder' = [reminder EXCEPT ![j] = Reminded(@)]
    /\ UNCHANGED <<job, output>>

\* begin_process_output: the row of the output is made once.  Nothing gives it
\* the status FAILED, from which it would be made pending again.
Begin(w, answered) ==
    LET j == worker[w].job IN
    /\ Proceed(w, "begin", answered, "attach")
    /\ output' = [output EXCEPT ![j].status = IF @ = "NONE" THEN "PENDING" ELSE @]
    /\ UNCHANGED <<job, reminder>>

Attached(o) == [o EXCEPT !.documents = @ + 1]

\* attach_process_output_document: the document of an earlier attempt is kept,
\* with the checksum of the file that attempt had made.
Attach(w, answered) ==
    LET j == worker[w].job IN
    /\ Proceed(w, "attach", answered, "grant")
    /\ output' = IF output[j].documents > 0 THEN output
                 ELSE [output EXCEPT ![j] = [Attached(@) EXCEPT !.checksum = worker[w].language]]
    /\ UNCHANGED <<job, reminder>>

Grant(w, answered) ==
    LET j == worker[w].job IN
    /\ Proceed(w, "grant", answered, "upload")
    /\ output[j].documents > 0
    /\ output' = [output EXCEPT ![j].granted = TRUE]
    /\ UNCHANGED <<job, reminder>>

\* Mutant: every error of the storage is taken for a file that was there.
UploadNothing(w, answered) ==
    /\ Proceed(w, "upload", answered, "complete")
    /\ UNCHANGED <<job, reminder, output>>

\* A file that is there already is left as it is, and that is no error.
Upload(w, answered) ==
    LET j == worker[w].job IN
    /\ Proceed(w, "upload", answered, "complete")
    /\ output' = [output EXCEPT ![j].file = IF @ = NoFile THEN worker[w].language ELSE @]
    /\ UNCHANGED <<job, reminder>>

Complete(w, answered) ==
    LET j == worker[w].job IN
    /\ Proceed(w, "complete", answered, "succeed")
    /\ output[j].documents > 0 /\ ~output[j].deleted
    /\ output' = [output EXCEPT ![j].status = "AVAILABLE"]
    /\ UNCHANGED <<job, reminder>>

\* finish_workflow_job, SUCCEEDED.  Without an answer the worker reports FAILED.
Succeed(w, answered) ==
    LET j == worker[w].job IN
    /\ Holds(w)
    /\ worker[w].at = "succeed"
    /\ worker' = [worker EXCEPT ![w] = IF answered THEN Idle ELSE [@ EXCEPT !.at = "fail"]]
    /\ job' = [job EXCEPT ![j] = Turned(@, "SUCCEEDED", Nobody, TRUE)]
    /\ UNCHANGED <<reminder, output>>

\* finish_workflow_job, FAILED.
Fail(w) ==
    LET j == worker[w].job IN
    /\ Holds(w)
    /\ worker[w].at = "fail"
    /\ worker' = [worker EXCEPT ![w] = Idle]
    /\ job' = [job EXCEPT ![j] =
           IF @.attempts >= MaxAttempts[j] THEN Turned(@, "DEAD_LETTER", Nobody, TRUE)
           ELSE Turned(@, "RETRY", Nobody, FALSE)]
    /\ UNCHANGED <<reminder, output>>

\* The worker dies, or could not report the failure and goes on to other jobs.
Stop(w) ==
    /\ worker[w] # Idle
    /\ worker' = [worker EXCEPT ![w] = Idle]
    /\ UNCHANGED <<job, reminder, output>>

-----------------------------------------------------------------------------
(* Around the queue                                                          *)

\* The step, its item or the whole process comes to an end.
StepEnds(j) ==
    /\ ~reminder[j].over
    /\ reminder' = [reminder EXCEPT ![j].over = TRUE]
    /\ UNCHANGED <<job, output, worker>>

\* Users of the dossier delete a document and restore it; its file stays.
DeleteDocument(j) ==
    /\ output[j].documents > 0 /\ ~output[j].deleted
    /\ output' = [output EXCEPT ![j].deleted = TRUE]
    /\ UNCHANGED <<job, reminder, worker>>

RestoreDocument(j) ==
    /\ output[j].deleted
    /\ output' = [output EXCEPT ![j].deleted = FALSE]
    /\ UNCHANGED <<job, reminder, worker>>

\* A drain of the scheduler has no choice of language, and no use for one.
ClaimAny(j) ==
    \E w \in Workers, path \in Paths :
        \E language \in IF j \in Outputs THEN Languages ELSE {NoFile} : Claim(w, j, path, language)

Work(w) ==
    \/ \E answered \in BOOLEAN :
          \/ Remind(w, answered)
          \/ Begin(w, answered)
          \/ Attach(w, answered)
          \/ Grant(w, answered)
          \/ Upload(w, answered)
          \/ Complete(w, answered)
          \/ Succeed(w, answered)
    \/ Refused(w)
    \/ Fail(w)
    \/ Stop(w)

Next ==
    \/ \E j \in Jobs : Enqueue(j) \/ FallDue(j) \/ FallBehind(j) \/ Requeue(j) \/ ClaimAny(j)
    \/ \E w \in Workers : Work(w) \/ \E path \in Paths : ClaimNothing(w, path)
    \/ \E j \in Reminders : StepEnds(j)
    \/ \E j \in Outputs : DeleteDocument(j) \/ RestoreDocument(j)

\* Time passes, calls end one way or the other, and drains keep being started.
Fairness ==
    /\ \A j \in Jobs : WF_vars(FallDue(j)) /\ WF_vars(FallBehind(j)) /\ WF_vars(ClaimAny(j))
    /\ \A w \in Workers : WF_vars(Work(w))

Spec == Init /\ [][Next]_vars

FairSpec == Spec /\ Fairness

-----------------------------------------------------------------------------
(* Properties                                                                *)

JobRow == [status : Statuses, attempts : Nat, holder : Workers \cup {Nobody},
           late : BOOLEAN, due : BOOLEAN, requeues : Nat]
ReminderRow == [deliveries : Nat, over : BOOLEAN]
OutputRow == [status : {"NONE", "PENDING", "AVAILABLE"}, documents : Nat, deleted : BOOLEAN,
              checksum : Languages \cup {NoFile}, granted : BOOLEAN, file : Languages \cup {NoFile}]
Place == [at : Calls \cup {"fail"}, job : Jobs, path : Paths, language : Languages \cup {NoFile}]

TypeOK ==
    /\ job \in [Jobs -> JobRow]
    /\ \A j \in Jobs : job[j].attempts <= MaxAttempts[j] /\ job[j].requeues <= MaxRequeues[j]
    /\ reminder \in [Reminders -> ReminderRow]
    /\ output \in [Outputs -> OutputRow]
    /\ worker \in [Workers -> Place \cup {Idle}]
    /\ \A w \in Workers : worker[w].at = "remind" => worker[w].job \in Reminders
    /\ \A w \in Workers :
          worker[w].at \in {"begin", "attach", "grant", "upload", "complete"} =>
              worker[w].job \in Outputs

\* A document the process shows as available has its row, its readers and its
\* file, however many workers were at it and wherever they stopped
\* (processClaimedJob, complete_process_output).
AvailableHasItsFile ==
    \A j \in Outputs : output[j].status = "AVAILABLE" =>
        output[j].documents = 1 /\ output[j].granted /\ output[j].file # NoFile

\* While a worker works on a job within its fifteen minutes, nobody ends the
\* job, takes it over or offers it again (claim_workflow_job,
\* finish_workflow_job, requeue_workflow_job).
HolderIsLeftAlone ==
    [][\A w \in Workers :
           Holds(w) /\ ~job[worker[w].job].late /\ worker'[w] = worker[w] =>
               LET row == job'[worker[w].job] IN row.status = "RUNNING" /\ row.holder = w]_vars

\* The contract of the queue: results appear once, also when attempts are
\* repeated by several workers; SUCCEEDED is only said of a job whose result is
\* there or not needed, and is final.
StateOf(j) ==
    IF job[j].status = "SUCCEEDED" THEN "done"
    ELSE IF job[j].status = "DEAD_LETTER" THEN "dropped" ELSE "open"

Results(j) ==
    IF j \in Reminders THEN reminder[j].deliveries
    ELSE IF output[j].status = "AVAILABLE" THEN output[j].documents ELSE 0

Needed(j) == j \in Reminders => ~reminder[j].over

Contract == INSTANCE JobContract WITH
    state <- [j \in Jobs |-> StateOf(j)],
    result <- [j \in Jobs |-> Results(j)],
    needed <- [j \in Jobs |-> Needed(j)]

KeepsContract == Contract!Spec

\* A job whose last attempt never reported: it waits for an operator.
WornOut(j) == job[j].attempts = MaxAttempts[j] /\ job[j].status \in {"RUNNING", "RETRY"}

\* Every job that is queued succeeds, is given up or has used all its attempts;
\* it is not forgotten when its worker dies.
JobsSettle ==
    \A j \in Jobs : job[j].status # "NONE" ~>
        job[j].status \in {"SUCCEEDED", "DEAD_LETTER"} \/ WornOut(j)
=============================================================================
