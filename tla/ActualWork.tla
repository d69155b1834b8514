------------------------------ MODULE ActualWork ------------------------------
(***************************************************************************)
(* The actual work of one month, its approval and release for payroll, and *)
(* the payroll run that reads it.                                          *)
(*                                                                         *)
(* An entry is written by employees and HR (CREATE, CORRECTION, VOID) and  *)
(* by the CSV import of an administrator (CREATE, to be approved).  Every  *)
(* write adds a revision.  An administrator looks at the review screen,    *)
(* which reads the entries first and their revision numbers later, and     *)
(* approves an entry for one payroll period by that number.  An approved   *)
(* entry is released for that period under the mapping of its work type.   *)
(* Periods and mappings are of one administration, and so is an entry: by   *)
(* the employment it names, which a correction may change.                 *)
(* Payroll reads the entries, then the revisions and the releases, each by *)
(* a query of its own.  The month can be closed at any moment.             *)
(***************************************************************************)
EXTENDS Integers, Sequences, FiniteSets

CONSTANTS
    Entries,        \* rows of employment_work_hour_entries
    Contents,       \* hours, dates, type, employment and note of an entry
    Periods,        \* payroll periods that cover the entries' dates
    Administrations,
    AdministrationOf, \* of the employment of a content, and of a period
    Writers,        \* requests that create, import or void
    Admins,         \* review screens
    Runs,           \* payroll calculations
    NoEntry, NoContent, NoPeriod,
    MaxRevisions,   \* bound: revisions of an entry
    MaxCorrections, \* bound: corrections among them
    MaxMappings     \* bound: versions of an administration's mapping

ASSUME BoundsAssumption ==
    /\ MaxRevisions \in Nat \ {0}
    /\ MaxCorrections \in Nat
    /\ MaxMappings \in [Administrations -> Nat]
ASSUME AdministrationAssumption ==
    AdministrationOf \in [Contents \cup Periods -> Administrations]
ASSUME AbsentAssumption ==
    /\ NoEntry \notin Entries
    /\ NoContent \notin Contents
    /\ NoPeriod \notin Periods

VARIABLES
    entries,        \* the row of each entry, status "NONE" before its insert
    revisions,      \* actual_work_revisions of each entry, by number
    closed,         \* actual_work_periods.status = 'CLOSED'
    mapping,        \* version of the PAYMENT mapping in force in each
                    \* administration, 0 for none
    approvals,      \* actual_work_payroll_approvals
    releases,       \* actual_work_payroll_releases
    writers,        \* what each writing request has read
    screens,        \* what each review screen shows
    runs,           \* what each payroll calculation has read
    paid            \* hours some calculation took as payable

vars == <<entries, revisions, closed, mapping, approvals, releases, writers,
          screens, runs, paid>>

Row == [status  : {"NONE", "PENDING", "APPROVED", "REVOKED"},
        content : Contents \cup {NoContent}]
Revision == [operation : {"CREATE", "EDIT", "CORRECTION", "VOID"},
             content   : Contents]
Approval == [entry : Entries, listed : Nat, shown : Contents, reviewed : Nat,
             revision : Nat, period : Periods, content : Contents]
Release == [entry : Entries, revision : Nat, period : Periods, mapping : Nat,
            class : {"INITIAL", "TWK_REQUIRED"}]
Writer == [step    : {"IDLE", "READ", "ADMITTED"},
           entry   : Entries \cup {NoEntry},
           content : Contents \cup {NoContent},
           status  : {"NONE", "PENDING", "APPROVED"}]
Screen == [step     : {"EMPTY", "LISTED", "SHOWN", "APPROVING"},
           entry    : Entries \cup {NoEntry},
           content  : Contents \cup {NoContent},
           listed   : Nat,
           revision : Nat,
           period   : Periods \cup {NoPeriod}]
Reading == [step     : {"IDLE", "READING"},
            entry    : Entries \cup {NoEntry},
            content  : Contents \cup {NoContent},
            read     : Nat,
            period   : Periods \cup {NoPeriod},
            seen     : SUBSET {"REVISIONS", "RELEASES"},
            revision : Nat,
            releases : SUBSET Release]
Payment == [entry : Entries, period : Periods, read : Nat, revision : Nat,
            content : Contents]

NoRow == [status |-> "NONE", content |-> NoContent]
NoWriter == [step |-> "IDLE", entry |-> NoEntry, content |-> NoContent,
             status |-> "NONE"]
NoScreen == [step |-> "EMPTY", entry |-> NoEntry, content |-> NoContent,
             listed |-> 0, revision |-> 0, period |-> NoPeriod]
NoReading == [step |-> "IDLE", entry |-> NoEntry, content |-> NoContent,
              read |-> 0, period |-> NoPeriod, seen |-> {}, revision |-> 0,
              releases |-> {}]

Init ==
    /\ entries = [e \in Entries |-> NoRow]
    /\ revisions = [e \in Entries |-> <<>>]
    /\ closed = FALSE
    /\ mapping = [m \in Administrations |-> 0]
    /\ approvals = {}
    /\ releases = {}
    /\ writers = [w \in Writers |-> NoWriter]
    /\ screens = [a \in Admins |-> NoScreen]
    /\ runs = [r \in Runs |-> NoReading]
    /\ paid = {}

-----------------------------------------------------------------------------
(* save_actual_work_entry writes the row and its next revision together.    *)
(* The bound on revisions is a bound of the model.                          *)

Current(e) == Len(revisions[e])
Exists(e) == entries[e].status # "NONE"
Of(e) == AdministrationOf[entries[e].content]

\* The row is locked by an approval that is still running.
Locked(e) ==
    \E a \in Admins : screens[a].step = "APPROVING" /\ screens[a].entry = e

Save(e, status, operation, content) ==
    /\ Current(e) < MaxRevisions
    /\ entries' = [entries EXCEPT
                      ![e] = [status |-> status, content |-> content]]
    /\ revisions' = [revisions EXCEPT
                        ![e] = Append(@, [operation |-> operation,
                                          content |-> content])]

-----------------------------------------------------------------------------
(* Creating, APPROVED at once, and importing, PENDING until it is approved.  *)
(* The request finds the month open before it writes.                       *)

Asks(w, step, e, c, status) ==
    [writers EXCEPT
        ![w] = [step |-> step, entry |-> e, content |-> c, status |-> status]]

Taken(e) == \E w \in Writers : writers[w].entry = e

AdmitCreate(w, e, c, status) ==
    /\ writers[w].step = "IDLE"
    /\ ~Exists(e) /\ ~Taken(e)
    /\ ~closed
    /\ writers' = Asks(w, "ADMITTED", e, c, status)
    /\ UNCHANGED <<entries, revisions, closed, mapping, approvals, releases,
                   screens, runs, paid>>

CommitCreate(w) ==
    LET it == writers[w] IN
    /\ it.step = "ADMITTED"
    /\ it.status # "NONE"
    /\ Save(it.entry, it.status, "CREATE", it.content)
    /\ writers' = [writers EXCEPT ![w] = NoWriter]
    /\ UNCHANGED <<closed, mapping, approvals, releases, screens, runs, paid>>

-----------------------------------------------------------------------------
(* Voiding.  The service reads the row and sends what it read back with     *)
(* VOID; the deferred audit trigger refuses any change of content that is   *)
(* not a correction.                                                        *)

ReadToVoid(w, e) ==
    /\ writers[w].step = "IDLE"
    /\ entries[e].status = "APPROVED"
    /\ writers' = Asks(w, "READ", e, entries[e].content, "NONE")
    /\ UNCHANGED <<entries, revisions, closed, mapping, approvals, releases,
                   screens, runs, paid>>

\* Mutant: a void does not ask whether the month is open.
AdmitVoidLate(w) ==
    /\ writers[w].step = "READ"
    /\ writers' = Asks(w, "ADMITTED", writers[w].entry, writers[w].content, "NONE")
    /\ UNCHANGED <<entries, revisions, closed, mapping, approvals, releases,
                   screens, runs, paid>>

AdmitVoid(w) ==
    /\ writers[w].step = "READ"
    /\ ~closed
    /\ writers' = Asks(w, "ADMITTED", writers[w].entry, writers[w].content, "NONE")
    /\ UNCHANGED <<entries, revisions, closed, mapping, approvals, releases,
                   screens, runs, paid>>

\* Mutant: no trigger asks for a correction.
Unaudited(e, operation, content) == content \in Contents
Audited(e, operation, content) ==
    operation = "CORRECTION" \/ entries[e].content = content

CommitVoid(w) ==
    LET it == writers[w] IN
    /\ it.step = "ADMITTED"
    /\ it.status = "NONE"
    /\ ~Locked(it.entry)
    /\ Audited(it.entry, "VOID", it.content)
    /\ Save(it.entry, "REVOKED", "VOID", it.content)
    /\ writers' = [writers EXCEPT ![w] = NoWriter]
    /\ UNCHANGED <<closed, mapping, approvals, releases, screens, runs, paid>>

\* A request that a guard refuses, or whose process ends, writes nothing.
GiveUp(w) ==
    /\ writers[w].step # "IDLE"
    /\ writers' = [writers EXCEPT ![w] = NoWriter]
    /\ UNCHANGED <<entries, revisions, closed, mapping, approvals, releases,
                   screens, runs, paid>>

-----------------------------------------------------------------------------
(* A correction with a reason is taken in a closed month too, and makes the *)
(* entry APPROVED whatever it was.  It may name another employment.  The    *)
(* bound on corrections is a bound of the model.                            *)

Corrections(e) ==
    {n \in 1..Current(e) : revisions[e][n].operation = "CORRECTION"}

Correct(e, c) ==
    /\ Exists(e) /\ ~Locked(e)
    /\ Cardinality(Corrections(e)) < MaxCorrections
    /\ Save(e, "APPROVED", "CORRECTION", c)
    /\ UNCHANGED <<closed, mapping, approvals, releases, writers, screens,
                   runs, paid>>

Close ==
    /\ ~closed
    /\ closed' = TRUE
    /\ UNCHANGED <<entries, revisions, mapping, approvals, releases, writers,
                   screens, runs, paid>>

\* A new version of an administration's mapping ends the one before it.
MapAnew(m) ==
    /\ mapping[m] < MaxMappings[m]
    /\ mapping' = [mapping EXCEPT ![m] = @ + 1]
    /\ UNCHANGED <<entries, revisions, closed, approvals, releases, writers,
                   screens, runs, paid>>

-----------------------------------------------------------------------------
(* Review and approval in one administration: that of the rows it lists.    *)

Turns(a, step, n, p) ==
    [screens EXCEPT
        ![a] = [screens[a] EXCEPT !.step = step, !.revision = n, !.period = p]]

\* The review lists the rows that are not revoked (listed is their revision at
\* that moment, which the screen does not know)...
List(a, e) ==
    /\ screens[a].step # "APPROVING"
    /\ entries[e].status \in {"PENDING", "APPROVED"}
    /\ screens' = [screens EXCEPT
                      ![a] = [NoScreen EXCEPT !.step = "LISTED", !.entry = e,
                                 !.content = entries[e].content,
                                 !.listed = Current(e)]]
    /\ UNCHANGED <<entries, revisions, closed, mapping, approvals, releases,
                   writers, runs, paid>>

\* ...and then reads their revision numbers.
Show(a) ==
    /\ screens[a].step = "LISTED"
    /\ screens' = Turns(a, "SHOWN", Current(screens[a].entry), NoPeriod)
    /\ UNCHANGED <<entries, revisions, closed, mapping, approvals, releases,
                   writers, runs, paid>>

\* A repeated approval of the current revision returns the approval there is.
Approved(e, n) == \E x \in approvals : x.entry = e /\ x.revision = n

\* Mutant: the number on the screen is not compared.
ApprovableStale(a) ==
    LET e == screens[a].entry IN
    screens[a].step = "SHOWN" /\ ~Locked(e) /\ ~Approved(e, Current(e))

Approvable(a) ==
    LET e == screens[a].entry IN
    /\ screens[a].step = "SHOWN"
    /\ ~Locked(e)
    /\ ~Approved(e, Current(e))
    /\ screens[a].revision = Current(e)

\* The period, the entry and what the screen shows are of one administration.
InScope(a, p) ==
    /\ AdministrationOf[screens[a].content] = AdministrationOf[p]
    /\ Of(screens[a].entry) = AdministrationOf[p]

Signed(a, n, p) ==
    [entry |-> screens[a].entry, listed |-> screens[a].listed,
     shown |-> screens[a].content, reviewed |-> screens[a].revision,
     revision |-> n, period |-> p, content |-> entries[screens[a].entry].content]

Approve(a, p) ==
    /\ Approvable(a) /\ InScope(a, p)
    /\ entries[screens[a].entry].status = "APPROVED"
    /\ approvals' = approvals \cup {Signed(a, Current(screens[a].entry), p)}
    /\ UNCHANGED <<entries, revisions, closed, mapping, releases, writers,
                   screens, runs, paid>>

\* A PENDING entry is saved as APPROVED first, an EDIT that needs the month open.
AdmitApproval(a, p) ==
    /\ Approvable(a) /\ InScope(a, p)
    /\ entries[screens[a].entry].status = "PENDING"
    /\ ~closed
    /\ screens' = Turns(a, "APPROVING", screens[a].revision, p)
    /\ UNCHANGED <<entries, revisions, closed, mapping, approvals, releases,
                   writers, runs, paid>>

CommitApproval(a) ==
    LET e == screens[a].entry IN
    /\ screens[a].step = "APPROVING"
    /\ Save(e, "APPROVED", "EDIT", entries[e].content)
    /\ approvals' = approvals \cup {Signed(a, Current(e) + 1, screens[a].period)}
    /\ screens' = Turns(a, "SHOWN", screens[a].revision, NoPeriod)
    /\ UNCHANGED <<closed, mapping, releases, writers, runs, paid>>

DropApproval(a) ==
    /\ screens[a].step = "APPROVING"
    /\ screens' = Turns(a, "SHOWN", screens[a].revision, NoPeriod)
    /\ UNCHANGED <<entries, revisions, closed, mapping, approvals, releases,
                   writers, runs, paid>>

-----------------------------------------------------------------------------
(* Release.  The trigger on the releases asks for the approval of this very *)
(* revision and period; a second release of an entry in an administration   *)
(* is not paid by payroll but marked for a correction with retroactive      *)
(* effect.  A revision is of one administration, like a period.             *)

\* Mutant: an approval of an earlier revision will do.
RestsOnAny(e, p) == \E x \in approvals : x.entry = e /\ x.period = p

Rests(e, p) ==
    \E x \in approvals :
        /\ x.entry = e /\ x.revision = Current(e) /\ x.period = p
        /\ x.content = entries[e].content

Assigned(e) ==
    \E x \in releases :
        x.entry = e /\ x.revision = Current(e) /\ x.mapping = mapping[Of(e)]

\* Mutant: earlier revisions' releases are not looked for.
ClassOfRevision(e) ==
    IF \E x \in releases : x.entry = e /\ x.revision = Current(e)
    THEN "TWK_REQUIRED" ELSE "INITIAL"

ClassOf(e) ==
    IF \E x \in releases : x.entry = e /\ AdministrationOf[x.period] = Of(e)
    THEN "TWK_REQUIRED" ELSE "INITIAL"

ReleaseForPayroll(e, p) ==
    /\ entries[e].status = "APPROVED" /\ ~Locked(e)
    /\ AdministrationOf[p] = Of(e)
    /\ mapping[Of(e)] # 0
    /\ ~Assigned(e)
    /\ Rests(e, p)
    /\ releases' = releases \cup
          {[entry |-> e, revision |-> Current(e), period |-> p,
            mapping |-> mapping[Of(e)], class |-> ClassOf(e)]}
    /\ UNCHANGED <<entries, revisions, closed, mapping, approvals, writers,
                   screens, runs, paid>>

-----------------------------------------------------------------------------
(* A payroll calculation of a period reads the entry of an employment of    *)
(* the period's administration, then its revision number and its releases   *)
(* in either order, and last the mapping.                                   *)

StartRun(r, e, p) ==
    /\ runs[r].step = "IDLE"
    /\ Exists(e)
    /\ Of(e) = AdministrationOf[p]
    /\ runs' = [runs EXCEPT
                   ![r] = [NoReading EXCEPT !.step = "READING", !.entry = e,
                              !.content = entries[e].content,
                              !.read = Current(e), !.period = p]]
    /\ UNCHANGED <<entries, revisions, closed, mapping, approvals, releases,
                   writers, screens, paid>>

Reads(r, what, n, found) ==
    [runs EXCEPT
        ![r] = [runs[r] EXCEPT !.seen = @ \cup {what}, !.revision = n,
                               !.releases = found]]

ReadRevision(r) ==
    /\ runs[r].step = "READING" /\ "REVISIONS" \notin runs[r].seen
    /\ runs' = Reads(r, "REVISIONS", Current(runs[r].entry), runs[r].releases)
    /\ UNCHANGED <<entries, revisions, closed, mapping, approvals, releases,
                   writers, screens, paid>>

ReadReleases(r) ==
    /\ runs[r].step = "READING" /\ "RELEASES" \notin runs[r].seen
    /\ runs' = Reads(r, "RELEASES", runs[r].revision,
                     {x \in releases : /\ x.entry = runs[r].entry
                                       /\ x.period = runs[r].period})
    /\ UNCHANGED <<entries, revisions, closed, mapping, approvals, releases,
                   writers, screens, paid>>

\* More than one release of the entry for the period is a gap, not a payment.
Payable(run) ==
    /\ Cardinality(run.releases) = 1
    /\ \E x \in run.releases :
          /\ x.revision = run.revision
          /\ x.class = "INITIAL"
          /\ x.mapping = mapping[AdministrationOf[run.period]]

Paid(run) ==
    {[entry |-> run.entry, period |-> run.period, read |-> run.read,
      revision |-> run.revision, content |-> run.content]}

EndRun(r) ==
    /\ runs[r].seen = {"REVISIONS", "RELEASES"}
    /\ paid' = paid \cup (IF Payable(runs[r]) THEN Paid(runs[r]) ELSE {})
    /\ runs' = [runs EXCEPT ![r] = NoReading]
    /\ UNCHANGED <<entries, revisions, closed, mapping, approvals, releases,
                   writers, screens>>

-----------------------------------------------------------------------------
Write(w) ==
    \/ \E e \in Entries, c \in Contents, status \in {"APPROVED", "PENDING"} :
          AdmitCreate(w, e, c, status)
    \/ CommitCreate(w)
    \/ \E e \in Entries : ReadToVoid(w, e)
    \/ AdmitVoid(w)
    \/ CommitVoid(w)
    \/ GiveUp(w)

Review(a) ==
    \/ \E e \in Entries : List(a, e)
    \/ Show(a)
    \/ \E p \in Periods : Approve(a, p) \/ AdmitApproval(a, p)
    \/ CommitApproval(a)
    \/ DropApproval(a)

Calculate(r) ==
    \/ \E e \in Entries, p \in Periods : StartRun(r, e, p)
    \/ ReadRevision(r)
    \/ ReadReleases(r)
    \/ EndRun(r)

Next ==
    \/ \E w \in Writers : Write(w)
    \/ \E e \in Entries, c \in Contents : Correct(e, c)
    \/ \E e \in Entries, p \in Periods : ReleaseForPayroll(e, p)
    \/ \E a \in Admins : Review(a)
    \/ \E r \in Runs : Calculate(r)
    \/ Close
    \/ \E m \in Administrations : MapAnew(m)

Spec == Init /\ [][Next]_vars

-----------------------------------------------------------------------------
\* Every row, request, screen and reading has the shape the code gives it.
TypeOK ==
    /\ entries \in [Entries -> Row]
    /\ revisions \in [Entries -> Seq(Revision)]
    /\ closed \in BOOLEAN
    /\ mapping \in [Administrations -> Nat]
    /\ approvals \subseteq Approval
    /\ releases \subseteq Release
    /\ writers \in [Writers -> Writer]
    /\ screens \in [Admins -> Screen]
    /\ runs \in [Runs -> Reading]
    /\ paid \subseteq Payment

\* The revisions tell the entry: the last one has its content, and content
\* changed only where a revision says CORRECTION, although a void writes back
\* a row it read in an earlier request (require_actual_work_correction_audit).
HistoryTellsTheEntry ==
    \A e \in Entries :
        /\ Exists(e) => /\ Current(e) > 0
                        /\ revisions[e][Current(e)].content = entries[e].content
        /\ \A n \in 2..Current(e) :
              \/ revisions[e][n].operation = "CORRECTION"
              \/ revisions[e][n].content = revisions[e][n - 1].content

\* An approval, for ever after, names two revisions that exist and have the
\* content that was approved: the one whose number the administrator sent and
\* the one that payroll may release (approve_actual_work_entry_for_payroll_period).
\* What the screen showed is that content only if nothing was saved between the
\* two reads of the review: it reads the rows first and their numbers later, so
\* that older hours may stand beside the newer number that is approved.
ApprovedAsReviewed ==
    \A x \in approvals :
        /\ x.reviewed \in 1..x.revision /\ x.revision <= Current(x.entry)
        /\ revisions[x.entry][x.reviewed].content = x.content
        /\ revisions[x.entry][x.revision].content = x.content
        /\ x.listed \in 1..x.reviewed
        /\ revisions[x.entry][x.listed].content = x.shown
        /\ x.listed = x.reviewed => x.shown = x.content

\* An administration pays an entry in one period at most, whatever calculations
\* read between corrections, approvals and releases for overlapping periods.
\* Another administration may pay it too: the releases of one are not looked at
\* in the other, to which a correction can move the entry.
PaidInOnePeriod ==
    \A x, y \in paid :
        x.entry = y.entry /\ AdministrationOf[x.period] = AdministrationOf[y.period]
        => x.period = y.period

\* What a calculation takes as payable rests on the approval of that revision
\* for that period, and the hours are of the revision that was current when the
\* entry was read: the approved one, and so the content that was approved, unless
\* a save came between the calculation's reads.  Then they are of an earlier
\* revision, which nobody need have approved.
PaidWasApproved ==
    \A x \in paid :
        /\ x.read \in 1..x.revision
        /\ revisions[x.entry][x.read].content = x.content
        /\ \E y \in approvals :
              /\ y.entry = x.entry /\ y.revision = x.revision /\ y.period = x.period
              /\ x.read = x.revision => x.content = y.content

\* Closing takes no lock that a save takes: a save that found the month open
\* may land after the close.  Once those have ended, no other is let in and the
\* entries change by corrections only (close_actual_work_period).
Quiet ==
    /\ closed
    /\ \A w \in Writers : writers[w].step # "ADMITTED"
    /\ \A a \in Admins : screens[a].step # "APPROVING"

CorrectedOnly ==
    \A e \in Entries :
        revisions'[e] # revisions[e]
        => revisions'[e][Len(revisions'[e])].operation = "CORRECTION"

QuietOnceClosed == [][Quiet => Quiet' /\ CorrectedOnly]_vars
=============================================================================
