--------------------------- MODULE ActualWorkProofs ---------------------------
(***************************************************************************)
(* Proofs about ActualWork, for every set of entries, contents, periods,    *)
(* requests, screens and calculations.  Revisions, approvals and releases   *)
(* are only ever added to (Grows): what a request, a screen or a            *)
(* calculation has read of them stays true of the past, and that is all the *)
(* guards of the writing transactions leave to be shown.                    *)
(***************************************************************************)
EXTENDS ActualWork, TLAPS

\* Revision n of the history h exists and has content c.
At(h, n, c) == n \in 1..Len(h) /\ h[n].content = c

RowFits(row, h) ==
    /\ row.status = "NONE" <=> Len(h) = 0
    /\ row.status # "NONE" => h[Len(h)].content = row.content
    /\ \A n \in 2..Len(h) :
          h[n].operation = "CORRECTION" \/ h[n].content = h[n - 1].content

WriterFits(q, rows) ==
    /\ q.step = "IDLE" => q.entry = NoEntry
    /\ q.step # "ADMITTED" => q.status = "NONE"
    /\ q.step # "IDLE" => /\ q.entry \in Entries /\ q.content \in Contents
                          /\ q.status = "NONE" <=> rows[q.entry].status # "NONE"

ScreenFits(q, h) ==
    /\ q.step # "EMPTY" => /\ q.entry \in Entries /\ q.content \in Contents
                           /\ q.revision <= Len(h[q.entry])
                           /\ At(h[q.entry], q.listed, q.content)
    /\ q.step \in {"SHOWN", "APPROVING"} => q.listed <= q.revision
    /\ q.step = "APPROVING" => /\ q.revision = Len(h[q.entry])
                               /\ q.period \in Periods

ApprovalFits(x, h) ==
    /\ x.listed <= x.reviewed /\ x.reviewed <= x.revision
    /\ At(h[x.entry], x.listed, x.shown)
    /\ At(h[x.entry], x.reviewed, x.content)
    /\ At(h[x.entry], x.revision, x.content)

ReleaseFits(x, signed) ==
    \E y \in signed :
        y.entry = x.entry /\ y.revision = x.revision /\ y.period = x.period

\* A calculation read the entry before its revision number.
RunFits(q, h, rs) ==
    /\ q.step = "IDLE" => q.seen = {} /\ q.releases = {}
    /\ q.step # "IDLE" =>
          /\ q.entry \in Entries /\ q.content \in Contents /\ q.period \in Periods
          /\ q.releases \subseteq
                {x \in rs : x.entry = q.entry /\ x.period = q.period}
          /\ q.revision <= Len(h[q.entry])
          /\ At(h[q.entry], q.read, q.content)
          /\ "REVISIONS" \in q.seen => q.read <= q.revision

PaymentFits(x, h, rs) ==
    /\ \E y \in rs : /\ y.entry = x.entry /\ y.revision = x.revision
                     /\ y.period = x.period /\ y.class = "INITIAL"
    /\ x.read <= x.revision
    /\ At(h[x.entry], x.read, x.content)

HistoryOK == \A e \in Entries : RowFits(entries[e], revisions[e])
WritersOK ==
    /\ \A w \in Writers : WriterFits(writers[w], entries)
    /\ \A v, w \in Writers :
          writers[w].status # "NONE" /\ writers[v].entry = writers[w].entry => v = w
ScreensOK ==
    /\ \A a \in Admins : ScreenFits(screens[a], revisions)
    /\ \A a, b \in Admins :
          (/\ screens[a].step = "APPROVING" /\ screens[b].step = "APPROVING"
           /\ screens[a].entry = screens[b].entry) => a = b
ApprovalsOK == \A x \in approvals : ApprovalFits(x, revisions)
ReleasesOK ==
    /\ \A x \in releases : ReleaseFits(x, approvals)
    /\ \A x, y \in releases :
          (/\ x.class = "INITIAL" /\ y.class = "INITIAL" /\ x.entry = y.entry
           /\ AdministrationOf[x.period] = AdministrationOf[y.period]) => x = y
RunsOK == \A r \in Runs : RunFits(runs[r], revisions, releases)
PaidOK == \A x \in paid : PaymentFits(x, revisions, releases)

IInv == /\ TypeOK /\ HistoryOK /\ WritersOK /\ ScreensOK
        /\ ApprovalsOK /\ ReleasesOK /\ RunsOK /\ PaidOK

\* h is continued by g.
Continues(h, g) ==
    /\ Len(h) <= Len(g)
    /\ \A n \in 1..Len(h) : g[n] = h[n]

Grows ==
    /\ \A e \in Entries : Continues(revisions[e], revisions'[e])
    /\ approvals \subseteq approvals'
    /\ releases \subseteq releases'

-----------------------------------------------------------------------------
LEMMA InitInv == Init => IInv
<1> SUFFICES ASSUME Init PROVE IInv
  OBVIOUS
<1>1. TypeOK
  <2>1. NoRow \in Row /\ NoWriter \in Writer /\ NoScreen \in Screen
    BY DEF NoRow, NoWriter, NoScreen, Row, Writer, Screen
  <2>2. NoReading \in Reading
    BY DEF NoReading, Reading
  <2>3. [e \in Entries |-> <<>>] \in [Entries -> Seq(Revision)]
    OBVIOUS
  <2> QED
    BY <2>1, <2>2, <2>3 DEF Init, TypeOK
<1>2. HistoryOK
  BY DEF Init, HistoryOK, RowFits, NoRow
<1>3. WritersOK
  BY DEF Init, WritersOK, WriterFits, NoWriter
<1>4. ScreensOK
  BY DEF Init, ScreensOK, ScreenFits, NoScreen
<1>5. RunsOK
  BY DEF Init, RunsOK, RunFits, NoReading
<1> QED
  BY <1>1, <1>2, <1>3, <1>4, <1>5 DEF Init, IInv, ApprovalsOK, ReleasesOK, PaidOK

LEMMA AtLater ==
    ASSUME NEW h \in Seq(Revision), NEW g \in Seq(Revision), Continues(h, g),
           NEW n, NEW c, At(h, n, c)
    PROVE  At(g, n, c)
<1>1. Len(h) \in Nat /\ Len(g) \in Nat
  OBVIOUS
<1> QED
  BY <1>1 DEF At, Continues

\* A write of content that the audit trigger accepts continues the history.
LEMMA Writing ==
    ASSUME TypeOK, HistoryOK, NEW e \in Entries, NEW c \in Contents,
           NEW status \in {"PENDING", "APPROVED", "REVOKED"},
           NEW op \in {"CREATE", "EDIT", "CORRECTION", "VOID"},
           Save(e, status, op, c),
           ~Exists(e) \/ op = "CORRECTION" \/ entries[e].content = c
    PROVE  /\ entries' \in [Entries -> Row] /\ revisions' \in [Entries -> Seq(Revision)]
           /\ HistoryOK'
           /\ \A f \in Entries : Continues(revisions[f], revisions'[f])
           /\ \A f \in Entries \ {e} : entries'[f] = entries[f] /\ revisions'[f] = revisions[f]
           /\ entries'[e].status = status /\ Len(revisions'[e]) = Len(revisions[e]) + 1
           /\ revisions'[e][Len(revisions[e]) + 1].content = c
           /\ revisions'[e][Len(revisions[e]) + 1].operation = op
<1> DEFINE row == [status |-> status, content |-> c]
           new == [operation |-> op, content |-> c]
           h == revisions[e]
<1>1. row \in Row /\ new \in Revision /\ new.content = c /\ new.operation = op
      /\ row.status = status /\ row.content = c
  BY DEF Row, Revision
<1>2. /\ entries' = [entries EXCEPT ![e] = row]
      /\ revisions' = [revisions EXCEPT ![e] = Append(h, new)]
  BY DEF Save
<1>3. h \in Seq(Revision) /\ Len(h) \in Nat
  BY DEF TypeOK
<1> HIDE DEF row, new
<1>4. /\ Append(h, new) \in Seq(Revision) /\ Len(Append(h, new)) = Len(h) + 1
      /\ Append(h, new)[Len(h) + 1] = new
      /\ \A n \in 1..Len(h) : Append(h, new)[n] = h[n]
  BY <1>1, <1>3
<1>5. /\ entries' \in [Entries -> Row] /\ revisions' \in [Entries -> Seq(Revision)]
      /\ entries'[e] = row /\ revisions'[e] = Append(h, new)
      /\ \A f \in Entries \ {e} : entries'[f] = entries[f] /\ revisions'[f] = revisions[f]
  BY <1>1, <1>2, <1>4 DEF TypeOK
<1>6. \A f \in Entries : Continues(revisions[f], revisions'[f])
  <2> SUFFICES ASSUME NEW f \in Entries PROVE Continues(revisions[f], revisions'[f])
    OBVIOUS
  <2>1. revisions[f] \in Seq(Revision) /\ Len(revisions[f]) \in Nat
    BY DEF TypeOK
  <2>2. CASE f = e
    BY <1>3, <1>4, <1>5, <2>2 DEF Continues
  <2>3. CASE f # e
    <3>1. revisions'[f] = revisions[f]
      BY <1>5, <2>3
    <3> QED
      BY <2>1, <3>1 DEF Continues
  <2> QED
    BY <2>2, <2>3
<1>7. RowFits(row, Append(h, new))
  <2>1. RowFits(entries[e], h)
    BY DEF HistoryOK
  <2> DEFINE g == Append(h, new)
  <2>2. \A n \in 2..Len(h) : g[n] = h[n] /\ g[n - 1] = h[n - 1]
    BY <1>3, <1>4
  <2>3. Len(h) > 0 => g[Len(h)] = h[Len(h)]
    BY <1>3, <1>4
  <2>4. Len(h) + 1 \in 2..(Len(h) + 1) => Len(h) > 0
    BY <1>3
  <2>5. \A n \in 2..(Len(h) + 1) : n \in 2..Len(h) \/ n = Len(h) + 1
    BY <1>3
  <2>6. Len(h) > 0 => new.operation = "CORRECTION" \/ new.content = h[Len(h)].content
    BY <1>1, <2>1 DEF RowFits, Exists
  <2>7. \A n \in 2..(Len(h) + 1) : g[n].operation = "CORRECTION" \/ g[n].content = g[n - 1].content
    <3> SUFFICES ASSUME NEW n \in 2..(Len(h) + 1)
                 PROVE  g[n].operation = "CORRECTION" \/ g[n].content = g[n - 1].content
      OBVIOUS
    <3>1. CASE n \in 2..Len(h)
      BY <2>1, <2>2, <3>1 DEF RowFits
    <3>2. CASE n = Len(h) + 1
      <4>1. Len(h) > 0 /\ g[n] = new /\ n - 1 = Len(h)
        BY <1>3, <1>4, <2>4, <3>2
      <4> QED
        BY <2>3, <2>6, <4>1
    <3> QED
      BY <2>5, <3>1, <3>2
  <2> HIDE DEF g
  <2> QED
    BY <1>1, <1>3, <1>4, <2>7 DEF RowFits, g
<1>8. HistoryOK'
  BY <1>5, <1>7 DEF HistoryOK
<1> QED
  BY <1>1, <1>3, <1>4, <1>5, <1>6, <1>8

-----------------------------------------------------------------------------
(* What the four writing actions do, told as one.                           *)

LEMMA Created ==
    ASSUME IInv, NEW w \in Writers, CommitCreate(w)
    PROVE  /\ writers[w].entry \in Entries /\ ~Exists(writers[w].entry)
           /\ writers[w].content \in Contents
           /\ writers[w].status \in {"PENDING", "APPROVED"}
           /\ Save(writers[w].entry, writers[w].status, "CREATE", writers[w].content)
BY DEF IInv, TypeOK, Writer, WritersOK, WriterFits, CommitCreate, Exists

LEMMA Voided ==
    ASSUME IInv, NEW w \in Writers, CommitVoid(w)
    PROVE  /\ writers[w].entry \in Entries /\ Exists(writers[w].entry)
           /\ writers[w].content \in Contents
           /\ entries[writers[w].entry].content = writers[w].content
           /\ Save(writers[w].entry, "REVOKED", "VOID", writers[w].content)
BY DEF IInv, TypeOK, Writer, WritersOK, WriterFits, CommitVoid, Audited, Exists

LEMMA RowHasContent ==
    ASSUME IInv, NEW e \in Entries, Exists(e)
    PROVE  /\ entries[e].content \in Contents /\ Current(e) \in Nat /\ Current(e) > 0
           /\ revisions[e][Current(e)].content = entries[e].content
<1>1. Len(revisions[e]) \in Nat /\ revisions[e] \in Seq(Revision) /\ Len(revisions[e]) > 0
  BY DEF IInv, TypeOK, HistoryOK, RowFits, Exists
<1>2. revisions[e][Len(revisions[e])] \in Revision
  BY <1>1
<1> QED
  BY <1>1, <1>2 DEF IInv, HistoryOK, RowFits, Exists, Current, Revision

LEMMA Signing ==
    ASSUME IInv, NEW a \in Admins, CommitApproval(a)
    PROVE  /\ screens[a].entry \in Entries /\ Exists(screens[a].entry)
           /\ screens[a].period \in Periods
           /\ screens[a].revision = Current(screens[a].entry)
           /\ entries[screens[a].entry].content \in Contents
           /\ Save(screens[a].entry, "APPROVED", "EDIT", entries[screens[a].entry].content)
<1>1. /\ screens[a].entry \in Entries /\ screens[a].period \in Periods
      /\ screens[a].revision = Current(screens[a].entry) /\ Len(revisions[screens[a].entry]) > 0
  <2>1. /\ screens[a].entry \in Entries /\ screens[a].period \in Periods
        /\ screens[a].revision = Current(screens[a].entry)
        /\ screens[a].listed \in 1..Len(revisions[screens[a].entry])
    BY DEF IInv, ScreensOK, ScreenFits, CommitApproval, Current, At
  <2>2. Len(revisions[screens[a].entry]) \in Nat
    BY <2>1 DEF IInv, TypeOK
  <2> QED
    BY <2>1, <2>2
<1>2. Exists(screens[a].entry)
  BY <1>1 DEF IInv, HistoryOK, RowFits, Exists
<1> QED
  BY <1>1, <1>2, RowHasContent DEF CommitApproval

\* A step writes nothing to the entries, or writes one entry in one of these ways.
Writes(e, op, c) ==
    /\ entries' \in [Entries -> Row] /\ revisions' \in [Entries -> Seq(Revision)]
    /\ HistoryOK'
    /\ \A f \in Entries : Continues(revisions[f], revisions'[f])
    /\ \A f \in Entries \ {e} : entries'[f] = entries[f] /\ revisions'[f] = revisions[f]
    /\ entries'[e].status # "NONE" /\ Len(revisions'[e]) = Len(revisions[e]) + 1
    /\ revisions'[e][Len(revisions[e]) + 1].content = c
    /\ revisions'[e][Len(revisions[e]) + 1].operation = op

LEMMA Steps ==
    ASSUME IInv, Next
    PROVE  \/ UNCHANGED <<entries, revisions>>
           \/ \E w \in Writers :
                 CommitCreate(w) /\ Writes(writers[w].entry, "CREATE", writers[w].content)
           \/ \E w \in Writers :
                 CommitVoid(w) /\ Writes(writers[w].entry, "VOID", writers[w].content)
           \/ \E e \in Entries, c \in Contents :
                 Correct(e, c) /\ Writes(e, "CORRECTION", c)
           \/ \E a \in Admins :
                 /\ CommitApproval(a)
                 /\ Writes(screens[a].entry, "EDIT", entries[screens[a].entry].content)
<1>1. TypeOK /\ HistoryOK
  BY DEF IInv
<1>2. ASSUME NEW w \in Writers, CommitCreate(w)
      PROVE  Writes(writers[w].entry, "CREATE", writers[w].content)
  BY <1>1, <1>2, Created, Writing DEF Writes
<1>3. ASSUME NEW w \in Writers, CommitVoid(w)
      PROVE  Writes(writers[w].entry, "VOID", writers[w].content)
  BY <1>1, <1>3, Voided, Writing DEF Writes
<1>4. ASSUME NEW e \in Entries, NEW c \in Contents, Correct(e, c)
      PROVE  Writes(e, "CORRECTION", c)
  BY <1>1, <1>4, Writing DEF Writes, Correct
<1>5. ASSUME NEW a \in Admins, CommitApproval(a)
      PROVE  Writes(screens[a].entry, "EDIT", entries[screens[a].entry].content)
  BY <1>1, <1>5, Signing, Writing DEF Writes
<1>6. CASE \E w \in Writers : Write(w)
  BY <1>2, <1>3, <1>6 DEF Write, AdmitCreate, ReadToVoid, AdmitVoid, GiveUp
<1>7. CASE \E a \in Admins : Review(a)
  BY <1>5, <1>7 DEF Review, List, Show, Approve, AdmitApproval, DropApproval
<1>8. CASE \E r \in Runs : Calculate(r)
  BY <1>8 DEF Calculate, StartRun, ReadRevision, ReadReleases, EndRun
<1> QED
  BY <1>4, <1>6, <1>7, <1>8 DEF Next, ReleaseForPayroll, Close, MapAnew

LEMMA AllGrows == ASSUME IInv, Next PROVE Grows
<1>1. \A e \in Entries : Continues(revisions[e], revisions'[e])
  <2>1. CASE UNCHANGED <<entries, revisions>>
    <3>1. \A e \in Entries : Len(revisions[e]) \in Nat
      BY DEF IInv, TypeOK
    <3> QED
      BY <2>1, <3>1 DEF Continues
  <2> QED
    BY <2>1, Steps DEF Writes
<1>2. approvals \subseteq approvals' /\ releases \subseteq releases'
  BY DEF Next, Write, AdmitCreate, CommitCreate, ReadToVoid, AdmitVoid, CommitVoid, GiveUp,
     Correct, ReleaseForPayroll, Review, List, Show, Approve, AdmitApproval, CommitApproval,
     DropApproval, Calculate, StartRun, ReadRevision, ReadReleases, EndRun, Close, MapAnew
<1> QED
  BY <1>1, <1>2 DEF Grows

-----------------------------------------------------------------------------
(* Each part of the invariant is preserved.                                 *)

LEMMA EntriesTyped ==
    ASSUME IInv, Next
    PROVE  entries' \in [Entries -> Row] /\ revisions' \in [Entries -> Seq(Revision)]
BY Steps DEF IInv, TypeOK, Writes

LEMMA WritersTyped == ASSUME IInv, Next PROVE writers' \in [Writers -> Writer]
<1>1. writers \in [Writers -> Writer] /\ NoWriter \in Writer
  BY DEF IInv, TypeOK, NoWriter, Writer
<1>2. ASSUME NEW w \in Writers, NEW e \in Entries, NEW c \in Contents,
             NEW status \in {"APPROVED", "PENDING"}, AdmitCreate(w, e, c, status)
      PROVE  writers' \in [Writers -> Writer]
  BY <1>1, <1>2 DEF AdmitCreate, Asks, Writer
<1>3. ASSUME NEW w \in Writers, NEW e \in Entries, ReadToVoid(w, e)
      PROVE  writers' \in [Writers -> Writer]
  <2>1. entries[e].content \in Contents \cup {NoContent}
    BY DEF IInv, TypeOK, Row
  <2> QED
    BY <1>1, <1>3, <2>1 DEF ReadToVoid, Asks, Writer
<1>4. ASSUME NEW w \in Writers, AdmitVoid(w) PROVE writers' \in [Writers -> Writer]
  BY <1>1, <1>4 DEF AdmitVoid, Asks, Writer
<1>5. ASSUME NEW w \in Writers, Write(w) PROVE writers' \in [Writers -> Writer]
  BY <1>1, <1>2, <1>3, <1>4, <1>5 DEF Write, CommitCreate, CommitVoid, GiveUp
<1>6. CASE ~\E w \in Writers : Write(w)
  BY <1>1, <1>6 DEF Next, Correct, ReleaseForPayroll, Review, List, Show, Approve, AdmitApproval,
     CommitApproval, DropApproval, Calculate, StartRun, ReadRevision, ReadReleases, EndRun, Close,
     MapAnew
<1> QED
  BY <1>5, <1>6

LEMMA ScreensTyped == ASSUME IInv, Next PROVE screens' \in [Admins -> Screen]
<1>1. /\ screens \in [Admins -> Screen]
      /\ \A e \in Entries : /\ Current(e) \in Nat
                            /\ entries[e].content \in Contents \cup {NoContent}
  BY DEF IInv, TypeOK, Current, Row
<1>2. ASSUME NEW a \in Admins, NEW e \in Entries, List(a, e) PROVE screens' \in [Admins -> Screen]
  BY <1>1, <1>2 DEF List, NoScreen, Screen
<1>3. ASSUME NEW a \in Admins, Show(a) PROVE screens' \in [Admins -> Screen]
  <2>1. screens[a].entry \in Entries
    BY <1>3 DEF IInv, ScreensOK, ScreenFits, Show
  <2> QED
    BY <1>1, <1>3, <2>1 DEF Show, Turns, Screen
<1>4. ASSUME NEW a \in Admins, NEW p \in Periods, AdmitApproval(a, p)
      PROVE  screens' \in [Admins -> Screen]
  BY <1>1, <1>4 DEF AdmitApproval, Turns, Screen
<1>5. ASSUME NEW a \in Admins, CommitApproval(a) \/ DropApproval(a)
      PROVE  screens' \in [Admins -> Screen]
  <2>1. screens' = Turns(a, "SHOWN", screens[a].revision, NoPeriod)
    BY <1>5 DEF CommitApproval, DropApproval
  <2> QED
    BY <1>1, <2>1 DEF Turns, Screen
<1>6. ASSUME NEW a \in Admins, Review(a) PROVE screens' \in [Admins -> Screen]
  BY <1>1, <1>2, <1>3, <1>4, <1>5, <1>6 DEF Review, Approve
<1>7. CASE ~\E a \in Admins : Review(a)
  BY <1>1, <1>7 DEF Next, Write, AdmitCreate, CommitCreate, ReadToVoid, AdmitVoid, CommitVoid,
     GiveUp, Correct, ReleaseForPayroll, Calculate, StartRun, ReadRevision, ReadReleases, EndRun,
     Close, MapAnew
<1> QED
  BY <1>6, <1>7

LEMMA RunsTyped ==
    ASSUME IInv, Next PROVE runs' \in [Runs -> Reading] /\ paid' \subseteq Payment
<1>1. /\ runs \in [Runs -> Reading] /\ paid \subseteq Payment /\ releases \subseteq Release
      /\ \A e \in Entries : /\ Current(e) \in Nat
                            /\ entries[e].content \in Contents \cup {NoContent}
  BY DEF IInv, TypeOK, Current, Row
<1>1a. ASSUME NEW r \in Runs, NEW what \in {"REVISIONS", "RELEASES"}, NEW n \in Nat,
             NEW found \in SUBSET Release
      PROVE  Reads(r, what, n, found) \in [Runs -> Reading]
  <2> DEFINE q == runs[r]
             saw == q.seen \cup {what}
             z == [q EXCEPT !.seen = saw, !.revision = n, !.releases = found]
  <2>1. q \in Reading /\ saw \in SUBSET {"REVISIONS", "RELEASES"}
    BY <1>1 DEF Reading
  <2>2. Reads(r, what, n, found) = [runs EXCEPT ![r] = z]
    BY <1>1 DEF Reads
  <2> HIDE DEF q, saw
  <2>3. z \in Reading
    BY <2>1 DEF Reading
  <2> HIDE DEF z
  <2> QED
    BY <1>1, <2>2, <2>3
<1>2. ASSUME NEW r \in Runs, NEW e \in Entries, NEW p \in Periods, StartRun(r, e, p)
      PROVE  runs' \in [Runs -> Reading] /\ paid' \subseteq Payment
  BY <1>1, <1>2 DEF StartRun, NoReading, Reading
<1>3. ASSUME NEW r \in Runs, ReadRevision(r)
      PROVE  runs' \in [Runs -> Reading] /\ paid' \subseteq Payment
  <2>1. runs[r].entry \in Entries
    BY <1>3 DEF IInv, RunsOK, RunFits, ReadRevision
  <2>2. /\ runs' = Reads(r, "REVISIONS", Current(runs[r].entry), runs[r].releases)
        /\ Current(runs[r].entry) \in Nat /\ runs[r].releases \in SUBSET Release
        /\ UNCHANGED paid
    BY <1>1, <1>3, <2>1 DEF ReadRevision, Reading
  <2> QED
    BY <1>1, <1>1a, <2>2
<1>4. ASSUME NEW r \in Runs, ReadReleases(r)
      PROVE  runs' \in [Runs -> Reading] /\ paid' \subseteq Payment
  <2> DEFINE found == {x \in releases : x.entry = runs[r].entry /\ x.period = runs[r].period}
  <2>1. found \in SUBSET Release
    BY <1>1
  <2>2. /\ runs' = Reads(r, "RELEASES", runs[r].revision, found) /\ UNCHANGED paid
        /\ runs[r].revision \in Nat
    BY <1>1, <1>4 DEF ReadReleases, Reading
  <2> HIDE DEF found
  <2> QED
    BY <1>1, <1>1a, <2>1, <2>2
<1>5. ASSUME NEW r \in Runs, EndRun(r)
      PROVE  runs' \in [Runs -> Reading] /\ paid' \subseteq Payment
  <2>1. /\ runs[r].entry \in Entries /\ runs[r].period \in Periods /\ runs[r].content \in Contents
        /\ runs[r].revision \in Nat /\ runs[r].read \in Nat
    <3>1. runs[r].step # "IDLE"
      BY <1>5 DEF IInv, RunsOK, RunFits, EndRun
    <3> QED
      BY <1>1, <3>1 DEF IInv, RunsOK, RunFits, Reading
  <2>2. Paid(runs[r]) \subseteq Payment
    BY <2>1 DEF Paid, Payment
  <2>3. NoReading \in Reading
    BY DEF NoReading, Reading
  <2> QED
    BY <1>1, <1>5, <2>2, <2>3 DEF EndRun
<1>6. ASSUME NEW r \in Runs, Calculate(r)
      PROVE  runs' \in [Runs -> Reading] /\ paid' \subseteq Payment
  BY <1>2, <1>3, <1>4, <1>5, <1>6 DEF Calculate
<1>7. CASE ~\E r \in Runs : Calculate(r)
  BY <1>1, <1>7 DEF Next, Write, AdmitCreate, CommitCreate, ReadToVoid, AdmitVoid, CommitVoid,
     GiveUp, Correct, ReleaseForPayroll, Review, List, Show, Approve, AdmitApproval, CommitApproval,
     DropApproval, Close, MapAnew
<1> QED
  BY <1>6, <1>7

\* The approval that a step adds, and the release that a step adds.
LEMMA ApprovalStep ==
    ASSUME IInv, Next, approvals' # approvals
    PROVE  \E a \in Admins, p \in Periods, n \in Nat :
              /\ approvals' = approvals \cup {Signed(a, n, p)}
              /\ screens[a].entry \in Entries /\ Exists(screens[a].entry)
              /\ screens[a].revision = Current(screens[a].entry)
              /\ screens[a].step \in {"SHOWN", "APPROVING"}
              /\ \/ n = Current(screens[a].entry) /\ UNCHANGED revisions
                 \/ /\ n = Current(screens[a].entry) + 1
                    /\ Writes(screens[a].entry, "EDIT", entries[screens[a].entry].content)
<1>1. \/ \E a \in Admins, p \in Periods : Approve(a, p)
      \/ \E a \in Admins : CommitApproval(a)
  BY DEF Next, Write, AdmitCreate, CommitCreate, ReadToVoid, AdmitVoid, CommitVoid, GiveUp, Correct,
     ReleaseForPayroll, Review, List, Show, AdmitApproval, DropApproval, Calculate, StartRun,
     ReadRevision, ReadReleases, EndRun, Close, MapAnew
<1>2. ASSUME NEW a \in Admins, NEW p \in Periods, Approve(a, p)
      PROVE  /\ screens[a].entry \in Entries /\ Exists(screens[a].entry)
             /\ Current(screens[a].entry) \in Nat
             /\ screens[a].revision = Current(screens[a].entry)
             /\ screens[a].step \in {"SHOWN", "APPROVING"}
             /\ approvals' = approvals \cup {Signed(a, Current(screens[a].entry), p)}
             /\ UNCHANGED revisions
  <2>1. screens[a].step = "SHOWN" /\ entries[screens[a].entry].status = "APPROVED"
    BY <1>2 DEF Approve, Approvable
  <2>2. screens[a].entry \in Entries
    BY <2>1 DEF IInv, ScreensOK, ScreenFits
  <2>3. Current(screens[a].entry) \in Nat
    BY <2>2 DEF IInv, TypeOK, Current
  <2> QED
    BY <1>2, <2>1, <2>2, <2>3 DEF Approve, Approvable, Exists
<1>3. ASSUME NEW a \in Admins, CommitApproval(a)
      PROVE  /\ screens[a].entry \in Entries /\ Exists(screens[a].entry)
             /\ Current(screens[a].entry) \in Nat /\ screens[a].period \in Periods
             /\ screens[a].revision = Current(screens[a].entry)
             /\ screens[a].step \in {"SHOWN", "APPROVING"}
             /\ approvals' = approvals
                   \cup {Signed(a, Current(screens[a].entry) + 1, screens[a].period)}
             /\ Writes(screens[a].entry, "EDIT", entries[screens[a].entry].content)
  <2>1. Current(screens[a].entry) \in Nat
    BY <1>3, Signing DEF IInv, TypeOK, Current
  <2>2. Writes(screens[a].entry, "EDIT", entries[screens[a].entry].content)
    BY <1>3, Signing, Writing DEF IInv, Writes
  <2> QED
    BY <1>3, <2>1, <2>2, Signing DEF CommitApproval
<1>4. CASE \E a \in Admins, p \in Periods : Approve(a, p)
  BY <1>2, <1>4
<1>5. CASE \E a \in Admins : CommitApproval(a)
  <2>1. PICK a \in Admins : CommitApproval(a)
    BY <1>5
  <2>2. Current(screens[a].entry) + 1 \in Nat
    BY <1>3, <2>1
  <2> QED
    BY <1>3, <2>1, <2>2
<1> QED
  BY <1>1, <1>4, <1>5

LEMMA ReleaseStep ==
    ASSUME IInv, Next, releases' # releases
    PROVE  \E e \in Entries, p \in Periods : ReleaseForPayroll(e, p)
BY DEF Next, Write, AdmitCreate, CommitCreate, ReadToVoid, AdmitVoid, CommitVoid, GiveUp, Correct,
   Review, List, Show, Approve, AdmitApproval, CommitApproval, DropApproval, Calculate, StartRun,
   ReadRevision, ReadReleases, EndRun, Close, MapAnew

LEMMA TypeKept == ASSUME IInv, Next PROVE TypeOK'
<1>1. closed' \in BOOLEAN
  BY DEF IInv, TypeOK, Next, Write, AdmitCreate, CommitCreate, ReadToVoid, AdmitVoid, CommitVoid,
     GiveUp, Correct, ReleaseForPayroll, Review, List, Show, Approve, AdmitApproval, CommitApproval,
     DropApproval, Calculate, StartRun, ReadRevision, ReadReleases, EndRun, Close, MapAnew
<1>2. mapping' \in [Administrations -> Nat]
  <2>1. ASSUME NEW m \in Administrations, MapAnew(m) PROVE mapping' \in [Administrations -> Nat]
    BY <2>1 DEF IInv, TypeOK, MapAnew
  <2>2. CASE ~\E m \in Administrations : MapAnew(m)
    BY <2>2 DEF IInv, TypeOK, Next, Write, AdmitCreate, CommitCreate, ReadToVoid, AdmitVoid,
       CommitVoid, GiveUp, Correct, ReleaseForPayroll, Review, List, Show, Approve, AdmitApproval,
       CommitApproval, DropApproval, Calculate, StartRun, ReadRevision, ReadReleases, EndRun, Close
  <2> QED
    BY <2>1, <2>2
<1>3. approvals' \subseteq Approval
  <2>1. CASE approvals' # approvals
    <3>1. PICK a \in Admins, p \in Periods, n \in Nat :
             /\ approvals' = approvals \cup {Signed(a, n, p)}
             /\ screens[a].entry \in Entries /\ Exists(screens[a].entry)
             /\ screens[a].step \in {"SHOWN", "APPROVING"}
      BY <2>1, ApprovalStep
    <3>2. /\ screens[a].revision \in Nat /\ screens[a].listed \in Nat
          /\ screens[a].content \in Contents /\ entries[screens[a].entry].content \in Contents
      BY <3>1, RowHasContent DEF IInv, TypeOK, Screen, ScreensOK, ScreenFits
    <3> QED
      BY <3>1, <3>2 DEF Signed, Approval, IInv, TypeOK
  <2> QED
    BY <2>1 DEF IInv, TypeOK
<1>4. releases' \subseteq Release
  <2>1. ASSUME NEW e \in Entries, NEW p \in Periods, ReleaseForPayroll(e, p)
        PROVE  releases' \subseteq Release
    <3>1. Current(e) \in Nat /\ ClassOf(e) \in {"INITIAL", "TWK_REQUIRED"}
      BY DEF IInv, TypeOK, Current, ClassOf
    <3>2. Of(e) \in Administrations
      BY <2>1, RowHasContent, AdministrationAssumption DEF ReleaseForPayroll, Exists, Of
    <3>3. mapping[Of(e)] \in Nat
      BY <3>2 DEF IInv, TypeOK
    <3> QED
      BY <2>1, <3>1, <3>3 DEF ReleaseForPayroll, Release, IInv, TypeOK
  <2> QED
    BY <2>1, ReleaseStep DEF IInv, TypeOK
<1> QED
  BY <1>1, <1>2, <1>3, <1>4, EntriesTyped, WritersTyped, ScreensTyped, RunsTyped DEF TypeOK

LEMMA HistoryKept == ASSUME IInv, Next PROVE HistoryOK'
<1>1. CASE UNCHANGED <<entries, revisions>>
  BY <1>1 DEF IInv, HistoryOK
<1> QED
  BY <1>1, Steps DEF Writes

\* A request stays fit while another one writes, unless that one creates its entry.
LEMMA WriterStays ==
    ASSUME IInv, Next, NEW v \in Writers,
           \A w \in Writers : CommitCreate(w) => writers[v].entry # writers[w].entry
    PROVE  WriterFits(writers[v], entries')
<1>1. WriterFits(writers[v], entries)
  BY DEF IInv, WritersOK
<1>2. \A e \in Entries : Exists(e) => entries'[e].status # "NONE"
  BY Steps DEF Exists, Writes
<1>3. ASSUME NEW e \in Entries, ~Exists(e), entries'[e].status # "NONE"
      PROVE  \E w \in Writers : CommitCreate(w) /\ writers[w].entry = e
  <2>1. ASSUME NEW w \in Writers, CommitVoid(w), Writes(writers[w].entry, "VOID", writers[w].content)
        PROVE  FALSE
    BY <1>3, <2>1, Voided DEF Writes, Exists
  <2>2. ASSUME NEW f \in Entries, NEW c \in Contents, Correct(f, c), Writes(f, "CORRECTION", c)
        PROVE  FALSE
    BY <1>3, <2>2 DEF Writes, Exists, Correct
  <2>3. ASSUME NEW a \in Admins, CommitApproval(a),
               Writes(screens[a].entry, "EDIT", entries[screens[a].entry].content)
        PROVE  FALSE
    BY <1>3, <2>3, Signing DEF Writes, Exists
  <2>4. ~UNCHANGED <<entries, revisions>>
    BY <1>3 DEF Exists
  <2>5. PICK w \in Writers :
           CommitCreate(w) /\ Writes(writers[w].entry, "CREATE", writers[w].content)
    BY <2>1, <2>2, <2>3, <2>4, Steps
  <2> QED
    BY <1>3, <2>5 DEF Writes, Exists
<1> QED
  BY <1>1, <1>2, <1>3 DEF WriterFits, Exists

LEMMA WritersKept == ASSUME IInv, Next PROVE WritersOK'
<1>1. /\ \A w \in Writers : WriterFits(writers[w], entries)
      /\ \A v, w \in Writers :
            writers[w].status # "NONE" /\ writers[v].entry = writers[w].entry => v = w
      /\ writers \in [Writers -> Writer]
  BY DEF IInv, WritersOK, TypeOK
<1>2. ASSUME NEW w \in Writers, writers' = [writers EXCEPT ![w] = NoWriter],
             \A v \in Writers : CommitCreate(v) => v = w
      PROVE  WritersOK'
  <2>1. \A v \in Writers : writers'[v] = IF v = w THEN NoWriter ELSE writers[v]
    BY <1>1, <1>2
  <2>2. WriterFits(NoWriter, entries')
    BY DEF WriterFits, NoWriter
  <2>3. ASSUME NEW v \in Writers, v # w PROVE WriterFits(writers[v], entries')
    <3>1. ASSUME CommitCreate(w) PROVE writers[v].entry # writers[w].entry
      BY <1>1, <2>3, <3>1 DEF CommitCreate
    <3> QED
      BY <1>2, <2>3, <3>1, WriterStays
  <2>4. \A u, v \in Writers :
           writers'[v].status # "NONE" /\ writers'[u].entry = writers'[v].entry => u = v
    <3>1. NoWriter.status = "NONE" /\ NoWriter.entry = NoEntry
      BY DEF NoWriter
    <3>2. \A v \in Writers : writers[v].status # "NONE" => writers[v].entry # NoEntry
      BY <1>1, AbsentAssumption DEF WriterFits, Writer
    <3> QED
      BY <1>1, <2>1, <3>1, <3>2
  <2> QED
    BY <2>1, <2>2, <2>3, <2>4 DEF WritersOK
<1>3. ASSUME NEW w \in Writers, CommitCreate(w) \/ CommitVoid(w) \/ GiveUp(w) PROVE WritersOK'
  <2>1. writers' = [writers EXCEPT ![w] = NoWriter]
    BY <1>3 DEF CommitCreate, CommitVoid, GiveUp
  <2>2. writers[w].step # "IDLE"
    BY <1>3 DEF CommitCreate, CommitVoid, GiveUp
  <2>3. \A v \in Writers : CommitCreate(v) => v = w
    <3> SUFFICES ASSUME NEW v \in Writers, CommitCreate(v), v # w PROVE FALSE
      OBVIOUS
    <3>1. writers'[w] = writers[w]
      BY <1>1 DEF CommitCreate
    <3> QED
      BY <1>1, <2>1, <2>2, <3>1 DEF NoWriter
  <2> QED
    BY <1>2, <2>1, <2>3
<1>4. ASSUME NEW w \in Writers, NEW q \in Writer, writers' = [writers EXCEPT ![w] = q],
             UNCHANGED entries, WriterFits(q, entries), q.entry \in Entries,
             \A v \in Writers \ {w} :
                (q.status # "NONE" \/ writers[v].status # "NONE") => writers[v].entry # q.entry
      PROVE  WritersOK'
  <2>1. \A v \in Writers : writers'[v] = IF v = w THEN q ELSE writers[v]
    BY <1>1, <1>4
  <2> QED
    BY <1>1, <1>4, <2>1 DEF WritersOK
<1>5. ASSUME NEW w \in Writers, NEW e \in Entries, NEW c \in Contents,
             NEW status \in {"APPROVED", "PENDING"}, AdmitCreate(w, e, c, status)
      PROVE  WritersOK'
  <2> DEFINE q == [step |-> "ADMITTED", entry |-> e, content |-> c, status |-> status]
  <2>1. q \in Writer /\ WriterFits(q, entries) /\ q.entry = e
    BY <1>5 DEF AdmitCreate, Writer, WriterFits, Exists
  <2>2. writers' = [writers EXCEPT ![w] = q] /\ UNCHANGED entries
    BY <1>5 DEF AdmitCreate, Asks
  <2>3. \A v \in Writers : writers[v].entry # e
    BY <1>5 DEF AdmitCreate, Taken
  <2> HIDE DEF q
  <2> QED
    BY <1>4, <2>1, <2>2, <2>3
<1>6. ASSUME NEW w \in Writers, NEW e \in Entries, ReadToVoid(w, e) PROVE WritersOK'
  <2> DEFINE q == [step |-> "READ", entry |-> e, content |-> entries[e].content, status |-> "NONE"]
  <2>1. q \in Writer /\ WriterFits(q, entries) /\ q.entry = e /\ q.status = "NONE"
    <3>1. entries[e].content \in Contents
      BY <1>6, RowHasContent DEF ReadToVoid, Exists
    <3> QED
      BY <1>6, <3>1 DEF ReadToVoid, Writer, WriterFits
  <2>2. writers' = [writers EXCEPT ![w] = q] /\ UNCHANGED entries
    BY <1>6 DEF ReadToVoid, Asks
  <2>3. \A v \in Writers : writers[v].status # "NONE" => writers[v].entry # e
    BY <1>1, <1>6 DEF ReadToVoid, WriterFits
  <2> HIDE DEF q
  <2> QED
    BY <1>4, <2>1, <2>2, <2>3
<1>7. ASSUME NEW w \in Writers, AdmitVoid(w) PROVE WritersOK'
  <2> DEFINE q == [step |-> "ADMITTED", entry |-> writers[w].entry,
                   content |-> writers[w].content, status |-> "NONE"]
  <2>2. writers[w].entry \in Entries /\ writers[w].content \in Contents
    BY <1>1, <1>7 DEF AdmitVoid, WriterFits
  <2>3. writers[w].status = "NONE"
    BY <1>1, <1>7 DEF AdmitVoid, WriterFits
  <2>4. q \in Writer /\ WriterFits(q, entries) /\ q.entry = writers[w].entry /\ q.status = "NONE"
    BY <1>1, <1>7, <2>2, <2>3 DEF AdmitVoid, Writer, WriterFits
  <2>5. writers' = [writers EXCEPT ![w] = q] /\ UNCHANGED entries
    BY <1>7 DEF AdmitVoid, Asks
  <2>6. \A v \in Writers \ {w} :
           writers[v].status # "NONE" => writers[v].entry # writers[w].entry
    BY <1>1
  <2> HIDE DEF q
  <2>7. \A v \in Writers \ {w} :
           (q.status # "NONE" \/ writers[v].status # "NONE") => writers[v].entry # q.entry
    BY <2>4, <2>6
  <2> QED
    BY <1>4, <2>2, <2>4, <2>5, <2>7
<1>8. CASE \E w \in Writers : Write(w)
  BY <1>3, <1>5, <1>6, <1>7, <1>8 DEF Write
<1>9. CASE ~\E w \in Writers : Write(w)
  <2>1. UNCHANGED writers
    BY <1>9 DEF Next, Correct, ReleaseForPayroll, Review, List, Show, Approve, AdmitApproval,
       CommitApproval, DropApproval, Calculate, StartRun, ReadRevision, ReadReleases, EndRun, Close,
       MapAnew
  <2>2. \A v \in Writers : WriterFits(writers[v], entries')
    BY <1>9, WriterStays DEF Write
  <2> QED
    BY <1>1, <2>1, <2>2 DEF WritersOK
<1> QED
  BY <1>8, <1>9

-----------------------------------------------------------------------------
\* What is true of revisions that exist stays true.
LEMMA HistoriesGrow ==
    ASSUME IInv, Next, NEW e \in Entries
    PROVE  /\ revisions[e] \in Seq(Revision) /\ revisions'[e] \in Seq(Revision)
           /\ Len(revisions[e]) \in Nat /\ Len(revisions'[e]) \in Nat
           /\ Continues(revisions[e], revisions'[e])
<1>1. revisions[e] \in Seq(Revision) /\ revisions'[e] \in Seq(Revision)
  BY EntriesTyped DEF IInv, TypeOK
<1> QED
  BY <1>1, AllGrows DEF Grows

\* An entry that an approval has locked is not written by anyone else.
LEMMA ScreenStays ==
    ASSUME IInv, Next, NEW b \in Admins, ~CommitApproval(b)
    PROVE  ScreenFits(screens[b], revisions')
<1>1. ScreenFits(screens[b], revisions)
  BY DEF IInv, ScreensOK
<1>2. \A e \in Entries : /\ Len(revisions[e]) \in Nat /\ Len(revisions'[e]) \in Nat
                         /\ Len(revisions[e]) <= Len(revisions'[e])
  <2>1. \A e \in Entries : Len(revisions[e]) \in Nat
    BY DEF IInv, TypeOK
  <2>2. \A e \in Entries : Len(revisions'[e]) \in Nat
    BY EntriesTyped
  <2> QED
    BY <2>1, <2>2, AllGrows DEF Grows, Continues
<1>3. ASSUME screens[b].step = "APPROVING"
      PROVE  revisions'[screens[b].entry] = revisions[screens[b].entry]
  <2> DEFINE e == screens[b].entry
  <2>1. e \in Entries /\ Exists(e) /\ Locked(e)
    <3>1. e \in Entries /\ Locked(e) /\ screens[b].listed \in 1..Len(revisions[e])
      BY <1>1, <1>3 DEF ScreenFits, Locked, At
    <3>2. Len(revisions[e]) # 0
      BY <1>2, <3>1
    <3> QED
      BY <3>1, <3>2 DEF IInv, HistoryOK, RowFits, Exists
  <2>2. ASSUME NEW w \in Writers, CommitCreate(w) PROVE writers[w].entry # e
    BY <2>1, <2>2, Created
  <2>3. ASSUME NEW w \in Writers, CommitVoid(w) PROVE writers[w].entry # e
    BY <2>1, <2>3 DEF CommitVoid
  <2>4. ASSUME NEW f \in Entries, NEW c \in Contents, Correct(f, c) PROVE f # e
    BY <2>1, <2>4 DEF Correct
  <2>5. ASSUME NEW a \in Admins, CommitApproval(a) PROVE screens[a].entry # e
    <3>1. screens[a].entry = e => a = b
      BY <1>3, <2>5 DEF IInv, ScreensOK, CommitApproval
    <3> QED
      BY <2>5, <3>1
  <2> HIDE DEF e
  <2> QED
    BY <2>1, <2>2, <2>3, <2>4, <2>5, Steps DEF Writes, e
<1>4. CASE screens[b].step = "EMPTY"
  BY <1>1, <1>4 DEF ScreenFits
<1>5. CASE screens[b].step # "EMPTY"
  <2>1. screens[b].entry \in Entries /\ screens[b].revision \in Nat
    BY <1>1, <1>5 DEF ScreenFits, IInv, TypeOK, Screen
  <2>2. At(revisions'[screens[b].entry], screens[b].listed, screens[b].content)
    BY <1>1, <1>5, <2>1, HistoriesGrow, AtLater DEF ScreenFits
  <2> QED
    BY <1>1, <1>2, <1>3, <1>5, <2>1, <2>2 DEF ScreenFits
<1> QED
  BY <1>4, <1>5

LEMMA ScreensKept == ASSUME IInv, Next PROVE ScreensOK'
<1>1. /\ screens \in [Admins -> Screen]
      /\ \A a \in Admins : ScreenFits(screens[a], revisions)
      /\ \A a, b \in Admins :
            (/\ screens[a].step = "APPROVING" /\ screens[b].step = "APPROVING"
             /\ screens[a].entry = screens[b].entry) => a = b
  BY DEF IInv, ScreensOK, TypeOK
<1>2. ASSUME NEW a \in Admins, NEW q \in Screen, screens' = [screens EXCEPT ![a] = q],
             ScreenFits(q, revisions'), \A b \in Admins : CommitApproval(b) => b = a,
             q.step = "APPROVING" =>
                \A b \in Admins \ {a} : ~(screens[b].step = "APPROVING" /\ screens[b].entry = q.entry)
      PROVE  ScreensOK'
  <2>1. \A b \in Admins : screens'[b] = IF b = a THEN q ELSE screens[b]
    BY <1>1, <1>2
  <2>2. \A b \in Admins : ScreenFits(screens'[b], revisions')
    BY <1>2, <2>1, ScreenStays
  <2>3. \A b, d \in Admins :
            (/\ screens'[b].step = "APPROVING" /\ screens'[d].step = "APPROVING"
             /\ screens'[b].entry = screens'[d].entry) => b = d
    BY <1>1, <1>2, <2>1
  <2> QED
    BY <2>2, <2>3 DEF ScreensOK
<1>3. \A e \in Entries : Current(e) \in Nat /\ Len(revisions[e]) = Current(e)
  BY DEF IInv, TypeOK, Current
<1>4. ASSUME NEW a \in Admins, NEW e \in Entries, List(a, e) PROVE ScreensOK'
  <2> DEFINE q == [NoScreen EXCEPT !.step = "LISTED", !.entry = e,
                      !.content = entries[e].content, !.listed = Current(e)]
  <2>1. /\ screens' = [screens EXCEPT ![a] = q] /\ UNCHANGED revisions
        /\ screens[a].step # "APPROVING" /\ Exists(e)
    BY <1>4 DEF List, Exists
  <2>2. q \in Screen /\ ScreenFits(q, revisions) /\ q.step # "APPROVING"
    <3>1. /\ q.step = "LISTED" /\ q.entry = e /\ q.content = entries[e].content
          /\ q.listed = Current(e) /\ q.revision = 0 /\ q.period = NoPeriod
      BY DEF NoScreen
    <3>2. q \in Screen
      BY <1>3, <2>1, RowHasContent DEF NoScreen, Screen
    <3> HIDE DEF q
    <3> QED
      BY <1>3, <2>1, <3>1, <3>2, RowHasContent DEF ScreenFits, At
  <2>3. \A b \in Admins : ~CommitApproval(b) \/ b = a
    <3> SUFFICES ASSUME NEW b \in Admins, CommitApproval(b), b # a PROVE FALSE
      OBVIOUS
    <3>1. screens'[b] = screens[b]
      BY <1>1, <2>1
    <3>2. screens'[b].step = "SHOWN"
      BY <1>1 DEF CommitApproval, Turns
    <3> QED
      BY <3>1, <3>2 DEF CommitApproval
  <2> HIDE DEF q
  <2> QED
    BY <1>2, <2>1, <2>2, <2>3
<1>5. ASSUME NEW a \in Admins, NEW step \in {"SHOWN", "APPROVING"}, NEW n \in Nat,
             NEW p \in Periods \cup {NoPeriod}, screens' = Turns(a, step, n, p),
             screens[a].step # "EMPTY", n <= Len(revisions'[screens[a].entry]),
             screens[a].listed <= n,
             step = "APPROVING" => /\ n = Len(revisions'[screens[a].entry]) /\ p \in Periods
                                   /\ ~Locked(screens[a].entry),
             \A b \in Admins : CommitApproval(b) => b = a
      PROVE  ScreensOK'
  <2> DEFINE q == [screens[a] EXCEPT !.step = step, !.revision = n, !.period = p]
  <2>1. screens' = [screens EXCEPT ![a] = q]
    BY <1>1, <1>5 DEF Turns
  <2>2. q \in Screen /\ ScreenFits(q, revisions') /\ q.step = step /\ q.entry = screens[a].entry
    <3>1. /\ q \in Screen /\ q.step = step /\ q.revision = n /\ q.period = p
          /\ q.entry = screens[a].entry /\ q.content = screens[a].content
          /\ q.listed = screens[a].listed
      BY <1>1, <1>5 DEF Screen
    <3>2. /\ screens[a].entry \in Entries /\ screens[a].content \in Contents
          /\ At(revisions[screens[a].entry], screens[a].listed, screens[a].content)
      BY <1>1, <1>5 DEF ScreenFits
    <3>3. At(revisions'[screens[a].entry], screens[a].listed, screens[a].content)
      BY <3>2, HistoriesGrow, AtLater
    <3> HIDE DEF q
    <3> QED
      BY <1>5, <3>1, <3>2, <3>3 DEF ScreenFits
  <2>3. q.step = "APPROVING" =>
           \A b \in Admins \ {a} : ~(screens[b].step = "APPROVING" /\ screens[b].entry = q.entry)
    BY <1>5 DEF Locked
  <2> HIDE DEF q
  <2> QED
    BY <1>2, <1>5, <2>1, <2>2, <2>3
<1>6. ASSUME NEW a \in Admins, Show(a) \/ DropApproval(a) PROVE ScreensOK'
  <2>1. screens[a].step # "EMPTY" /\ UNCHANGED revisions /\ UNCHANGED approvals
    BY <1>6 DEF Show, DropApproval
  <2>2. /\ screens[a].entry \in Entries /\ screens[a].revision \in Nat
        /\ screens[a].revision <= Len(revisions[screens[a].entry])
        /\ screens[a].listed <= Len(revisions[screens[a].entry])
        /\ screens[a].step = "APPROVING" => screens[a].listed <= screens[a].revision
    BY <1>1, <1>3, <2>1 DEF ScreenFits, Screen, At
  <2>3. ASSUME NEW b \in Admins, CommitApproval(b) PROVE b = a
    <3>1. Current(screens[b].entry) \in Nat /\ revisions'[screens[b].entry] # revisions[screens[b].entry]
      BY <2>3, Signing, Writing, <1>3 DEF IInv, Writes, Current
    <3> QED
      BY <2>1, <3>1
  <2>4. CASE Show(a)
    BY <1>3, <1>5, <2>1, <2>2, <2>3, <2>4 DEF Show, Current
  <2>5. CASE DropApproval(a)
    BY <1>5, <2>1, <2>2, <2>3, <2>5 DEF DropApproval
  <2> QED
    BY <1>6, <2>4, <2>5
<1>7. ASSUME NEW a \in Admins, NEW p \in Periods, AdmitApproval(a, p) PROVE ScreensOK'
  <2>1. /\ screens[a].step # "EMPTY" /\ UNCHANGED revisions /\ ~Locked(screens[a].entry)
        /\ screens[a].revision = Current(screens[a].entry)
        /\ screens' = Turns(a, "APPROVING", screens[a].revision, p)
    BY <1>7 DEF AdmitApproval, Approvable
  <2>2. /\ screens[a].entry \in Entries /\ screens[a].revision \in Nat
        /\ screens[a].listed <= screens[a].revision
    BY <1>1, <1>7 DEF ScreenFits, Screen, AdmitApproval, Approvable
  <2>3. ASSUME NEW b \in Admins, CommitApproval(b) PROVE b = a
    <3>1. Current(screens[b].entry) \in Nat /\ revisions'[screens[b].entry] # revisions[screens[b].entry]
      BY <2>3, Signing, Writing, <1>3 DEF IInv, Writes, Current
    <3> QED
      BY <2>1, <3>1
  <2> QED
    BY <1>3, <1>5, <2>1, <2>2, <2>3 DEF Current
<1>8. ASSUME NEW a \in Admins, CommitApproval(a) PROVE ScreensOK'
  <2>1. /\ screens[a].entry \in Entries /\ screens[a].revision = Current(screens[a].entry)
        /\ Len(revisions'[screens[a].entry]) = Len(revisions[screens[a].entry]) + 1
    BY <1>8, Signing, Writing DEF IInv
  <2>2. screens[a].step = "APPROVING" /\ screens' = Turns(a, "SHOWN", screens[a].revision, NoPeriod)
    BY <1>8 DEF CommitApproval
  <2>3. ASSUME NEW b \in Admins, CommitApproval(b) PROVE b = a
    <3>1. b # a => screens'[b] = screens[b]
      BY <1>1, <2>2 DEF Turns
    <3>2. screens'[b].step = "SHOWN" /\ screens[b].step = "APPROVING"
      BY <1>1, <2>3 DEF CommitApproval, Turns
    <3> QED
      BY <3>1, <3>2
  <2>4. screens[a].listed <= screens[a].revision
    BY <1>1, <2>2 DEF ScreenFits
  <2> QED
    BY <1>3, <1>5, <2>1, <2>2, <2>3, <2>4
<1>9. CASE \E a \in Admins : Review(a) /\ ~(\E p \in Periods : Approve(a, p))
  BY <1>4, <1>6, <1>7, <1>8, <1>9 DEF Review
<1>10. CASE ~\E a \in Admins : Review(a) /\ ~(\E p \in Periods : Approve(a, p))
  <2>1. UNCHANGED screens
    BY <1>10 DEF Next, Write, AdmitCreate, CommitCreate, ReadToVoid, AdmitVoid, CommitVoid, GiveUp,
       Correct, ReleaseForPayroll, Review, Approve, Calculate, StartRun, ReadRevision, ReadReleases,
       EndRun, Close, MapAnew
  <2>2. \A b \in Admins : ~CommitApproval(b)
    <3> SUFFICES ASSUME NEW b \in Admins, CommitApproval(b) PROVE FALSE
      OBVIOUS
    <3>1. screens'[b].step = "SHOWN" /\ screens[b].step = "APPROVING"
      BY <1>1 DEF CommitApproval, Turns
    <3> QED
      BY <2>1, <3>1
  <2>3. \A b \in Admins : ScreenFits(screens[b], revisions')
    BY <2>2, ScreenStays
  <2> QED
    BY <1>1, <2>1, <2>3 DEF ScreensOK
<1> QED
  BY <1>9, <1>10

-----------------------------------------------------------------------------
LEMMA ApprovalsKept == ASSUME IInv, Next PROVE ApprovalsOK'
<1>1. ASSUME NEW x \in approvals PROVE ApprovalFits(x, revisions')
  <2>1. x.entry \in Entries /\ ApprovalFits(x, revisions)
    BY DEF IInv, TypeOK, Approval, ApprovalsOK
  <2> QED
    BY <2>1, HistoriesGrow, AtLater DEF ApprovalFits
<1>2. CASE approvals' # approvals
  <2>1. PICK a \in Admins, p \in Periods, n \in Nat :
           /\ approvals' = approvals \cup {Signed(a, n, p)}
           /\ screens[a].entry \in Entries /\ Exists(screens[a].entry)
           /\ screens[a].revision = Current(screens[a].entry)
           /\ screens[a].step \in {"SHOWN", "APPROVING"}
           /\ \/ n = Current(screens[a].entry) /\ UNCHANGED revisions
              \/ /\ n = Current(screens[a].entry) + 1
                 /\ Writes(screens[a].entry, "EDIT", entries[screens[a].entry].content)
    BY <1>2, ApprovalStep
  <2> DEFINE e == screens[a].entry
             c == entries[e].content
             x == Signed(a, n, p)
  <2>2. /\ x.entry = e /\ x.reviewed = Current(e) /\ x.revision = n /\ x.content = c
        /\ x.listed = screens[a].listed /\ x.shown = screens[a].content
    BY <2>1 DEF Signed
  <2>3. /\ Current(e) \in Nat /\ Current(e) > 0 /\ revisions[e][Current(e)].content = c
        /\ Current(e) = Len(revisions[e])
    BY <2>1, RowHasContent DEF Current
  <2>4. Continues(revisions[e], revisions'[e]) /\ Len(revisions'[e]) \in Nat
    BY <2>1, HistoriesGrow
  <2>5. At(revisions'[e], Current(e), c)
    BY <2>3, <2>4 DEF Continues, At
  <2>6. Current(e) <= n /\ At(revisions'[e], n, c)
    <3>1. CASE n = Current(e) /\ UNCHANGED revisions
      BY <2>3, <2>5, <3>1
    <3>2. CASE n = Current(e) + 1 /\ Writes(e, "EDIT", c)
      BY <2>3, <2>4, <3>2 DEF Writes, At
    <3> QED
      BY <2>1, <3>1, <3>2
  <2>6a. /\ At(revisions'[e], screens[a].listed, screens[a].content)
        /\ screens[a].listed <= Current(e)
    <3>1. /\ At(revisions[e], screens[a].listed, screens[a].content)
          /\ screens[a].listed <= screens[a].revision
      BY <2>1 DEF IInv, ScreensOK, ScreenFits
    <3> QED
      BY <2>1, <3>1, HistoriesGrow, AtLater
  <2> HIDE DEF x, e, c
  <2>7. ApprovalFits(x, revisions')
    BY <2>2, <2>5, <2>6, <2>6a DEF ApprovalFits
  <2>8. approvals' = approvals \cup {x}
    BY <2>1 DEF x
  <2> QED
    BY <1>1, <2>7, <2>8 DEF ApprovalsOK
<1> QED
  BY <1>1, <1>2 DEF ApprovalsOK

LEMMA ReleasesKept == ASSUME IInv, Next PROVE ReleasesOK'
<1>1. /\ \A x \in releases : ReleaseFits(x, approvals')
      /\ \A x, y \in releases :
            (/\ x.class = "INITIAL" /\ y.class = "INITIAL" /\ x.entry = y.entry
             /\ AdministrationOf[x.period] = AdministrationOf[y.period]) => x = y
  BY AllGrows DEF IInv, ReleasesOK, ReleaseFits, Grows
<1>2. ASSUME NEW e \in Entries, NEW p \in Periods, ReleaseForPayroll(e, p) PROVE ReleasesOK'
  <2> DEFINE x == [entry |-> e, revision |-> Current(e), period |-> p,
                   mapping |-> mapping[Of(e)], class |-> ClassOf(e)]
  <2>1. releases' = releases \cup {x} /\ UNCHANGED approvals
    BY <1>2 DEF ReleaseForPayroll
  <2>2. ReleaseFits(x, approvals)
    BY <1>2 DEF ReleaseForPayroll, Rests, ReleaseFits
  <2>3. /\ x.entry = e /\ AdministrationOf[x.period] = Of(e)
        /\ x.class = "INITIAL" =>
              \A y \in releases : y.entry # e \/ AdministrationOf[y.period] # Of(e)
    BY <1>2 DEF ReleaseForPayroll, ClassOf
  <2> HIDE DEF x
  <2> QED
    BY <1>1, <2>1, <2>2, <2>3 DEF ReleasesOK
<1> QED
  BY <1>1, <1>2, ReleaseStep DEF ReleasesOK

\* What a calculation has read stays true while it does nothing.
LEMMA RunStays ==
    ASSUME IInv, Next, NEW r \in Runs PROVE RunFits(runs[r], revisions', releases')
<1> DEFINE q == runs[r]
<1>1. RunFits(q, revisions, releases) /\ q.revision \in Nat
  BY DEF IInv, RunsOK, TypeOK, Reading
<1>2. releases \subseteq releases'
  BY AllGrows DEF Grows
<1> HIDE DEF q
<1>3. ASSUME q.step = "IDLE" PROVE RunFits(q, revisions', releases')
  BY <1>1, <1>3 DEF RunFits
<1>4. ASSUME q.step # "IDLE" PROVE RunFits(q, revisions', releases')
  <2>1. q.entry \in Entries
    BY <1>1, <1>4 DEF RunFits
  <2> DEFINE h == revisions[q.entry]
             g == revisions'[q.entry]
  <2>2. h \in Seq(Revision) /\ g \in Seq(Revision) /\ Continues(h, g)
        /\ Len(h) \in Nat /\ Len(g) \in Nat
    BY <2>1, HistoriesGrow
  <2>3. Len(h) <= Len(g)
    BY <2>2 DEF Continues
  <2>4. /\ q.revision <= Len(h) /\ At(h, q.read, q.content)
        /\ "REVISIONS" \in q.seen => q.read <= q.revision
        /\ q.content \in Contents /\ q.period \in Periods
        /\ q.releases \subseteq {x \in releases' : x.entry = q.entry /\ x.period = q.period}
    BY <1>1, <1>2, <1>4 DEF RunFits
  <2> HIDE DEF h, g
  <2>5. q.revision <= Len(g)
    BY <1>1, <2>2, <2>3, <2>4
  <2>6. At(g, q.read, q.content)
    BY <2>2, <2>4, AtLater
  <2> QED
    BY <1>4, <2>1, <2>4, <2>5, <2>6 DEF RunFits, g
<1> QED
  BY <1>3, <1>4 DEF q

LEMMA RunsKept == ASSUME IInv, Next PROVE RunsOK'
<1>1. runs \in [Runs -> Reading] /\ \A r \in Runs : RunFits(runs[r], revisions, releases)
  BY DEF IInv, TypeOK, RunsOK
<1>2. ASSUME NEW r \in Runs, NEW q, runs' = [runs EXCEPT ![r] = q], RunFits(q, revisions', releases')
      PROVE  RunsOK'
  <2>1. \A v \in Runs : runs'[v] = IF v = r THEN q ELSE runs[v]
    BY <1>1, <1>2
  <2> QED
    BY <1>2, <2>1, RunStays DEF RunsOK
<1>3. ASSUME NEW r \in Runs, NEW e \in Entries, NEW p \in Periods, StartRun(r, e, p) PROVE RunsOK'
  <2> DEFINE q == [NoReading EXCEPT !.step = "READING", !.entry = e,
                      !.content = entries[e].content, !.read = Current(e), !.period = p]
  <2>1. runs' = [runs EXCEPT ![r] = q] /\ UNCHANGED <<revisions, releases>>
    BY <1>3 DEF StartRun
  <2>2. /\ entries[e].content \in Contents /\ Current(e) \in Nat /\ Current(e) > 0
        /\ revisions[e][Current(e)].content = entries[e].content
    BY <1>3, RowHasContent DEF StartRun
  <2>3. At(revisions[e], Current(e), entries[e].content)
    BY <2>2 DEF At, Current
  <2>4. RunFits(q, revisions, releases)
    <3>1. /\ q.step = "READING" /\ q.entry = e /\ q.content = entries[e].content
          /\ q.read = Current(e) /\ q.period = p /\ q.seen = {} /\ q.revision = 0
          /\ q.releases = {}
      BY DEF NoReading
    <3> HIDE DEF q
    <3> QED
      BY <2>2, <2>3, <3>1 DEF RunFits, Current
  <2> HIDE DEF q
  <2> QED
    BY <1>2, <2>1, <2>4
<1>4. ASSUME NEW r \in Runs, ReadRevision(r) \/ ReadReleases(r) PROVE RunsOK'
  <2>1. runs[r].step # "IDLE" /\ UNCHANGED <<revisions, releases>>
    BY <1>4 DEF ReadRevision, ReadReleases
  <2>2. RunFits(runs[r], revisions, releases) /\ runs[r].entry \in Entries /\ runs[r].revision \in Nat
    BY <1>1, <2>1 DEF RunFits, Reading
  <2>3. Len(revisions[runs[r].entry]) \in Nat
    BY <2>2 DEF IInv, TypeOK
  <2>4. ASSUME NEW what, NEW n \in Nat, NEW found, runs' = Reads(r, what, n, found),
               found \subseteq {x \in releases : x.entry = runs[r].entry /\ x.period = runs[r].period},
               n <= Len(revisions[runs[r].entry]),
               "REVISIONS" \in runs[r].seen \cup {what} => runs[r].read <= n
        PROVE  RunsOK'
    <3> DEFINE q == [runs[r] EXCEPT !.seen = @ \cup {what}, !.revision = n, !.releases = found]
    <3>1. runs' = [runs EXCEPT ![r] = q]
      BY <1>1, <2>4 DEF Reads
    <3>2. /\ q.step = runs[r].step /\ q.entry = runs[r].entry /\ q.content = runs[r].content
          /\ q.read = runs[r].read /\ q.period = runs[r].period
          /\ q.seen = runs[r].seen \cup {what} /\ q.revision = n /\ q.releases = found
      BY <1>1 DEF Reading
    <3> HIDE DEF q
    <3>3. RunFits(q, revisions, releases)
      BY <2>1, <2>2, <2>4, <3>2 DEF RunFits
    <3> QED
      BY <1>2, <2>1, <3>1, <3>3
  <2>5. CASE ReadRevision(r)
    <3>1. runs' = Reads(r, "REVISIONS", Len(revisions[runs[r].entry]), runs[r].releases)
      BY <2>5 DEF ReadRevision, Current
    <3>2. /\ runs[r].read <= Len(revisions[runs[r].entry])
          /\ runs[r].releases \subseteq
                {x \in releases : x.entry = runs[r].entry /\ x.period = runs[r].period}
      BY <2>1, <2>2, <2>3 DEF RunFits, At
    <3> QED
      BY <2>3, <2>4, <3>1, <3>2
  <2>6. CASE ReadReleases(r)
    <3> DEFINE found == {x \in releases : x.entry = runs[r].entry /\ x.period = runs[r].period}
    <3>1. runs' = Reads(r, "RELEASES", runs[r].revision, found)
      BY <2>6 DEF ReadReleases
    <3>2. "REVISIONS" \in runs[r].seen \cup {"RELEASES"} => runs[r].read <= runs[r].revision
      BY <2>1, <2>2 DEF RunFits
    <3>3. runs[r].revision <= Len(revisions[runs[r].entry])
      BY <2>1, <2>2 DEF RunFits
    <3> QED
      BY <2>2, <2>4, <3>1, <3>2, <3>3
  <2> QED
    BY <1>4, <2>5, <2>6
<1>5. ASSUME NEW r \in Runs, EndRun(r) PROVE RunsOK'
  <2>1. runs' = [runs EXCEPT ![r] = NoReading]
    BY <1>5 DEF EndRun
  <2>2. RunFits(NoReading, revisions', releases')
    BY DEF RunFits, NoReading
  <2> QED
    BY <1>2, <2>1, <2>2
<1>6. CASE \E r \in Runs : Calculate(r)
  BY <1>3, <1>4, <1>5, <1>6 DEF Calculate
<1>7. CASE ~\E r \in Runs : Calculate(r)
  <2>1. UNCHANGED runs
    BY <1>7 DEF Next, Write, AdmitCreate, CommitCreate, ReadToVoid, AdmitVoid, CommitVoid, GiveUp,
       Correct, ReleaseForPayroll, Review, List, Show, Approve, AdmitApproval, CommitApproval,
       DropApproval, Close, MapAnew
  <2> QED
    BY <2>1, RunStays DEF RunsOK
<1> QED
  BY <1>6, <1>7

LEMMA PaidKept == ASSUME IInv, Next PROVE PaidOK'
<1>1. ASSUME NEW x \in paid PROVE PaymentFits(x, revisions', releases')
  <2>1. PaymentFits(x, revisions, releases) /\ x.entry \in Entries
    BY DEF IInv, TypeOK, PaidOK, Payment
  <2>2. At(revisions'[x.entry], x.read, x.content)
    BY <2>1, HistoriesGrow, AtLater DEF PaymentFits
  <2> QED
    BY <2>1, <2>2, AllGrows DEF PaymentFits, Grows
<1>2. ASSUME NEW r \in Runs, EndRun(r) PROVE PaidOK'
  <2>1. UNCHANGED <<revisions, releases>> /\ runs[r].seen = {"REVISIONS", "RELEASES"}
    BY <1>2 DEF EndRun
  <2>2. RunFits(runs[r], revisions, releases)
    BY DEF IInv, RunsOK
  <2>3. runs[r].step # "IDLE"
    BY <2>1, <2>2 DEF RunFits
  <2>4. CASE Payable(runs[r])
    <3> DEFINE q == runs[r]
               x == [entry |-> q.entry, period |-> q.period, read |-> q.read,
                     revision |-> q.revision, content |-> q.content]
    <3>1. paid' = paid \cup {x}
      BY <1>2, <2>4 DEF EndRun, Paid
    <3>2. \E y \in q.releases : y.revision = q.revision /\ y.class = "INITIAL"
      BY <2>4 DEF Payable
    <3>3. /\ q.releases \subseteq {y \in releases : y.entry = q.entry /\ y.period = q.period}
          /\ q.read <= q.revision /\ At(revisions[q.entry], q.read, q.content)
      BY <2>1, <2>2, <2>3 DEF RunFits
    <3>4. PaymentFits(x, revisions, releases)
      BY <3>2, <3>3 DEF PaymentFits
    <3> HIDE DEF x
    <3> QED
      BY <1>1, <2>1, <3>1, <3>4 DEF PaidOK
  <2>5. CASE ~Payable(runs[r])
    BY <1>1, <1>2, <2>5 DEF EndRun, PaidOK
  <2> QED
    BY <2>4, <2>5
<1>3. CASE ~\E r \in Runs : EndRun(r)
  <2>1. UNCHANGED paid
    BY <1>3 DEF Next, Write, AdmitCreate, CommitCreate, ReadToVoid, AdmitVoid, CommitVoid, GiveUp,
       Correct, ReleaseForPayroll, Review, List, Show, Approve, AdmitApproval, CommitApproval,
       DropApproval, Calculate, StartRun, ReadRevision, ReadReleases, Close, MapAnew
  <2> QED
    BY <1>1, <2>1 DEF PaidOK
<1> QED
  BY <1>2, <1>3

-----------------------------------------------------------------------------
LEMMA Kept == IInv /\ [Next]_vars => IInv'
<1> SUFFICES ASSUME IInv, [Next]_vars PROVE IInv'
  OBVIOUS
<1>1. CASE Next
  BY <1>1, TypeKept, HistoryKept, WritersKept, ScreensKept, ApprovalsKept, ReleasesKept, RunsKept,
     PaidKept DEF IInv
<1>2. CASE UNCHANGED vars
  BY <1>2 DEF vars, IInv, TypeOK, HistoryOK, WritersOK, ScreensOK, ApprovalsOK, ReleasesOK, RunsOK,
     PaidOK
<1> QED
  BY <1>1, <1>2

LEMMA Invariance == Spec => []IInv
BY InitInv, Kept, PTL DEF Spec

\* Rows, requests, screens and readings keep their shapes (save_actual_work_entry,
\* the review, the payroll source provider).
THEOREM Typed == Spec => []TypeOK
<1>1. IInv => TypeOK
  BY DEF IInv
<1> QED
  BY <1>1, Invariance, PTL

\* The last revision has the entry's content and only corrections changed it,
\* whatever a void had read before (require_actual_work_correction_audit).
THEOREM RevisionsTellTheEntry == Spec => []HistoryTellsTheEntry
<1>1. IInv => HistoryTellsTheEntry
  <2> SUFFICES ASSUME IInv PROVE HistoryTellsTheEntry
    OBVIOUS
  <2>1. \A e \in Entries : Len(revisions[e]) \in Nat
    BY DEF IInv, TypeOK
  <2> QED
    BY <2>1 DEF IInv, HistoryOK, RowFits, HistoryTellsTheEntry, Current, Exists
<1> QED
  BY <1>1, Invariance, PTL

\* The revision reviewed by number and the revision approved have the content
\* that was approved; what the screen showed is that of an earlier revision, or
\* the same (approve_actual_work_entry_for_payroll_period).
THEOREM ApprovalsMeanTheirRevisions == Spec => []ApprovedAsReviewed
<1>1. IInv => ApprovedAsReviewed
  <2> SUFFICES ASSUME IInv, NEW x \in approvals
               PROVE  /\ x.reviewed \in 1..x.revision /\ x.revision <= Current(x.entry)
                      /\ revisions[x.entry][x.reviewed].content = x.content
                      /\ revisions[x.entry][x.revision].content = x.content
                      /\ x.listed \in 1..x.reviewed
                      /\ revisions[x.entry][x.listed].content = x.shown
                      /\ x.listed = x.reviewed => x.shown = x.content
    BY DEF ApprovedAsReviewed
  <2>1. ApprovalFits(x, revisions) /\ x.entry \in Entries
    BY DEF IInv, ApprovalsOK, TypeOK, Approval
  <2>2. Len(revisions[x.entry]) \in Nat
    BY <2>1 DEF IInv, TypeOK
  <2> QED
    BY <2>1, <2>2 DEF ApprovalFits, At, Current
<1> QED
  BY <1>1, Invariance, PTL

\* No two calculations pay one entry in two periods of an administration, since
\* there the entry has one INITIAL release at most
\* (release_actual_work_entries_for_payroll_period).
THEOREM OnePeriodPays == Spec => []PaidInOnePeriod
<1>1. IInv => PaidInOnePeriod
  <2> SUFFICES ASSUME IInv, NEW x \in paid, NEW y \in paid, x.entry = y.entry,
                      AdministrationOf[x.period] = AdministrationOf[y.period]
               PROVE  x.period = y.period
    BY DEF PaidInOnePeriod
  <2>1. PICK u \in releases : u.entry = x.entry /\ u.period = x.period /\ u.class = "INITIAL"
    BY DEF IInv, PaidOK, PaymentFits
  <2>2. PICK v \in releases : v.entry = y.entry /\ v.period = y.period /\ v.class = "INITIAL"
    BY DEF IInv, PaidOK, PaymentFits
  <2>3. u = v
    BY <2>1, <2>2 DEF IInv, ReleasesOK
  <2> QED
    BY <2>1, <2>2, <2>3
<1> QED
  BY <1>1, Invariance, PTL

\* Payable hours rest on an approval of that revision for that period.  They are
\* what was approved if the entry was read at that revision, and those of an
\* earlier revision otherwise (actualWorkForPeriod).
THEOREM PaymentsRestOnApprovals == Spec => []PaidWasApproved
<1>1. IInv => PaidWasApproved
  <2> SUFFICES ASSUME IInv, NEW x \in paid
               PROVE  /\ x.read \in 1..x.revision
                      /\ revisions[x.entry][x.read].content = x.content
                      /\ \E y \in approvals :
                            /\ y.entry = x.entry /\ y.revision = x.revision
                            /\ y.period = x.period
                            /\ x.read = x.revision => x.content = y.content
    BY DEF PaidWasApproved
  <2>1. /\ PaymentFits(x, revisions, releases)
        /\ x.entry \in Entries /\ x.read \in Nat /\ x.revision \in Nat
    BY DEF IInv, PaidOK, TypeOK, Payment
  <2>2. PICK u \in releases : /\ u.entry = x.entry /\ u.revision = x.revision
                              /\ u.period = x.period
    BY <2>1 DEF PaymentFits
  <2>3. PICK y \in approvals : /\ y.entry = x.entry /\ y.revision = x.revision
                               /\ y.period = x.period
    BY <2>2 DEF IInv, ReleasesOK, ReleaseFits
  <2>4. revisions[x.entry][y.revision].content = y.content
    BY <2>3 DEF IInv, ApprovalsOK, ApprovalFits, At
  <2>5. x.read \in 1..x.revision /\ revisions[x.entry][x.read].content = x.content
    BY <2>1 DEF PaymentFits, At
  <2> QED
    BY <2>3, <2>4, <2>5
<1> QED
  BY <1>1, Invariance, PTL

\* Once the saves that found the month open have ended, only corrections change
\* its entries (close_actual_work_period).
THEOREM ClosedMonthsAreQuiet == Spec => QuietOnceClosed
<1>1. IInv /\ [Next]_vars => [Quiet => Quiet' /\ CorrectedOnly]_vars
  <2> SUFFICES ASSUME IInv, Next, Quiet PROVE Quiet' /\ CorrectedOnly
    BY DEF vars
  <2>1. /\ writers \in [Writers -> Writer] /\ screens \in [Admins -> Screen]
        /\ \A w \in Writers : writers[w].step # "ADMITTED"
        /\ \A a \in Admins : screens[a].step # "APPROVING"
        /\ closed
    BY DEF IInv, TypeOK, Quiet
  <2>2. closed'
    BY <2>1 DEF Next, Write, AdmitCreate, CommitCreate, ReadToVoid, AdmitVoid, CommitVoid, GiveUp,
       Correct, ReleaseForPayroll, Review, List, Show, Approve, AdmitApproval, CommitApproval,
       DropApproval, Calculate, StartRun, ReadRevision, ReadReleases, EndRun, Close, MapAnew
  <2>3. \A w \in Writers : writers'[w].step # "ADMITTED"
    <3>1. ASSUME NEW w \in Writers, NEW e \in Entries, ReadToVoid(w, e)
          PROVE  \A v \in Writers : writers'[v].step # "ADMITTED"
      BY <2>1, <3>1 DEF ReadToVoid, Asks
    <3>2. ASSUME NEW w \in Writers, GiveUp(w)
          PROVE  \A v \in Writers : writers'[v].step # "ADMITTED"
      BY <2>1, <3>2 DEF GiveUp, NoWriter
    <3>3. ASSUME NEW w \in Writers, Write(w)
          PROVE  \A v \in Writers : writers'[v].step # "ADMITTED"
      BY <2>1, <3>1, <3>2, <3>3 DEF Write, AdmitCreate, CommitCreate, AdmitVoid, CommitVoid
    <3>4. CASE ~\E w \in Writers : Write(w)
      BY <2>1, <3>4 DEF Next, Correct, ReleaseForPayroll, Review, List, Show, Approve,
         AdmitApproval, CommitApproval, DropApproval, Calculate, StartRun, ReadRevision,
         ReadReleases, EndRun, Close, MapAnew
    <3> QED
      BY <3>3, <3>4
  <2>4. \A a \in Admins : screens'[a].step # "APPROVING"
    <3>1. ASSUME NEW a \in Admins, NEW e \in Entries, List(a, e)
          PROVE  \A b \in Admins : screens'[b].step # "APPROVING"
      BY <2>1, <3>1 DEF List
    <3>2. ASSUME NEW a \in Admins, Show(a)
          PROVE  \A b \in Admins : screens'[b].step # "APPROVING"
      BY <2>1, <3>2 DEF Show, Turns
    <3>3. ASSUME NEW a \in Admins, Review(a)
          PROVE  \A b \in Admins : screens'[b].step # "APPROVING"
      BY <2>1, <3>1, <3>2, <3>3 DEF Review, Approve, AdmitApproval, CommitApproval, DropApproval
    <3>4. CASE ~\E a \in Admins : Review(a)
      BY <2>1, <3>4 DEF Next, Write, AdmitCreate, CommitCreate, ReadToVoid, AdmitVoid, CommitVoid,
         GiveUp, Correct, ReleaseForPayroll, Calculate, StartRun, ReadRevision, ReadReleases, EndRun,
         Close, MapAnew
    <3> QED
      BY <3>3, <3>4
  <2>5. CorrectedOnly
    <3>1. ASSUME NEW e \in Entries, NEW c \in Contents, Writes(e, "CORRECTION", c)
          PROVE  CorrectedOnly
      BY <3>1 DEF CorrectedOnly, Writes
    <3>2. ~(\E w \in Writers : CommitCreate(w) \/ CommitVoid(w))
          /\ ~(\E a \in Admins : CommitApproval(a))
      BY <2>1 DEF CommitCreate, CommitVoid, CommitApproval
    <3>3. CASE UNCHANGED <<entries, revisions>>
      BY <3>3 DEF CorrectedOnly
    <3> QED
      BY <3>1, <3>2, <3>3, Steps
  <2> QED
    BY <2>2, <2>3, <2>4, <2>5 DEF Quiet
<1> QED
  BY <1>1, Invariance, PTL DEF Spec, QuietOnceClosed
=============================================================================
