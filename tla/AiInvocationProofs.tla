------------------------- MODULE AiInvocationProofs -------------------------
(***************************************************************************)
(* Proofs about AiInvocation for every set of requests, keys, fingerprints  *)
(* and prices, and every legacy row, with and without faults.               *)
(***************************************************************************)
EXTENDS AiInvocation, TLAPS

\* A request drives its key's row from the insert to its answer.
Drives(r) == pc[r] \notin {"lookup", "insert", "done"}

\* The statuses the row may have while its request is at a step.
StatusAt(step) ==
    CASE step = "gates" -> {"RECEIVED"}
      [] step = "month" -> {"AUTHORIZED"}
      [] step \in {"reserve", "refused", "reserved"} -> {"RESERVING"}
      [] step = "load" -> {"CONTEXT_LOADING"}
      [] step \in {"lease", "execute", "executed"} -> {"EXECUTING"}
      [] step = "validate" -> {"VALIDATING"}
      [] step \in {"usage", "settle"} -> {"SETTLING"}
      [] step = "unsettled" -> {"SETTLING", "SUCCEEDED"}
      [] step \in {"settled", "SUCCEEDED"} -> {"SUCCEEDED"}
      [] step = "release" -> {"RELEASING", "FAILED"}
      [] step \in {"released", "FAILED"} -> {"FAILED"}
      [] step = "REJECTED" -> {"REJECTED"}
      [] OTHER -> (Running \cup Terminal)

\* One request at a time drives a row, never a legacy one, and knows its status.
DriverKnowsRow ==
    \A r \in Requests : Drives(r) =>
        /\ KeyOf[r] \notin Legacy
        /\ row[KeyOf[r]].status \in StatusAt(pc[r])
        /\ pc[r] = "reserved" => reservation[KeyOf[r]] = "RESERVED"
        /\ \A q \in Requests : Drives(q) /\ KeyOf[q] = KeyOf[r] => q = r

\* Whoever reads back a transition goes on only where the status allows it.
DoubtIsSafe ==
    \A r \in Requests : pc[r] = "confirm" =>
        /\ doubt[r].next \in {"month", "reserve", "load", "lease", "validate", "usage",
                              "release"} \cup Terminal
        /\ doubt[r].row.status \in StatusAt(doubt[r].next)

\* Where a request can be after a call it gave up.
Beyond(op) ==
    CASE op = "RESERVE" -> {"refused", "REJECTED"}
      [] op = "SETTLE" -> {"unsettled", "release", "released", "FAILED"}
      [] OTHER -> {}

\* A call under way can only meet a row it still fits, or one that refuses it.
LateCallsAreHarmless ==
    \A c \in late :
        /\ c.key \notin Legacy
        /\ row[c.key].status # "ABSENT"
        /\ c.op = "RESERVE" => row[c.key].status \in {"RESERVING", "REJECTED"}
        /\ \A r \in Requests : Drives(r) /\ KeyOf[r] = c.key =>
              \/ pc[r] \in Beyond(c.op)
              \/ pc[r] = "confirm" /\ doubt[r].next \in Beyond(c.op)

\* What the row's own columns say together.
RowIsCoherent ==
    \A k \in Keys :
        /\ row[k].status \in {"SETTLING", "SUCCEEDED"} => row[k].result = "VALIDATED"
        /\ audit[k] # NoAudit => audit[k].status \in Terminal

\* The row of an answered request has reached a status it cannot leave.
AnsweredRow ==
    \A r \in Requests :
        /\ answer[r] \in Terminal => row[KeyOf[r]].status = answer[r]
        /\ answer[r] = "CREDITS_UNAVAILABLE" => row[KeyOf[r]].status \in {"RELEASING", "FAILED"}
        /\ answer[r] \in Terminal \cup {"CREDITS_UNAVAILABLE"} => KeyOf[r] \notin Legacy

\* Before the provider is called for a key, it has not been called for it.
Early == {"ABSENT", "RECEIVED", "AUTHORIZED", "RESERVING", "CONTEXT_LOADING"}

Unexecuted ==
    /\ \A k \in Keys : row[k].status \in Early => executions[k] = 0
    /\ \A r \in Requests :
          (pc[r] \in {"lease", "execute"} \/ (pc[r] = "confirm" /\ doubt[r].next = "lease"))
              => executions[KeyOf[r]] = 0

\* The inductive invariant: what the row, its reservation and its audit say
\* together, and what the requests and the calls under way know of them.
Books == FinanceAgrees /\ AuditTruthful /\ RowIsCoherent
Runs == DriverKnowsRow /\ DoubtIsSafe /\ LateCallsAreHarmless /\ AnsweredRow /\ Unexecuted
IInv == TypeOK /\ Books /\ Runs

-----------------------------------------------------------------------------
(* Types                                                                    *)

Statuses == Running \cup Terminal \cup {"ABSENT"}

\* The ways in which the code writes the columns of a row.
LEMMA RowWrites ==
    ASSUME NEW w \in Row, NEW s \in Statuses, NEW u \in Results, NEW n \in Nat,
           NEW m \in Reasons \cup {"NONE"}, NEW x \in {"PENDING", "RECORDED"}
    PROVE  /\ [w EXCEPT !.status = s] \in Row
           /\ [w EXCEPT !.status = s, !.result = u] \in Row
           /\ [w EXCEPT !.status = s, !.charged = n] \in Row
           /\ [w EXCEPT !.status = s, !.result = u, !.charged = n, !.reason = m] \in Row
           /\ [w EXCEPT !.status = s, !.charged = n, !.auditStatus = x] \in Row
           /\ [w EXCEPT !.status = s, !.charged = n, !.reason = m, !.auditStatus = x] \in Row
           /\ [w EXCEPT !.auditStatus = x] \in Row
  BY Zenon DEF Row, Statuses

LEMMA RestingTypes ==
    /\ AbsentRow \in Row
    /\ NoDoubt \in [row : Row, stamped : BOOLEAN, next : Steps]
    /\ NoAudit \in [status : Terminal \cup {"NONE"}, charged : Nat]
    /\ \A f \in Fingerprints : [AbsentRow EXCEPT !.status = "RECEIVED", !.fingerprint = f] \in Row
  <1>1. AbsentRow \in Row
    BY DEF AbsentRow, Row, Results
  <1>2. NoDoubt \in [row : Row, stamped : BOOLEAN, next : Steps]
    BY <1>1 DEF NoDoubt, Steps
  <1>3. ASSUME NEW f \in Fingerprints
        PROVE  [AbsentRow EXCEPT !.status = "RECEIVED", !.fingerprint = f] \in Row
    BY <1>1 DEF Row, Running
  <1> QED
    BY <1>1, <1>2, <1>3 DEF NoAudit

-----------------------------------------------------------------------------
(* Transitions                                                              *)

\* What a transition does, confirmed at once or left to be read back.
LEMMA TransitionEffect ==
    ASSUME NEW r \in Requests, NEW from, NEW new, NEW stamped, NEW next,
           Transition(r, from, new, stamped, next)
    PROVE  /\ UNCHANGED <<reservation, audit, late, executions, answer>>
           /\ \/ row' = row
              \/ row[KeyOf[r]].status = from /\ row' = [row EXCEPT ![KeyOf[r]] = new]
           /\ \/ /\ pc' = [pc EXCEPT ![r] = next]
                 /\ row[KeyOf[r]].status = from
                 /\ row' = [row EXCEPT ![KeyOf[r]] = new]
                 /\ doubt' = doubt
              \/ /\ pc' = [pc EXCEPT ![r] = "confirm"]
                 /\ doubt' = [doubt EXCEPT ![r] =
                        [row |-> new, stamped |-> stamped, next |-> next]]
  BY Zenon DEF Transition, Goto

Targets == {"month", "reserve", "load", "lease", "validate", "usage", "release"} \cup Terminal

\* The statuses of a row the provider has answered.
Served == {"VALIDATING", "SETTLING", "SUCCEEDED"}

\* The transitions the orchestrator makes from a step it is at.
Permitted(r, from, new, stamped, next) ==
    LET k == KeyOf[r] IN
    /\ Drives(r) /\ pc[r] # "confirm"
    /\ from \in Running
    /\ new \in Row /\ new.status # "ABSENT"
    /\ from = "RELEASING" => new.status \in {"RELEASING", "FAILED"}
    /\ stamped \in BOOLEAN
    /\ next \in Targets /\ new.status \in StatusAt(next)
    /\ row[k].status = from =>
          /\ reservation[k] \in CreditOf(new.status)
          /\ new.charged = (IF new.status = "SUCCEEDED" THEN Units[k] ELSE 0)
          /\ new.status \in {"SETTLING", "SUCCEEDED"} => new.result = "VALIDATED"
          /\ new.auditStatus = row[k].auditStatus
    /\ pc[r] \in Beyond("RESERVE") => new.status = "REJECTED" /\ next \in Beyond("RESERVE")
    /\ pc[r] \in Beyond("SETTLE") => next \in Beyond("SETTLE")
    /\ (new.status \in Early \/ next = "lease") => executions[k] = 0
    /\ new.status \in Served => from \in Served \/ pc[r] = "executed"

LEMMA TransitionKeepsTypes ==
    ASSUME TypeOK, NEW r \in Requests, NEW from, NEW new, NEW stamped, NEW next,
           Transition(r, from, new, stamped, next), Permitted(r, from, new, stamped, next)
    PROVE  TypeOK'
  <1> DEFINE k == KeyOf[r]
  <1>1. k \in Keys
    BY InvocationAssumption
  <1>2. new \in Row /\ next \in Steps /\ stamped \in BOOLEAN /\ "confirm" \in Steps
    BY DEF Permitted, Targets, Steps
  <1>3. [row |-> new, stamped |-> stamped, next |-> next]
            \in [row : Row, stamped : BOOLEAN, next : Steps]
    BY <1>2
  <1>4. row' \in [Keys -> Row]
    BY <1>1, <1>2, TransitionEffect DEF TypeOK
  <1>5. pc' \in [Requests -> Steps]
    BY <1>2, TransitionEffect DEF TypeOK
  <1>6. doubt' \in [Requests -> [row : Row, stamped : BOOLEAN, next : Steps]]
    BY <1>3, TransitionEffect DEF TypeOK
  <1> QED
    BY <1>4, <1>5, <1>6, TransitionEffect DEF TypeOK

\* An audited row is terminal.
LEMMA AuditedIsTerminal ==
    ASSUME Books, NEW k \in Keys, audit[k] # NoAudit
    PROVE  row[k].status \in Terminal
  <1>1. audit[k] = [status |-> row[k].status, charged |-> row[k].charged]
    BY DEF Books, AuditTruthful
  <1>2. audit[k].status \in Terminal
    BY DEF Books, RowIsCoherent
  <1> QED
    BY <1>1, <1>2

LEMMA TransitionKeepsBooks ==
    ASSUME TypeOK, Books, DriverKnowsRow, NEW r \in Requests,
           NEW from, NEW new, NEW stamped, NEW next,
           Transition(r, from, new, stamped, next), Permitted(r, from, new, stamped, next)
    PROVE  Books'
  <1> DEFINE k == KeyOf[r]
  <1>1. k \in Keys /\ k \notin Legacy
    BY InvocationAssumption DEF Permitted, DriverKnowsRow
  <1>2. /\ UNCHANGED <<reservation, audit>>
        /\ row' = row \/ (row[k].status = from /\ row' = [row EXCEPT ![k] = new])
    BY TransitionEffect
  <1>3. CASE row' = row
    BY <1>2, <1>3 DEF Books, FinanceAgrees, AuditTruthful, RowIsCoherent
  <1>4. CASE row[k].status = from /\ row' = [row EXCEPT ![k] = new]
    <2>1. \A l \in Keys : row'[l] = IF l = k THEN new ELSE row[l]
      BY <1>4 DEF TypeOK
    <2>0. row[k].status \notin Terminal
      BY <1>4 DEF Permitted, Running, Terminal
    <2>2. audit[k] = NoAudit /\ row[k].auditStatus # "RECORDED"
      BY <1>1, <2>0, AuditedIsTerminal DEF Books, AuditTruthful
    <2>3. FinanceAgrees'
      BY <1>1, <1>2, <1>4, <2>1 DEF Books, FinanceAgrees, Permitted
    <2>4. AuditTruthful'
      BY <1>1, <1>2, <1>4, <2>1, <2>2 DEF Books, AuditTruthful, Permitted
    <2>5. RowIsCoherent'
      BY <1>1, <1>2, <1>4, <2>1, <2>2 DEF Books, RowIsCoherent, Permitted
    <2> QED
      BY <2>3, <2>4, <2>5 DEF Books
  <1> QED
    BY <1>2, <1>3, <1>4

LEMMA TransitionKeepsRuns ==
    ASSUME IInv, NEW r \in Requests, NEW from, NEW new, NEW stamped, NEW next,
           Transition(r, from, new, stamped, next), Permitted(r, from, new, stamped, next)
    PROVE  Runs'
  <1> DEFINE k == KeyOf[r]
  <1>1. k \in Keys /\ \A q \in Requests : KeyOf[q] \in Keys
    BY InvocationAssumption
  <1>2. /\ UNCHANGED <<reservation, audit, late, executions, answer>>
        /\ row' = row \/ (row[k].status = from /\ row' = [row EXCEPT ![k] = new])
    BY TransitionEffect
  <1>3. \A l \in Keys : row'[l] = row[l] \/ (l = k /\ row[k].status = from /\ row'[k] = new)
    BY <1>1, <1>2 DEF IInv, TypeOK
  <1>4. \A q \in Requests : q # r => pc'[q] = pc[q] /\ doubt'[q] = doubt[q]
    BY TransitionEffect DEF IInv, TypeOK
  <1>5. \/ pc'[r] = next /\ row[k].status = from /\ row'[k] = new
        \/ pc'[r] = "confirm" /\ doubt'[r].row = new /\ doubt'[r].next = next
    BY <1>1, TransitionEffect DEF IInv, TypeOK
  <1>6. Drives(r) /\ pc[r] # "confirm" /\ next \in Targets
    BY DEF Permitted
  <1>7. k \notin Legacy /\ \A q \in Requests : Drives(q) /\ KeyOf[q] = k => q = r
    BY <1>6 DEF IInv, Runs, DriverKnowsRow
  <1>8. DriverKnowsRow'
    <2> SUFFICES ASSUME NEW q \in Requests, Drives(q)'
                 PROVE  /\ KeyOf[q] \notin Legacy
                        /\ row'[KeyOf[q]].status \in StatusAt(pc'[q])
                        /\ pc'[q] = "reserved" => reservation'[KeyOf[q]] = "RESERVED"
                        /\ \A p \in Requests : Drives(p)' /\ KeyOf[p] = KeyOf[q] => p = q
      BY DEF DriverKnowsRow
    <2>1. Drives(q) /\ (KeyOf[q] = k => q = r)
      BY <1>4, <1>6, <1>7 DEF Drives
    <2>2. \A p \in Requests : Drives(p)' => Drives(p)
      BY <1>4, <1>6 DEF Drives
    <2>3. CASE q = r
      <3>1. row'[k].status \in StatusAt(pc'[r])
        <4>1. StatusAt("confirm") = Running \cup Terminal
          BY DEF StatusAt
        <4>2. row[k].status \in StatusAt(pc[r]) /\ row[k].status \in Statuses
          BY <1>1, <1>6 DEF IInv, TypeOK, Row, Statuses, Runs, DriverKnowsRow
        <4>3. new.status \in Statuses /\ new.status # "ABSENT"
          BY DEF Permitted, Row, Statuses
        <4>4. row[k].status # "ABSENT"
          BY <4>2 DEF StatusAt, Running, Terminal
        <4>5. row'[k].status \in Running \cup Terminal
          BY <1>1, <1>3, <4>2, <4>3, <4>4 DEF Statuses
        <4> QED
          BY <1>5, <4>1, <4>5 DEF Permitted
      <3> QED
        BY <1>5, <1>6, <1>7, <2>2, <2>3, <3>1 DEF Targets, Terminal
    <2>4. CASE q # r
      BY <1>1, <1>2, <1>3, <1>4, <2>1, <2>2, <2>4 DEF IInv, Runs, DriverKnowsRow
    <2> QED
      BY <2>3, <2>4
  <1>9. DoubtIsSafe'
    <2> SUFFICES ASSUME NEW q \in Requests, pc'[q] = "confirm"
                 PROVE  doubt'[q].next \in Targets
                        /\ doubt'[q].row.status \in StatusAt(doubt'[q].next)
      BY DEF DoubtIsSafe, Targets
    <2>1. CASE q = r
      BY <1>5, <1>6, <2>1 DEF Permitted, Targets, Terminal
    <2>2. CASE q # r
      BY <1>4, <2>2 DEF IInv, Runs, DoubtIsSafe, Targets
    <2> QED
      BY <2>1, <2>2
  <1>10. LateCallsAreHarmless'
    <2> SUFFICES ASSUME NEW c \in late
                 PROVE  /\ c.key \notin Legacy
                        /\ row'[c.key].status # "ABSENT"
                        /\ c.op = "RESERVE" => row'[c.key].status \in {"RESERVING", "REJECTED"}
                        /\ \A q \in Requests : Drives(q)' /\ KeyOf[q] = c.key =>
                              \/ pc'[q] \in Beyond(c.op)
                              \/ pc'[q] = "confirm" /\ doubt'[q].next \in Beyond(c.op)
      BY <1>2 DEF LateCallsAreHarmless
    <2>1. c.key \in Keys /\ c.op \in {"RESERVE", "SETTLE", "RELEASE"}
      BY DEF IInv, TypeOK, Calls
    <2>2. CASE c.key # k
      BY <1>3, <1>4, <2>1, <2>2 DEF IInv, Runs, LateCallsAreHarmless, Drives
    <2>3. CASE c.key = k
      <3>1. pc[r] \in Beyond(c.op)
        BY <1>6, <2>3 DEF IInv, Runs, LateCallsAreHarmless
      <3>2. c.op # "RELEASE"
        BY <3>1 DEF Beyond
      <3>3. /\ next \in Beyond(c.op)
            /\ c.op = "RESERVE" => new.status = "REJECTED"
        BY <2>1, <3>1, <3>2 DEF Permitted
      <3>4. \A q \in Requests : Drives(q)' /\ KeyOf[q] = k => q = r
        BY <1>4, <1>6, <1>7 DEF Drives
      <3>5. row[k].status # "ABSENT" /\ new.status # "ABSENT"
        BY <2>3 DEF Permitted, IInv, Runs, LateCallsAreHarmless
      <3>6. /\ c.key \notin Legacy
            /\ c.op = "RESERVE" => row[k].status \in {"RESERVING", "REJECTED"}
        BY <2>3 DEF IInv, Runs, LateCallsAreHarmless
      <3> QED
        BY <1>1, <1>3, <1>5, <2>3, <3>3, <3>4, <3>5, <3>6
    <2> QED
      BY <2>2, <2>3
  <1>11. AnsweredRow'
    <2>1. \A l \in Keys :
             /\ row[l].status \in Terminal => row'[l].status = row[l].status
             /\ row[l].status \in {"RELEASING", "FAILED"} =>
                   row'[l].status \in {"RELEASING", "FAILED"}
      BY <1>3 DEF Permitted, Running, Terminal
    <2> QED
      BY <1>1, <1>2, <2>1 DEF IInv, Runs, AnsweredRow, Terminal
  <1>12. Unexecuted'
    <2>1. (new.status \in Early \/ next = "lease") => executions[k] = 0
      BY DEF Permitted
    <2>2. \A l \in Keys : row'[l].status \in Early => executions'[l] = 0
      BY <1>2, <1>3, <2>1 DEF IInv, Runs, Unexecuted
    <2>3. ASSUME NEW q \in Requests,
                 pc'[q] \in {"lease", "execute"} \/ (pc'[q] = "confirm" /\ doubt'[q].next = "lease")
          PROVE  executions'[KeyOf[q]] = 0
      <3>1. CASE q = r
        BY <1>2, <1>5, <1>6, <2>1, <2>3, <3>1 DEF Targets, Terminal
      <3>2. CASE q # r
        BY <1>2, <1>4, <2>3, <3>2 DEF IInv, Runs, Unexecuted
      <3> QED
        BY <3>1, <3>2
    <2> QED
      BY <2>2, <2>3 DEF Unexecuted
  <1> QED
    BY <1>8, <1>9, <1>10, <1>11, <1>12 DEF Runs

-----------------------------------------------------------------------------
(* The steps of a request                                                    *)

\* What a request knows of the row it drives.
LEMMA Driven ==
    ASSUME IInv, NEW r \in Requests, Drives(r)
    PROVE  LET k == KeyOf[r] IN
           /\ k \in Keys /\ k \notin Legacy
           /\ row[k] \in Row
           /\ row[k].status \in StatusAt(pc[r])
           /\ reservation[k] \in CreditOf(row[k].status)
           /\ row[k].charged = (IF row[k].status = "SUCCEEDED" THEN Units[k] ELSE 0)
           /\ row[k].status \in {"SETTLING", "SUCCEEDED"} => row[k].result = "VALIDATED"
           /\ row[k].status \in Early => executions[k] = 0
           /\ pc[r] = "reserved" => reservation[k] = "RESERVED"
           /\ pc[r] \in {"lease", "execute"} => executions[k] = 0
           /\ Units[k] \in Nat
  <1> DEFINE k == KeyOf[r]
  <1>1. k \in Keys /\ row[k] \in Row /\ Units[k] \in Nat
    BY InvocationAssumption DEF IInv, TypeOK
  <1>2. /\ k \notin Legacy /\ row[k].status \in StatusAt(pc[r])
        /\ pc[r] = "reserved" => reservation[k] = "RESERVED"
    BY DEF IInv, Runs, DriverKnowsRow
  <1>3. /\ reservation[k] \in CreditOf(row[k].status)
        /\ row[k].charged = (IF row[k].status = "SUCCEEDED" THEN Units[k] ELSE 0)
    BY <1>1, <1>2 DEF IInv, Books, FinanceAgrees
  <1>4. row[k].status \in {"SETTLING", "SUCCEEDED"} => row[k].result = "VALIDATED"
    BY <1>1 DEF IInv, Books, RowIsCoherent
  <1>5. /\ row[k].status \in Early => executions[k] = 0
        /\ pc[r] \in {"lease", "execute"} => executions[k] = 0
    BY <1>1 DEF IInv, Runs, Unexecuted
  <1> QED
    BY <1>1, <1>2, <1>3, <1>4, <1>5

\* A transition that only changes the status of a row.
LEMMA AdvanceIsPermitted ==
    ASSUME IInv, NEW r \in Requests,
           NEW from, NEW to, NEW stamped \in BOOLEAN, NEW next,
           \/ pc[r] = "gates" /\ <<from, to, next>> = <<"RECEIVED", "AUTHORIZED", "month">>
           \/ pc[r] = "month" /\ <<from, to, next>> = <<"AUTHORIZED", "RESERVING", "reserve">>
           \/ pc[r] = "reserved" /\ <<from, to, next>> = <<"RESERVING", "CONTEXT_LOADING", "load">>
           \/ pc[r] = "load" /\ <<from, to, next>> = <<"CONTEXT_LOADING", "EXECUTING", "lease">>
           \/ pc[r] = "executed" /\ <<from, to, next>> = <<"EXECUTING", "VALIDATING", "validate">>
    PROVE  Permitted(r, from, [row[KeyOf[r]] EXCEPT !.status = to], stamped, next)
  <1> DEFINE k == KeyOf[r]
             new == [row[k] EXCEPT !.status = to]
  <1>1. Drives(r) /\ pc[r] # "confirm" /\ pc[r] \notin Beyond("RESERVE") \cup Beyond("SETTLE")
    BY DEF Drives, Beyond
  <1>2. /\ from \in Running /\ from # "RELEASING" /\ to \in Running
        /\ next \in Targets /\ to \in StatusAt(next)
    BY DEF Running, Targets, StatusAt
  <1>3. new \in Row /\ new.status = to
    <2>1. row[k] \in Row
      BY <1>1, Driven
    <2> QED
      BY <1>2, <2>1 DEF Row
  <1>4. /\ new.charged = row[k].charged /\ new.auditStatus = row[k].auditStatus
    BY <1>1, Driven DEF Row
  <1>5. row[k].status = from
    BY <1>1, Driven DEF StatusAt
  <1>6. /\ reservation[k] \in CreditOf(to) /\ to \notin {"SETTLING", "SUCCEEDED"}
        /\ row[k].charged = 0
    BY <1>1, <1>5, Driven DEF CreditOf
  <1>7. (to \in Early \/ next = "lease") => executions[k] = 0
    BY <1>1, <1>5, Driven DEF Early
  <1>8. to # "ABSENT" /\ to # "SUCCEEDED" /\ (to \in Served => pc[r] = "executed")
    BY DEF Served
  <1> HIDE DEF new, k
  <1> QED
    BY <1>1, <1>2, <1>3, <1>4, <1>6, <1>7, <1>8 DEF Permitted, new, k

LEMMA RejectIsPermitted ==
    ASSUME IInv, NEW r \in Requests, NEW from,
           \/ pc[r] = "gates" /\ from = "RECEIVED"
           \/ pc[r] = "month" /\ from = "AUTHORIZED"
           \/ pc[r] = "refused" /\ from = "RESERVING"
    PROVE  Permitted(r, from, [row[KeyOf[r]] EXCEPT !.status = "REJECTED",
                               !.result = "NOT_AVAILABLE"], TRUE, "REJECTED")
  <1> DEFINE k == KeyOf[r]
             new == [row[k] EXCEPT !.status = "REJECTED", !.result = "NOT_AVAILABLE"]
  <1>1. Drives(r) /\ pc[r] # "confirm" /\ pc[r] \notin Beyond("SETTLE")
    BY DEF Drives, Beyond
  <1>2. /\ from \in Running /\ from # "RELEASING"
        /\ "REJECTED" \in Targets /\ "REJECTED" \in StatusAt("REJECTED")
        /\ "REJECTED" \in Beyond("RESERVE") /\ "REJECTED" \notin Early \cup Served
    BY DEF Running, Targets, Terminal, StatusAt, Beyond, Early, Served
  <1>3. new \in Row /\ new.status = "REJECTED" /\ new.charged = row[k].charged
        /\ new.auditStatus = row[k].auditStatus
    <2>1. row[k] \in Row
      BY <1>1, Driven
    <2> QED
      BY <2>1 DEF Row, Terminal, Results
  <1>4. row[k].status = from
    BY <1>1, Driven DEF StatusAt
  <1>5. reservation[k] \in CreditOf("REJECTED") /\ row[k].charged = 0
    BY <1>1, <1>4, Driven DEF CreditOf
  <1> HIDE DEF new, k
  <1> QED
    BY <1>1, <1>2, <1>3, <1>5 DEF Permitted, new, k

\* The release intent, from wherever credits are reserved.
LEMMA FailIsPermitted ==
    ASSUME IInv, NEW r \in Requests, NEW from, NEW result \in Results, NEW reason \in Reasons,
           \/ pc[r] = "load" /\ from = "CONTEXT_LOADING"
           \/ pc[r] \in {"lease", "executed"} /\ from = "EXECUTING"
           \/ pc[r] = "validate" /\ from = "VALIDATING"
           \/ pc[r] = "unsettled" /\ from = "SETTLING"
    PROVE  Permitted(r, from, [row[KeyOf[r]] EXCEPT !.status = "RELEASING", !.result = result,
                               !.charged = 0, !.reason = reason], FALSE, "release")
  <1> DEFINE k == KeyOf[r]
             new == [row[k] EXCEPT !.status = "RELEASING", !.result = result,
                                   !.charged = 0, !.reason = reason]
  <1>1. Drives(r) /\ pc[r] # "confirm" /\ pc[r] \notin Beyond("RESERVE")
    BY DEF Drives, Beyond
  <1>2. /\ from \in Running /\ from # "RELEASING"
        /\ "release" \in Targets /\ "RELEASING" \in StatusAt("release")
        /\ "release" \in Beyond("SETTLE") /\ "RELEASING" \notin Early \cup Served
    BY DEF Running, Targets, StatusAt, Beyond, Early, Served
  <1>3. new \in Row /\ new.status = "RELEASING" /\ new.charged = 0
        /\ new.auditStatus = row[k].auditStatus
    <2>1. row[k] \in Row /\ reason \in Reasons \cup {"NONE"} /\ 0 \in Nat
      BY <1>1, Driven
    <2>2. "RELEASING" \in Statuses
      BY DEF Statuses, Running
    <2>3. new \in Row
      BY <2>1, <2>2, RowWrites
    <2> QED
      BY <2>1, <2>3 DEF Row
  <1>4. row[k].status = from => reservation[k] \in CreditOf("RELEASING")
    BY <1>1, Driven DEF CreditOf
  <1> HIDE DEF new, k
  <1> QED
    BY <1>1, <1>2, <1>3, <1>4 DEF Permitted, new, k

LEMMA ValidatedIsPermitted ==
    ASSUME IInv, NEW r \in Requests, pc[r] = "validate"
    PROVE  Permitted(r, "VALIDATING", [row[KeyOf[r]] EXCEPT !.status = "SETTLING",
                     !.result = "VALIDATED"], FALSE, "usage")
  <1> DEFINE k == KeyOf[r]
             new == [row[k] EXCEPT !.status = "SETTLING", !.result = "VALIDATED"]
  <1>1. Drives(r) /\ pc[r] # "confirm" /\ pc[r] \notin Beyond("RESERVE") \cup Beyond("SETTLE")
    BY DEF Drives, Beyond
  <1>2. /\ "VALIDATING" \in Running /\ "usage" \in Targets /\ "SETTLING" \in StatusAt("usage")
        /\ "SETTLING" \notin Early /\ "VALIDATING" \in Served
    BY DEF Running, Targets, StatusAt, Early, Served
  <1>3. new \in Row /\ new.status = "SETTLING" /\ new.result = "VALIDATED"
        /\ new.charged = row[k].charged /\ new.auditStatus = row[k].auditStatus
    <2>1. row[k] \in Row
      BY <1>1, Driven
    <2> QED
      BY <2>1 DEF Row, Running, Results
  <1>4. row[k].status = "VALIDATING" =>
           reservation[k] \in CreditOf("SETTLING") /\ row[k].charged = 0
    BY <1>1, Driven DEF CreditOf
  <1> HIDE DEF new, k
  <1> QED
    BY <1>1, <1>2, <1>3, <1>4 DEF Permitted, new, k

\* After settling or releasing the row has moved already: what the request
\* wanted to write matches no row.
LEMMA ClosingIsPermitted ==
    ASSUME IInv, NEW r \in Requests, NEW from, NEW to, NEW n \in Nat,
           \/ pc[r] = "settled" /\ <<from, to>> = <<"SETTLING", "SUCCEEDED">>
           \/ pc[r] = "released" /\ <<from, to>> = <<"RELEASING", "FAILED">>
    PROVE  Permitted(r, from, [row[KeyOf[r]] EXCEPT !.status = to, !.charged = n], TRUE, to)
  <1> DEFINE k == KeyOf[r]
             new == [row[k] EXCEPT !.status = to, !.charged = n]
  <1>1. Drives(r) /\ pc[r] # "confirm" /\ pc[r] \notin Beyond("RESERVE")
    BY DEF Drives, Beyond
  <1>2. /\ from \in Running
        /\ from = "RELEASING" => to = "FAILED"
        /\ to \in Targets /\ to \in StatusAt(to) /\ to \notin Early /\ to # "ABSENT"
        /\ pc[r] \in Beyond("SETTLE") => to \in Beyond("SETTLE")
        /\ to # "lease" /\ (to \in Served => from \in Served)
    BY DEF Running, Targets, Terminal, StatusAt, Beyond, Early, Served
  <1>3. new \in Row /\ new.status = to
    <2>1. row[k] \in Row
      BY <1>1, Driven
    <2>2. to \in Statuses
      BY DEF Statuses, Terminal
    <2>3. ASSUME NEW w \in Row, NEW v \in Statuses
          PROVE  [w EXCEPT !.status = v, !.charged = n] \in Row
      BY Zenon DEF Row, Statuses
    <2>4. ASSUME NEW w \in Row PROVE [w EXCEPT !.status = to, !.charged = n].status = to
      BY Zenon DEF Row
    <2> QED
      BY <2>1, <2>2, <2>3, <2>4
  <1>4. row[k].status # from
    BY <1>1, Driven DEF StatusAt
  <1>5. "RELEASING" # "SUCCEEDED" /\ TRUE \in BOOLEAN
    OBVIOUS
  <1> HIDE DEF new, k
  <1>6. /\ row[k].status = from => FALSE
        /\ new.status = to /\ new \in Row
    BY <1>3, <1>4
  <1> QED
    BY <1>1, <1>2, <1>6 DEF Permitted, new, k

\* Every transition of the orchestrator is one of these.
Transits(r) ==
    \E from, new, stamped, next :
        Transition(r, from, new, stamped, next) /\ Permitted(r, from, new, stamped, next)

LEMMA AdvanceTransits ==
    ASSUME IInv, NEW r \in Requests,
           NEW from, NEW to, NEW stamped \in BOOLEAN, NEW next,
           \/ pc[r] = "gates" /\ <<from, to, next>> = <<"RECEIVED", "AUTHORIZED", "month">>
           \/ pc[r] = "month" /\ <<from, to, next>> = <<"AUTHORIZED", "RESERVING", "reserve">>
           \/ pc[r] = "reserved" /\ <<from, to, next>> = <<"RESERVING", "CONTEXT_LOADING", "load">>
           \/ pc[r] = "load" /\ <<from, to, next>> = <<"CONTEXT_LOADING", "EXECUTING", "lease">>
           \/ pc[r] = "executed" /\ <<from, to, next>> = <<"EXECUTING", "VALIDATING", "validate">>,
           Advance(r, from, to, stamped, next)
    PROVE  Transits(r)
  <1>1. Permitted(r, from, [row[KeyOf[r]] EXCEPT !.status = to], stamped, next)
    BY AdvanceIsPermitted
  <1> QED
    BY <1>1, Zenon DEF Advance, Transits

LEMMA RejectTransits ==
    ASSUME IInv, NEW r \in Requests, NEW from,
           \/ pc[r] = "gates" /\ from = "RECEIVED"
           \/ pc[r] = "month" /\ from = "AUTHORIZED"
           \/ pc[r] = "refused" /\ from = "RESERVING",
           Reject(r, from)
    PROVE  Transits(r)
  BY RejectIsPermitted, Zenon DEF Reject, Transits

LEMMA FailTransits ==
    ASSUME IInv, NEW r \in Requests, NEW from, NEW result \in Results, NEW reason \in Reasons,
           \/ pc[r] = "load" /\ from = "CONTEXT_LOADING"
           \/ pc[r] \in {"lease", "executed"} /\ from = "EXECUTING"
           \/ pc[r] = "validate" /\ from = "VALIDATING"
           \/ pc[r] = "unsettled" /\ from = "SETTLING",
           Fail(r, from, result, reason)
    PROVE  Transits(r)
  BY FailIsPermitted, Zenon DEF Fail, Transits

LEMMA TransitsKeeps ==
    ASSUME IInv, NEW r \in Requests, Transits(r)
    PROVE  IInv'
  <1>1. PICK from, new, stamped, next :
            Transition(r, from, new, stamped, next) /\ Permitted(r, from, new, stamped, next)
    BY DEF Transits
  <1>2. TypeOK /\ Books /\ DriverKnowsRow
    BY DEF IInv, Runs
  <1> QED
    BY <1>1, <1>2, TransitionKeepsTypes, TransitionKeepsBooks, TransitionKeepsRuns DEF IInv

-----------------------------------------------------------------------------
(* Other steps                                                               *)

\* How the status of a row may move.
Onward(s, t) ==
    /\ s # "ABSENT" => t # "ABSENT"
    /\ t \in Early => s = t \/ s = "ABSENT"
    /\ s \in Terminal => t = s
    /\ s \in {"RELEASING", "FAILED"} => t \in {"RELEASING", "FAILED"}

\* A step of the database that writes the row or the reservation of one key.
LEMMA WriteKeepsBooks ==
    ASSUME Books, NEW k \in Keys,
           UNCHANGED audit,
           \A l \in Keys \ {k} : row'[l] = row[l] /\ reservation'[l] = reservation[l],
           reservation'[k] \in IF k \in Legacy THEN LegacyCreditOf(row'[k].status)
                                               ELSE CreditOf(row'[k].status),
           row'[k].charged = (IF row'[k].status = "SUCCEEDED" THEN Units[k] ELSE 0),
           row'[k].status \in {"SETTLING", "SUCCEEDED"} => row'[k].result = "VALIDATED",
           audit[k] # NoAudit =>
               row'[k].status = row[k].status /\ row'[k].charged = row[k].charged,
           row'[k].auditStatus \in {"PENDING", row[k].auditStatus}
    PROVE  Books'
  <1>1. FinanceAgrees'
    BY DEF Books, FinanceAgrees
  <1>2. AuditTruthful'
    BY DEF Books, AuditTruthful
  <1>3. RowIsCoherent'
    BY DEF Books, RowIsCoherent
  <1> QED
    BY <1>1, <1>2, <1>3 DEF Books

\* A step that no request takes.
LEMMA DatabaseKeepsRuns ==
    ASSUME IInv, NEW k \in Keys,
           UNCHANGED <<pc, doubt, answer, executions>>, late' \subseteq late,
           \A l \in Keys \ {k} : row'[l] = row[l] /\ reservation'[l] = reservation[l],
           Onward(row[k].status, row'[k].status), row[k].status # "ABSENT",
           \A r \in Requests : Drives(r) /\ KeyOf[r] = k =>
               /\ row'[k].status \in StatusAt(pc[r])
               /\ pc[r] = "reserved" => reservation'[k] = "RESERVED",
           \A c \in late' : c.key = k /\ c.op = "RESERVE" =>
               row'[k].status \in {"RESERVING", "REJECTED"}
    PROVE  Runs'
  <1>0. \A r \in Requests : KeyOf[r] \in Keys
    BY InvocationAssumption
  <1>1. DriverKnowsRow'
    BY <1>0 DEF IInv, Runs, DriverKnowsRow, Drives
  <1>2. DoubtIsSafe'
    BY DEF IInv, Runs, DoubtIsSafe
  <1>3. LateCallsAreHarmless'
    <2> SUFFICES ASSUME NEW c \in late'
                 PROVE  /\ c.key \notin Legacy
                        /\ row'[c.key].status # "ABSENT"
                        /\ c.op = "RESERVE" => row'[c.key].status \in {"RESERVING", "REJECTED"}
                        /\ \A q \in Requests : Drives(q) /\ KeyOf[q] = c.key =>
                              \/ pc[q] \in Beyond(c.op)
                              \/ pc[q] = "confirm" /\ doubt[q].next \in Beyond(c.op)
      BY DEF LateCallsAreHarmless, Drives
    <2>1. c \in late /\ c.key \in Keys
      BY DEF IInv, TypeOK, Calls
    <2> QED
      BY <2>1 DEF IInv, Runs, LateCallsAreHarmless, Onward
  <1>4. AnsweredRow'
    BY <1>0 DEF IInv, Runs, AnsweredRow, Onward
  <1>5. Unexecuted'
    <2>1. \A l \in Keys : row'[l].status \in Early => row[l].status \in Early
      BY DEF Onward
    <2> QED
      BY <2>1 DEF IInv, Runs, Unexecuted
  <1> QED
    BY <1>1, <1>2, <1>3, <1>4, <1>5 DEF Runs

\* A step of a request that is not a transition: it goes on to p, or ends.
Moves(r, p) ==
    LET k == KeyOf[r] IN
    /\ pc' = [pc EXCEPT ![r] = p] /\ p \in Steps \ {"confirm"}
    /\ \A q \in Requests \ {r} : doubt'[q] = doubt[q] /\ answer'[q] = answer[q]
    /\ \A l \in Keys \ {k} : /\ row'[l] = row[l] /\ reservation'[l] = reservation[l]
                             /\ executions'[l] = executions[l]
    /\ Onward(row[k].status, row'[k].status)
    /\ \/ Drives(r)
       \/ row[k].status = "ABSENT" /\ UNCHANGED executions
       \/ UNCHANGED <<row, reservation, executions>>
    /\ Drives(r)' =>
          /\ k \notin Legacy
          /\ Drives(r) \/ row[k].status = "ABSENT"
          /\ row'[k].status \in StatusAt(p)
          /\ p = "reserved" => reservation'[k] = "RESERVED"
          /\ p \in {"lease", "execute"} => executions'[k] = 0
    /\ row'[k].status \in Early => executions'[k] = 0
    /\ answer'[r] \in Terminal => k \notin Legacy /\ row'[k].status = answer'[r]
    /\ answer'[r] = "CREDITS_UNAVAILABLE" =>
          k \notin Legacy /\ row'[k].status \in {"RELEASING", "FAILED"}
    /\ \A c \in late' : c \in late \/ (c.key = k /\ k \notin Legacy /\ Drives(r))
    /\ \A c \in late' : c.key = k =>
          /\ row'[k].status # "ABSENT"
          /\ c.op = "RESERVE" => row'[k].status \in {"RESERVING", "REJECTED"}
          /\ Drives(r)' => p \in Beyond(c.op)

LEMMA StepKeepsRuns ==
    ASSUME IInv, NEW r \in Requests, NEW p, Moves(r, p), late' \subseteq Calls
    PROVE  Runs'
  <1> DEFINE k == KeyOf[r]
  <1>0. k \in Keys /\ \A q \in Requests : KeyOf[q] \in Keys
    BY InvocationAssumption
  <1>1. pc'[r] = p /\ \A q \in Requests : q # r => pc'[q] = pc[q]
    BY DEF Moves, IInv, TypeOK
  <1>2. \A q \in Requests : q # r => (Drives(q)' <=> Drives(q))
    BY <1>1 DEF Drives
  <1>3. \A q \in Requests : Drives(q) => row[KeyOf[q]].status # "ABSENT"
    <2> TAKE q \in Requests
    <2>1. Drives(q) => row[KeyOf[q]].status \in StatusAt(pc[q])
      BY DEF IInv, Runs, DriverKnowsRow
    <2> QED
      BY <2>1 DEF StatusAt, Running, Terminal
  <1>4. \A q \in Requests : q # r /\ Drives(q) /\ KeyOf[q] = k =>
            ~Drives(r) /\ ~Drives(r)' /\ UNCHANGED <<row, reservation, executions>>
    BY <1>3 DEF Moves, IInv, Runs, DriverKnowsRow
  <1>5. DriverKnowsRow'
    <2> SUFFICES ASSUME NEW q \in Requests, Drives(q)'
                 PROVE  /\ KeyOf[q] \notin Legacy
                        /\ row'[KeyOf[q]].status \in StatusAt(pc'[q])
                        /\ pc'[q] = "reserved" => reservation'[KeyOf[q]] = "RESERVED"
                        /\ \A o \in Requests : Drives(o)' /\ KeyOf[o] = KeyOf[q] => o = q
      BY DEF DriverKnowsRow
    <2>1. CASE q = r
      BY <1>1, <1>2, <1>4, <2>1 DEF Moves
    <2>2. CASE q # r /\ KeyOf[q] = k
      BY <1>1, <1>2, <1>4, <2>2 DEF IInv, Runs, DriverKnowsRow
    <2>3. CASE q # r /\ KeyOf[q] # k
      BY <1>0, <1>1, <1>2, <2>3 DEF Moves, IInv, Runs, DriverKnowsRow
    <2> QED
      BY <2>1, <2>2, <2>3
  <1>6. DoubtIsSafe'
    BY <1>1 DEF Moves, IInv, Runs, DoubtIsSafe
  <1>7. LateCallsAreHarmless'
    <2> SUFFICES ASSUME NEW c \in late'
                 PROVE  /\ c.key \notin Legacy
                        /\ row'[c.key].status # "ABSENT"
                        /\ c.op = "RESERVE" => row'[c.key].status \in {"RESERVING", "REJECTED"}
                        /\ \A q \in Requests : Drives(q)' /\ KeyOf[q] = c.key =>
                              \/ pc'[q] \in Beyond(c.op)
                              \/ pc'[q] = "confirm" /\ doubt'[q].next \in Beyond(c.op)
      BY DEF LateCallsAreHarmless
    <2>1. c.key \in Keys
      BY DEF Calls
    <2>2. CASE c.key # k
      <3>1. c \in late /\ row'[c.key] = row[c.key]
        BY <2>1, <2>2 DEF Moves
      <3>2. \A q \in Requests : KeyOf[q] = c.key =>
               q # r /\ pc'[q] = pc[q] /\ doubt'[q] = doubt[q]
        BY <1>1, <2>2 DEF Moves
      <3> QED
        BY <1>2, <3>1, <3>2 DEF IInv, Runs, LateCallsAreHarmless
    <2>3. CASE c.key = k
      <3>1. /\ c.key \notin Legacy
            /\ row'[k].status # "ABSENT"
            /\ c.op = "RESERVE" => row'[k].status \in {"RESERVING", "REJECTED"}
        BY <2>3 DEF Moves, IInv, Runs, LateCallsAreHarmless
      <3>2. Drives(r)' => p \in Beyond(c.op)
        BY <2>3 DEF Moves
      <3>3. ASSUME NEW q \in Requests, q # r, Drives(q), KeyOf[q] = k
            PROVE  \/ pc'[q] \in Beyond(c.op)
                   \/ pc'[q] = "confirm" /\ doubt'[q].next \in Beyond(c.op)
        <4>1. c \in late
          BY <1>4, <3>3 DEF Moves
        <4>2. pc'[q] = pc[q] /\ doubt'[q] = doubt[q]
          BY <1>1, <3>3 DEF Moves
        <4> QED
          BY <2>3, <3>3, <4>1, <4>2 DEF IInv, Runs, LateCallsAreHarmless
      <3> QED
        BY <1>1, <1>2, <2>3, <3>1, <3>2, <3>3
    <2> QED
      BY <2>2, <2>3
  <1>8. AnsweredRow'
    <2> SUFFICES ASSUME NEW q \in Requests
                 PROVE  LET l == KeyOf[q] IN
                        /\ answer'[q] \in Terminal => row'[l].status = answer'[q]
                        /\ answer'[q] = "CREDITS_UNAVAILABLE" =>
                              row'[l].status \in {"RELEASING", "FAILED"}
                        /\ answer'[q] \in Terminal \cup {"CREDITS_UNAVAILABLE"} => l \notin Legacy
      BY DEF AnsweredRow
    <2>1. CASE q = r
      BY <2>1 DEF Moves
    <2>2. CASE q # r
      <3>1. answer'[q] = answer[q]
        BY <2>2 DEF Moves
      <3>2. Onward(row[KeyOf[q]].status, row'[KeyOf[q]].status) \/ row'[KeyOf[q]] = row[KeyOf[q]]
        BY <1>0 DEF Moves
      <3> QED
        BY <3>1, <3>2 DEF IInv, Runs, AnsweredRow, Onward
    <2> QED
      BY <2>1, <2>2
  <1>9. Unexecuted'
    <2>1. \A l \in Keys : row'[l].status \in Early => executions'[l] = 0
      BY DEF Moves, IInv, Runs, Unexecuted
    <2>2. ASSUME NEW q \in Requests,
                 pc'[q] \in {"lease", "execute"} \/ (pc'[q] = "confirm" /\ doubt'[q].next = "lease")
          PROVE  executions'[KeyOf[q]] = 0
      <3>1. Drives(q)'
        BY <2>2 DEF Drives
      <3>2. CASE q = r
        BY <1>1, <2>2, <3>1, <3>2 DEF Moves
      <3>3. CASE q # r
        <4>1. executions'[KeyOf[q]] = executions[KeyOf[q]]
          BY <1>0, <1>2, <1>4, <3>1, <3>3 DEF Moves
        <4>2. pc'[q] = pc[q] /\ doubt'[q] = doubt[q]
          BY <1>1, <3>3 DEF Moves
        <4> QED
          BY <2>2, <4>1, <4>2 DEF IInv, Runs, Unexecuted
      <3> QED
        BY <3>2, <3>3
    <2> QED
      BY <2>1, <2>2 DEF Unexecuted
  <1> QED
    BY <1>5, <1>6, <1>7, <1>8, <1>9 DEF Runs

-----------------------------------------------------------------------------
(* The database functions                                                    *)

Credits == {"NONE", "RESERVED", "SETTLED", "RELEASED"}

LEMMA ReserveWrites ==
    ASSUME IInv, NEW k \in Keys, k \notin Legacy, ReserveOf(k), UNCHANGED audit,
           row[k].status \in {"RESERVING", "REJECTED"}
    PROVE  /\ row' = row /\ row' \in [Keys -> Row] /\ reservation' \in [Keys -> Credits]
           /\ \A l \in Keys \ {k} : row'[l] = row[l] /\ reservation'[l] = reservation[l]
           /\ reservation'[k] = "RESERVED"
           /\ Books'
  <1>1. /\ row' = row /\ row' \in [Keys -> Row] /\ reservation' \in [Keys -> Credits]
        /\ \A l \in Keys \ {k} : row'[l] = row[l] /\ reservation'[l] = reservation[l]
    BY DEF IInv, TypeOK, ReserveOf, Credits
  <1>2. /\ reservation[k] \in CreditOf(row[k].status)
        /\ row[k].charged = (IF row[k].status = "SUCCEEDED" THEN Units[k] ELSE 0)
    BY DEF IInv, Books, FinanceAgrees
  <1>3. reservation'[k] = "RESERVED" /\ "RESERVED" \in CreditOf(row[k].status)
    BY <1>2 DEF IInv, TypeOK, ReserveOf, CreditOf
  <1>4. Books'
    BY <1>1, <1>2, <1>3, WriteKeepsBooks DEF IInv, TypeOK, Row
  <1> QED
    BY <1>1, <1>3, <1>4

LEMMA SettleWrites ==
    ASSUME IInv, NEW k \in Keys, SettleOf(k), UNCHANGED audit
    PROVE  /\ row' \in [Keys -> Row] /\ reservation' \in [Keys -> Credits]
           /\ \A l \in Keys \ {k} : row'[l] = row[l] /\ reservation'[l] = reservation[l]
           /\ row[k].status = "SETTLING" /\ row'[k].status = "SUCCEEDED"
           /\ Books'
  <1> DEFINE new == [row[k] EXCEPT !.status = "SUCCEEDED", !.charged = Units[k],
                                   !.auditStatus = "PENDING"]
  <1>1. row[k] \in Row /\ Units[k] \in Nat
    BY InvocationAssumption DEF IInv, TypeOK
  <1>2. /\ new \in Row /\ new.status = "SUCCEEDED" /\ new.charged = Units[k]
        /\ new.auditStatus = "PENDING" /\ new.result = row[k].result
    BY <1>1 DEF Row, Terminal
  <1>3. row' = [row EXCEPT ![k] = new]
    BY DEF SettleOf
  <1> HIDE DEF new
  <1>4. /\ row' \in [Keys -> Row] /\ reservation' \in [Keys -> Credits]
        /\ \A l \in Keys \ {k} : row'[l] = row[l] /\ reservation'[l] = reservation[l]
        /\ row'[k] = new /\ reservation'[k] = "SETTLED"
    BY <1>2, <1>3 DEF IInv, TypeOK, SettleOf, Credits
  <1>5. row[k].status = "SETTLING"
    BY DEF SettleOf
  <1>6. row[k].result = "VALIDATED"
    BY <1>5 DEF IInv, Books, RowIsCoherent
  <1>7. audit[k] = NoAudit
    BY <1>5, AuditedIsTerminal DEF IInv, Terminal
  <1>8. "SETTLED" \in CreditOf("SUCCEEDED") /\ "SETTLED" \in LegacyCreditOf("SUCCEEDED")
    BY DEF CreditOf, LegacyCreditOf
  <1>9. Books'
    BY <1>2, <1>4, <1>6, <1>7, <1>8, WriteKeepsBooks DEF IInv
  <1> QED
    BY <1>2, <1>4, <1>5, <1>9

LEMMA ReleaseWrites ==
    ASSUME IInv, NEW k \in Keys, NEW reason \in Reasons \cup {"NONE"},
           ReleaseOf(k, reason), UNCHANGED audit
    PROVE  /\ row' \in [Keys -> Row] /\ reservation' \in [Keys -> Credits]
           /\ \A l \in Keys \ {k} : row'[l] = row[l] /\ reservation'[l] = reservation[l]
           /\ row[k].status \in {"RELEASING", "FAILED"} /\ row'[k].status = "FAILED"
           /\ Books'
  <1> DEFINE new == [row[k] EXCEPT !.status = "FAILED", !.charged = 0,
                                   !.reason = reason, !.auditStatus = "PENDING"]
  <1>1. row[k] \in Row /\ 0 \in Nat
    BY DEF IInv, TypeOK
  <1>2. /\ new \in Row /\ new.status = "FAILED" /\ new.charged = 0
        /\ new.auditStatus = "PENDING"
    BY <1>1 DEF Row, Terminal
  <1>3. row' = [row EXCEPT ![k] = new]
    BY DEF ReleaseOf
  <1> HIDE DEF new
  <1>4. /\ row' \in [Keys -> Row] /\ reservation' \in [Keys -> Credits]
        /\ \A l \in Keys \ {k} : row'[l] = row[l] /\ reservation'[l] = reservation[l]
        /\ row'[k] = new /\ reservation'[k] = "RELEASED"
    BY <1>2, <1>3 DEF IInv, TypeOK, ReleaseOf, Credits
  <1>5. row[k].status \in {"RELEASING", "FAILED"}
    BY DEF ReleaseOf
  <1>6. row[k].charged = 0
    BY <1>5 DEF IInv, Books, FinanceAgrees
  <1>7. audit[k] # NoAudit => row[k].status = "FAILED"
    BY <1>5, AuditedIsTerminal DEF IInv, Terminal
  <1>8. "RELEASED" \in CreditOf("FAILED") /\ "RELEASED" \in LegacyCreditOf("FAILED")
    BY DEF CreditOf, LegacyCreditOf
  <1>9. Books'
    BY <1>2, <1>4, <1>6, <1>7, <1>8, WriteKeepsBooks DEF IInv
  <1> QED
    BY <1>2, <1>4, <1>5, <1>9

LEMMA AuditWrites ==
    ASSUME IInv, NEW k \in Keys, RecordAuditOf(k), UNCHANGED reservation
    PROVE  /\ row' \in [Keys -> Row]
           /\ audit' \in [Keys -> [status : Terminal \cup {"NONE"}, charged : Nat]]
           /\ \A l \in Keys \ {k} : row'[l] = row[l] /\ reservation'[l] = reservation[l]
           /\ row'[k].status = row[k].status
           /\ Books'
  <1> DEFINE new == [row[k] EXCEPT !.auditStatus = "RECORDED"]
             said == [status |-> row[k].status, charged |-> row[k].charged]
             entry == IF audit[k] = NoAudit THEN said ELSE audit[k]
  <1>1. row[k] \in Row /\ row[k].status \in Terminal
    BY DEF IInv, TypeOK, RecordAuditOf
  <1>2. /\ new \in Row /\ new.status = row[k].status /\ new.charged = row[k].charged
        /\ new.result = row[k].result
    BY <1>1 DEF Row
  <1>3. said \in [status : Terminal \cup {"NONE"}, charged : Nat] /\ said # NoAudit
    BY <1>1 DEF Row, NoAudit, Terminal
  <1>4. /\ row' = [row EXCEPT ![k] = new]
        /\ audit' = [audit EXCEPT ![k] = entry]
    BY DEF RecordAuditOf
  <1>5. entry = said
    BY DEF IInv, Books, AuditTruthful
  <1> HIDE DEF new, said, entry
  <1>6. /\ row' \in [Keys -> Row]
        /\ audit' \in [Keys -> [status : Terminal \cup {"NONE"}, charged : Nat]]
        /\ \A l \in Keys \ {k} : row'[l] = row[l] /\ audit'[l] = audit[l]
        /\ row'[k] = new /\ audit'[k] = said
    BY <1>2, <1>3, <1>4, <1>5 DEF IInv, TypeOK
  <1>7. FinanceAgrees'
    BY <1>2, <1>6 DEF IInv, Books, FinanceAgrees
  <1>8. AuditTruthful'
    BY <1>2, <1>3, <1>6 DEF IInv, Books, AuditTruthful, said
  <1>9. RowIsCoherent'
    <2>1. said.status \in Terminal
      BY <1>1 DEF said
    <2> QED
      BY <1>2, <1>6, <2>1 DEF IInv, Books, RowIsCoherent
  <1> QED
    BY <1>2, <1>6, <1>7, <1>8, <1>9 DEF Books

-----------------------------------------------------------------------------
(* The actions                                                               *)

LEMMA TransitionsTransit ==
    ASSUME IInv, NEW r \in Requests,
           \/ Gates(r) \/ ResolveMonth(r) \/ ReserveRefused(r) \/ Reserved(r)
           \/ LoadContext(r) \/ Executed(r) \/ Validate(r) \/ SettleFailed(r)
           \/ Settled(r) \/ Released(r)
           \/ pc[r] = "lease" /\ Fail(r, "EXECUTING", "FAILED", "INTERNAL_FAILURE")
    PROVE  Transits(r)
  <1>0. /\ "FAILED" \in Results /\ "INVALID" \in Results
        /\ {"CONTEXT_FAILED", "INTERNAL_FAILURE", "PROVIDER_FAILED", "INVALID_RESULT"}
              \subseteq Reasons
        /\ TRUE \in BOOLEAN /\ FALSE \in BOOLEAN /\ 0 \in Nat
    BY DEF Results, Reasons
  <1>1. CASE Gates(r)
    BY <1>0, <1>1, AdvanceTransits, RejectTransits DEF Gates
  <1>2. CASE ResolveMonth(r)
    BY <1>0, <1>2, AdvanceTransits, RejectTransits DEF ResolveMonth
  <1>3. CASE ReserveRefused(r)
    BY <1>3, RejectTransits DEF ReserveRefused
  <1>4. CASE Reserved(r)
    BY <1>0, <1>4, AdvanceTransits DEF Reserved
  <1>5. CASE LoadContext(r)
    BY <1>0, <1>5, AdvanceTransits, FailTransits DEF LoadContext
  <1>6. CASE Executed(r)
    BY <1>0, <1>6, AdvanceTransits, FailTransits DEF Executed
  <1>7. CASE Validate(r)
    <2>1. pc[r] = "validate"
      BY <1>7 DEF Validate
    <2>2. CASE Fail(r, "VALIDATING", "INVALID", "INVALID_RESULT")
      BY <1>0, <2>1, <2>2, FailTransits
    <2>3. CASE Transition(r, "VALIDATING", [row[KeyOf[r]] EXCEPT !.status = "SETTLING",
                          !.result = "VALIDATED"], FALSE, "usage")
      BY <2>1, <2>3, ValidatedIsPermitted, Zenon DEF Transits
    <2> QED
      BY <1>7, <2>2, <2>3, Zenon DEF Validate
  <1>8. CASE SettleFailed(r)
    BY <1>0, <1>8, FailTransits DEF SettleFailed
  <1>9. CASE Settled(r)
    <2>1. Units[KeyOf[r]] \in Nat /\ pc[r] = "settled"
      BY <1>9, InvocationAssumption DEF Settled
    <2>2. Permitted(r, "SETTLING", [row[KeyOf[r]] EXCEPT !.status = "SUCCEEDED",
                    !.charged = Units[KeyOf[r]]], TRUE, "SUCCEEDED")
      BY <2>1, ClosingIsPermitted
    <2> QED
      BY <1>9, <2>2, Zenon DEF Settled, Transits
  <1>10. CASE Released(r)
    <2>1. Permitted(r, "RELEASING", [row[KeyOf[r]] EXCEPT !.status = "FAILED",
                    !.charged = 0], TRUE, "FAILED")
      BY <1>0, <1>10, ClosingIsPermitted DEF Released
    <2> QED
      BY <1>10, <2>1, Zenon DEF Released, Transits
  <1>11. CASE pc[r] = "lease" /\ Fail(r, "EXECUTING", "FAILED", "INTERNAL_FAILURE")
    BY <1>0, <1>11, FailTransits
  <1> QED
    BY <1>1, <1>2, <1>3, <1>4, <1>5, <1>6, <1>7, <1>8, <1>9, <1>10, <1>11

LEMMA TransitionsKeep ==
    ASSUME IInv, NEW r \in Requests,
           \/ Gates(r) \/ ResolveMonth(r) \/ ReserveRefused(r) \/ Reserved(r)
           \/ LoadContext(r) \/ Executed(r) \/ Validate(r) \/ SettleFailed(r)
           \/ Settled(r) \/ Released(r)
           \/ pc[r] = "lease" /\ Fail(r, "EXECUTING", "FAILED", "INTERNAL_FAILURE")
    PROVE  IInv'
  BY TransitionsTransit, TransitsKeeps

\* A step that only concerns the request itself.
Quiet(r, p, a) ==
    /\ UNCHANGED <<row, reservation, audit, late, executions>>
    /\ pc' = [pc EXCEPT ![r] = p] /\ p \in Steps \ {"confirm"}
    /\ doubt' \in {doubt, [doubt EXCEPT ![r] = NoDoubt]}
    /\ UNCHANGED answer \/ answer' = [answer EXCEPT ![r] = a]
    /\ a \in Answers
    /\ a \notin Terminal \cup {"CREDITS_UNAVAILABLE"} \/ (Drives(r) /\ a = pc[r])
    /\ \/ p \in {"insert", "done"}
       \/ /\ Drives(r)
          /\ row[KeyOf[r]].status \in StatusAt(p)
          /\ p # "reserved"
          /\ p \in {"lease", "execute"} => executions[KeyOf[r]] = 0
          /\ \A op \in {"RESERVE", "SETTLE", "RELEASE"} :
                (pc[r] \in Beyond(op) \/ (pc[r] = "confirm" /\ doubt[r].next \in Beyond(op)))
                    => p \in Beyond(op)

LEMMA QuietKeeps ==
    ASSUME IInv, NEW r \in Requests, NEW p, NEW a, Quiet(r, p, a)
    PROVE  IInv'
  <1> DEFINE k == KeyOf[r]
  <1>0. k \in Keys
    BY InvocationAssumption
  <1>1. TypeOK'
    <2>1. doubt' \in [Requests -> [row : Row, stamped : BOOLEAN, next : Steps]]
      BY RestingTypes DEF IInv, TypeOK, Quiet
    <2> QED
      BY <2>1 DEF IInv, TypeOK, Quiet
  <1>2. Books'
    BY DEF IInv, Books, FinanceAgrees, AuditTruthful, RowIsCoherent, Quiet
  <1>3. Drives(r)' => p \notin {"insert", "done"} /\ Drives(r)
    BY DEF IInv, TypeOK, Drives, Quiet
  <1>4. /\ \A q \in Requests \ {r} : doubt'[q] = doubt[q] /\ answer'[q] = answer[q]
        /\ answer'[r] \in {answer[r], a}
    BY DEF IInv, TypeOK, Quiet
  <1>5. Onward(row[k].status, row'[k].status)
    BY DEF Onward, Quiet
  <1>6. Drives(r)' =>
          /\ k \notin Legacy
          /\ row'[k].status \in StatusAt(p)
          /\ p # "reserved"
          /\ p \in {"lease", "execute"} => executions'[k] = 0
    BY <1>3, Driven DEF Quiet
  <1>7. row'[k].status \in Early => executions'[k] = 0
    BY <1>0 DEF IInv, Runs, Unexecuted, Quiet
  <1>8. /\ answer'[r] \in Terminal => k \notin Legacy /\ row'[k].status = answer'[r]
        /\ answer'[r] = "CREDITS_UNAVAILABLE" =>
              k \notin Legacy /\ row'[k].status \in {"RELEASING", "FAILED"}
    <2>1. CASE answer'[r] = answer[r]
      BY <2>1 DEF IInv, Runs, AnsweredRow, Terminal, Quiet
    <2>2. CASE answer'[r] = a /\ a \in Terminal /\ Drives(r) /\ a = pc[r]
      <3>1. k \notin Legacy /\ row[k].status \in StatusAt(a)
        BY <2>2, Driven
      <3> QED
        BY <2>2, <3>1 DEF StatusAt, Terminal, Quiet
    <2>3. "CREDITS_UNAVAILABLE" \notin Steps
      BY DEF Steps, Terminal
    <2> QED
      BY <1>4, <2>1, <2>2, <2>3 DEF IInv, TypeOK, Quiet
  <1>9. \A c \in late' : c.key = k =>
          /\ row'[k].status # "ABSENT"
          /\ c.op = "RESERVE" => row'[k].status \in {"RESERVING", "REJECTED"}
          /\ Drives(r)' => p \in Beyond(c.op)
    <2> SUFFICES ASSUME NEW c \in late, c.key = k
                 PROVE  /\ row[k].status # "ABSENT"
                        /\ c.op = "RESERVE" => row[k].status \in {"RESERVING", "REJECTED"}
                        /\ Drives(r)' => p \in Beyond(c.op)
      BY DEF Quiet
    <2>1. c.op \in {"RESERVE", "SETTLE", "RELEASE"}
      BY DEF IInv, TypeOK, Calls
    <2>2. /\ row[k].status # "ABSENT"
          /\ c.op = "RESERVE" => row[k].status \in {"RESERVING", "REJECTED"}
          /\ Drives(r) =>
                \/ pc[r] \in Beyond(c.op)
                \/ pc[r] = "confirm" /\ doubt[r].next \in Beyond(c.op)
      BY DEF IInv, Runs, LateCallsAreHarmless
    <2> QED
      BY <1>3, <2>1, <2>2 DEF Quiet
  <1>10. late' \subseteq Calls
    BY DEF IInv, TypeOK, Quiet
  <1>11. Moves(r, p)
    BY <1>3, <1>4, <1>5, <1>6, <1>7, <1>8, <1>9 DEF Moves, Quiet
  <1> QED
    BY <1>1, <1>2, <1>10, <1>11, StepKeepsRuns DEF IInv

\* The answers a request gives without having driven its row to an end.
Excuses == {"DUPLICATE", "DUPLICATE_IN_FLIGHT", "IDEMPOTENCY_KEY_REUSED",
            "INTERNAL_CONFIGURATION_ERROR", "CRASHED"}

LEMMA StopKeeps ==
    ASSUME IInv, NEW r \in Requests, NEW a \in Excuses, Stop(r, a),
           UNCHANGED <<row, reservation, audit, late, executions>>,
           doubt' \in {doubt, [doubt EXCEPT ![r] = NoDoubt]}
    PROVE  IInv'
  <1>1. /\ "done" \in Steps \ {"confirm"} /\ a \in Answers
        /\ a \notin Terminal \cup {"CREDITS_UNAVAILABLE"}
    BY DEF Steps, Answers, Excuses, Terminal
  <1>2. Quiet(r, "done", a)
    BY <1>1 DEF Stop, Quiet
  <1> QED
    BY <1>2, QuietKeeps

LEMMA DuplicateIsExcuse ==
    ASSUME NEW r \in Requests, Duplicate(r)
    PROVE  \E a \in Excuses : Stop(r, a)
  BY DEF Duplicate, Excuses

LEMMA GotoKeeps ==
    ASSUME IInv, NEW r \in Requests, NEW p, Goto(r, p),
           UNCHANGED <<row, reservation, audit, late, executions>>,
           doubt' \in {doubt, [doubt EXCEPT ![r] = NoDoubt]},
           \/ pc[r] = "lookup" /\ p = "insert"
           \/ pc[r] = "reserve" /\ p = "refused"
           \/ pc[r] = "lease" /\ p = "execute"
           \/ pc[r] = "usage" /\ p \in {"settle", "unsettled"}
           \/ pc[r] = "confirm" /\ p = doubt[r].next /\ row[KeyOf[r]].status = doubt[r].row.status
    PROVE  IInv'
  <1> DEFINE k == KeyOf[r]
  <1>1. "NONE" \in Answers /\ "NONE" \notin Terminal \cup {"CREDITS_UNAVAILABLE"}
    BY DEF Answers, Terminal
  <1>2. CASE pc[r] = "lookup"
    <2>1. p \in Steps \ {"confirm"} /\ p \in {"insert", "done"}
      BY <1>2 DEF Steps
    <2>2. Quiet(r, p, "NONE")
      BY <1>1, <2>1 DEF Goto, Quiet
    <2> QED
      BY <2>2, QuietKeeps
  <1>3. CASE pc[r] \in {"reserve", "lease", "usage"}
    <2>1. /\ Drives(r) /\ p \in Steps \ {"confirm"} /\ p # "reserved"
          /\ \A op \in {"RESERVE", "SETTLE", "RELEASE"} : pc[r] \notin Beyond(op)
      BY <1>3 DEF Drives, Beyond, Steps
    <2>2. /\ row[k].status \in StatusAt(p)
          /\ p \in {"lease", "execute"} => executions[k] = 0
      BY <1>3, <2>1, Driven DEF StatusAt
    <2>3. Quiet(r, p, "NONE")
      BY <1>1, <1>3, <2>1, <2>2 DEF Goto, Quiet
    <2> QED
      BY <2>3, QuietKeeps
  <1>4. CASE pc[r] = "confirm"
    <2>1. Drives(r) /\ p = doubt[r].next /\ p \in Targets /\ row[k].status \in StatusAt(p)
      BY <1>4 DEF Drives, IInv, Runs, DoubtIsSafe, Targets
    <2>2. p \in Steps \ {"confirm"} /\ p \notin {"reserved", "execute"}
      BY <2>1 DEF Targets, Terminal, Steps
    <2>3. p \in {"lease", "execute"} => executions[k] = 0
      BY <1>4, <2>1, <2>2 DEF IInv, Runs, Unexecuted
    <2>4. \A op \in {"RESERVE", "SETTLE", "RELEASE"} :
             (pc[r] \in Beyond(op) \/ (pc[r] = "confirm" /\ doubt[r].next \in Beyond(op)))
                 => p \in Beyond(op)
      BY <1>4, <2>1 DEF Beyond
    <2>5. Quiet(r, p, "NONE")
      BY <1>1, <2>1, <2>2, <2>3, <2>4 DEF Goto, Quiet
    <2> QED
      BY <2>5, QuietKeeps
  <1> QED
    BY <1>2, <1>3, <1>4

LEMMA QuietActionsKeep ==
    ASSUME IInv, NEW r \in Requests,
           Lookup(r) \/ LeaseProvider(r) \/ RecordTechnicalUsage(r) \/ Confirm(r) \/ Crash(r)
    PROVE  IInv'
  <1>0. {"INTERNAL_CONFIGURATION_ERROR", "CRASHED"} \subseteq Excuses
    BY DEF Excuses
  <1>1. CASE Lookup(r)
    <2>1. CASE Goto(r, "insert")
      BY <1>1, <2>1, GotoKeeps DEF Lookup
    <2>2. CASE Duplicate(r)
      BY <1>1, <2>2, DuplicateIsExcuse, StopKeeps DEF Lookup
    <2> QED
      BY <1>1, <2>1, <2>2 DEF Lookup
  <1>2. CASE LeaseProvider(r)
    BY <1>2, GotoKeeps, TransitionsKeep DEF LeaseProvider
  <1>3. CASE RecordTechnicalUsage(r)
    BY <1>3, GotoKeeps DEF RecordTechnicalUsage
  <1>4. CASE Confirm(r)
    <2>1. CASE ReadsBack(r) /\ Goto(r, doubt[r].next)
      <3>1. row[KeyOf[r]].status = doubt[r].row.status
        BY <2>1 DEF ReadsBack
      <3> QED
        BY <1>4, <2>1, <3>1, GotoKeeps DEF Confirm
    <2>2. CASE Stop(r, "INTERNAL_CONFIGURATION_ERROR")
      BY <1>0, <1>4, <2>2, StopKeeps DEF Confirm
    <2> QED
      BY <1>4, <2>1, <2>2 DEF Confirm
  <1>5. CASE Crash(r)
    BY <1>0, <1>5, StopKeeps DEF Crash
  <1> QED
    BY <1>1, <1>2, <1>3, <1>4, <1>5

\* No call was given up yet by a request that has not failed.
LEMMA NoCallGivenUp ==
    ASSUME IInv, NEW r \in Requests, Drives(r), pc[r] # "confirm",
           pc[r] \notin Beyond("RESERVE") \cup Beyond("SETTLE"), NEW c \in late
    PROVE  c.key # KeyOf[r]
  <1>1. c.op \in {"RESERVE", "SETTLE", "RELEASE"} /\ Beyond("RELEASE") = {}
    BY DEF IInv, TypeOK, Calls, Beyond
  <1>2. LateCallsAreHarmless
    BY DEF IInv, Runs
  <1> QED
    BY <1>1, <1>2 DEF LateCallsAreHarmless

\* The insert of a new row.
LEMMA InsertKeeps ==
    ASSUME IInv, NEW r \in Requests, Insert(r)
    PROVE  IInv'
  <1> DEFINE k == KeyOf[r]
             new == [AbsentRow EXCEPT !.status = "RECEIVED", !.fingerprint = Fingerprint[r]]
  <1>1. CASE row[k].status # "ABSENT"
    BY <1>1, DuplicateIsExcuse, StopKeeps DEF Insert
  <1>2. CASE row[k].status = "ABSENT"
    <2>1. k \in Keys
      BY InvocationAssumption
    <2>2. k \notin Legacy /\ reservation[k] = "NONE" /\ executions[k] = 0
      <3>1. k \notin Legacy
        BY <1>2, <2>1 DEF IInv, Books, FinanceAgrees, LegacyCreditOf
      <3>2. reservation[k] \in CreditOf("ABSENT")
        BY <1>2, <2>1, <3>1 DEF IInv, Books, FinanceAgrees
      <3> QED
        BY <1>2, <2>1, <3>1, <3>2 DEF CreditOf, IInv, Runs, Unexecuted, Early
    <2>3. audit[k] = NoAudit
      BY <1>2, <2>1, AuditedIsTerminal DEF IInv, Terminal
    <2>4. new \in Row /\ Fingerprint[r] \in Fingerprints
      BY RestingTypes DEF Fingerprints
    <2>5. new.status = "RECEIVED" /\ new.charged = 0 /\ new.auditStatus = "PENDING"
      BY DEF AbsentRow
    <2>6. PICK p \in {"gates", "done"} :
              /\ row' = [row EXCEPT ![k] = new]
              /\ \/ p = "gates" /\ Goto(r, "gates")
                 \/ p = "done" /\ Stop(r, "INTERNAL_CONFIGURATION_ERROR")
              /\ UNCHANGED <<reservation, audit, doubt, late, executions>>
      BY <1>2 DEF Insert
    <2> HIDE DEF new
    <2>7. /\ row' \in [Keys -> Row] /\ row'[k] = new
          /\ \A l \in Keys \ {k} : row'[l] = row[l] /\ reservation'[l] = reservation[l]
      BY <2>1, <2>4, <2>6 DEF IInv, TypeOK
    <2>8. /\ p \in Steps \ {"confirm"} /\ "INTERNAL_CONFIGURATION_ERROR" \in Answers
      BY DEF Steps, Answers
    <2>9. /\ pc' = [pc EXCEPT ![r] = p]
          /\ answer' \in {answer, [answer EXCEPT ![r] = "INTERNAL_CONFIGURATION_ERROR"]}
      BY <2>6 DEF Goto, Stop
    <2>10. TypeOK'
      BY <2>6, <2>7, <2>8, <2>9 DEF IInv, TypeOK
    <2>11. Books'
      <3>1. "NONE" \in CreditOf("RECEIVED")
        BY DEF CreditOf
      <3> QED
        BY <2>1, <2>2, <2>3, <2>5, <2>6, <2>7, <3>1, WriteKeepsBooks DEF IInv
    <2>12. Onward("ABSENT", "RECEIVED") /\ "RECEIVED" \in StatusAt("gates")
      BY DEF Onward, Early, Terminal, StatusAt
    <2>13. \A c \in late' : c \in late /\ c.key # k
      BY <1>2, <2>6 DEF IInv, Runs, LateCallsAreHarmless
    <2>14. /\ answer[r] \notin Terminal \cup {"CREDITS_UNAVAILABLE"}
           /\ \A q \in Requests \ {r} : doubt'[q] = doubt[q] /\ answer'[q] = answer[q]
           /\ answer'[r] \in {answer[r], "INTERNAL_CONFIGURATION_ERROR"}
      BY <1>2, <2>6, <2>9 DEF IInv, TypeOK, Runs, AnsweredRow, Terminal
    <2>15. Moves(r, p)
      <3>1. Drives(r)' => p = "gates"
        BY <2>9 DEF IInv, TypeOK, Drives
      <3>2. answer'[r] \notin Terminal \cup {"CREDITS_UNAVAILABLE"}
        BY <2>14 DEF Terminal
      <3>3. /\ Onward(row[k].status, row'[k].status)
            /\ row'[k].status \in StatusAt("gates")
            /\ executions'[k] = 0 /\ UNCHANGED executions
        BY <1>2, <2>2, <2>5, <2>6, <2>7, <2>12
      <3>4. \A l \in Keys \ {k} : /\ row'[l] = row[l] /\ reservation'[l] = reservation[l]
                                 /\ executions'[l] = executions[l]
        BY <2>6, <2>7
      <3> QED
        BY <1>2, <2>2, <2>8, <2>9, <2>13, <2>14, <3>1, <3>2, <3>3, <3>4 DEF Moves
    <2>16. late' \subseteq Calls
      BY <2>6 DEF IInv, TypeOK
    <2> QED
      BY <2>10, <2>11, <2>15, <2>16, StepKeepsRuns DEF IInv
  <1> QED
    BY <1>1, <1>2

\* A credit call the request gives up: it only leaves the call under way.
LEMMA GivenUpKeeps ==
    ASSUME IInv, NEW r \in Requests, NEW p, NEW c \in Calls, NEW a,
           Drives(r), c.key = KeyOf[r], late' = late \cup {c},
           UNCHANGED <<row, reservation, audit, doubt, executions>>,
           pc' = [pc EXCEPT ![r] = p],
           UNCHANGED answer \/ answer' = [answer EXCEPT ![r] = a],
           a \in {"NONE", "CREDITS_UNAVAILABLE"},
           \/ pc[r] = "reserve" /\ p = "refused" /\ c.op = "RESERVE" /\ a = "NONE"
           \/ pc[r] = "settle" /\ p = "unsettled" /\ c.op = "SETTLE" /\ a = "NONE"
           \/ pc[r] = "release" /\ p = "done" /\ c.op = "RELEASE"
    PROVE  IInv'
  <1> DEFINE k == KeyOf[r]
  <1>1. k \in Keys /\ k \notin Legacy /\ row[k].status \in StatusAt(pc[r])
    BY Driven
  <1>2. p \in Steps \ {"confirm"} /\ a \in Answers /\ a \notin Terminal
    BY DEF Steps, Answers, Terminal
  <1>3. TypeOK'
    BY <1>2 DEF IInv, TypeOK
  <1>4. Books'
    BY DEF IInv, Books, FinanceAgrees, AuditTruthful, RowIsCoherent
  <1>5. answer'[r] \in {answer[r], a}
    BY DEF IInv, TypeOK
  <1>6. /\ row[k].status # "ABSENT"
        /\ c.op = "RESERVE" => row[k].status \in {"RESERVING", "REJECTED"}
    BY <1>1 DEF StatusAt
  <1>7. Drives(r)' => p # "done" /\ p \in Beyond(c.op) /\ row[k].status \in StatusAt(p)
    BY <1>1 DEF IInv, TypeOK, Drives, StatusAt, Beyond
  <1>8. \A b \in late : b.key = k => pc[r] = "release"
    <2>1. pc[r] # "release" => pc[r] \notin Beyond("RESERVE") \cup Beyond("SETTLE") /\ pc[r] # "confirm"
      BY DEF Beyond
    <2> QED
      BY <2>1, NoCallGivenUp
  <1>9. \A b \in late' : b.key = k =>
          /\ row[k].status # "ABSENT"
          /\ b.op = "RESERVE" => row[k].status \in {"RESERVING", "REJECTED"}
          /\ Drives(r)' => p \in Beyond(b.op)
    <2> SUFFICES ASSUME NEW b \in late, b.key = k
                 PROVE  /\ row[k].status # "ABSENT"
                        /\ b.op = "RESERVE" => row[k].status \in {"RESERVING", "REJECTED"}
                        /\ Drives(r)' => p \in Beyond(b.op)
      BY <1>6, <1>7
    <2>1. p = "done"
      BY <1>8
    <2>2. b.op = "RESERVE" => row[k].status \in {"RESERVING", "REJECTED"}
      BY DEF IInv, Runs, LateCallsAreHarmless
    <2> QED
      BY <1>6, <1>7, <2>1, <2>2
  <1>10. /\ answer'[r] \in Terminal => row[k].status = answer'[r]
         /\ answer'[r] = "CREDITS_UNAVAILABLE" => row[k].status \in {"RELEASING", "FAILED"}
    <2>1. CASE answer'[r] = answer[r]
      BY <2>1 DEF IInv, Runs, AnsweredRow
    <2>2. CASE answer'[r] = a
      BY <1>1, <1>2, <2>2 DEF StatusAt
    <2> QED
      BY <1>5, <2>1, <2>2
  <1>11. Onward(row[k].status, row'[k].status)
    BY DEF Onward
  <1>12. row'[k].status \in Early => executions'[k] = 0
    BY <1>1 DEF IInv, Runs, Unexecuted
  <1>13. \A q \in Requests \ {r} : doubt'[q] = doubt[q] /\ answer'[q] = answer[q]
    BY DEF IInv, TypeOK
  <1>14. Moves(r, p)
    BY <1>1, <1>2, <1>7, <1>9, <1>10, <1>11, <1>12, <1>13 DEF Moves
  <1> QED
    BY <1>3, <1>4, <1>14, StepKeepsRuns DEF IInv, TypeOK

\* A credit call that is acknowledged.
LEMMA AcknowledgedKeeps ==
    ASSUME IInv, NEW r \in Requests, NEW p,
           UNCHANGED <<audit, doubt, late, executions>>, Goto(r, p),
           \/ pc[r] = "reserve" /\ p = "reserved" /\ ReserveOf(KeyOf[r])
           \/ pc[r] = "settle" /\ p = "settled" /\ SettleOf(KeyOf[r])
           \/ pc[r] = "release" /\ p = "released" /\ ReleaseOf(KeyOf[r], row[KeyOf[r]].reason)
    PROVE  IInv'
  <1> DEFINE k == KeyOf[r]
  <1>1. Drives(r) /\ pc[r] # "confirm"
    BY DEF Drives
  <1>2. k \in Keys /\ k \notin Legacy /\ row[k] \in Row /\ row[k].status \in StatusAt(pc[r])
    BY <1>1, Driven
  <1>3. /\ row' \in [Keys -> Row] /\ reservation' \in [Keys -> Credits]
        /\ \A l \in Keys \ {k} : row'[l] = row[l] /\ reservation'[l] = reservation[l]
        /\ Onward(row[k].status, row'[k].status) /\ row'[k].status \in StatusAt(p)
        /\ p = "reserved" => reservation'[k] = "RESERVED" /\ row'[k].status = "RESERVING"
        /\ Books'
    <2>1. CASE pc[r] = "reserve" /\ p = "reserved" /\ ReserveOf(k)
      <3>1. row[k].status = "RESERVING"
        BY <1>2, <2>1 DEF StatusAt
      <3> QED
        BY <1>2, <2>1, <3>1, ReserveWrites DEF Onward, StatusAt, Early, Terminal
    <2>2. CASE pc[r] = "settle" /\ p = "settled" /\ SettleOf(k)
      BY <1>2, <2>2, SettleWrites DEF Onward, StatusAt, Early, Terminal
    <2>3. CASE pc[r] = "release" /\ p = "released" /\ ReleaseOf(k, row[k].reason)
      <3>1. row[k].reason \in Reasons \cup {"NONE"}
        BY <1>2 DEF Row
      <3> QED
        BY <1>2, <2>3, <3>1, ReleaseWrites DEF Onward, StatusAt, Early, Terminal
    <2> QED
      BY <2>1, <2>2, <2>3
  <1>4. p \in {"reserved", "settled", "released"} /\ p \in Steps \ {"confirm"}
    BY DEF Steps
  <1>5. TypeOK'
    BY <1>3, <1>4 DEF IInv, TypeOK, Goto, Credits
  <1>6. \A c \in late : c.key = k => pc[r] = "release"
    <2>1. pc[r] # "release" => pc[r] \notin Beyond("RESERVE") \cup Beyond("SETTLE")
      BY DEF Beyond
    <2> QED
      BY <1>1, <2>1, NoCallGivenUp
  <1>7. \A c \in late : c.key = k =>
          row'[k].status # "ABSENT" /\ c.op # "RESERVE" /\ p \in Beyond(c.op)
    <2> SUFFICES ASSUME NEW c \in late, c.key = k
                 PROVE  row'[k].status # "ABSENT" /\ c.op # "RESERVE" /\ p \in Beyond(c.op)
      OBVIOUS
    <2>1. pc[r] = "release" /\ p = "released"
      BY <1>6
    <2>2. c.op \in {"RESERVE", "SETTLE", "RELEASE"} /\ pc[r] \in Beyond(c.op)
      BY <1>1 DEF IInv, TypeOK, Calls, Runs, LateCallsAreHarmless
    <2> QED
      BY <1>3, <2>1, <2>2 DEF Beyond, StatusAt
  <1>8. row'[k].status \in Early => executions'[k] = 0
    BY <1>1, <1>3, Driven DEF Early, Onward
  <1>9. /\ answer'[r] \in Terminal => row'[k].status = answer'[r]
        /\ answer'[r] = "CREDITS_UNAVAILABLE" => row'[k].status \in {"RELEASING", "FAILED"}
    BY <1>3 DEF IInv, Runs, AnsweredRow, Onward, Goto
  <1>10. Moves(r, p)
    BY <1>1, <1>2, <1>3, <1>4, <1>7, <1>8, <1>9 DEF Moves, Goto
  <1> QED
    BY <1>3, <1>5, <1>10, StepKeepsRuns DEF IInv, TypeOK

LEMMA CallsKeep ==
    ASSUME IInv, NEW r \in Requests, Reserve(r) \/ Settle(r) \/ Release(r)
    PROVE  IInv'
  <1> DEFINE k == KeyOf[r]
             call(op, reason) == [op |-> op, key |-> k, reason |-> reason]
  <1>0. Drives(r) => k \in Keys /\ row[k].reason \in Reasons \cup {"NONE"}
    BY Driven DEF Row
  <1>1. CASE Reserve(r)
    <2>1. pc[r] = "reserve" /\ Drives(r)
      BY <1>1 DEF Reserve, Drives
    <2>2. call("RESERVE", "NONE") \in Calls
      BY <1>0, <2>1 DEF Calls
    <2>3. \/ ReserveOf(k) /\ Goto(r, "reserved") /\ UNCHANGED late
          \/ /\ Goto(r, "refused") /\ late' = late \cup {call("RESERVE", "NONE")}
             /\ UNCHANGED <<row, reservation>>
          \/ Goto(r, "refused") /\ UNCHANGED <<row, reservation, late>>
      BY <1>1 DEF Reserve, Call, CallOf
    <2>4. UNCHANGED <<audit, doubt, executions>>
      BY <1>1 DEF Reserve
    <2>5. CASE ReserveOf(k) /\ Goto(r, "reserved") /\ UNCHANGED late
      BY <2>1, <2>4, <2>5, AcknowledgedKeeps
    <2>6. CASE /\ Goto(r, "refused") /\ late' = late \cup {call("RESERVE", "NONE")}
               /\ UNCHANGED <<row, reservation>>
      BY <2>1, <2>2, <2>4, <2>6, GivenUpKeeps DEF Goto
    <2>7. CASE Goto(r, "refused") /\ UNCHANGED <<row, reservation, late>>
      BY <2>1, <2>4, <2>7, GotoKeeps
    <2> QED
      BY <2>3, <2>5, <2>6, <2>7
  <1>2. CASE Settle(r)
    <2>1. pc[r] = "settle" /\ Drives(r)
      BY <1>2 DEF Settle, Drives
    <2>2. call("SETTLE", "NONE") \in Calls
      BY <1>0, <2>1 DEF Calls
    <2>3. \/ SettleOf(k) /\ Goto(r, "settled") /\ UNCHANGED late
          \/ /\ Goto(r, "unsettled") /\ late' = late \cup {call("SETTLE", "NONE")}
             /\ UNCHANGED <<row, reservation>>
      BY <1>2 DEF Settle, Call, CallOf
    <2>4. UNCHANGED <<audit, doubt, executions>>
      BY <1>2 DEF Settle
    <2>5. CASE SettleOf(k) /\ Goto(r, "settled") /\ UNCHANGED late
      BY <2>1, <2>4, <2>5, AcknowledgedKeeps
    <2>6. CASE /\ Goto(r, "unsettled") /\ late' = late \cup {call("SETTLE", "NONE")}
               /\ UNCHANGED <<row, reservation>>
      BY <2>1, <2>2, <2>4, <2>6, GivenUpKeeps DEF Goto
    <2> QED
      BY <2>3, <2>5, <2>6
  <1>3. CASE Release(r)
    <2>1. pc[r] = "release" /\ Drives(r)
      BY <1>3 DEF Release, Drives
    <2>2. call("RELEASE", row[k].reason) \in Calls
      BY <1>0, <2>1 DEF Calls
    <2>3. \/ ReleaseOf(k, row[k].reason) /\ Goto(r, "released") /\ UNCHANGED late
          \/ /\ Stop(r, "CREDITS_UNAVAILABLE")
             /\ late' = late \cup {call("RELEASE", row[k].reason)}
             /\ UNCHANGED <<row, reservation>>
      BY <1>3 DEF Release, Call, CallOf
    <2>4. UNCHANGED <<audit, doubt, executions>>
      BY <1>3 DEF Release
    <2>5. CASE ReleaseOf(k, row[k].reason) /\ Goto(r, "released") /\ UNCHANGED late
      BY <2>1, <2>4, <2>5, AcknowledgedKeeps
    <2>6. CASE /\ Stop(r, "CREDITS_UNAVAILABLE")
               /\ late' = late \cup {call("RELEASE", row[k].reason)}
               /\ UNCHANGED <<row, reservation>>
      BY <2>1, <2>2, <2>4, <2>6, GivenUpKeeps DEF Stop
    <2> QED
      BY <2>3, <2>5, <2>6
  <1> QED
    BY <1>1, <1>2, <1>3

LEMMA ExecuteKeeps ==
    ASSUME IInv, NEW r \in Requests, ExecuteProvider(r)
    PROVE  IInv'
  <1> DEFINE k == KeyOf[r]
  <1>1. /\ pc[r] = "execute" /\ Drives(r)
        /\ pc[r] \notin Beyond("RESERVE") \cup Beyond("SETTLE") /\ pc[r] # "confirm"
    BY DEF ExecuteProvider, Drives, Beyond
  <1>2. k \in Keys /\ k \notin Legacy /\ row[k].status = "EXECUTING"
    BY <1>1, Driven DEF StatusAt
  <1>3. "executed" \in Steps \ {"confirm"} /\ "EXECUTING" \in StatusAt("executed")
        /\ "EXECUTING" \notin Early /\ "EXECUTING" # "ABSENT"
        /\ "EXECUTING" \notin Terminal \cup {"RELEASING", "FAILED"}
    BY DEF Steps, StatusAt, Early, Terminal
  <1>4. TypeOK'
    BY <1>2, <1>3 DEF IInv, TypeOK, ExecuteProvider, Goto
  <1>5. Books'
    BY DEF IInv, Books, FinanceAgrees, AuditTruthful, RowIsCoherent, ExecuteProvider
  <1>6. \A l \in Keys \ {k} : executions'[l] = executions[l]
    BY DEF IInv, TypeOK, ExecuteProvider
  <1>7. /\ answer[r] \in Terminal => row[k].status = answer[r]
        /\ answer[r] = "CREDITS_UNAVAILABLE" => row[k].status \in {"RELEASING", "FAILED"}
    BY DEF IInv, Runs, AnsweredRow
  <1>8. Moves(r, "executed")
    BY <1>1, <1>2, <1>3, <1>6, <1>7, NoCallGivenUp DEF Moves, ExecuteProvider, Goto, Onward
  <1> QED
    BY <1>4, <1>5, <1>8, StepKeepsRuns DEF IInv, TypeOK

LEMMA AuditKeeps ==
    ASSUME IInv, NEW r \in Requests, Audit(r)
    PROVE  IInv'
  <1> DEFINE k == KeyOf[r]
  <1>1. pc[r] \in Terminal /\ Drives(r) /\ Stop(r, pc[r])
    BY DEF Audit, Drives, Terminal
  <1>2. k \in Keys /\ k \notin Legacy /\ row[k].status = pc[r]
    BY <1>1, Driven DEF StatusAt, Terminal
  <1>3. "done" \in Steps \ {"confirm"} /\ pc[r] \in Answers
    BY <1>1 DEF Steps, Answers
  <1>4. CASE UNCHANGED <<row, audit>>
    <2>1. Quiet(r, "done", pc[r])
      BY <1>1, <1>3, <1>4 DEF Audit, Stop, Quiet
    <2> QED
      BY <2>1, QuietKeeps
  <1>5. CASE RecordAuditOf(k)
    <2>1. UNCHANGED <<reservation, doubt, late, executions>>
      BY DEF Audit
    <2>2. /\ row' \in [Keys -> Row]
          /\ audit' \in [Keys -> [status : Terminal \cup {"NONE"}, charged : Nat]]
          /\ \A l \in Keys \ {k} : row'[l] = row[l] /\ reservation'[l] = reservation[l]
          /\ row'[k].status = row[k].status
          /\ Books'
      BY <1>2, <1>5, <2>1, AuditWrites
    <2>3. TypeOK'
      BY <1>3, <1>1, <2>1, <2>2 DEF IInv, TypeOK, Stop
    <2>4. ~Drives(r)' /\ answer'[r] = pc[r]
      BY <1>1 DEF Stop, Drives, IInv, TypeOK
    <2>5. /\ Onward(row[k].status, row'[k].status)
          /\ row'[k].status \in Early => executions'[k] = 0
      BY <1>2, <2>1, <2>2 DEF Onward, IInv, Runs, Unexecuted
    <2>6. \A c \in late : c.key = k =>
             row'[k].status # "ABSENT" /\ (c.op = "RESERVE" => row'[k].status \in {"RESERVING", "REJECTED"})
      BY <2>2 DEF IInv, Runs, LateCallsAreHarmless
    <2>7. "CREDITS_UNAVAILABLE" \notin Terminal
      BY DEF Terminal
    <2>8. Moves(r, "done")
      BY <1>1, <1>2, <1>3, <2>1, <2>2, <2>4, <2>5, <2>6, <2>7 DEF Moves, Stop, IInv, TypeOK
    <2> QED
      BY <2>1, <2>2, <2>3, <2>8, StepKeepsRuns DEF IInv, TypeOK
  <1> QED
    BY <1>4, <1>5 DEF Audit

\* A step of the database on one key that no request takes.
LEMMA DatabaseKeeps ==
    ASSUME IInv, NEW k \in Keys, Books',
           UNCHANGED <<pc, doubt, answer, executions>>, late' \subseteq late,
           row' \in [Keys -> Row], reservation' \in [Keys -> Credits],
           audit' \in [Keys -> [status : Terminal \cup {"NONE"}, charged : Nat]],
           \A l \in Keys \ {k} : row'[l] = row[l] /\ reservation'[l] = reservation[l],
           Onward(row[k].status, row'[k].status), row[k].status # "ABSENT",
           \A r \in Requests : Drives(r) /\ KeyOf[r] = k =>
               /\ row'[k].status \in StatusAt(pc[r])
               /\ pc[r] = "reserved" => reservation'[k] = "RESERVED",
           \A c \in late' : c.key = k /\ c.op = "RESERVE" =>
               row'[k].status \in {"RESERVING", "REJECTED"}
    PROVE  IInv'
  <1>1. Runs'
    BY DatabaseKeepsRuns
  <1>2. TypeOK'
    BY DEF IInv, TypeOK, Credits
  <1> QED
    BY <1>1, <1>2 DEF IInv

\* What is known of the drivers of a key and of its late reserve calls.
LEMMA Drivers ==
    ASSUME IInv, NEW k \in Keys
    PROVE  /\ \A r \in Requests : Drives(r) /\ KeyOf[r] = k =>
                 /\ k \notin Legacy /\ row[k].status \in StatusAt(pc[r])
                 /\ pc[r] = "reserved" => reservation[k] = "RESERVED"
           /\ \A c \in late : c.key = k /\ c.op = "RESERVE" =>
                 row[k].status \in {"RESERVING", "REJECTED"}
  BY DEF IInv, Runs, DriverKnowsRow, LateCallsAreHarmless

\* A row that fails while its credits are released still suits its driver.
LEMMA FailedSuits ==
    ASSUME NEW step \in Steps, NEW s \in {"RELEASING", "FAILED"}, s \in StatusAt(step)
    PROVE  "FAILED" \in StatusAt(step) /\ step # "reserved"
  BY DEF StatusAt, Steps, Terminal, Running

LEMMA ReleasesKeep ==
    ASSUME IInv, NEW k \in Keys, NEW reason \in Reasons \cup {"NONE"}, ReleaseOf(k, reason),
           UNCHANGED <<audit, pc, doubt, answer, executions>>, late' \subseteq late
    PROVE  IInv'
  <1>1. /\ row' \in [Keys -> Row] /\ reservation' \in [Keys -> Credits]
        /\ \A l \in Keys \ {k} : row'[l] = row[l] /\ reservation'[l] = reservation[l]
        /\ row[k].status \in {"RELEASING", "FAILED"} /\ row'[k].status = "FAILED"
        /\ Books'
    BY ReleaseWrites
  <1>2. Onward(row[k].status, row'[k].status)
    BY <1>1 DEF Onward, Early, Terminal
  <1>3. \A r \in Requests : Drives(r) /\ KeyOf[r] = k =>
            "FAILED" \in StatusAt(pc[r]) /\ pc[r] # "reserved"
    BY <1>1, Drivers, FailedSuits DEF IInv, TypeOK
  <1>4. \A c \in late : c.key = k => c.op # "RESERVE"
    BY <1>1, Drivers
  <1>5. audit' \in [Keys -> [status : Terminal \cup {"NONE"}, charged : Nat]]
    BY DEF IInv, TypeOK
  <1> QED
    BY <1>1, <1>2, <1>3, <1>4, <1>5, DatabaseKeeps

LEMMA LateKeeps ==
    ASSUME IInv, NEW c \in late, ExecuteLate(c)
    PROVE  IInv'
  <1> DEFINE k == c.key
  <1>1. /\ k \in Keys /\ c.op \in {"RESERVE", "SETTLE", "RELEASE"}
        /\ c.reason \in Reasons \cup {"NONE"}
    BY DEF IInv, TypeOK, Calls
  <1>2. /\ k \notin Legacy /\ row[k].status # "ABSENT"
        /\ c.op = "RESERVE" => row[k].status \in {"RESERVING", "REJECTED"}
    BY DEF IInv, Runs, LateCallsAreHarmless
  <1>3. /\ UNCHANGED <<audit, pc, doubt, answer, executions>> /\ late' \subseteq late
        /\ audit' \in [Keys -> [status : Terminal \cup {"NONE"}, charged : Nat]]
    BY DEF ExecuteLate, IInv, TypeOK
  <1>4. CASE c.op = "RESERVE" /\ ReserveOf(k)
    <2>1. /\ row' = row /\ row' \in [Keys -> Row] /\ reservation' \in [Keys -> Credits]
          /\ \A l \in Keys \ {k} : row'[l] = row[l] /\ reservation'[l] = reservation[l]
          /\ reservation'[k] = "RESERVED"
          /\ Books'
      BY <1>1, <1>2, <1>3, <1>4, ReserveWrites
    <2>2. Onward(row[k].status, row'[k].status)
      BY <2>1 DEF Onward
    <2>3. row'[k].status \in {"RESERVING", "REJECTED"}
      BY <1>2, <1>4, <2>1
    <2> QED
      BY <1>1, <1>2, <1>3, <2>1, <2>2, <2>3, Drivers, DatabaseKeeps
  <1>5. CASE c.op = "SETTLE" /\ SettleOf(k)
    <2>1. /\ row' \in [Keys -> Row] /\ reservation' \in [Keys -> Credits]
          /\ \A l \in Keys \ {k} : row'[l] = row[l] /\ reservation'[l] = reservation[l]
          /\ row[k].status = "SETTLING" /\ row'[k].status = "SUCCEEDED"
          /\ Books'
      BY <1>1, <1>3, <1>5, SettleWrites
    <2>2. Onward(row[k].status, row'[k].status)
      BY <2>1 DEF Onward, Early, Terminal
    <2>3. ASSUME NEW r \in Requests, Drives(r), KeyOf[r] = k
          PROVE  "SUCCEEDED" \in StatusAt(pc[r]) /\ pc[r] # "reserved"
      <3>1. pc[r] \in Beyond("SETTLE") \/ pc[r] = "confirm"
        BY <1>5, <2>3 DEF IInv, Runs, LateCallsAreHarmless
      <3>2. "SETTLING" \in StatusAt(pc[r])
        BY <1>1, <2>1, <2>3, Drivers
      <3> QED
        BY <3>1, <3>2 DEF Beyond, StatusAt, Terminal
    <2>4. \A b \in late : b.key = k => b.op # "RESERVE"
      BY <1>1, <2>1, Drivers
    <2> QED
      BY <1>1, <1>2, <1>3, <2>1, <2>2, <2>3, <2>4, DatabaseKeeps
  <1>6. CASE c.op = "RELEASE" /\ ReleaseOf(k, c.reason)
    BY <1>1, <1>3, <1>6, ReleasesKeep
  <1> QED
    BY <1>4, <1>5, <1>6 DEF ExecuteLate, CallOf

LEMMA ReconcileKeeps ==
    ASSUME IInv, NEW k \in Keys, Reconcile(k)
    PROVE  IInv'
  <1>1. CASE ReconcileRelease(k)
    <2>1. ReleaseReason(k) \in Reasons \cup {"NONE"}
      <3>1. row[k].reason \in Reasons \cup {"NONE"}
        BY DEF IInv, TypeOK, Row
      <3> QED
        BY <3>1 DEF ReleaseReason, Reasons
    <2> QED
      BY <1>1, <2>1, ReleasesKeep DEF ReconcileRelease
  <1>2. CASE ReconcileSettlement(k)
    <2> DEFINE new == [row[k] EXCEPT !.status = "SUCCEEDED", !.charged = Units[k],
                                     !.auditStatus = "PENDING"]
    <2>1. /\ row[k].status = "SETTLING" /\ reservation[k] = "SETTLED"
          /\ row' = [row EXCEPT ![k] = new]
          /\ UNCHANGED <<reservation, audit, pc, doubt, answer, late, executions>>
      BY <1>2 DEF ReconcileSettlement
    <2>2. row[k] \in Row /\ Units[k] \in Nat
      BY InvocationAssumption DEF IInv, TypeOK
    <2>3. /\ new \in Row /\ new.status = "SUCCEEDED" /\ new.charged = Units[k]
          /\ new.auditStatus = "PENDING" /\ new.result = row[k].result
      BY <2>2 DEF Row, Terminal
    <2> HIDE DEF new
    <2>4. k \in Legacy
      BY <2>1 DEF IInv, Books, FinanceAgrees, CreditOf
    <2>5. row[k].result = "VALIDATED" /\ audit[k] = NoAudit
      BY <2>1, AuditedIsTerminal DEF IInv, Books, RowIsCoherent, Terminal
    <2>6. /\ row' \in [Keys -> Row] /\ reservation' \in [Keys -> Credits]
          /\ audit' \in [Keys -> [status : Terminal \cup {"NONE"}, charged : Nat]]
          /\ row'[k] = new
          /\ \A l \in Keys \ {k} : row'[l] = row[l] /\ reservation'[l] = reservation[l]
      BY <2>1, <2>3 DEF IInv, TypeOK, Credits
    <2>7. Books'
      <3>1. reservation'[k] \in LegacyCreditOf("SUCCEEDED")
        BY <2>1 DEF LegacyCreditOf
      <3> QED
        BY <2>1, <2>3, <2>4, <2>5, <2>6, <3>1, WriteKeepsBooks DEF IInv
    <2>8. Onward(row[k].status, row'[k].status)
      BY <2>1, <2>3, <2>6 DEF Onward, Early, Terminal
    <2> QED
      BY <2>1, <2>4, <2>6, <2>7, <2>8, Drivers, DatabaseKeeps
  <1>3. CASE ReconcileAudit(k)
    <2>1. /\ RecordAuditOf(k)
          /\ UNCHANGED <<reservation, pc, doubt, answer, late, executions>>
      BY <1>3 DEF ReconcileAudit
    <2>2. /\ row' \in [Keys -> Row]
          /\ audit' \in [Keys -> [status : Terminal \cup {"NONE"}, charged : Nat]]
          /\ \A l \in Keys \ {k} : row'[l] = row[l] /\ reservation'[l] = reservation[l]
          /\ row'[k].status = row[k].status
          /\ Books'
      BY <2>1, AuditWrites
    <2>3. reservation' \in [Keys -> Credits] /\ row[k].status # "ABSENT"
      BY <2>1 DEF IInv, TypeOK, Credits, RecordAuditOf, Terminal
    <2>4. Onward(row[k].status, row'[k].status)
      BY <2>2 DEF Onward
    <2> QED
      BY <2>1, <2>2, <2>3, <2>4, Drivers, DatabaseKeeps
  <1> QED
    BY <1>1, <1>2, <1>3 DEF Reconcile

-----------------------------------------------------------------------------
(* The invariant                                                             *)

\* The rows an earlier release left have what the reconciler needs to close them.
LEMMA InterruptedFacts ==
    ASSUME NEW f \in Fingerprints, NEW w \in Interrupted(f)
    PROVE  /\ w.row \in Row /\ w.credit \in Credits
           /\ w.audit \in [status : Terminal \cup {"NONE"}, charged : Nat]
           /\ w.row.status \in {"SETTLING", "RELEASING", "FAILED"}
           /\ w.credit \in LegacyCreditOf(w.row.status)
           /\ w.row.charged = 0
           /\ w.row.status = "SETTLING" => w.row.result = "VALIDATED"
           /\ w.audit # NoAudit => w.audit = [status |-> w.row.status, charged |-> w.row.charged]
           /\ w.row.auditStatus = "RECORDED" => w.audit # NoAudit
           /\ w.audit # NoAudit => w.audit.status \in Terminal
  <1> DEFINE left(s, u) == [AbsentRow EXCEPT !.status = s, !.result = u, !.fingerprint = f]
             failed == [left("FAILED", "FAILED") EXCEPT !.auditStatus = "RECORDED"]
             told == [status |-> "FAILED", charged |-> 0]
  <1>1. \/ w = [row |-> left("SETTLING", "VALIDATED"), credit |-> "SETTLED", audit |-> NoAudit]
        \/ w = [row |-> left("RELEASING", "FAILED"), credit |-> "RELEASED", audit |-> NoAudit]
        \/ w = [row |-> left("FAILED", "INVALID"), credit |-> "RESERVED", audit |-> NoAudit]
        \/ w = [row |-> failed, credit |-> "RESERVED", audit |-> told]
    BY Zenon DEF Interrupted
  <1>2. AbsentRow \in Row /\ AbsentRow.charged = 0 /\ AbsentRow.auditStatus = "PENDING"
    BY RestingTypes DEF AbsentRow
  <1>3. ASSUME NEW s \in {"SETTLING", "RELEASING", "FAILED"},
               NEW u \in {"VALIDATED", "FAILED", "INVALID"}
        PROVE  /\ left(s, u) \in Row /\ left(s, u).status = s /\ left(s, u).result = u
               /\ left(s, u).charged = 0 /\ left(s, u).auditStatus = "PENDING"
    <2>1. s \in Running \cup Terminal \cup {"ABSENT"} /\ u \in Results
      BY DEF Running, Terminal, Results
    <2> QED
      BY <1>2, <2>1 DEF Row
  <1>4. /\ failed \in Row /\ failed.status = "FAILED" /\ failed.charged = 0
        /\ failed.auditStatus = "RECORDED"
    <2>1. ASSUME NEW v \in Row
          PROVE  LET u == [v EXCEPT !.auditStatus = "RECORDED"] IN
                 /\ u \in Row /\ u.status = v.status /\ u.charged = v.charged
                 /\ u.auditStatus = "RECORDED"
      BY DEF Row
    <2>2. /\ left("FAILED", "FAILED") \in Row /\ left("FAILED", "FAILED").status = "FAILED"
          /\ left("FAILED", "FAILED").charged = 0
      BY <1>3
    <2> QED
      BY <2>1, <2>2
  <1>5. told # NoAudit /\ told \in [status : Terminal \cup {"NONE"}, charged : Nat]
    BY DEF NoAudit, Terminal
  <1> HIDE DEF left, failed
  <1>6. CASE w = [row |-> left("SETTLING", "VALIDATED"), credit |-> "SETTLED", audit |-> NoAudit]
    <2>1. w.row = left("SETTLING", "VALIDATED") /\ w.credit = "SETTLED" /\ w.audit = NoAudit
      BY <1>6
    <2> QED
      BY <1>3, <2>1, RestingTypes DEF LegacyCreditOf, Credits
  <1>7. CASE w = [row |-> left("RELEASING", "FAILED"), credit |-> "RELEASED", audit |-> NoAudit]
    <2>1. w.row = left("RELEASING", "FAILED") /\ w.credit = "RELEASED" /\ w.audit = NoAudit
      BY <1>7
    <2> QED
      BY <1>3, <2>1, RestingTypes DEF LegacyCreditOf, Credits
  <1>8. CASE w = [row |-> left("FAILED", "INVALID"), credit |-> "RESERVED", audit |-> NoAudit]
    <2>1. w.row = left("FAILED", "INVALID") /\ w.credit = "RESERVED" /\ w.audit = NoAudit
      BY <1>8
    <2> QED
      BY <1>3, <2>1, RestingTypes DEF LegacyCreditOf, Credits
  <1>9. CASE w = [row |-> failed, credit |-> "RESERVED", audit |-> told]
    <2>1. w.row = failed /\ w.credit = "RESERVED" /\ w.audit = told
      BY <1>9
    <2> QED
      BY <1>4, <1>5, <2>1, RestingTypes DEF LegacyCreditOf, Credits, Terminal
  <1> QED
    BY <1>1, <1>6, <1>7, <1>8, <1>9

LEMMA InitHolds == Init => IInv
  <1> SUFFICES ASSUME Init PROVE IInv
    OBVIOUS
  <1>1. PICK past \in [Legacy -> UNION {Interrupted(f) : f \in Fingerprints}] :
            /\ row = [k \in Keys |-> (IF k \in Legacy THEN past[k] ELSE Unused).row]
            /\ reservation = [k \in Keys |-> (IF k \in Legacy THEN past[k] ELSE Unused).credit]
            /\ audit = [k \in Keys |-> (IF k \in Legacy THEN past[k] ELSE Unused).audit]
    BY Zenon DEF Init
  <1>2. /\ pc = [r \in Requests |-> "lookup"] /\ doubt = [r \in Requests |-> NoDoubt]
        /\ answer = [r \in Requests |-> "NONE"] /\ late = {}
        /\ executions = [k \in Keys |-> 0]
    BY Zenon DEF Init
  <1>3. ASSUME NEW k \in Legacy
        PROVE  /\ row[k] \in Row /\ reservation[k] \in Credits
               /\ audit[k] \in [status : Terminal \cup {"NONE"}, charged : Nat]
               /\ row[k].status \in {"SETTLING", "RELEASING", "FAILED"}
               /\ reservation[k] \in LegacyCreditOf(row[k].status)
               /\ row[k].charged = 0
               /\ row[k].status = "SETTLING" => row[k].result = "VALIDATED"
               /\ audit[k] # NoAudit =>
                     audit[k] = [status |-> row[k].status, charged |-> row[k].charged]
               /\ row[k].auditStatus = "RECORDED" => audit[k] # NoAudit
               /\ audit[k] # NoAudit => audit[k].status \in Terminal
    <2>1. PICK f \in Fingerprints : past[k] \in Interrupted(f)
      OBVIOUS
    <2>2. /\ row[k] = past[k].row /\ reservation[k] = past[k].credit
          /\ audit[k] = past[k].audit
      BY <1>1, InvocationAssumption
    <2> QED
      BY <2>1, <2>2, InterruptedFacts
  <1>4. ASSUME NEW k \in Keys \ Legacy
        PROVE  row[k] = AbsentRow /\ reservation[k] = "NONE" /\ audit[k] = NoAudit
    BY <1>1 DEF Unused
  <1>5. TypeOK
    <2>1. row \in [Keys -> Row]
      BY <1>1, <1>3, <1>4, RestingTypes
    <2>2. reservation \in [Keys -> Credits]
      BY <1>1, <1>3, <1>4 DEF Credits
    <2>3. audit \in [Keys -> [status : Terminal \cup {"NONE"}, charged : Nat]]
      BY <1>1, <1>3, <1>4, RestingTypes
    <2>4. /\ pc \in [Requests -> Steps] /\ answer \in [Requests -> Answers]
          /\ late \subseteq Calls /\ executions \in [Keys -> Nat]
      BY <1>2 DEF Steps, Answers
    <2>5. doubt \in [Requests -> [row : Row, stamped : BOOLEAN, next : Steps]]
      BY <1>2, RestingTypes
    <2> QED
      BY <2>1, <2>2, <2>3, <2>4, <2>5 DEF TypeOK, Credits
  <1>6. ASSUME NEW k \in Keys
        PROVE  /\ row[k].charged = 0 /\ row[k].status # "SUCCEEDED"
               /\ reservation[k] \in IF k \in Legacy THEN LegacyCreditOf(row[k].status)
                                                     ELSE CreditOf(row[k].status)
               /\ row[k].status = "SETTLING" => row[k].result = "VALIDATED"
               /\ audit[k] # NoAudit =>
                     audit[k] = [status |-> row[k].status, charged |-> row[k].charged]
               /\ row[k].auditStatus = "RECORDED" => audit[k] # NoAudit
               /\ audit[k] # NoAudit => audit[k].status \in Terminal
    <2>1. CASE k \in Legacy
      BY <1>3, <2>1
    <2>2. CASE k \notin Legacy
      BY <1>4, <2>2 DEF AbsentRow, CreditOf
    <2> QED
      BY <2>1, <2>2
  <1>7. Books
    BY <1>6 DEF Books, FinanceAgrees, AuditTruthful, RowIsCoherent
  <1>8. Runs
    BY <1>2 DEF Runs, DriverKnowsRow, DoubtIsSafe, LateCallsAreHarmless, AnsweredRow,
                Unexecuted, Drives, Terminal
  <1> QED
    BY <1>5, <1>7, <1>8 DEF IInv

LEMMA NextKeeps == IInv /\ [Next]_vars => IInv'
  <1> SUFFICES ASSUME IInv, [Next]_vars PROVE IInv'
    OBVIOUS
  <1>1. ASSUME NEW r \in Requests, Run(r) PROVE IInv'
    BY <1>1, TransitionsKeep, QuietActionsKeep, InsertKeeps, CallsKeep, ExecuteKeeps,
       AuditKeeps DEF Run
  <1>2. ASSUME NEW r \in Requests, Crash(r) PROVE IInv'
    BY <1>2, QuietActionsKeep
  <1>3. ASSUME NEW c \in late, ExecuteLate(c) PROVE IInv'
    BY <1>3, LateKeeps
  <1>4. ASSUME NEW k \in Keys, Reconcile(k) PROVE IInv'
    BY <1>4, ReconcileKeeps
  <1>5. CASE UNCHANGED vars
    BY <1>5 DEF vars, IInv, TypeOK, Books, FinanceAgrees, AuditTruthful, RowIsCoherent,
                Runs, DriverKnowsRow, DoubtIsSafe, LateCallsAreHarmless, AnsweredRow,
                Unexecuted, Drives
  <1> QED
    BY <1>1, <1>2, <1>3, <1>4, <1>5 DEF Next

\* In every reachable state rows, reservations and audit agree, one request at
\* a time drives a row, and every call under way is harmless.
THEOREM Invariance == Spec => []IInv
  BY InitHolds, NextKeeps, PTL DEF Spec

-----------------------------------------------------------------------------
(* The properties the runs check                                             *)

\* Every variable holds only what the columns and the locals can hold.
THEOREM InvocationTypes == Spec => []TypeOK
  BY Invariance, PTL DEF IInv

\* Row and ledger agree about money in every reachable state: only a succeeded
\* and validated invocation has settled credits, a failed one has them back.
THEOREM BooksAgree == Spec => []FinanceAgrees
  BY Invariance, PTL DEF IInv, Books

\* The business audit record, once written, says what the row says.
THEOREM AuditIsTruthful == Spec => []AuditTruthful
  BY Invariance, PTL DEF IInv, Books

\* A row that reached validation had its one provider call, and the answer that
\* says nothing of a charge is never given about a row of an earlier release.
ServedOnce ==
    /\ \A k \in Keys \ Legacy : row[k].status \in Served => executions[k] = 1
    /\ \A r \in Requests :
          /\ pc[r] = "executed" => executions[KeyOf[r]] = 1
          /\ answer[r] = "INTERNAL_CONFIGURATION_ERROR" => KeyOf[r] \notin Legacy

\* What a step does to the three things ServedOnce relates.
ServesOn ==
    /\ \A k \in Keys \ Legacy : row'[k].status \in Served =>
          \/ row[k].status \in Served
          \/ \E r \in Requests : pc[r] = "executed" /\ KeyOf[r] = k
    /\ \A r \in Requests :
          /\ pc'[r] = "executed" => pc[r] = "executed"
          /\ answer'[r] = "INTERNAL_CONFIGURATION_ERROR" =>
                answer[r] = "INTERNAL_CONFIGURATION_ERROR" \/ KeyOf[r] \notin Legacy

LEMMA TransitsServeOn ==
    ASSUME IInv, NEW r \in Requests, Transits(r)
    PROVE  ServesOn /\ UNCHANGED executions
  <1>1. PICK from, new, stamped, next :
            Transition(r, from, new, stamped, next) /\ Permitted(r, from, new, stamped, next)
    BY DEF Transits
  <1>2. /\ UNCHANGED <<executions, answer>>
        /\ row' = row \/ (row[KeyOf[r]].status = from /\ row' = [row EXCEPT ![KeyOf[r]] = new])
        /\ pc' = [pc EXCEPT ![r] = next] \/ pc' = [pc EXCEPT ![r] = "confirm"]
    BY <1>1, TransitionEffect
  <1>3. /\ new.status \in Served => from \in Served \/ pc[r] = "executed"
        /\ next \in Targets /\ "executed" \notin Targets \cup {"confirm"}
    BY <1>1 DEF Permitted, Targets, Terminal
  <1>4. row \in [Keys -> Row] /\ pc \in [Requests -> Steps]
    BY DEF IInv, TypeOK
  <1>5. \A k \in Keys : row'[k].status \in Served =>
            row[k].status \in Served \/ (pc[r] = "executed" /\ KeyOf[r] = k)
    BY <1>2, <1>3, <1>4
  <1>6. \A q \in Requests : pc'[q] = "executed" => pc[q] = "executed"
    BY <1>2, <1>3, <1>4
  <1> QED
    BY <1>2, <1>5, <1>6 DEF ServesOn

\* A request goes on, or stops with an answer that is either not the silent one
\* or about a row it drives.
LEMMA StepsServeOn ==
    ASSUME IInv, NEW r \in Requests, NEW p,
           \/ Goto(r, p)
           \/ \E a : Stop(r, a) /\ p = "done"
                     /\ (a = "INTERNAL_CONFIGURATION_ERROR" => KeyOf[r] \notin Legacy),
           p # "executed",
           \A k \in Keys \ Legacy : row'[k].status \in Served => row[k].status \in Served
    PROVE  ServesOn
  <1>1. pc' = [pc EXCEPT ![r] = p]
    BY DEF Goto, Stop
  <1>2. \A q \in Requests : pc'[q] = "executed" => pc[q] = "executed"
    BY <1>1 DEF IInv, TypeOK
  <1>3. \A q \in Requests : answer'[q] = "INTERNAL_CONFIGURATION_ERROR" =>
            answer[q] = "INTERNAL_CONFIGURATION_ERROR" \/ KeyOf[q] \notin Legacy
    BY DEF Goto, Stop, IInv, TypeOK
  <1> QED
    BY <1>2, <1>3 DEF ServesOn

\* The database functions serve nothing.
LEMMA CreditsServeNothing ==
    ASSUME IInv, NEW k \in Keys, NEW reason \in Reasons \cup {"NONE"},
           ReserveOf(k) \/ SettleOf(k) \/ ReleaseOf(k, reason)
    PROVE  \A l \in Keys : row'[l].status \in Served => row[l].status \in Served
  <1>0. row \in [Keys -> Row]
    BY DEF IInv, TypeOK
  <1>1. CASE ReserveOf(k)
    BY <1>1 DEF ReserveOf
  <1>2. CASE SettleOf(k)
    <2>1. /\ row[k].status = "SETTLING" /\ \A l \in Keys \ {k} : row'[l] = row[l]
      BY <1>0, <1>2 DEF SettleOf
    <2> QED
      BY <2>1 DEF Served
  <1>3. CASE ReleaseOf(k, reason)
    <2> DEFINE new == [row[k] EXCEPT !.status = "FAILED", !.charged = 0, !.reason = reason,
                                     !.auditStatus = "PENDING"]
    <2>1. row' = [row EXCEPT ![k] = new]
      BY <1>3 DEF ReleaseOf
    <2>2. new.status = "FAILED"
      BY <1>0 DEF Row
    <2> HIDE DEF new
    <2> QED
      BY <1>0, <2>1, <2>2 DEF Served
  <1> QED
    BY <1>1, <1>2, <1>3

LEMMA AuditServesNothing ==
    ASSUME IInv, NEW k \in Keys, RecordAuditOf(k)
    PROVE  \A l \in Keys : row'[l].status = row[l].status
  <1>1. row' = [row EXCEPT ![k].auditStatus = "RECORDED"] /\ row \in [Keys -> Row]
    BY DEF RecordAuditOf, IInv, TypeOK
  <1>2. row'[k] = [row[k] EXCEPT !.auditStatus = "RECORDED"] /\ row[k] \in Row
    BY <1>1
  <1>3. row'[k].status = row[k].status
    BY <1>2 DEF Row
  <1> QED
    BY <1>1, <1>3

\* Every step but the provider call serves on and calls nothing.
LEMMA AllServeOn ==
    ASSUME IInv, [Next]_vars
    PROVE  \/ ServesOn /\ UNCHANGED executions
           \/ \E r \in Requests : ExecuteProvider(r)
  <1>1. ASSUME NEW r \in Requests, Run(r), ~ExecuteProvider(r)
        PROVE  ServesOn /\ UNCHANGED executions
    <2> DEFINE k == KeyOf[r]
    <2>0. k \in Keys /\ row[k].reason \in Reasons \cup {"NONE"} /\ "NONE" \in Reasons \cup {"NONE"}
      BY InvocationAssumption DEF IInv, TypeOK, Row
    <2>1. CASE \/ Gates(r) \/ ResolveMonth(r) \/ ReserveRefused(r) \/ Reserved(r)
               \/ LoadContext(r) \/ Executed(r) \/ Validate(r) \/ SettleFailed(r)
               \/ Settled(r) \/ Released(r)
      BY <2>1, TransitionsTransit, TransitsServeOn
    <2>2. CASE LeaseProvider(r)
      <3>1. CASE Goto(r, "execute") /\ UNCHANGED <<row, executions>>
        BY <3>1, StepsServeOn
      <3>2. CASE pc[r] = "lease" /\ Fail(r, "EXECUTING", "FAILED", "INTERNAL_FAILURE")
        BY <3>2, TransitionsTransit, TransitsServeOn
      <3> QED
        BY <2>2, <3>1, <3>2 DEF LeaseProvider
    <2>3. ASSUME Duplicate(r), UNCHANGED <<row, executions>> PROVE ServesOn
      <3>1. PICK a : Stop(r, a) /\ a # "INTERNAL_CONFIGURATION_ERROR"
        BY <2>3 DEF Duplicate
      <3> QED
        BY <2>3, <3>1, StepsServeOn
    <2>4. CASE Lookup(r)
      BY <2>3, <2>4, StepsServeOn DEF Lookup
    <2>5. CASE RecordTechnicalUsage(r)
      BY <2>5, StepsServeOn DEF RecordTechnicalUsage
    <2>6. CASE Confirm(r)
      <3>1. Drives(r) /\ pc[r] = "confirm" /\ UNCHANGED <<row, executions>>
        BY <2>6 DEF Confirm, Drives
      <3>2. k \notin Legacy /\ doubt[r].next \in Targets /\ "executed" \notin Targets
        BY <3>1, Driven DEF IInv, Runs, DoubtIsSafe, Targets, Terminal
      <3>3. Goto(r, doubt[r].next) \/ Stop(r, "INTERNAL_CONFIGURATION_ERROR")
        BY <2>6 DEF Confirm
      <3> QED
        BY <3>1, <3>2, <3>3, StepsServeOn
    <2>7. CASE Insert(r)
      <3>1. CASE row[k].status # "ABSENT"
        BY <2>3, <2>7, <3>1 DEF Insert
      <3>2. CASE row[k].status = "ABSENT"
        <4> DEFINE new == [AbsentRow EXCEPT !.status = "RECEIVED", !.fingerprint = Fingerprint[r]]
        <4>1. /\ row' = [row EXCEPT ![k] = new] /\ UNCHANGED executions
              /\ Goto(r, "gates") \/ Stop(r, "INTERNAL_CONFIGURATION_ERROR")
          BY <2>7, <3>2 DEF Insert
        <4>2. new.status = "RECEIVED"
          BY DEF AbsentRow
        <4> HIDE DEF new
        <4>3. k \notin Legacy
          BY <2>0, <3>2 DEF IInv, Books, FinanceAgrees, LegacyCreditOf
        <4>4. \A l \in Keys : row'[l].status \in Served => row[l].status \in Served
          BY <4>1, <4>2 DEF IInv, TypeOK, Served
        <4> QED
          BY <4>1, <4>3, <4>4, StepsServeOn
      <3> QED
        BY <3>1, <3>2
    <2>8. CASE Audit(r)
      <3>1. /\ Stop(r, pc[r]) /\ pc[r] \in Terminal /\ UNCHANGED executions
            /\ RecordAuditOf(k) \/ UNCHANGED row
        BY <2>8 DEF Audit
      <3>2. \A l \in Keys : row'[l].status = row[l].status
        BY <2>0, <3>1, AuditServesNothing
      <3> QED
        BY <3>1, <3>2, StepsServeOn DEF Terminal
    <2>9. CASE Reserve(r) \/ Settle(r) \/ Release(r)
      <3>1. /\ UNCHANGED executions
            /\ \/ UNCHANGED row
               \/ ReserveOf(k) \/ SettleOf(k) \/ ReleaseOf(k, row[k].reason)
            /\ \/ \E p \in {"reserved", "refused", "settled", "unsettled", "released"} : Goto(r, p)
               \/ Stop(r, "CREDITS_UNAVAILABLE")
        BY <2>9 DEF Reserve, Settle, Release, Call, CallOf
      <3>2. \A l \in Keys : row'[l].status \in Served => row[l].status \in Served
        BY <2>0, <3>1, CreditsServeNothing
      <3> QED
        BY <3>1, <3>2, StepsServeOn
    <2> QED
      BY <1>1, <2>1, <2>2, <2>4, <2>5, <2>6, <2>7, <2>8, <2>9 DEF Run
  <1>2. ASSUME NEW r \in Requests, Crash(r) PROVE ServesOn /\ UNCHANGED executions
    BY <1>2, StepsServeOn DEF Crash
  <1>3. ASSUME NEW c \in late, ExecuteLate(c) PROVE ServesOn /\ UNCHANGED executions
    <2>1. /\ c.key \in Keys /\ c.reason \in Reasons \cup {"NONE"}
          /\ UNCHANGED <<pc, answer, executions>>
      BY <1>3 DEF IInv, TypeOK, Calls, ExecuteLate
    <2>2. \A l \in Keys : row'[l].status \in Served => row[l].status \in Served
      BY <1>3, <2>1, CreditsServeNothing DEF ExecuteLate, CallOf
    <2> QED
      BY <2>1, <2>2 DEF ServesOn
  <1>4. ASSUME NEW k \in Keys, Reconcile(k) PROVE ServesOn /\ UNCHANGED executions
    <2>0. ReleaseReason(k) \in Reasons \cup {"NONE"}
      <3>1. row[k].reason \in Reasons \cup {"NONE"}
        BY DEF IInv, TypeOK, Row
      <3> QED
        BY <3>1 DEF ReleaseReason, Reasons
    <2>1. UNCHANGED <<pc, answer, executions>>
      BY <1>4 DEF Reconcile, ReconcileRelease, ReconcileSettlement, ReconcileAudit
    <2>2. \A l \in Keys : row'[l].status \in Served => row[l].status \in Served
      <3>1. CASE ReconcileRelease(k)
        BY <2>0, <3>1, CreditsServeNothing DEF ReconcileRelease
      <3>2. CASE ReconcileSettlement(k)
        <4>1. row[k].status = "SETTLING" /\ \A l \in Keys \ {k} : row'[l] = row[l]
          BY <3>2 DEF ReconcileSettlement, IInv, TypeOK
        <4> QED
          BY <4>1 DEF Served
      <3>3. CASE ReconcileAudit(k)
        BY <3>3, AuditServesNothing DEF ReconcileAudit
      <3> QED
        BY <1>4, <3>1, <3>2, <3>3 DEF Reconcile
    <2> QED
      BY <2>1, <2>2 DEF ServesOn
  <1>5. CASE UNCHANGED vars
    BY <1>5 DEF vars, ServesOn
  <1> QED
    BY <1>1, <1>2, <1>3, <1>4, <1>5 DEF Next

LEMMA ServedOnceKept ==
    ASSUME IInv, IInv', ServedOnce, [Next]_vars
    PROVE  ServedOnce'
  <1>1. CASE ServesOn /\ UNCHANGED executions
    BY <1>1 DEF ServesOn, ServedOnce
  <1>2. ASSUME NEW r \in Requests, ExecuteProvider(r) PROVE ServedOnce'
    <2> DEFINE k == KeyOf[r]
    <2>1. /\ pc[r] = "execute" /\ Drives(r)
          /\ executions' = [executions EXCEPT ![k] = @ + 1]
          /\ pc' = [pc EXCEPT ![r] = "executed"] /\ UNCHANGED <<row, answer>>
      BY <1>2 DEF ExecuteProvider, Goto, Drives
    <2>2. /\ k \in Keys /\ executions[k] = 0 /\ row[k].status \in StatusAt("execute")
      BY <2>1, Driven
    <2>3. row[k].status \notin Served
      BY <2>2 DEF StatusAt, Served
    <2>4. executions'[k] = 1 /\ \A l \in Keys \ {k} : executions'[l] = executions[l]
      BY <2>1, <2>2 DEF IInv, TypeOK
    <2>5. \A q \in Requests \ {r} : KeyOf[q] = k => pc'[q] # "executed"
      BY <2>1 DEF IInv, TypeOK, Runs, DriverKnowsRow, Drives
    <2>6. \A q \in Requests : pc'[q] = "executed" => executions'[KeyOf[q]] = 1
      BY <2>1, <2>4, <2>5, InvocationAssumption DEF ServedOnce, IInv, TypeOK
    <2> QED
      BY <2>1, <2>3, <2>4, <2>6 DEF ServedOnce
  <1> QED
    BY <1>1, <1>2, AllServeOn

LEMMA ServedOnceAlways == Spec => []ServedOnce
  <1>1. Init => ServedOnce
    <2> SUFFICES ASSUME Init PROVE ServedOnce
      OBVIOUS
    <2>1. \A r \in Requests : pc[r] = "lookup" /\ answer[r] = "NONE"
      BY DEF Init
    <2>2. \A k \in Keys \ Legacy : row[k].status = "ABSENT"
      BY DEF Init, Unused, AbsentRow
    <2> QED
      BY <2>1, <2>2 DEF ServedOnce, Served
  <1>2. IInv /\ IInv' /\ ServedOnce /\ [Next]_vars => ServedOnce'
    BY ServedOnceKept
  <1> QED
    BY <1>1, <1>2, Invariance, PTL DEF Spec

\* A caller told FAILED, REJECTED or CREDITS_UNAVAILABLE is never charged and one
\* told SUCCEEDED is; one told INTERNAL_CONFIGURATION_ERROR, which leaves that
\* open, is charged for nothing but a validated result of the one provider call.
THEOREM AnswersAreKept == Spec => []AnswersHold
  <1>1. IInv /\ ServedOnce => AnswersHold
    <2> SUFFICES ASSUME IInv, ServedOnce, NEW r \in Requests
                 PROVE  /\ answer[r] \in {"FAILED", "REJECTED", "CREDITS_UNAVAILABLE"} =>
                              reservation[KeyOf[r]] # "SETTLED"
                        /\ answer[r] = "SUCCEEDED" => reservation[KeyOf[r]] = "SETTLED"
                        /\ answer[r] = "INTERNAL_CONFIGURATION_ERROR" /\ reservation[KeyOf[r]] = "SETTLED"
                              => row[KeyOf[r]].result = "VALIDATED" /\ executions[KeyOf[r]] = 1
      BY DEF AnswersHold
    <2> DEFINE k == KeyOf[r]
    <2>1. k \in Keys
      BY InvocationAssumption
    <2>2. CASE answer[r] \in Terminal \cup {"CREDITS_UNAVAILABLE"}
      <3>1. /\ k \notin Legacy
            /\ answer[r] \in Terminal => row[k].status = answer[r]
            /\ answer[r] = "CREDITS_UNAVAILABLE" => row[k].status \in {"RELEASING", "FAILED"}
        BY <2>2 DEF IInv, Runs, AnsweredRow
      <3>2. reservation[k] \in CreditOf(row[k].status)
        BY <2>1, <3>1 DEF IInv, Books, FinanceAgrees
      <3> QED
        BY <2>2, <3>1, <3>2 DEF CreditOf, Terminal
    <2>3. CASE answer[r] \notin Terminal \cup {"CREDITS_UNAVAILABLE"}
      <3> SUFFICES ASSUME answer[r] = "INTERNAL_CONFIGURATION_ERROR", reservation[k] = "SETTLED"
                   PROVE  row[k].result = "VALIDATED" /\ executions[k] = 1
        BY <2>3 DEF Terminal
      <3>1. k \notin Legacy /\ reservation[k] \in CreditOf(row[k].status) /\ row[k] \in Row
        BY <2>1 DEF ServedOnce, IInv, TypeOK, Books, FinanceAgrees
      <3>2. row[k].status = "SUCCEEDED"
        BY <3>1 DEF CreditOf, Row, Running, Terminal
      <3> QED
        BY <2>1, <3>1, <3>2 DEF ServedOnce, Served, IInv, Books, RowIsCoherent
    <2> QED
      BY <2>2, <2>3
  <1> QED
    BY <1>1, Invariance, ServedOnceAlways, PTL

\* A step of the database that moves credits.
CreditMove ==
    /\ UNCHANGED executions
    /\ \E k \in Keys :
          \/ ReserveOf(k) \/ SettleOf(k)
          \/ \E reason \in Reasons \cup {"NONE"} : ReleaseOf(k, reason)

\* A step that moves none and keeps a row in RELEASING from anything but failing.
RowMove ==
    /\ UNCHANGED reservation
    /\ \A k \in Keys : row[k].status = "RELEASING" => row'[k].status \in {"RELEASING", "FAILED"}
    /\ UNCHANGED executions \/ \E r \in Requests : ExecuteProvider(r)

LEMMA TransitsIsRowMove ==
    ASSUME IInv, NEW r \in Requests, Transits(r)
    PROVE  RowMove
  <1>1. PICK from, new, stamped, next :
            Transition(r, from, new, stamped, next) /\ Permitted(r, from, new, stamped, next)
    BY DEF Transits
  <1>2. /\ UNCHANGED <<reservation, executions>>
        /\ row' = row \/ (row[KeyOf[r]].status = from /\ row' = [row EXCEPT ![KeyOf[r]] = new])
    BY <1>1, TransitionEffect
  <1>3. from = "RELEASING" => new.status \in {"RELEASING", "FAILED"}
    BY <1>1 DEF Permitted
  <1> QED
    BY <1>2, <1>3 DEF RowMove, IInv, TypeOK

\* Nothing but the status decides, and RecordAuditOf leaves it.
LEMMA AuditIsRowMove ==
    ASSUME IInv, NEW k \in Keys, RecordAuditOf(k), UNCHANGED <<reservation, executions>>
    PROVE  RowMove
  <1>1. \A l \in Keys : row'[l].status = row[l].status
    <2>1. /\ row' = [row EXCEPT ![k].auditStatus = "RECORDED"] /\ row \in [Keys -> Row]
      BY DEF RecordAuditOf, IInv, TypeOK
    <2>2. row'[k] = [row[k] EXCEPT !.auditStatus = "RECORDED"] /\ row[k] \in Row
      BY <2>1
    <2>3. row'[k].status = row[k].status
      BY <2>2 DEF Row
    <2> QED
      BY <2>1, <2>3
  <1> QED
    BY <1>1 DEF RowMove

\* Every step of the system moves credits or moves none.
LEMMA StepMoves ==
    ASSUME IInv, [Next]_vars
    PROVE  CreditMove \/ RowMove
  <1>1. ASSUME NEW r \in Requests, Run(r) PROVE CreditMove \/ RowMove
    <2> DEFINE k == KeyOf[r]
    <2>0. k \in Keys /\ row[k].reason \in Reasons \cup {"NONE"}
      BY InvocationAssumption DEF IInv, TypeOK, Row
    <2>1. CASE \/ Gates(r) \/ ResolveMonth(r) \/ ReserveRefused(r) \/ Reserved(r)
               \/ LoadContext(r) \/ Executed(r) \/ Validate(r) \/ SettleFailed(r)
               \/ Settled(r) \/ Released(r)
      BY <2>1, TransitionsTransit, TransitsIsRowMove
    <2>2. CASE LeaseProvider(r)
      <3>1. CASE UNCHANGED <<row, reservation, executions>>
        BY <3>1 DEF RowMove
      <3>2. CASE pc[r] = "lease" /\ Fail(r, "EXECUTING", "FAILED", "INTERNAL_FAILURE")
        BY <3>2, TransitionsTransit, TransitsIsRowMove
      <3> QED
        BY <2>2, <3>1, <3>2 DEF LeaseProvider
    <2>3. CASE Lookup(r) \/ RecordTechnicalUsage(r) \/ Confirm(r)
      BY <2>3 DEF Lookup, RecordTechnicalUsage, Confirm, RowMove
    <2>4. CASE Insert(r)
      <3>1. UNCHANGED <<reservation, executions>>
        BY <2>4 DEF Insert
      <3>2. \/ UNCHANGED row
            \/ /\ row[k].status = "ABSENT"
               /\ \A l \in Keys \ {k} : row'[l] = row[l]
        BY <2>4 DEF Insert, IInv, TypeOK
      <3> QED
        BY <3>1, <3>2 DEF RowMove
    <2>5. CASE ExecuteProvider(r)
      BY <2>5 DEF ExecuteProvider, RowMove
    <2>6. CASE Audit(r)
      BY <2>0, <2>6, AuditIsRowMove DEF Audit, RowMove
    <2>7. CASE Reserve(r) \/ Settle(r) \/ Release(r)
      <3>1. \/ UNCHANGED <<row, reservation, executions>>
            \/ /\ UNCHANGED executions
               /\ ReserveOf(k) \/ SettleOf(k) \/ ReleaseOf(k, row[k].reason)
        BY <2>7 DEF Reserve, Settle, Release, Call, CallOf
      <3> QED
        BY <2>0, <3>1 DEF CreditMove, RowMove
    <2> QED
      BY <1>1, <2>1, <2>2, <2>3, <2>4, <2>5, <2>6, <2>7 DEF Run
  <1>2. ASSUME NEW r \in Requests, Crash(r) PROVE RowMove
    BY <1>2 DEF Crash, RowMove
  <1>3. ASSUME NEW c \in late, ExecuteLate(c) PROVE CreditMove
    <2>1. c.key \in Keys /\ c.reason \in Reasons \cup {"NONE"}
      BY DEF IInv, TypeOK, Calls
    <2> QED
      BY <1>3, <2>1 DEF ExecuteLate, CallOf, CreditMove
  <1>4. ASSUME NEW k \in Keys, Reconcile(k) PROVE CreditMove \/ RowMove
    <2>0. ReleaseReason(k) \in Reasons \cup {"NONE"}
      <3>1. row[k].reason \in Reasons \cup {"NONE"}
        BY DEF IInv, TypeOK, Row
      <3> QED
        BY <3>1 DEF ReleaseReason, Reasons
    <2>1. CASE ReconcileRelease(k)
      BY <2>0, <2>1 DEF ReconcileRelease, CreditMove
    <2>2. CASE ReconcileSettlement(k)
      <3>1. /\ row[k].status = "SETTLING" /\ UNCHANGED <<reservation, executions>>
            /\ \A l \in Keys \ {k} : row'[l] = row[l]
        BY <2>2 DEF ReconcileSettlement, IInv, TypeOK
      <3> QED
        BY <3>1 DEF RowMove
    <2>3. CASE ReconcileAudit(k)
      BY <2>3, AuditIsRowMove DEF ReconcileAudit
    <2> QED
      BY <1>4, <2>1, <2>2, <2>3 DEF Reconcile
  <1>5. CASE UNCHANGED vars
    BY <1>5 DEF vars, RowMove
  <1> QED
    BY <1>1, <1>2, <1>3, <1>4, <1>5 DEF Next

\* What a credit function does to the reservation and to a row in RELEASING.
LEMMA CreditMoveEffect ==
    ASSUME IInv, NEW k \in Keys, NEW reason \in Reasons \cup {"NONE"},
           ReserveOf(k) \/ SettleOf(k) \/ ReleaseOf(k, reason)
    PROVE  /\ \/ UNCHANGED reservation
              \/ /\ reservation[k] = "NONE"
                 /\ reservation' = [reservation EXCEPT ![k] = "RESERVED"]
              \/ /\ reservation[k] = "RESERVED"
                 /\ \/ reservation' = [reservation EXCEPT ![k] = "SETTLED"]
                    \/ reservation' = [reservation EXCEPT ![k] = "RELEASED"]
           /\ \A l \in Keys : row[l].status = "RELEASING" =>
                 row'[l].status \in {"RELEASING", "FAILED"}
  <1>0. reservation \in [Keys -> Credits] /\ row \in [Keys -> Row]
    BY DEF IInv, TypeOK, Credits
  <1>1. CASE ReserveOf(k)
    <2>1. row' = row
          /\ reservation' = [reservation EXCEPT ![k] =
                 IF reservation[k] = "NONE" THEN "RESERVED" ELSE reservation[k]]
      BY <1>1 DEF ReserveOf
    <2> QED
      BY <1>0, <2>1
  <1>2. CASE SettleOf(k)
    <2>1. /\ row[k].status = "SETTLING" /\ reservation[k] \in {"RESERVED", "SETTLED"}
          /\ reservation' = [reservation EXCEPT ![k] = "SETTLED"]
          /\ \A l \in Keys \ {k} : row'[l] = row[l]
      BY <1>0, <1>2 DEF SettleOf
    <2> QED
      BY <1>0, <2>1
  <1>3. CASE ReleaseOf(k, reason)
    <2> DEFINE new == [row[k] EXCEPT !.status = "FAILED", !.charged = 0, !.reason = reason,
                                     !.auditStatus = "PENDING"]
    <2>1. /\ reservation[k] \in {"RESERVED", "RELEASED"}
          /\ reservation' = [reservation EXCEPT ![k] = "RELEASED"]
          /\ row' = [row EXCEPT ![k] = new]
      BY <1>3 DEF ReleaseOf
    <2>2. row[k] \in Row
      BY <1>0
    <2>3. new.status = "FAILED"
      BY <2>2 DEF Row
    <2> HIDE DEF new
    <2> QED
      BY <1>0, <2>1, <2>3
  <1> QED
    BY <1>1, <1>2, <1>3

\* Once the intent to release is on the row, the row fails.
THEOREM ReleaseIsFinal == Spec => ReleaseIntentIsFinal
  <1>1. IInv /\ [Next]_vars =>
            \A k \in Keys : row[k].status = "RELEASING" =>
                row'[k].status \in {"RELEASING", "FAILED"}
    <2> SUFFICES ASSUME IInv, [Next]_vars
                 PROVE  \A k \in Keys : row[k].status = "RELEASING" =>
                            row'[k].status \in {"RELEASING", "FAILED"}
      OBVIOUS
    <2>0. "NONE" \in Reasons \cup {"NONE"}
      OBVIOUS
    <2>1. CASE CreditMove
      BY <2>0, <2>1, CreditMoveEffect DEF CreditMove
    <2>2. CASE RowMove
      BY <2>2 DEF RowMove
    <2> QED
      BY <2>1, <2>2, StepMoves
  <1> QED
    BY <1>1, Invariance, PTL DEF Spec, ReleaseIntentIsFinal

\* The provider is called once per key, and only on reserved credits.
THEOREM ExecutesOnce == Spec => ExecutesOnceWhileReserved
  <1>1. IInv /\ [Next]_vars =>
            \A k \in Keys : executions'[k] # executions[k] =>
                executions[k] = 0 /\ reservation[k] = "RESERVED"
    <2> SUFFICES ASSUME IInv, [Next]_vars, NEW k \in Keys, executions'[k] # executions[k]
                 PROVE  executions[k] = 0 /\ reservation[k] = "RESERVED"
      OBVIOUS
    <2>1. PICK r \in Requests : ExecuteProvider(r)
      BY StepMoves DEF CreditMove, RowMove
    <2>2. k = KeyOf[r]
      BY <2>1 DEF ExecuteProvider, IInv, TypeOK
    <2>3. pc[r] = "execute" /\ Drives(r)
      BY <2>1 DEF ExecuteProvider, Drives
    <2>4. /\ row[k].status \in StatusAt("execute") /\ executions[k] = 0
          /\ reservation[k] \in CreditOf(row[k].status)
      BY <2>2, <2>3, Driven
    <2> QED
      BY <2>4 DEF StatusAt, CreditOf
  <1> QED
    BY <1>1, Invariance, PTL DEF Spec, ExecutesOnceWhileReserved

\* The lifecycle implements the credit contract: however calls are repeated,
\* given up, delayed and reconciled, a reservation moves as the service promises.
THEOREM LifecycleKeepsContract == Spec => KeepsCreditContract
  <1>1. Init => Contract!Init
    <2> SUFFICES ASSUME Init PROVE Contract!Init
      OBVIOUS
    <2>1. reservation \in [Keys -> Credits]
      BY InitHolds DEF IInv, TypeOK, Credits
    <2>2. \A k \in Keys \ Legacy : reservation[k] = "NONE"
      BY DEF Init, Unused
    <2> QED
      BY <2>1, <2>2 DEF Contract!Init, Contract!States, Credits
  <1>2. IInv /\ [Next]_vars => [Contract!Next]_reservation
    <2> SUFFICES ASSUME IInv, [Next]_vars PROVE [Contract!Next]_reservation
      OBVIOUS
    <2>0. "NONE" \in Reasons \cup {"NONE"}
      OBVIOUS
    <2>1. CASE CreditMove
      BY <2>0, <2>1, CreditMoveEffect DEF CreditMove, Contract!Next, Contract!Reserve,
         Contract!Settle, Contract!Release, Contract!Move
    <2>2. CASE RowMove
      BY <2>2 DEF RowMove
    <2> QED
      BY <2>1, <2>2, StepMoves
  <1> QED
    BY <1>1, <1>2, Invariance, PTL DEF Spec, KeepsCreditContract, Contract!Spec

=============================================================================
