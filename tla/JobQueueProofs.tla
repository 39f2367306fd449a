---------------------------- MODULE JobQueueProofs ----------------------------
(***************************************************************************)
(* Proofs about JobQueue for any table size, any number of concurrent      *)
(* callers and any set of requests.                                        *)
(***************************************************************************)
EXTENDS JobQueue, TLAPS

(* A write of one well-formed row keeps the table well formed.             *)
LEMMA RowWrite ==
  ASSUME jobs \in [JobIds -> Row], NEW j \in JobIds, NEW row \in Row
  PROVE  [jobs EXCEPT ![j] = row] \in [JobIds -> Row]
  OBVIOUS

(* The UPDATEs of the status column write well-formed rows.                *)
LEMMA StatusWrite ==
  ASSUME jobs \in [JobIds -> Row], NEW j \in JobIds,
         NEW s \in Active \cup Terminal
  PROVE  [jobs EXCEPT ![j].status = s] \in [JobIds -> Row]
<1>1. [jobs[j] EXCEPT !.status = s] \in Row
  BY DEF Row
<1> QED
  BY <1>1

(* Type correctness: every statement of jobs.py leaves a well-formed table *)
(* and well-formed program counters.                                       *)
THEOREM TypeCorrect == Spec => []TypeOK
<1> USE QueueAssumption DEF QueueAssumption
<1>1. Init => TypeOK
  BY DEF Init, TypeOK, JobIds, Row, NoRow
<1>2. TypeOK /\ [Next]_vars => TypeOK'
  <2> SUFFICES ASSUME TypeOK, [Next]_vars PROVE TypeOK'
    OBVIOUS
  <2>1. ASSUME NEW c \in Callers, NEW r \in Requests, Call(c, r) PROVE TypeOK'
    BY <2>1 DEF Call, workerVars, TypeOK
  <2>2. ASSUME NEW c \in Callers, LookupHit(c) PROVE TypeOK'
    <3>1. PICK j \in ActiveFor(req[c].key) :
            /\ seenId' = [seenId EXCEPT ![c] = j]
            /\ seenRaws' = [seenRaws EXCEPT ![c] = jobs[j].raws]
      BY <2>2 DEF LookupHit
    <3>2. j \in JobIds /\ j \in 0 .. MaxJobs
      BY DEF ActiveFor, JobIds
    <3>3. jobs[j].raws \in SUBSET Requests
      BY <3>2 DEF TypeOK, Row
    <3> QED
      BY <2>2, <3>1, <3>2, <3>3 DEF LookupHit, workerVars, TypeOK
  <2>3. ASSUME NEW c \in Callers, LookupMiss(c) PROVE TypeOK'
    BY <2>3 DEF LookupMiss, workerVars, TypeOK
  <2>4. ASSUME NEW c \in Callers, Fold(c) PROVE TypeOK'
    <3> DEFINE j == seenId[c]
               row == Appended(jobs[j], seenRaws[c], req[c])
    <3>1. j \in JobIds /\ req[c] \in Requests
      BY <2>4 DEF Fold, TypeOK
    <3>2. jobs[j] \in Row /\ seenRaws[c] \in SUBSET Requests
      BY <3>1 DEF TypeOK
    <3>3. row \in Row
      BY <3>1, <3>2 DEF Appended, Row
    <3>4. jobs' = [jobs EXCEPT ![j] = row] \/ jobs' = jobs
      BY <2>4 DEF Fold
    <3>5. jobs' \in [JobIds -> Row]
      BY <3>1, <3>3, <3>4 DEF TypeOK
    <3> QED
      BY <2>4, <3>5 DEF Fold, Return, workerVars, TypeOK
  <2>5. ASSUME NEW c \in Callers, Insert(c) PROVE TypeOK'
    <3>1. NewRow(req[c]) \in Row
      <4>1. req[c] \in Requests
        BY <2>5 DEF Insert, TypeOK
      <4> QED
        BY <4>1 DEF NewRow, Row, Active
    <3>2. jobs' \in [JobIds -> Row]
      BY <2>5, <3>1 DEF Insert, TypeOK
    <3> QED
      BY <2>5, <3>2 DEF Insert, Return, workerVars, TypeOK
  <2>6. ASSUME NEW c \in Callers, InsertRejected(c) PROVE TypeOK'
    BY <2>6 DEF InsertRejected, Return, workerVars, TypeOK
  <2>7. ASSUME NEW j \in JobIds, Select(j) PROVE TypeOK'
    BY <2>7 DEF Select, callerVars, TypeOK, JobIds
  <2>8. ASSUME Claim PROVE TypeOK'
    <3>1. wid \in JobIds
      BY <2>8 DEF Claim, TypeOK
    <3>2. [jobs EXCEPT ![wid].status = "running"] \in [JobIds -> Row]
      BY <3>1, StatusWrite DEF TypeOK, Active
    <3>3. jobs' \in [JobIds -> Row]
      BY <2>8, <3>2 DEF Claim, TypeOK
    <3>4. wid' \in 0 .. MaxJobs /\ (wpc' # "idle" => wid' \in JobIds)
      BY <2>8, <3>1 DEF Claim, TypeOK, JobIds
    <3>5. wpc' \in {"idle", "selected", "running"}
      BY <2>8 DEF Claim
    <3> QED
      BY <2>8, <3>3, <3>4, <3>5 DEF Claim, callerVars, TypeOK, JobIds
  <2>9. ASSUME NEW s \in {"done", "failed"}, Complete(s) PROVE TypeOK'
    <3>1. wid \in JobIds
      BY <2>9 DEF Complete, TypeOK
    <3>2. [jobs EXCEPT ![wid].status = s] \in [JobIds -> Row]
      BY <3>1, StatusWrite DEF TypeOK, Terminal
    <3> QED
      BY <2>9, <3>1, <3>2 DEF Complete, callerVars, TypeOK, JobIds
  <2>10. ASSUME CompleteRaises PROVE TypeOK'
    BY <2>10 DEF CompleteRaises, callerVars, TypeOK, JobIds
  <2>11. ASSUME NEW j \in JobIds, Stop(j) PROVE TypeOK'
    <3>1. [jobs EXCEPT ![j].status = "stopped"] \in [JobIds -> Row]
      BY StatusWrite DEF TypeOK, Terminal
    <3> QED
      BY <2>11, <3>1 DEF Stop, callerVars, workerVars, TypeOK
  <2>12. ASSUME NEW j \in JobIds, Delete(j) PROVE TypeOK'
    <3>1. NoRow \in Row
      BY DEF NoRow, Row
    <3> QED
      BY <2>12, <3>1, RowWrite DEF Delete, callerVars, workerVars, TypeOK
  <2>13. ASSUME Crash PROVE TypeOK'
    <3>1. /\ wpc' = "idle" /\ wid' = 0 /\ up' = FALSE
          /\ jobs' = jobs /\ lost' = lost
      BY <2>13 DEF Crash
    <3>2. /\ cpc' \in [Callers -> {"idle", "lookup", "fold", "insert"}]
          /\ \A c \in Callers : cpc'[c] = "idle"
          /\ req' \in [Callers -> Requests \cup {NoRequest}]
          /\ seenId' \in [Callers -> 0 .. MaxJobs]
          /\ seenRaws' \in [Callers -> SUBSET Requests]
      BY <2>13 DEF Crash
    <3>3. wid' \in 0 .. MaxJobs
      BY <3>1
    <3> QED
      BY <3>1, <3>2, <3>3 DEF TypeOK
  <2>14. ASSUME Recover PROVE TypeOK'
    <3>1. ASSUME NEW j \in JobIds PROVE [jobs[j] EXCEPT !.status = "queued"] \in Row
      BY DEF TypeOK, Row, Active
    <3>2. jobs' \in [JobIds -> Row]
      BY <2>14, <3>1 DEF Recover, TypeOK
    <3> QED
      BY <2>14, <3>2 DEF Recover, callerVars, workerVars, TypeOK
  <2>15. CASE UNCHANGED vars
    BY <2>15 DEF vars, callerVars, workerVars, TypeOK
  <2> QED
    BY <2>1, <2>2, <2>3, <2>4, <2>5, <2>6, <2>7, <2>8, <2>9, <2>10, <2>11,
       <2>12, <2>13, <2>14, <2>15 DEF Next, Enqueue, Worker, Console
<1> QED
  BY <1>1, <1>2, PTL DEF Spec
-----------------------------------------------------------------------------
(* Folding a delivery into a job touches neither its status nor its key.   *)
LEMMA FoldKeepsStatus ==
  ASSUME TypeOK, NEW c \in Callers, Fold(c), NEW j \in JobIds
  PROVE  jobs'[j].status = jobs[j].status /\ jobs'[j].key = jobs[j].key
<1>1. seenId[c] \in JobIds
  BY DEF Fold, TypeOK
<1>2. CASE ~Exists(seenId[c])
  BY <1>2 DEF Fold
<1>3. CASE Exists(seenId[c])
  <2> DEFINE row == Appended(jobs[seenId[c]], seenRaws[c], req[c])
  <2>1. jobs' = [jobs EXCEPT ![seenId[c]] = row]
    BY <1>3 DEF Fold
  <2>2. jobs[seenId[c]] \in Row
    BY <1>1 DEF TypeOK
  <2>3. row.status = jobs[seenId[c]].status /\ row.key = jobs[seenId[c]].key
    BY <2>2 DEF Appended, Row
  <2> QED
    BY <1>1, <2>1, <2>3 DEF TypeOK
<1> QED
  BY <1>2, <1>3

(* A step that makes no job active and changes no key keeps the active     *)
(* jobs' keys apart.                                                       *)
LEMMA NoNewActive ==
  ASSUME AtMostOneActive,
         \A j \in JobIds :
           jobs'[j].status \in Active =>
             jobs[j].status \in Active /\ jobs'[j].key = jobs[j].key
  PROVE  AtMostOneActive'
  BY DEF AtMostOneActive, IsActive

(* The INSERT that passes both unique constraints keeps them apart too.    *)
LEMMA InsertKeepsKeysApart ==
  ASSUME TypeOK, AtMostOneActive, NEW c \in Callers, Insert(c)
  PROVE  AtMostOneActive'
<1>1. PICK j \in JobIds : jobs' = [jobs EXCEPT ![j] = NewRow(req[c])]
  BY DEF Insert
<1>2. req[c].key # NoKey =>
        \A i \in JobIds : ~(jobs[i].status \in Active /\ jobs[i].key = req[c].key)
  BY DEF Insert, Conflict, ActiveFor, IsActive
<1>3. /\ jobs'[j].key = req[c].key
      /\ \A i \in JobIds : i # j => jobs'[i] = jobs[i]
  BY <1>1 DEF TypeOK, NewRow
<1> QED
  BY <1>2, <1>3 DEF AtMostOneActive, IsActive

(* No interleaving of the enqueue coroutines, the worker, the console and  *)
(* restarts leaves two active jobs of one dedupe key.                      *)
THEOREM KeysApart == Spec => []AtMostOneActive
<1>1. Init => AtMostOneActive
  BY DEF Init, AtMostOneActive, IsActive, NoRow, Active
<1>2. TypeOK /\ AtMostOneActive /\ [Next]_vars => AtMostOneActive'
  <2> SUFFICES ASSUME TypeOK, AtMostOneActive, [Next]_vars PROVE AtMostOneActive'
    OBVIOUS
  <2>1. CASE jobs' = jobs
    BY <2>1 DEF AtMostOneActive, IsActive
  <2>2. ASSUME NEW c \in Callers, Fold(c) PROVE AtMostOneActive'
    <3>1. \A j \in JobIds : /\ jobs'[j].status = jobs[j].status
                            /\ jobs'[j].key = jobs[j].key
      BY <2>2, FoldKeepsStatus
    <3> QED
      BY <3>1, NoNewActive
  <2>3. ASSUME NEW c \in Callers, Insert(c) PROVE AtMostOneActive'
    BY <2>3, InsertKeepsKeysApart
  <2>4. ASSUME Claim PROVE AtMostOneActive'
    <3>1. \A j \in JobIds :
            jobs'[j].status \in Active =>
              jobs[j].status \in Active /\ jobs'[j].key = jobs[j].key
      BY <2>4 DEF Claim, Claimable, TypeOK, Row, Active
    <3> QED
      BY <3>1, NoNewActive
  <2>5. ASSUME NEW s \in {"done", "failed"}, Complete(s) PROVE AtMostOneActive'
    <3>1. \A j \in JobIds :
            jobs'[j].status \in Active =>
              jobs[j].status \in Active /\ jobs'[j].key = jobs[j].key
      BY <2>5 DEF Complete, TypeOK, Row, Active
    <3> QED
      BY <3>1, NoNewActive
  <2>6. ASSUME NEW i \in JobIds, Stop(i) PROVE AtMostOneActive'
    <3>1. \A j \in JobIds :
            jobs'[j].status \in Active =>
              jobs[j].status \in Active /\ jobs'[j].key = jobs[j].key
      BY <2>6 DEF Stop, TypeOK, Row, Active
    <3> QED
      BY <3>1, NoNewActive
  <2>7. ASSUME NEW i \in JobIds, Delete(i) PROVE AtMostOneActive'
    <3>1. \A j \in JobIds :
            jobs'[j].status \in Active =>
              jobs[j].status \in Active /\ jobs'[j].key = jobs[j].key
      BY <2>7 DEF Delete, NoRow, TypeOK, Active
    <3> QED
      BY <3>1, NoNewActive
  <2>8. ASSUME Recover PROVE AtMostOneActive'
    <3>1. \A j \in JobIds :
            jobs'[j].status \in Active =>
              jobs[j].status \in Active /\ jobs'[j].key = jobs[j].key
      BY <2>8 DEF Recover, RequeuedRows, TypeOK, Row, Active
    <3> QED
      BY <3>1, NoNewActive
  <2> QED
    BY <2>1, <2>2, <2>3, <2>4, <2>5, <2>6, <2>7, <2>8
    DEF Next, Enqueue, Call, LookupHit, LookupMiss, InsertRejected, Worker,
        Select, CompleteRaises, Console, Crash, vars
<1> QED
  BY <1>1, <1>2, TypeCorrect, PTL DEF Spec

(* While the process is up every RUNNING row is the worker's, or one whose *)
(* completing write raised: nothing else strands a job.                    *)
THEOREM NoOrphan == Spec => []RunningIsHeld
<1>1. Init => RunningIsHeld
  BY DEF Init, RunningIsHeld, NoRow
<1>2. TypeOK /\ RunningIsHeld /\ [Next]_vars => RunningIsHeld'
  <2> SUFFICES ASSUME TypeOK, RunningIsHeld, [Next]_vars PROVE RunningIsHeld'
    OBVIOUS
  <2>1. CASE UNCHANGED <<jobs, workerVars, up, lost>>
    BY <2>1 DEF RunningIsHeld, workerVars
  <2>2. ASSUME NEW c \in Callers, Fold(c) PROVE RunningIsHeld'
    <3>1. \A j \in JobIds : jobs'[j].status = jobs[j].status
      BY <2>2, FoldKeepsStatus
    <3> QED
      BY <2>2, <3>1 DEF Fold, RunningIsHeld, workerVars
  <2>3. ASSUME NEW c \in Callers, Insert(c) PROVE RunningIsHeld'
    BY <2>3 DEF Insert, NewRow, RunningIsHeld, TypeOK, workerVars
  <2>4. ASSUME NEW j \in JobIds, Select(j) PROVE RunningIsHeld'
    BY <2>4 DEF Select, RunningIsHeld
  <2>5. ASSUME Claim PROVE RunningIsHeld'
    BY <2>5 DEF Claim, RunningIsHeld, TypeOK
  <2>6. ASSUME NEW s \in {"done", "failed"}, Complete(s) PROVE RunningIsHeld'
    BY <2>6 DEF Complete, Completable, RunningIsHeld, TypeOK, Row
  <2>7. ASSUME CompleteRaises PROVE RunningIsHeld'
    BY <2>7 DEF CompleteRaises, RunningIsHeld
  <2>8. ASSUME NEW j \in JobIds, Stop(j) PROVE RunningIsHeld'
    BY <2>8 DEF Stop, RunningIsHeld, TypeOK, Row, workerVars
  <2>9. ASSUME NEW j \in JobIds, Delete(j) PROVE RunningIsHeld'
    BY <2>9 DEF Delete, NoRow, RunningIsHeld, TypeOK, workerVars
  <2>10. ASSUME Crash PROVE RunningIsHeld'
    BY <2>10 DEF Crash, RunningIsHeld
  <2>11. ASSUME Recover PROVE RunningIsHeld'
    <3>1. \A j \in JobIds : jobs'[j].status # "running"
      BY <2>11 DEF Recover, RequeuedRows, TypeOK, Row
    <3> QED
      BY <3>1 DEF RunningIsHeld
  <2> QED
    BY <2>1, <2>2, <2>3, <2>4, <2>5, <2>6, <2>7, <2>8, <2>9, <2>10, <2>11
    DEF Next, Enqueue, Call, LookupHit, LookupMiss, InsertRejected, Worker,
        Console, vars
<1> QED
  BY <1>1, <1>2, TypeCorrect, PTL DEF Spec
-----------------------------------------------------------------------------
(* The stop wins: no completion, claim, fold or restart changes the status *)
(* of a job that reached a terminal one; only deleting it does.            *)
THEOREM StopWins == Spec => TerminalIsFinal
<1> DEFINE Final(j) == jobs[j].status \in Terminal =>
                         jobs'[j].status \in {jobs[j].status, "absent"}
<1>1. TypeOK /\ [Next]_vars => [\A j \in JobIds : Final(j)]_vars
  <2> SUFFICES ASSUME TypeOK, [Next]_vars, NEW j \in JobIds PROVE Final(j)
    OBVIOUS
  <2>1. CASE jobs' = jobs
    BY <2>1
  <2>2. ASSUME NEW c \in Callers, Fold(c) PROVE Final(j)
    BY <2>2, FoldKeepsStatus
  <2>3. ASSUME NEW c \in Callers, Insert(c) PROVE Final(j)
    BY <2>3 DEF Insert, IsNextId, Exists, TypeOK, JobIds, Terminal
  <2>4. ASSUME Claim PROVE Final(j)
    BY <2>4 DEF Claim, Claimable, TypeOK, Row, Terminal
  <2>5. ASSUME NEW s \in {"done", "failed"}, Complete(s) PROVE Final(j)
    BY <2>5 DEF Complete, Completable, TypeOK, Row, Terminal
  <2>6. ASSUME NEW i \in JobIds, Stop(i) PROVE Final(j)
    BY <2>6 DEF Stop, IsActive, Active, TypeOK, Row, Terminal
  <2>7. ASSUME NEW i \in JobIds, Delete(i) PROVE Final(j)
    BY <2>7 DEF Delete, NoRow, TypeOK
  <2>8. ASSUME Recover PROVE Final(j)
    BY <2>8 DEF Recover, RequeuedRows, TypeOK, Row, Terminal
  <2> QED
    BY <2>1, <2>2, <2>3, <2>4, <2>5, <2>6, <2>7, <2>8
    DEF Next, Enqueue, Call, LookupHit, LookupMiss, InsertRejected, Worker,
        Select, CompleteRaises, Console, Crash, vars
<1> QED
  BY <1>1, TypeCorrect, PTL DEF Spec, TerminalIsFinal

(* The table as its observers see it follows the atomic lifecycle of       *)
(* JobLedger: enqueue_job's read-then-insert is linearizable.              *)
THEOREM QueueImplementsLedger == Spec => ImplementsLedger
<1> DEFINE status == [j \in JobIds |-> jobs[j].status]
           key == [j \in JobIds |-> jobs[j].key]
<1>1. Init => Ledger!LedgerInit
  BY DEF Init, NoRow, Ledger!LedgerInit
<1>2. TypeOK /\ [Next]_vars => [Ledger!LedgerNext]_(Ledger!ledger)
  <2> SUFFICES ASSUME TypeOK, [Next]_vars
               PROVE  Ledger!LedgerNext \/ UNCHANGED <<status, key>>
    BY DEF Ledger!ledger
  <2>1. CASE jobs' = jobs
    BY <2>1
  <2>2. ASSUME NEW c \in Callers, Fold(c) PROVE UNCHANGED <<status, key>>
    BY <2>2, FoldKeepsStatus
  <2>3. ASSUME NEW c \in Callers, Insert(c) PROVE Ledger!LedgerNext
    <3>1. PICK j \in JobIds : IsNextId(j) /\ jobs' = [jobs EXCEPT ![j] = NewRow(req[c])]
      BY <2>3 DEF Insert
    <3>2. req[c].key \in Keys \cup {NoKey}
      BY <2>3, QueueAssumption DEF Insert, TypeOK
    <3>3. status[j] = "absent"
      BY <3>1 DEF IsNextId, Exists, JobIds
    <3>4. req[c].key # NoKey =>
            \A i \in JobIds : ~(status[i] \in Active /\ key[i] = req[c].key)
      BY <2>3 DEF Insert, Conflict, ActiveFor, IsActive
    <3>5. /\ status' = [status EXCEPT ![j] = "queued"]
          /\ key' = [key EXCEPT ![j] = req[c].key]
      BY <3>1 DEF TypeOK, NewRow
    <3>6. \E k \in Keys \cup {NoKey} : Ledger!Accept(j, k)
      BY <3>2, <3>3, <3>4, <3>5 DEF Ledger!Accept, Ledger!Active, Active
    <3> QED
      BY <3>6 DEF Ledger!LedgerNext
  <2>4. ASSUME Claim PROVE Ledger!LedgerNext \/ UNCHANGED <<status, key>>
    <3>1. CASE Claimable(wid)
      <4>1. wid \in JobIds /\ status[wid] = "queued"
        BY <2>4, <3>1 DEF Claim, Claimable, TypeOK
      <4>2. jobs' = [jobs EXCEPT ![wid].status = "running"]
        BY <2>4, <3>1 DEF Claim
      <4>3. status' = [status EXCEPT ![wid] = "running"] /\ key' = key
        BY <4>1, <4>2 DEF TypeOK, Row
      <4> QED
        BY <4>1, <4>3 DEF Ledger!LedgerNext, Ledger!Start
    <3>2. CASE ~Claimable(wid)
      BY <2>4, <3>2 DEF Claim
    <3> QED
      BY <3>1, <3>2
  <2>5. ASSUME NEW s \in {"done", "failed"}, Complete(s)
        PROVE  Ledger!LedgerNext \/ UNCHANGED <<status, key>>
    <3>1. CASE Completable(wid)
      <4>1. wid \in JobIds /\ status[wid] = "running"
        BY <2>5, <3>1 DEF Complete, Completable, TypeOK
      <4>2. status' = [status EXCEPT ![wid] = s] /\ key' = key
        BY <2>5, <3>1 DEF Complete, TypeOK, Row
      <4> QED
        BY <4>1, <4>2 DEF Ledger!LedgerNext, Ledger!Settle
    <3>2. CASE ~Completable(wid)
      BY <2>5, <3>2 DEF Complete
    <3> QED
      BY <3>1, <3>2
  <2>6. ASSUME NEW j \in JobIds, Stop(j) PROVE Ledger!LedgerNext
    <3>1. status' = [status EXCEPT ![j] = "stopped"] /\ key' = key
      BY <2>6 DEF Stop, TypeOK, Row
    <3>2. status[j] \in Active
      BY <2>6 DEF Stop, IsActive
    <3> QED
      BY <3>1, <3>2 DEF Ledger!LedgerNext, Ledger!Cancel, Ledger!Active, Active
  <2>7. ASSUME NEW j \in JobIds, Delete(j) PROVE Ledger!LedgerNext
    <3>1. /\ status' = [status EXCEPT ![j] = "absent"]
          /\ key' = [key EXCEPT ![j] = NoKey]
      BY <2>7 DEF Delete, NoRow, TypeOK
    <3>2. status[j] # "absent"
      BY <2>7 DEF Delete, Exists
    <3> QED
      BY <3>1, <3>2 DEF Ledger!LedgerNext, Ledger!Remove
  <2>8. ASSUME Recover PROVE Ledger!LedgerNext
    <3>1. /\ status' = [j \in JobIds |->
                          IF status[j] = "running" THEN "queued" ELSE status[j]]
          /\ key' = key
      BY <2>8 DEF Recover, RequeuedRows, TypeOK, Row
    <3> QED
      BY <3>1 DEF Ledger!LedgerNext, Ledger!Restart
  <2> QED
    BY <2>1, <2>2, <2>3, <2>4, <2>5, <2>6, <2>7, <2>8
    DEF Next, Enqueue, Call, LookupHit, LookupMiss, InsertRejected, Worker,
        Select, CompleteRaises, Console, Crash, vars
<1> QED
  BY <1>1, <1>2, TypeCorrect, PTL DEF Spec, ImplementsLedger, Ledger!LedgerSpec
=============================================================================
