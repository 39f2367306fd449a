------------------------------- MODULE JobQueue -------------------------------
(***************************************************************************)
(* The jobs table of the conductor (jobs.py, models.Job) and everyone who  *)
(* works on it: webhook and poller coroutines that enqueue, the serial     *)
(* scheduler worker that selects, claims and completes, the operator who   *)
(* stops and deletes jobs from the console, and a process that may die and *)
(* come back.  Every await between two database statements is a point      *)
(* where another actor may run: a statement is one atomic step, a handler  *)
(* is a sequence of steps.                                                 *)
(***************************************************************************)
EXTENDS Naturals, FiniteSets

CONSTANTS
  MaxJobs,     (* size of the table; bounds the model                      *)
  Callers,     (* coroutines that may be inside enqueue_job at a time      *)
  Requests,    (* the calls intake makes: [delivery, key] records; a       *)
               (* request also stands for the raw provider payload         *)
  Deliveries,  (* provider delivery ids                                    *)
  NoRequest,   (* a caller that serves no request                          *)
  NoDelivery,  (* delivery_id IS NULL (the poller)                         *)
  Keys,        (* semantic dedupe keys, "<project>:<issue>"                *)
  NoKey        (* dedupe_key IS NULL (github webhooks, the poller)         *)

ASSUME QueueAssumption ==
  /\ MaxJobs \in Nat \ {0}
  /\ NoKey \notin Keys
  /\ NoDelivery \notin Deliveries
  /\ NoRequest \notin Requests
  /\ Requests \subseteq [delivery : Deliveries \cup {NoDelivery},
                         key : Keys \cup {NoKey}]

VARIABLES
  jobs,     (* the table: id -> row, NoRow where there is none             *)
  cpc,      (* caller -> "idle" | "lookup" | "fold" | "insert"             *)
  req,      (* caller -> the request it serves                             *)
  seenId,   (* caller -> id of the active job its SELECT returned          *)
  seenRaws, (* caller -> raw_payloads as that SELECT returned it           *)
  wpc,      (* the scheduler: "idle" | "selected" | "running"              *)
  wid,      (* the job id it holds                                         *)
  up,       (* the conductor process has started and recovered             *)
  lost      (* ids whose complete_job write raised: left RUNNING           *)

callerVars == <<cpc, req, seenId, seenRaws>>
workerVars == <<wpc, wid>>
vars == <<jobs, callerVars, workerVars, up, lost>>
-----------------------------------------------------------------------------
JobIds   == 1 .. MaxJobs
Active   == {"queued", "running"}
Terminal == {"done", "failed", "stopped"}

(* A row: what the properties tell apart of models.Job.                    *)
Row == [status : Active \cup Terminal \cup {"absent"},
        delivery : Deliveries \cup {NoDelivery},
        key : Keys \cup {NoKey},
        raws : SUBSET Requests]

NoRow == [status |-> "absent", delivery |-> NoDelivery, key |-> NoKey,
          raws |-> {}]

(* Mutant of NewRow: the ticket's first status instead of the job's.       *)
NewRowPending(r) == [status |-> "pending", delivery |-> r.delivery,
                     key |-> r.key, raws |-> {r}]

NewRow(r) == [status |-> "queued", delivery |-> r.delivery, key |-> r.key,
              raws |-> {r}]

Exists(j)   == jobs[j].status # "absent"
IsActive(j) == jobs[j].status \in Active

(* SQLite gives a new row the id after the largest one in the table, so    *)
(* the id of a deleted last row is used again.                             *)
IsNextId(j) ==
  /\ \A i \in JobIds : Exists(i) => i < j
  /\ j - 1 \in {0} \cup {i \in JobIds : Exists(i)}

ActiveFor(k) == {j \in JobIds : IsActive(j) /\ jobs[j].key = k}

(* Mutants of the definitions below.                                       *)
ConflictWithoutIndex(r) ==
  /\ r.delivery # NoDelivery
  /\ \E j \in JobIds : Exists(j) /\ jobs[j].delivery = r.delivery
ClaimableWithoutGuard(j) == Exists(j)
RunningRowsForgotten     == {}
CompletableIfPresent(j)  == Exists(j)
-----------------------------------------------------------------------------
(* enqueue_job, one coroutine.                                             *)

(* The unique constraints an INSERT can violate: delivery_id, and the      *)
(* partial unique index ix_jobs_active_dedupe.                             *)
Conflict(r) ==
  \/ /\ r.delivery # NoDelivery
     /\ \E j \in JobIds : Exists(j) /\ jobs[j].delivery = r.delivery
  \/ r.key # NoKey /\ ActiveFor(r.key) # {}

Return(c) ==
  /\ cpc' = [cpc EXCEPT ![c] = "idle"]
  /\ req' = [req EXCEPT ![c] = NoRequest]
  /\ seenId' = [seenId EXCEPT ![c] = 0]
  /\ seenRaws' = [seenRaws EXCEPT ![c] = {}]

(* A webhook or the poller calls enqueue_job.  Without a dedupe key there  *)
(* is no read: the call goes straight to its INSERT.                       *)
Call(c, r) ==
  /\ up
  /\ cpc[c] = "idle"
  /\ cpc' = [cpc EXCEPT ![c] = IF r.key = NoKey THEN "insert" ELSE "lookup"]
  /\ req' = [req EXCEPT ![c] = r]
  /\ UNCHANGED <<jobs, seenId, seenRaws, workerVars, up, lost>>

(* The SELECT found an active job of this key: its raw_payloads are read   *)
(* now and written back, one longer, by Fold.                              *)
LookupHit(c) ==
  /\ cpc[c] = "lookup"
  /\ \E j \in ActiveFor(req[c].key) :
       /\ seenId' = [seenId EXCEPT ![c] = j]
       /\ seenRaws' = [seenRaws EXCEPT ![c] = jobs[j].raws]
  /\ cpc' = [cpc EXCEPT ![c] = "fold"]
  /\ UNCHANGED <<jobs, req, workerVars, up, lost>>

LookupMiss(c) ==
  /\ cpc[c] = "lookup"
  /\ ActiveFor(req[c].key) = {}
  /\ cpc' = [cpc EXCEPT ![c] = "insert"]
  /\ UNCHANGED <<jobs, req, seenId, seenRaws, workerVars, up, lost>>

Appended(row, raws, r) == [row EXCEPT !.raws = raws \cup {r}]

(* UPDATE jobs SET raw_payloads = <list read + payload> WHERE id = <id     *)
(* read>, whatever that row is by now.  Without the row the flush raises   *)
(* StaleDataError and the delivery is answered with an error.              *)
Fold(c) ==
  /\ cpc[c] = "fold"
  /\ IF Exists(seenId[c])
     THEN jobs' = [jobs EXCEPT ![seenId[c]] = Appended(@, seenRaws[c], req[c])]
     ELSE UNCHANGED jobs
  /\ Return(c)
  /\ UNCHANGED <<workerVars, up, lost>>

Insert(c) ==
  /\ cpc[c] = "insert"
  /\ ~Conflict(req[c])
  /\ \E j \in JobIds : IsNextId(j) /\ jobs' = [jobs EXCEPT ![j] = NewRow(req[c])]
  /\ Return(c)
  /\ UNCHANGED <<workerVars, up, lost>>

(* IntegrityError: rolled back, answered as a duplicate.                   *)
InsertRejected(c) ==
  /\ cpc[c] = "insert"
  /\ Conflict(req[c])
  /\ Return(c)
  /\ UNCHANGED <<jobs, workerVars, up, lost>>
-----------------------------------------------------------------------------
(* The scheduler's worker: tick reads the queue, then claims, runs and     *)
(* completes.  Which queued job it prefers is the scheduler's business.    *)
Select(j) ==
  /\ up
  /\ wpc = "idle"
  /\ jobs[j].status = "queued"
  /\ wpc' = "selected" /\ wid' = j
  /\ UNCHANGED <<jobs, callerVars, up, lost>>

Claimable(j) == jobs[j].status = "queued"

Claim ==
  /\ wpc = "selected"
  /\ IF Claimable(wid)
     THEN /\ jobs' = [jobs EXCEPT ![wid].status = "running"]
          /\ wpc' = "running"
          /\ UNCHANGED wid
     ELSE /\ wpc' = "idle" /\ wid' = 0
          /\ UNCHANGED jobs
  /\ UNCHANGED <<callerVars, up, lost>>

Completable(j) == jobs[j].status = "running"

(* complete_job: a compare-and-set on RUNNING, so a stop or a delete that  *)
(* came first wins.                                                        *)
Complete(s) ==
  /\ wpc = "running"
  /\ jobs' = IF Completable(wid) THEN [jobs EXCEPT ![wid].status = s] ELSE jobs
  /\ wpc' = "idle" /\ wid' = 0
  /\ UNCHANGED <<callerVars, up, lost>>

(* complete_job itself raises inside the failure handler (the database     *)
(* stays locked past busy_timeout): Scheduler.run logs it and goes on.     *)
CompleteRaises ==
  /\ wpc = "running"
  /\ lost' = lost \cup {wid}
  /\ wpc' = "idle" /\ wid' = 0
  /\ UNCHANGED <<jobs, callerVars, up>>
-----------------------------------------------------------------------------
(* The operator's console, and the process itself.                         *)
Stop(j) ==
  /\ up
  /\ IsActive(j)
  /\ jobs' = [jobs EXCEPT ![j].status = "stopped"]
  /\ UNCHANGED <<callerVars, workerVars, up, lost>>

Delete(j) ==
  /\ up
  /\ Exists(j)
  /\ jobs' = [jobs EXCEPT ![j] = NoRow]
  /\ UNCHANGED <<callerVars, workerVars, up, lost>>

Crash ==
  /\ up
  /\ up' = FALSE
  /\ cpc' = [c \in Callers |-> "idle"]
  /\ req' = [c \in Callers |-> NoRequest]
  /\ seenId' = [c \in Callers |-> 0]
  /\ seenRaws' = [c \in Callers |-> {}]
  /\ wpc' = "idle" /\ wid' = 0
  /\ UNCHANGED <<jobs, lost>>

RequeuedRows == {j \in JobIds : jobs[j].status = "running"}

(* Startup: requeue_running before the worker starts.                      *)
Recover ==
  /\ ~up
  /\ up' = TRUE
  /\ jobs' = [j \in JobIds |->
                IF j \in RequeuedRows THEN [jobs[j] EXCEPT !.status = "queued"]
                                      ELSE jobs[j]]
  /\ lost' = {}
  /\ UNCHANGED <<callerVars, workerVars>>
-----------------------------------------------------------------------------
Init ==
  /\ jobs = [j \in JobIds |-> NoRow]
  /\ cpc = [c \in Callers |-> "idle"]
  /\ req = [c \in Callers |-> NoRequest]
  /\ seenId = [c \in Callers |-> 0]
  /\ seenRaws = [c \in Callers |-> {}]
  /\ wpc = "idle" /\ wid = 0
  /\ up = TRUE
  /\ lost = {}

Enqueue(c) ==
  \/ \E r \in Requests : Call(c, r)
  \/ LookupHit(c) \/ LookupMiss(c)
  \/ Fold(c)
  \/ Insert(c) \/ InsertRejected(c)

Worker ==
  \/ \E j \in JobIds : Select(j)
  \/ Claim
  \/ \E s \in {"done", "failed"} : Complete(s)
  \/ CompleteRaises

Console == \E j \in JobIds : Stop(j) \/ Delete(j)

Next ==
  \/ \E c \in Callers : Enqueue(c)
  \/ Worker
  \/ Console
  \/ Crash
  \/ Recover

Spec == Init /\ [][Next]_vars
-----------------------------------------------------------------------------
(* Properties.                                                             *)

(* Type invariant of the table and of the program counters.                *)
TypeOK ==
  /\ jobs \in [JobIds -> Row]
  /\ cpc \in [Callers -> {"idle", "lookup", "fold", "insert"}]
  /\ req \in [Callers -> Requests \cup {NoRequest}]
  /\ \A c \in Callers : cpc[c] # "idle" => req[c] \in Requests
  /\ seenId \in [Callers -> 0 .. MaxJobs]
  /\ \A c \in Callers : cpc[c] = "fold" => seenId[c] \in JobIds
  /\ seenRaws \in [Callers -> SUBSET Requests]
  /\ wpc \in {"idle", "selected", "running"}
  /\ wid \in 0 .. MaxJobs
  /\ wpc # "idle" => wid \in JobIds
  /\ up \in BOOLEAN
  /\ lost \subseteq JobIds

(* Concurrent deliveries of one issue event may all pass enqueue_job's     *)
(* read; still, with stops, requeues and id reuse in between, two active   *)
(* jobs never share a dedupe key (models.Job.__table_args__).              *)
AtMostOneActive ==
  \A i, j \in JobIds :
    (i # j /\ IsActive(i) /\ IsActive(j) /\ jobs[i].key # NoKey)
      => jobs[i].key # jobs[j].key

(* While the process is up a RUNNING row is the one the worker holds, or   *)
(* one whose completing write raised: a restart strands no job, so no key  *)
(* stays blocked by a dispatch nobody carries on (requeue_running).        *)
RunningIsHeld ==
  up => \A j \in JobIds :
          jobs[j].status = "running" => (wpc = "running" /\ wid = j) \/ j \in lost

(* The stop wins: a job in a terminal status keeps it until it is deleted, *)
(* whatever the worker, a late completion or a restart does (complete_job, *)
(* claim_job, requeue_running).                                            *)
TerminalIsFinal ==
  [][\A j \in JobIds :
       jobs[j].status \in Terminal =>
         jobs'[j].status \in {jobs[j].status, "absent"}]_vars

(* Every observer of the table sees the lifecycle of JobLedger: reading    *)
(* first and inserting later is as good as accepting in one step.          *)
Ledger == INSTANCE JobLedger WITH
            status <- [j \in JobIds |-> jobs[j].status],
            key <- [j \in JobIds |-> jobs[j].key]

ImplementsLedger == Ledger!LedgerSpec
=============================================================================
