------------------------------ MODULE BuildOrder ------------------------------
(***************************************************************************)
(* Which ticket is built when: the planner that turns an epic into tickets *)
(* and a blocking graph, and the worker that picks jobs behind that graph  *)
(* (scheduler.Scheduler.tick, _select_job, _is_blocked, _run_planner and   *)
(* _materialize_plan).  What happens inside one ticket is TicketPipeline's *)
(* subject: here a build is a begin, at most one pull request, and an end. *)
(*                                                                         *)
(* A job is a token: the epic's planner job, an issue's engineer job or    *)
(* the cleanup job of a merged pull request.  `queue` holds the active     *)
(* jobs by age; the dedupe key of a Plane job makes its token unique.      *)
(***************************************************************************)
EXTENDS Naturals, Sequences, SequencesExt

CONSTANTS
  Tickets,      (* how many tickets a plan has at most                     *)
  Keys,         (* the names a plan may give its tickets                   *)
  Plans,        (* plans an agent may answer: for each ticket its key and  *)
                (* the keys it is `blocked_by`.  Nothing makes the keys    *)
                (* of a plan unique, or those of `blocked_by` its own.     *)
                (* (A plan without tickets ends like PlanEnds.)            *)
  Nameless,     (* the tickets whose issue may come back without an id     *)
  MaxRuns,      (* planner runs that create issues (bound)                 *)
  MaxEpics,     (* webhooks of the epic (bound)                            *)
  MaxPrs,       (* pull requests per issue (bound)                         *)
  MaxEvents     (* cards moved into ready_for_dev by a human, issues that  *)
                (* come back without an id, Stop and Delete buttons        *)
                (* pressed and restarts, altogether (bound)                *)

ASSUME BuildOrderAssumption ==
  /\ Tickets \in Nat \ {0}
  /\ Plans # {}
  /\ Plans \subseteq UNION {[1 .. n -> [key : Keys, blockedBy : SUBSET Keys]] :
                             n \in 1 .. Tickets}
  /\ Nameless \subseteq 1 .. Tickets
  /\ MaxRuns \in Nat \ {0} /\ MaxEpics \in Nat
  /\ MaxPrs \in Nat \ {0} /\ MaxEvents \in Nat

VARIABLES
  queue,       (* the active jobs, oldest first                            *)
  running,     (* those that are RUNNING                                   *)
  ended,       (* issues with an engineer job that is done, failed or      *)
               (* stopped                                                  *)
  pc, held,    (* the worker: its place, and the job it selected           *)
  run,         (* planner runs that got a plan so far                      *)
  plan,        (* the plan of each of them                                 *)
  next,        (* the ticket the planner creates or records next           *)
  issues,      (* Plane issues created                                     *)
  created,     (* those of which the planner was told the id               *)
  announced,   (* those whose creation webhook is not delivered yet        *)
  row,         (* the tickets table: [status, blockedBy]                   *)
  pr,          (* the issue's latest pull request: its number and if open  *)
  merged,      (* history: issues of which a pull request was merged       *)
  recorded,    (* history: issues whose row the planner wrote, and nobody  *)
               (* deleted since                                            *)
  up,          (* the conductor process has started and recovered          *)
  count        (* how often each bounded event happened                    *)

jobVars     == <<queue, running, ended>>
workerVars  == <<pc, held>>
planVars    == <<run, plan, next, issues, created>>
ticketVars  == <<row, recorded>>
githubVars  == <<pr, merged>>
processVars == <<up, count>>
vars == <<jobVars, workerVars, planVars, announced, ticketVars, githubVars,
          processVars>>
-----------------------------------------------------------------------------
Numbers == 1 .. Tickets
Issues  == (1 .. MaxRuns) \X Numbers     (* the n-th ticket of a plan      *)

None       == <<"none">>
NoPlan     == <<>>
PlanJob    == <<"plan">>
Build(i)   == <<"build", i>>
Merge(i, n) == <<"merge", i, n>>
Jobs == {PlanJob} \cup {Build(i) : i \in Issues}
          \cup {Merge(i, n) : i \in Issues, n \in 1 .. MaxPrs}

(* Ticket.agent_status by what the worker tells apart: `fresh` is pending  *)
(* or ready_for_dev, `in_flight` is IN_FLIGHT_STATUSES, `resting` is       *)
(* parked, stalled, stopped, error or ready_for_approval.                  *)
Statuses == {"absent", "fresh", "in_flight", "resting", "done"}
NoRow    == [status |-> "absent", blockedBy |-> {}]

Active(job) == Contains(queue, job)
Status(i)   == row[i].status
SetStatus(i, s) ==
  row' = IF Status(i) = "absent" THEN row ELSE [row EXCEPT ![i].status = s]

(* enqueue_job: dropped for a dead process or onto an active job.          *)
Enqueue(job) ==
  queue' = IF up /\ ~Active(job) THEN Append(queue, job) ELSE queue

Counted(event, bound) ==
  /\ count[event] < bound
  /\ count' = [count EXCEPT ![event] = @ + 1]
-----------------------------------------------------------------------------
(* Selecting a job: tick, _select_job, _is_blocked.                        *)
BlockedUntilResting(i) == \E b \in row[i].blockedBy : Status(b) # "resting"  \* mutant of Blocked: the wrong status releases
Blocked(i) == \E b \in row[i].blockedBy : Status(b) # "done"

Eligible == {j \in DOMAIN queue :
               /\ queue[j] \notin running
               /\ queue[j][1] = "build" => ~Blocked(queue[j][2])}
InFlight == {j \in Eligible :
               queue[j][1] = "build" /\ Status(queue[j][2]) = "in_flight"}
Oldest(j, J) == j \in J /\ \A k \in J : j <= k

Free == pc' = "idle" /\ held' = None

(* In-flight tickets first, then the oldest job; its source and trigger    *)
(* choose the handler.  Of what may happen between the selection and       *)
(* claim_job only a Stop or a Delete of that job matters, and then the     *)
(* claim fails: the worker is back where it was.                           *)
Take ==
  /\ up /\ pc = "idle"
  /\ \E j \in Eligible :
       /\ Oldest(j, IF InFlight # {} THEN InFlight ELSE Eligible)
       /\ running' = running \cup {queue[j]}
       /\ pc' = queue[j][1]
       /\ held' = queue[j]
  /\ UNCHANGED <<queue, ended, planVars, announced, ticketVars, githubVars,
                 processVars>>

EndedWith(job) == IF job[1] = "build" THEN ended \cup {job[2]} ELSE ended
Drop(job) ==
  /\ \E j \in DOMAIN queue : queue[j] = job /\ queue' = RemoveAt(queue, j)
  /\ running' = running \ {job}

(* complete_job counts only for a job that is still RUNNING.               *)
EndJob ==
  /\ Free
  /\ IF held \in running THEN Drop(held) /\ ended' = EndedWith(held)
                         ELSE UNCHANGED jobVars
-----------------------------------------------------------------------------
(* _run_planner and _materialize_plan.                                     *)
PlanAnswered ==
  /\ pc = "plan" /\ run < MaxRuns
  /\ run' = run + 1
  /\ \E p \in Plans : plan' = [plan EXCEPT ![run + 1] = p]
  /\ next' = 1
  /\ pc' = "create"
  /\ UNCHANGED <<jobVars, held, issues, created, announced, ticketVars,
                 githubVars, processVars>>

Current == <<run, next>>
Planned(i) == plan[i[1]][i[2]]

(* One Plane issue per ticket, in ready_for_dev: its webhook fires a job   *)
(* (never, when that column is not mapped: Announce need not happen).  An  *)
(* answer without an id leaves the ticket out of `created`.                *)
CreateIssue ==
  /\ pc = "create"
  /\ issues' = issues \cup {Current}
  /\ announced' = announced \cup {Current}
  /\ \/ created' = created \cup {Current} /\ UNCHANGED count
     \/ next \in Nameless /\ Counted("events", MaxEvents) /\ UNCHANGED created
  /\ IF next + 1 \in DOMAIN plan[run]
     THEN next' = next + 1 /\ UNCHANGED pc
     ELSE next' = 1 /\ pc' = "record"
  /\ UNCHANGED <<jobVars, held, run, plan, ticketVars, githubVars, up>>

(* key_to_id: of the tickets with one key the last one's id stays.         *)
SameKey(i, b) == i[1] = b[1] /\ Planned(i).key = Planned(b).key
KeyToId == {i \in created : i[1] = run /\ \A b \in created :
                              SameKey(i, b) => b[2] <= i[2]}

(* blocked_ids: a key without an id is left out.                           *)
KeysStored == Planned(Current).blockedBy  \* mutant of BlockedIds: the keys stored as they are
CreatedSoFar == {b \in KeyToId : b[2] <= next /\ Planned(b).key \in Planned(Current).blockedBy}  \* mutant of BlockedIds: ids known in the first pass
BlockedIds == {b \in KeyToId : Planned(b).key \in Planned(Current).blockedBy}

(* create_planned keeps a row that exists.                                 *)
RecordRow ==
  /\ pc = "record"
  /\ IF Current \in created /\ Status(Current) = "absent"
     THEN /\ row' = [row EXCEPT ![Current] =
                       [status |-> "fresh", blockedBy |-> BlockedIds]]
          /\ recorded' = recorded \cup {Current}
     ELSE UNCHANGED <<row, recorded>>
  /\ IF next + 1 \in DOMAIN plan[run]
     THEN next' = next + 1 /\ UNCHANGED pc
     ELSE pc' = "planned" /\ UNCHANGED next
  /\ UNCHANGED <<jobVars, held, run, plan, issues, created, announced,
                 githubVars, processVars>>

(* The planner is done, or an await of it raised: no mapped repo, the      *)
(* agent, Plane, the database.                                             *)
PlanEnds ==
  /\ pc \in {"plan", "create", "record", "planned"}
  /\ EndJob
  /\ UNCHANGED <<planVars, announced, ticketVars, githubVars, processVars>>
-----------------------------------------------------------------------------
(* _run_engineer, as the other tickets see it.                             *)
Begin ==
  LET i == held[2] IN
  /\ pc = "build"
  /\ pc' = "building"
  /\ row' = [row EXCEPT ![i].status = "in_flight"]
  /\ UNCHANGED <<jobVars, held, planVars, announced, recorded, githubVars,
                 processVars>>

(* GitHub refuses a second open pull request for the ticket's branch.      *)
OpenPr ==
  LET i == held[2] IN
  /\ pc = "building"
  /\ ~pr[i].open /\ pr[i].number < MaxPrs
  /\ pr' = [pr EXCEPT ![i] = [number |-> @.number + 1, open |-> TRUE]]
  /\ pc' = "reviewing"
  /\ UNCHANGED <<jobVars, held, planVars, announced, ticketVars, merged,
                 processVars>>

(* Parked, stalled, approved or failed; an operator's `stopped` stays.     *)
BuildEnds ==
  /\ pc \in {"build", "building", "reviewing"}
  /\ EndJob
  /\ SetStatus(held[2], "resting")
  /\ UNCHANGED <<planVars, announced, recorded, githubVars, processVars>>

(* _run_cleanup, for the pull request the ticket's row names.              *)
CleanUp ==
  LET i == held[2] IN
  /\ pc = "merge"
  /\ IF pr[i].number = held[3] THEN SetStatus(i, "done") ELSE UNCHANGED row
  /\ EndJob
  /\ UNCHANGED <<planVars, announced, recorded, githubVars, processVars>>

CleanupRaises ==
  /\ pc = "merge"
  /\ EndJob
  /\ UNCHANGED <<planVars, announced, ticketVars, githubVars, processVars>>
-----------------------------------------------------------------------------
(* Plane, humans, GitHub, the console, and the conductor's process.        *)
EpicEvent ==
  /\ Counted("epics", MaxEpics)
  /\ Enqueue(PlanJob)
  /\ UNCHANGED <<running, ended, workerVars, planVars, announced, ticketVars,
                 githubVars, up>>

Announce(i) ==
  /\ i \in announced
  /\ announced' = announced \ {i}
  /\ Enqueue(Build(i))
  /\ UNCHANGED <<running, ended, workerVars, planVars, ticketVars, githubVars,
                 processVars>>

CardReady(i) ==
  /\ i \in issues
  /\ Counted("events", MaxEvents)
  /\ Enqueue(Build(i))
  /\ UNCHANGED <<running, ended, workerVars, planVars, announced, ticketVars,
                 githubVars, up>>

MergePr(i) ==
  /\ pr[i].open
  /\ pr' = [pr EXCEPT ![i].open = FALSE]
  /\ merged' = merged \cup {i}
  /\ Enqueue(Merge(i, pr[i].number))
  /\ UNCHANGED <<running, ended, workerVars, planVars, announced, ticketVars,
                 processVars>>

(* _stop_job: the job, then its ticket.  The handler that runs it is left  *)
(* to raise or to carry on.                                                *)
Stop(job) ==
  /\ up /\ Active(job)
  /\ Counted("events", MaxEvents)
  /\ Drop(job) /\ ended' = EndedWith(job)
  /\ IF job[1] = "build" THEN SetStatus(job[2], "resting") ELSE UNCHANGED row
  /\ UNCHANGED <<workerVars, planVars, announced, recorded, githubVars,
                 up>>

(* _delete_job of an engineer job, active or ended: the ticket's row goes  *)
(* with it, graph and all.  (Of another active job it is a Stop.)          *)
Delete(i) ==
  /\ up
  /\ Counted("events", MaxEvents)
  /\ \/ Active(Build(i)) /\ Drop(Build(i)) /\ UNCHANGED ended
     \/ /\ i \in ended /\ ended' \in {ended, ended \ {i}}
        /\ UNCHANGED <<queue, running>>
  /\ row' = [row EXCEPT ![i] = NoRow]
  /\ recorded' = recorded \ {i}
  /\ UNCHANGED <<workerVars, planVars, announced, githubVars, up>>

Crash ==
  /\ up
  /\ Counted("events", MaxEvents)
  /\ up' = FALSE
  /\ Free
  /\ UNCHANGED <<jobVars, planVars, announced, ticketVars, githubVars>>

(* recover: requeue_running.                                               *)
Recover ==
  /\ ~up
  /\ up' = TRUE
  /\ running' = {}
  /\ UNCHANGED <<queue, ended, workerVars, planVars, announced, ticketVars,
                 githubVars, count>>
-----------------------------------------------------------------------------
Init ==
  /\ queue = <<>> /\ running = {} /\ ended = {}
  /\ pc = "idle" /\ held = None
  /\ run = 0 /\ next = 1
  /\ plan = [r \in 1 .. MaxRuns |-> NoPlan]
  /\ issues = {} /\ created = {} /\ announced = {}
  /\ row = [i \in Issues |-> NoRow]
  /\ pr = [i \in Issues |-> [number |-> 0, open |-> FALSE]]
  /\ merged = {} /\ recorded = {}
  /\ up = TRUE
  /\ count = [epics |-> 0, events |-> 0]

Worker ==
  \/ Take
  \/ PlanAnswered \/ CreateIssue \/ RecordRow \/ PlanEnds
  \/ Begin \/ OpenPr \/ BuildEnds
  \/ CleanUp \/ CleanupRaises

Environment ==
  \/ EpicEvent
  \/ \E i \in Issues : Announce(i) \/ CardReady(i) \/ MergePr(i) \/ Delete(i)
  \/ \E job \in Jobs : Stop(job)

Next == Worker \/ Environment \/ Crash \/ Recover

Spec == Init /\ [][Next]_vars

(* The worker loop never rests while it finds a job, each handler ends,    *)
(* and a dead process is started again.                                    *)
FairSpec == Spec /\ WF_vars(Worker) /\ WF_vars(Recover)
-----------------------------------------------------------------------------
(* Properties.                                                             *)

(* Type invariant.                                                         *)
TypeOK ==
  /\ queue \in Seq(Jobs) /\ running \subseteq Jobs /\ ended \subseteq Issues
  /\ pc \in {"idle", "plan", "create", "record", "planned", "build", "building",
             "reviewing", "merge"}
  /\ held \in Jobs \cup {None}
  /\ run \in 0 .. MaxRuns /\ next \in Numbers
  /\ plan \in [1 .. MaxRuns -> Plans \cup {NoPlan}]
  /\ issues \subseteq Issues
  /\ created \subseteq issues /\ announced \subseteq issues
  /\ row \in [Issues -> [status : Statuses, blockedBy : SUBSET Issues]]
  /\ pr \in [Issues -> [number : 0 .. MaxPrs, open : BOOLEAN]]
  /\ merged \subseteq Issues /\ recorded \subseteq Issues
  /\ up \in BOOLEAN
  /\ count \in [epics : 0 .. MaxEpics, events : 0 .. MaxEvents]

(* A planned ticket is never built before the tickets it builds upon have  *)
(* been merged by a human, whether declared before it or after and         *)
(* whatever was stopped, deleted, redelivered or restarted since           *)
(* (_materialize_plan, _is_blocked, _run_cleanup).  Those are the tickets  *)
(* its `blocked_by` keys stand for: of the tickets with that key whose     *)
(* issue came back with an id, the last.  The code keeps no other: a       *)
(* blocker without an id, and any earlier ticket with the same key, does   *)
(* not hold a build back.                                                  *)
Needs(i) == {b \in created :
               /\ b[1] = i[1]
               /\ Planned(b).key \in Planned(i).blockedBy
               /\ \A c \in created : SameKey(b, c) => c[2] <= b[2]}

BuildsAfterBlockers ==
  \A i \in recorded :
    (pc \in {"building", "reviewing"} /\ held = Build(i))
      => Needs(i) \subseteq merged

(* The gate does open: a queued engineer job whose blockers are done is    *)
(* taken, or stopped, or a blocker's ticket is reopened or deleted; it     *)
(* does not starve behind in-flight tickets, planner runs or cleanups      *)
(* (_select_job).                                                          *)
Ready(i) ==
  /\ Active(Build(i)) /\ Build(i) \notin running
  /\ \A b \in row[i].blockedBy : Status(b) = "done"

GateReleases == \A i \in Issues : Ready(i) ~> ~Ready(i)
=============================================================================
