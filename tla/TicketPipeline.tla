---------------------------- MODULE TicketPipeline ----------------------------
(***************************************************************************)
(* The life of one ticket (scheduler.Scheduler._run_engineer and           *)
(* _run_cleanup, tickets.TicketStore, agents/volumes.VolumeManager and the *)
(* Stop / Delete buttons of ui/pages.py), against GitHub, the Plane board  *)
(* and Docker as the code uses them.  The job table is taken as JobLedger  *)
(* promises it: at most one active job for the ticket.                     *)
(*                                                                         *)
(* The worker is serial, so the ticket's build and its merged-PR cleanups  *)
(* share one program counter; the console, humans, GitHub, leftover        *)
(* containers and a dying process run between any two of its awaits.       *)
(***************************************************************************)
EXTENDS Naturals, Integers, FiniteSets

CONSTANTS
  Repos,       (* repo keys of the ticket's project                        *)
  MaxWork,     (* commits an engineer can add to one clone (bound): past   *)
               (* it a resume changes nothing and the stall detector fires *)
  MaxPrs,      (* pull requests per repo (bound)                           *)
  MaxReady,    (* times a human moves the card into ready_for_dev (bound)  *)
  MaxClicks,   (* Stop and Delete buttons pressed (bound)                  *)
  MaxCrashes   (* restarts of the conductor (bound)                        *)

ASSUME PipelineAssumption ==
  /\ Repos # {}
  /\ MaxWork \in Nat \ {0}
  /\ MaxPrs \in Nat \ {0}
  /\ MaxReady \in Nat /\ MaxClicks \in Nat /\ MaxCrashes \in Nat

VARIABLES
  job,       (* the ticket's latest Plane job: a JobStatus or "none"       *)
  old,       (* an older, finished job of the ticket is still listed       *)
  status,    (* Ticket.agent_status, "absent" when there is no row         *)
  session,   (* Ticket.engineer_session_id is set                          *)
  rows,      (* TicketPR: repo -> [pr, merged], pr 0 when there is no row  *)
  gh,        (* GitHub: repo -> PR number -> its state                     *)
  pushed,    (* GitHub: repo -> version at the head of branch ticket/<id>  *)
  merges,    (* cleanup jobs of merged PRs, queued or running              *)
  vol,       (* psa-repo volume: repo -> commits over base, -1 not cloned  *)
  volumes,   (* the ticket's two volumes exist                             *)
  orphan,    (* a container a previous process left on the volumes: none,  *)
             (* an engineer's that runs ("agent") or has exited ("exited") *)
             (* and has its name either way, or another one ("helper")     *)
  board,     (* the card's column on the Plane board                       *)
  boardOk,   (* history: the last board move the pipeline tried succeeded  *)
  reviewed,  (* history: repo -> version the passing verdicts were about   *)
  pc,        (* where the worker is in the handler it runs                 *)
  ctx,       (* its local variables (_Pipeline and friends)                *)
  console,   (* the operator's Stop or Delete handler: where it is, and    *)
             (* whether the job it deletes is still the latest             *)
  up,        (* the conductor process has started and recovered            *)
  count      (* how often each bounded event happened                      *)

ledgerVars   == <<job, old>>
ticketVars   == <<status, session, rows>>
githubVars   == <<gh, pushed, merges>>
volumeVars   == <<vol, volumes, orphan>>
planeVars    == <<board, boardOk>>
processVars  == <<up, count>>
workerVars   == <<pc, ctx>>
vars == <<ledgerVars, ticketVars, githubVars, volumeVars, planeVars, reviewed,
          workerVars, console, processVars>>
-----------------------------------------------------------------------------
Active    == {"queued", "running"}
Finished  == {"done", "failed", "stopped"}
Resumable == {"awaiting_human", "no_changes"}
Parked    == Resumable \cup {"review_unscored"}
Statuses  == Parked \cup {"absent", "pending", "in_progress", "in_review",
               "changes_requested", "ready_for_approval", "stalled", "stopped",
               "error", "done"}
Columns   == {"backlog", "ready_for_dev", "in_progress", "in_review",
              "changes_requested", "blocked", "ready_for_approval"}
PrNumbers == 1 .. MaxPrs
NoClone   == [r \in Repos |-> -1]
NoEvent   == <<>>
NoCtx     == [resume |-> FALSE, targets |-> {}, built |-> {}, todo |-> {},
              last |-> NoClone, why |-> "none", event |-> NoEvent]

(* The worker's awaits at which a container of the ticket may be running.  *)
ContainerPcs == {"clone", "agent", "count", "push", "hash", "review", "rework",
                 "repush", "rehash"}
EngineerPcs  == ContainerPcs \cup
                {"fetch", "create", "begin", "wipe", "openpr", "record",
                 "inreview", "approve", "bump", "park", "complete"}
CleanupPcs   == {"mark", "setdone", "destroy"}
ConsolePlaces == {"idle", "mark", "kill", "delete_mark", "delete_kill", "delete"}

(* The values of ctx: targets of _Pipeline, its built repos, those left to *)
(* clone or push, last_hash as the versions hashed, the reason of a park,  *)
(* and the pull request at hand as <<repo, number>>.                       *)
Contexts == [resume : BOOLEAN, targets : SUBSET Repos, built : SUBSET Repos,
             todo : SUBSET Repos, last : [Repos -> -1 .. MaxWork],
             why : Parked \cup {"none"},
             event : (Repos \X (0 .. MaxPrs)) \cup {NoEvent}]

Counts == [ready : 0 .. MaxReady, clicks : 0 .. MaxClicks,
           crashes : 0 .. MaxCrashes]

Goto(from, to) == pc = from /\ pc' = to

(* TicketStore.set_status is an UPDATE: nothing happens without a row.     *)
SetStatus(s) == status' = IF status = "absent" THEN "absent" ELSE s

(* _move_plane_state is best effort: an unmapped state or a PlaneError     *)
(* leaves the card where it is.                                            *)
MoveCard(column) ==
  \/ board' = column /\ boardOk' = TRUE
  \/ board' = board /\ boardOk' = FALSE

SetState(s, column) == SetStatus(s) /\ MoveCard(column)

-----------------------------------------------------------------------------
(* _run_engineer up to the build.                                          *)
Claim ==
  /\ up /\ job = "queued"
  /\ Goto("idle", "fetch")
  /\ job' = "running"
  /\ ctx' = NoCtx
  /\ UNCHANGED <<old, ticketVars, githubVars, volumeVars, planeVars, reviewed,
                 console, processVars>>

(* The ticket row is read (existing), then the issue and the routing.  The *)
(* router may answer any of the project's repos, on a resume as well.      *)
Fetch ==
  /\ Goto("fetch", "create")
  /\ \E T \in SUBSET Repos \ {{}} :
       ctx' = [ctx EXCEPT !.targets = T,
                          !.resume = status \in Resumable /\ session]
  /\ UNCHANGED <<ledgerVars, ticketVars, githubVars, volumeVars, planeVars,
                 reviewed, console, processVars>>

(* get_or_create, then _resume_context on the row as Fetch read it.        *)
Create ==
  /\ Goto("create", "begin")
  /\ status' = IF status = "absent" THEN "pending" ELSE status
  /\ ctx' = [ctx EXCEPT !.resume = @ /\ volumes]
  /\ UNCHANGED <<ledgerVars, session, rows, githubVars, volumeVars, planeVars,
                 reviewed, console, processVars>>

Begin ==
  /\ Goto("begin", IF ctx.resume THEN "agent" ELSE "wipe")
  /\ SetState("in_progress", "in_progress")
  /\ reviewed' = NoClone
  /\ UNCHANGED <<ledgerVars, session, rows, githubVars, volumeVars, ctx, console,
                 processVars>>

(* prepare: remove the volumes (an error is swallowed, so a volume in use  *)
(* stays), create them, clone the targets.                                 *)
Wipe ==
  /\ Goto("wipe", "clone")
  /\ vol' = IF orphan = "none" THEN NoClone ELSE vol
  /\ volumes' = TRUE
  /\ ctx' = [ctx EXCEPT !.todo = ctx.targets]
  /\ UNCHANGED <<ledgerVars, ticketVars, githubVars, orphan, planeVars, reviewed,
                 console, processVars>>

(* git clone refuses a directory that is not empty.                        *)
CloneOne(r) ==
  /\ pc = "clone"
  /\ r \in ctx.todo
  /\ vol[r] = -1
  /\ vol' = [vol EXCEPT ![r] = 0]
  /\ ctx' = [ctx EXCEPT !.todo = @ \ {r}]
  /\ UNCHANGED <<ledgerVars, ticketVars, githubVars, volumes, orphan, planeVars,
                 reviewed, pc, console, processVars>>

Cloned ==
  /\ Goto("clone", "agent")
  /\ ctx.todo = {}
  /\ UNCHANGED <<ledgerVars, ticketVars, githubVars, volumeVars, planeVars,
                 reviewed, ctx, console, processVars>>
-----------------------------------------------------------------------------
(* _build: the engineer's run, its parks and its pull requests.            *)
SessionForgotten == session  \* mutant of SessionSaved: set_engineer_session dropped
SessionSaved == status # "absent" \/ session

SaveSession == session' = SessionSaved

(* Containers are named after role and ticket and never run with --rm: a   *)
(* leftover engineer container, running or not, makes the next launch fail *)
(* (what remains is Raise).                                                *)
NameTaken == orphan \in {"agent", "exited"}

(* A running engineer container commits in a repo its volume holds,        *)
(* whether or not that repo is a target of this run; one that outlived its *)
(* conductor still does.                                                   *)
EngineerCommits(r) ==
  /\ orphan = "agent" \/ (pc \in {"agent", "rework"} /\ ~NameTaken)
  /\ vol[r] \in 0 .. MaxWork - 1
  /\ vol' = [vol EXCEPT ![r] = @ + 1]
  /\ UNCHANGED <<ledgerVars, ticketVars, githubVars, volumes, orphan, planeVars,
                 reviewed, workerVars, console, processVars>>

AgentDone ==
  /\ ~NameTaken
  /\ Goto("agent", "count")
  /\ SaveSession
  /\ UNCHANGED <<ledgerVars, status, rows, githubVars, volumeVars, planeVars,
                 reviewed, ctx, console, processVars>>

AgentAsks ==
  /\ ~NameTaken
  /\ Goto("agent", "park")
  /\ SaveSession
  /\ ctx' = [ctx EXCEPT !.why = "awaiting_human"]
  /\ UNCHANGED <<ledgerVars, status, rows, githubVars, volumeVars, planeVars,
                 reviewed, console, processVars>>

(* commit_count in every target: cd /work/<key> fails without a checkout.  *)
Built == {r \in ctx.targets : vol[r] > 0}

Count ==
  /\ pc = "count"
  /\ \A r \in ctx.targets : vol[r] >= 0
  /\ IF Built = {}
     THEN pc' = "park" /\ ctx' = [ctx EXCEPT !.why = "no_changes"]
     ELSE pc' = "push" /\ ctx' = [ctx EXCEPT !.built = Built, !.todo = Built]
  /\ UNCHANGED <<ledgerVars, ticketVars, githubVars, volumeVars, planeVars,
                 reviewed, console, processVars>>

(* _park: the local status, then the card (then a comment).                *)
ParkColumnForgotten == board  \* mutant of ParkColumn: the card is not moved
ParkColumn == "blocked"

Park ==
  /\ Goto("park", "complete")
  /\ SetState(ctx.why, ParkColumn)
  /\ UNCHANGED <<ledgerVars, session, rows, githubVars, volumeVars, reviewed, ctx,
                 console, processVars>>

(* _open_prs, one repo at a time: force-push, create, record.              *)
Push ==
  /\ Goto("push", "openpr")
  /\ \E r \in ctx.todo :
       /\ pushed' = [pushed EXCEPT ![r] = vol[r]]
       /\ ctx' = [ctx EXCEPT !.event = <<r, 0>>]
  /\ UNCHANGED <<ledgerVars, ticketVars, gh, merges, volumeVars, planeVars,
                 reviewed, console, processVars>>

(* GitHub refuses a second open pull request for the branch; numbers grow. *)
OpenPr ==
  LET r == ctx.event[1] IN
  /\ Goto("openpr", "record")
  /\ \A n \in PrNumbers : gh[r][n] # "open"
  /\ \E n \in PrNumbers :
       /\ \A m \in PrNumbers : gh[r][m] = "none" <=> m >= n
       /\ gh' = [gh EXCEPT ![r][n] = "open"]
       /\ ctx' = [ctx EXCEPT !.event = <<r, n>>]
  /\ UNCHANGED <<ledgerVars, ticketVars, pushed, merges, volumeVars, planeVars,
                 reviewed, console, processVars>>

(* add_pr: insert, or point the existing row at the new pull request.      *)
RecordPr ==
  LET r == ctx.event[1] IN
  /\ Goto("record", IF ctx.todo = {r} THEN "inreview" ELSE "push")
  /\ rows' = [rows EXCEPT ![r] = [pr |-> ctx.event[2], merged |-> FALSE]]
  /\ ctx' = [ctx EXCEPT !.todo = @ \ {r}]
  /\ UNCHANGED <<ledgerVars, status, session, githubVars, volumeVars, planeVars,
                 reviewed, console, processVars>>

InReview ==
  /\ Goto("inreview", "hash")
  /\ SetState("in_review", "in_review")
  /\ UNCHANGED <<ledgerVars, session, rows, githubVars, volumeVars, reviewed, ctx,
                 console, processVars>>
-----------------------------------------------------------------------------
(* _review_loop.                                                           *)
Hash ==
  /\ Goto("hash", "review")
  /\ ctx' = [ctx EXCEPT !.last = vol]
  /\ UNCHANGED <<ledgerVars, ticketVars, githubVars, volumeVars, planeVars,
                 reviewed, console, processVars>>

ReviewPasses ==
  /\ Goto("review", "approve")
  /\ reviewed' = [r \in Repos |-> IF r \in ctx.built THEN vol[r] ELSE -1]
  /\ UNCHANGED <<ledgerVars, ticketVars, githubVars, volumeVars, planeVars, ctx,
                 console, processVars>>

ReviewFails ==
  /\ Goto("review", "bump")
  /\ UNCHANGED <<ledgerVars, ticketVars, githubVars, volumeVars, planeVars,
                 reviewed, ctx, console, processVars>>

(* MalformedAgentOutput: of a verdict after its re-prompt, or of the       *)
(* resumed engineer.                                                       *)
Unscored ==
  /\ \E from \in {"review", "rework"} : Goto(from, "park")
  /\ ctx' = [ctx EXCEPT !.why = "review_unscored"]
  /\ UNCHANGED <<ledgerVars, ticketVars, githubVars, volumeVars, planeVars,
                 reviewed, console, processVars>>

Approve ==
  /\ Goto("approve", "complete")
  /\ SetState("ready_for_approval", "ready_for_approval")
  /\ UNCHANGED <<ledgerVars, session, rows, githubVars, volumeVars, reviewed, ctx,
                 console, processVars>>

(* bump_loop_round asserts that the ticket row exists.                     *)
BumpRound ==
  /\ status # "absent"
  /\ Goto("bump", "rework")
  /\ SetState("changes_requested", "changes_requested")
  /\ UNCHANGED <<ledgerVars, session, rows, githubVars, volumeVars, reviewed, ctx,
                 console, processVars>>

Reworked ==
  /\ ~NameTaken
  /\ Goto("rework", "repush")
  /\ ctx' = [ctx EXCEPT !.todo = ctx.built]
  /\ UNCHANGED <<ledgerVars, ticketVars, githubVars, volumeVars, planeVars,
                 reviewed, console, processVars>>

NothingToRepush == {}  \* mutant of ToRepush: the resumed engineer's work stays local
ToRepush == ctx.todo

Repush ==
  /\ pc = "repush"
  /\ IF ToRepush = {}
     THEN pc' = "rehash" /\ UNCHANGED <<pushed, ctx>>
     ELSE \E r \in ToRepush :
            /\ pushed' = [pushed EXCEPT ![r] = vol[r]]
            /\ ctx' = [ctx EXCEPT !.todo = @ \ {r}]
            /\ UNCHANGED pc
  /\ UNCHANGED <<ledgerVars, ticketVars, gh, merges, volumeVars, planeVars,
                 reviewed, console, processVars>>

(* The new diff hash covers the repos that got a PR.  An identical one     *)
(* stalls the ticket: set_status alone, no board move.                     *)
SameDiffUnseen == FALSE  \* mutant of SameDiff: the stall is never noticed
SameDiff == \A r \in ctx.built : vol[r] = ctx.last[r]

Rehash ==
  /\ pc = "rehash"
  /\ IF SameDiff
     THEN pc' = "complete" /\ SetStatus("stalled") /\ UNCHANGED ctx
     ELSE pc' = "review" /\ ctx' = [ctx EXCEPT !.last = vol] /\ UNCHANGED status
  /\ UNCHANGED <<ledgerVars, session, rows, githubVars, volumeVars, planeVars,
                 reviewed, console, processVars>>
-----------------------------------------------------------------------------
(* The end of a dispatch.                                                  *)

(* complete_job's compare-and-set: with a serial worker a RUNNING job of   *)
(* the ticket is the one the worker was given.                             *)
CompleteJob(s) == job' = IF job = "running" THEN s ELSE job

Leave == pc' = "idle" /\ ctx' = NoCtx

Complete ==
  /\ pc = "complete"
  /\ CompleteJob("done")
  /\ Leave
  /\ UNCHANGED <<old, ticketVars, githubVars, volumeVars, planeVars, reviewed,
                 console, processVars>>

(* Any await of the handler may raise: Plane's get_issue, the router, a    *)
(* container, GitHub, the database.  Its `except` block completes the job  *)
(* and, after another await, marks the ticket.                             *)
Raise ==
  /\ pc \in EngineerPcs
  /\ pc' = "fail"
  /\ UNCHANGED <<ledgerVars, ticketVars, githubVars, volumeVars, planeVars,
                 reviewed, ctx, console, processVars>>

Fail ==
  /\ Goto("fail", "seterror")
  /\ CompleteJob("failed")
  /\ UNCHANGED <<old, ticketVars, githubVars, volumeVars, planeVars, reviewed,
                 ctx, console, processVars>>

(* complete_job raises in the `except` block (the database stays locked):  *)
(* Scheduler.run logs it, and the job stays RUNNING until a restart.       *)
FailRaises ==
  /\ pc = "fail"
  /\ Leave
  /\ UNCHANGED <<ledgerVars, ticketVars, githubVars, volumeVars, planeVars,
                 reviewed, console, processVars>>

Protected == {"absent", "stopped"}

FailureStatusOfJob == "failed"  \* mutant of FailureStatus: JobStatus.FAILED on the ticket
FailureStatus == "error"

SetError ==
  /\ pc = "seterror"
  /\ status' = IF status \in Protected THEN status ELSE FailureStatus
  /\ Leave
  /\ UNCHANGED <<ledgerVars, session, rows, githubVars, volumeVars, planeVars,
                 reviewed, console, processVars>>
-----------------------------------------------------------------------------
(* _run_cleanup, for the merged pull request ctx.event.                    *)
ClaimCleanup(e) ==
  /\ up
  /\ e \in merges
  /\ Goto("idle", "mark")
  /\ ctx' = [NoCtx EXCEPT !.event = e]
  /\ UNCHANGED <<ledgerVars, ticketVars, githubVars, volumeVars, planeVars,
                 reviewed, console, processVars>>

CleanupNeverCompleted == Leave /\ UNCHANGED merges  \* mutant of CleanupEnds
CleanupEnds == Leave /\ merges' = merges \ {ctx.event}

(* mark_pr_merged looks the pull request up by its url.                    *)
TrackedByRepo(r, n) == rows[r].pr # 0  \* mutant of Tracked: looked up by ticket and repo
Tracked(r, n) == rows[r].pr = n

AnyMerged(table) == \E r \in Repos : table[r].merged  \* mutant of AllMerged
AllMerged(table) ==
  /\ \E r \in Repos : table[r].pr # 0
  /\ \A r \in Repos : table[r].pr # 0 => table[r].merged

MarkMerged ==
  LET r == ctx.event[1]  n == ctx.event[2] IN
  /\ pc = "mark"
  /\ IF Tracked(r, n)
     THEN /\ rows' = [rows EXCEPT ![r] = [pr |-> rows[r].pr, merged |-> TRUE]]
          /\ IF AllMerged(rows')
             THEN pc' = "setdone" /\ UNCHANGED <<ctx, merges>>
             ELSE CleanupEnds
     ELSE CleanupEnds /\ UNCHANGED rows
  /\ UNCHANGED <<ledgerVars, status, session, gh, pushed, volumeVars, planeVars,
                 reviewed, console, processVars>>

SetDone ==
  /\ Goto("setdone", "destroy")
  /\ SetStatus("done")
  /\ UNCHANGED <<ledgerVars, session, rows, githubVars, volumeVars, planeVars,
                 reviewed, ctx, console, processVars>>

(* _remove_volumes swallows the error of a volume in use.                  *)
Destroy ==
  /\ pc = "destroy"
  /\ IF orphan = "none" THEN vol' = NoClone /\ volumes' = FALSE
                        ELSE UNCHANGED <<vol, volumes>>
  /\ CleanupEnds
  /\ UNCHANGED <<ledgerVars, ticketVars, gh, pushed, orphan, planeVars, reviewed,
                 console, processVars>>

CleanupRaises ==
  /\ pc \in CleanupPcs
  /\ CleanupEnds
  /\ UNCHANGED <<ledgerVars, ticketVars, gh, pushed, volumeVars, planeVars,
                 reviewed, console, processVars>>
-----------------------------------------------------------------------------
(* The console: _stop_job, _delete_job and _kill_job_containers.           *)
Idle == [at |-> "idle", latest |-> TRUE]
At(place) == console.at = place
Click == /\ up /\ At("idle")
         /\ count.clicks < MaxClicks
         /\ count' = [count EXCEPT !.clicks = @ + 1]
ConsoleTo(place) == console' = [console EXCEPT !.at = place]

StopJob ==
  /\ Click
  /\ job \in Active
  /\ job' = "stopped"
  /\ ConsoleTo("mark")
  /\ UNCHANGED <<old, ticketVars, githubVars, volumeVars, planeVars, reviewed,
                 workerVars, up>>

DeleteActive ==
  /\ Click
  /\ job \in Active
  /\ ConsoleTo("delete_mark")
  /\ UNCHANGED <<ledgerVars, ticketVars, githubVars, volumeVars, planeVars,
                 reviewed, workerVars, up>>

MarkStopped ==
  /\ \/ At("mark") /\ ConsoleTo("kill")
     \/ At("delete_mark") /\ ConsoleTo("delete_kill")
  /\ SetStatus("stopped")
  /\ UNCHANGED <<ledgerVars, session, rows, githubVars, volumeVars, planeVars,
                 reviewed, workerVars, processVars>>

(* kill_containers: a live container's run fails; without one (the worker  *)
(* is between two containers, or not there yet) nothing is killed.  It     *)
(* removes nothing: the container of a dead process stays.                 *)
Exited == IF orphan = "agent" THEN "exited" ELSE orphan

Kill ==
  /\ \/ At("kill") /\ console' = Idle
     \/ At("delete_kill") /\ ConsoleTo("delete")
  /\ \/ pc \in ContainerPcs /\ pc' = "fail"
     \/ UNCHANGED pc
  /\ orphan' = Exited
  /\ UNCHANGED <<ledgerVars, ticketVars, githubVars, vol, volumes, planeVars,
                 reviewed, ctx, processVars>>

RowGone == status' = "absent" /\ session' = FALSE

(* delete_job removes the job and the ticket's row, not its TicketPR rows. *)
DeleteKilled ==
  /\ At("delete")
  /\ IF console.latest THEN job' = "none" /\ UNCHANGED old
                       ELSE old' \in BOOLEAN /\ UNCHANGED job
  /\ RowGone
  /\ console' = Idle
  /\ UNCHANGED <<rows, githubVars, volumeVars, planeVars, reviewed, workerVars,
                 processVars>>

(* A finished job is deleted without a kill: the latest, or an older one   *)
(* while a newer job of the ticket is queued or running.                   *)
DeleteFinished ==
  /\ Click
  /\ \/ job \in Finished /\ job' = "none" /\ UNCHANGED old
     \/ old /\ old' \in BOOLEAN /\ UNCHANGED job
  /\ RowGone
  /\ UNCHANGED <<rows, githubVars, volumeVars, planeVars, reviewed, workerVars,
                 console, up>>
-----------------------------------------------------------------------------
(* Humans, GitHub, Docker, and the conductor's process.                    *)

(* A human drags the card into ready_for_dev.  Plane's webhook enqueues a  *)
(* job, unless one of this ticket is active (the delivery is folded into   *)
(* it) or the process is down (it is lost).                                *)
CardReady ==
  /\ board # "ready_for_dev"
  /\ count.ready < MaxReady
  /\ count' = [count EXCEPT !.ready = @ + 1]
  /\ board' = "ready_for_dev"
  /\ IF ~up \/ job \in Active
     THEN UNCHANGED <<job, old, console>>
     ELSE /\ job' = "queued"
          /\ old' = (old \/ job \in Finished)
          /\ console' = [console EXCEPT !.latest = At("idle")]
  /\ UNCHANGED <<ticketVars, githubVars, volumeVars, boardOk, reviewed, workerVars,
                 up>>

(* A human merges a pull request.  A delivery to a dead process is lost.   *)
MergePr(r, n) ==
  /\ gh[r][n] = "open"
  /\ gh' = [gh EXCEPT ![r][n] = "merged"]
  /\ merges' = IF up THEN merges \cup {<<r, n>>} ELSE merges
  /\ UNCHANGED <<ledgerVars, ticketVars, pushed, volumeVars, planeVars, reviewed,
                 workerVars, console, processVars>>

ClosePr(r, n) ==
  /\ gh[r][n] = "open"
  /\ gh' = [gh EXCEPT ![r][n] = "closed"]
  /\ UNCHANGED <<ledgerVars, ticketVars, pushed, merges, volumeVars, planeVars,
                 reviewed, workerVars, console, processVars>>

(* A leftover container comes to its end, or somebody removes it from the  *)
(* host.                                                                   *)
OrphanExits ==
  /\ orphan # "none"
  /\ orphan' \in {Exited, "none"}
  /\ UNCHANGED <<ledgerVars, ticketVars, githubVars, vol, volumes, planeVars,
                 reviewed, workerVars, console, processVars>>

(* The process dies (or is stopped: the worker's task is cancelled, which  *)
(* its handlers do not catch).  A container it was running may live on.    *)
Crash ==
  /\ up /\ count.crashes < MaxCrashes
  /\ up' = FALSE
  /\ count' = [count EXCEPT !.crashes = @ + 1]
  /\ orphan' \in {orphan} \cup
       IF NameTaken THEN {}
       ELSE IF pc \in {"agent", "rework"} THEN {"agent"}
       ELSE IF pc \in ContainerPcs THEN {"helper"} ELSE {}
  /\ Leave
  /\ console' = Idle
  /\ UNCHANGED <<ledgerVars, ticketVars, githubVars, vol, volumes, planeVars,
                 reviewed>>

Recover ==
  /\ ~up
  /\ up' = TRUE
  /\ job' = IF job = "running" THEN "queued" ELSE job
  /\ UNCHANGED <<old, ticketVars, githubVars, volumeVars, planeVars, reviewed,
                 workerVars, console, count>>
-----------------------------------------------------------------------------
Init ==
  /\ job = "none" /\ old = FALSE
  /\ status = "absent" /\ session = FALSE
  /\ rows = [r \in Repos |-> [pr |-> 0, merged |-> FALSE]]
  /\ gh = [r \in Repos |-> [n \in PrNumbers |-> "none"]]
  /\ pushed = [r \in Repos |-> 0]
  /\ merges = {}
  /\ vol = NoClone /\ volumes = FALSE /\ orphan = "none"
  /\ board = "backlog" /\ boardOk = TRUE
  /\ reviewed = NoClone
  /\ pc = "idle" /\ ctx = NoCtx
  /\ console = Idle
  /\ up = TRUE /\ count = [ready |-> 0, clicks |-> 0, crashes |-> 0]

Engineer ==
  \/ Claim \/ Fetch \/ Create \/ Begin
  \/ Wipe \/ (\E r \in Repos : CloneOne(r)) \/ Cloned
  \/ AgentDone \/ AgentAsks \/ Count \/ Park
  \/ Push \/ OpenPr \/ RecordPr \/ InReview
  \/ Hash \/ ReviewPasses \/ ReviewFails \/ Unscored \/ Approve
  \/ BumpRound \/ Reworked \/ Repush \/ Rehash
  \/ Complete \/ Raise \/ Fail \/ FailRaises \/ SetError

Cleanup ==
  \/ \E e \in merges : ClaimCleanup(e)
  \/ MarkMerged \/ SetDone \/ Destroy \/ CleanupRaises

Console ==
  \/ StopJob \/ DeleteActive \/ MarkStopped \/ Kill
  \/ DeleteKilled \/ DeleteFinished

Environment ==
  \/ CardReady
  \/ \E r \in Repos : EngineerCommits(r)
  \/ \E r \in Repos, n \in PrNumbers : MergePr(r, n) \/ ClosePr(r, n)
  \/ OrphanExits

Next == Engineer \/ Cleanup \/ Console \/ Environment \/ Crash \/ Recover

Spec == Init /\ [][Next]_vars

(* Every await of the worker returns or raises: agents have a timeout, and *)
(* the worker loop never stops asking for work.  A dead process is started *)
(* again.  Nobody is obliged to click, move, merge or commit.              *)
Fairness == WF_vars(Engineer \/ Cleanup) /\ WF_vars(Recover)

FairSpec == Spec /\ Fairness
-----------------------------------------------------------------------------
(* Properties.                                                             *)

(* Type invariant.                                                         *)
TypeOK ==
  /\ job \in Active \cup Finished \cup {"none"} /\ old \in BOOLEAN
  /\ status \in Statuses /\ session \in BOOLEAN
  /\ rows \in [Repos -> [pr : 0 .. MaxPrs, merged : BOOLEAN]]
  /\ gh \in [Repos -> [PrNumbers -> {"none", "open", "merged", "closed"}]]
  /\ pushed \in [Repos -> 0 .. MaxWork]
  /\ merges \subseteq Repos \X PrNumbers
  /\ vol \in [Repos -> -1 .. MaxWork] /\ volumes \in BOOLEAN
  /\ orphan \in {"none", "agent", "exited", "helper"}
  /\ board \in Columns /\ boardOk \in BOOLEAN
  /\ reviewed \in [Repos -> -1 .. MaxWork]
  /\ pc \in EngineerPcs \cup CleanupPcs \cup {"idle", "fail", "seterror"}
  /\ ctx \in Contexts
  /\ console \in [at : ConsolePlaces, latest : BOOLEAN]
  /\ up \in BOOLEAN /\ count \in Counts

(* A `done` ticket, whose dependents are released and whose volumes are    *)
(* reclaimed, has a recorded pull request, and each recorded one is merged *)
(* on GitHub: no late event of an earlier pull request, retrigger, restart *)
(* or redone cleanup gets it there (_run_cleanup).                         *)
DoneMeansMerged ==
  status = "done" =>
    /\ \E r \in Repos : rows[r].pr # 0
    /\ \A r \in Repos : rows[r].pr # 0 => gh[r][rows[r].pr] = "merged"

(* What a human is asked to approve is what the checkers passed: in each   *)
(* repo with a pull request the branch head on GitHub is the version the   *)
(* passing verdicts were about (_review_loop).                             *)
ApprovedIsPushed ==
  status = "ready_for_approval" =>
    \A r \in Repos : reviewed[r] # -1 => pushed[r] = reviewed[r]

(* A ticket parked for an answer can be resumed with its memory: while     *)
(* nobody works on it, its session id and its volumes are there            *)
(* (_resume_context, _run_cleanup).                                        *)
ParkedKeepsSession ==
  (status \in Resumable /\ pc = "idle") => (session /\ volumes)

(* A parked ticket whose job is done shows in the blocked column, or a     *)
(* human already moved it on, unless the board refused the move (_park).   *)
ParkedOnBoard ==
  (status \in Parked /\ pc = "idle" /\ job = "done" /\ boardOk)
    => board \in {"blocked", "ready_for_dev"}

(* The stall detector ends the loop: once the engineer has nothing new to  *)
(* commit, every dispatch ends, on an approval, a park, a stall or an      *)
(* error, with stops, deletes and restarts in between (_review_loop).      *)
DispatchEnds == pc # "idle" ~> pc = "idle"

(* No queued job waits forever behind cleanups, failed dispatches or a     *)
(* restart: it is claimed, or the operator stops or deletes it (tick).     *)
QueuedIsServed == job = "queued" ~> job # "queued"

(* HANDOFF: a ticket parked in a resumable status, with its session and its *)
(* volumes, "moved back to `ready_for_dev`, now **resumes**". It does not   *)
(* rest in that column with its job finished. (boardOk: the park did move  *)
(* the card to blocked, so a human put it back.)                           *)
AnsweredTicketRuns ==
  ~(/\ status \in Resumable /\ session /\ volumes
    /\ boardOk /\ board = "ready_for_dev"
    /\ job = "done" /\ pc = "idle" /\ up)
=============================================================================
