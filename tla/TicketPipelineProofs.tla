------------------------- MODULE TicketPipelineProofs -------------------------
(***************************************************************************)
(* Proofs about TicketPipeline for any set of repos and any bounds.        *)
(*                                                                         *)
(* Each property follows from an inductive invariant that says what is     *)
(* true at every place of the worker: TypeInv for types and the worker's   *)
(* locals, MergeInv for merged pull requests, ReviewInv for the review     *)
(* loop, SessionInv for parked tickets and BoardInv for the board.         *)
(***************************************************************************)
EXTENDS TicketPipeline, TLAPS

(* The merged pull requests GitHub can report.                             *)
Events == Repos \X PrNumbers

(* The places of a build: from its checks on, and from its clones on.      *)
Reviewing == {"push", "openpr", "record", "inreview", "hash", "review", "bump",
              "rework", "repush", "rehash"}
Working == Reviewing \cup {"wipe", "clone", "agent", "count"}

(* The local variables of the worker say what its place needs them to say. *)
CtxInv ==
  /\ pc = "park" => ctx.why \in Parked
  /\ pc \in Reviewing =>
       ctx.todo \subseteq ctx.built /\ \A r \in ctx.built : vol[r] > 0
  /\ pc = "openpr" => ctx.event \in Repos \X {0}
  /\ pc \in CleanupPcs \cup {"record"} => ctx.event \in Events

TypeInv == TypeOK /\ CtxInv

(* A row marked merged, a cleanup queued and a cleanup that runs are each  *)
(* about a pull request merged on GitHub, and a ticket that is done, or    *)
(* about to be, has only such rows.                                        *)
MergeInv ==
  /\ \A r \in Repos :
       rows[r].merged => rows[r].pr # 0 /\ gh[r][rows[r].pr] = "merged"
  /\ \A e \in merges : gh[e[1]][e[2]] = "merged"
  /\ pc \in CleanupPcs => gh[ctx.event[1]][ctx.event[2]] = "merged"
  /\ pc \in Working => status # "done"
  /\ status = "done" \/ pc = "setdone" => AllMerged(rows)

(* No verdict outlives the build it was about, no leftover engineer runs   *)
(* beside a review, and whatever the review loop does not still have to    *)
(* push is what the volume holds.                                          *)
ReviewInv ==
  /\ pc \in Working => reviewed = NoClone
  /\ \A r \in Repos : reviewed[r] # -1 => pushed[r] = reviewed[r]
  /\ pc \in Reviewing \cup {"count"} => ~NameTaken
  /\ pc \in Reviewing \ {"bump", "rework"} =>
       \A r \in ctx.built \ ctx.todo : pushed[r] = vol[r]
  /\ pc \in {"openpr", "record"} => pushed[ctx.event[1]] = vol[ctx.event[1]]
  /\ pc \in {"inreview", "hash", "review", "rehash"} => ctx.todo = {}

(* A park on its way has its session and its volumes, and a ticket whose   *)
(* volumes are being reclaimed is not parked.                              *)
SessionInv ==
  /\ status \in Resumable => session /\ volumes
  /\ (pc = "count" \/ (pc = "park" /\ ctx.why \in Resumable)) =>
       status = "absent" \/ session
  /\ ((pc = "begin" /\ ctx.resume) \/ pc \in (Working \ {"wipe"}) \cup {"park"})
       => volumes
  /\ pc = "destroy" => status \notin Resumable

(* A parked ticket shows as blocked or as moved on, whoever works on it.   *)
BoardInv ==
  (status \in Parked /\ boardOk) => board \in {"blocked", "ready_for_dev"}
-----------------------------------------------------------------------------
(* Nothing cloned is a well-formed volume.                                 *)
LEMMA NoCloneType == NoClone \in [Repos -> -1 .. MaxWork]
  BY PipelineAssumption DEF PipelineAssumption, NoClone

(* The locals of a handler that starts are well formed.                    *)
LEMMA NoCtxType == NoCtx \in Contexts
  BY NoCloneType DEF NoCtx, Contexts, NoEvent

(* Rewriting the repos left to do keeps the locals well formed.            *)
LEMMA TodoType ==
  ASSUME ctx \in Contexts, NEW T \in SUBSET Repos
  PROVE  [ctx EXCEPT !.todo = T] \in Contexts
  BY DEF Contexts

(* A click within its bound is counted within it.                          *)
LEMMA ClickType ==
  ASSUME count \in Counts, Click
  PROVE  count' \in Counts
<1>1. count.clicks + 1 \in 0 .. MaxClicks
  BY PipelineAssumption DEF PipelineAssumption, Click, Counts
<1> QED
  BY <1>1 DEF Click, Counts

(* So does giving the reason of a park.                                    *)
LEMMA WhyType ==
  ASSUME ctx \in Contexts, NEW w \in Parked
  PROVE  [ctx EXCEPT !.why = w] \in Contexts
  BY DEF Contexts

(* So does naming a pull request.                                          *)
LEMMA EventType ==
  ASSUME ctx \in Contexts, NEW e \in Repos \X (0 .. MaxPrs)
  PROVE  [ctx EXCEPT !.event = e] \in Contexts
  BY DEF Contexts

(* So does remembering the versions just hashed.                           *)
LEMMA LastType ==
  ASSUME ctx \in Contexts, NEW v \in [Repos -> -1 .. MaxWork]
  PROVE  [ctx EXCEPT !.last = v] \in Contexts
  BY DEF Contexts

(* Every step of the worker, the console and the environment keeps every   *)
(* variable in its type.                                                   *)
LEMMA TypeStep == TypeInv /\ [Next]_vars => TypeOK'
<1> SUFFICES ASSUME TypeInv, [Next]_vars PROVE TypeOK'
  OBVIOUS
<1> USE PipelineAssumption DEF PipelineAssumption, TypeInv, TypeOK, CtxInv,
    ledgerVars, ticketVars, githubVars, volumeVars, planeVars, workerVars,
    processVars, Goto, SetState, SetStatus, MoveCard
<1>1. CASE Claim
  <2>1. ctx' \in Contexts
    BY <1>1, NoCtxType DEF Claim
  <2> QED
    BY <1>1, <2>1 DEF Claim, Active, EngineerPcs
<1>2. CASE Fetch
  <2>1. ctx' \in Contexts
    BY <1>2, ZenonT(60) DEF Fetch, Contexts
  <2> QED
    BY <1>2, <2>1 DEF Fetch, EngineerPcs
<1>3. CASE Create
  <2>1. ctx' \in Contexts
    BY <1>3 DEF Create, Contexts
  <2> QED
    BY <1>3, <2>1 DEF Create, Statuses, EngineerPcs
<1>4. CASE Begin
  <2>1. reviewed' \in [Repos -> -1 .. MaxWork]
    BY <1>4, NoCloneType DEF Begin
  <2>2. status' \in Statuses /\ board' \in Columns /\ boardOk' \in BOOLEAN
    BY <1>4 DEF Begin, Statuses, Columns
  <2> QED
    BY <1>4, <2>1, <2>2 DEF Begin, EngineerPcs, ContainerPcs
<1>5. CASE Wipe
  <2>1. vol' \in [Repos -> -1 .. MaxWork]
    BY <1>5, NoCloneType DEF Wipe
  <2>2. ctx' \in Contexts
    BY <1>5 DEF Wipe, Contexts
  <2> QED
    BY <1>5, <2>1, <2>2 DEF Wipe, EngineerPcs, ContainerPcs
<1>6. ASSUME NEW r \in Repos, CloneOne(r) PROVE TypeOK'
  <2>1. ctx' \in Contexts
    BY <1>6, TodoType DEF CloneOne, Contexts
  <2>2. vol' \in [Repos -> -1 .. MaxWork]
    BY <1>6 DEF CloneOne
  <2> QED
    BY <1>6, <2>1, <2>2 DEF CloneOne
<1>7. CASE Cloned
  BY <1>7 DEF Cloned, EngineerPcs, ContainerPcs
<1>8. ASSUME NEW r \in Repos, EngineerCommits(r) PROVE TypeOK'
  BY <1>8 DEF EngineerCommits
<1>9. CASE AgentDone
  BY <1>9 DEF AgentDone, SaveSession, SessionSaved, EngineerPcs, ContainerPcs
<1>10. CASE AgentAsks
  <2>1. ctx' \in Contexts
    BY <1>10, WhyType DEF AgentAsks, Parked, Resumable
  <2> QED
    BY <1>10, <2>1 DEF AgentAsks, SaveSession, SessionSaved, EngineerPcs,
       ContainerPcs
<1>11. CASE Count
  <2>1. Built \in SUBSET Repos
    BY DEF Built, Contexts
  <2>2. \/ ctx' = [ctx EXCEPT !.why = "no_changes"]
        \/ ctx' = [ctx EXCEPT !.built = Built, !.todo = Built]
    BY <1>11 DEF Count
  <2>3. ctx \in Contexts /\ "no_changes" \in Parked
    BY DEF Parked, Resumable
  <2>4. [ctx EXCEPT !.built = Built, !.todo = Built] \in Contexts
    BY ONLY <2>1, <2>3 DEF Contexts
  <2>5. ctx' \in Contexts
    BY <2>2, <2>3, <2>4, WhyType
  <2> QED
    BY <1>11, <2>5 DEF Count, EngineerPcs, ContainerPcs
<1>12. CASE Park
  <2>1. status' \in Statuses /\ board' \in Columns /\ boardOk' \in BOOLEAN
    BY <1>12 DEF Park, ParkColumn, Statuses, Columns
  <2> QED
    BY <1>12, <2>1 DEF Park, EngineerPcs, ContainerPcs
<1>13. CASE Push
  <2>1. PICK r \in ctx.todo :
          /\ pushed' = [pushed EXCEPT ![r] = vol[r]]
          /\ ctx' = [ctx EXCEPT !.event = <<r, 0>>]
    BY <1>13 DEF Push
  <2>2. r \in Repos /\ vol[r] \in 0 .. MaxWork
    BY <1>13, <2>1 DEF Push, Reviewing, Contexts
  <2>3. <<r, 0>> \in Repos \X (0 .. MaxPrs)
    BY <2>2
  <2>4. ctx' \in Contexts
    BY <2>1, <2>3, EventType
  <2> QED
    BY <1>13, <2>1, <2>2, <2>4, ZenonT(60) DEF Push, EngineerPcs, ContainerPcs
<1>14. CASE OpenPr
  <2>1. ctx.event[1] \in Repos
    BY <1>14 DEF OpenPr
  <2>2. PICK n \in PrNumbers :
          /\ gh' = [gh EXCEPT ![ctx.event[1]][n] = "open"]
          /\ ctx' = [ctx EXCEPT !.event = <<ctx.event[1], n>>]
    BY <1>14 DEF OpenPr
  <2>3. <<ctx.event[1], n>> \in Repos \X (0 .. MaxPrs)
    BY <2>1, SMTT(60) DEF PrNumbers
  <2>4. ctx' \in Contexts
    BY <2>2, <2>3, EventType
  <2> QED
    BY <1>14, <2>1, <2>2, <2>4 DEF OpenPr, EngineerPcs, ContainerPcs
<1>15. CASE RecordPr
  <2>1. ctx' \in Contexts
    BY <1>15, TodoType DEF RecordPr, Contexts
  <2>2. ctx.event[1] \in Repos /\ ctx.event[2] \in 0 .. MaxPrs
    BY <1>15, SMTT(60) DEF RecordPr, Events, PrNumbers
  <2> QED
    BY <1>15, <2>1, <2>2 DEF RecordPr, EngineerPcs, ContainerPcs
<1>16. CASE InReview
  <2>1. status' \in Statuses /\ board' \in Columns /\ boardOk' \in BOOLEAN
    BY <1>16 DEF InReview, Statuses, Columns
  <2> QED
    BY <1>16, <2>1 DEF InReview, EngineerPcs, ContainerPcs
<1>17. CASE Hash
  <2>1. ctx' \in Contexts
    BY <1>17, LastType DEF Hash
  <2> QED
    BY <1>17, <2>1 DEF Hash, EngineerPcs, ContainerPcs
<1>18. CASE ReviewPasses
  <2>1. reviewed' \in [Repos -> -1 .. MaxWork]
    BY <1>18 DEF ReviewPasses
  <2> QED
    BY <1>18, <2>1 DEF ReviewPasses, EngineerPcs, ContainerPcs
<1>19. CASE ReviewFails
  BY <1>19 DEF ReviewFails, EngineerPcs, ContainerPcs
<1>20. CASE Unscored
  <2>1. ctx' \in Contexts
    BY <1>20, WhyType DEF Unscored, Parked
  <2> QED
    BY <1>20, <2>1 DEF Unscored, EngineerPcs, ContainerPcs
<1>21. CASE Approve
  <2>1. status' \in Statuses /\ board' \in Columns /\ boardOk' \in BOOLEAN
    BY <1>21 DEF Approve, Statuses, Columns
  <2> QED
    BY <1>21, <2>1 DEF Approve, EngineerPcs, ContainerPcs
<1>22. CASE BumpRound
  <2>1. status' \in Statuses /\ board' \in Columns /\ boardOk' \in BOOLEAN
    BY <1>22 DEF BumpRound, Statuses, Columns
  <2> QED
    BY <1>22, <2>1 DEF BumpRound, EngineerPcs, ContainerPcs
<1>23. CASE Reworked
  <2>1. ctx' \in Contexts
    BY <1>23, TodoType DEF Reworked, Contexts
  <2> QED
    BY <1>23, <2>1 DEF Reworked, EngineerPcs, ContainerPcs
<1>24. CASE Repush
  <2>1. CASE ctx.todo = {}
    BY <1>24, <2>1 DEF Repush, ToRepush, EngineerPcs, ContainerPcs
  <2>2. CASE ctx.todo # {}
    <3>1. PICK r \in ctx.todo :
            /\ pushed' = [pushed EXCEPT ![r] = vol[r]]
            /\ ctx' = [ctx EXCEPT !.todo = @ \ {r}]
      BY <1>24, <2>2 DEF Repush, ToRepush
    <3>2. r \in Repos /\ vol[r] \in 0 .. MaxWork
      BY <1>24, <3>1 DEF Repush, Reviewing, Contexts
    <3>3. ctx.todo \ {r} \in SUBSET Repos
      BY DEF Contexts
    <3>4. ctx' \in Contexts
      BY <3>1, <3>3, TodoType
    <3> QED
      BY <1>24, <2>2, <3>1, <3>2, <3>4, ZenonT(60) DEF Repush, ToRepush, EngineerPcs,
         ContainerPcs
  <2> QED
    BY <2>1, <2>2
<1>25. CASE Rehash
  <2>1. ctx' \in Contexts
    BY <1>25, LastType DEF Rehash
  <2>2. status' \in Statuses
    BY <1>25 DEF Rehash, Statuses
  <2> QED
    BY <1>25, <2>1, <2>2 DEF Rehash, EngineerPcs, ContainerPcs
<1>26. CASE Complete
  <2>1. ctx' \in Contexts
    BY <1>26, NoCtxType DEF Complete, Leave
  <2> QED
    BY <1>26, <2>1 DEF Complete, CompleteJob, Leave, Finished
<1>27. CASE Raise
  BY <1>27 DEF Raise
<1>28. CASE Fail
  BY <1>28 DEF Fail, CompleteJob, Finished
<1>29. CASE FailRaises
  <2>1. ctx' \in Contexts
    BY <1>29, NoCtxType DEF FailRaises, Leave
  <2> QED
    BY <1>29, <2>1 DEF FailRaises, Leave
<1>30. CASE SetError
  <2>1. ctx' \in Contexts
    BY <1>30, NoCtxType DEF SetError, Leave
  <2>2. status' \in Statuses
    BY <1>30 DEF SetError, Protected, FailureStatus, Statuses
  <2> QED
    BY <1>30, <2>1, <2>2 DEF SetError, Leave
<1>31. ASSUME NEW e \in merges, ClaimCleanup(e) PROVE TypeOK'
  <2>1. e \in Repos \X (0 .. MaxPrs)
    BY <1>31 DEF PrNumbers
  <2>2. ctx' = [NoCtx EXCEPT !.event = e]
    BY <1>31 DEF ClaimCleanup
  <2>3. ctx' \in Contexts
    BY <1>31, <2>1, <2>2, NoCtxType DEF Contexts
  <2> QED
    BY <1>31, <2>1, <2>2, <2>3 DEF ClaimCleanup, CleanupPcs
<1>32. CASE MarkMerged
  <2>1. ctx.event[1] \in Repos
    BY <1>32 DEF MarkMerged, Events, CleanupPcs
  <2>2. ctx' \in Contexts
    BY <1>32, NoCtxType DEF MarkMerged, CleanupEnds, Leave
  <2>3. merges' \subseteq Repos \X PrNumbers
    BY <1>32 DEF MarkMerged, CleanupEnds
  <2>4. rows' \in [Repos -> [pr : 0 .. MaxPrs, merged : BOOLEAN]]
    <3>1. [pr |-> rows[ctx.event[1]].pr, merged |-> TRUE]
            \in [pr : 0 .. MaxPrs, merged : BOOLEAN]
      BY <2>1
    <3> QED
      BY <1>32, <2>1, <3>1 DEF MarkMerged
  <2>5. pc' \in {"setdone", "idle"}
    BY <1>32 DEF MarkMerged, CleanupEnds, Leave
  <2> QED
    BY <1>32, <2>2, <2>3, <2>4, <2>5 DEF MarkMerged, CleanupPcs
<1>33. CASE SetDone
  BY <1>33 DEF SetDone, Statuses, CleanupPcs
<1>34. CASE Destroy
  <2>1. ctx' \in Contexts
    BY <1>34, NoCtxType DEF Destroy, CleanupEnds, Leave
  <2>2. vol' \in [Repos -> -1 .. MaxWork]
    BY <1>34, NoCloneType DEF Destroy
  <2> QED
    BY <1>34, <2>1, <2>2, ZenonT(60) DEF Destroy, CleanupEnds, Leave
<1>35. CASE CleanupRaises
  <2>1. ctx' \in Contexts
    BY <1>35, NoCtxType DEF CleanupRaises, CleanupEnds, Leave
  <2> QED
    BY <1>35, <2>1 DEF CleanupRaises, CleanupEnds, Leave
<1>36. CASE StopJob
  <2>1. Click /\ count' \in Counts
    BY <1>36, ClickType DEF StopJob
  <2> QED
    BY <1>36, <2>1 DEF StopJob, ConsoleTo, ConsolePlaces, Finished
<1>37. CASE DeleteActive
  <2>1. Click /\ count' \in Counts
    BY <1>37, ClickType DEF DeleteActive
  <2> QED
    BY <1>37, <2>1, SMTT(60) DEF DeleteActive, ConsoleTo, ConsolePlaces
<1>38. CASE MarkStopped
  BY <1>38 DEF MarkStopped, ConsoleTo, ConsolePlaces, Statuses
<1>39. CASE Kill
  <2>1. console' \in [at : ConsolePlaces, latest : BOOLEAN]
    <3>1. [console EXCEPT !.at = "delete"] \in [at : ConsolePlaces, latest : BOOLEAN]
      BY DEF ConsolePlaces
    <3>2. Idle \in [at : ConsolePlaces, latest : BOOLEAN]
      BY DEF Idle, ConsolePlaces
    <3> QED
      BY <1>39, <3>1, <3>2 DEF Kill, ConsoleTo
  <2>2. orphan' \in {"none", "agent", "exited", "helper"}
    BY <1>39 DEF Kill, Exited
  <2> QED
    BY <1>39, <2>1, <2>2 DEF Kill
<1>40. CASE DeleteKilled
  BY <1>40, ZenonT(60) DEF DeleteKilled, RowGone, Idle, ConsolePlaces, Statuses
<1>41. CASE DeleteFinished
  <2>1. Click /\ count' \in Counts
    BY <1>41, ClickType DEF DeleteFinished
  <2> QED
    BY <1>41, <2>1, ZenonT(60) DEF DeleteFinished, RowGone, Statuses
<1>42. CASE CardReady
  <2>1. job' \in Active \cup Finished \cup {"none"} /\ old' \in BOOLEAN
    BY <1>42 DEF CardReady, Active
  <2>2. console' \in [at : ConsolePlaces, latest : BOOLEAN]
    BY <1>42 DEF CardReady, At
  <2> QED
    BY <1>42, <2>1, <2>2 DEF CardReady, Columns, Counts
<1>43. ASSUME NEW r \in Repos, NEW n \in PrNumbers, MergePr(r, n) PROVE TypeOK'
  BY <1>43 DEF MergePr
<1>44. ASSUME NEW r \in Repos, NEW n \in PrNumbers, ClosePr(r, n) PROVE TypeOK'
  BY <1>44 DEF ClosePr
<1>45. CASE OrphanExits
  BY <1>45 DEF OrphanExits, Exited
<1>46. CASE Crash
  <2>1. ctx' \in Contexts
    BY <1>46, NoCtxType DEF Crash, Leave
  <2>2. count' \in Counts
    <3>1. count.crashes + 1 \in 0 .. MaxCrashes
      BY <1>46 DEF Crash, Counts
    <3> QED
      BY <1>46, <3>1 DEF Crash, Counts
  <2>3. orphan' \in {"none", "agent", "exited", "helper"}
    BY <1>46 DEF Crash
  <2> QED
    BY <1>46, <2>1, <2>2, <2>3 DEF Crash, Leave, Idle, ConsolePlaces
<1>47. CASE Recover
  BY <1>47 DEF Recover, Active
<1>48. CASE UNCHANGED vars
  BY <1>48 DEF vars
<1> QED
  BY <1>1, <1>2, <1>3, <1>4, <1>5, <1>6, <1>7, <1>8, <1>9, <1>10, <1>11, <1>12,
     <1>13, <1>14, <1>15, <1>16, <1>17, <1>18, <1>19, <1>20, <1>21, <1>22,
     <1>23, <1>24, <1>25, <1>26, <1>27, <1>28, <1>29, <1>30, <1>31, <1>32,
     <1>33, <1>34, <1>35, <1>36, <1>37, <1>38, <1>39, <1>40, <1>41, <1>42,
     <1>43, <1>44, <1>45, <1>46, <1>47, <1>48
  DEF Next, Engineer, Cleanup, Console, Environment

(* Every step leaves the worker with the locals its next place needs.      *)
LEMMA CtxStep == TypeInv /\ [Next]_vars => CtxInv'
<1> SUFFICES ASSUME TypeInv, [Next]_vars PROVE CtxInv'
  OBVIOUS
<1> USE PipelineAssumption DEF PipelineAssumption, TypeInv, TypeOK, CtxInv,
    Reviewing, CleanupPcs, ledgerVars, ticketVars, githubVars, volumeVars,
    planeVars, workerVars, processVars, Goto
<1>1. CASE Claim
  BY <1>1 DEF Claim
<1>2. CASE Fetch
  BY <1>2 DEF Fetch
<1>3. CASE Create
  BY <1>3 DEF Create
<1>4. CASE Begin
  BY <1>4 DEF Begin
<1>5. CASE Wipe
  BY <1>5 DEF Wipe
<1>6. ASSUME NEW r \in Repos, CloneOne(r) PROVE CtxInv'
  BY <1>6 DEF CloneOne
<1>7. CASE Cloned
  BY <1>7 DEF Cloned
<1>8. ASSUME NEW r \in Repos, EngineerCommits(r) PROVE CtxInv'
  BY <1>8 DEF EngineerCommits
<1>9. CASE AgentDone
  BY <1>9 DEF AgentDone
<1>10. CASE AgentAsks
  BY <1>10 DEF AgentAsks, Parked, Resumable
<1>11. CASE Count
  <2>1. CASE Built = {}
    BY <1>11, <2>1 DEF Count, Parked, Resumable, Contexts
  <2>2. CASE Built # {}
    <3>1. pc' = "push" /\ ctx'.built = Built /\ ctx'.todo = Built
      BY <1>11, <2>2 DEF Count, Contexts
    <3>2. \A r \in Built : vol'[r] > 0
      BY <1>11 DEF Count, Built
    <3> QED
      BY <3>1, <3>2
  <2> QED
    BY <2>1, <2>2
<1>12. CASE Park
  BY <1>12 DEF Park
<1>13. CASE Push
  <2>1. PICK r \in ctx.todo : ctx' = [ctx EXCEPT !.event = <<r, 0>>]
    BY <1>13 DEF Push
  <2>2. r \in Repos /\ ctx'.event = <<r, 0>>
    BY <2>1 DEF Contexts
  <2>3. ctx'.event \in Repos \X {0}
    BY <2>2
  <2> QED
    BY <1>13, <2>1, <2>3 DEF Push, Contexts
<1>14. CASE OpenPr
  <2>1. ctx.event[1] \in Repos
    BY <1>14 DEF OpenPr
  <2>2. PICK n \in PrNumbers : ctx' = [ctx EXCEPT !.event = <<ctx.event[1], n>>]
    BY <1>14 DEF OpenPr
  <2>3. ctx'.event = <<ctx.event[1], n>>
    BY <2>2 DEF Contexts
  <2>4. ctx'.event \in Events
    BY <2>1, <2>3 DEF Events
  <2> QED
    BY <1>14, <2>2, <2>4 DEF OpenPr, Contexts
<1>15. CASE RecordPr
  BY <1>15 DEF RecordPr
<1>16. CASE InReview
  BY <1>16 DEF InReview
<1>17. CASE Hash
  BY <1>17 DEF Hash
<1>18. CASE ReviewPasses
  BY <1>18 DEF ReviewPasses
<1>19. CASE ReviewFails
  BY <1>19 DEF ReviewFails
<1>20. CASE Unscored
  BY <1>20 DEF Unscored, Parked
<1>21. CASE Approve
  BY <1>21 DEF Approve
<1>22. CASE BumpRound
  BY <1>22 DEF BumpRound
<1>23. CASE Reworked
  BY <1>23 DEF Reworked
<1>24. CASE Repush
  <2>1. vol' = vol /\ pc' \in {"repush", "rehash"}
    BY <1>24 DEF Repush
  <2>2. ctx'.built = ctx.built /\ ctx'.todo \subseteq ctx.todo
    BY <1>24 DEF Repush, ToRepush, Contexts
  <2> QED
    BY <1>24, <2>1, <2>2 DEF Repush
<1>25. CASE Rehash
  <2>1. vol' = vol /\ pc' \in {"complete", "review"}
    BY <1>25 DEF Rehash
  <2>2. ctx'.built = ctx.built /\ ctx'.todo = ctx.todo
    BY <1>25 DEF Rehash, Contexts
  <2> QED
    BY <1>25, <2>1, <2>2 DEF Rehash
<1>26. CASE Complete
  BY <1>26 DEF Complete, Leave
<1>27. CASE Raise
  BY <1>27 DEF Raise
<1>28. CASE Fail
  BY <1>28 DEF Fail
<1>29. CASE FailRaises
  BY <1>29 DEF FailRaises, Leave
<1>30. CASE SetError
  BY <1>30 DEF SetError, Leave
<1>31. ASSUME NEW e \in merges, ClaimCleanup(e) PROVE CtxInv'
  <2>1. ctx' = [NoCtx EXCEPT !.event = e] /\ pc' = "mark"
    BY <1>31 DEF ClaimCleanup
  <2>2. ctx'.event = e
    BY <2>1 DEF NoCtx
  <2>3. e \in Events
    BY DEF Events
  <2> QED
    BY <2>1, <2>2, <2>3
<1>32. CASE MarkMerged
  BY <1>32 DEF MarkMerged, CleanupEnds, Leave
<1>33. CASE SetDone
  BY <1>33 DEF SetDone
<1>34. CASE Destroy
  BY <1>34 DEF Destroy, CleanupEnds, Leave
<1>35. CASE CleanupRaises
  BY <1>35 DEF CleanupRaises, CleanupEnds, Leave
<1>36. CASE StopJob
  BY <1>36 DEF StopJob
<1>37. CASE DeleteActive
  BY <1>37 DEF DeleteActive
<1>38. CASE MarkStopped
  BY <1>38 DEF MarkStopped
<1>39. CASE Kill
  BY <1>39 DEF Kill
<1>40. CASE DeleteKilled
  BY <1>40 DEF DeleteKilled
<1>41. CASE DeleteFinished
  BY <1>41 DEF DeleteFinished
<1>42. CASE CardReady
  BY <1>42 DEF CardReady
<1>43. ASSUME NEW r \in Repos, NEW n \in PrNumbers, MergePr(r, n) PROVE CtxInv'
  BY <1>43 DEF MergePr
<1>44. ASSUME NEW r \in Repos, NEW n \in PrNumbers, ClosePr(r, n) PROVE CtxInv'
  BY <1>44 DEF ClosePr
<1>45. CASE OrphanExits
  BY <1>45 DEF OrphanExits
<1>46. CASE Crash
  BY <1>46 DEF Crash, Leave
<1>47. CASE Recover
  BY <1>47 DEF Recover
<1>48. CASE UNCHANGED vars
  BY <1>48 DEF vars
<1> QED
  BY <1>1, <1>2, <1>3, <1>4, <1>5, <1>6, <1>7, <1>8, <1>9, <1>10, <1>11, <1>12,
     <1>13, <1>14, <1>15, <1>16, <1>17, <1>18, <1>19, <1>20, <1>21, <1>22,
     <1>23, <1>24, <1>25, <1>26, <1>27, <1>28, <1>29, <1>30, <1>31, <1>32,
     <1>33, <1>34, <1>35, <1>36, <1>37, <1>38, <1>39, <1>40, <1>41, <1>42,
     <1>43, <1>44, <1>45, <1>46, <1>47, <1>48
  DEF Next, Engineer, Cleanup, Console, Environment

(* A step that parks the ticket moves the card to blocked or says that the *)
(* board refused; every other move is a human's into ready_for_dev or      *)
(* comes with a status that is not a parked one.                           *)
LEMMA BoardInvStep ==
  TypeInv /\ TypeInv' /\ BoardInv /\ [Next]_vars => BoardInv'
<1> SUFFICES ASSUME TypeInv, TypeInv', BoardInv, [Next]_vars PROVE BoardInv'
  OBVIOUS
<1> USE DEF BoardInv, Parked, Resumable, SetState, SetStatus, MoveCard,
    ticketVars, planeVars
<1>0. CASE UNCHANGED <<status, board, boardOk>>
  BY <1>0
<1>1. CASE Create
  BY <1>1 DEF Create
<1>2. CASE Begin
  BY <1>2 DEF Begin
<1>3. CASE Park
  BY <1>3 DEF Park, ParkColumn
<1>4. CASE InReview
  BY <1>4 DEF InReview
<1>5. CASE Approve
  BY <1>5 DEF Approve
<1>6. CASE BumpRound
  BY <1>6 DEF BumpRound
<1>7. CASE Rehash
  BY <1>7 DEF Rehash
<1>8. CASE SetError
  BY <1>8 DEF SetError, FailureStatus
<1>9. CASE SetDone
  BY <1>9 DEF SetDone
<1>10. CASE MarkStopped
  BY <1>10 DEF MarkStopped
<1>11. CASE DeleteKilled
  BY <1>11 DEF DeleteKilled, RowGone
<1>12. CASE DeleteFinished
  BY <1>12 DEF DeleteFinished, RowGone
<1>13. CASE CardReady
  BY <1>13 DEF CardReady
<1> QED
  BY <1>0, <1>1, <1>2, <1>3, <1>4, <1>5, <1>6, <1>7, <1>8, <1>9, <1>10, <1>11,
     <1>12, <1>13
  DEF Next, Engineer, Cleanup, Console, Environment, vars, ticketVars, planeVars,
      Claim, Fetch, Wipe, CloneOne, Cloned, EngineerCommits, AgentDone,
      AgentAsks, Count, Push, OpenPr, RecordPr, Hash, ReviewPasses,
      ReviewFails, Unscored, Reworked, Repush, Complete, Raise, Fail,
      FailRaises, ClaimCleanup, MarkMerged, Destroy, CleanupRaises,
      StopJob, DeleteActive, Kill, MergePr, ClosePr, OrphanExits, Crash,
      Recover

(* Every step keeps the session and the volumes of a parked ticket: only a *)
(* cleanup on its way to destroy, and a fresh dispatch, take them, and     *)
(* both leave the parked status first.                                     *)
LEMMA SessionInvStep ==
  TypeInv /\ TypeInv' /\ SessionInv /\ [Next]_vars => SessionInv'
<1> SUFFICES ASSUME TypeInv, TypeInv', SessionInv, [Next]_vars PROVE SessionInv'
  OBVIOUS
<1> USE DEF SessionInv, Working, Reviewing, Resumable, SetState, SetStatus,
    Goto, ticketVars, volumeVars, workerVars
<1>0. CASE UNCHANGED <<status, session, volumes, pc, ctx>>
  BY <1>0
<1>1. CASE Claim
  BY <1>1 DEF Claim
<1>2. CASE Fetch
  BY <1>2 DEF Fetch
<1>3. CASE Create
  BY <1>3 DEF Create, TypeInv, TypeOK, Contexts
<1>4. CASE Begin
  BY <1>4 DEF Begin
<1>5. CASE Wipe
  BY <1>5 DEF Wipe
<1>6. CASE Cloned
  BY <1>6 DEF Cloned
<1>7. CASE AgentDone
  BY <1>7 DEF AgentDone, SaveSession, SessionSaved
<1>8. CASE AgentAsks
  BY <1>8 DEF AgentAsks, SaveSession, SessionSaved
<1>9. CASE Count
  BY <1>9 DEF Count
<1>10. CASE Park
  BY <1>10 DEF Park
<1>11. CASE Push
  BY <1>11 DEF Push
<1>12. CASE OpenPr
  BY <1>12 DEF OpenPr
<1>13. CASE RecordPr
  BY <1>13 DEF RecordPr
<1>14. CASE InReview
  BY <1>14 DEF InReview
<1>15. CASE Hash
  BY <1>15 DEF Hash
<1>16. CASE ReviewPasses
  BY <1>16 DEF ReviewPasses
<1>17. CASE ReviewFails
  BY <1>17 DEF ReviewFails
<1>18. CASE Unscored
  BY <1>18 DEF Unscored
<1>19. CASE Approve
  BY <1>19 DEF Approve
<1>20. CASE BumpRound
  BY <1>20 DEF BumpRound
<1>21. CASE Reworked
  BY <1>21 DEF Reworked
<1>22. CASE Repush
  BY <1>22 DEF Repush
<1>23. CASE Rehash
  BY <1>23 DEF Rehash
<1>24. CASE Complete
  BY <1>24 DEF Complete, Leave, NoCtx
<1>25. CASE Raise
  BY <1>25 DEF Raise
<1>26. CASE Fail
  BY <1>26 DEF Fail
<1>27. CASE FailRaises
  BY <1>27 DEF FailRaises, Leave, NoCtx
<1>28. CASE SetError
  BY <1>28 DEF SetError, Leave, NoCtx, FailureStatus, Protected
<1>29. ASSUME NEW e \in merges, ClaimCleanup(e) PROVE SessionInv'
  BY <1>29 DEF ClaimCleanup
<1>30. CASE MarkMerged
  BY <1>30 DEF MarkMerged, CleanupEnds, Leave, NoCtx
<1>31. CASE SetDone
  BY <1>31 DEF SetDone
<1>32. CASE Destroy
  BY <1>32 DEF Destroy, CleanupEnds, Leave, NoCtx
<1>33. CASE CleanupRaises
  BY <1>33 DEF CleanupRaises, CleanupEnds, Leave, NoCtx
<1>34. CASE MarkStopped
  BY <1>34 DEF MarkStopped
<1>35. CASE Kill
  BY <1>35 DEF Kill
<1>36. CASE DeleteKilled
  BY <1>36 DEF DeleteKilled, RowGone
<1>37. CASE DeleteFinished
  BY <1>37 DEF DeleteFinished, RowGone
<1>38. CASE Crash
  BY <1>38 DEF Crash, Leave, NoCtx
<1>39. ASSUME NEW r \in Repos, CloneOne(r) PROVE SessionInv'
  BY <1>39 DEF CloneOne
<1> QED
  BY <1>0, <1>1, <1>2, <1>3, <1>4, <1>5, <1>6, <1>7, <1>8, <1>9, <1>10, <1>11,
     <1>12, <1>13, <1>14, <1>15, <1>16, <1>17, <1>18, <1>19, <1>20, <1>21,
     <1>22, <1>23, <1>24, <1>25, <1>26, <1>27, <1>28, <1>29, <1>30, <1>31,
     <1>32, <1>33, <1>34, <1>35, <1>36, <1>37, <1>38, <1>39
  DEF Next, Engineer, Cleanup, Console, Environment, vars, ticketVars,
      volumeVars, workerVars,
      EngineerCommits, StopJob, DeleteActive, CardReady, MergePr, ClosePr,
      OrphanExits, Recover

(* Every step keeps merged rows about merged pull requests: GitHub never   *)
(* takes a merge back, and a new pull request replaces a row only in a     *)
(* build, where the ticket is not done.                                    *)
LEMMA MergeInvStep ==
  TypeInv /\ TypeInv' /\ MergeInv /\ [Next]_vars => MergeInv'
<1> SUFFICES ASSUME TypeInv, TypeInv', MergeInv, [Next]_vars PROVE MergeInv'
  OBVIOUS
<1> USE DEF MergeInv, Working, Reviewing, CleanupPcs, SetState, SetStatus, Goto,
    ticketVars, githubVars, workerVars
<1>0. CASE UNCHANGED <<rows, gh, merges, pc, ctx, status>>
  BY <1>0
<1>1. CASE Claim
  BY <1>1 DEF Claim
<1>2. CASE Fetch
  BY <1>2 DEF Fetch
<1>3. CASE Create
  BY <1>3 DEF Create
<1>4. CASE Begin
  BY <1>4 DEF Begin
<1>5. CASE Wipe
  BY <1>5 DEF Wipe
<1>6. ASSUME NEW r \in Repos, CloneOne(r) PROVE MergeInv'
  BY <1>6 DEF CloneOne
<1>7. CASE Cloned
  BY <1>7 DEF Cloned
<1>8. CASE AgentDone
  BY <1>8 DEF AgentDone
<1>9. CASE AgentAsks
  BY <1>9 DEF AgentAsks
<1>10. CASE Count
  BY <1>10 DEF Count
<1>11. CASE Park
  BY <1>11 DEF Park, TypeInv, CtxInv, Parked, Resumable
<1>12. CASE Push
  BY <1>12 DEF Push
<1>13. CASE OpenPr
  BY <1>13, SMTT(60) DEF OpenPr, TypeInv, TypeOK, CtxInv, PrNumbers
<1>14. CASE RecordPr
  BY <1>14 DEF RecordPr
<1>15. CASE InReview
  BY <1>15 DEF InReview
<1>16. CASE Hash
  BY <1>16 DEF Hash
<1>17. CASE ReviewPasses
  BY <1>17 DEF ReviewPasses
<1>18. CASE ReviewFails
  BY <1>18 DEF ReviewFails
<1>19. CASE Unscored
  BY <1>19 DEF Unscored
<1>20. CASE Approve
  BY <1>20 DEF Approve
<1>21. CASE BumpRound
  BY <1>21 DEF BumpRound
<1>22. CASE Reworked
  BY <1>22 DEF Reworked
<1>23. CASE Repush
  BY <1>23 DEF Repush
<1>24. CASE Rehash
  BY <1>24 DEF Rehash
<1>25. CASE Complete
  BY <1>25 DEF Complete, Leave, NoCtx
<1>26. CASE Raise
  BY <1>26 DEF Raise
<1>27. CASE Fail
  BY <1>27 DEF Fail
<1>28. CASE FailRaises
  BY <1>28 DEF FailRaises, Leave, NoCtx
<1>29. CASE SetError
  BY <1>29 DEF SetError, Leave, NoCtx, FailureStatus, Protected
<1>30. ASSUME NEW e \in merges, ClaimCleanup(e) PROVE MergeInv'
  BY <1>30 DEF ClaimCleanup
<1>31. CASE MarkMerged
  <2> DEFINE r == ctx.event[1]  n == ctx.event[2]
  <2>1. /\ ctx.event \in Events /\ r \in Repos /\ n \in PrNumbers
        /\ gh[r][n] = "merged" /\ UNCHANGED <<gh, status>>
    BY <1>31 DEF MarkMerged, TypeInv, CtxInv, Events
  <2>2. CASE ~Tracked(r, n)
    BY <1>31, <2>1, <2>2 DEF MarkMerged, CleanupEnds, Leave, NoCtx, AllMerged
  <2>3. CASE Tracked(r, n)
    <3>1. rows' = [rows EXCEPT ![r] = [pr |-> rows[r].pr, merged |-> TRUE]]
      BY <1>31, <2>3 DEF MarkMerged
    <3>2. rows[r].pr = n /\ n # 0
      BY <2>1, <2>3 DEF Tracked, PrNumbers
    <3>3. \A s \in Repos : rows'[s].merged =>
            rows'[s].pr # 0 /\ gh'[s][rows'[s].pr] = "merged"
      BY <2>1, <3>1, <3>2 DEF TypeInv, TypeOK
    <3>4. status = "done" => AllMerged(rows')
      BY <2>1, <3>1, <3>2 DEF AllMerged, TypeInv, TypeOK
    <3>5. CASE AllMerged(rows')
      <4>1. pc' = "setdone" /\ UNCHANGED <<ctx, merges>>
        BY <1>31, <2>3, <3>5 DEF MarkMerged
      <4> QED
        BY <1>31, <2>1, <3>3, <3>5, <4>1
    <3>6. CASE ~AllMerged(rows')
      <4>1. pc' = "idle" /\ merges' \subseteq merges
        BY <1>31, <2>3, <3>6 DEF MarkMerged, CleanupEnds, Leave
      <4> QED
        BY <2>1, <3>3, <3>4, <4>1
    <3> QED
      BY <3>5, <3>6
  <2> QED
    BY <2>2, <2>3
<1>32. CASE SetDone
  BY <1>32 DEF SetDone
<1>33. CASE Destroy
  BY <1>33 DEF Destroy, CleanupEnds, Leave, NoCtx
<1>34. CASE CleanupRaises
  BY <1>34 DEF CleanupRaises, CleanupEnds, Leave, NoCtx
<1>35. CASE MarkStopped
  BY <1>35 DEF MarkStopped
<1>36. CASE Kill
  BY <1>36 DEF Kill
<1>37. CASE DeleteKilled
  BY <1>37 DEF DeleteKilled, RowGone
<1>38. CASE DeleteFinished
  BY <1>38 DEF DeleteFinished, RowGone
<1>39. ASSUME NEW r \in Repos, NEW n \in PrNumbers, MergePr(r, n) PROVE MergeInv'
  <2>1. /\ gh' = [gh EXCEPT ![r][n] = "merged"]
        /\ merges' \subseteq merges \cup {<<r, n>>}
        /\ UNCHANGED <<rows, pc, ctx, status>>
    BY <1>39 DEF MergePr
  <2>2. gh'[r][n] = "merged"
    BY <2>1 DEF TypeInv, TypeOK
  <2>3. \A s \in Repos, m \in PrNumbers : gh[s][m] = "merged" => gh'[s][m] = "merged"
    BY <2>1, <2>2 DEF TypeInv, TypeOK
  <2>4. \A e \in merges' : gh'[e[1]][e[2]] = "merged"
    BY <2>1, <2>2, <2>3 DEF TypeInv, TypeOK
  <2>5. \A s \in Repos : rows[s].pr # 0 => rows[s].pr \in PrNumbers
    BY SMTT(60) DEF TypeInv, TypeOK, PrNumbers
  <2>6. pc \in CleanupPcs => gh'[ctx.event[1]][ctx.event[2]] = "merged"
    BY <2>3 DEF TypeInv, CtxInv, Events
  <2> QED
    BY <2>1, <2>3, <2>4, <2>5, <2>6
<1>40. ASSUME NEW r \in Repos, NEW n \in PrNumbers, ClosePr(r, n) PROVE MergeInv'
  BY <1>40 DEF ClosePr
<1>41. CASE Crash
  BY <1>41 DEF Crash, Leave, NoCtx
<1> QED
  BY <1>0, <1>1, <1>2, <1>3, <1>4, <1>5, <1>6, <1>7, <1>8, <1>9, <1>10, <1>11,
     <1>12, <1>13, <1>14, <1>15, <1>16, <1>17, <1>18, <1>19, <1>20, <1>21,
     <1>22, <1>23, <1>24, <1>25, <1>26, <1>27, <1>28, <1>29, <1>30, <1>31,
     <1>32, <1>33, <1>34, <1>35, <1>36, <1>37, <1>38, <1>39, <1>40, <1>41
  DEF Next, Engineer, Cleanup, Console, Environment, vars, ticketVars,
      githubVars, workerVars,
      EngineerCommits, StopJob, DeleteActive, CardReady, OrphanExits,
      Recover

(* Every step of the build keeps what was pushed equal to what the volume  *)
(* holds once it is reviewed: the only container that commits is the       *)
(* engineer the worker waits for.                                          *)
LEMMA ReviewInvStep ==
  TypeInv /\ TypeInv' /\ ReviewInv /\ [Next]_vars => ReviewInv'
<1> SUFFICES ASSUME TypeInv, TypeInv', ReviewInv, [Next]_vars PROVE ReviewInv'
  OBVIOUS
<1> USE DEF ReviewInv, Working, Reviewing, NameTaken, Goto, githubVars,
    volumeVars, workerVars
<1>0. CASE UNCHANGED <<reviewed, pushed, vol, pc, ctx, orphan>>
  BY <1>0
<1>1. CASE Claim
  BY <1>1 DEF Claim
<1>2. CASE Fetch
  BY <1>2 DEF Fetch
<1>3. CASE Create
  BY <1>3 DEF Create
<1>4. CASE Begin
  BY <1>4 DEF Begin, NoClone
<1>5. CASE Wipe
  BY <1>5 DEF Wipe
<1>6. ASSUME NEW r \in Repos, CloneOne(r) PROVE ReviewInv'
  BY <1>6 DEF CloneOne
<1>7. CASE Cloned
  BY <1>7 DEF Cloned
<1>8. ASSUME NEW r \in Repos, EngineerCommits(r) PROVE ReviewInv'
  BY <1>8 DEF EngineerCommits
<1>9. CASE AgentDone
  BY <1>9 DEF AgentDone
<1>10. CASE AgentAsks
  BY <1>10 DEF AgentAsks
<1>11. CASE Count
  <2>1. CASE Built = {}
    BY <1>11, <2>1 DEF Count
  <2>2. CASE Built # {}
    <3>1. /\ pc = "count" /\ pc' = "push"
          /\ ctx' = [ctx EXCEPT !.built = Built, !.todo = Built]
          /\ UNCHANGED <<reviewed, pushed, vol, orphan>>
      BY <1>11, <2>2 DEF Count
    <3>2. ctx'.built = Built /\ ctx'.todo = Built
      BY <3>1 DEF TypeInv, TypeOK, Contexts
    <3> QED
      BY <3>1, <3>2
  <2> QED
    BY <2>1, <2>2
<1>12. CASE Park
  BY <1>12 DEF Park
<1>13. CASE Push
  <2>1. PICK r \in ctx.todo : /\ pushed' = [pushed EXCEPT ![r] = vol[r]]
                              /\ ctx' = [ctx EXCEPT !.event = <<r, 0>>]
    BY <1>13 DEF Push
  <2>2. /\ pc = "push" /\ pc' = "openpr" /\ r \in Repos
        /\ UNCHANGED <<reviewed, vol, orphan>>
    BY <1>13, <2>1 DEF Push, TypeInv, TypeOK, Contexts
  <2>3. /\ ctx'.built = ctx.built /\ ctx'.todo = ctx.todo
        /\ ctx'.event = <<r, 0>>
    BY <2>1 DEF TypeInv, TypeOK, Contexts
  <2>4. reviewed = NoClone
    BY <2>2
  <2>5. pushed'[r] = vol[r] /\ \A s \in Repos \ {r} : pushed'[s] = pushed[s]
    BY <2>1, <2>2 DEF TypeInv, TypeOK
  <2>6. ctx.built \subseteq Repos
    BY DEF TypeInv, TypeOK, Contexts
  <2>7. \A s \in Repos : NoClone[s] = -1
    BY DEF NoClone
  <2> QED
    BY <2>1, <2>2, <2>3, <2>4, <2>5, <2>6, <2>7
<1>14. CASE OpenPr
  BY <1>14 DEF OpenPr
<1>15. CASE RecordPr
  BY <1>15 DEF RecordPr
<1>16. CASE InReview
  BY <1>16 DEF InReview
<1>17. CASE Hash
  BY <1>17 DEF Hash
<1>18. CASE ReviewPasses
  BY <1>18 DEF ReviewPasses
<1>19. CASE ReviewFails
  BY <1>19 DEF ReviewFails
<1>20. CASE Unscored
  BY <1>20 DEF Unscored
<1>21. CASE Approve
  BY <1>21 DEF Approve
<1>22. CASE BumpRound
  BY <1>22 DEF BumpRound
<1>23. CASE Reworked
  BY <1>23 DEF Reworked
<1>24. CASE Repush
  <2>1. /\ pc = "repush" /\ reviewed = NoClone /\ ctx.built \subseteq Repos
        /\ UNCHANGED <<reviewed, vol, orphan>>
    BY <1>24 DEF Repush, TypeInv, TypeOK, Contexts
  <2>2. CASE ToRepush = {}
    BY <1>24, <2>1, <2>2 DEF Repush, ToRepush
  <2>3. CASE ToRepush # {}
    <3>1. PICK r \in ctx.todo : /\ pushed' = [pushed EXCEPT ![r] = vol[r]]
                                /\ ctx' = [ctx EXCEPT !.todo = @ \ {r}]
                                /\ UNCHANGED pc
      BY <1>24, <2>3 DEF Repush, ToRepush
    <3>2. ctx'.built = ctx.built /\ ctx'.todo = ctx.todo \ {r} /\ r \in Repos
      BY <3>1 DEF TypeInv, TypeOK, Contexts
    <3>3. pushed'[r] = vol[r] /\ \A s \in Repos \ {r} : pushed'[s] = pushed[s]
      BY <3>1, <3>2 DEF TypeInv, TypeOK
    <3>4. \A s \in Repos : NoClone[s] = -1
      BY DEF NoClone
    <3> QED
      BY <2>1, <3>1, <3>2, <3>3, <3>4
  <2> QED
    BY <2>2, <2>3
<1>25. CASE Rehash
  BY <1>25, ZenonT(60) DEF Rehash, TypeInv, TypeOK, CtxInv, Contexts, SameDiff
<1>26. CASE Complete
  BY <1>26 DEF Complete, Leave, NoCtx
<1>27. CASE Raise
  BY <1>27 DEF Raise
<1>28. CASE Fail
  BY <1>28 DEF Fail
<1>29. CASE FailRaises
  BY <1>29 DEF FailRaises, Leave, NoCtx
<1>30. CASE SetError
  BY <1>30 DEF SetError, Leave, NoCtx
<1>31. ASSUME NEW e \in merges, ClaimCleanup(e) PROVE ReviewInv'
  BY <1>31 DEF ClaimCleanup
<1>32. CASE MarkMerged
  BY <1>32 DEF MarkMerged, CleanupEnds, Leave, NoCtx
<1>33. CASE SetDone
  BY <1>33 DEF SetDone
<1>34. CASE Destroy
  BY <1>34 DEF Destroy, CleanupEnds, Leave, NoCtx
<1>35. CASE CleanupRaises
  BY <1>35 DEF CleanupRaises, CleanupEnds, Leave, NoCtx
<1>36. CASE Kill
  BY <1>36 DEF Kill, Exited
<1>37. CASE OrphanExits
  BY <1>37 DEF OrphanExits, Exited
<1>38. CASE Crash
  BY <1>38 DEF Crash, Leave, NoCtx
<1> QED
  BY <1>0, <1>1, <1>2, <1>3, <1>4, <1>5, <1>6, <1>7, <1>8, <1>9, <1>10, <1>11,
     <1>12, <1>13, <1>14, <1>15, <1>16, <1>17, <1>18, <1>19, <1>20, <1>21,
     <1>22, <1>23, <1>24, <1>25, <1>26, <1>27, <1>28, <1>29, <1>30, <1>31,
     <1>32, <1>33, <1>34, <1>35, <1>36, <1>37, <1>38
  DEF Next, Engineer, Cleanup, Console, Environment, vars, githubVars,
      volumeVars, workerVars,
      StopJob, DeleteActive, MarkStopped, DeleteKilled, DeleteFinished,
      CardReady, MergePr, ClosePr, Recover
-----------------------------------------------------------------------------
(* The invariants hold in the initial state.                               *)
LEMMA InitHolds ==
  Init => TypeInv /\ MergeInv /\ ReviewInv /\ SessionInv /\ BoardInv
<1> SUFFICES ASSUME Init
             PROVE  TypeInv /\ MergeInv /\ ReviewInv /\ SessionInv /\ BoardInv
  OBVIOUS
<1>1. TypeOK
  <2>1. reviewed \in [Repos -> -1 .. MaxWork] /\ vol \in [Repos -> -1 .. MaxWork]
    BY NoCloneType DEF Init
  <2>2. ctx \in Contexts
    BY NoCtxType DEF Init
  <2>3. /\ rows \in [Repos -> [pr : 0 .. MaxPrs, merged : BOOLEAN]]
        /\ gh \in [Repos -> [PrNumbers -> {"none", "open", "merged", "closed"}]]
        /\ pushed \in [Repos -> 0 .. MaxWork]
        /\ count \in Counts
    BY PipelineAssumption DEF PipelineAssumption, Init, Counts
  <2>4. /\ status \in Statuses /\ board \in Columns
        /\ console \in [at : ConsolePlaces, latest : BOOLEAN]
    BY DEF Init, Statuses, Columns, Idle, ConsolePlaces
  <2> QED
    BY <2>1, <2>2, <2>3, <2>4 DEF Init, TypeOK
<1>2. CtxInv
  BY DEF Init, CtxInv, Reviewing, CleanupPcs
<1>3. MergeInv
  BY DEF Init, MergeInv, Working, Reviewing, CleanupPcs
<1>4. ReviewInv
  BY DEF Init, ReviewInv, Working, Reviewing, NoClone
<1>5. SessionInv /\ BoardInv
  BY DEF Init, SessionInv, BoardInv, Working, Reviewing, Parked, Resumable
<1> QED
  BY <1>1, <1>2, <1>3, <1>4, <1>5 DEF TypeInv

(* The type invariant with the worker's locals holds throughout.           *)
LEMMA TypeInvHolds == Spec => []TypeInv
<1>1. TypeInv /\ [Next]_vars => TypeInv'
  BY TypeStep, CtxStep DEF TypeInv
<1> QED
  BY <1>1, InitHolds, PTL DEF Spec

(* Type correctness: no interleaving of the pipeline, the cleanups, the    *)
(* console, leftover containers and restarts leaves a value outside its    *)
(* type; the worker's locals are never used before they are set.           *)
THEOREM TypeCorrect == Spec => []TypeOK
<1>1. TypeInv => TypeOK
  BY DEF TypeInv
<1> QED
  BY <1>1, TypeInvHolds, PTL

(* A ticket is done only on merged pull requests, for any number of repos, *)
(* pull requests, retriggers and restarts (_run_cleanup).                  *)
THEOREM DoneIsMerged == Spec => []DoneMeansMerged
<1>1. MergeInv => DoneMeansMerged
  BY DEF MergeInv, DoneMeansMerged, AllMerged
<1> QED
  BY <1>1, InitHolds, MergeInvStep, TypeInvHolds, PTL DEF Spec

(* A ticket up for approval shows GitHub the versions its verdicts were    *)
(* about, in every repo (_review_loop).                                    *)
THEOREM ApprovalIsPushed == Spec => []ApprovedIsPushed
<1>1. ReviewInv => ApprovedIsPushed
  BY DEF ReviewInv, ApprovedIsPushed
<1> QED
  BY <1>1, InitHolds, ReviewInvStep, TypeInvHolds, PTL DEF Spec

(* A parked ticket nobody works on keeps its session and its volumes       *)
(* (_resume_context, _run_cleanup).                                        *)
THEOREM ParkKeepsSession == Spec => []ParkedKeepsSession
<1>1. SessionInv => ParkedKeepsSession
  BY DEF SessionInv, ParkedKeepsSession
<1> QED
  BY <1>1, InitHolds, SessionInvStep, TypeInvHolds, PTL DEF Spec

(* A parked ticket shows in the blocked column or was moved on, unless the *)
(* board refused the move (_park).                                         *)
THEOREM ParkShowsOnBoard == Spec => []ParkedOnBoard
<1>1. BoardInv => ParkedOnBoard
  BY DEF BoardInv, ParkedOnBoard
<1> QED
  BY <1>1, InitHolds, BoardInvStep, TypeInvHolds, PTL DEF Spec
=============================================================================
