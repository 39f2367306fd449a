--------------------------- MODULE BuildOrderProofs ---------------------------
(***************************************************************************)
(* Proofs about BuildOrder for any number of tickets, any set of plans,    *)
(* any issues without an id, and any bounds on runs, pull requests and     *)
(* disturbances.                                                           *)
(*                                                                         *)
(* BuildsAfterBlockers follows from an inductive invariant in four parts:  *)
(* the blocking graph the database holds is the plan's, its keys resolved  *)
(* to the issues created (GraphInv), only a merged ticket is done          *)
(* (DoneInv), only a merged pull request has a cleanup job (CleanupInv),   *)
(* and what the gate checked when it took a job still holds while the job  *)
(* is built (BuildInv).                                                    *)
(***************************************************************************)
EXTENDS BuildOrder, SequenceTheorems, TLAPS

(* The places of the planner and of a build.                               *)
Planning == {"plan", "create", "record", "planned"}
Building == {"build", "building", "reviewing"}

(* The job at hand is of the kind of the worker's place, a planner that    *)
(* got a plan has a run, and an open pull request has a number.            *)
PlaceInv ==
  /\ pc \in Planning => held = PlanJob
  /\ pc \in Building => \E i \in Issues : held = Build(i)
  /\ pc = "merge" => \E i \in Issues, n \in 1 .. MaxPrs : held = Merge(i, n)
  /\ pc \in {"create", "record", "planned"} => run # 0
  /\ \A i \in Issues : pr[i].open => pr[i].number # 0

TypeInv == TypeOK /\ PlaceInv

(* A recorded row's blockers are those its plan's keys stand for: its plan *)
(* is not rewritten, and when a row of it is recorded all its issues have  *)
(* been created.                                                           *)
GraphInv ==
  \A i \in recorded :
    /\ i[1] <= run /\ (pc = "create" => i[1] # run)
    /\ row[i].blockedBy = Needs(i)

(* A ticket is done only after a human merged it.                          *)
DoneInv == \A i \in Issues : Status(i) = "done" => i \in merged

(* So is one whose cleanup job waits or runs.                              *)
CleanupInv ==
  \A i \in Issues, n \in 1 .. MaxPrs :
    Active(Merge(i, n)) \/ held = Merge(i, n) => i \in merged

(* What the gate checked stays true from the claim to the end of a build.  *)
BuildInv ==
  \A i \in recorded :
    (pc \in Building /\ held = Build(i)) => Needs(i) \subseteq merged

GateInv == GraphInv /\ DoneInv /\ CleanupInv /\ BuildInv
-----------------------------------------------------------------------------
(* The jobs the webhooks create are jobs.                                  *)
LEMMA JobTypes ==
  /\ PlanJob \in Jobs
  /\ \A i \in Issues : Build(i) \in Jobs
  /\ \A i \in Issues, n \in 1 .. MaxPrs : Merge(i, n) \in Jobs
  BY DEF Jobs

(* A job is of one of three kinds, told by its first component.            *)
LEMMA JobKinds ==
  ASSUME NEW job \in Jobs
  PROVE  \/ job = PlanJob /\ job[1] = "plan"
         \/ \E i \in Issues : job = Build(i) /\ job[1] = "build" /\ job[2] = i
         \/ \E i \in Issues, n \in 1 .. MaxPrs :
              job = Merge(i, n) /\ job[1] = "merge" /\ job[2] = i /\ job[3] = n
  BY DEF Jobs, PlanJob, Build, Merge

(* The tickets of a plan are numbered within the bound.                    *)
LEMMA PlanDomain ==
  ASSUME TypeOK, run # 0
  PROVE  DOMAIN plan[run] \subseteq Numbers
<1>1. plan[run] \in Plans \cup {NoPlan}
  BY DEF TypeOK
<1>2. CASE plan[run] \in Plans
  <2>1. PICK n \in 1 .. Tickets :
          plan[run] \in [1 .. n -> [key : Keys, blockedBy : SUBSET Keys]]
    BY <1>2, BuildOrderAssumption DEF BuildOrderAssumption
  <2> QED
    BY <2>1, BuildOrderAssumption DEF BuildOrderAssumption, Numbers
<1>3. CASE plan[run] = NoPlan
  BY <1>3 DEF NoPlan, Numbers
<1> QED
  BY <1>1, <1>2, <1>3

(* Taking one element out of a sequence adds nothing to it.                *)
LEMMA RemoveAtType ==
  ASSUME NEW S, NEW s \in Seq(S), NEW j \in 1 .. Len(s)
  PROVE  /\ RemoveAt(s, j) \in Seq(S)
         /\ \A e : Contains(RemoveAt(s, j), e) => Contains(s, e)
<1> DEFINE a == SubSeq(s, 1, j - 1)  b == SubSeq(s, j + 1, Len(s))
           c == a \o b
<1>1. Len(s) \in Nat /\ j \in Nat
  BY LenProperties
<1>2. /\ a \in Seq(S) /\ Len(a) = j - 1
      /\ \A k \in 1 .. Len(a) : a[k] = s[k]
  BY SubSeqProperties
<1>3. /\ b \in Seq(S) /\ Len(b) = Len(s) - j
      /\ \A k \in 1 .. Len(b) : b[k] = s[j + k]
  BY SubSeqProperties
<1> HIDE DEF a, b
<1>4. /\ c \in Seq(S) /\ Len(c) = Len(a) + Len(b)
      /\ \A k \in 1 .. Len(a) + Len(b) :
           c[k] = IF k <= Len(a) THEN a[k] ELSE b[k - Len(a)]
  BY <1>2, <1>3, ConcatProperties
<1> HIDE DEF c
<1>5. \A k \in 1 .. Len(c) : \E m \in 1 .. Len(s) : c[k] = s[m]
  <2> SUFFICES ASSUME NEW k \in 1 .. Len(c)
               PROVE  \E m \in 1 .. Len(s) : c[k] = s[m]
    OBVIOUS
  <2>1. CASE k <= Len(a)
    BY <1>1, <1>2, <1>3, <1>4, <2>1
  <2>2. CASE ~(k <= Len(a))
    <3>1. k - Len(a) \in 1 .. Len(b) /\ k + 1 \in 1 .. Len(s)
      BY <1>1, <1>2, <1>3, <1>4, <2>2
    <3>2. j + (k - Len(a)) = k + 1
      BY <1>1, <1>2, <1>4
    <3>3. c[k] = s[k + 1]
      BY <1>3, <1>4, <2>2, <3>1, <3>2
    <3> QED
      BY <3>1, <3>3
  <2> QED
    BY <2>1, <2>2
<1>6. c = RemoveAt(s, j)
  BY DEF RemoveAt, a, b, c
<1> QED
  BY <1>4, <1>5, <1>6 DEF Contains

(* Enqueueing adds at most the job enqueued (enqueue_job).                 *)
LEMMA EnqueueType ==
  ASSUME queue \in Seq(Jobs), NEW job \in Jobs, Enqueue(job)
  PROVE  /\ queue' \in Seq(Jobs)
         /\ \A e : Active(e)' => Active(e) \/ e = job
<1>1. CASE queue' = queue
  BY <1>1 DEF Active, Contains
<1>2. CASE queue' = Append(queue, job)
  BY <1>2, AppendProperties DEF Active, Contains
<1> QED
  BY <1>1, <1>2 DEF Enqueue

(* A job that ends or is stopped leaves, and nothing enters.               *)
LEMMA DropType ==
  ASSUME queue \in Seq(Jobs), NEW job, Drop(job)
  PROVE  /\ queue' \in Seq(Jobs)
         /\ \A e : Active(e)' => Active(e)
  BY RemoveAtType DEF Drop, Active

(* set_status changes one ticket's status and no ticket's blockers.        *)
LEMMA StatusStep ==
  ASSUME row \in [Issues -> [status : Statuses, blockedBy : SUBSET Issues]],
         NEW i \in Issues, NEW s \in Statuses, SetStatus(i, s)
  PROVE  /\ row' \in [Issues -> [status : Statuses, blockedBy : SUBSET Issues]]
         /\ \A k \in Issues : row'[k].blockedBy = row[k].blockedBy
         /\ \A k \in Issues : row'[k].status \in {row[k].status, s}
         /\ \A k \in Issues \ {i} : row'[k].status = row[k].status
  BY DEF SetStatus, Status

(* A counted event stays within its bound.                                 *)
LEMMA CountedType ==
  ASSUME count \in [epics : 0 .. MaxEpics, events : 0 .. MaxEvents],
         Counted("epics", MaxEpics) \/ Counted("events", MaxEvents)
  PROVE  count' \in [epics : 0 .. MaxEpics, events : 0 .. MaxEvents]
<1> USE BuildOrderAssumption DEF BuildOrderAssumption, Counted
<1>1. CASE Counted("epics", MaxEpics)
  <2>1. count.epics + 1 \in 0 .. MaxEpics
    BY <1>1
  <2> QED
    BY <1>1, <2>1
<1>2. CASE Counted("events", MaxEvents)
  <2>1. count.events + 1 \in 0 .. MaxEvents
    BY <1>2
  <2> QED
    BY <1>2, <2>1
<1> QED
  BY <1>1, <1>2

(* The end of a handler frees the worker and adds no job (complete_job).   *)
LEMMA EndType ==
  ASSUME TypeInv, held \in Jobs, EndJob
  PROVE  /\ queue' \in Seq(Jobs) /\ running' \subseteq Jobs
         /\ ended' \subseteq Issues
         /\ pc' = "idle" /\ held' = None
         /\ \A e : Active(e)' => Active(e)
<1>1. CASE held \in running
  <2>1. Drop(held) /\ ended' = EndedWith(held)
    BY <1>1 DEF EndJob
  <2>2. running' \subseteq Jobs
    BY <2>1 DEF Drop, TypeInv, TypeOK
  <2>3. ended' \subseteq Issues
    BY <2>1, JobKinds DEF EndedWith, TypeInv, TypeOK, PlanJob, Build, Merge
  <2> QED
    BY <2>1, <2>2, <2>3, DropType DEF EndJob, Free, TypeInv, TypeOK
<1>2. CASE held \notin running
  BY <1>2 DEF EndJob, Free, jobVars, Active, TypeInv, TypeOK
<1> QED
  BY <1>1, <1>2

(* Every step of the worker, the planner, the console and the environment  *)
(* keeps every variable in its type.                                       *)
LEMMA TypeStep == TypeInv /\ [Next]_vars => TypeOK'
<1> SUFFICES ASSUME TypeInv, [Next]_vars PROVE TypeOK'
  OBVIOUS
<1> USE BuildOrderAssumption DEF BuildOrderAssumption, TypeInv, TypeOK, jobVars,
    workerVars, planVars, ticketVars, githubVars, processVars
<1>1. CASE Take
  BY <1>1, JobKinds DEF Take, Eligible
<1>2. CASE PlanAnswered
  <2>1. PICK p \in Plans : plan' = [plan EXCEPT ![run + 1] = p]
    BY <1>2 DEF PlanAnswered
  <2> QED
    BY <1>2, <2>1 DEF PlanAnswered, Numbers
<1>3. CASE CreateIssue
  <2>1. Current \in Issues
    BY <1>3 DEF CreateIssue, PlaceInv, Current, Issues
  <2>2. next' \in Numbers /\ pc' \in {"create", "record"}
    BY <1>3, PlanDomain DEF CreateIssue, PlaceInv, Numbers
  <2>3. /\ issues' \subseteq Issues /\ created' \subseteq issues'
        /\ announced' \subseteq issues'
    BY <1>3, <2>1 DEF CreateIssue
  <2>4. count' \in [epics : 0 .. MaxEpics, events : 0 .. MaxEvents]
    BY <1>3, CountedType DEF CreateIssue
  <2> QED
    BY <1>3, <2>2, <2>3, <2>4 DEF CreateIssue
<1>4. CASE RecordRow
  <2>1. Current \in Issues
    BY <1>4 DEF RecordRow, PlaceInv, Current, Issues
  <2>2. next' \in Numbers /\ pc' \in {"record", "planned"}
    BY <1>4, PlanDomain DEF RecordRow, PlaceInv
  <2>3. [status |-> "fresh", blockedBy |-> BlockedIds]
          \in [status : Statuses, blockedBy : SUBSET Issues]
    BY DEF BlockedIds, KeyToId, Statuses
  <2>4. row' \in [Issues -> [status : Statuses, blockedBy : SUBSET Issues]]
    BY <1>4, <2>1, <2>3 DEF RecordRow
  <2>5. recorded' \subseteq Issues
    BY <1>4, <2>1 DEF RecordRow
  <2> QED
    BY <1>4, <2>2, <2>4, <2>5 DEF RecordRow
<1>5. CASE PlanEnds
  BY <1>5, EndType, JobTypes DEF PlanEnds, PlaceInv, Planning
<1>6. CASE Begin
  <2>1. held[2] \in Issues
    BY <1>6 DEF Begin, PlaceInv, Building, Build
  <2> QED
    BY <1>6, <2>1, ZenonT(60) DEF Begin, Statuses
<1>7. CASE OpenPr
  BY <1>7, JobKinds DEF OpenPr, PlaceInv, Building, Build
<1>8. CASE BuildEnds
  <2>1. held[2] \in Issues /\ held \in Jobs
    BY <1>8, JobTypes DEF BuildEnds, PlaceInv, Building, Build
  <2>2. row' \in [Issues -> [status : Statuses, blockedBy : SUBSET Issues]]
    BY <1>8, <2>1, StatusStep DEF BuildEnds, Statuses
  <2> QED
    BY <1>8, <2>1, <2>2, EndType DEF BuildEnds
<1>9. CASE CleanUp
  <2>1. held[2] \in Issues /\ held \in Jobs
    BY <1>9, JobTypes DEF CleanUp, PlaceInv, Merge
  <2>2. row' \in [Issues -> [status : Statuses, blockedBy : SUBSET Issues]]
    BY <1>9, <2>1, StatusStep DEF CleanUp, Statuses
  <2> QED
    BY <1>9, <2>1, <2>2, EndType DEF CleanUp
<1>10. CASE CleanupRaises
  <2>1. held \in Jobs
    BY <1>10, JobTypes DEF CleanupRaises, PlaceInv
  <2> QED
    BY <1>10, <2>1, EndType DEF CleanupRaises
<1>11. CASE EpicEvent
  BY <1>11, EnqueueType, JobTypes, CountedType DEF EpicEvent
<1>12. ASSUME NEW i \in Issues, Announce(i) PROVE TypeOK'
  BY <1>12, EnqueueType, JobTypes DEF Announce
<1>13. ASSUME NEW i \in Issues, CardReady(i) PROVE TypeOK'
  BY <1>13, EnqueueType, JobTypes, CountedType DEF CardReady
<1>14. ASSUME NEW i \in Issues, MergePr(i) PROVE TypeOK'
  <2>1. Merge(i, pr[i].number) \in Jobs
    BY <1>14, JobTypes DEF MergePr, PlaceInv
  <2> QED
    BY <1>14, <2>1, EnqueueType DEF MergePr
<1>15. ASSUME NEW i \in Issues, Delete(i) PROVE TypeOK'
  <2>1. queue' \in Seq(Jobs) /\ running' \subseteq Jobs /\ ended' \subseteq Issues
    BY <1>15, DropType DEF Delete, Drop
  <2>2. row' \in [Issues -> [status : Statuses, blockedBy : SUBSET Issues]]
    BY <1>15 DEF Delete, NoRow, Statuses
  <2> QED
    BY <1>15, <2>1, <2>2, CountedType DEF Delete
<1>16. ASSUME NEW job \in Jobs, Stop(job) PROVE TypeOK'
  <2>1. queue' \in Seq(Jobs) /\ running' \subseteq Jobs
    BY <1>16, DropType DEF Stop, Drop
  <2>2. job[1] = "build" => job[2] \in Issues
    BY JobKinds DEF PlanJob, Build, Merge
  <2>3. ended' \subseteq Issues
    BY <1>16, <2>2 DEF Stop, EndedWith
  <2>4. row' \in [Issues -> [status : Statuses, blockedBy : SUBSET Issues]]
    BY <1>16, <2>2, StatusStep DEF Stop, Statuses
  <2> QED
    BY <1>16, <2>1, <2>3, <2>4, CountedType DEF Stop
<1>17. CASE Crash
  BY <1>17, CountedType DEF Crash, Free
<1>18. CASE Recover
  BY <1>18 DEF Recover
<1>19. CASE UNCHANGED vars
  BY <1>19 DEF vars
<1> QED
  BY <1>1, <1>2, <1>3, <1>4, <1>5, <1>6, <1>7, <1>8, <1>9, <1>10, <1>11, <1>12,
     <1>13, <1>14, <1>15, <1>16, <1>17, <1>18, <1>19
  DEF Next, Worker, Environment

(* Every step leaves the worker with a job of the kind of its place.       *)
LEMMA PlaceStep == TypeInv /\ [Next]_vars => PlaceInv'
<1> SUFFICES ASSUME TypeInv, [Next]_vars PROVE PlaceInv'
  OBVIOUS
<1> USE BuildOrderAssumption DEF BuildOrderAssumption, TypeInv, PlaceInv,
    Planning, Building, jobVars, workerVars, planVars, ticketVars, githubVars,
    processVars
<1>1. CASE UNCHANGED <<pc, held, run, pr>>
  BY <1>1
<1>2. CASE Take
  <2>1. PICK j \in DOMAIN queue : pc' = queue[j][1] /\ held' = queue[j]
    BY <1>2 DEF Take, Eligible
  <2>2. held' \in Jobs /\ pc' = held'[1]
    BY <2>1 DEF TypeOK
  <2>3. UNCHANGED <<run, pr>>
    BY <1>2 DEF Take
  <2> QED
    BY <2>2, <2>3, JobKinds
<1>3. CASE PlanAnswered
  BY <1>3 DEF PlanAnswered, TypeOK
<1>4. CASE CreateIssue
  BY <1>4 DEF CreateIssue
<1>5. CASE RecordRow
  BY <1>5 DEF RecordRow
<1>6. CASE Begin
  BY <1>6 DEF Begin
<1>7. CASE OpenPr
  <2>1. held[2] \in Issues
    BY <1>7 DEF OpenPr, Build
  <2>2. \A i \in Issues : pr'[i].open => pr'[i].number # 0
    BY <1>7, <2>1 DEF OpenPr, TypeOK
  <2> QED
    BY <1>7, <2>2 DEF OpenPr
<1>8. ASSUME NEW i \in Issues, MergePr(i) PROVE PlaceInv'
  BY <1>8 DEF MergePr, TypeOK
<1>9. CASE PlanEnds \/ BuildEnds \/ CleanUp \/ CleanupRaises
  BY <1>9 DEF PlanEnds, BuildEnds, CleanUp, CleanupRaises, EndJob, Free
<1>10. CASE Crash
  BY <1>10 DEF Crash, Free
<1> QED
  BY <1>1, <1>2, <1>3, <1>4, <1>5, <1>6, <1>7, <1>8, <1>9, <1>10
  DEF Next, Worker, Environment, vars, EpicEvent, Announce, CardReady, Stop,
      Delete, Recover

(* No step changes the blockers of a recorded row: create_planned writes   *)
(* each row once, with the ids of the plan's keys, and a later planner run *)
(* has issues of its own.                                                  *)
LEMMA GraphStep == TypeInv /\ GraphInv /\ [Next]_vars => GraphInv'
<1> SUFFICES ASSUME TypeInv, GraphInv, [Next]_vars PROVE GraphInv'
  OBVIOUS
<1> USE DEF TypeInv, TypeOK, GraphInv, Needs, jobVars, workerVars, planVars,
    ticketVars, githubVars, processVars
<1>1. CASE /\ UNCHANGED <<run, plan, created>> /\ recorded' \subseteq recorded
           /\ \A i \in recorded' : row'[i].blockedBy = row[i].blockedBy
           /\ pc' = "create" => pc = "create"
  BY <1>1 DEF Planned, SameKey
<1>2. CASE PlanAnswered
  <2>1. run' = run + 1 /\ UNCHANGED <<row, recorded, created>> /\ run \in Nat
    BY <1>2 DEF PlanAnswered
  <2>2. \A i \in recorded : i[1] # run + 1 /\ i[1] <= run + 1
    BY DEF Issues
  <2>3. \A i \in Issues : i[1] # run + 1 => Planned(i)' = Planned(i)
    BY <1>2 DEF PlanAnswered, Issues, Planned
  <2>4. \A i \in recorded : Needs(i)' = Needs(i)
    BY <2>1, <2>2, <2>3 DEF SameKey
  <2> QED
    BY <2>1, <2>2, <2>4
<1>8. CASE CreateIssue
  <2>1. UNCHANGED <<run, plan, row, recorded>> /\ created' \subseteq created \cup {Current}
    BY <1>8 DEF CreateIssue
  <2>2. created \subseteq created' /\ pc = "create"
    BY <1>8 DEF CreateIssue
  <2>3. \A i \in recorded : \A b \in created' : b[1] = i[1] => b \in created
    BY <2>1, <2>2 DEF Current
  <2>4. \A i \in recorded : Needs(i)' = Needs(i)
    BY <2>1, <2>2, <2>3 DEF Planned, SameKey
  <2> QED
    BY <2>1, <2>2, <2>4
<1>3. CASE RecordRow
  <2>1. PICK i \in Issues : i = Current /\ i[1] = run /\ i[2] = next
    <3>1. run \in 1 .. MaxRuns /\ next \in Numbers
      BY <1>3 DEF RecordRow, PlaceInv
    <3>2. Current \in Issues /\ Current[1] = run /\ Current[2] = next
      BY <3>1 DEF Current, Issues
    <3> QED
      BY <3>2
  <2>2. /\ UNCHANGED <<run, plan, created>> /\ run \in Nat
        /\ pc' # "create"
    BY <1>3 DEF RecordRow
  <2>3. CASE i \in created /\ Status(i) = "absent"
    <3>1. row' = [row EXCEPT ![i] =
                    [status |-> "fresh", blockedBy |-> BlockedIds]]
      BY <1>3, <2>1, <2>3 DEF RecordRow
    <3>2. recorded' = recorded \cup {i}
      BY <1>3, <2>1, <2>3 DEF RecordRow
    <3>3. row'[i].blockedBy = BlockedIds /\ \A k \in Issues \ {i} : row'[k] = row[k]
      BY <2>1, <3>1
    <3>4. BlockedIds = Needs(i)
      BY <2>1 DEF BlockedIds, KeyToId, SameKey
    <3>5. \A k \in Issues : Needs(k)' = Needs(k)
      BY <2>2 DEF Planned, SameKey
    <3>6. \A k \in recorded \ {i} :
            k[1] <= run' /\ row'[k].blockedBy = Needs(k)'
      BY <2>2, <3>3, <3>5
    <3>7. i[1] <= run' /\ row'[i].blockedBy = Needs(i)'
      BY <2>1, <2>2, <3>3, <3>4, <3>5
    <3> HIDE DEF Needs
    <3> QED
      BY <2>2, <3>2, <3>6, <3>7
  <2>4. CASE ~(i \in created /\ Status(i) = "absent")
    BY <1>1, <1>3, <2>1, <2>2, <2>4 DEF RecordRow
  <2> QED
    BY <2>3, <2>4
<1>4. CASE Begin
  BY <1>1, <1>4 DEF Begin
<1>5. CASE BuildEnds \/ CleanUp
  <2>1. held[2] \in Issues
    BY <1>5 DEF BuildEnds, CleanUp, PlaceInv, Building, Build, Merge
  <2>2. \A i \in Issues : row'[i].blockedBy = row[i].blockedBy
    BY <1>5, <2>1, StatusStep DEF BuildEnds, CleanUp, Statuses
  <2> QED
    BY <1>1, <1>5, <2>2 DEF BuildEnds, CleanUp, EndJob, Free
<1>6. ASSUME NEW job \in Jobs, Stop(job) PROVE GraphInv'
  <2>1. job[1] = "build" => job[2] \in Issues
    BY JobKinds DEF PlanJob, Build, Merge
  <2>2. \A i \in Issues : row'[i].blockedBy = row[i].blockedBy
    BY <1>6, <2>1, StatusStep DEF Stop, Statuses
  <2> QED
    BY <1>1, <1>6, <2>2 DEF Stop
<1>7. ASSUME NEW i \in Issues, Delete(i) PROVE GraphInv'
  BY <1>1, <1>7 DEF Delete
<1>9. CASE Take
  <2>1. pc' # "create"
    BY <1>9, JobKinds DEF Take, Eligible
  <2> QED
    BY <1>1, <1>9, <2>1 DEF Take
<1>10. CASE PlanEnds \/ CleanupRaises \/ Crash
  BY <1>1, <1>10 DEF PlanEnds, CleanupRaises, Crash, EndJob, Free
<1>11. CASE OpenPr
  BY <1>1, <1>11 DEF OpenPr
<1> QED
  BY <1>1, <1>2, <1>3, <1>4, <1>5, <1>6, <1>7, <1>8, <1>9, <1>10, <1>11
  DEF Next, Worker, Environment, vars, EpicEvent, Announce, CardReady, MergePr,
      Recover

(* Only a cleanup writes `done`, and a cleanup is about a merged ticket.   *)
LEMMA DoneStep ==
  TypeInv /\ DoneInv /\ CleanupInv /\ [Next]_vars => DoneInv'
<1> SUFFICES ASSUME TypeInv, DoneInv, CleanupInv, [Next]_vars PROVE DoneInv'
  OBVIOUS
<1> USE DEF TypeInv, TypeOK, DoneInv, Status, jobVars, workerVars, planVars,
    ticketVars, githubVars, processVars
<1>1. CASE /\ merged \subseteq merged'
           /\ \A i \in Issues : row'[i].status = "done" => row[i].status = "done"
  BY <1>1
<1>2. CASE RecordRow
  BY <1>1, <1>2 DEF RecordRow
<1>3. CASE Begin
  BY <1>1, <1>3 DEF Begin
<1>4. CASE BuildEnds
  BY <1>1, <1>4 DEF BuildEnds, SetStatus
<1>5. CASE CleanUp
  <2>1. PICK i \in Issues, n \in 1 .. MaxPrs : held = Merge(i, n)
    BY <1>5 DEF CleanUp, PlaceInv
  <2>2. i \in merged /\ held[2] = i
    BY <2>1 DEF CleanupInv, Merge
  <2>3. \A k \in Issues : row'[k].status = "done" => row[k].status = "done" \/ k = i
    BY <1>5, <2>2 DEF CleanUp, SetStatus
  <2> QED
    BY <1>5, <2>2, <2>3 DEF CleanUp
<1>6. ASSUME NEW job \in Jobs, Stop(job) PROVE DoneInv'
  <2>1. job[1] = "build" => job[2] \in Issues
    BY JobKinds DEF PlanJob, Build, Merge
  <2>2. \A i \in Issues : row'[i].status \in {row[i].status, "resting"}
    BY <1>6, <2>1, StatusStep DEF Stop, Statuses
  <2> QED
    BY <1>1, <1>6, <2>2 DEF Stop
<1>7. ASSUME NEW i \in Issues, Delete(i) PROVE DoneInv'
  BY <1>1, <1>7 DEF Delete, NoRow
<1>8. ASSUME NEW i \in Issues, MergePr(i) PROVE DoneInv'
  BY <1>1, <1>8 DEF MergePr
<1> QED
  BY <1>1, <1>2, <1>3, <1>4, <1>5, <1>6, <1>7, <1>8
  DEF Next, Worker, Environment, vars, Take, PlanAnswered, CreateIssue,
      PlanEnds, OpenPr,
      CleanupRaises, EpicEvent, Announce, CardReady, Crash, Recover

(* Only a merge creates a cleanup job.                                     *)
LEMMA CleanupStep == TypeInv /\ CleanupInv /\ [Next]_vars => CleanupInv'
<1> SUFFICES ASSUME TypeInv, CleanupInv, [Next]_vars PROVE CleanupInv'
  OBVIOUS
<1> USE DEF CleanupInv, jobVars, workerVars, planVars, ticketVars, githubVars,
    processVars
<1> DEFINE IsMerge(e) == \E i \in Issues, n \in 1 .. MaxPrs : e = Merge(i, n)
<1>1. ~IsMerge(None) /\ ~IsMerge(PlanJob) /\ \A i : ~IsMerge(Build(i))
  BY DEF None, PlanJob, Build, Merge
<1>2. \A i, k, m, n : Merge(i, n) = Merge(k, m) => i = k
  BY DEF Merge
<1> HIDE DEF IsMerge
<1>3. CASE /\ merged \subseteq merged'
           /\ \A e : Active(e)' => Active(e) \/ ~IsMerge(e)
           /\ held' = held \/ Active(held') \/ ~IsMerge(held')
  BY <1>3 DEF IsMerge
<1>4. CASE UNCHANGED <<queue, held, merged>>
  BY <1>4 DEF Active
<1>5. CASE Take
  <2>1. PICK j \in DOMAIN queue : held' = queue[j]
    BY <1>5 DEF Take, Eligible
  <2>2. Active(held') /\ UNCHANGED <<queue, merged>>
    BY <1>5, <2>1 DEF Take, Active, Contains, TypeInv, TypeOK
  <2> QED
    BY <1>3, <2>2 DEF Active
<1>6. CASE PlanEnds \/ BuildEnds \/ CleanUp \/ CleanupRaises
  <2>1. EndJob /\ held \in Jobs /\ UNCHANGED merged
    BY <1>6, JobTypes DEF PlanEnds, BuildEnds, CleanUp, CleanupRaises, TypeInv,
       PlaceInv, Planning, Building
  <2> QED
    BY <1>1, <1>3, <2>1, EndType
<1>7. CASE EpicEvent
  <2>1. \A e : Active(e)' => Active(e) \/ e = PlanJob
    BY <1>7, EnqueueType, JobTypes DEF EpicEvent, TypeInv, TypeOK
  <2> QED
    BY <1>1, <1>3, <1>7, <2>1 DEF EpicEvent
<1>8. ASSUME NEW i \in Issues, Announce(i) \/ CardReady(i) PROVE CleanupInv'
  <2>1. Enqueue(Build(i)) /\ UNCHANGED <<held, merged>>
    BY <1>8 DEF Announce, CardReady
  <2>2. \A e : Active(e)' => Active(e) \/ e = Build(i)
    BY <2>1, EnqueueType, JobTypes DEF TypeInv, TypeOK
  <2> QED
    BY <1>1, <1>3, <2>1, <2>2
<1>9. ASSUME NEW i \in Issues, MergePr(i) PROVE CleanupInv'
  <2>1. Merge(i, pr[i].number) \in Jobs
    BY <1>9, JobTypes DEF MergePr, TypeInv, TypeOK, PlaceInv
  <2>2. \A e : Active(e)' => Active(e) \/ e = Merge(i, pr[i].number)
    BY <1>9, <2>1, EnqueueType DEF MergePr, TypeInv, TypeOK
  <2>3. held' = held /\ merged' = merged \cup {i}
    BY <1>9 DEF MergePr
  <2> QED
    BY <1>2, <2>2, <2>3
<1>10. ASSUME NEW job \in Jobs, Stop(job) PROVE CleanupInv'
  BY <1>3, <1>10, DropType DEF Stop, TypeInv, TypeOK
<1>11. ASSUME NEW i \in Issues, Delete(i) PROVE CleanupInv'
  <2>1. \A e : Active(e)' => Active(e)
    BY <1>11, DropType DEF Delete, Active, TypeInv, TypeOK
  <2> QED
    BY <1>3, <1>11, <2>1 DEF Delete
<1>12. CASE Crash
  BY <1>1, <1>3, <1>12 DEF Crash, Free, Active
<1> QED
  BY <1>4, <1>5, <1>6, <1>7, <1>8, <1>9, <1>10, <1>11, <1>12
  DEF Next, Worker, Environment, vars, PlanAnswered, CreateIssue, RecordRow,
      Begin, OpenPr, Recover

(* The gate takes a job only when the blockers of its row are done, and a  *)
(* merge is never taken back.                                              *)
LEMMA BuildStep == TypeInv /\ GateInv /\ [Next]_vars => BuildInv'
<1> SUFFICES ASSUME TypeInv, GateInv, [Next]_vars PROVE BuildInv'
  OBVIOUS
<1> USE DEF TypeInv, TypeOK, GateInv, BuildInv, Building, Needs, jobVars,
    workerVars, planVars, ticketVars, githubVars, processVars
<1>1. CASE /\ UNCHANGED <<plan, created>> /\ recorded' \subseteq recorded
           /\ merged \subseteq merged' /\ held' = held
           /\ pc' \in Building => pc \in Building
  BY <1>1 DEF Planned, SameKey
<1>2. CASE pc' \notin Building
  BY <1>2
<1>3. CASE Take
  <2> SUFFICES ASSUME NEW i \in recorded, held' = Build(i), pc' \in Building
               PROVE  Needs(i) \subseteq merged
    <3>1. UNCHANGED <<plan, created, recorded, merged>>
      BY <1>3 DEF Take
    <3>2. \A i : Needs(i)' = Needs(i)
      BY <3>1 DEF Planned, SameKey
    <3> HIDE DEF Needs
    <3> QED
      BY <3>1, <3>2
  <2>1. PICK j \in Eligible : held' = queue[j]
    BY <1>3 DEF Take
  <2>2. queue[j][1] = "build" /\ queue[j][2] = i
    BY <2>1 DEF Build
  <2>3. ~Blocked(i)
    BY <2>1, <2>2 DEF Eligible
  <2>4. \A b \in row[i].blockedBy : b \in merged
    BY <2>3 DEF Blocked, DoneInv
  <2> QED
    BY <2>4 DEF GraphInv
<1>4. CASE PlanAnswered \/ CreateIssue \/ RecordRow
  BY <1>2, <1>4 DEF PlanAnswered, CreateIssue, RecordRow
<1>5. CASE Begin \/ OpenPr
  BY <1>1, <1>5 DEF Begin, OpenPr
<1>6. CASE PlanEnds \/ BuildEnds \/ CleanUp \/ CleanupRaises \/ Crash
  BY <1>2, <1>6 DEF PlanEnds, BuildEnds, CleanUp, CleanupRaises, Crash, EndJob,
     Free
<1>7. ASSUME NEW i \in Issues, MergePr(i) PROVE BuildInv'
  BY <1>1, <1>7 DEF MergePr
<1>8. ASSUME NEW i \in Issues, Delete(i) PROVE BuildInv'
  BY <1>1, <1>8 DEF Delete
<1> QED
  BY <1>1, <1>3, <1>4, <1>5, <1>6, <1>7, <1>8
  DEF Next, Worker, Environment, vars, EpicEvent, Announce, CardReady, Stop,
      Recover
-----------------------------------------------------------------------------
(* The invariants hold in the initial state.                               *)
LEMMA InitHolds == Init => TypeInv /\ GateInv
<1> SUFFICES ASSUME Init PROVE TypeInv /\ GateInv
  OBVIOUS
<1>1. TypeOK
  BY BuildOrderAssumption DEF BuildOrderAssumption, Init, TypeOK, Numbers, NoRow,
     Statuses
<1>2. PlaceInv
  BY DEF Init, PlaceInv, Planning, Building
<1>3. GateInv
  BY DEF Init, GateInv, GraphInv, DoneInv, CleanupInv, BuildInv, Status, NoRow,
     Active, Contains, None, Merge, Building
<1> QED
  BY <1>1, <1>2, <1>3 DEF TypeInv

(* The type invariant and the places hold throughout.                      *)
LEMMA TypeInvHolds == Spec => []TypeInv
<1>1. TypeInv /\ [Next]_vars => TypeInv'
  BY TypeStep, PlaceStep DEF TypeInv
<1> QED
  BY <1>1, InitHolds, PTL DEF Spec

(* Type correctness of the queue, the plans and the ticket table, for      *)
(* every plan and any number of tickets.                                   *)
THEOREM TypeCorrect == Spec => []TypeOK
<1>1. TypeInv => TypeOK
  BY DEF TypeInv
<1> QED
  BY <1>1, TypeInvHolds, PTL

(* A planned ticket is built only after every ticket its `blocked_by` keys *)
(* stand for has been merged, for any plan (of keys that are missing,      *)
(* repeated or its own), any issues that come back without an id, any      *)
(* order of declaration and any sequence of stops, deletes, redeliveries   *)
(* and restarts.  A key stands for the last ticket created with it         *)
(* (_materialize_plan, _is_blocked, _run_cleanup).                         *)
THEOREM BlockersFirst == Spec => []BuildsAfterBlockers
<1>1. GateInv => BuildsAfterBlockers
  BY DEF GateInv, BuildInv, Building, BuildsAfterBlockers
<1>2. TypeInv /\ GateInv /\ [Next]_vars => GateInv'
  BY GraphStep, DoneStep, CleanupStep, BuildStep DEF GateInv
<1> QED
  BY <1>1, <1>2, InitHolds, TypeInvHolds, PTL DEF Spec
=============================================================================
