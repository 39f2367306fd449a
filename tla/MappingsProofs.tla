---------------------------- MODULE MappingsProofs ----------------------------
(***************************************************************************)
(* Proofs about Mappings for any keys, repos and tabs, any targets.yml and *)
(* any bounds.                                                             *)
(*                                                                         *)
(* HumanWins needs BootInv: while the process boots no tab is open, and an *)
(* import of the boot that is not a reseed found no project, hence nothing *)
(* that a human had decided. SaveReconciles and RenameKeepsRepo need       *)
(* SaveInv, which says for each stage of a save which repo each key has,   *)
(* as long as nobody else wrote: every write of another tab, of an import  *)
(* or of the boot ends that promise through `disturbed`.                   *)
(***************************************************************************)
EXTENDS Mappings, TLAPS

(* A screen of the wizard: the repo of each key.                           *)
Maps    == [Keys -> Names \cup {"none"}]
(* The row of a project.                                                   *)
Project == [there : BOOLEAN, enabled : BOOLEAN, secret : BOOLEAN, icon : BOOLEAN]
(* The row of a repo.                                                      *)
Repo    == [name : Names \cup {"none"}, icon : BOOLEAN]
(* What a tab or the boot is in the middle of.                             *)
Jobs    == [stage : {"closed", "view", "set", "delete", "secret", "import"},
            project : Project, was : Maps, want : Maps, left : SUBSET Keys,
            secret : BOOLEAN]

(* The boot only imports, and what is left to do belongs to the stage.     *)
JobOK(p, j) ==
  /\ p = "boot" => j.stage \in {"closed", "import"}
  /\ j.stage = "import" => j.left \subseteq Given(Seed)
  /\ j.stage = "set" => j.left \subseteq Given(j.want)
  /\ j.stage = "delete" => j.left \subseteq ToDelete(j)

(* Every tab and the boot is in the middle of something well formed.       *)
JobInv == job \in [Procs -> Jobs] /\ \A p \in Procs : JobOK(p, job[p])

(* The types with the jobs.                                                *)
TypeInv == TypeOK /\ JobInv

(* Nothing is open while the process boots, only a boot imports as "boot", *)
(* and a boot that imports without reseeding found nothing of a human.     *)
BootInv ==
  /\ up = "booting" => \A t \in Tabs : job[t].stage = "closed"
  /\ job["boot"].stage = "import" => up = "booting"
  /\ ~project.there => \A k \in Keys : human[k] = "seed"
  /\ ~Reseed /\ job["boot"].stage = "import" => \A k \in Keys : human[k] = "seed"

(* What the store holds for each key at each stage of a save that nobody   *)
(* disturbed: what the page showed, until the save reaches the key.        *)
SaveOK(t) ==
  ~disturbed[t] => \A k \in Keys :
    /\ job[t].stage = "view" => repos[k].name = job[t].was[k]
    /\ job[t].stage = "set" =>
         repos[k].name = IF job[t].want[k] = "none" \/ k \in job[t].left
                         THEN job[t].was[k] ELSE job[t].want[k]
    /\ job[t].stage = "delete" =>
         repos[k].name = IF k \in job[t].left THEN job[t].was[k] ELSE job[t].want[k]
    /\ job[t].stage = "secret" => repos[k].name = job[t].want[k]

(* That holds of every tab.                                                *)
SaveInv == \A t \in Tabs : SaveOK(t)

(* What a step may do to the store: rows stay well formed.                 *)
StoreChange ==
  /\ project' \in Project /\ (~project'.there => project' = NoProject)
  /\ repos' \in [Keys -> Repo]
  /\ \A k \in Keys : repos'[k].name = "none" => repos'[k] = NoRepo
  /\ human' \in [Keys -> Names \cup {"none", "seed"}]
-----------------------------------------------------------------------------
(* The tabs and the boot are processes, and the boot is not a tab.         *)
LEMMA ProcsAre == "boot" \in Procs /\ Tabs \subseteq Procs /\ "boot" \notin Tabs
  BY MappingsAssumption DEF MappingsAssumption, Procs

(* Closed and Importing are jobs.                                          *)
LEMMA ClosedIs ==
  /\ Closed \in Jobs /\ Closed.stage = "closed"
  /\ Importing \in Jobs /\ Importing.stage = "import"
  /\ Importing.left = Given(Seed)
<1>1. Seed \in Maps /\ NoProject \in Project
  BY MappingsAssumption DEF MappingsAssumption, Maps, NoProject, Project
<1>2. Closed \in Jobs /\ Closed.stage = "closed"
  BY <1>1 DEF Closed, Jobs
<1>3. Given(Seed) \in SUBSET Keys
  BY DEF Given
<1> QED
  BY <1>2, <1>3 DEF Importing, Jobs

(* Become changes one job.                                                 *)
LEMMA BecomeEffect ==
  ASSUME job \in [Procs -> Jobs], NEW p \in Procs, NEW j \in Jobs, Become(p, j)
  PROVE  /\ job' \in [Procs -> Jobs] /\ job'[p] = j
         /\ \A q \in Procs : q # p => job'[q] = job[q]
  BY DEF Become

(* A write disturbs everybody but the writer.                              *)
LEMMA WroteEffect ==
  ASSUME NEW p \in Procs, Wrote(p), disturbed \in [Procs -> BOOLEAN]
  PROVE  /\ disturbed' \in [Procs -> BOOLEAN] /\ disturbed'[p] = disturbed[p]
         /\ \A q \in Procs : q # p => disturbed'[q] = TRUE
  BY DEF Wrote

(* A write from a page closes the page and disturbs the others.            *)
LEMMA ClickEffect ==
  ASSUME TypeInv, NEW t \in Tabs, Click(t)
  PROVE  /\ job[t].stage = "view" /\ job' \in [Procs -> Jobs] /\ job'[t] = Closed
         /\ \A q \in Procs : q # t => job'[q] = job[q]
         /\ disturbed' \in [Procs -> BOOLEAN] /\ disturbed'[t] = disturbed[t]
         /\ \A q \in Procs : q # t => disturbed'[q] = TRUE
         /\ UNCHANGED <<up, count>>
<1>1. job \in [Procs -> Jobs] /\ disturbed \in [Procs -> BOOLEAN] /\ t \in Procs
  BY ProcsAre DEF TypeInv, TypeOK, JobInv
<1>2. job[t].stage = "view" /\ Become(t, Closed) /\ Wrote(t) /\ UNCHANGED <<up, count>>
  BY DEF Click
<1> QED
  BY <1>1, <1>2, ClosedIs, BecomeEffect, WroteEffect

(* A stage of a save starts with all its work left.                        *)
LEMMA EnterIs ==
  ASSUME NEW j \in Jobs, NEW i \in 1 .. Len(Order)
  PROVE  /\ Enter(j, i) \in Jobs
         /\ Enter(j, i).stage = Order[i] /\ Enter(j, i).left = Work(j, Order[i])
         /\ Enter(j, i).was = j.was /\ Enter(j, i).want = j.want
         /\ Order[i] \in {"set", "delete", "secret"}
<1>1. Order[i] \in {"set", "delete", "secret"}
  BY DEF Order
<1>2. Work(j, Order[i]) \in SUBSET Keys
  BY DEF Work, Given, ToDelete
<1> QED
  BY <1>1, <1>2 DEF Enter, Jobs

(* set_project leaves a project that is there.                             *)
LEMMA SetProjectEffect ==
  ASSUME TypeInv, NEW e \in BOOLEAN, NEW s \in BOOLEAN, NEW i \in BOOLEAN,
         SetProject(e, s, i)
  PROVE  project' \in Project /\ project'.there = TRUE
  BY DEF SetProject, TypeInv, TypeOK, Project

(* set_repo gives one key its repo.                                        *)
LEMMA SetRepoEffect ==
  ASSUME TypeInv, NEW k \in Keys, NEW n \in Names, NEW i \in BOOLEAN,
         SetRepo(k, n, i)
  PROVE  /\ repos' \in [Keys -> Repo] /\ repos'[k].name = n /\ n # "none"
         /\ \A l \in Keys : l # k => repos'[l] = repos[l]
         /\ \A l \in Keys : repos'[l].name = "none" => repos'[l] = NoRepo
<1>1. n # "none" /\ repos \in [Keys -> Repo]
  BY MappingsAssumption DEF MappingsAssumption, TypeInv, TypeOK, Repo
<1>2. KeptIcon(k, i) \in BOOLEAN
  BY <1>1 DEF KeptIcon, Repo
<1>3. [name |-> n, icon |-> KeptIcon(k, i)] \in Repo
  BY <1>2 DEF Repo
<1>4. repos' = [repos EXCEPT ![k] = [name |-> n, icon |-> KeptIcon(k, i)]]
  BY DEF SetRepo
<1>5. repos' \in [Keys -> Repo] /\ repos'[k] = [name |-> n, icon |-> KeptIcon(k, i)]
  BY <1>1, <1>3, <1>4
<1>6. \A l \in Keys : l # k => repos'[l] = repos[l]
  BY <1>1, <1>4
<1> QED
  BY <1>1, <1>2, <1>5, <1>6 DEF TypeInv, TypeOK, Mapped

(* delete_repo leaves one key without a row.                               *)
LEMMA DeleteRepoEffect ==
  ASSUME TypeInv, NEW k \in Keys, DeleteRepo(k)
  PROVE  /\ repos' \in [Keys -> Repo] /\ repos'[k] = NoRepo
         /\ NoRepo.name = "none"
         /\ \A l \in Keys : l # k => repos'[l] = repos[l]
         /\ \A l \in Keys : repos'[l].name = "none" => repos'[l] = NoRepo
  BY DEF DeleteRepo, NoRepo, Repo, TypeInv, TypeOK, Mapped

(* A decision is of one key, and counts while the project is there.        *)
LEMMA HumanEffect ==
  ASSUME TypeInv, NEW k \in Keys, NEW n \in Names \cup {"none"}, Human(k, n)
  PROVE  /\ human' \in [Keys -> Names \cup {"none", "seed"}]
         /\ human'[k] \in {n, "seed"}
         /\ \A l \in Keys : l # k => human'[l] = human[l]
         /\ ~project.there => human'[k] = "seed"
  BY DEF Human, TypeInv, TypeOK

(* The writes of the store, one at a time, are store changes.              *)
LEMMA StoreKinds ==
  ASSUME TypeInv,
         \/ UNCHANGED project
         \/ \E e, s, i \in BOOLEAN : SetProject(e, s, i),
         \/ UNCHANGED repos
         \/ \E k \in Keys, n \in Names, i \in BOOLEAN : SetRepo(k, n, i)
         \/ \E k \in Keys : DeleteRepo(k),
         \/ UNCHANGED human
         \/ \E k \in Keys, n \in Names \cup {"none"} : Human(k, n)
  PROVE  StoreChange
<1>1. /\ project' \in Project /\ (~project'.there => project' = NoProject)
  <2>1. CASE UNCHANGED project
    BY <2>1 DEF TypeInv, TypeOK, Project
  <2>2. CASE \E e, s, i \in BOOLEAN : SetProject(e, s, i)
    BY <2>2, SetProjectEffect
  <2> QED
    BY <2>1, <2>2
<1>2. /\ repos' \in [Keys -> Repo]
      /\ \A k \in Keys : repos'[k].name = "none" => repos'[k] = NoRepo
  <2>1. CASE UNCHANGED repos
    BY <2>1 DEF TypeInv, TypeOK, Mapped, Repo
  <2>2. CASE \E k \in Keys, n \in Names, i \in BOOLEAN : SetRepo(k, n, i)
    BY <2>2, SetRepoEffect
  <2>3. CASE \E k \in Keys : DeleteRepo(k)
    BY <2>3, DeleteRepoEffect
  <2> QED
    BY <2>1, <2>2, <2>3
<1>3. human' \in [Keys -> Names \cup {"none", "seed"}]
  BY HumanEffect DEF TypeInv, TypeOK
<1> QED
  BY <1>1, <1>2, <1>3 DEF StoreChange

(* A given key has a repo.                                                 *)
LEMMA GivenIs ==
  ASSUME NEW f \in Maps, NEW k \in Given(f)
  PROVE  k \in Keys /\ f[k] \in Names
  BY DEF Given, Maps

(* The parts of a job are well formed.                                     *)
LEMMA JobsAre ==
  ASSUME TypeInv, NEW p \in Procs
  PROVE  /\ job \in [Procs -> Jobs] /\ job[p] \in Jobs
         /\ job[p].was \in Maps /\ job[p].want \in Maps
         /\ job[p].left \in SUBSET Keys
         /\ job[p].project \in Project
         /\ job[p].stage = "import" => job[p].left \subseteq Given(Seed)
         /\ job[p].stage = "set" => job[p].left \subseteq Given(job[p].want)
         /\ Seed \in Maps
  BY MappingsAssumption DEF MappingsAssumption, TypeInv, JobInv, JobOK, Jobs,
     Maps

(* The rows that the pages and a save write.                               *)
LEMMA RowWrites ==
  ASSUME TypeInv, NEW t \in Tabs
  PROVE  /\ PickRepoIcon(t) => \E k \in Keys, n \in Names :
              SetRepo(k, n, TRUE) /\ Human(k, n) /\ n = job[t].was[k]
         /\ EditRepo(t) => \E k \in Keys, n \in Names : SetRepo(k, n, FALSE) /\ Human(k, n)
         /\ RemoveRepo(t) => \E k \in Keys : DeleteRepo(k) /\ Human(k, "none")
         /\ SaveRow(t) => \E k \in Keys, n \in Names :
              /\ SetRepo(k, n, FALSE) /\ Human(k, n)
              /\ k \in job[t].left /\ n = job[t].want[k]
              /\ Become(t, [job[t] EXCEPT !.left = @ \ {k}])
         /\ DropKey(t) => \E k \in Keys :
              /\ DeleteRepo(k) /\ Human(k, "none") /\ k \in job[t].left
              /\ Become(t, [job[t] EXCEPT !.left = @ \ {k}])
<1>1. PickRepoIcon(t) => \E k \in Keys, n \in Names :
         SetRepo(k, n, TRUE) /\ Human(k, n) /\ n = job[t].was[k]
  <2>1. \A k \in Given(job[t].was) : k \in Keys /\ job[t].was[k] \in Names
    BY JobsAre, ProcsAre, GivenIs
  <2> QED
    BY <2>1 DEF PickRepoIcon
<1>2. EditRepo(t) => \E k \in Keys, n \in Names : SetRepo(k, n, FALSE) /\ Human(k, n)
  BY MappingsAssumption DEF MappingsAssumption, EditRepo, Given
<1>3. RemoveRepo(t) => \E k \in Keys : DeleteRepo(k) /\ Human(k, "none")
  BY DEF RemoveRepo, Given
<1>4. SaveRow(t) => \E k \in Keys, n \in Names :
              /\ SetRepo(k, n, FALSE) /\ Human(k, n)
              /\ k \in job[t].left /\ n = job[t].want[k]
              /\ Become(t, [job[t] EXCEPT !.left = @ \ {k}])
  <2>1. job[t].stage = "set" => \A k \in job[t].left : k \in Keys /\ job[t].want[k] \in Names
    BY JobsAre, ProcsAre, GivenIs
  <2> QED
    BY <2>1 DEF SaveRow
<1>5. DropKey(t) => \E k \in Keys :
              /\ DeleteRepo(k) /\ Human(k, "none") /\ k \in job[t].left
              /\ Become(t, [job[t] EXCEPT !.left = @ \ {k}])
  BY JobsAre, ProcsAre DEF DropKey
<1> QED
  BY <1>1, <1>2, <1>3, <1>4, <1>5

(* Every step changes the store only in that way.                          *)
LEMMA StoreStep == TypeInv /\ [Next]_vars => StoreChange
<1> SUFFICES ASSUME TypeInv, [Next]_vars PROVE StoreChange
  OBVIOUS
<1> USE DEF store
<1>1. CASE UNCHANGED <<project, repos, human>>
  BY <1>1, StoreKinds
<1>2. ASSUME NEW t \in Tabs, ToggleProject(t) PROVE StoreChange
  BY <1>2, StoreKinds DEF ToggleProject
<1>3. ASSUME NEW t \in Tabs, PickProjectIcon(t) PROVE StoreChange
  <2>1. job[t].project.enabled \in BOOLEAN
    BY JobsAre, ProcsAre DEF Project
  <2> QED
    BY <1>3, <2>1, StoreKinds DEF PickProjectIcon
<1>4. ASSUME NEW t \in Tabs, PickRepoIcon(t) PROVE StoreChange
  <2>1. \A k \in Given(job[t].was) : k \in Keys /\ job[t].was[k] \in Names
    BY JobsAre, ProcsAre, GivenIs
  <2> QED
    BY <1>4, <2>1, StoreKinds DEF PickRepoIcon
<1>5. ASSUME NEW t \in Tabs, EditRepo(t) PROVE StoreChange
  BY <1>5, RowWrites, StoreKinds DEF EditRepo
<1>6. ASSUME NEW t \in Tabs, RemoveRepo(t) PROVE StoreChange
  BY <1>6, StoreKinds DEF RemoveRepo, Given
<1>7. ASSUME NEW t \in Tabs, DeleteProject(t) PROVE StoreChange
  BY <1>7 DEF DeleteProject, NoProject, NoRepo, Repo, Project, Mapped,
              StoreChange, TypeInv, TypeOK
<1>8. ASSUME NEW t \in Tabs, SaveRow(t) PROVE StoreChange
  <2>1. job[t].stage = "set"
    BY <1>8 DEF SaveRow
  <2>2. \A k \in job[t].left : k \in Keys /\ job[t].want[k] \in Names
    BY <2>1, JobsAre, ProcsAre, GivenIs
  <2> QED
    BY <1>8, <2>2, StoreKinds DEF SaveRow
<1>9. ASSUME NEW t \in Tabs, DropKey(t) PROVE StoreChange
  BY <1>9, JobsAre, ProcsAre, StoreKinds DEF DropKey
<1>10. ASSUME NEW t \in Tabs, SaveSecret(t) PROVE StoreChange
  BY <1>10, StoreKinds DEF SaveSecret
<1>11. ASSUME NEW t \in Tabs, Upload(t) PROVE StoreChange
  BY <1>11, StoreKinds DEF Upload
<1>12. ASSUME NEW p \in Procs, ImportRepo(p) PROVE StoreChange
  <2>1. job[p].stage = "import"
    BY <1>12 DEF ImportRepo
  <2>2. \A k \in job[p].left : k \in Keys /\ Seed[k] \in Names
    BY <2>1, JobsAre, GivenIs
  <2> QED
    BY <1>12, <2>2, StoreKinds DEF ImportRepo
<1>13. CASE Boot
  BY <1>13, StoreKinds DEF Boot
<1> QED
  BY <1>1, <1>2, <1>3, <1>4, <1>5, <1>6, <1>7, <1>8, <1>9, <1>10, <1>11, <1>12,
     <1>13
  DEF Next, vars, OpenPage, SaveWizard, NextStage, EndImport, Restart

(* To replace a job by a good one keeps all jobs good.                     *)
LEMMA JobMoves ==
  ASSUME TypeInv, NEW p \in Procs, NEW j \in Jobs, Become(p, j), JobOK(p, j)
  PROVE  JobInv'
<1>1. /\ job' \in [Procs -> Jobs] /\ job'[p] = j
      /\ \A q \in Procs : q # p => job'[q] = job[q]
  BY JobsAre, BecomeEffect
<1> QED
  BY <1>1, ProcsAre DEF TypeInv, JobInv

(* A job stays good when a key of it is done.                              *)
LEMMA LeftShrinks ==
  ASSUME TypeInv, NEW p \in Procs, NEW k
  PROVE  LET j == [job[p] EXCEPT !.left = @ \ {k}] IN
         /\ j \in Jobs /\ j.stage = job[p].stage /\ j.left = job[p].left \ {k}
         /\ j.was = job[p].was /\ j.want = job[p].want
         /\ JobOK(p, j)
<1> DEFINE j == [job[p] EXCEPT !.left = @ \ {k}]
<1>1. /\ j \in Jobs /\ j.stage = job[p].stage /\ j.left = job[p].left \ {k}
      /\ j.was = job[p].was /\ j.want = job[p].want
  BY JobsAre DEF Jobs
<1>2. JobOK(p, job[p])
  BY DEF TypeInv, JobInv
<1> HIDE DEF j
<1>3. JobOK(p, j)
  BY <1>1, <1>2 DEF JobOK, ToDelete
<1> QED
  BY <1>1, <1>3 DEF j

(* Every step keeps the jobs well formed.                                  *)
LEMMA JobStep == TypeInv /\ [Next]_vars => JobInv'
<1> SUFFICES ASSUME TypeInv, [Next]_vars PROVE JobInv'
  OBVIOUS
<1>1. CASE UNCHANGED job
  BY <1>1 DEF TypeInv, JobInv
<1>2. ASSUME NEW t \in Tabs, OpenPage(t) PROVE JobInv'
  <2> DEFINE j == [Closed EXCEPT !.stage = "view", !.project = project,
                                 !.was = [k \in Keys |-> repos[k].name]]
  <2>1. project \in Project /\ [k \in Keys |-> repos[k].name] \in Maps
    BY DEF TypeInv, TypeOK, Project, Maps
  <2>2. j \in Jobs /\ j.stage = "view"
    BY <2>1, ClosedIs DEF Jobs
  <2>3. Become(t, j) /\ t \in Procs /\ t # "boot"
    BY <1>2, ProcsAre DEF OpenPage
  <2> QED
    BY <2>2, <2>3, JobMoves DEF JobOK
<1>3. ASSUME NEW t \in Tabs, Become(t, Closed) PROVE JobInv'
  BY <1>3, ClosedIs, ProcsAre, JobMoves DEF JobOK
<1>4. ASSUME NEW t \in Tabs, SaveWizard(t) PROVE JobInv'
  <2>1. PICK want \in Maps, typed \in BOOLEAN :
          Become(t, Enter([job[t] EXCEPT !.want = want, !.secret = typed], 1))
    BY <1>4 DEF SaveWizard, Maps
  <2> DEFINE j == [job[t] EXCEPT !.want = want, !.secret = typed]
  <2>2. j \in Jobs /\ j.want = want /\ t \in Procs /\ t # "boot"
    BY JobsAre, ProcsAre DEF Jobs
  <2>3. 1 \in 1 .. Len(Order) /\ Order[1] = "set"
    BY DEF Order
  <2> HIDE DEF j
  <2>4. Enter(j, 1) \in Jobs /\ Enter(j, 1).stage = "set"
        /\ Enter(j, 1).left = Given(j.want) /\ Enter(j, 1).want = j.want
    BY <2>2, <2>3, EnterIs DEF Work
  <2> QED
    BY <2>1, <2>2, <2>4, JobMoves DEF JobOK, j
<1>5. ASSUME NEW t \in Tabs, NextStage(t) PROVE JobInv'
  <2>1. PICK i \in 1 .. Len(Order) - 1 : Become(t, Enter(job[t], i + 1))
    BY <1>5 DEF NextStage
  <2>2. i + 1 \in 1 .. Len(Order)
    BY DEF Order
  <2> DEFINE j == Enter(job[t], i + 1)
  <2>3. job[t] \in Jobs /\ t \in Procs /\ t # "boot"
    BY JobsAre, ProcsAre
  <2>4. /\ j \in Jobs /\ j.stage \in {"set", "delete", "secret"}
        /\ j.left = Work(job[t], j.stage) /\ j.want = job[t].want
        /\ j.was = job[t].was
    BY <2>2, <2>3, EnterIs
  <2> HIDE DEF j
  <2> QED
    BY <2>1, <2>3, <2>4, JobMoves DEF JobOK, Work, ToDelete, j
<1>6. ASSUME NEW t \in Tabs, SaveRow(t) \/ DropKey(t) PROVE JobInv'
  <2>1. PICK k \in job[t].left : Become(t, [job[t] EXCEPT !.left = @ \ {k}])
    BY <1>6 DEF SaveRow, DropKey
  <2>2. t \in Procs /\ t # "boot"
    BY ProcsAre
  <2> QED
    BY <2>1, <2>2, LeftShrinks, JobMoves
<1>7. ASSUME NEW p \in Procs, ImportRepo(p) PROVE JobInv'
  <2>1. PICK k \in job[p].left : Become(p, [job[p] EXCEPT !.left = @ \ {k}])
    BY <1>7 DEF ImportRepo
  <2> QED
    BY <2>1, LeftShrinks, JobMoves
<1>8. ASSUME NEW p \in Procs, Become(p, Closed) PROVE JobInv'
  BY <1>8, ClosedIs, JobMoves DEF JobOK
<1>9. ASSUME NEW p \in Procs, Become(p, Importing) PROVE JobInv'
  BY <1>9, ClosedIs, JobMoves DEF JobOK
<1>10. CASE Restart
  BY <1>10, ClosedIs, ProcsAre DEF Restart, JobInv, JobOK
<1> QED
  BY <1>1, <1>2, <1>3, <1>4, <1>5, <1>6, <1>7, <1>8, <1>9, <1>10, ProcsAre
  DEF Next, vars, ToggleProject, PickProjectIcon, PickRepoIcon, EditRepo,
      RemoveRepo,
      DeleteProject, Click, SaveSecret, Upload, EndImport, Boot

(* Every step keeps the variables well formed.                             *)
LEMMA TypeStep == TypeInv /\ [Next]_vars => TypeInv'
<1> SUFFICES ASSUME TypeInv, [Next]_vars PROVE TypeInv'
  OBVIOUS
<1>1. JobInv' /\ StoreChange
  BY JobStep, StoreStep
<1>2. disturbed' \in [Procs -> BOOLEAN]
  <2>1. disturbed \in [Procs -> BOOLEAN]
    BY DEF TypeInv, TypeOK
  <2>2. CASE UNCHANGED disturbed
    BY <2>1, <2>2
  <2>3. ASSUME NEW p \in Procs, Wrote(p) PROVE disturbed' \in [Procs -> BOOLEAN]
    BY <2>1, <2>3, WroteEffect
  <2>4. ASSUME NEW t \in Tabs, OpenPage(t) PROVE disturbed' \in [Procs -> BOOLEAN]
    BY <2>1, <2>4 DEF OpenPage
  <2> QED
    BY <2>2, <2>3, <2>4, ProcsAre
    DEF Next, vars, ToggleProject, PickProjectIcon, PickRepoIcon, EditRepo,
        RemoveRepo,
        DeleteProject, Click, SaveWizard, NextStage, SaveRow, DropKey, SaveSecret,
        Upload, ImportRepo, EndImport, Boot, Restart
<1>3. up' \in {"booting", "serving"}
  BY DEF TypeInv, TypeOK, Next, vars, OpenPage, ToggleProject, PickProjectIcon,
         PickRepoIcon, EditRepo, RemoveRepo, DeleteProject, Click, SaveWizard, NextStage,
         SaveRow, DropKey, SaveSecret, Upload, ImportRepo, EndImport, Boot, Restart
<1>4. TypeOK'
  BY <1>1, <1>2, <1>3
  DEF TypeOK, StoreChange, JobInv, Jobs, Maps, Project, Repo, Mapped
<1> QED
  BY <1>1, <1>4 DEF TypeInv

(* A step of an open tab happens while the process serves, so that only    *)
(* its effect on the project matters to BootInv.                           *)
LEMMA TabMoves ==
  ASSUME TypeInv, BootInv,
         NEW t \in Tabs, up = "serving" \/ job[t].stage # "closed",
         NEW j \in Jobs, Become(t, j), up' \in {up, "serving"},
         ~project'.there => \A k \in Keys : human'[k] = "seed"
  PROVE  BootInv'
<1>1. up = "serving" /\ up' = "serving" /\ job["boot"].stage # "import"
  BY DEF BootInv, TypeInv, TypeOK
<1>2. job'["boot"] = job["boot"]
  BY JobsAre, ProcsAre, BecomeEffect
<1> QED
  BY <1>1, <1>2 DEF BootInv

(* A decision about a project that is gone is not recorded.                *)
LEMMA HumanKeepsSeed ==
  ASSUME TypeInv, BootInv, NEW k \in Keys, NEW n \in Names \cup {"none"},
         Human(k, n),
         UNCHANGED project
  PROVE  ~project'.there => \A l \in Keys : human'[l] = "seed"
  BY HumanEffect DEF BootInv

(* Every step keeps BootInv.                                               *)
LEMMA BootStep == TypeInv /\ BootInv /\ [Next]_vars => BootInv'
<1> SUFFICES ASSUME TypeInv, BootInv, [Next]_vars PROVE BootInv'
  OBVIOUS
<1> USE DEF store
<1>1. ASSUME NEW t \in Tabs, Click(t),
             ~project'.there => \A k \in Keys : human'[k] = "seed"
      PROVE  BootInv'
  BY <1>1, ClosedIs, TabMoves DEF Click
<1>2. ASSUME NEW t \in Tabs, OpenPage(t) PROVE BootInv'
  <2> DEFINE j == [Closed EXCEPT !.stage = "view", !.project = project,
                                 !.was = [k \in Keys |-> repos[k].name]]
  <2>1. project \in Project /\ [k \in Keys |-> repos[k].name] \in Maps
    BY DEF TypeInv, TypeOK, Project, Maps
  <2>2. j \in Jobs
    BY <2>1, ClosedIs DEF Jobs
  <2>3. Become(t, j) /\ up = "serving" /\ UNCHANGED <<project, human, up>>
    BY <1>2 DEF OpenPage
  <2> QED
    BY <2>2, <2>3, TabMoves DEF BootInv
<1>3. ASSUME NEW t \in Tabs, ToggleProject(t) \/ PickProjectIcon(t) PROVE BootInv'
  <2>1. job[t].project.enabled \in BOOLEAN
    BY JobsAre, ProcsAre DEF Project
  <2>2. project'.there = TRUE /\ Click(t)
    BY <1>3, <2>1, SetProjectEffect DEF ToggleProject, PickProjectIcon
  <2> QED
    BY <1>1, <2>2
<1>4. ASSUME NEW t \in Tabs, PickRepoIcon(t) \/ EditRepo(t) \/ RemoveRepo(t)
      PROVE  BootInv'
  <2>1. Click(t) /\ UNCHANGED project
    BY <1>4 DEF PickRepoIcon, EditRepo, RemoveRepo
  <2>2. ~project'.there => \A k \in Keys : human'[k] = "seed"
    BY <1>4, <2>1, RowWrites, HumanKeepsSeed
  <2> QED
    BY <1>1, <2>1, <2>2
<1>5. ASSUME NEW t \in Tabs, DeleteProject(t) PROVE BootInv'
  <2>1. \A k \in Keys : human'[k] = "seed"
    BY <1>5 DEF DeleteProject, BootInv
  <2>2. Click(t)
    BY <1>5 DEF DeleteProject
  <2> QED
    BY <1>1, <2>1, <2>2
<1>6. ASSUME NEW t \in Tabs, SaveWizard(t) \/ NextStage(t) PROVE BootInv'
  <2>1. job'["boot"] = job["boot"]
    BY <1>6, ProcsAre DEF SaveWizard, NextStage, Become, TypeInv, JobInv
  <2>2. job[t].stage # "closed"
    <3>1. \A i \in 1 .. Len(Order) - 1 : Order[i] # "closed"
      BY DEF Order
    <3> QED
      BY <1>6, <3>1 DEF SaveWizard, NextStage
  <2> QED
    BY <1>6, <2>1, <2>2, ZenonT(60) DEF SaveWizard, NextStage, BootInv, TypeInv, TypeOK
<1>7. ASSUME NEW t \in Tabs, SaveRow(t) \/ DropKey(t) PROVE BootInv'
  <2>1. PICK k \in job[t].left : Become(t, [job[t] EXCEPT !.left = @ \ {k}])
    BY <1>7 DEF SaveRow, DropKey
  <2>2. job[t].stage # "closed" /\ UNCHANGED <<project, up>> /\ t \in Procs
    BY <1>7, ProcsAre DEF SaveRow, DropKey
  <2>3. ~project'.there => \A l \in Keys : human'[l] = "seed"
    BY <1>7, <2>2, RowWrites, HumanKeepsSeed
  <2> QED
    BY <2>1, <2>2, <2>3, LeftShrinks, TabMoves
<1>8. ASSUME NEW t \in Tabs, SaveSecret(t) PROVE BootInv'
  <2>1. ~project'.there => UNCHANGED <<project, human>>
    BY <1>8, SetProjectEffect DEF SaveSecret
  <2>2. job[t].stage # "closed" /\ Become(t, Closed) /\ UNCHANGED up
    BY <1>8 DEF SaveSecret
  <2>3. ~project'.there => \A l \in Keys : human'[l] = "seed"
    BY <2>1 DEF BootInv
  <2> QED
    BY <2>2, <2>3, ClosedIs, TabMoves
<1>9. ASSUME NEW t \in Tabs, Upload(t) PROVE BootInv'
  <2>1. project'.there = TRUE
    BY <1>9, SetProjectEffect DEF Upload
  <2>2. job[t].stage # "closed" /\ Become(t, Importing) /\ UNCHANGED up
    BY <1>9 DEF Upload
  <2> QED
    BY <2>1, <2>2, ClosedIs, TabMoves
<1>10. ASSUME NEW t \in Tabs, ImportRepo(t) PROVE BootInv'
  <2>1. /\ t # "boot" /\ t \in Procs /\ job[t].stage = "import"
        /\ UNCHANGED <<project, up>>
    BY <1>10, ProcsAre DEF ImportRepo
  <2>2. \A k \in job[t].left : k \in Keys /\ Seed[k] \in Names
    BY <2>1, JobsAre, GivenIs
  <2>3. PICK k \in job[t].left : /\ Human(k, Seed[k])
                                 /\ Become(t, [job[t] EXCEPT !.left = @ \ {k}])
    BY <1>10, <2>1 DEF ImportRepo
  <2> QED
    BY <2>1, <2>2, <2>3, HumanKeepsSeed, LeftShrinks, TabMoves
<1>11. ASSUME NEW t \in Tabs, EndImport(t) PROVE BootInv'
  <2>1. /\ job[t].stage # "closed" /\ Become(t, Closed) /\ up' = "serving"
        /\ UNCHANGED <<project, human>>
    BY <1>11 DEF EndImport
  <2> QED
    BY <2>1, ClosedIs, TabMoves DEF BootInv
<1>12. CASE ImportRepo("boot")
  <2>1. PICK k \in job["boot"].left : Become("boot", [job["boot"] EXCEPT !.left = @ \ {k}])
    BY <1>12 DEF ImportRepo
  <2>2. job["boot"].stage = "import" /\ UNCHANGED <<project, up, human>>
    BY <1>12 DEF ImportRepo
  <2> DEFINE j == [job["boot"] EXCEPT !.left = @ \ {k}]
  <2>3. j \in Jobs /\ j.stage = "import"
    BY <2>2, ProcsAre, LeftShrinks
  <2>4. Become("boot", j)
    BY <2>1
  <2> HIDE DEF j
  <2>5. job'["boot"].stage = "import" /\ \A t \in Tabs : job'[t] = job[t]
    BY <2>3, <2>4, JobsAre, ProcsAre, BecomeEffect
  <2> QED
    BY <2>2, <2>5 DEF BootInv
<1>13. CASE EndImport("boot")
  <2>1. job'["boot"].stage = "closed"
    BY <1>13, ClosedIs, JobsAre, ProcsAre, BecomeEffect DEF EndImport
  <2> QED
    BY <1>13, <2>1 DEF EndImport, BootInv
<1>14. CASE Boot
  <2>1. CASE Skipped
    <3>1. job["boot"].stage = "closed"
      BY <1>14, ClosedIs DEF Boot
    <3> QED
      BY <1>14, <2>1, <3>1 DEF Boot, BootInv, Skipped
  <2>2. CASE ~Skipped
    <3>1. /\ SetProject(TRUE, FALSE, FALSE) /\ Become("boot", Importing)
          /\ UNCHANGED <<up, human>> /\ up = "booting"
      BY <1>14, <2>2 DEF Boot
    <3>2. project'.there = TRUE /\ job'["boot"].stage = "import"
          /\ \A t \in Tabs : job'[t] = job[t]
      BY <3>1, SetProjectEffect, ClosedIs, JobsAre, ProcsAre, BecomeEffect
    <3>3. ~Reseed => \A k \in Keys : human'[k] = "seed"
      BY <2>2, <3>1 DEF Skipped, BootInv
    <3> QED
      BY <3>1, <3>2, <3>3 DEF BootInv
  <2> QED
    BY <2>1, <2>2
<1>15. CASE Restart
  <2>1. \A p \in Procs : job'[p].stage = "closed"
    BY <1>15, ClosedIs DEF Restart
  <2> QED
    BY <1>15, <2>1, ProcsAre DEF Restart, BootInv
<1>16. CASE UNCHANGED vars
  BY <1>16 DEF vars, BootInv
<1> QED
  BY <1>2, <1>3, <1>4, <1>5, <1>6, <1>7, <1>8, <1>9, <1>10, <1>11, <1>12, <1>13,
     <1>14, <1>15, <1>16
  DEF Next, Procs

(* Every step keeps what a human decided: each write of a row records      *)
(* itself, and the boot writes rows only when there is nothing to keep.    *)
LEMMA HumanStep ==
  TypeInv /\ BootInv /\ HumanWins /\ [Next]_vars => HumanWins'
<1> SUFFICES ASSUME TypeInv, BootInv, HumanWins, [Next]_vars, ~Reseed
             PROVE  \A k \in Keys : human'[k] # "seed" => repos'[k].name = human'[k]
  BY DEF HumanWins
<1> DEFINE Good == \A k \in Keys : human'[k] # "seed" => repos'[k].name = human'[k]
<1> USE DEF store
<1>1. CASE UNCHANGED <<repos, human>>
  BY <1>1 DEF HumanWins
<1>2. ASSUME NEW k \in Keys, NEW n \in Names, NEW i \in BOOLEAN,
             SetRepo(k, n, i), Human(k, n)
      PROVE  Good
  BY <1>2, SetRepoEffect, HumanEffect DEF HumanWins
<1>3. ASSUME NEW k \in Keys, DeleteRepo(k), Human(k, "none") PROVE Good
  BY <1>3, DeleteRepoEffect, HumanEffect DEF HumanWins
<1>4. ASSUME NEW t \in Tabs, \/ PickRepoIcon(t) \/ EditRepo(t) \/ RemoveRepo(t)
                             \/ SaveRow(t) \/ DropKey(t)
      PROVE  Good
  BY <1>2, <1>3, <1>4, RowWrites
<1>5. ASSUME NEW t \in Tabs, DeleteProject(t) PROVE Good
  BY <1>1, <1>5 DEF DeleteProject
<1>6. ASSUME NEW t \in Tabs, ImportRepo(t) PROVE Good
  <2>1. t # "boot" /\ t \in Procs /\ job[t].stage = "import"
    BY <1>6, ProcsAre DEF ImportRepo
  <2>2. \A k \in job[t].left : k \in Keys /\ Seed[k] \in Names
    BY <2>1, JobsAre, GivenIs
  <2>3. PICK k \in job[t].left : SetRepo(k, Seed[k], FALSE) /\ Human(k, Seed[k])
    BY <1>6, <2>1 DEF ImportRepo
  <2> QED
    BY <1>2, <2>2, <2>3
<1>7. CASE ImportRepo("boot")
  BY <1>7 DEF ImportRepo, BootInv
<1> QED
  BY <1>1, <1>4, <1>5, <1>6, <1>7
  DEF Next, vars, Procs, OpenPage, ToggleProject, PickProjectIcon, SaveWizard,
      NextStage, SaveSecret, Upload, EndImport, Boot, Restart

(* A step of one tab keeps SaveInv if that tab's part still holds.         *)
LEMMA SaveMoves ==
  ASSUME TypeInv, SaveInv, NEW p \in Procs, NEW j \in Jobs, Become(p, j),
         Wrote(p) \/ UNCHANGED <<repos, disturbed>>,
         p \in Tabs => SaveOK(p)'
  PROVE  SaveInv'
<1> SUFFICES ASSUME NEW t \in Tabs, t # p PROVE SaveOK(t)'
  BY DEF SaveInv
<1>1. job'[t] = job[t] /\ t \in Procs
  BY JobsAre, ProcsAre, BecomeEffect
<1>2. CASE Wrote(p)
  BY <1>1, <1>2, WroteEffect DEF TypeInv, TypeOK, SaveOK
<1>3. CASE UNCHANGED <<repos, disturbed>>
  BY <1>1, <1>3 DEF SaveInv, SaveOK
<1> QED
  BY <1>2, <1>3

(* Every step keeps SaveInv. What the tab itself writes moves a key from   *)
(* the screen it loaded to the one it wants; the keys of the set stage are *)
(* done first, then those of the delete stage.                             *)
LEMMA SaveStep == TypeInv /\ SaveInv /\ [Next]_vars => SaveInv'
<1> SUFFICES ASSUME TypeInv, SaveInv, [Next]_vars PROVE SaveInv'
  OBVIOUS
<1> USE DEF store
<1>1. ASSUME NEW p \in Procs, NEW j \in Jobs, Become(p, j),
             j.stage \in {"closed", "import"},
             Wrote(p) \/ UNCHANGED <<repos, disturbed>>
      PROVE  SaveInv'
  <2>1. job'[p] = j
    BY <1>1, JobsAre, BecomeEffect
  <2> QED
    BY <1>1, <2>1, SaveMoves DEF SaveOK
<1>2. ASSUME NEW t \in Tabs, OpenPage(t) PROVE SaveInv'
  <2> DEFINE j == [Closed EXCEPT !.stage = "view", !.project = project,
                                 !.was = [k \in Keys |-> repos[k].name]]
  <2>1. project \in Project /\ [k \in Keys |-> repos[k].name] \in Maps
    BY DEF TypeInv, TypeOK, Project, Maps
  <2>2. /\ j \in Jobs /\ j.stage = "view"
        /\ \A k \in Keys : j.was[k] = repos[k].name
    BY <2>1, ClosedIs DEF Jobs
  <2>3. Become(t, j) /\ UNCHANGED repos /\ t \in Procs
        /\ disturbed' = [disturbed EXCEPT ![t] = FALSE]
    BY <1>2, ProcsAre DEF OpenPage
  <2> HIDE DEF j
  <2>4. job'[t] = j /\ \A q \in Procs : q # t => job'[q] = job[q]
    BY <2>2, <2>3, JobsAre, BecomeEffect
  <2>5. \A q \in Procs : q # t => disturbed'[q] = disturbed[q]
    BY <2>3 DEF TypeInv, TypeOK
  <2>6. SaveOK(t)'
    BY <2>2, <2>3, <2>4 DEF SaveOK
  <2>7. ASSUME NEW q \in Tabs, q # t PROVE SaveOK(q)'
    BY <2>3, <2>4, <2>5, <2>7, ProcsAre DEF SaveInv, SaveOK
  <2> QED
    BY <2>6, <2>7 DEF SaveInv
<1>3. ASSUME NEW t \in Tabs, SaveWizard(t) PROVE SaveInv'
  <2>1. PICK want \in Maps, typed \in BOOLEAN :
          Become(t, Enter([job[t] EXCEPT !.want = want, !.secret = typed], 1))
    BY <1>3 DEF SaveWizard, Maps
  <2> DEFINE j == [job[t] EXCEPT !.want = want, !.secret = typed]
  <2>2. j \in Jobs /\ j.want = want /\ j.was = job[t].was /\ t \in Procs
    BY JobsAre, ProcsAre DEF Jobs
  <2>3. 1 \in 1 .. Len(Order) /\ Order[1] = "set"
    BY DEF Order
  <2>4. Become(t, Enter(j, 1))
    BY <2>1
  <2>5. job[t].stage = "view" /\ UNCHANGED <<repos, disturbed>>
    BY <1>3 DEF SaveWizard
  <2> HIDE DEF j
  <2>6. /\ Enter(j, 1) \in Jobs /\ Enter(j, 1).stage = "set"
        /\ Enter(j, 1).left = Given(j.want) /\ Enter(j, 1).want = j.want
        /\ Enter(j, 1).was = j.was
    BY <2>2, <2>3, EnterIs DEF Work
  <2>7. job'[t] = Enter(j, 1)
    BY <2>2, <2>4, <2>6, JobsAre, BecomeEffect
  <2>8. SaveOK(t)'
    BY <2>2, <2>5, <2>6, <2>7 DEF SaveInv, SaveOK, Given
  <2> QED
    BY <2>2, <2>4, <2>5, <2>6, <2>8, SaveMoves
<1>4. ASSUME NEW t \in Tabs, NextStage(t) PROVE SaveInv'
  <2>1. PICK i \in 1 .. Len(Order) - 1 :
          /\ job[t].stage = Order[i] /\ Become(t, Enter(job[t], i + 1))
    BY <1>4 DEF NextStage
  <2>2. job[t].left = {} /\ UNCHANGED <<repos, disturbed>>
    BY <1>4 DEF NextStage
  <2>3. i + 1 \in 1 .. Len(Order)
    BY DEF Order
  <2>4. \/ Order[i] = "set" /\ Order[i + 1] = "delete"
        \/ Order[i] = "delete" /\ Order[i + 1] = "secret"
    BY DEF Order
  <2> DEFINE j == Enter(job[t], i + 1)
  <2>5. job[t] \in Jobs /\ t \in Procs /\ job[t].want \in Maps
    BY JobsAre, ProcsAre
  <2>6. /\ j \in Jobs /\ j.stage = Order[i + 1]
        /\ j.left = Work(job[t], j.stage) /\ j.want = job[t].want
        /\ j.was = job[t].was
    BY <2>3, <2>5, EnterIs
  <2>7. Become(t, j)
    BY <2>1
  <2> HIDE DEF j
  <2>8. job'[t] = j
    BY <2>5, <2>6, <2>7, JobsAre, BecomeEffect
  <2>9. SaveOK(t)'
    <3>1. CASE Order[i] = "set"
      <4>1. /\ job[t].stage = "set" /\ job'[t].stage = "delete"
            /\ job'[t].left = ToDelete(job[t])
        BY <2>1, <2>4, <2>6, <2>8, <3>1 DEF Work
      <4>2. job'[t].want = job[t].want /\ job'[t].was = job[t].was
        BY <2>6, <2>8
      <4> QED
        BY <2>2, <4>1, <4>2 DEF SaveInv, SaveOK, ToDelete, Given
    <3>2. CASE Order[i] = "delete"
      <4>1. job[t].stage = "delete" /\ job'[t].stage = "secret"
        BY <2>1, <2>4, <2>6, <2>8, <3>2
      <4>2. job'[t].want = job[t].want
        BY <2>6, <2>8
      <4> QED
        BY <2>2, <4>1, <4>2 DEF SaveInv, SaveOK
    <3> QED
      BY <2>4, <3>1, <3>2
  <2> QED
    BY <2>2, <2>5, <2>6, <2>7, <2>9, SaveMoves
<1>5. ASSUME NEW t \in Tabs, SaveRow(t) PROVE SaveInv'
  <2>1. PICK k \in Keys, n \in Names :
          /\ SetRepo(k, n, FALSE) /\ k \in job[t].left /\ n = job[t].want[k]
          /\ Become(t, [job[t] EXCEPT !.left = @ \ {k}])
    BY <1>5, RowWrites
  <2>2. job[t].stage = "set" /\ Wrote(t) /\ t \in Procs
    BY <1>5, ProcsAre DEF SaveRow
  <2> DEFINE j == [job[t] EXCEPT !.left = @ \ {k}]
  <2>3. /\ j \in Jobs /\ j.stage = "set" /\ j.left = job[t].left \ {k}
        /\ j.was = job[t].was /\ j.want = job[t].want
    BY <2>2, LeftShrinks
  <2>4. Become(t, j)
    BY <2>1
  <2> HIDE DEF j
  <2>5. job'[t] = j /\ disturbed'[t] = disturbed[t]
    BY <2>2, <2>3, <2>4, JobsAre, BecomeEffect, WroteEffect, ZenonT(60) DEF TypeInv, TypeOK
  <2>6. /\ repos'[k].name = n /\ n # "none"
        /\ \A l \in Keys : l # k => repos'[l] = repos[l]
    BY <2>1, SetRepoEffect
  <2>7. SaveOK(t)'
    BY <2>1, <2>2, <2>3, <2>5, <2>6 DEF SaveInv, SaveOK
  <2> QED
    BY <2>2, <2>3, <2>4, <2>7, SaveMoves
<1>6. ASSUME NEW t \in Tabs, DropKey(t) PROVE SaveInv'
  <2>1. PICK k \in Keys :
          /\ DeleteRepo(k) /\ k \in job[t].left
          /\ Become(t, [job[t] EXCEPT !.left = @ \ {k}])
    BY <1>6, RowWrites
  <2>2. job[t].stage = "delete" /\ Wrote(t) /\ t \in Procs
    BY <1>6, ProcsAre DEF DropKey
  <2>3. job[t].want[k] = "none"
    BY <2>1, <2>2 DEF TypeInv, JobInv, JobOK, ToDelete
  <2> DEFINE j == [job[t] EXCEPT !.left = @ \ {k}]
  <2>4. /\ j \in Jobs /\ j.stage = "delete" /\ j.left = job[t].left \ {k}
        /\ j.was = job[t].was /\ j.want = job[t].want
    BY <2>2, LeftShrinks
  <2>5. Become(t, j)
    BY <2>1
  <2> HIDE DEF j
  <2>6. job'[t] = j /\ disturbed'[t] = disturbed[t]
    BY <2>2, <2>4, <2>5, JobsAre, BecomeEffect, WroteEffect, ZenonT(60) DEF TypeInv, TypeOK
  <2>7. /\ repos'[k].name = "none"
        /\ \A l \in Keys : l # k => repos'[l] = repos[l]
    BY <2>1, DeleteRepoEffect
  <2>8. SaveOK(t)'
    BY <2>1, <2>2, <2>3, <2>4, <2>6, <2>7 DEF SaveInv, SaveOK
  <2> QED
    BY <2>2, <2>4, <2>5, <2>8, SaveMoves
<1>7. ASSUME NEW t \in Tabs, Click(t) PROVE SaveInv'
  BY <1>1, <1>7, ClosedIs, ProcsAre DEF Click
<1>8. ASSUME NEW t \in Tabs, SaveSecret(t) PROVE SaveInv'
  <2>1. Become(t, Closed) /\ (Wrote(t) \/ UNCHANGED <<repos, disturbed>>)
    BY <1>8 DEF SaveSecret
  <2> QED
    BY <1>1, <2>1, ClosedIs, ProcsAre
<1>9. ASSUME NEW t \in Tabs, Upload(t) PROVE SaveInv'
  BY <1>1, <1>9, ClosedIs, ProcsAre DEF Upload
<1>10. ASSUME NEW p \in Procs, ImportRepo(p) PROVE SaveInv'
  <2>1. PICK k \in job[p].left : Become(p, [job[p] EXCEPT !.left = @ \ {k}])
    BY <1>10 DEF ImportRepo
  <2>2. job[p].stage = "import" /\ Wrote(p)
    BY <1>10 DEF ImportRepo
  <2> DEFINE j == [job[p] EXCEPT !.left = @ \ {k}]
  <2>3. j \in Jobs /\ j.stage = "import"
    BY <2>2, LeftShrinks
  <2> QED
    BY <1>1, <2>1, <2>2, <2>3
<1>11. ASSUME NEW p \in Procs, EndImport(p) PROVE SaveInv'
  BY <1>1, <1>11, ClosedIs DEF EndImport
<1>12. CASE Boot
  <2>1. CASE Skipped
    BY <1>12, <2>1 DEF Boot, SaveInv, SaveOK
  <2>2. CASE ~Skipped
    BY <1>1, <1>12, <2>2, ClosedIs, ProcsAre DEF Boot
  <2> QED
    BY <2>1, <2>2
<1>13. CASE Restart
  <2>1. \A t \in Tabs : job'[t].stage = "closed"
    BY <1>13, ClosedIs, ProcsAre DEF Restart
  <2> QED
    BY <2>1 DEF SaveInv, SaveOK
<1>14. CASE UNCHANGED vars
  BY <1>14 DEF vars, SaveInv, SaveOK
<1> QED
  BY <1>2, <1>3, <1>4, <1>5, <1>6, <1>7, <1>8, <1>9, <1>10, <1>11, <1>12, <1>13,
     <1>14
  DEF Next, ToggleProject, PickProjectIcon, PickRepoIcon, EditRepo, RemoveRepo,
      DeleteProject
-----------------------------------------------------------------------------
(* The invariants hold in the initial state.                               *)
LEMMA InitHolds == Init => TypeInv /\ BootInv /\ SaveInv /\ HumanWins
<1> SUFFICES ASSUME Init PROVE TypeInv /\ BootInv /\ SaveInv /\ HumanWins
  OBVIOUS
<1>1. \A p \in Procs : job[p] = Closed
  BY DEF Init
<1>2. JobInv
  BY <1>1, ClosedIs DEF Init, JobInv, JobOK
<1>3. NoProject \in Project /\ NoRepo \in Repo
  BY DEF NoProject, NoRepo, Project, Repo
<1>4. TypeOK
  BY <1>2, <1>3 DEF Init, TypeOK, JobInv, Jobs, Maps, Project, Repo, Mapped,
     NoRepo
<1>5. BootInv /\ SaveInv /\ HumanWins
  BY <1>1, ClosedIs, ProcsAre DEF Init, BootInv, SaveInv, SaveOK, HumanWins
<1> QED
  BY <1>2, <1>4, <1>5 DEF TypeInv

(* They hold throughout.                                                   *)
LEMMA InvHolds == Spec => [](TypeInv /\ BootInv /\ SaveInv /\ HumanWins)
<1>1. TypeInv /\ BootInv /\ SaveInv /\ HumanWins /\ [Next]_vars
      => (TypeInv /\ BootInv /\ SaveInv /\ HumanWins)'
  BY TypeStep, BootStep, SaveStep, HumanStep
<1> QED
  BY InitHolds, <1>1, PTL DEF Spec

(* Type correctness of the mapping and its editors (models.py,             *)
(* mappings.py).                                                           *)
THEOREM TypeCorrect == Spec => []TypeOK
<1>1. TypeInv => TypeOK
  BY DEF TypeInv
<1> QED
  BY InvHolds, <1>1, PTL

(* What a human decided for a key outlives every restart when the boot     *)
(* does not reseed (main.lifespan, seed_project).                          *)
THEOREM HumanStays == Spec => []HumanWins
  BY InvHolds, PTL

(* What SaveInv says of the end of a save, and of a repo whose key         *)
(* changes: its old key keeps it until the delete stage, and the new key   *)
(* has it by then.                                                         *)
LEMMA SaveGives ==
  TypeInv /\ SaveInv => SaveReconciles /\ RenameKeepsRepo
<1> SUFFICES ASSUME TypeInv, SaveInv PROVE SaveReconciles /\ RenameKeepsRepo
  OBVIOUS
<1>1. SaveReconciles
  BY DEF SaveInv, SaveOK, SaveReconciles
<1>2. ASSUME NEW t \in Tabs, NEW k \in Keys, NEW l \in Keys,
             Saving(t), ~disturbed[t], job[t].was[k] # "none",
             job[t].want[k] = "none", job[t].want[l] = job[t].was[k]
      PROVE  \E m \in Keys : repos[m].name = job[t].was[k]
  <2>1. CASE job[t].stage = "set"
    BY <1>2, <2>1 DEF SaveInv, SaveOK
  <2>2. CASE job[t].stage = "delete"
    <3>1. l \notin job[t].left
      BY <1>2, <2>2, ProcsAre DEF TypeInv, JobInv, JobOK, ToDelete
    <3> QED
      BY <1>2, <2>2, <3>1 DEF SaveInv, SaveOK
  <2>3. CASE job[t].stage = "secret"
    BY <1>2, <2>3 DEF SaveInv, SaveOK
  <2> QED
    BY <1>2, <2>1, <2>2, <2>3 DEF Saving
<1> QED
  BY <1>1, <1>2 DEF RenameKeepsRepo

(* An undisturbed wizard save ends with what was on its screen             *)
(* (_project_section.save).                                                *)
THEOREM SaveMakesItSo == Spec => []SaveReconciles
  BY InvHolds, SaveGives, PTL

(* A repo that a save gives a new key is mapped at every moment of the     *)
(* save (the order of _project_section.save).                              *)
THEOREM RenameKeeps == Spec => []RenameKeepsRepo
  BY InvHolds, SaveGives, PTL
=============================================================================
