-------------------------------- MODULE Mappings --------------------------------
(***************************************************************************)
(* The mapping of one Plane project to its GitHub repos (mappings.py), as   *)
(* it is seeded at boot (main.lifespan), imported from a targets.yml and    *)
(* edited from several browser tabs (ui/wizard.py, ui/pages.py).  A tab     *)
(* shows what it loaded and writes later, and every call of the store is a  *)
(* transaction of its own: a wizard save and an import are several of       *)
(* them, which other tabs and a crash come between.                         *)
(***************************************************************************)
EXTENDS Naturals, Sequences

CONSTANTS
  Keys,        (* repo keys                                                *)
  LowerKeys,   (* those without capitals: the console lowers what is typed *)
  Names,       (* GitHub repos                                             *)
  Tabs,        (* browser tabs                                             *)
  Seed,        (* targets.yml: the repo of each key, or "none"             *)
  Reseed,      (* RESEED_FROM_ENV                                          *)
  MaxOpens,    (* pages opened (bound)                                     *)
  MaxCrashes   (* restarts of the process (bound)                          *)

ASSUME MappingsAssumption ==
  /\ LowerKeys \subseteq Keys
  /\ "none" \notin Names /\ "boot" \notin Tabs
  /\ Seed \in [Keys -> Names \cup {"none"}]
  /\ Reseed \in BOOLEAN /\ MaxOpens \in Nat /\ MaxCrashes \in Nat

VARIABLES
  project,    (* the row of project_mappings; secret and icon: are they set *)
  repos,      (* the rows of repo_mappings, by key                          *)
  up,         (* "booting" or "serving"                                     *)
  job,        (* what each tab, and the boot, shows or is in the middle of  *)
  disturbed,  (* history: somebody else wrote since the tab loaded its page *)
  human,      (* history: the repo a human last gave a key, "seed" if none  *)
              (* has since the project was last there                       *)
  count       (* pages opened, restarts                                     *)

store == <<project, repos>>
vars  == <<store, up, job, disturbed, human, count>>
-----------------------------------------------------------------------------
Procs     == Tabs \cup {"boot"}
NoProject == [there |-> FALSE, enabled |-> FALSE, secret |-> FALSE, icon |-> FALSE]
NoRepo    == [name |-> "none", icon |-> FALSE]
Mapped(k) == repos[k].name # "none"
Closed    == [stage |-> "closed", project |-> NoProject, was |-> Seed,
              want |-> Seed, left |-> {}, secret |-> FALSE]
Given(f)  == {k \in Keys : f[k] # "none"}

(* set_project: the secret and the icon are written only when given.        *)
SetProject(enabled, secret, icon) ==
  project' = [there  |-> TRUE, enabled |-> enabled,
              secret |-> project.secret \/ secret,
              icon   |-> project.icon \/ icon]

KeptIcon(k, icon) == repos[k].icon \/ icon

(* set_repo: an upsert by key; the icon is written only when given.         *)
SetRepo(k, name, icon) ==
  repos' = [repos EXCEPT ![k] = [name |-> name, icon |-> KeptIcon(k, icon)]]

(* Mutant of DeleteRepo: the name is cleared, the row stays.                *)
ClearName(k) == repos' = [repos EXCEPT ![k].name = "none"]

DeleteRepo(k) == repos' = [repos EXCEPT ![k] = NoRepo]

(* p has written to the store.                                              *)
Wrote(p) == disturbed' = [q \in Procs |-> disturbed[q] \/ q # p]

(* What a human writes counts while the project is there.                   *)
Human(k, name) ==
  human' = [human EXCEPT ![k] = IF project.there THEN name ELSE "seed"]
Become(p, j) == job' = [job EXCEPT ![p] = j]
-----------------------------------------------------------------------------
(* A tab loads the Projects page or the wizard: list_projects.              *)
OpenPage(t) ==
  /\ up = "serving" /\ job[t].stage \in {"closed", "view"}
  /\ count.opens < MaxOpens
  /\ count' = [count EXCEPT !.opens = @ + 1]
  /\ Become(t, [Closed EXCEPT !.stage = "view", !.project = project,
                              !.was = [k \in Keys |-> repos[k].name]])
  /\ disturbed' = [disturbed EXCEPT ![t] = FALSE]
  /\ UNCHANGED <<store, up, human>>

(* One write from a page, which then reloads.                               *)
Click(t) == job[t].stage = "view" /\ Become(t, Closed) /\ Wrote(t)
            /\ UNCHANGED <<up, count>>

(* The checkbox of the wizard, and Add Project.                             *)
ToggleProject(t) ==
  /\ Click(t)
  /\ \E e \in BOOLEAN : SetProject(e, FALSE, FALSE)
  /\ UNCHANGED <<repos, human>>

(* The icon picker saves `enabled` as the page loaded it.                   *)
PickProjectIcon(t) ==
  /\ Click(t) /\ job[t].project.there
  /\ SetProject(job[t].project.enabled, FALSE, TRUE)
  /\ UNCHANGED <<repos, human>>

(* The icon picker of a repo saves its name as the page loaded it.          *)
PickRepoIcon(t) ==
  /\ Click(t)
  /\ \E k \in Given(job[t].was) :
       SetRepo(k, job[t].was[k], TRUE) /\ Human(k, job[t].was[k])
  /\ UNCHANGED project

(* Add Repository, under a key that is lowered, and Edit Repository.        *)
EditRepo(t) ==
  /\ Click(t) /\ job[t].project.there
  /\ \E k \in LowerKeys \cup Given(job[t].was), n \in Names :
       SetRepo(k, n, FALSE) /\ Human(k, n)
  /\ UNCHANGED project

RemoveRepo(t) ==
  /\ Click(t)
  /\ \E k \in Given(job[t].was) : DeleteRepo(k) /\ Human(k, "none")
  /\ UNCHANGED project

(* delete_project: one transaction over the repos and the project.          *)
DeleteProject(t) ==
  /\ Click(t) /\ job[t].project.there
  /\ project' = NoProject
  /\ repos' = IF project.there THEN [k \in Keys |-> NoRepo] ELSE repos
  /\ human' = IF project.there THEN [k \in Keys |-> "seed"] ELSE human
-----------------------------------------------------------------------------
(* _project_section.save: first the rows on the screen, then the keys that  *)
(* were there when the page loaded and are no longer wanted, then a typed   *)
(* secret, which also enables the project.                                  *)

(* Mutant of Order: the removed keys go first.                              *)
DeleteFirst == <<"delete", "set", "secret">>

Order == <<"set", "delete", "secret">>

(* Mutant of ToDelete: a key is dropped only if its repo is no longer used. *)
UnusedRepos(j) == {k \in Given(j.was) : j.want[k] = "none"
                                        /\ \A l \in Keys : j.want[l] # j.was[k]}

ToDelete(j) == {k \in Given(j.was) : j.want[k] = "none"}

Work(j, stage) == IF stage = "set" THEN Given(j.want)
                  ELSE IF stage = "delete" THEN ToDelete(j) ELSE {}

Enter(j, i) == [j EXCEPT !.stage = Order[i], !.left = Work(j, Order[i])]

(* The keys on the screen are lowered: a row with a capital in its key      *)
(* (from targets.yml) is saved under another key, and its own is removed.   *)
SaveWizard(t) ==
  /\ job[t].stage = "view" /\ job[t].project.enabled
  /\ \E want \in [Keys -> Names \cup {"none"}], typed \in BOOLEAN :
       /\ Given(want) \subseteq LowerKeys
       /\ Become(t, Enter([job[t] EXCEPT !.want = want, !.secret = typed], 1))
  /\ UNCHANGED <<store, up, disturbed, human, count>>

NextStage(t) == \E i \in 1 .. Len(Order) - 1 :
  /\ job[t].stage = Order[i] /\ job[t].left = {}
  /\ Become(t, Enter(job[t], i + 1))
  /\ UNCHANGED <<store, up, disturbed, human, count>>

SaveRow(t) ==
  /\ job[t].stage = "set"
  /\ \E k \in job[t].left :
       /\ SetRepo(k, job[t].want[k], FALSE) /\ Human(k, job[t].want[k])
       /\ Become(t, [job[t] EXCEPT !.left = @ \ {k}])
  /\ Wrote(t) /\ UNCHANGED <<project, up, count>>

DropKey(t) ==
  /\ job[t].stage = "delete"
  /\ \E k \in job[t].left :
       /\ DeleteRepo(k) /\ Human(k, "none")
       /\ Become(t, [job[t] EXCEPT !.left = @ \ {k}])
  /\ Wrote(t) /\ UNCHANGED <<project, up, count>>

SaveSecret(t) ==
  /\ job[t].stage = "secret"
  /\ IF job[t].secret THEN SetProject(TRUE, TRUE, FALSE) /\ Wrote(t)
     ELSE UNCHANGED <<project, disturbed>>
  /\ Become(t, Closed)
  /\ UNCHANGED <<repos, up, human, count>>
-----------------------------------------------------------------------------
(* _apply_targets: set_project, then set_repo for each repo of the file.    *)
Importing == [Closed EXCEPT !.stage = "import", !.left = Given(Seed)]

(* An upload in the console: import_targets_text, which always reseeds.     *)
Upload(t) ==
  /\ job[t].stage = "view"
  /\ SetProject(TRUE, FALSE, FALSE)
  /\ Become(t, Importing) /\ Wrote(t)
  /\ UNCHANGED <<repos, up, human, count>>

(* Mutant of Skipped: the import of the boot always applies.                *)
NeverSkipped == FALSE

Skipped == ~Reseed /\ project.there

(* The boot seeds, or skips the project; then the server starts.            *)
Boot ==
  /\ up = "booting" /\ job["boot"] = Closed
  /\ IF Skipped
     THEN /\ up' = "serving"
          /\ UNCHANGED <<project, job, disturbed>>
     ELSE /\ SetProject(TRUE, FALSE, FALSE)
          /\ Become("boot", Importing) /\ Wrote("boot")
          /\ UNCHANGED up
  /\ UNCHANGED <<repos, human, count>>

ImportRepo(p) ==
  /\ job[p].stage = "import"
  /\ \E k \in job[p].left :
       /\ SetRepo(k, Seed[k], FALSE)
       /\ IF p = "boot" THEN UNCHANGED human ELSE Human(k, Seed[k])
       /\ Become(p, [job[p] EXCEPT !.left = @ \ {k}])
  /\ Wrote(p) /\ UNCHANGED <<project, up, count>>

EndImport(p) ==
  /\ job[p].stage = "import" /\ job[p].left = {}
  /\ Become(p, Closed)
  /\ up' = "serving"
  /\ UNCHANGED <<store, disturbed, human, count>>

(* The process dies, in the middle of whatever its tabs and its boot do.    *)
Restart ==
  /\ count.crashes < MaxCrashes
  /\ count' = [count EXCEPT !.crashes = @ + 1]
  /\ up' = "booting"
  /\ job' = [p \in Procs |-> Closed]
  /\ UNCHANGED <<store, disturbed, human>>

Init ==
  /\ project = NoProject /\ repos = [k \in Keys |-> NoRepo]
  /\ up = "booting" /\ job = [p \in Procs |-> Closed]
  /\ disturbed = [p \in Procs |-> FALSE]
  /\ human = [k \in Keys |-> "seed"]
  /\ count = [opens |-> 0, crashes |-> 0]

Next ==
  \/ \E t \in Tabs :
       \/ OpenPage(t) \/ ToggleProject(t) \/ PickProjectIcon(t)
       \/ PickRepoIcon(t) \/ EditRepo(t) \/ RemoveRepo(t) \/ DeleteProject(t)
       \/ SaveWizard(t) \/ NextStage(t) \/ SaveRow(t) \/ DropKey(t)
       \/ SaveSecret(t) \/ Upload(t)
  \/ \E p \in Procs : ImportRepo(p) \/ EndImport(p)
  \/ Boot \/ Restart

Spec == Init /\ [][Next]_vars
-----------------------------------------------------------------------------
(* Every variable has its type, and a repo that is not mapped has no icon   *)
(* (models.py, mappings.py).                                                *)
TypeOK ==
  LET Maps == [Keys -> Names \cup {"none"}] IN
  /\ project \in [there : BOOLEAN, enabled : BOOLEAN, secret : BOOLEAN, icon : BOOLEAN]
  /\ ~project.there => project = NoProject
  /\ repos \in [Keys -> [name : Names \cup {"none"}, icon : BOOLEAN]]
  /\ \A k \in Keys : ~Mapped(k) => repos[k] = NoRepo
  /\ up \in {"booting", "serving"}
  /\ \A p \in Procs :
       /\ job[p].stage \in {"closed", "view", "set", "delete", "secret", "import"}
       /\ job[p].was \in Maps /\ job[p].want \in Maps /\ job[p].left \subseteq Keys
  /\ disturbed \in [Procs -> BOOLEAN]
  /\ human \in [Keys -> Names \cup {"none", "seed"}]

Saving(t) == job[t].stage \in {"set", "delete", "secret"}

(* While a wizard save gives a repo a new key, the repo is mapped all the   *)
(* time, so that no delivery of it is rejected and a crash does not lose    *)
(* it: unless the save reuses the old key, or another tab interferes.       *)
RenameKeepsRepo ==
  \A t \in Tabs, k, l \in Keys :
    /\ Saving(t) /\ ~disturbed[t]
    /\ job[t].was[k] # "none" /\ job[t].want[k] = "none"
    /\ job[t].want[l] = job[t].was[k]
    => \E m \in Keys : repos[m].name = job[t].was[k]

(* A wizard save that nobody disturbs ends with exactly the repos on its    *)
(* screen ("reconciling the DB with the on-screen state").                  *)
SaveReconciles ==
  \A t \in Tabs : job[t].stage = "secret" /\ ~disturbed[t]
                  => \A k \in Keys : repos[k].name = job[t].want[k]

(* "DB wins unless reseed": what a human has decided for a key outlives     *)
(* every restart, whatever targets.yml says, until the project is deleted.  *)
HumanWins ==
  ~Reseed => \A k \in Keys : human[k] # "seed" => repos[k].name = human[k]
=============================================================================
