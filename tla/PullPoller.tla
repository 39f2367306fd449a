------------------------------- MODULE PullPoller -------------------------------
(***************************************************************************)
(* The poll half of GitHub intake (poller.py): every interval the loop      *)
(* lists the pull requests of each mapped repo and enqueues a job for each  *)
(* whose signature is not the one it saw last.  Pull requests are the       *)
(* environment: a state, and a version that stands for updated_at, numbered *)
(* in the order they were created; a list is one page of the newest open    *)
(* ones.  The poller's memory dies with the process, its mode is read at    *)
(* boot, and the list, the enqueues and a repo's new memory are separate    *)
(* awaits.                                                                  *)
(***************************************************************************)
EXTENDS Naturals, FiniteSets

CONSTANTS
  Repos, Numbers,  (* mapped repos, and pull request numbers in each       *)
  PageSize,        (* GitHub: how many pull requests a list holds          *)
  MaxChanges,      (* changes of pull requests (bound)                     *)
  MaxSwitches,     (* switches of the console (bound)                      *)
  MaxFaults        (* GitHub or database errors and restarts (bound)       *)

ASSUME PullAssumption ==
  /\ "none" \notin Repos /\ Numbers \subseteq Nat /\ PageSize \in Nat \ {0}
  /\ MaxChanges \in Nat /\ MaxSwitches \in Nat /\ MaxFaults \in Nat

VARIABLES
  pr,       (* GitHub: the state and version of each pull request          *)
  mode,     (* the setting github_event_mode                               *)
  enabled,  (* the project checkbox                                        *)
  polling,  (* the poll task runs: the mode this process read, no fatal error *)
  seen,     (* GitHubPoller._seen: repos baselined and their signatures    *)
  sweep,    (* poll_once: where it is, its repo and the list it works on   *)
  told,     (* history: the jobs enqueued for a pull request and version   *)
  start,    (* history: the last change before the baseline of a repo, 0 for *)
            (* a pull request that a list has left out since               *)
  aborts,   (* history: sweeps cut off by an exception                     *)
  hidden,   (* history: how often a full page made the poller forget an    *)
            (* open pull request at a version                              *)
  count     (* how often each bounded event happened                       *)

console == <<mode, enabled>>
history == <<told, start, aborts, hidden>>
vars    == <<pr, console, polling, seen, sweep, history, count>>
-----------------------------------------------------------------------------
Versions == 0 .. MaxChanges                    (* 0: not listed, unknown   *)
NoPr     == [state |-> "none", ver |-> 0]
Unlisted == [n \in Numbers |-> 0]
NotSeen  == [known |-> FALSE, ver |-> Unlisted]
NoSweep  == [pc |-> "sleep", todo |-> {}, repo |-> "none",
             list |-> Unlisted, off |-> Unlisted, rest |-> {}]
Resting  == [NoSweep EXCEPT !.pc = "interval"] (* poll_once is over        *)

Fault  == count.faults < MaxFaults /\ count' = [count EXCEPT !.faults = @ + 1]
Switch == count.switches < MaxSwitches
          /\ count' = [count EXCEPT !.switches = @ + 1]
-----------------------------------------------------------------------------
(* GitHub.  A change gives the pull request a new updated_at.               *)
Change(r, n, from, to) ==
  /\ pr[r][n].state \in from
  /\ count.changes < MaxChanges
  /\ count' = [count EXCEPT !.changes = @ + 1]
  /\ pr' = [pr EXCEPT ![r][n] = [state |-> to, ver |-> count.changes + 1]]
  /\ UNCHANGED <<console, polling, seen, sweep, history>>

(* A repo's pull requests are numbered in the order they are created.       *)
Numbered(r, n) == \A m \in Numbers : m < n => pr[r][m].state # "none"

OpenPr  == \E r \in Repos, n \in Numbers :
             Numbered(r, n) /\ Change(r, n, {"none", "closed"}, "open")
TouchPr == \E r \in Repos, n \in Numbers : Change(r, n, {"open"}, "open")
ClosePr == \E r \in Repos, n \in Numbers : Change(r, n, {"open"}, "closed")
MergePr == \E r \in Repos, n \in Numbers : Change(r, n, {"open"}, "merged")

(* list_pull_requests asks for one page of the open ones, and GitHub puts   *)
(* the newest first: the older ones are off a full page.                    *)
IsOpen(r, n) == pr[r][n].state = "open"
OnPage(r, n) == Cardinality({m \in Numbers : m > n /\ IsOpen(r, m)}) < PageSize

Listed(r) ==
  [n \in Numbers |-> IF IsOpen(r, n) /\ OnPage(r, n) THEN pr[r][n].ver ELSE 0]
LeftOut(r) ==
  [n \in Numbers |-> IF IsOpen(r, n) /\ ~OnPage(r, n) THEN pr[r][n].ver ELSE 0]
-----------------------------------------------------------------------------
(* poll_once and _poll_repo.                                                *)
(* Mutant of ToReport: what has left the list is looked at as well.         *)
AllNumbers(list) == Numbers

ToReport(list) == {n \in Numbers : list[n] # 0}

StartSweep ==
  /\ polling /\ sweep.pc = "sleep"
  /\ sweep' = [NoSweep EXCEPT !.pc = "next", !.todo = IF enabled THEN Repos ELSE {}]
  /\ UNCHANGED <<pr, console, polling, seen, history, count>>

List ==
  /\ sweep.pc = "next"
  /\ \E r \in sweep.todo :
       sweep' = [pc |-> "report", todo |-> sweep.todo \ {r}, repo |-> r,
                 list |-> Listed(r), off |-> LeftOut(r),
                 rest |-> ToReport(Listed(r))]
  /\ start' = [r \in Repos |->
       IF r = sweep'.repo /\ ~seen[r].known
       THEN [n \in Numbers |-> IF sweep'.off[n] = 0 THEN count.changes ELSE 0]
       ELSE start[r]]
  /\ UNCHANGED <<pr, console, polling, seen, told, aborts, hidden, count>>

(* Mutant of ListFails: the failed list is taken for an empty one.          *)
ListFailsAsEmpty ==
  /\ sweep.pc = "next" /\ Fault
  /\ \E r \in sweep.todo :
       sweep' = [sweep EXCEPT !.pc = "report", !.todo = @ \ {r}, !.repo = r,
                              !.list = Unlisted, !.off = Unlisted, !.rest = {}]
  /\ UNCHANGED <<pr, console, polling, seen, history>>

(* A GitHubError: the repo is left as it was, the sweep goes on.            *)
ListFails ==
  /\ sweep.pc = "next" /\ Fault
  /\ \E r \in sweep.todo : sweep' = [sweep EXCEPT !.todo = @ \ {r}]
  /\ UNCHANGED <<pr, console, polling, seen, history>>

(* Mutant of Baseline: only the first repo of the process is baselined.     *)
BaselineOnce(r) == \A q \in Repos : ~seen[q].known

Baseline(r) == ~seen[r].known

Fresh(r, n) == ~Baseline(r) /\ seen[r].ver[n] # sweep.list[n]

(* One pull request of the list: a job if its signature is new.             *)
Report ==
  /\ sweep.pc = "report"
  /\ \E n \in sweep.rest :
       /\ sweep' = [sweep EXCEPT !.rest = @ \ {n}]
       /\ told' = IF Fresh(sweep.repo, n)
                  THEN [told EXCEPT ![sweep.repo][n][sweep.list[n]] = @ + 1]
                  ELSE told
  /\ UNCHANGED <<pr, console, polling, seen, start, aborts, hidden, count>>

Remember(r) == [seen EXCEPT ![r] = [known |-> TRUE, ver |-> sweep.list]]

(* A pull request the page left out at a version the memory held, or at a   *)
(* baseline.                                                                *)
Forgets(r, n, v) ==
  v # 0 /\ sweep.off[n] = v /\ (Baseline(r) \/ seen[r].ver[n] = v)

EndRepo ==
  /\ sweep.pc = "report" /\ sweep.rest = {}
  /\ sweep' = [sweep EXCEPT !.pc = "next", !.repo = "none", !.list = Unlisted,
                            !.off = Unlisted]
  /\ seen' = Remember(sweep.repo)
  /\ start' = [start EXCEPT ![sweep.repo] =
                 [n \in Numbers |-> IF sweep.off[n] = 0 THEN @[n] ELSE 0]]
  /\ hidden' = [hidden EXCEPT ![sweep.repo] =
                  [n \in Numbers |-> [v \in Versions |->
                     IF Forgets(sweep.repo, n, v) THEN @[n][v] + 1 ELSE @[n][v]]]]
  /\ UNCHANGED <<pr, console, polling, told, aborts, count>>

EndSweep ==
  /\ sweep.pc = "next" /\ sweep.todo = {}
  /\ sweep' = Resting
  /\ UNCHANGED <<pr, console, polling, seen, history, count>>

(* Mutant of AbortedSeen: the list is remembered before it is reported.     *)
RememberedTooSoon == IF sweep.pc = "report" THEN Remember(sweep.repo) ELSE seen

AbortedSeen == seen

(* enqueue_job raises (or the mappings cannot be read): run logs it, the    *)
(* rest of the sweep is skipped and the repo's memory is not updated.       *)
Abort ==
  /\ Fault
  /\ \/ sweep.pc = "report" /\ \E n \in sweep.rest : Fresh(sweep.repo, n)
     \/ sweep.pc = "sleep" /\ polling
  /\ sweep' = Resting
  /\ seen' = AbortedSeen
  /\ aborts' = aborts + 1
  /\ UNCHANGED <<pr, console, polling, told, start, hidden>>

(* run reads the interval from the store before it sleeps, outside the try: *)
(* an error there ends the poll task for the rest of the process.           *)
Interval ==
  /\ sweep.pc = "interval"
  /\ sweep' = NoSweep
  /\ UNCHANGED <<pr, console, polling, seen, history, count>>

IntervalFails ==
  /\ Fault
  /\ sweep.pc = "interval"
  /\ sweep' = NoSweep /\ polling' = FALSE
  /\ UNCHANGED <<pr, console, seen, history>>
-----------------------------------------------------------------------------
(* The console and the process.                                             *)
SwitchProject ==
  /\ Switch /\ enabled' = ~enabled
  /\ UNCHANGED <<pr, mode, polling, seen, sweep, history>>

(* The setting is stored; the running poller does not look at it.           *)
SwitchMode ==
  /\ Switch /\ mode' = IF mode = "poll" THEN "webhook" ELSE "poll"
  /\ UNCHANGED <<pr, enabled, polling, seen, sweep, history>>

(* Shutdown cancels the poll task wherever it awaits; start_if_enabled      *)
(* reads the mode for the new process.                                      *)
Restart ==
  /\ Fault
  /\ polling' = (mode = "poll")
  /\ seen' = [r \in Repos |-> NotSeen]
  /\ sweep' = NoSweep
  /\ start' = [r \in Repos |-> Unlisted]
  /\ UNCHANGED <<pr, console, told, aborts, hidden>>

Init ==
  /\ pr = [r \in Repos |-> [n \in Numbers |-> NoPr]]
  /\ mode = "poll" /\ polling = TRUE /\ enabled \in BOOLEAN
  /\ seen = [r \in Repos |-> NotSeen]
  /\ sweep = NoSweep
  /\ told = [r \in Repos |-> [n \in Numbers |-> [v \in Versions |-> 0]]]
  /\ hidden = told
  /\ start = [r \in Repos |-> Unlisted]
  /\ aborts = 0
  /\ count = [changes |-> 0, switches |-> 0, faults |-> 0]

Poll == StartSweep \/ List \/ Report \/ EndRepo \/ EndSweep \/ Interval

Next ==
  \/ OpenPr \/ TouchPr \/ ClosePr \/ MergePr
  \/ StartSweep \/ List \/ ListFails \/ Report \/ EndRepo \/ EndSweep \/ Abort
  \/ Interval \/ IntervalFails
  \/ SwitchProject \/ SwitchMode \/ Restart

Spec == Init /\ [][Next]_vars

(* While the poll task lives, each of its awaits returns or raises, and it  *)
(* goes on from there.                                                      *)
FairSpec == Spec /\ WF_vars(Poll)
-----------------------------------------------------------------------------
(* Every variable has its type, and a sweep has a list and pull requests    *)
(* left to report exactly while it is at a repo (poller.py).                *)
TypeOK ==
  /\ pr \in [Repos -> [Numbers -> [state : {"none", "open", "closed", "merged"},
                                   ver : Versions]]]
  /\ mode \in {"poll", "webhook"} /\ enabled \in BOOLEAN /\ polling \in BOOLEAN
  /\ seen \in [Repos -> [known : BOOLEAN, ver : [Numbers -> Versions]]]
  /\ sweep \in [pc : {"sleep", "next", "report", "interval"}, todo : SUBSET Repos,
                repo : Repos \cup {"none"}, list : [Numbers -> Versions],
                off : [Numbers -> Versions], rest : SUBSET Numbers]
  /\ sweep.pc = "report" <=> sweep.repo # "none"
  /\ \A n \in sweep.rest : sweep.list[n] # 0
  /\ told \in [Repos -> [Numbers -> [Versions -> Nat]]]
  /\ hidden \in [Repos -> [Numbers -> [Versions -> Nat]]]
  /\ start \in [Repos -> [Numbers -> Versions]] /\ aborts \in Nat

(* A version of a pull request makes one job, however sweeps fail at other  *)
(* repos and whenever the process restarts; only a sweep that died of an    *)
(* exception, and a full page that pushed the open pull request off the     *)
(* list at that version, may make it another (GitHubPoller._seen).          *)
NoRepeat ==
  \A r \in Repos, n \in Numbers, v \in Versions :
    told[r][n][v] <= 1 + aborts + hidden[r][n][v]

(* The poller reports only what changed after this process first listed the *)
(* repo (poller.py:41: "no startup storm of stale PRs"), also for a repo    *)
(* enabled later; a pull request that a full page has left out since is     *)
(* excepted, for the poller has forgotten it.                               *)
NoStartupStorm ==
  [][\A r \in Repos, n \in Numbers, v \in Versions :
       told'[r][n][v] > told[r][n][v] => v > start[r][n]]_vars

Watched(r) == polling /\ enabled /\ seen[r].known

(* A pull request in `state` that changed after the baseline, unreported.   *)
Unreported(r, n, state) ==
  /\ Watched(r)
  /\ pr[r][n].state = state /\ pr[r][n].ver > start[r][n]
  /\ told[r][n][pr[r][n].ver] = 0

(* An open pull request that changed is reported in the end, through list   *)
(* errors, aborted sweeps and changes in the middle of a sweep, unless it   *)
(* is closed or leaves the page, the project is disabled, the poll task     *)
(* dies or the process restarts (poll_once, run).                           *)
OpenChangeTold ==
  \A r \in Repos, n \in Numbers :
    []<>~(OnPage(r, n) /\ Unreported(r, n, "open"))

(* A merge is reported: poller.py:2 "enqueues a Job whenever a PR's state   *)
(* changes", HANDOFF.md:301 "merged-PR webhook/poll delivers `merged`".     *)
(* The poller lists open pull requests only, so it never is.                *)
MergeTold ==
  \A r \in Repos, n \in Numbers : []<>~Unreported(r, n, "merged")
=============================================================================
