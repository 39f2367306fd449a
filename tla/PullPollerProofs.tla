---------------------------- MODULE PullPollerProofs ----------------------------
(***************************************************************************)
(* Proofs about PullPoller for any repos, any pull requests and any        *)
(* bounds.                                                                 *)
(*                                                                         *)
(* NoRepeat is not inductive: a step reports a version because the         *)
(* poller's memory does not hold it, so the argument is that the memory    *)
(* holds every version that was reported. CoverInv says so, of the memory, *)
(* of the list a sweep works on and of what is left of it, while a version *)
(* is `covered`: reported more often than aborted sweeps and full pages    *)
(* explain, or older than the baseline. A covered version that a full page *)
(* left out of the list in hand is uncovered when that list becomes the    *)
(* memory. VersionInv orders the versions.                                 *)
(***************************************************************************)
EXTENDS PullPoller, TLAPS

(* What a pull request can be in.                                          *)
States == {"none", "open", "closed", "merged"}

(* Bounded events stay within their bounds.                                *)
CountInv == count \in [changes : 0 .. MaxChanges, switches : 0 .. MaxSwitches,
                       faults : 0 .. MaxFaults]

(* No version is newer than the last change, and none is reported or       *)
(* listed before the pull request had it.                                  *)
VersionInv ==
  /\ \A r \in Repos, n \in Numbers :
       /\ start[r][n] <= count.changes /\ pr[r][n].ver <= count.changes
       /\ IsOpen(r, n) => pr[r][n].ver > 0
  /\ \A r \in Repos, n \in Numbers, v \in Versions :
       told[r][n][v] > 0 => v <= pr[r][n].ver
  /\ sweep.pc = "report" =>
       \A n \in Numbers : sweep.list[n] <= pr[sweep.repo][n].ver

(* The types with the order of versions.                                   *)
TypeInv == TypeOK /\ CountInv /\ VersionInv

(* A version that the poller has no reason left to report.                 *)
Covered(r, n, v) == told[r][n][v] > aborts + hidden[r][n][v] \/ v <= start[r][n]
OpenCovered(r, n) == IsOpen(r, n) /\ Covered(r, n, pr[r][n].ver)

(* A repo at rest remembers the covered version of an open pull request,   *)
SeenCovers(r, n) ==
  seen[r].known /\ sweep.repo # r /\ OpenCovered(r, n)
    => seen[r].ver[n] = pr[r][n].ver

(* a baselined one the version its baseline found,                         *)
StartCovers(r, n) ==
  seen[r].known /\ IsOpen(r, n) /\ pr[r][n].ver <= start[r][n]
    => seen[r].ver[n] = pr[r][n].ver

(* and the list a sweep works on holds it, or the page left it out and the *)
(* memory is about to forget it.                                           *)
ListCovers(r, n) ==
  sweep.repo = r /\ OpenCovered(r, n) =>
    \/ sweep.list[n] = pr[r][n].ver
    \/ /\ sweep.list[n] = 0 /\ sweep.off[n] = pr[r][n].ver
       /\ Baseline(r) \/ seen[r].ver[n] = pr[r][n].ver

(* What a sweep still has to look at is remembered if it is covered, so it *)
(* is not reported.                                                        *)
RestFresh(r, n) ==
  (sweep.repo = r /\ seen[r].known /\ n \in sweep.rest
     /\ Covered(r, n, sweep.list[n]))
    => seen[r].ver[n] = sweep.list[n]

CoverInv ==
  \A r \in Repos, n \in Numbers :
    /\ SeenCovers(r, n) /\ StartCovers(r, n)
    /\ ListCovers(r, n) /\ RestFresh(r, n)
-----------------------------------------------------------------------------
(* A fault is counted within its bound.                                    *)
LEMMA FaultType ==
  ASSUME CountInv, Fault
  PROVE  CountInv' /\ count'.changes = count.changes
<1>1. count.faults + 1 \in 0 .. MaxFaults
  BY PullAssumption DEF PullAssumption, CountInv, Fault
<1> QED
  BY <1>1 DEF CountInv, Fault

(* So is a switch of the console.                                          *)
LEMMA SwitchType ==
  ASSUME CountInv, Switch
  PROVE  CountInv' /\ count'.changes = count.changes
<1>1. count.switches + 1 \in 0 .. MaxSwitches
  BY PullAssumption DEF PullAssumption, CountInv, Switch
<1> QED
  BY <1>1 DEF CountInv, Switch

(* A change gives one pull request the newest version and touches no       *)
(* other.                                                                  *)
LEMMA ChangeEffect ==
  ASSUME TypeInv, NEW r \in Repos, NEW n \in Numbers, NEW from, NEW to \in States,
         Change(r, n, from, to)
  PROVE  /\ CountInv' /\ count'.changes = count.changes + 1
         /\ pr' \in [Repos -> [Numbers -> [state : States, ver : Versions]]]
         /\ pr'[r][n] = [state |-> to, ver |-> count.changes + 1]
         /\ \A q \in Repos, m \in Numbers :
              <<q, m>> # <<r, n>> => pr'[q][m] = pr[q][m]
         /\ UNCHANGED <<console, polling, seen, sweep, history>>
<1>1. count.changes + 1 \in 0 .. MaxChanges
  BY PullAssumption DEF PullAssumption, TypeInv, CountInv, Change
<1>2. CountInv' /\ count'.changes = count.changes + 1
  BY <1>1 DEF TypeInv, CountInv, Change
<1>3. [state |-> to, ver |-> count.changes + 1] \in [state : States, ver : Versions]
  BY <1>1 DEF Versions
<1>4. pr \in [Repos -> [Numbers -> [state : States, ver : Versions]]]
  BY DEF TypeInv, TypeOK, States
<1>5. pr' = [pr EXCEPT ![r][n] = [state |-> to, ver |-> count.changes + 1]]
  BY DEF Change
<1> QED
  BY <1>2, <1>3, <1>4, <1>5 DEF Change

(* GitHub's four actions are changes.                                      *)
LEMMA ChangeKinds ==
  ASSUME OpenPr \/ TouchPr \/ ClosePr \/ MergePr
  PROVE  \E r \in Repos, n \in Numbers, from \in SUBSET States, to \in States :
           Change(r, n, from, to)
  BY DEF OpenPr, TouchPr, ClosePr, MergePr, States

(* At the end of a repo its list becomes the memory, and what the page     *)
(* left out is forgotten.                                                  *)
LEMMA RepoEnds ==
  ASSUME TypeInv, EndRepo
  PROVE  /\ sweep.repo \in Repos /\ sweep.pc = "report" /\ sweep.rest = {}
         /\ sweep'.pc = "next" /\ sweep'.repo = "none" /\ sweep'.rest = {}
         /\ start' \in [Repos -> [Numbers -> Versions]]
         /\ hidden' \in [Repos -> [Numbers -> [Versions -> Nat]]]
         /\ \A q \in Repos, n \in Numbers :
              start'[q][n] = IF q = sweep.repo /\ sweep.off[n] # 0
                             THEN 0 ELSE start[q][n]
         /\ \A q \in Repos, n \in Numbers, v \in Versions :
              hidden'[q][n][v] = IF q = sweep.repo /\ Forgets(q, n, v)
                                 THEN hidden[q][n][v] + 1 ELSE hidden[q][n][v]
         /\ UNCHANGED <<pr, console, polling, told, aborts, count>>
<1>1. sweep.repo \in Repos /\ sweep.pc = "report" /\ sweep.rest = {}
  BY DEF EndRepo, TypeInv, TypeOK
<1>2. sweep' = [sweep EXCEPT !.pc = "next", !.repo = "none", !.list = Unlisted,
                             !.off = Unlisted]
  BY DEF EndRepo
<1>3. sweep'.pc = "next" /\ sweep'.repo = "none" /\ sweep'.rest = sweep.rest
  BY <1>2 DEF TypeInv, TypeOK
<1>4. 0 \in Versions
  BY PullAssumption DEF PullAssumption, Versions
<1>5. /\ start' = [start EXCEPT ![sweep.repo] =
                     [n \in Numbers |-> IF sweep.off[n] = 0 THEN @[n] ELSE 0]]
      /\ start \in [Repos -> [Numbers -> Versions]]
  BY DEF EndRepo, TypeInv, TypeOK
<1>6. /\ hidden' = [hidden EXCEPT ![sweep.repo] =
           [n \in Numbers |-> [v \in Versions |->
              IF Forgets(sweep.repo, n, v) THEN @[n][v] + 1 ELSE @[n][v]]]]
      /\ hidden \in [Repos -> [Numbers -> [Versions -> Nat]]]
  BY DEF EndRepo, TypeInv, TypeOK
<1>7. start' \in [Repos -> [Numbers -> Versions]]
  BY <1>1, <1>4, <1>5
<1>8. hidden' \in [Repos -> [Numbers -> [Versions -> Nat]]]
  BY <1>1, <1>6
<1>9. \A q \in Repos, n \in Numbers :
        start'[q][n] = IF q = sweep.repo /\ sweep.off[n] # 0 THEN 0 ELSE start[q][n]
  BY <1>1, <1>5
<1>10. \A q \in Repos, n \in Numbers, v \in Versions :
         hidden'[q][n][v] = IF q = sweep.repo /\ Forgets(q, n, v)
                            THEN hidden[q][n][v] + 1 ELSE hidden[q][n][v]
  BY <1>1, <1>6
<1> QED
  BY <1>1, <1>3, <1>7, <1>8, <1>9, <1>10 DEF EndRepo

(* At the end of a sweep, and after its interval, nothing is left to       *)
(* report.                                                                 *)
LEMMA SweepRests ==
  ASSUME TypeInv, EndSweep \/ Interval \/ IntervalFails
  PROVE  /\ sweep.repo = "none" /\ sweep'.repo = "none" /\ sweep'.rest = {}
         /\ sweep'.pc # "report" /\ CountInv' /\ count'.changes = count.changes
         /\ UNCHANGED <<pr, seen, told, start, aborts, hidden>>
<1>1. sweep.repo = "none"
  BY DEF TypeInv, TypeOK, EndSweep, Interval, IntervalFails
<1>2. CASE EndSweep \/ Interval
  BY <1>1, <1>2 DEF EndSweep, Interval, Resting, NoSweep, history, TypeInv, CountInv
<1>3. CASE IntervalFails
  BY <1>1, <1>3, FaultType DEF IntervalFails, NoSweep, history, TypeInv
<1> QED
  BY <1>2, <1>3

(* The constants of a sweep are well formed.                               *)
LEMMA SweepTypes ==
  /\ Unlisted \in [Numbers -> Versions]
  /\ NotSeen \in [known : BOOLEAN, ver : [Numbers -> Versions]]
  /\ {NoSweep, Resting} \subseteq
       [pc : {"sleep", "next", "report", "interval"}, todo : SUBSET Repos,
        repo : Repos \cup {"none"}, list : [Numbers -> Versions],
        off : [Numbers -> Versions], rest : SUBSET Numbers]
<1>1. Unlisted \in [Numbers -> Versions]
  BY PullAssumption DEF PullAssumption, Unlisted, Versions
<1> QED
  BY <1>1 DEF NotSeen, NoSweep, Resting

(* Listing a repo starts a report of what it lists.                        *)
LEMMA ListEffect ==
  ASSUME TypeInv, NEW r \in sweep.todo, sweep.pc = "next",
         sweep' = [pc |-> "report", todo |-> sweep.todo \ {r}, repo |-> r,
                   list |-> Listed(r), off |-> LeftOut(r),
                   rest |-> ToReport(Listed(r))]
  PROVE  /\ r \in Repos /\ sweep.repo = "none"
         /\ Listed(r) \in [Numbers -> Versions]
         /\ LeftOut(r) \in [Numbers -> Versions]
         /\ sweep' \in [pc : {"sleep", "next", "report", "interval"},
                        todo : SUBSET Repos, repo : Repos \cup {"none"}, list : [Numbers -> Versions],
                        off : [Numbers -> Versions], rest : SUBSET Numbers]
         /\ sweep'.pc = "report" /\ sweep'.repo = r /\ sweep'.list = Listed(r)
         /\ sweep'.off = LeftOut(r) /\ sweep'.rest = ToReport(Listed(r))
<1>1. r \in Repos /\ sweep.repo = "none"
  BY DEF TypeInv, TypeOK
<1>2. Listed(r) \in [Numbers -> Versions] /\ LeftOut(r) \in [Numbers -> Versions]
  <2>1. 0 \in Versions
    BY PullAssumption DEF PullAssumption, Versions
  <2> QED
    BY <1>1, <2>1 DEF TypeInv, TypeOK, Listed, LeftOut
<1> QED
  BY <1>1, <1>2 DEF TypeInv, TypeOK, ToReport

(* A report takes one pull request off the sweep and counts at most one    *)
(* job.                                                                    *)
LEMMA ReportEffect ==
  ASSUME TypeInv, Report
  PROVE  \E n \in sweep.rest :
           LET r == sweep.repo  v == sweep.list[n] IN
           /\ r \in Repos /\ n \in Numbers /\ v \in Versions
           /\ sweep.pc = "report" /\ sweep' = [sweep EXCEPT !.rest = @ \ {n}]
           /\ told' = IF Fresh(r, n) THEN [told EXCEPT ![r][n][v] = @ + 1] ELSE told
           /\ UNCHANGED <<pr, console, polling, seen, start, aborts, hidden, count>>
<1>1. PICK n \in sweep.rest :
        /\ sweep' = [sweep EXCEPT !.rest = @ \ {n}]
        /\ told' = IF Fresh(sweep.repo, n)
                   THEN [told EXCEPT ![sweep.repo][n][sweep.list[n]] = @ + 1]
                   ELSE told
  BY DEF Report
<1>2. sweep.repo \in Repos /\ n \in Numbers /\ sweep.list[n] \in Versions
  BY <1>1 DEF Report, TypeInv, TypeOK
<1> QED
  BY <1>1, <1>2 DEF Report

(* Every step keeps the variables well formed.                             *)
LEMMA TypeStep == TypeInv /\ [Next]_vars => TypeOK' /\ CountInv'
<1> SUFFICES ASSUME TypeInv, [Next]_vars PROVE TypeOK' /\ CountInv'
  OBVIOUS
<1> USE DEF console, history
<1>1. CASE OpenPr \/ TouchPr \/ ClosePr \/ MergePr
  BY <1>1, ChangeKinds, ChangeEffect DEF TypeInv, TypeOK, States
<1>2. CASE StartSweep
  BY <1>2, SweepTypes DEF StartSweep, NoSweep, TypeInv, TypeOK, CountInv
<1>3. CASE List
  <2>1. PICK r \in sweep.todo :
          sweep' = [pc |-> "report", todo |-> sweep.todo \ {r}, repo |-> r,
                    list |-> Listed(r), off |-> LeftOut(r),
                    rest |-> ToReport(Listed(r))]
    BY <1>3 DEF List
  <2>2. sweep.pc = "next"
    BY <1>3 DEF List
  <2>3. start' \in [Repos -> [Numbers -> Versions]]
    <3>1. 0 \in Versions /\ count.changes \in Versions
      BY PullAssumption DEF PullAssumption, TypeInv, CountInv, Versions
    <3> QED
      BY <1>3, <3>1 DEF List, TypeInv, TypeOK
  <2>4. r # "none"
    BY <2>1, <2>2, ListEffect, PullAssumption DEF PullAssumption
  <2> QED
    BY <1>3, <2>1, <2>2, <2>3, <2>4, ListEffect
    DEF List, ToReport, TypeInv, TypeOK, CountInv
<1>4. CASE ListFails
  <2>1. PICK r \in sweep.todo : sweep' = [sweep EXCEPT !.todo = @ \ {r}]
    BY <1>4 DEF ListFails
  <2>2. CountInv' /\ UNCHANGED <<pr, console, polling, seen, history>>
    BY <1>4, FaultType DEF ListFails, TypeInv
  <2>3. TypeOK'
    BY <2>1, <2>2 DEF TypeInv, TypeOK
  <2> QED
    BY <2>2, <2>3
<1>5. CASE Report
  <2>1. PICK n \in sweep.rest :
          /\ sweep.repo \in Repos /\ n \in Numbers /\ sweep.list[n] \in Versions
          /\ sweep' = [sweep EXCEPT !.rest = @ \ {n}]
          /\ told' = IF Fresh(sweep.repo, n)
                     THEN [told EXCEPT ![sweep.repo][n][sweep.list[n]] = @ + 1]
                     ELSE told
          /\ UNCHANGED <<pr, console, polling, seen, start, aborts, hidden, count>>
    BY <1>5, ReportEffect
  <2>2. told' \in [Repos -> [Numbers -> [Versions -> Nat]]]
    BY <2>1 DEF TypeInv, TypeOK
  <2> QED
    BY <2>1, <2>2 DEF TypeInv, TypeOK, CountInv
<1>6. CASE EndRepo
  <2>1. seen' \in [Repos -> [known : BOOLEAN, ver : [Numbers -> Versions]]]
    BY <1>6, RepoEnds DEF EndRepo, Remember, TypeInv, TypeOK
  <2>2. sweep' = [sweep EXCEPT !.pc = "next", !.repo = "none", !.list = Unlisted,
                               !.off = Unlisted]
    BY <1>6 DEF EndRepo
  <2>3. sweep' \in [pc : {"sleep", "next", "report", "interval"}, todo : SUBSET Repos,
                    repo : Repos \cup {"none"}, list : [Numbers -> Versions],
                    off : [Numbers -> Versions], rest : SUBSET Numbers]
    BY <2>2, SweepTypes DEF TypeInv, TypeOK
  <2> QED
    BY <1>6, <2>1, <2>3, RepoEnds DEF TypeInv, TypeOK, CountInv
<1>7. CASE EndSweep \/ Interval \/ IntervalFails
  <2>1. sweep' \in {NoSweep, Resting}
    BY <1>7 DEF EndSweep, Interval, IntervalFails
  <2>2. /\ mode' = mode /\ enabled' = enabled /\ polling' \in BOOLEAN
    BY <1>7 DEF EndSweep, Interval, IntervalFails, TypeInv, TypeOK
  <2>3. sweep'.pc # "report"
    BY <1>7, SweepRests
  <2> QED
    BY <1>7, <2>1, <2>2, <2>3, SweepRests, SweepTypes DEF TypeInv, TypeOK
<1>8. CASE Abort
  <2>1. /\ sweep' = Resting /\ aborts' = aborts + 1 /\ CountInv'
        /\ UNCHANGED <<pr, console, polling, seen, told, start, hidden>>
    BY <1>8, FaultType DEF Abort, AbortedSeen, TypeInv
  <2>2. sweep'.pc = "interval" /\ sweep'.repo = "none" /\ sweep'.rest = {}
    BY <2>1 DEF Resting, NoSweep
  <2> QED
    BY <2>1, <2>2, SweepTypes DEF TypeInv, TypeOK
<1>9. CASE SwitchProject \/ SwitchMode
  BY <1>9, SwitchType DEF SwitchProject, SwitchMode, TypeInv, TypeOK
<1>10. CASE Restart
  BY <1>10, SweepTypes, FaultType, PullAssumption
  DEF PullAssumption, Restart, NoSweep, Versions, TypeInv, TypeOK
<1>11. CASE UNCHANGED vars
  BY <1>11 DEF vars, TypeInv, TypeOK, CountInv
<1> QED
  BY <1>1, <1>2, <1>3, <1>4, <1>5, <1>6, <1>7, <1>8, <1>9, <1>10, <1>11 DEF Next

(* Every step keeps the versions ordered.                                  *)
LEMMA VersionStep == TypeInv /\ [Next]_vars => VersionInv'
<1> SUFFICES ASSUME TypeInv, [Next]_vars PROVE VersionInv'
  OBVIOUS
<1> USE DEF console, history
<1>1. CASE OpenPr \/ TouchPr \/ ClosePr \/ MergePr
  <2>1. PICK r \in Repos, n \in Numbers, to \in States :
          /\ count'.changes = count.changes + 1
          /\ pr'[r][n] = [state |-> to, ver |-> count.changes + 1]
          /\ \A q \in Repos, m \in Numbers :
               <<q, m>> # <<r, n>> => pr'[q][m] = pr[q][m]
          /\ UNCHANGED <<sweep, told, start>>
    BY <1>1, ChangeKinds, ChangeEffect
  <2>2. count.changes \in Nat
    BY DEF TypeInv, CountInv
  <2>3. \A q \in Repos, m \in Numbers :
          pr[q][m].ver \in Nat /\ pr[q][m].ver <= count.changes
    BY DEF TypeInv, TypeOK, VersionInv, Versions
  <2>4. \A q \in Repos, m \in Numbers :
          /\ pr'[q][m].ver \in Nat /\ pr[q][m].ver <= pr'[q][m].ver
          /\ pr'[q][m].ver <= count.changes + 1
    <3> SUFFICES ASSUME NEW q \in Repos, NEW m \in Numbers
                 PROVE  /\ pr'[q][m].ver \in Nat /\ pr[q][m].ver <= pr'[q][m].ver
                        /\ pr'[q][m].ver <= count.changes + 1
      OBVIOUS
    <3>1. CASE <<q, m>> = <<r, n>>
      <4>1. pr'[q][m].ver = count.changes + 1
        BY <2>1, <3>1
      <4> QED
        BY <2>2, <2>3, <4>1
    <3>2. CASE <<q, m>> # <<r, n>>
      <4>1. pr'[q][m].ver = pr[q][m].ver
        BY <2>1, <3>2
      <4> QED
        BY <2>2, <2>3, <4>1
    <3> QED
      BY <3>1, <3>2
  <2>5. \A q \in Repos, m \in Numbers : start'[q][m] <= count'.changes
    <3>1. \A q \in Repos, m \in Numbers :
            start[q][m] \in Nat /\ start[q][m] <= count.changes
      BY DEF TypeInv, TypeOK, VersionInv, Versions
    <3> QED
      BY <2>1, <2>2, <3>1
  <2>8. \A q \in Repos, m \in Numbers : IsOpen(q, m)' => pr'[q][m].ver > 0
    <3> SUFFICES ASSUME NEW q \in Repos, NEW m \in Numbers, IsOpen(q, m)'
                 PROVE  pr'[q][m].ver > 0
      OBVIOUS
    <3>1. CASE <<q, m>> = <<r, n>>
      <4>1. pr'[q][m].ver = count.changes + 1
        BY <2>1, <3>1
      <4> QED
        BY <2>2, <4>1
    <3>2. CASE <<q, m>> # <<r, n>>
      BY <2>1, <3>2 DEF IsOpen, TypeInv, VersionInv
    <3> QED
      BY <3>1, <3>2
  <2>6. \A q \in Repos, m \in Numbers, v \in Versions :
          told'[q][m][v] > 0 => v <= pr'[q][m].ver
    BY <2>1, <2>3, <2>4 DEF TypeInv, VersionInv, Versions
  <2>7. sweep'.pc = "report" =>
          \A m \in Numbers : sweep'.list[m] <= pr'[sweep'.repo][m].ver
    <3> SUFFICES ASSUME sweep.pc = "report", NEW m \in Numbers
                 PROVE  sweep.list[m] <= pr'[sweep.repo][m].ver
      BY <2>1
    <3>1. /\ sweep.repo \in Repos /\ sweep.list[m] \in Nat
          /\ sweep.list[m] <= pr[sweep.repo][m].ver
      BY DEF TypeInv, TypeOK, VersionInv, Versions
    <3> QED
      BY <2>3, <2>4, <3>1
  <2> QED
    BY <2>1, <2>4, <2>5, <2>6, <2>7, <2>8 DEF VersionInv
<1>2. CASE UNCHANGED <<pr, told, start, count, sweep>>
  BY <1>2 DEF IsOpen, TypeInv, VersionInv
<1>3. CASE StartSweep
  BY <1>3 DEF StartSweep, NoSweep, IsOpen, TypeInv, VersionInv
<1>4. CASE List
  <2>1. PICK r \in sweep.todo :
          sweep' = [pc |-> "report", todo |-> sweep.todo \ {r}, repo |-> r,
                    list |-> Listed(r), off |-> LeftOut(r),
                    rest |-> ToReport(Listed(r))]
    BY <1>4 DEF List
  <2>2. sweep.pc = "next"
    BY <1>4 DEF List
  <2>3. \A n \in Numbers : sweep'.list[n] <= pr[sweep'.repo][n].ver
    <3>1. r \in Repos /\ sweep'.repo = r /\ sweep'.list = Listed(r)
      BY <2>1, <2>2, ListEffect
    <3>2. \A n \in Numbers : pr[r][n].ver \in Nat
      BY <3>1 DEF TypeInv, TypeOK, Versions
    <3>3. \A n \in Numbers : Listed(r)[n] \in {pr[r][n].ver, 0}
      BY DEF Listed
    <3> QED
      BY <3>1, <3>2, <3>3
  <2>4. \A q \in Repos, n \in Numbers : start'[q][n] <= count.changes
    BY <1>4 DEF List, TypeInv, VersionInv, TypeOK, CountInv
  <2> QED
    BY <1>4, <2>3, <2>4 DEF List, IsOpen, TypeInv, VersionInv
<1>5. CASE ListFails
  BY <1>5, FaultType DEF ListFails, IsOpen, TypeInv, VersionInv
<1>6. CASE Report
  <2>1. PICK n \in sweep.rest :
          /\ sweep.repo \in Repos /\ n \in Numbers /\ sweep.list[n] \in Versions
          /\ sweep.pc = "report"
          /\ sweep' = [sweep EXCEPT !.rest = @ \ {n}]
          /\ told' = IF Fresh(sweep.repo, n)
                     THEN [told EXCEPT ![sweep.repo][n][sweep.list[n]] = @ + 1]
                     ELSE told
          /\ UNCHANGED <<pr, start, count>>
    BY <1>6, ReportEffect
  <2>2. \A r \in Repos, m \in Numbers, v \in Versions :
          told'[r][m][v] = told[r][m][v]
            \/ (r = sweep.repo /\ m = n /\ v = sweep.list[n])
    BY <2>1 DEF TypeInv, TypeOK
  <2>3. sweep'.pc = sweep.pc /\ sweep'.repo = sweep.repo /\ sweep'.list = sweep.list
    BY <2>1 DEF TypeInv, TypeOK
  <2> QED
    BY <2>1, <2>2, <2>3 DEF IsOpen, TypeInv, VersionInv
<1>7. CASE EndRepo
  <2>1. \A q \in Repos, n \in Numbers : start'[q][n] <= count'.changes
    <3>1. /\ count' = count /\ count.changes \in Nat
          /\ \A q \in Repos, n \in Numbers : start'[q][n] \in {start[q][n], 0}
      BY <1>7, RepoEnds DEF TypeInv, CountInv
    <3> QED
      BY <3>1 DEF TypeInv, VersionInv
  <2> QED
    BY <1>7, <2>1, RepoEnds DEF IsOpen, TypeInv, VersionInv
<1>11. CASE EndSweep \/ Interval \/ IntervalFails
  BY <1>11, SweepRests DEF IsOpen, TypeInv, VersionInv
<1>8. CASE Abort
  BY <1>8, FaultType DEF Abort, NoSweep, Resting, IsOpen, TypeInv, VersionInv
<1>9. CASE SwitchProject \/ SwitchMode
  BY <1>9, SwitchType DEF SwitchProject, SwitchMode, IsOpen, TypeInv, VersionInv
<1>10. CASE Restart
  BY <1>10, FaultType
  DEF Restart, NoSweep, Unlisted, IsOpen, TypeInv, VersionInv, CountInv
<1> QED
  BY <1>1, <1>2, <1>3, <1>4, <1>5, <1>6, <1>7, <1>8, <1>9, <1>10, <1>11
  DEF Next, vars

(* Every step keeps what is covered remembered. A change makes a version   *)
(* that is not covered; a list carries the memory's versions or newer      *)
(* ones; the end of a repo stores the list; an aborted sweep makes one     *)
(* more report of each version legitimate; and a restart forgets           *)
(* everything.                                                             *)
LEMMA CoverStep ==
  TypeInv /\ NoRepeat /\ CoverInv /\ [Next]_vars => CoverInv'
<1> SUFFICES ASSUME TypeInv, NoRepeat, CoverInv, [Next]_vars,
                    NEW q \in Repos, NEW m \in Numbers
             PROVE  /\ SeenCovers(q, m)' /\ StartCovers(q, m)'
                    /\ ListCovers(q, m)' /\ RestFresh(q, m)'
  BY DEF CoverInv
<1>a. /\ SeenCovers(q, m) /\ StartCovers(q, m)
      /\ ListCovers(q, m) /\ RestFresh(q, m)
  BY DEF CoverInv
<1>b. q # "none"
  BY PullAssumption DEF PullAssumption
<1> USE DEF console, history
<1>1. CASE OpenPr \/ TouchPr \/ ClosePr \/ MergePr
  <2>1. PICK r \in Repos, n \in Numbers, to \in States :
          /\ pr'[r][n] = [state |-> to, ver |-> count.changes + 1]
          /\ \A k \in Repos, l \in Numbers :
               <<k, l>> # <<r, n>> => pr'[k][l] = pr[k][l]
          /\ UNCHANGED <<seen, sweep, told, start, aborts, hidden>>
    BY <1>1, ChangeKinds, ChangeEffect
  <2>2. RestFresh(q, m)'
    BY <1>a, <2>1 DEF RestFresh, Covered
  <2>3. CASE pr'[q][m] = pr[q][m]
    BY <1>a, <2>1, <2>2, <2>3 DEF SeenCovers, StartCovers, ListCovers,
       OpenCovered, Covered, IsOpen, Baseline
  <2>4. CASE pr'[q][m].ver = count.changes + 1
    <3> DEFINE w == count.changes + 1
    <3>1. w \in Versions /\ w \in Nat
      <4>1. count'.changes \in 0 .. MaxChanges /\ count'.changes = w
        BY <1>1, ChangeKinds, ChangeEffect DEF CountInv
      <4> QED
        BY <4>1 DEF Versions
    <3>2. ~(told[q][m][w] > 0) /\ ~(w <= start[q][m])
      <4>1. /\ pr[q][m].ver <= count.changes /\ start[q][m] <= count.changes
            /\ pr[q][m].ver \in Nat /\ start[q][m] \in Nat /\ count.changes \in Nat
        BY DEF TypeInv, TypeOK, VersionInv, CountInv, Versions
      <4>2. told[q][m][w] > 0 => w <= pr[q][m].ver
        BY <3>1 DEF TypeInv, VersionInv
      <4> QED
        BY <4>1, <4>2
    <3>3. told[q][m][w] \in Nat /\ aborts \in Nat /\ hidden[q][m][w] \in Nat
      BY <3>1 DEF TypeInv, TypeOK
    <3>4. ~Covered(q, m, w)
      BY <3>2, <3>3 DEF Covered
    <3>5. ~OpenCovered(q, m)' /\ ~(pr'[q][m].ver <= start'[q][m])
      BY <2>1, <2>4, <3>2, <3>4 DEF OpenCovered, Covered
    <3> QED
      BY <2>2, <3>5 DEF SeenCovers, StartCovers, ListCovers
  <2> QED
    BY <2>1, <2>3, <2>4
<1>2. CASE UNCHANGED <<pr, seen, sweep, told, start, aborts, hidden>>
  BY <1>a, <1>2 DEF SeenCovers, StartCovers, ListCovers, RestFresh, OpenCovered,
     Covered, IsOpen, Baseline
<1>3. CASE /\ sweep'.repo = sweep.repo /\ sweep'.list = sweep.list
           /\ sweep'.off = sweep.off /\ sweep'.rest = sweep.rest
           /\ UNCHANGED <<pr, seen, told, start, aborts, hidden>>
  BY <1>a, <1>3 DEF SeenCovers, StartCovers, ListCovers, RestFresh, OpenCovered,
     Covered, IsOpen, Baseline
<1>4. CASE StartSweep \/ EndSweep \/ Interval \/ IntervalFails
  <2>1. /\ sweep'.repo = "none" /\ sweep.repo = "none"
        /\ UNCHANGED <<pr, seen, told, start, aborts, hidden>>
    BY <1>4, SweepRests DEF StartSweep, NoSweep, TypeInv, TypeOK
  <2> QED
    BY <1>a, <1>b, <2>1 DEF SeenCovers, StartCovers, ListCovers, RestFresh,
       OpenCovered, Covered, IsOpen
<1>5. CASE List
  <2>1. PICK r \in sweep.todo :
          sweep' = [pc |-> "report", todo |-> sweep.todo \ {r}, repo |-> r,
                    list |-> Listed(r), off |-> LeftOut(r),
                    rest |-> ToReport(Listed(r))]
    BY <1>5 DEF List
  <2>2. /\ r \in Repos /\ sweep.repo = "none" /\ sweep'.repo = r
        /\ sweep'.list = Listed(r) /\ sweep'.off = LeftOut(r)
        /\ sweep'.rest = ToReport(Listed(r))
    BY <1>5, <2>1, ListEffect DEF List
  <2>3. UNCHANGED <<pr, seen, told, aborts, hidden>>
    BY <1>5 DEF List
  <2>4. seen[q].known \/ q # r => start'[q] = start[q]
    BY <1>5, <2>2 DEF List
  <2>5. CASE q # r
    BY <1>a, <1>b, <2>2, <2>3, <2>4, <2>5
    DEF SeenCovers, StartCovers, ListCovers, RestFresh, OpenCovered, Covered,
        IsOpen
  <2>6. CASE q = r
    <3>1. IsOpen(q, m) => \/ sweep'.list[m] = pr[q][m].ver
                          \/ sweep'.list[m] = 0 /\ sweep'.off[m] = pr[q][m].ver
      BY <2>2, <2>6 DEF Listed, LeftOut
    <3>2. m \in sweep'.rest => IsOpen(q, m) /\ sweep'.list[m] = pr[q][m].ver
      BY <2>2, <2>6 DEF ToReport, Listed
    <3>3. seen[q].known /\ OpenCovered(q, m) => seen[q].ver[m] = pr[q][m].ver
      BY <1>a, <1>b, <2>2 DEF SeenCovers
    <3>4. ListCovers(q, m)'
      <4> SUFFICES ASSUME OpenCovered(q, m)', seen[q].known
                   PROVE  seen[q].ver[m] = pr[q][m].ver
        BY <2>3, <3>1 DEF ListCovers, OpenCovered, IsOpen, Baseline
      <4> QED
        BY <2>3, <2>4, <3>3 DEF OpenCovered, Covered, IsOpen
    <3>5. RestFresh(q, m)'
      BY <2>3, <2>4, <3>2, <3>3 DEF RestFresh, OpenCovered, Covered, IsOpen
    <3> QED
      BY <1>a, <2>2, <2>3, <2>4, <2>6, <3>4, <3>5
      DEF SeenCovers, StartCovers, IsOpen
  <2> QED
    BY <2>5, <2>6
<1>6. CASE ListFails
  BY <1>3, <1>6 DEF ListFails, TypeInv, TypeOK
<1>7. CASE Report
  <2>1. PICK n \in sweep.rest :
          /\ sweep.repo \in Repos /\ n \in Numbers /\ sweep.list[n] \in Versions
          /\ sweep' = [sweep EXCEPT !.rest = @ \ {n}]
          /\ told' = IF Fresh(sweep.repo, n)
                     THEN [told EXCEPT ![sweep.repo][n][sweep.list[n]] = @ + 1]
                     ELSE told
          /\ UNCHANGED <<pr, seen, start, aborts, hidden>>
    BY <1>7, ReportEffect
  <2>2. /\ sweep'.repo = sweep.repo /\ sweep'.list = sweep.list
        /\ sweep'.off = sweep.off /\ sweep'.rest = sweep.rest \ {n}
    BY <2>1 DEF TypeInv, TypeOK
  <2>3. \A v \in Versions :
          told'[q][m][v] = told[q][m][v]
            \/ (q = sweep.repo /\ m = n /\ v = sweep.list[n])
    BY <2>1 DEF TypeInv, TypeOK
  <2>4. pr[q][m].ver \in Versions /\ sweep.list[m] \in Versions
    BY DEF TypeInv, TypeOK
  <2>5. SeenCovers(q, m)'
    BY <1>a, <2>1, <2>2, <2>3, <2>4 DEF SeenCovers, OpenCovered, Covered, IsOpen
  <2>6. StartCovers(q, m)'
    BY <1>a, <2>1 DEF StartCovers, IsOpen
  <2>7. ListCovers(q, m)'
    <3>1. sweep.list[n] # 0
      BY <2>1 DEF TypeInv, TypeOK
    <3>2. CASE told'[q][m][pr[q][m].ver] = told[q][m][pr[q][m].ver]
      BY <1>a, <2>1, <2>2, <3>2
      DEF ListCovers, OpenCovered, Covered, IsOpen, Baseline
    <3>3. CASE q = sweep.repo /\ m = n /\ pr[q][m].ver = sweep.list[n]
      BY <2>1, <2>2, <3>3 DEF ListCovers
    <3> QED
      BY <2>3, <2>4, <3>2, <3>3
  <2>8. RestFresh(q, m)'
    BY <1>a, <2>1, <2>2, <2>3, <2>4 DEF RestFresh, Covered
  <2> QED
    BY <2>5, <2>6, <2>7, <2>8
<1>8. CASE EndRepo
  <2> DEFINE w == pr[q][m].ver
  <2>1. /\ sweep.repo \in Repos /\ sweep'.repo = "none"
        /\ UNCHANGED <<pr, told, aborts>>
    BY <1>8, RepoEnds
  <2>2. CASE q = sweep.repo
    <3>1. seen'[q].ver = sweep.list
      BY <1>8, <2>2 DEF EndRepo, Remember, TypeInv, TypeOK
    <3>2. w \in Versions /\ start[q][m] \in Nat
      BY DEF TypeInv, TypeOK, Versions
    <3>3. start'[q][m] = IF sweep.off[m] # 0 THEN 0 ELSE start[q][m]
      BY <1>8, <2>2, RepoEnds
    <3>4. hidden'[q][m][w] = IF Forgets(q, m, w) THEN hidden[q][m][w] + 1
                             ELSE hidden[q][m][w]
      BY <1>8, <2>2, <3>2, RepoEnds
    <3>5. ASSUME IsOpen(q, m), sweep.list[m] # w  PROVE ~Covered(q, m, w)'
      <4>1. w > 0
        BY <3>5 DEF TypeInv, VersionInv
      <4>2. /\ told[q][m][w] \in Nat /\ aborts \in Nat /\ hidden[q][m][w] \in Nat
            /\ told[q][m][w] <= 1 + aborts + hidden[q][m][w]
        BY <3>2 DEF TypeInv, TypeOK, NoRepeat
      <4>3. CASE ~Covered(q, m, w)
        <5>1. ~(told[q][m][w] > aborts + hidden[q][m][w]) /\ ~(w <= start[q][m])
          BY <4>3 DEF Covered
        <5>2. ~(told[q][m][w] > aborts + hidden'[q][m][w])
          BY <3>4, <4>2, <5>1
        <5>3. ~(w <= start'[q][m])
          BY <3>2, <3>3, <4>1, <5>1 DEF Versions
        <5> QED
          BY <2>1, <5>2, <5>3 DEF Covered
      <4>4. CASE Covered(q, m, w)
        <5>1. sweep.off[m] = w /\ (Baseline(q) \/ seen[q].ver[m] = w)
          BY <1>a, <2>2, <3>5, <4>4 DEF ListCovers, OpenCovered
        <5>2. Forgets(q, m, w)
          BY <4>1, <5>1 DEF Forgets
        <5>3. ~(told[q][m][w] > aborts + hidden'[q][m][w])
          BY <3>4, <4>2, <5>2
        <5>4. ~(w <= start'[q][m])
          BY <3>2, <3>3, <4>1, <5>1 DEF Versions
        <5> QED
          BY <2>1, <5>3, <5>4 DEF Covered
      <4> QED
        BY <4>3, <4>4
    <3>6. OpenCovered(q, m)' => sweep.list[m] = w
      BY <2>1, <3>5 DEF OpenCovered, IsOpen, Covered
    <3>7. IsOpen(q, m)' /\ w <= start'[q][m] => OpenCovered(q, m)'
      BY <2>1 DEF OpenCovered, IsOpen, Covered
    <3> QED
      BY <1>b, <2>1, <3>1, <3>6, <3>7
      DEF SeenCovers, StartCovers, ListCovers, RestFresh
  <2>3. CASE q # sweep.repo
    <3>1. seen'[q] = seen[q]
      BY <1>8, <2>3 DEF EndRepo, Remember, TypeInv, TypeOK
    <3>2. w \in Versions
      BY DEF TypeInv, TypeOK
    <3>3. start'[q][m] = start[q][m] /\ hidden'[q][m][w] = hidden[q][m][w]
      BY <1>8, <2>3, <3>2, RepoEnds
    <3> QED
      BY <1>a, <1>b, <2>1, <2>3, <3>1, <3>3
      DEF SeenCovers, StartCovers, ListCovers, RestFresh, OpenCovered, Covered,
        IsOpen
  <2> QED
    BY <2>2, <2>3
<1>9. CASE Abort
  <2>1. /\ aborts' = aborts + 1 /\ sweep' = Resting
        /\ UNCHANGED <<pr, seen, told, start, hidden>>
    BY <1>9 DEF Abort, AbortedSeen
  <2>2. pr[q][m].ver \in Versions
    BY DEF TypeInv, TypeOK
  <2>3. ~(told[q][m][pr[q][m].ver] > aborts + 1 + hidden[q][m][pr[q][m].ver])
    BY <2>2 DEF NoRepeat, TypeInv, TypeOK
  <2>4. OpenCovered(q, m)' => IsOpen(q, m) /\ pr[q][m].ver <= start[q][m]
    BY <2>1, <2>3 DEF OpenCovered, Covered, IsOpen
  <2> QED
    BY <1>a, <1>b, <2>1, <2>4
    DEF SeenCovers, StartCovers, ListCovers, RestFresh, NoSweep, Resting, IsOpen
<1>10. CASE SwitchProject \/ SwitchMode
  BY <1>2, <1>10 DEF SwitchProject, SwitchMode
<1>11. CASE Restart
  BY <1>b, <1>11 DEF Restart, NoSweep, NotSeen, SeenCovers, StartCovers,
     ListCovers, RestFresh
<1>12. CASE UNCHANGED vars
  BY <1>2, <1>12 DEF vars
<1> QED
  BY <1>1, <1>4, <1>5, <1>6, <1>7, <1>8, <1>9, <1>10, <1>11, <1>12 DEF Next

(* What is reported is not covered.                                        *)
LEMMA FreshReport ==
  ASSUME TypeInv, CoverInv, NEW n \in sweep.rest, sweep.repo \in Repos,
         n \in Numbers, Fresh(sweep.repo, n)
  PROVE  ~Covered(sweep.repo, n, sweep.list[n])
  BY DEF CoverInv, RestFresh, Fresh, Baseline

(* So a report never repeats more often than sweeps were aborted.          *)
LEMMA RepeatStep ==
  TypeInv /\ CoverInv /\ NoRepeat /\ [Next]_vars => NoRepeat'
<1> SUFFICES ASSUME TypeInv, CoverInv, NoRepeat, [Next]_vars PROVE NoRepeat'
  OBVIOUS
<1>1. CASE UNCHANGED <<told, aborts, hidden>>
  BY <1>1 DEF NoRepeat
<1>2. CASE Report
  <2>1. PICK n \in sweep.rest :
          /\ sweep.repo \in Repos /\ n \in Numbers /\ sweep.list[n] \in Versions
          /\ told' = IF Fresh(sweep.repo, n)
                     THEN [told EXCEPT ![sweep.repo][n][sweep.list[n]] = @ + 1]
                     ELSE told
          /\ aborts' = aborts /\ hidden' = hidden
    BY <1>2, ReportEffect
  <2>2. CASE Fresh(sweep.repo, n)
    <3> DEFINE r == sweep.repo
               v == sweep.list[n]
    <3>1. ~(told[r][n][v] > aborts + hidden[r][n][v])
      BY <2>1, <2>2, FreshReport DEF Covered
    <3>2. told[r][n][v] + 1 <= 1 + aborts + hidden[r][n][v]
      BY <2>1, <3>1 DEF TypeInv, TypeOK
    <3> QED
      BY <2>1, <2>2, <3>2 DEF NoRepeat, TypeInv, TypeOK
  <2>3. CASE ~Fresh(sweep.repo, n)
    BY <2>1, <2>3 DEF NoRepeat
  <2> QED
    BY <2>2, <2>3
<1>3. CASE Abort
  BY <1>3 DEF Abort, NoRepeat, TypeInv, TypeOK
<1>4. CASE EndRepo
  <2> SUFFICES ASSUME NEW r \in Repos, NEW n \in Numbers, NEW v \in Versions
               PROVE  told'[r][n][v] <= 1 + aborts' + hidden'[r][n][v]
    BY DEF NoRepeat
  <2>1. /\ told' = told /\ aborts' = aborts
        /\ hidden'[r][n][v] \in {hidden[r][n][v], hidden[r][n][v] + 1}
    BY <1>4, RepoEnds
  <2>2. /\ told[r][n][v] \in Nat /\ aborts \in Nat /\ hidden[r][n][v] \in Nat
        /\ told[r][n][v] <= 1 + aborts + hidden[r][n][v]
    BY DEF NoRepeat, TypeInv, TypeOK
  <2> QED
    BY <2>1, <2>2
<1> QED
  BY <1>1, <1>2, <1>3, <1>4
  DEF Next, vars, history, OpenPr, TouchPr, ClosePr, MergePr, Change,
      StartSweep,
      List, ListFails, EndSweep, Interval, IntervalFails,
      SwitchProject, SwitchMode, Restart
-----------------------------------------------------------------------------
(* The invariants hold in the initial state.                               *)
LEMMA InitHolds == Init => TypeInv /\ NoRepeat /\ CoverInv
<1> SUFFICES ASSUME Init PROVE TypeInv /\ NoRepeat /\ CoverInv
  OBVIOUS
<1>1. TypeOK
  <2>1. 0 \in Versions
    BY PullAssumption DEF PullAssumption, Versions
  <2> QED
    BY <2>1, SweepTypes DEF Init, TypeOK, NoPr, NoSweep
<1>2. CountInv /\ VersionInv
  BY PullAssumption DEF PullAssumption, Init, CountInv, VersionInv, NoPr,
     NoSweep, Unlisted, IsOpen
<1>3. NoRepeat
  BY DEF Init, NoRepeat
<1>4. CoverInv
  BY PullAssumption
  DEF PullAssumption, Init, CoverInv, SeenCovers, StartCovers, ListCovers,
      RestFresh,
      OpenCovered, NoPr, NotSeen, NoSweep, IsOpen
<1> QED
  BY <1>1, <1>2, <1>3, <1>4 DEF TypeInv

(* The type invariant with the order of versions holds throughout.         *)
LEMMA TypeInvHolds == Spec => []TypeInv
<1>1. TypeInv /\ [Next]_vars => TypeInv'
  BY TypeStep, VersionStep DEF TypeInv
<1> QED
  BY <1>1, InitHolds, PTL DEF Spec

(* So does the cover.                                                      *)
LEMMA CoverHolds == Spec => [](NoRepeat /\ CoverInv)
<1>1. TypeInv /\ (NoRepeat /\ CoverInv) /\ [Next]_vars => (NoRepeat /\ CoverInv)'
  BY CoverStep, RepeatStep
<1> QED
  BY <1>1, InitHolds, TypeInvHolds, PTL DEF Spec

(* Type correctness of the poller and of GitHub; a sweep has a list        *)
(* exactly while it is at a repo (poller.py).                              *)
THEOREM TypeCorrect == Spec => []TypeOK
<1>1. TypeInv => TypeOK
  BY DEF TypeInv
<1> QED
  BY <1>1, TypeInvHolds, PTL

(* A version of a pull request makes one job, but for the sweeps that died *)
(* of an exception and the times a full page made the poller forget the    *)
(* open pull request at that version (GitHubPoller._seen, _poll_repo,      *)
(* list_pull_requests).                                                    *)
THEOREM ReportedOnce == Spec => []NoRepeat
  BY CoverHolds, PTL

(* No step reports a version older than the repo's baseline, unless a full *)
(* page has made the poller forget the pull request since: no startup      *)
(* storm of stale pull requests (poll_once).                               *)
THEOREM QuietStart == Spec => NoStartupStorm
<1> DEFINE Quiet == \A r \in Repos, n \in Numbers, v \in Versions :
                      told'[r][n][v] > told[r][n][v] => v > start[r][n]
<1>1. TypeInv /\ CoverInv /\ [Next]_vars => [Quiet]_vars
  <2> SUFFICES ASSUME TypeInv, CoverInv, [Next]_vars PROVE Quiet
    OBVIOUS
  <2>1. CASE UNCHANGED told
    BY <2>1 DEF TypeInv, TypeOK
  <2>2. CASE Report
    <3>1. PICK n \in sweep.rest :
            /\ sweep.repo \in Repos /\ n \in Numbers /\ sweep.list[n] \in Versions
            /\ told' = IF Fresh(sweep.repo, n)
                       THEN [told EXCEPT ![sweep.repo][n][sweep.list[n]] = @ + 1]
                       ELSE told
      BY <2>2, ReportEffect
    <3>2. CASE Fresh(sweep.repo, n)
      <4>1. ~(sweep.list[n] <= start[sweep.repo][n])
        BY <3>1, <3>2, FreshReport DEF Covered
      <4>2. sweep.list[n] \in Nat /\ start[sweep.repo][n] \in Nat
        BY <3>1 DEF TypeInv, TypeOK, Versions
      <4>3. sweep.list[n] > start[sweep.repo][n]
        BY <4>1, <4>2
      <4> QED
        BY <3>1, <3>2, <4>3 DEF TypeInv, TypeOK
    <3>3. CASE ~Fresh(sweep.repo, n)
      BY <2>1, <3>1, <3>3
    <3> QED
      BY <3>2, <3>3
  <2> QED
    BY <2>1, <2>2
    DEF Next, vars, history, OpenPr, TouchPr, ClosePr, MergePr, Change,
        StartSweep,
        List, ListFails, EndRepo, EndSweep, Abort, Interval, IntervalFails,
        SwitchProject, SwitchMode, Restart
<1> QED
  BY <1>1, TypeInvHolds, CoverHolds, PTL DEF Spec, NoStartupStorm
=============================================================================
