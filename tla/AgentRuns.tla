------------------------------- MODULE AgentRuns -------------------------------
(***************************************************************************)
(* One role's dispatches for one ticket: Dispatcher.run_parsed / run       *)
(* (agents/dispatcher.py) driving dockerctl.run_container, its log pump    *)
(* and its timeout, the run rows of agent_runs.py, the Stop / Delete       *)
(* buttons and the timeline dialog of ui/pages.py that polls the rows.     *)
(*                                                                         *)
(* The scheduler is serial, so one dispatch runs at a time and the         *)
(* semaphores never contend; a restart requeues the job, so dispatches of  *)
(* one container name follow each other for ever.  A chunk of the agent's  *)
(* stdout is its position in the stream; the pump thread hands chunks to   *)
(* the event loop first in, first out, so a few counters stand for it.     *)
(***************************************************************************)
EXTENDS Naturals, Sequences

CONSTANTS
  Cap,         (* _MAX_OUTPUT_CHARS, in chunks                             *)
  TimeoutSet,  (* agent_timeout_minutes is a number: _timeout_seconds      *)
  MaxChunks,   (* chunks an agent prints in one container (bound)          *)
  MaxRuns,     (* containers asked for (bound)                             *)
  MaxEvents    (* calls to the database or to Docker that raise, buttons   *)
               (* pressed, shutdowns and crashes, together (bound)         *)

ASSUME RunsAssumption ==
  /\ Cap \in Nat \ {0} /\ TimeoutSet \in BOOLEAN
  /\ MaxChunks \in Nat /\ MaxRuns \in Nat /\ MaxEvents \in Nat

VARIABLES
  pc,       (* where Dispatcher.run is                                     *)
  attempt,  (* 2 while run_parsed repeats a run for valid JSON             *)
  rid,      (* the row of the run at hand, 0 when it could not be opened   *)
  exc,      (* what run_container is about to raise                        *)
  due,      (* the deadline of _follow_stdout (or of wait_for) has passed  *)
  stream,   (* chunks printed, read by the pump, taken off the queue and   *)
            (* flushed to the row                                          *)
  pump,     (* the pump thread: "off", "reading", "ended", "broken" (it    *)
            (* raised, its finally ran) or "mute" (it raised before its try) *)
  box,      (* the container of this name: its state, row and exit code    *)
  rows,     (* agent_runs: one record per run opened                       *)
  lost,     (* history: an append for the run at hand raised               *)
  ended,    (* history: how the container of a row ended                   *)
  shown,    (* the rows the timeline dialog last rendered                  *)
  deleting, (* Delete has killed the containers, the rows are next         *)
  up,       (* the conductor process runs                                  *)
  count     (* how often each bounded event happened                       *)

runVars  == <<pc, attempt, rid, exc, due>>
logVars  == <<stream, pump, lost>>
boxVars  == <<box, ended>>
uiVars   == <<shown, deleting>>
procVars == <<up, count>>
vars     == <<runVars, logVars, boxVars, rows, uiVars, procVars>>
-----------------------------------------------------------------------------
RunIds  == 1 .. MaxRuns
Mark    == 0                  (* the "[truncated]" line                    *)
Errors  == MaxChunks + 1      (* stderr, or the text of a ContainerTimeout *)
Output  == Seq(0 .. MaxChunks + 1)
Chunks(n) == [i \in 1 .. n |-> i]

NoRow   == [status |-> "none", out |-> <<>>]
NoBox   == [state |-> "none", row |-> 0, code |-> "none"]
NoLog   == [printed |-> 0, read |-> 0, taken |-> 0, flushed |-> 0]
Ended   == {"done", "failed"}
Follows == {"follow", "drain", "kill", "join"}

(* Mutant of Capped: the head is kept.                                     *)
CappedToHead(s) == IF Len(s) <= Cap THEN s ELSE SubSeq(s, 1, Cap) \o <<Mark>>

(* _cap keeps the tail, which holds the result event.                      *)
Capped(s) == IF Len(s) <= Cap THEN s
             ELSE <<Mark>> \o SubSeq(s, Len(s) - Cap + 1, Len(s))

Appended(row, text) == [row EXCEPT !.out = Capped(@ \o text)]

(* A row deleted from the console stays deleted: append_output and         *)
(* finish_run find nothing and return.                                     *)
Edit(r, row) == rows' = IF r # 0 /\ rows[r].status # "none"
                        THEN [rows EXCEPT ![r] = row] ELSE rows

Goto(from, to) == pc = from /\ pc' = to
Event == count.events < MaxEvents /\ count' = [count EXCEPT !.events = @ + 1]

-----------------------------------------------------------------------------
(* Dispatcher.run up to the container.                                     *)
Begin ==
  /\ up /\ count.runs < MaxRuns
  /\ Goto("idle", "start")
  /\ attempt' = 1
  /\ UNCHANGED <<rid, exc, due, logVars, boxVars, rows, uiVars, procVars>>

(* Mutant of StartRow: the re-prompt goes on in the row of the first run.  *)
StartRowOnce ==
  /\ Goto("start", "launch")
  /\ rid' = IF attempt = 2 /\ rid # 0 THEN rid ELSE count.runs + 1
  /\ rows' = [rows EXCEPT ![rid'].status = "running"]
  /\ count' = [count EXCEPT !.runs = @ + 1]
  /\ UNCHANGED <<attempt, exc, due, logVars, boxVars, uiVars, up>>

StartRow ==
  /\ Goto("start", "launch")
  /\ rid' = count.runs + 1
  /\ rows' = [rows EXCEPT ![rid'] = [NoRow EXCEPT !.status = "running"]]
  /\ count' = [count EXCEPT !.runs = @ + 1]
  /\ UNCHANGED <<attempt, exc, due, logVars, boxVars, uiVars, up>>

(* _start swallows a failing recorder: the run goes on without a log.      *)
StartUnlogged ==
  /\ Goto("start", "launch")
  /\ rid' = 0
  /\ count.events < MaxEvents
  /\ count' = [count EXCEPT !.events = @ + 1, !.runs = @ + 1]
  /\ UNCHANGED <<attempt, exc, due, logVars, boxVars, rows, uiVars, up>>

Launch ==
  /\ box = NoBox
  /\ Goto("launch", IF rid = 0 THEN "wait" ELSE "follow")
  /\ box' = [state |-> "running", row |-> rid, code |-> "none"]
  /\ exc' = "none" /\ due' = FALSE /\ lost' = FALSE
  /\ stream' = NoLog
  /\ pump' = IF rid = 0 THEN "off" ELSE "reading"
  /\ UNCHANGED <<attempt, rid, ended, rows, uiVars, procVars>>

(* The name is taken by a leftover container, or Docker fails (and may     *)
(* have created the container already): the exception leaves run_container *)
(* before its try, and run does not catch it.                              *)
LaunchFails ==
  /\ Goto("launch", "idle")
  /\ \/ box # NoBox /\ UNCHANGED <<box, count>>
     \/ box = NoBox /\ Event
        /\ box' \in {NoBox, [state |-> "exited", row |-> rid, code |-> "bad"]}
  /\ UNCHANGED <<attempt, rid, exc, due, logVars, ended, rows, uiVars, up>>
-----------------------------------------------------------------------------
(* _follow_stdout.                                                         *)
TakeChunk ==
  /\ pc = "follow" /\ ~due
  /\ stream.taken < stream.read
  /\ stream' = [stream EXCEPT !.taken = @ + 1]
  /\ UNCHANGED <<runVars, pump, lost, boxVars, rows, uiVars, procVars>>

(* flush: everything pending goes to the row in one append; an append that *)
(* raises is swallowed and its chunks are gone.  In the loop it happens    *)
(* when the interval has passed, and once more on the way out.             *)
Flush(ok) ==
  /\ pc \in {"follow", "drain"}
  /\ stream.flushed < stream.taken
  /\ stream' = [stream EXCEPT !.flushed = stream.taken]
  /\ IF ok
     THEN /\ Edit(rid, Appended(rows[rid],
                       SubSeq(Chunks(stream.taken), stream.flushed + 1, stream.taken)))
          /\ UNCHANGED <<lost, count>>
     ELSE /\ Event
          /\ lost' = TRUE
          /\ UNCHANGED rows
  /\ UNCHANGED <<runVars, pump, boxVars, uiVars, up>>

(* wait_for with no time left cancels the get: queued chunks, and a queued *)
(* end of stream, are not looked at.                                       *)
Expire ==
  /\ due
  /\ Goto("follow", "drain")
  /\ exc' = "timeout"
  /\ UNCHANGED <<attempt, rid, due, logVars, boxVars, rows, uiVars, procVars>>

SeeEnd ==
  /\ ~due /\ pump \in {"ended", "broken"} /\ stream.taken = stream.read
  /\ Goto("follow", "drain")
  /\ UNCHANGED <<attempt, rid, exc, due, logVars, boxVars, rows, uiVars, procVars>>

(* Mutants of Drained: the pump is awaited, or the container removed,      *)
(* without the kill.                                                       *)
DrainedUnkilled ==
  /\ stream.flushed = stream.taken
  /\ Goto("drain", "join")
  /\ UNCHANGED <<attempt, rid, exc, due, logVars, boxVars, rows, uiVars, procVars>>

DrainedToRemoval ==
  /\ stream.flushed = stream.taken
  /\ Goto("drain", IF exc = "timeout" THEN "remove" ELSE "join")
  /\ UNCHANGED <<attempt, rid, exc, due, logVars, boxVars, rows, uiVars, procVars>>

Drained ==
  /\ stream.flushed = stream.taken
  /\ Goto("drain", IF exc = "timeout" THEN "kill" ELSE "join")
  /\ UNCHANGED <<attempt, rid, exc, due, logVars, boxVars, rows, uiVars, procVars>>

(* The container ends.                                                     *)
Exit(code) ==
  /\ box' = [box EXCEPT !.state = "exited", !.code = code]
  /\ ended' = IF box.row = 0 THEN ended ELSE [ended EXCEPT ![box.row] = code]

(* A kill of a container that has exited meanwhile raises an APIError, not *)
(* a ContainerTimeout.                                                     *)
KillLate ==
  /\ IF box.state = "running"
     THEN /\ Goto("kill", IF rid = 0 THEN "remove" ELSE "join")
          /\ Exit("bad") /\ exc' = exc
     ELSE /\ Goto("kill", "remove")
          /\ exc' = "other" /\ UNCHANGED boxVars
  /\ UNCHANGED <<attempt, rid, due, logVars, rows, uiVars, procVars>>

(* await pump: returns once the stream ended, and raises what the pump     *)
(* raised; a follow that ended in time then reads the exit code.           *)
Join ==
  /\ pump \in {"ended", "broken", "mute"}
  /\ Goto("join", IF pump # "ended" \/ exc = "timeout" THEN "remove" ELSE "code")
  /\ exc' = IF pump # "ended" THEN "other" ELSE exc
  /\ UNCHANGED <<attempt, rid, due, logVars, boxVars, rows, uiVars, procVars>>

(* The dispatch without a row waits for the container instead.             *)
WaitTimesOut ==
  /\ due
  /\ Goto("wait", "kill")
  /\ exc' = "timeout"
  /\ UNCHANGED <<attempt, rid, due, logVars, boxVars, rows, uiVars, procVars>>

(* Mutant of ReadExitCode: a non-zero code is not an error.                *)
IgnoreExitCode ==
  /\ pc \in {"wait", "code"}
  /\ box.state = "exited"
  /\ pc' = "remove"
  /\ exc' = "none"
  /\ UNCHANGED <<attempt, rid, due, logVars, boxVars, rows, uiVars, procVars>>

ReadExitCode ==
  /\ pc \in {"wait", "code"}
  /\ box.state = "exited"
  /\ pc' = "remove"
  /\ exc' = IF box.code = "ok" THEN "none" ELSE "failed"
  /\ UNCHANGED <<attempt, rid, due, logVars, boxVars, rows, uiVars, procVars>>

(* container.wait, kill or logs raises: run_container's finally, and out.  *)
DockerFails ==
  /\ pc \in {"wait", "code", "kill"}
  /\ Event
  /\ pc' = "remove"
  /\ exc' = "other"
  /\ UNCHANGED <<attempt, rid, due, logVars, boxVars, rows, uiVars, up>>

(* run_container's finally, best effort; run finishes the row only of what *)
(* returned, failed or timed out.                                          *)
Remove(ok) ==
  /\ Goto("remove", IF exc = "other" THEN "idle" ELSE "finish")
  /\ IF ok THEN box' = NoBox /\ UNCHANGED count ELSE box' = box /\ Event
  /\ UNCHANGED <<attempt, rid, exc, due, logVars, ended, rows, uiVars, up>>

(* finish_run.  What failed is appended first: stderr, or when that is     *)
(* empty the stdout the log holds already; for a timeout its message.      *)
FailureTexts == IF exc = "timeout" \/ rid = 0 THEN {<<Errors>>}
                ELSE {<<Errors>>, Chunks(stream.taken)}

(* Mutant of Close: ok itself is written as the status.                    *)
CloseWithOk(row, text) ==
  IF exc = "none" THEN [row EXCEPT !.status = "ok"]
  ELSE [Appended(row, text) EXCEPT !.status = "failed"]

Close(row, text) ==
  IF exc = "none" THEN [row EXCEPT !.status = "done"]
  ELSE [Appended(row, text) EXCEPT !.status = "failed"]

Finish(ok) ==
  /\ Goto("finish", IF exc = "none" THEN "parse" ELSE "idle")
  /\ IF ok THEN /\ \E text \in FailureTexts :
                     Edit(rid, Close(IF rid = 0 THEN NoRow ELSE rows[rid], text))
                /\ UNCHANGED count
     ELSE rid # 0 /\ rows' = rows /\ Event
  /\ UNCHANGED <<attempt, rid, exc, due, logVars, boxVars, uiVars, up>>

(* parse_envelope raises at once; a contract that does not parse is asked  *)
(* for once more in the same session, and raises the second time.          *)
Parse ==
  /\ pc = "parse"
  /\ \/ pc' = "idle" /\ attempt' = attempt
     \/ attempt = 1 /\ count.runs < MaxRuns /\ pc' = "start" /\ attempt' = 2
  /\ UNCHANGED <<rid, exc, due, logVars, boxVars, rows, uiVars, procVars>>
-----------------------------------------------------------------------------
(* The agent, the clock and the pump thread.  Only what is followed is     *)
(* counted.                                                                *)
AgentPrints ==
  /\ box.state = "running" /\ pump = "reading"
  /\ stream.printed < MaxChunks
  /\ stream' = [stream EXCEPT !.printed = @ + 1]
  /\ UNCHANGED <<runVars, pump, lost, boxVars, rows, uiVars, procVars>>

AgentExits(code) ==
  /\ box.state = "running"
  /\ Exit(code)
  /\ UNCHANGED <<runVars, logVars, rows, uiVars, procVars>>

Deadline ==
  /\ TimeoutSet /\ ~due
  /\ pc \in {"follow", "wait"}
  /\ due' = TRUE
  /\ UNCHANGED <<pc, attempt, rid, exc, logVars, boxVars, rows, uiVars, procVars>>

PumpReads ==
  /\ pump = "reading" /\ stream.read < stream.printed
  /\ stream' = [stream EXCEPT !.read = @ + 1]
  /\ UNCHANGED <<runVars, pump, lost, boxVars, rows, uiVars, procVars>>

PumpEnds ==
  /\ pump = "reading" /\ box.state # "running" /\ stream.read = stream.printed
  /\ pump' = "ended"
  /\ UNCHANGED <<runVars, stream, lost, boxVars, rows, uiVars, procVars>>

(* container.logs raises: in the middle, or at the call, where nobody puts *)
(* the end of the stream into the queue and only the deadline ends the     *)
(* follow.                                                                 *)
PumpBreaks ==
  /\ pump = "reading" /\ Event
  /\ \/ pump' = "broken"
     \/ stream.read = 0 /\ pump' = "mute"
  /\ UNCHANGED <<runVars, stream, lost, boxVars, rows, uiVars, up>>
-----------------------------------------------------------------------------
(* The console.  _stop_job and _delete_job kill the containers of the      *)
(* ticket; _delete_job then deletes the job's rows.                        *)
KillContainers ==
  IF box.state = "running" THEN Exit("bad") ELSE UNCHANGED boxVars

StopJob ==
  /\ up /\ Event
  /\ KillContainers
  /\ UNCHANGED <<runVars, logVars, rows, uiVars, up>>

DeleteJob ==
  /\ up /\ ~deleting /\ Event
  /\ KillContainers
  /\ deleting' = TRUE
  /\ UNCHANGED <<runVars, logVars, rows, shown, up>>

DeleteRows ==
  /\ deleting
  /\ deleting' = FALSE
  /\ rows' = [r \in RunIds |-> NoRow]
  /\ UNCHANGED <<runVars, logVars, boxVars, shown, procVars>>

(* Mutant of Signature: the length alone.                                  *)
SignatureOfLengths(table) == [r \in RunIds |-> Len(table[r].out)]

(* _show_logs.refresh: rebuild the dialog only when the signature of the   *)
(* rows, made of their status and the length of their output, changed.     *)
Signature(table) ==
  [r \in RunIds |-> <<table[r].status, Len(table[r].out)>>]

Refresh ==
  /\ up
  /\ shown' = IF Signature(rows) = Signature(shown) THEN shown ELSE rows
  /\ UNCHANGED <<runVars, logVars, boxVars, rows, deleting, procVars>>

(* The lifespan cancels the worker: the follow flushes what is pending and *)
(* the container is removed, both best effort; a launch under way goes on  *)
(* in its thread.  No row is finished: cancellation is not an Exception.   *)
Shutdown ==
  /\ up /\ Event
  /\ up' = FALSE /\ pc' = "idle" /\ deleting' = FALSE /\ pump' = "off"
  /\ IF pc \in {"follow", "drain"} /\ stream.flushed < stream.taken
     THEN Edit(rid, Appended(rows[rid],
                    SubSeq(Chunks(stream.taken), stream.flushed + 1, stream.taken)))
     ELSE rows' = rows
  /\ box' = IF pc = "launch" /\ box = NoBox
            THEN [state |-> "running", row |-> rid, code |-> "none"]
            ELSE IF pc \in Follows \cup {"wait", "code", "remove"} THEN NoBox
            ELSE box
  /\ UNCHANGED <<attempt, rid, exc, due, stream, lost, ended, shown>>

(* The process dies: the container stays, running or not.                  *)
Crash ==
  /\ up /\ Event
  /\ up' = FALSE /\ pc' = "idle" /\ deleting' = FALSE /\ pump' = "off"
  /\ UNCHANGED <<attempt, rid, exc, due, stream, lost, boxVars, rows, shown>>

Restart ==
  /\ ~up
  /\ up' = TRUE
  /\ UNCHANGED <<runVars, logVars, boxVars, rows, uiVars, count>>
-----------------------------------------------------------------------------
Init ==
  /\ pc = "idle" /\ attempt = 1 /\ rid = 0 /\ exc = "none" /\ due = FALSE
  /\ stream = NoLog /\ pump = "off" /\ lost = FALSE
  /\ box = NoBox /\ ended = [r \in RunIds |-> "none"]
  /\ rows = [r \in RunIds |-> NoRow] /\ shown = rows
  /\ deleting = FALSE /\ up = TRUE
  /\ count = [runs |-> 0, events |-> 0]

Dispatch ==
  \/ StartRow \/ StartUnlogged \/ Launch \/ LaunchFails
  \/ TakeChunk \/ (\E ok \in BOOLEAN : Flush(ok))
  \/ Expire \/ SeeEnd \/ Drained \/ KillLate \/ Join
  \/ WaitTimesOut \/ ReadExitCode \/ DockerFails
  \/ (\E ok \in BOOLEAN : Remove(ok)) \/ (\E ok \in BOOLEAN : Finish(ok))
  \/ Parse

Thread == PumpReads \/ PumpEnds \/ PumpBreaks

Next ==
  \/ Begin \/ Dispatch \/ Thread \/ Deadline
  \/ AgentPrints \/ (\E code \in {"ok", "bad"} : AgentExits(code))
  \/ StopJob \/ DeleteJob \/ DeleteRows \/ Refresh
  \/ Shutdown \/ Crash \/ Restart

(* The event loop runs what is ready, the pump thread reads what there is, *)
(* and time passes.  Nothing makes an agent print or exit.                 *)
Fairness == WF_vars(Dispatch) /\ WF_vars(Thread) /\ WF_vars(Deadline)

Spec == Init /\ [][Next]_vars /\ Fairness
-----------------------------------------------------------------------------
Places == {"idle", "start", "launch", "wait", "code", "remove", "finish",
           "parse"} \cup Follows
Row    == [status : {"none", "running"} \cup Ended, out : Output]

(* Type correctness.                                                       *)
TypeOK ==
  /\ pc \in Places /\ attempt \in {1, 2} /\ rid \in 0 .. MaxRuns
  /\ exc \in {"none", "timeout", "failed", "other"} /\ due \in BOOLEAN
  /\ stream \in [printed : 0 .. MaxChunks, read : 0 .. MaxChunks,
                 taken : 0 .. MaxChunks, flushed : 0 .. MaxChunks]
  /\ pump \in {"off", "reading", "ended", "broken", "mute"} /\ lost \in BOOLEAN
  /\ box \in [state : {"none", "running", "exited"}, row : 0 .. MaxRuns,
              code : {"none", "ok", "bad"}]
  /\ ended \in [RunIds -> {"none", "ok", "bad"}]
  /\ rows \in [RunIds -> Row] /\ shown \in [RunIds -> Row]
  /\ deleting \in BOOLEAN /\ up \in BOOLEAN
  /\ count \in [runs : 0 .. MaxRuns, events : 0 .. MaxEvents]

(* The marker and the last Cap of n chunks.                                *)
TailOf(n) == IF n <= Cap THEN Chunks(n)
             ELSE <<Mark>> \o [i \in 1 .. Cap |-> n - Cap + i]

(* Whatever the batches were, and wherever the deadline fell between them, *)
(* a row holds the stream as far as it was flushed, cut to its tail; when  *)
(* the run returns it holds all the agent printed, the result event the    *)
(* caller parses included (dockerctl._follow_stdout, agent_runs._cap).     *)
LogFollowsStream ==
  rid # 0 /\ ~lost =>
    /\ rows[rid].status = "running" /\ pc \in Follows \cup {"code", "remove", "finish"}
         => rows[rid].out = TailOf(stream.flushed)
    /\ rows[rid].status = "done" /\ pc = "parse"
         => rows[rid].out = TailOf(stream.printed)

(* A row is terminal only once its container has stopped: a timeout kills  *)
(* first, also when the removal then fails (dockerctl.py:135-215).         *)
TerminalAfterContainer ==
  \A r \in RunIds :
    rows[r].status \in Ended => ~(box.state = "running" /\ box.row = r)

(* A row says done only of a container that exited by itself with code 0,  *)
(* whatever races Stop, Delete, the deadline and a restart ran with it     *)
(* (dispatcher.py:107-110).                                                *)
DoneMeansClean ==
  \A r \in RunIds : rows[r].status = "done" => ended[r] = "ok"

(* A finished row is history: a re-prompt, a late batch or a restart never *)
(* writes to it again; only its job's deletion takes it away               *)
(* (agent_runs.finish_run).                                                *)
FinalRow ==
  [][\A r \in RunIds :
       rows[r].status \in Ended => rows'[r] \in {rows[r], NoRow}]_vars

(* The dialog renders again whenever what it shows changed, except while a *)
(* running row is at the cap: there its length stands still                *)
(* (pages._show_logs).                                                     *)
ViewNotStale ==
  Signature(shown) = Signature(rows) =>
    \A r \in RunIds :
      \/ shown[r] = rows[r]
      \/ rows[r].status = "running" /\ Len(rows[r].out) > Cap

(* With a deadline set every dispatch ends, though an agent may hang and   *)
(* nothing bounds its output (dockerctl._follow_stdout).                   *)
DispatchEnds == pc # "idle" ~> pc = "idle"
=============================================================================
