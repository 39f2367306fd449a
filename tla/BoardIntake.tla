------------------------------ MODULE BoardIntake ------------------------------
(***************************************************************************)
(* The Plane half of intake (api/webhooks.py): which webhook deliveries    *)
(* become jobs, and of which kind.  The board is the environment: humans   *)
(* create, drag, edit and label cards; the planner creates cards and the   *)
(* engineer moves them, and both come back as deliveries.  Plane sends one *)
(* delivery per changed field, with a snapshot of the card; deliveries are *)
(* late, reordered, repeated or lost.  A handler decides on a trigger and  *)
(* enqueues it later: the mapping and the label list are read across       *)
(* awaits.  Inside enqueue_job (module JobQueue) one step is enough here.  *)
(***************************************************************************)
EXTENDS Naturals, Sequences

CONSTANTS
  Issues,      (* the cards of one project                                 *)
  EpicSignal,  (* plane_epic_signal: "label" or "parentless"               *)
  MaxSent,     (* deliveries sent (bound)                                  *)
  MaxToggles,  (* switches and deletes at the console (bound)              *)
  MaxFaults    (* repeats, losses and crashes together (bound)             *)

ASSUME BoardAssumption ==
  /\ EpicSignal \in {"label", "parentless"}
  /\ MaxSent \in Nat /\ MaxToggles \in Nat /\ MaxFaults \in Nat

VARIABLES
  card,      (* the board: column, epic label, sub-issue, author           *)
  wire,      (* deliveries Plane still has to deliver                      *)
  handling,  (* requests between their trigger and their enqueue_job       *)
  jobs,      (* the job table: delivery id, card, kind, queued or running  *)
  enabled,   (* ProjectMapping.enabled                                     *)
  mapped,    (* a StateMapping for ready_for_dev exists                    *)
  past,      (* history of a card: entering moves, jobs by kind, jobs      *)
             (* deleted, labelled; since the last entering move, a         *)
             (* delivery was lost or met a closed gate, a job was live     *)
  count      (* how often each bounded event happened                      *)

vars == <<card, wire, handling, jobs, enabled, mapped, past, count>>
-----------------------------------------------------------------------------
Columns == {"backlog", "ready", "in_progress"}
Kinds   == {"planner", "engineer"}
NoCard  == [col |-> "none", label |-> FALSE, child |-> FALSE, by |-> "nobody"]
NoPast  == [entries |-> 0, planner |-> 0, engineer |-> 0, deleted |-> 0,
            label |-> FALSE, missed |-> FALSE, held |-> FALSE]

(* A card has an active (queued or running) job of one of these kinds.      *)
Live(i, kinds) == \E j \in jobs : j.live /\ j.issue = i /\ j.kind \in kinds

(* A delivery: what changed, and the card as it then was.                  *)
Delivery(id, i, action, field, c) ==
  [id |-> id, issue |-> i, action |-> action, field |-> field,
   col |-> c.col, label |-> c.label, child |-> c.child]

(* Plane sends one delivery per changed field and counts them.             *)
Send(i, action, fields, c) ==
  /\ count.sent + Len(fields) <= MaxSent
  /\ count' = [count EXCEPT !.sent = @ + Len(fields)]
  /\ wire' = wire \cup {Delivery(count.sent + k, i, action, fields[k], c) :
                           k \in DOMAIN fields}

Fault  == count.faults < MaxFaults /\ count' = [count EXCEPT !.faults = @ + 1]
Toggle == count.toggles < MaxToggles /\ count' = [count EXCEPT !.toggles = @ + 1]

(* The move into ready_for_dev.                                            *)
Entering(i, c) == c.col = "ready" /\ card[i].col # "ready"

Note(i, c) == past' = [past EXCEPT
  ![i].entries = @ + (IF Entering(i, c) THEN 1 ELSE 0),
  ![i].missed  = @ /\ ~Entering(i, c),
  ![i].held    = IF Entering(i, c) THEN Live(i, Kinds) ELSE @,
  ![i].label   = @ \/ c.label]
-----------------------------------------------------------------------------
(* The board.                                                              *)
Create(i, c) ==
  /\ card[i] = NoCard
  /\ card' = [card EXCEPT ![i] = c]
  /\ Note(i, c)
  /\ Send(i, "created", <<"none">>, c)

CreateCard ==
  /\ \E i \in Issues, col \in {"backlog", "ready"}, l, s \in BOOLEAN :
       /\ EpicSignal = "label" => ~s
       /\ Create(i, [col |-> col, label |-> l, child |-> s, by |-> "human"])
  /\ UNCHANGED <<handling, jobs, enabled, mapped>>

(* _materialize_plan: a planned ticket goes straight to ready_for_dev, with *)
(* neither a label nor a parent.                                           *)
PlanCard ==
  /\ \E e \in Issues : Live(e, {"planner"})
  /\ \E i \in Issues :
       Create(i, [col |-> "ready", label |-> FALSE, child |-> FALSE,
                  by |-> "planner"])
  /\ UNCHANGED <<handling, jobs, enabled, mapped>>

(* A change of a card in `fields`.                                         *)
Change(i, fields, c) ==
  /\ card[i] # NoCard
  /\ card' = [card EXCEPT ![i] = c]
  /\ Note(i, c)
  /\ Send(i, "updated", fields, c)
  /\ UNCHANGED <<handling, jobs, enabled, mapped>>

DragCard == \E i \in Issues, col \in Columns :
  /\ card[i].col # col
  /\ Change(i, <<"state_id", "sort_order">>, [card[i] EXCEPT !.col = col])

(* An edit that leaves the column; the label stands for the other fields.  *)
LabelCard == \E i \in Issues :
  Change(i, <<"labels">>, [card[i] EXCEPT !.label = ~@])

(* _build moves the card of its job.                                       *)
EngineerMoves == \E i \in Issues :
  /\ Live(i, {"engineer"}) /\ card[i].col # "in_progress"
  /\ Change(i, <<"state_id">>, [card[i] EXCEPT !.col = "in_progress"])
-----------------------------------------------------------------------------
(* plane_webhook.                                                          *)
(* Mutant of IsEpic: the parent decides, whatever the setting.             *)
IsEpicByParent(d) == ~d.child

IsEpic(d) == IF EpicSignal = "parentless" THEN ~d.child ELSE d.label

(* Mutant of EnteredState: the column decides, not the field that changed. *)
InState(d) == d.col = "ready"

EnteredState(d) == d.col = "ready" /\ (d.field = "state_id" \/ d.action = "created")

Trigger(d) == IF IsEpic(d) THEN "planner"
              ELSE IF mapped /\ EnteredState(d) THEN "engineer" ELSE "none"

(* Every request for a delivery: Plane may send it again afterwards.       *)
Receive(d) ==
  /\ d \in wire
  /\ \/ wire' = wire \ {d} /\ UNCHANGED count
     \/ Fault /\ UNCHANGED wire
  /\ handling' = IF enabled /\ Trigger(d) # "none"
                 THEN handling \cup {[d |-> d, kind |-> Trigger(d)]}
                 ELSE handling
  /\ past' = [past EXCEPT ![d.issue].missed = @ \/ ~enabled \/ ~mapped]
  /\ UNCHANGED <<card, jobs, enabled, mapped>>

(* Mutant of Duplicate: a finished job counts as well.                     *)
AnyStatus(j, i) == j.issue = i

(* An active job with the dedupe key of i, <project>:<issue>.              *)
Duplicate(j, i) == j.issue = i /\ j.live

(* Mutant of DeliveryId: the issue is taken for the delivery.              *)
IdOfIssue(d) == d.issue

DeliveryId(d) == d.id

Enqueue(h) ==
  LET i == h.d.issue IN
  /\ h \in handling
  /\ handling' = handling \ {h}
  /\ IF \E j \in jobs : Duplicate(j, i) \/ j.id = DeliveryId(h.d)
     THEN UNCHANGED <<jobs, past>>
     ELSE /\ jobs' = jobs \cup {[id |-> DeliveryId(h.d), issue |-> i,
                                 kind |-> h.kind, live |-> TRUE]}
          /\ past' = [past EXCEPT ![i] = [past[i] EXCEPT ![h.kind] = @ + 1, !.held = TRUE]]
  /\ UNCHANGED <<card, wire, enabled, mapped, count>>

(* The worker completes the job, or the console stops it: the row stays.    *)
EndJob ==
  /\ \E j \in jobs : /\ j.live
                     /\ jobs' = (jobs \ {j}) \cup {[j EXCEPT !.live = FALSE]}
  /\ UNCHANGED <<card, wire, handling, enabled, mapped, past, count>>

(* The console's Delete takes the row with its delivery id.                *)
DeleteJob ==
  /\ Toggle
  /\ \E j \in jobs : /\ jobs' = jobs \ {j}
                     /\ past' = [past EXCEPT ![j.issue].deleted = @ + 1]
  /\ UNCHANGED <<card, wire, handling, enabled, mapped>>
-----------------------------------------------------------------------------
(* The console's switches: the project checkbox and the state mapping.     *)
SwitchProject ==
  /\ Toggle /\ enabled' = ~enabled
  /\ UNCHANGED <<card, wire, handling, jobs, mapped, past>>

SwitchMapping ==
  /\ Toggle /\ mapped' = ~mapped
  /\ UNCHANGED <<card, wire, handling, jobs, enabled, past>>

(* Plane gives up on a delivery.                                           *)
Lose ==
  /\ Fault
  /\ \E d \in wire : /\ wire' = wire \ {d}
                     /\ past' = [past EXCEPT ![d.issue].missed = TRUE]
  /\ UNCHANGED <<card, handling, jobs, enabled, mapped>>

(* The process dies under its requests: Plane has no answer and sends them  *)
(* again.  Jobs are in the database.                                       *)
Crash ==
  /\ Fault /\ handling # {}
  /\ wire' = wire \cup {h.d : h \in handling}
  /\ handling' = {}
  /\ UNCHANGED <<card, jobs, enabled, mapped, past>>

Init ==
  /\ card = [i \in Issues |-> NoCard]
  /\ wire = {} /\ handling = {}
  /\ jobs = {}
  /\ enabled = TRUE /\ mapped = TRUE
  /\ past = [i \in Issues |-> NoPast]
  /\ count = [sent |-> 0, toggles |-> 0, faults |-> 0]

Next ==
  \/ CreateCard \/ PlanCard \/ DragCard \/ LabelCard
  \/ EngineerMoves \/ EndJob \/ DeleteJob \/ SwitchProject \/ SwitchMapping
  \/ Lose \/ Crash
  \/ \E d \in wire : Receive(d)
  \/ \E h \in handling : Enqueue(h)

Spec == Init /\ [][Next]_vars
-----------------------------------------------------------------------------
Deliveries ==
  [id : 1 .. MaxSent, issue : Issues, action : {"created", "updated"},
   field : {"none", "state_id", "sort_order", "labels"},
   col : Columns, label : BOOLEAN, child : BOOLEAN]

Rows == [id : 1 .. MaxSent, issue : Issues, kind : Kinds, live : BOOLEAN]

(* Every variable has its type; a delivery and a request keep their shape, *)
(* and jobs.delivery_id holds ids of deliveries (webhooks.py, models.py).  *)
TypeOK ==
  /\ card \in [Issues -> [col : Columns \cup {"none"}, label : BOOLEAN,
                 child : BOOLEAN, by : {"human", "planner", "nobody"}]]
  /\ wire \subseteq Deliveries
  /\ handling \subseteq [d : Deliveries, kind : Kinds]
  /\ jobs \subseteq Rows
  /\ enabled \in BOOLEAN /\ mapped \in BOOLEAN
  /\ past \in [Issues -> [entries : Nat, planner : Nat, engineer : Nat,
                          deleted : Nat, label : BOOLEAN,
                          missed : BOOLEAN, held : BOOLEAN]]
  /\ count \in [sent : 0 .. MaxSent, toggles : 0 .. MaxToggles,
                faults : 0 .. MaxFaults]

(* However a card's deliveries are delayed, reordered or repeated, and      *)
(* whatever else is edited on it or moved by the conductor itself, it is    *)
(* built at most once per move into ready_for_dev; only a Delete of one of  *)
(* its jobs, which takes the delivery id with the row, may let a repeat of  *)
(* the delivery build it once more (_entered_state, the unique delivery id *)
(* of enqueue_job, delete_job).                                            *)
OneBuildPerEntry ==
  \A i \in Issues : past[i].engineer <= past[i].entries + past[i].deleted

(* Every move into ready_for_dev finds or makes a job: once the card's     *)
(* deliveries are all dealt with, a job of its own has been queued or      *)
(* running at the last such move or since, unless a delivery was lost or   *)
(* met a disabled project or a missing state mapping.  Dedupe never lets   *)
(* another card's job, or a finished job of an earlier move, swallow the   *)
(* trigger (plane_webhook, enqueue_job).                                   *)
EnteredHadJob ==
  \A i \in Issues :
    /\ past[i].entries > 0 /\ ~past[i].missed
    /\ \A d \in wire : d.issue # i
    /\ \A h \in handling : h.d.issue # i
    => past[i].held

(* A ticket the planner has created is never planned as an epic itself      *)
(* (scheduler.py:300: "dropped into ready_for_dev so the webhook fires an   *)
(* engineer job"), until a human labels it.                                *)
PlannedIsBuilt ==
  \A i \in Issues :
    card[i].by = "planner" /\ ~past[i].label => past[i].planner = 0
=============================================================================
