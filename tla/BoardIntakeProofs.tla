------------------------- MODULE BoardIntakeProofs -------------------------
(***************************************************************************)
(* Proofs about BoardIntake for any cards and any bounds, with either epic *)
(* signal, except where a theorem names it.                                *)
(*                                                                         *)
(* The argument follows a delivery from the board to its job. `Pending`    *)
(* are the deliveries still on the wire or in a request, `Fresh` the       *)
(* entering ones of a card whose id is in no row of the job table.         *)
(* OneBuildPerEntry holds because each entering move sends one entering    *)
(* delivery, a build uses up the one it is made from, and a deleted row    *)
(* frees at most one: the builds of a card and its fresh deliveries are    *)
(* never more than its entries and deletes (Budget). EnteredHadJob holds   *)
(* because the delivery of the last entering move stays fresh until it is  *)
(* lost, meets a closed gate or makes the job; a live job of the card      *)
(* refuses it, and an id that is stored is not of a fresh delivery, as ids *)
(* are unique (JobInv, IdInv).                                             *)
(***************************************************************************)
EXTENDS BoardIntake, FiniteSetTheorems, TLAPS

(* A card, and what history knows of it.                                   *)
Cards == [col : Columns \cup {"none"}, label : BOOLEAN, child : BOOLEAN,
          by : {"human", "planner", "nobody"}]
Pasts == [entries : Nat, planner : Nat, engineer : Nat, deleted : Nat,
          label : BOOLEAN, missed : BOOLEAN, held : BOOLEAN]
(* The fields of one change.                                               *)
Changed == {<<"none">>, <<"state_id">>, <<"sort_order">>, <<"labels">>,
            <<"state_id", "sort_order">>}

(* The deliveries that may still make a job,                               *)
Pending  == wire \cup {h.d : h \in handling}
(* the ids that dedupe them,                                               *)
Ids      == {j.id : j \in jobs}
(* and those of a card that may still build it.                            *)
Fresh(i) == {d \in Pending : d.issue = i /\ EnteredState(d) /\ d.id \notin Ids}

(* The types; a card that is there has a column.                           *)
TypeInv ==
  /\ TypeOK
  /\ \A i \in Issues : card[i] = NoCard \/ card[i].col \in Columns

(* Ids are counted, are of one delivery each, and of one card.             *)
IdInv ==
  /\ \A d \in Pending : d.id \in 1 .. count.sent
  /\ \A j \in jobs : j.id \in 1 .. count.sent
  /\ \A d, e \in Pending : d.id = e.id => d = e
  /\ \A d \in Pending, j \in jobs : d.id = j.id => d.issue = j.issue

(* Who planned or will plan a card has seen its label; with the signal     *)
(* "label".                                                                *)
LabelInv ==
  /\ \A d \in Pending : d.label => past[d.issue].label
  /\ \A i \in Issues : card[i].label => past[i].label
  /\ \A h \in handling : h.kind = "planner" => past[h.d.issue].label
  /\ \A i \in Issues : past[i].planner > 0 => past[i].label

(* A card is built, and can still be built, no more often than it entered  *)
(* or lost a row.                                                          *)
Allowed(i) == past[i].entries + past[i].deleted
Budget(i) ==
  /\ IsFiniteSet(Fresh(i))
  /\ past[i].engineer + Cardinality(Fresh(i)) <= Allowed(i)

(* Only an entering delivery builds.                                       *)
BuildInv ==
  /\ \A h \in handling : h.kind = "engineer" => EnteredState(h.d)
  /\ \A i \in Issues : Budget(i)

(* A live job is known to history, and a card that entered and has had no  *)
(* live job since has a fresh delivery, unless one was missed.             *)
JobInv ==
  /\ \A j \in jobs : j.live => past[j.issue].held
  /\ \A i \in Issues :
       past[i].entries > 0 /\ ~past[i].missed /\ ~past[i].held => Fresh(i) # {}

(* What the steps of the board have in common: one card changes, and an    *)
(* entering delivery is sent exactly if the card enters.                   *)
BoardMove(i, action, fields, c) ==
  /\ card' = [card EXCEPT ![i] = c] /\ Note(i, c) /\ Send(i, action, fields, c)
  /\ UNCHANGED <<handling, jobs, enabled, mapped>>
  /\ c.col \in Columns
  /\ Entering(i, c) <=> c.col = "ready" /\ (action = "created" \/ fields[1] = "state_id")
  /\ action = "created" => Len(fields) = 1
-----------------------------------------------------------------------------
(* The steps of the board are such moves.                                  *)
LEMMA BoardMoves ==
  ASSUME TypeInv,
         \/ CreateCard \/ PlanCard \/ DragCard \/ LabelCard \/ EngineerMoves
  PROVE  \E i \in Issues, action \in {"created", "updated"}, fields \in Changed, c \in Cards :
           BoardMove(i, action, fields, c)
<1>1. ASSUME NEW i \in Issues, NEW c \in Cards, Create(i, c), c.col \in Columns,
             UNCHANGED <<handling, jobs, enabled, mapped>>
      PROVE  BoardMove(i, "created", <<"none">>, c)
  BY <1>1 DEF Create, BoardMove, Entering, NoCard
<1>2. ASSUME NEW i \in Issues, NEW fields \in Changed,
             NEW c \in Cards, c.col \in Columns,
             Change(i, fields, c),
             Entering(i, c) <=> c.col = "ready" /\ fields[1] = "state_id"
      PROVE  BoardMove(i, "updated", fields, c)
  BY <1>2 DEF Change, BoardMove
<1>3. \A i \in Issues : card[i] \in Cards /\ (card[i] # NoCard => card[i].col \in Columns)
  BY DEF TypeInv, TypeOK, Cards
<1>4. CASE CreateCard
  <2>1. PICK i \in Issues, col \in {"backlog", "ready"}, l \in BOOLEAN, s \in BOOLEAN :
          Create(i, [col |-> col, label |-> l, child |-> s, by |-> "human"])
    BY <1>4 DEF CreateCard
  <2> DEFINE c == [col |-> col, label |-> l, child |-> s, by |-> "human"]
  <2>2. c \in Cards /\ c.col \in Columns
    BY DEF Cards, Columns
  <2>3. Create(i, c) /\ UNCHANGED <<handling, jobs, enabled, mapped>>
    BY <1>4, <2>1 DEF CreateCard
  <2> HIDE DEF c
  <2> QED
    BY <1>1, <2>2, <2>3 DEF Changed
<1>5. CASE PlanCard
  <2> DEFINE c == [col |-> "ready", label |-> FALSE, child |-> FALSE, by |-> "planner"]
  <2>1. PICK i \in Issues : Create(i, c)
    BY <1>5 DEF PlanCard
  <2>2. c \in Cards /\ c.col \in Columns
    BY DEF Cards, Columns
  <2>3. UNCHANGED <<handling, jobs, enabled, mapped>>
    BY <1>5 DEF PlanCard
  <2> HIDE DEF c
  <2> QED
    BY <1>1, <2>1, <2>2, <2>3 DEF Changed
<1>6. CASE DragCard
  <2>1. PICK i \in Issues, col \in Columns :
          /\ card[i].col # col
          /\ Change(i, <<"state_id", "sort_order">>, [card[i] EXCEPT !.col = col])
    BY <1>6 DEF DragCard
  <2> DEFINE c == [card[i] EXCEPT !.col = col]
             f == <<"state_id", "sort_order">>
  <2>2. c \in Cards /\ c.col = col
    BY <1>3 DEF Cards
  <2>3. f \in Changed /\ f[1] = "state_id"
    BY DEF Changed
  <2>4. Change(i, f, c)
    BY <2>1
  <2> HIDE DEF c, f
  <2> QED
    BY <1>2, <2>1, <2>2, <2>3, <2>4 DEF Entering
<1>8. CASE LabelCard
  <2>1. PICK i \in Issues : Change(i, <<"labels">>, [card[i] EXCEPT !.label = ~@])
    BY <1>8 DEF LabelCard
  <2> DEFINE c == [card[i] EXCEPT !.label = ~@]
             f == <<"labels">>
  <2>2. c \in Cards /\ c.col = card[i].col
    BY <1>3 DEF Cards
  <2>3. f \in Changed /\ f[1] # "state_id"
    BY DEF Changed
  <2>4. card[i] # NoCard /\ Change(i, f, c)
    BY <2>1 DEF Change
  <2> HIDE DEF c, f
  <2> QED
    BY <1>2, <1>3, <2>2, <2>3, <2>4 DEF Entering
<1>9. CASE EngineerMoves
  <2>1. PICK i \in Issues : Change(i, <<"state_id">>, [card[i] EXCEPT !.col = "in_progress"])
    BY <1>9 DEF EngineerMoves
  <2> DEFINE c == [card[i] EXCEPT !.col = "in_progress"]
             f == <<"state_id">>
  <2>2. c \in Cards /\ c.col = "in_progress" /\ c.col \in Columns
    BY <1>3 DEF Cards, Columns
  <2>3. f \in Changed
    BY DEF Changed
  <2>4. Change(i, f, c)
    BY <2>1
  <2> HIDE DEF c, f
  <2> QED
    BY <1>2, <2>2, <2>3, <2>4 DEF Entering
<1> QED
  BY <1>4, <1>5, <1>6, <1>8, <1>9

(* A move counts an entry of its card, and remembers its label; an entry   *)
(* starts what history knows of the last one anew.                         *)
LEMMA NoteEffect ==
  ASSUME TypeInv, NEW i \in Issues, NEW c \in Cards, Note(i, c)
  PROVE  /\ past' \in [Issues -> Pasts]
         /\ past'[i].entries = past[i].entries + (IF Entering(i, c) THEN 1 ELSE 0)
         /\ past'[i].label = (past[i].label \/ c.label)
         /\ past'[i].missed = (past[i].missed /\ ~Entering(i, c))
         /\ past'[i].held = (IF Entering(i, c) THEN Live(i, Kinds) ELSE past[i].held)
         /\ past'[i].planner = past[i].planner
         /\ past'[i].engineer = past[i].engineer
         /\ past'[i].deleted = past[i].deleted
         /\ \A j \in Issues : j # i => past'[j] = past[j]
<1> DEFINE n == past[i].entries + (IF Entering(i, c) THEN 1 ELSE 0)
           m == past[i].missed /\ ~Entering(i, c)
           h == IF Entering(i, c) THEN Live(i, Kinds) ELSE past[i].held
           l == past[i].label \/ c.label
           p == [past[i] EXCEPT !.entries = n, !.missed = m, !.held = h, !.label = l]
<1>1. past \in [Issues -> Pasts] /\ past[i] \in Pasts
  BY DEF TypeInv, TypeOK, Pasts
<1>2. n \in Nat
  BY <1>1 DEF Pasts
<1>3. l \in BOOLEAN /\ m \in BOOLEAN
  BY <1>1 DEF Pasts, Cards
<1>4. h \in BOOLEAN
  <2>1. past[i].held \in BOOLEAN
    BY <1>1 DEF Pasts
  <2>2. Live(i, Kinds) \in BOOLEAN
    BY DEF Live
  <2> QED
    BY <2>1, <2>2
<1>5. past' = [past EXCEPT ![i] = p]
  BY <1>1 DEF Note, Pasts
<1> HIDE DEF n, m, h, l
<1>6. p \in Pasts
  BY <1>1, <1>2, <1>3, <1>4 DEF Pasts
<1>7. past' \in [Issues -> Pasts] /\ past'[i] = p
      /\ \A j \in Issues : j # i => past'[j] = past[j]
  BY <1>1, <1>5, <1>6
<1>8. /\ p.entries = n /\ p.label = l /\ p.missed = m /\ p.held = h
      /\ p.planner = past[i].planner /\ p.engineer = past[i].engineer
      /\ p.deleted = past[i].deleted
  BY <1>1 DEF Pasts
<1> QED
  BY <1>7, <1>8 DEF n, m, h, l

(* A move sends its fields under new ids, at most the first as state_id.   *)
LEMMA SendEffect ==
  ASSUME TypeInv, NEW i \in Issues, NEW action \in {"created", "updated"},
         NEW fields \in Changed, NEW c \in Cards, c.col \in Columns,
         Send(i, action, fields, c)
  PROVE  /\ wire' \subseteq Deliveries
         /\ count' \in [sent : 0 .. MaxSent, toggles : 0 .. MaxToggles,
                        faults : 0 .. MaxFaults]
         /\ count'.sent \in Nat /\ count.sent \in Nat /\ count.sent <= count'.sent
         /\ wire \subseteq wire'
         /\ Delivery(count.sent + 1, i, action, fields[1], c) \in wire'
         /\ \A d \in wire' \ wire :
              /\ d.issue = i /\ d.label = c.label /\ d.col = c.col
              /\ d.action = action
              /\ d.id \in count.sent + 1 .. count'.sent
              /\ d.field = "state_id" => d = Delivery(count.sent + 1, i, action, fields[1], c)
              /\ Len(fields) = 1 => d = Delivery(count.sent + 1, i, action, fields[1], c)
         /\ \A d, e \in wire' \ wire : d.id = e.id => d = e
<1> DEFINE n == count.sent
           del(k) == Delivery(n + k, i, action, fields[k], c)
<1>1. /\ Len(fields) \in {1, 2} /\ DOMAIN fields = 1 .. Len(fields)
      /\ \A k \in 1 .. Len(fields) :
           /\ fields[k] \in {"none", "state_id", "sort_order", "labels"}
           /\ k # 1 => fields[k] # "state_id"
  BY DEF Changed
<1>2. /\ n + Len(fields) <= MaxSent
      /\ count' = [count EXCEPT !.sent = n + Len(fields)]
      /\ wire' = wire \cup {del(k) : k \in 1 .. Len(fields)}
  BY <1>1 DEF Send
<1>3. count \in [sent : 0 .. MaxSent, toggles : 0 .. MaxToggles, faults : 0 .. MaxFaults]
      /\ wire \subseteq Deliveries /\ MaxSent \in Nat
  BY BoardAssumption DEF BoardAssumption, TypeInv, TypeOK
<1>4. n \in Nat /\ count'.sent = n + Len(fields) /\ n + Len(fields) \in 0 .. MaxSent
  BY <1>1, <1>2, <1>3
<1>5. ASSUME NEW k \in 1 .. Len(fields)
      PROVE  /\ del(k) \in Deliveries
             /\ del(k).issue = i /\ del(k).label = c.label /\ del(k).col = c.col
             /\ del(k).action = action /\ del(k).id = n + k
             /\ del(k).field = fields[k]
  <2>1. n + k \in 1 .. MaxSent
    BY <1>1, <1>3, <1>4
  <2> QED
    BY <1>1, <2>1 DEF Delivery, Deliveries, Cards
<1> HIDE DEF del
<1>6. \A d \in wire' \ wire : \E k \in 1 .. Len(fields) : d = del(k)
  BY <1>2
<1>7. del(1) \in wire' /\ del(1) = Delivery(n + 1, i, action, fields[1], c)
  BY <1>1, <1>2 DEF del
<1>8. wire' \subseteq Deliveries /\ wire \subseteq wire'
  BY <1>2, <1>3, <1>5
<1>9. count' \in [sent : 0 .. MaxSent, toggles : 0 .. MaxToggles, faults : 0 .. MaxFaults]
  BY <1>2, <1>3, <1>4
<1>10. n <= count'.sent /\ count'.sent \in Nat
  BY <1>1, <1>4
<1>11. ASSUME NEW d \in wire' \ wire
       PROVE  /\ d.issue = i /\ d.label = c.label /\ d.col = c.col
              /\ d.action = action
              /\ d.id \in n + 1 .. count'.sent
              /\ d.field = "state_id" => d = del(1)
              /\ Len(fields) = 1 => d = del(1)
  <2>1. PICK k \in 1 .. Len(fields) : d = del(k)
    BY <1>6
  <2>2. n + k \in n + 1 .. count'.sent
    BY <1>1, <1>4
  <2> QED
    BY <1>1, <1>5, <2>1, <2>2
<1>12. ASSUME NEW d \in wire' \ wire, NEW e \in wire' \ wire, d.id = e.id
       PROVE  d = e
  <2>1. PICK k \in 1 .. Len(fields) : d = del(k)
    BY <1>6
  <2>2. PICK l \in 1 .. Len(fields) : e = del(l)
    BY <1>6
  <2>3. n + k = n + l
    BY <1>5, <1>12, <2>1, <2>2
  <2>4. k = l
    BY <1>1, <1>4, <2>3
  <2> QED
    BY <2>1, <2>2, <2>4
<1> QED
  BY <1>4, <1>7, <1>8, <1>9, <1>10, <1>11, <1>12

(* The parts of the state are well formed.                                 *)
LEMMA TypesAre ==
  ASSUME TypeInv
  PROVE  /\ past \in [Issues -> Pasts] /\ card \in [Issues -> Cards]
         /\ \A d \in Pending : d \in Deliveries /\ d.issue \in Issues
         /\ \A h \in handling : /\ h.d \in Pending /\ h.kind \in Kinds
                                /\ h = [d |-> h.d, kind |-> h.kind]
         /\ wire \subseteq Pending
         /\ \A j \in jobs : j \in Rows /\ j.issue \in Issues /\ j.kind \in Kinds
  BY DEF TypeInv, TypeOK, Pasts, Cards, Pending, Deliveries, Rows

(* History counts nothing new of a card.                                   *)
SameCounts(i) ==
  /\ past'[i].entries = past[i].entries /\ past'[i].deleted = past[i].deleted
  /\ past'[i].planner = past[i].planner /\ past'[i].engineer = past[i].engineer
  /\ past'[i].label = past[i].label

(* To mark a card as missed changes nothing else of history.               *)
LEMMA MissedEffect ==
  ASSUME TypeInv, NEW i \in Issues, NEW x \in BOOLEAN,
         past' = [past EXCEPT ![i].missed = x]
  PROVE  /\ past' \in [Issues -> Pasts] /\ past'[i].missed = x
         /\ \A j \in Issues :
              /\ SameCounts(j) /\ past'[j].held = past[j].held
              /\ j # i => past'[j].missed = past[j].missed
<1>1. past \in [Issues -> Pasts] /\ past[i] \in Pasts
  BY TypesAre
<1>2. [past[i] EXCEPT !.missed = x] \in Pasts
  BY <1>1 DEF Pasts
<1>3. /\ past' \in [Issues -> Pasts] /\ past'[i] = [past[i] EXCEPT !.missed = x]
      /\ \A j \in Issues : j # i => past'[j] = past[j]
  BY <1>1, <1>2
<1> QED
  BY <1>1, <1>3 DEF Pasts, SameCounts

(* A request takes its delivery off the wire or leaves it there, and asks  *)
(* for a job if a trigger fires.                                           *)
LEMMA ReceiveEffect ==
  ASSUME TypeInv, NEW d \in wire, Receive(d)
  PROVE  /\ d \in Deliveries
         /\ wire' \subseteq wire /\ \A e \in wire : e # d => e \in wire'
         /\ handling' = IF enabled /\ Trigger(d) # "none"
                        THEN handling \cup {[d |-> d, kind |-> Trigger(d)]} ELSE handling
         /\ Trigger(d) \in Kinds \cup {"none"}
         /\ \/ UNCHANGED count
            \/ count.faults < MaxFaults /\ count' = [count EXCEPT !.faults = @ + 1]
         /\ past' \in [Issues -> Pasts]
         /\ ~enabled \/ ~mapped => past'[d.issue].missed = TRUE
         /\ \A j \in Issues : /\ SameCounts(j) /\ past'[j].held = past[j].held
                              /\ past[j].missed => past'[j].missed
         /\ UNCHANGED <<card, jobs, enabled, mapped>>
<1>1. d \in Deliveries /\ d.issue \in Issues
  BY TypesAre
<1>2. Trigger(d) \in Kinds \cup {"none"}
  BY DEF Trigger, Kinds
<1> DEFINE x == past[d.issue].missed \/ ~enabled \/ ~mapped
<1>3. x \in BOOLEAN
  OBVIOUS
<1>4. past' = [past EXCEPT ![d.issue].missed = x]
  BY <1>1, TypesAre DEF Receive
<1>5. (past[d.issue].missed => x = TRUE) /\ (~enabled \/ ~mapped => x = TRUE)
  OBVIOUS
<1> HIDE DEF x
<1>6. /\ past' \in [Issues -> Pasts] /\ past'[d.issue].missed = x
      /\ \A j \in Issues : /\ SameCounts(j) /\ past'[j].held = past[j].held
                           /\ j # d.issue => past'[j].missed = past[j].missed
  BY <1>1, <1>3, <1>4, MissedEffect
<1>7. /\ ~enabled \/ ~mapped => past'[d.issue].missed = TRUE
      /\ \A j \in Issues : past[j].missed => past'[j].missed
  <2>1. ~enabled \/ ~mapped => past'[d.issue].missed = TRUE
    BY <1>5, <1>6
  <2>2. ASSUME NEW j \in Issues, past[j].missed PROVE past'[j].missed
    <3>1. CASE j = d.issue
      BY <1>5, <1>6, <2>2, <3>1
    <3>2. CASE j # d.issue
      BY <1>6, <2>2, <3>2
    <3> QED
      BY <3>1, <3>2
  <2> QED
    BY <2>1, <2>2
<1>8. wire' \subseteq wire /\ \A e \in wire : e # d => e \in wire'
  BY DEF Receive, Fault
<1>9. /\ \/ UNCHANGED count
         \/ count.faults < MaxFaults /\ count' = [count EXCEPT !.faults = @ + 1]
      /\ handling' = IF enabled /\ Trigger(d) # "none"
                     THEN handling \cup {[d |-> d, kind |-> Trigger(d)]} ELSE handling
      /\ UNCHANGED <<card, jobs, enabled, mapped>>
  BY DEF Receive, Fault
<1> QED
  BY <1>1, <1>2, <1>6, <1>7, <1>8, <1>9

(* enqueue_job returns without a new job.                                  *)
Refused(h) == \E j \in jobs : Duplicate(j, h.d.issue) \/ j.id = h.d.id

(* The row it makes otherwise.                                             *)
Row(h) == [id |-> h.d.id, issue |-> h.d.issue, kind |-> h.kind, live |-> TRUE]

(* It returns or makes one job of the card, under the id of the delivery.  *)
LEMMA EnqueueEffect ==
  ASSUME TypeInv, NEW h \in handling, Enqueue(h)
  PROVE  /\ handling' = handling \ {h}
         /\ UNCHANGED <<card, wire, enabled, mapped, count>>
         /\ Refused(h) => UNCHANGED <<jobs, past>>
         /\ ~Refused(h) =>
              /\ jobs' = jobs \cup {Row(h)}
              /\ past' \in [Issues -> Pasts]
              /\ past'[h.d.issue].planner = past[h.d.issue].planner
                   + (IF h.kind = "planner" THEN 1 ELSE 0)
              /\ past'[h.d.issue].engineer = past[h.d.issue].engineer
                   + (IF h.kind = "engineer" THEN 1 ELSE 0)
              /\ past'[h.d.issue].entries = past[h.d.issue].entries
              /\ past'[h.d.issue].deleted = past[h.d.issue].deleted
              /\ past'[h.d.issue].label = past[h.d.issue].label
              /\ past'[h.d.issue].held = TRUE
              /\ \A j \in Issues : j # h.d.issue => past'[j] = past[j]
<1> DEFINE i == h.d.issue
<1>1. /\ i \in Issues /\ h.kind \in {"planner", "engineer"}
      /\ past \in [Issues -> Pasts] /\ past[i] \in Pasts
  BY TypesAre DEF Kinds
<1>2. /\ handling' = handling \ {h}
      /\ UNCHANGED <<card, wire, enabled, mapped, count>>
      /\ Refused(h) => UNCHANGED <<jobs, past>>
      /\ ~Refused(h) => /\ jobs' = jobs \cup {Row(h)}
                        /\ past' = [past EXCEPT ![i] = [past[i] EXCEPT ![h.kind] = @ + 1,
                                                                        !.held = TRUE]]
  BY DEF Enqueue, Refused, Row, DeliveryId
<1> HIDE DEF i
<1>3. ASSUME ~Refused(h), h.kind = "planner"
      PROVE  /\ past' \in [Issues -> Pasts]
             /\ past'[i] = [past[i] EXCEPT !.planner = past[i].planner + 1, !.held = TRUE]
             /\ \A j \in Issues : j # i => past'[j] = past[j]
  <2> DEFINE n == past[i].planner + 1
             t == TRUE
             p == [past[i] EXCEPT !.planner = n, !.held = t]
  <2>1. n \in Nat /\ t \in BOOLEAN
    BY <1>1 DEF Pasts
  <2>2. past' = [past EXCEPT ![i] = [past[i] EXCEPT ![h.kind] = @ + 1, !.held = TRUE]]
    BY <1>2, <1>3
  <2> DEFINE q == [past[i] EXCEPT !["planner"] = past[i]["planner"] + 1, !.held = TRUE]
  <2>3. past' = [past EXCEPT ![i] = q]
    BY <1>3, <2>2
  <2>4. q = p
    BY <1>1 DEF Pasts
  <2>5. past' = [past EXCEPT ![i] = p]
    BY <2>3, <2>4
  <2> HIDE DEF n, t
  <2>6. p \in Pasts
    BY <1>1, <2>1 DEF Pasts
  <2>7. past' \in [Issues -> Pasts] /\ past'[i] = p
        /\ \A j \in Issues : j # i => past'[j] = past[j]
    BY <1>1, <2>5, <2>6
  <2> QED
    BY <2>7 DEF n, t
<1>4. ASSUME ~Refused(h), h.kind = "engineer"
      PROVE  /\ past' \in [Issues -> Pasts]
             /\ past'[i] = [past[i] EXCEPT !.engineer = past[i].engineer + 1, !.held = TRUE]
             /\ \A j \in Issues : j # i => past'[j] = past[j]
  <2> DEFINE n == past[i].engineer + 1
             t == TRUE
             p == [past[i] EXCEPT !.engineer = n, !.held = t]
  <2>1. n \in Nat /\ t \in BOOLEAN
    BY <1>1 DEF Pasts
  <2>2. past' = [past EXCEPT ![i] = [past[i] EXCEPT ![h.kind] = @ + 1, !.held = TRUE]]
    BY <1>2, <1>4
  <2> DEFINE q == [past[i] EXCEPT !["engineer"] = past[i]["engineer"] + 1, !.held = TRUE]
  <2>3. past' = [past EXCEPT ![i] = q]
    BY <1>4, <2>2
  <2>4. q = p
    BY <1>1 DEF Pasts
  <2>5. past' = [past EXCEPT ![i] = p]
    BY <2>3, <2>4
  <2> HIDE DEF n, t
  <2>6. p \in Pasts
    BY <1>1, <2>1 DEF Pasts
  <2>7. past' \in [Issues -> Pasts] /\ past'[i] = p
        /\ \A j \in Issues : j # i => past'[j] = past[j]
    BY <1>1, <2>5, <2>6
  <2> QED
    BY <2>7 DEF n, t
<1>5. ASSUME ~Refused(h)
      PROVE  /\ past' \in [Issues -> Pasts]
             /\ past'[i].planner = past[i].planner + (IF h.kind = "planner" THEN 1 ELSE 0)
             /\ past'[i].engineer = past[i].engineer + (IF h.kind = "engineer" THEN 1 ELSE 0)
             /\ past'[i].entries = past[i].entries
             /\ past'[i].deleted = past[i].deleted
             /\ past'[i].label = past[i].label
             /\ past'[i].held = TRUE
             /\ \A j \in Issues : j # i => past'[j] = past[j]
  <2>0. past[i].engineer \in Nat /\ past[i].planner \in Nat
    BY <1>1 DEF Pasts
  <2>1. CASE h.kind = "planner"
    <3>1. /\ past'[i].planner = past[i].planner + 1
          /\ past'[i].engineer = past[i].engineer
          /\ past'[i].entries = past[i].entries /\ past'[i].deleted = past[i].deleted
          /\ past'[i].label = past[i].label /\ past'[i].held = TRUE
      BY <1>1, <1>3, <1>5, <2>1 DEF Pasts
    <3> QED
      BY <1>3, <1>5, <2>0, <2>1, <3>1
  <2>2. CASE h.kind = "engineer"
    <3>1. /\ past'[i].engineer = past[i].engineer + 1
          /\ past'[i].planner = past[i].planner
          /\ past'[i].entries = past[i].entries /\ past'[i].deleted = past[i].deleted
          /\ past'[i].label = past[i].label /\ past'[i].held = TRUE
      BY <1>1, <1>4, <1>5, <2>2 DEF Pasts
    <3> QED
      BY <1>4, <1>5, <2>0, <2>2, <3>1
  <2> QED
    BY <1>1, <2>1, <2>2
<1> QED
  BY <1>2, <1>5 DEF i

(* A lost delivery is marked at its card.                                  *)
LEMMA LoseEffect ==
  ASSUME TypeInv, Lose
  PROVE  /\ wire' \subseteq wire /\ count' = [count EXCEPT !.faults = @ + 1]
         /\ count.faults < MaxFaults
         /\ UNCHANGED <<card, handling, jobs, enabled, mapped>>
         /\ past' \in [Issues -> Pasts]
         /\ \E d \in wire : wire' = wire \ {d} /\ past'[d.issue].missed = TRUE
         /\ \A j \in Issues : /\ SameCounts(j) /\ past'[j].held = past[j].held
                              /\ past[j].missed => past'[j].missed
<1>1. PICK d \in wire : /\ wire' = wire \ {d}
                        /\ past' = [past EXCEPT ![d.issue].missed = TRUE]
  BY DEF Lose
<1>2. d.issue \in Issues
  BY TypesAre
<1>3. /\ past' \in [Issues -> Pasts] /\ past'[d.issue].missed = TRUE
      /\ \A j \in Issues : /\ SameCounts(j) /\ past'[j].held = past[j].held
                           /\ j # d.issue => past'[j].missed = past[j].missed
  BY <1>1, <1>2, MissedEffect
<1>4. /\ count' = [count EXCEPT !.faults = @ + 1] /\ count.faults < MaxFaults
      /\ UNCHANGED <<card, handling, jobs, enabled, mapped>>
  BY DEF Lose, Fault
<1> QED
  BY <1>1, <1>3, <1>4

(* A delete takes one row and counts it at its card.                       *)
LEMMA DeleteEffect ==
  ASSUME TypeInv, DeleteJob
  PROVE  /\ UNCHANGED <<card, wire, handling, enabled, mapped>>
         /\ count.toggles < MaxToggles /\ count' = [count EXCEPT !.toggles = @ + 1]
         /\ past' \in [Issues -> Pasts]
         /\ \E j \in jobs :
              /\ j.issue \in Issues /\ jobs' = jobs \ {j}
              /\ past'[j.issue].deleted = past[j.issue].deleted + 1
              /\ \A i \in Issues : i # j.issue => past'[i] = past[i]
         /\ \A i \in Issues :
              /\ past'[i].entries = past[i].entries
              /\ past'[i].planner = past[i].planner
              /\ past'[i].engineer = past[i].engineer
              /\ past'[i].label = past[i].label
              /\ past'[i].missed = past[i].missed
              /\ past'[i].held = past[i].held
<1>1. PICK j \in jobs : /\ jobs' = jobs \ {j}
                        /\ past' = [past EXCEPT ![j.issue].deleted = @ + 1]
  BY DEF DeleteJob
<1> DEFINE i == j.issue
           p == [past[i] EXCEPT !.deleted = past[i].deleted + 1]
<1>2. i \in Issues /\ past \in [Issues -> Pasts] /\ past[i] \in Pasts
  BY TypesAre
<1>3. past' = [past EXCEPT ![i] = p]
  BY <1>1, <1>2 DEF Pasts
<1> HIDE DEF i
<1>4. p \in Pasts
  BY <1>2 DEF Pasts
<1>5. past' \in [Issues -> Pasts] /\ past'[i] = p
      /\ \A k \in Issues : k # i => past'[k] = past[k]
  BY <1>2, <1>3, <1>4
<1>6. /\ p.deleted = past[i].deleted + 1 /\ p.entries = past[i].entries
      /\ p.planner = past[i].planner /\ p.engineer = past[i].engineer
      /\ p.label = past[i].label /\ p.missed = past[i].missed /\ p.held = past[i].held
  BY <1>2 DEF Pasts
<1> HIDE DEF p
<1>7. UNCHANGED <<card, wire, handling, enabled, mapped>>
      /\ count.toggles < MaxToggles /\ count' = [count EXCEPT !.toggles = @ + 1]
  BY DEF DeleteJob, Toggle
<1>8. \A k \in Issues :
        /\ past'[k].entries = past[k].entries
        /\ past'[k].planner = past[k].planner
        /\ past'[k].engineer = past[k].engineer
        /\ past'[k].label = past[k].label
        /\ past'[k].missed = past[k].missed
        /\ past'[k].held = past[k].held
  BY <1>5, <1>6
<1> QED
  BY <1>1, <1>2, <1>5, <1>6, <1>7, <1>8 DEF i

(* Every step keeps the variables well formed.                             *)
LEMMA TypeStep == TypeInv /\ [Next]_vars => TypeInv'
<1> SUFFICES ASSUME TypeInv, [Next]_vars PROVE TypeInv'
  OBVIOUS
<1> DEFINE Counts == [sent : 0 .. MaxSent, toggles : 0 .. MaxToggles,
                      faults : 0 .. MaxFaults]
<1>1. ASSUME count.faults < MaxFaults
      PROVE  [count EXCEPT !.faults = @ + 1] \in Counts
  BY <1>1, BoardAssumption DEF BoardAssumption, TypeInv, TypeOK
<1>2. ASSUME count.toggles < MaxToggles
      PROVE  [count EXCEPT !.toggles = @ + 1] \in Counts
  BY <1>2, BoardAssumption DEF BoardAssumption, TypeInv, TypeOK
<1>3. ASSUME NEW i \in Issues, NEW action \in {"created", "updated"},
             NEW fields \in Changed,
             NEW c \in Cards, BoardMove(i, action, fields, c)
      PROVE  TypeInv'
  <2>1. c.col \in Columns /\ Note(i, c) /\ Send(i, action, fields, c)
        /\ card' = [card EXCEPT ![i] = c]
        /\ UNCHANGED <<handling, jobs, enabled, mapped>>
    BY <1>3 DEF BoardMove
  <2>2. wire' \subseteq Deliveries /\ count' \in Counts
    BY <2>1, SendEffect
  <2>3. past' \in [Issues -> Pasts]
    BY <2>1, NoteEffect
  <2>4. /\ card' \in [Issues -> Cards]
        /\ \A j \in Issues : card'[j] = NoCard \/ card'[j].col \in Columns
    BY <2>1, TypesAre DEF TypeInv
  <2> HIDE DEF Counts
  <2> QED
    BY <2>1, <2>2, <2>3, <2>4 DEF TypeInv, TypeOK, Cards, Pasts, Counts
<1>4. ASSUME NEW d \in wire, Receive(d) PROVE TypeInv'
  <2>1. handling' \subseteq [d : Deliveries, kind : Kinds]
    <3>1. d \in Deliveries /\ Trigger(d) \in Kinds \cup {"none"}
          /\ \/ handling' = handling
             \/ /\ Trigger(d) # "none"
                /\ handling' = handling \cup {[d |-> d, kind |-> Trigger(d)]}
      BY <1>4, ReceiveEffect
    <3> QED
      BY <3>1 DEF TypeInv, TypeOK
  <2>2. count' \in Counts
    BY <1>1, <1>4, ReceiveEffect DEF TypeInv, TypeOK
  <2>3. wire' \subseteq wire /\ past' \in [Issues -> Pasts]
        /\ UNCHANGED <<card, jobs, enabled, mapped>>
    BY <1>4, ReceiveEffect
  <2> HIDE DEF Counts
  <2> QED
    BY <2>1, <2>2, <2>3 DEF TypeInv, TypeOK, Pasts, Counts
<1>5. ASSUME NEW h \in handling, Enqueue(h) PROVE TypeInv'
  <2>1. Row(h) \in Rows
    BY TypesAre DEF Deliveries, Rows, Row
  <2>2. jobs' \subseteq Rows /\ past' \in [Issues -> Pasts]
    <3>1. jobs \subseteq Rows /\ past \in [Issues -> Pasts]
      BY TypesAre DEF TypeInv, TypeOK
    <3>2. CASE Refused(h)
      BY <1>5, <3>1, <3>2, EnqueueEffect
    <3>3. CASE ~Refused(h)
      <4>1. jobs' = jobs \cup {Row(h)} /\ past' \in [Issues -> Pasts]
        BY <1>5, <3>3, EnqueueEffect
      <4> QED
        BY <2>1, <3>1, <4>1
    <3> QED
      BY <3>2, <3>3
  <2>3. handling' \subseteq handling /\ UNCHANGED <<card, wire, enabled, mapped, count>>
    BY <1>5, EnqueueEffect
  <2> QED
    BY <2>2, <2>3 DEF TypeInv, TypeOK, Pasts
<1>6. CASE Lose
  BY <1>1, <1>6, LoseEffect, ZenonT(60) DEF TypeInv, TypeOK, Pasts
<1>7. CASE Crash
  <2>1. wire' \subseteq Deliveries /\ handling' = {}
    BY <1>7, TypesAre DEF Crash, TypeInv, TypeOK
  <2>2. count' \in Counts
    BY <1>1, <1>7 DEF Crash, Fault
  <2> QED
    BY <1>7, <2>1, <2>2 DEF Crash, TypeInv, TypeOK
<1>8. CASE EndJob
  <2>1. jobs' \subseteq Rows
    BY <1>8, TypesAre DEF EndJob, Rows
  <2> QED
    BY <1>8, <2>1 DEF EndJob, TypeInv, TypeOK
<1>9. CASE DeleteJob
  <2>1. jobs' \subseteq Rows /\ past' \in [Issues -> Pasts]
    BY <1>9, DeleteEffect DEF TypeInv, TypeOK
  <2>2. count' \in Counts
    BY <1>2, <1>9, DeleteEffect
  <2>3. UNCHANGED <<card, wire, handling, enabled, mapped>>
    BY <1>9, DeleteEffect
  <2> HIDE DEF Counts
  <2> QED
    BY <2>1, <2>2, <2>3 DEF TypeInv, TypeOK, Pasts, Counts
<1>10. CASE SwitchProject \/ SwitchMapping
  BY <1>2, <1>10 DEF SwitchProject, SwitchMapping, Toggle, TypeInv, TypeOK
<1>11. CASE UNCHANGED vars
  BY <1>11 DEF vars, TypeInv, TypeOK
<1> QED
  BY <1>3, <1>4, <1>5, <1>6, <1>7, <1>8, <1>9, <1>10, <1>11, BoardMoves DEF Next

(* A step that the invariants do not notice.                               *)
Quiet ==
  /\ UNCHANGED <<card, wire, handling, past, count.sent>>
  /\ Ids' = Ids
  /\ \A j \in jobs' : /\ \E k \in jobs : k.id = j.id /\ k.issue = j.issue
                      /\ j.live => j \in jobs

(* The steps, sorted by what they do to deliveries.                        *)
LEMMA StepKinds ==
  ASSUME TypeInv, [Next]_vars
  PROVE  \/ \E i \in Issues, action \in {"created", "updated"}, fields \in Changed,
               c \in Cards : BoardMove(i, action, fields, c)
         \/ \E d \in wire : Receive(d)
         \/ \E h \in handling : Enqueue(h)
         \/ Lose \/ Crash \/ DeleteJob \/ Quiet
<1>1. CASE EndJob
  <2>1. PICK j \in jobs : jobs' = (jobs \ {j}) \cup {[j EXCEPT !.live = FALSE]}
    BY <1>1 DEF EndJob
  <2> DEFINE r == [j EXCEPT !.live = FALSE]
  <2>2. r.id = j.id /\ r.issue = j.issue /\ r.live = FALSE
    BY TypesAre DEF Rows
  <2> HIDE DEF r
  <2>3. jobs' = (jobs \ {j}) \cup {r}
    BY <2>1 DEF r
  <2>4. Ids' = Ids
    BY <2>2, <2>3 DEF Ids
  <2>5. \A k \in jobs' : /\ \E l \in jobs : l.id = k.id /\ l.issue = k.issue
                         /\ k.live => k \in jobs
    BY <2>2, <2>3
  <2> QED
    BY <1>1, <2>4, <2>5 DEF EndJob, Quiet
<1>2. CASE SwitchProject \/ SwitchMapping
  BY <1>2 DEF SwitchProject, SwitchMapping, Toggle, Quiet, Ids, TypeInv, TypeOK
<1>3. CASE UNCHANGED vars
  BY <1>3 DEF vars, Quiet, Ids
<1> QED
  BY <1>1, <1>2, <1>3, BoardMoves DEF Next

(* What each kind of step does to the pending deliveries: only the board   *)
(* adds some, and each other step takes away at most the one it is about.  *)
LEMMA PendingMoves ==
  ASSUME TypeInv
  PROVE  /\ \A i \in Issues, action \in {"created", "updated"}, fields \in Changed, c \in Cards :
              BoardMove(i, action, fields, c) =>
                /\ Pending \subseteq Pending' /\ wire' \subseteq Pending'
                /\ \A e \in Pending' : e \notin Pending => e \in wire' \ wire
         /\ \A d \in wire : Receive(d) =>
              /\ Pending' \subseteq Pending
              /\ \A e \in Pending : e # d \/ (enabled /\ Trigger(d) # "none") => e \in Pending'
         /\ \A h \in handling : Enqueue(h) =>
              /\ Pending' \subseteq Pending
              /\ \A e \in Pending : e # h.d => e \in Pending'
         /\ Lose => /\ Pending' \subseteq Pending
                    /\ \E d \in wire : /\ past'[d.issue].missed
                                       /\ \A e \in Pending : e # d => e \in Pending'
         /\ Crash => Pending' = Pending
         /\ DeleteJob => Pending' = Pending
         /\ Quiet => Pending' = Pending
<1>1. ASSUME NEW i \in Issues, NEW action \in {"created", "updated"},
             NEW fields \in Changed,
             NEW c \in Cards, BoardMove(i, action, fields, c)
      PROVE  /\ Pending \subseteq Pending' /\ wire' \subseteq Pending'
             /\ \A e \in Pending' : e \notin Pending => e \in wire' \ wire
  <2>1. wire \subseteq wire' /\ UNCHANGED handling
    BY <1>1 DEF BoardMove, Send
  <2> QED
    BY <2>1 DEF Pending
<1>2. ASSUME NEW d \in wire, Receive(d)
      PROVE  /\ Pending' \subseteq Pending
             /\ \A e \in Pending : e # d \/ (enabled /\ Trigger(d) # "none") => e \in Pending'
  <2>1. wire' \subseteq wire /\ \A e \in wire : e # d => e \in wire'
    BY <1>2, ReceiveEffect
  <2>2. CASE enabled /\ Trigger(d) # "none"
    <3> DEFINE h == [d |-> d, kind |-> Trigger(d)]
    <3>1. handling' = handling \cup {h} /\ h.d = d
      BY <1>2, <2>2, ReceiveEffect
    <3> HIDE DEF h
    <3> QED
      BY <2>1, <3>1 DEF Pending
  <2>3. CASE ~(enabled /\ Trigger(d) # "none")
    <3>1. UNCHANGED handling
      BY <1>2, <2>3, ReceiveEffect
    <3> QED
      BY <2>1, <2>3, <3>1 DEF Pending
  <2> QED
    BY <2>2, <2>3
<1>3. ASSUME NEW h \in handling, Enqueue(h)
      PROVE  /\ Pending' \subseteq Pending
             /\ \A e \in Pending : e # h.d => e \in Pending'
  <2>1. handling' = handling \ {h} /\ UNCHANGED wire
    BY <1>3, EnqueueEffect
  <2> QED
    BY <2>1 DEF Pending
<1>4. ASSUME Lose
      PROVE  /\ Pending' \subseteq Pending
             /\ \E d \in wire : /\ past'[d.issue].missed
                                /\ \A e \in Pending : e # d => e \in Pending'
  <2>1. PICK d \in wire : wire' = wire \ {d} /\ past'[d.issue].missed = TRUE
    BY <1>4, LoseEffect
  <2>2. UNCHANGED handling
    BY <1>4, LoseEffect
  <2> QED
    BY <2>1, <2>2 DEF Pending
<1>5. ASSUME Crash PROVE Pending' = Pending
  BY <1>5 DEF Crash, Pending
<1>6. ASSUME Quiet PROVE Pending' = Pending
  BY <1>6 DEF Quiet, Pending
<1>7. ASSUME DeleteJob PROVE Pending' = Pending
  BY <1>7, DeleteEffect DEF Pending
<1> QED
  BY <1>1, <1>2, <1>3, <1>4, <1>5, <1>6, <1>7

(* Every step keeps ids unique.                                            *)
LEMMA IdStep == TypeInv /\ IdInv /\ [Next]_vars => IdInv'
<1> SUFFICES ASSUME TypeInv, IdInv, [Next]_vars PROVE IdInv'
  OBVIOUS
<1>1. ASSUME Pending' \subseteq Pending, count'.sent = count.sent,
             \A j \in jobs' : \E k \in jobs : k.id = j.id /\ k.issue = j.issue
      PROVE  IdInv'
  <2>1. \A d \in Pending' : d.id \in 1 .. count'.sent
    BY <1>1 DEF IdInv
  <2>2. \A j \in jobs' : j.id \in 1 .. count'.sent
    BY <1>1 DEF IdInv
  <2>3. \A d, e \in Pending' : d.id = e.id => d = e
    BY <1>1 DEF IdInv
  <2>4. \A d \in Pending', j \in jobs' : d.id = j.id => d.issue = j.issue
    BY <1>1 DEF IdInv
  <2> QED
    BY <2>1, <2>2, <2>3, <2>4 DEF IdInv
<1>2. ASSUME NEW i \in Issues, NEW action \in {"created", "updated"},
             NEW fields \in Changed,
             NEW c \in Cards, BoardMove(i, action, fields, c)
      PROVE  IdInv'
  <2>1. c.col \in Columns /\ Send(i, action, fields, c) /\ UNCHANGED jobs
    BY <1>2 DEF BoardMove
  <2>2. \A e \in Pending' : e \notin Pending => e \in wire' \ wire
    BY <1>2, PendingMoves
  <2>3. /\ count'.sent \in Nat /\ count.sent \in Nat /\ count.sent <= count'.sent
        /\ \A d \in wire' \ wire : d.id \in count.sent + 1 .. count'.sent
        /\ \A d, e \in wire' \ wire : d.id = e.id => d = e
    BY <2>1, SendEffect
  <2>4. \A d \in Pending' : d.id \in 1 .. count'.sent
    BY <2>2, <2>3 DEF IdInv
  <2>5. \A j \in jobs' : j.id \in 1 .. count.sent /\ j.id \in 1 .. count'.sent
    BY <2>1, <2>3 DEF IdInv
  <2>6. \A d, e \in Pending' : d.id = e.id => d = e
    BY <2>2, <2>3 DEF IdInv
  <2>7. ASSUME NEW d \in Pending', NEW j \in jobs', d.id = j.id PROVE d.issue = j.issue
    <3>1. d \in Pending
      BY <2>2, <2>3, <2>5, <2>7
    <3> QED
      BY <2>1, <2>7, <3>1 DEF IdInv
  <2> QED
    BY <2>4, <2>5, <2>6, <2>7 DEF IdInv
<1>3. ASSUME NEW d \in wire, Receive(d) PROVE IdInv'
  <2>1. count'.sent = count.sent /\ UNCHANGED jobs
    BY <1>3, ReceiveEffect DEF TypeInv, TypeOK
  <2> QED
    BY <1>1, <1>3, <2>1, PendingMoves
<1>4. ASSUME NEW h \in handling, Enqueue(h) PROVE IdInv'
  <2>1. h.d \in Pending /\ h.d.issue \in Issues
    BY TypesAre
  <2>2. Pending' \subseteq Pending /\ UNCHANGED count
    BY <1>4, EnqueueEffect, PendingMoves
  <2>3. CASE Refused(h)
    <3>1. UNCHANGED jobs
      BY <1>4, <2>3, EnqueueEffect
    <3> QED
      BY <1>1, <2>2, <3>1
  <2>4. CASE ~Refused(h)
    <3>1. jobs' = jobs \cup {Row(h)} /\ Row(h).id = h.d.id /\ Row(h).issue = h.d.issue
      BY <1>4, <2>4, EnqueueEffect DEF Row
    <3>2. \A j \in jobs' : j.id \in 1 .. count'.sent
      BY <2>1, <2>2, <3>1 DEF IdInv
    <3>3. ASSUME NEW d \in Pending', NEW j \in jobs', d.id = j.id PROVE d.issue = j.issue
      <4>1. d \in Pending
        BY <2>2
      <4>2. CASE j \in jobs
        BY <3>3, <4>1, <4>2 DEF IdInv
      <4>3. CASE j = Row(h)
        <5>1. d = h.d
          BY <2>1, <3>1, <3>3, <4>1, <4>3 DEF IdInv
        <5> QED
          BY <3>1, <4>3, <5>1
      <4> QED
        BY <3>1, <4>2, <4>3
    <3> QED
      BY <2>2, <3>2, <3>3 DEF IdInv
  <2> QED
    BY <2>3, <2>4
<1>5. CASE Lose
  <2>1. count'.sent = count.sent /\ UNCHANGED jobs
    BY <1>5, LoseEffect DEF TypeInv, TypeOK
  <2> QED
    BY <1>1, <1>5, <2>1, PendingMoves
<1>6. CASE Crash
  <2>1. count'.sent = count.sent /\ UNCHANGED jobs
    BY <1>6 DEF Crash, Fault, TypeInv, TypeOK
  <2> QED
    BY <1>1, <1>6, <2>1, PendingMoves
<1>7. CASE DeleteJob
  <2>1. count'.sent = count.sent /\ jobs' \subseteq jobs
    BY <1>7, DeleteEffect DEF TypeInv, TypeOK
  <2> QED
    BY <1>1, <1>7, <2>1, PendingMoves
<1>8. CASE Quiet
  BY <1>1, <1>8, PendingMoves DEF Quiet
<1> QED
  BY <1>2, <1>3, <1>4, <1>5, <1>6, <1>7, <1>8, StepKinds

(* Every step keeps LabelInv, if the signal is the label.                  *)
LEMMA LabelStep ==
  EpicSignal = "label" /\ TypeInv /\ LabelInv /\ [Next]_vars => LabelInv'
<1> SUFFICES ASSUME EpicSignal = "label", TypeInv, LabelInv, [Next]_vars
             PROVE  LabelInv'
  OBVIOUS
<1> DEFINE Grows == \A i \in Issues : past[i].label => past'[i].label
           Plans == \A i \in Issues : past'[i].planner > 0 => past'[i].label
<1>1. ASSUME Pending' \subseteq Pending, handling' \subseteq handling,
             UNCHANGED card,
             Grows, Plans
      PROVE  LabelInv'
  BY <1>1, TypesAre DEF LabelInv
<1>2. ASSUME NEW i \in Issues, NEW action \in {"created", "updated"},
             NEW fields \in Changed,
             NEW c \in Cards, BoardMove(i, action, fields, c)
      PROVE  LabelInv'
  <2>1. /\ c.col \in Columns /\ Note(i, c) /\ Send(i, action, fields, c)
        /\ card' = [card EXCEPT ![i] = c] /\ UNCHANGED handling
    BY <1>2 DEF BoardMove
  <2>2. /\ past'[i].label = (past[i].label \/ c.label)
        /\ past'[i].planner = past[i].planner
        /\ \A j \in Issues : j # i => past'[j] = past[j]
    BY <2>1, NoteEffect
  <2>3. \A d \in wire' \ wire : d.issue = i /\ d.label = c.label
    BY <2>1, SendEffect
  <2>4. \A d \in Pending' : d.label => past'[d.issue].label
    BY <1>2, <2>2, <2>3, PendingMoves, TypesAre, ZenonT(60) DEF LabelInv
  <2>5. \A j \in Issues : card'[j].label => past'[j].label
    BY <2>1, <2>2, TypesAre DEF LabelInv
  <2>6. \A h \in handling' : h.kind = "planner" => past'[h.d.issue].label
    BY <2>1, <2>2, TypesAre DEF LabelInv
  <2>7. Plans
    BY <2>2 DEF LabelInv
  <2> QED
    BY <2>4, <2>5, <2>6, <2>7 DEF LabelInv
<1>3. ASSUME NEW d \in wire, Receive(d) PROVE LabelInv'
  <2>1. Grows /\ Plans /\ UNCHANGED card /\ \A j \in Issues : past'[j].label = past[j].label
    <3>1. UNCHANGED card /\ \A j \in Issues : SameCounts(j)
      BY <1>3, ReceiveEffect
    <3>2. \A j \in Issues : past'[j].label = past[j].label /\ past'[j].planner = past[j].planner
      BY <3>1 DEF SameCounts
    <3> QED
      BY <3>1, <3>2 DEF LabelInv
  <2>2. d \in Pending
    BY TypesAre
  <2>3. Trigger(d) = "planner" => d.label
    BY DEF Trigger, IsEpic
  <2>4. CASE handling' = handling
    BY <1>1, <1>3, <2>1, <2>4, PendingMoves
  <2>5. CASE handling' = handling \cup {[d |-> d, kind |-> Trigger(d)]}
    <3> DEFINE h == [d |-> d, kind |-> Trigger(d)]
    <3>1. handling' = handling \cup {h} /\ h.d = d /\ h.kind = Trigger(d)
      BY <2>5
    <3> HIDE DEF h
    <3>2. \A g \in handling' : g.kind = "planner" => past'[g.d.issue].label
      BY <2>1, <2>2, <2>3, <3>1, TypesAre DEF LabelInv
    <3>3. \A e \in Pending' : e.label => past'[e.issue].label
      BY <1>3, <2>1, PendingMoves, TypesAre DEF LabelInv
    <3> QED
      BY <2>1, <3>2, <3>3 DEF LabelInv
  <2> QED
    BY <1>3, <2>4, <2>5, ReceiveEffect
<1>4. ASSUME NEW h \in handling, Enqueue(h) PROVE LabelInv'
  <2>1. handling' \subseteq handling /\ UNCHANGED card /\ Pending' \subseteq Pending
    BY <1>4, EnqueueEffect, PendingMoves
  <2>2. h.d.issue \in Issues /\ past[h.d.issue].planner \in Nat
    BY TypesAre DEF Pasts
  <2>3. CASE Refused(h)
    <3>1. Grows /\ Plans
      BY <1>4, <2>3, EnqueueEffect DEF LabelInv
    <3> QED
      BY <1>1, <2>1, <3>1
  <2>4. CASE ~Refused(h)
    <3>1. /\ past'[h.d.issue].planner = past[h.d.issue].planner
                + (IF h.kind = "planner" THEN 1 ELSE 0)
          /\ past'[h.d.issue].label = past[h.d.issue].label
          /\ \A j \in Issues : j # h.d.issue => past'[j] = past[j]
      BY <1>4, <2>4, EnqueueEffect
    <3>2. Grows /\ Plans
      BY <2>2, <3>1 DEF LabelInv
    <3> QED
      BY <1>1, <2>1, <3>2
  <2> QED
    BY <2>3, <2>4
<1>5. CASE Lose
  <2>1. Grows /\ Plans
    <3>1. \A j \in Issues : SameCounts(j)
      BY <1>5, LoseEffect
    <3>2. \A j \in Issues : past'[j].label = past[j].label /\ past'[j].planner = past[j].planner
      BY <3>1 DEF SameCounts
    <3> QED
      BY <3>2 DEF LabelInv
  <2> QED
    BY <1>1, <1>5, <2>1, LoseEffect, PendingMoves
<1>6. CASE Crash
  BY <1>1, <1>6, PendingMoves DEF Crash, LabelInv
<1>7. CASE DeleteJob
  <2>1. Grows /\ Plans /\ UNCHANGED <<card, handling>>
    BY <1>7, DeleteEffect DEF LabelInv
  <2> QED
    BY <1>1, <1>7, <2>1, PendingMoves
<1>8. CASE Quiet
  BY <1>1, <1>8, PendingMoves DEF Quiet, LabelInv
<1> QED
  BY <1>2, <1>3, <1>4, <1>5, <1>6, <1>7, <1>8, StepKinds

(* What the budget of a card counts are numbers.                           *)
LEMMA BudgetNumbers ==
  ASSUME NEW i \in Issues, TypeInv, past' \in [Issues -> Pasts]
  PROVE  /\ past[i].engineer \in Nat /\ Allowed(i) \in Nat
         /\ past'[i].engineer \in Nat /\ Allowed(i)' \in Nat
         /\ past[i].entries \in Nat /\ past[i].deleted \in Nat
         /\ Allowed(i) = past[i].entries + past[i].deleted
         /\ Allowed(i)' = past'[i].entries + past'[i].deleted
<1>1. /\ past[i].engineer \in Nat /\ past[i].entries \in Nat /\ past[i].deleted \in Nat
      /\ past'[i].engineer \in Nat /\ past'[i].entries \in Nat /\ past'[i].deleted \in Nat
  BY TypesAre DEF Pasts
<1> QED
  BY <1>1 DEF Allowed

(* A budget survives if no entering delivery is added,                     *)
LEMMA Shrinks ==
  ASSUME NEW i \in Issues, TypeInv, Budget(i), Fresh(i)' \subseteq Fresh(i),
         past' \in [Issues -> Pasts],
         past'[i].engineer = past[i].engineer, Allowed(i)' >= Allowed(i)
  PROVE  Budget(i)'
<1>1. /\ IsFiniteSet(Fresh(i)') /\ Cardinality(Fresh(i)') <= Cardinality(Fresh(i))
      /\ Cardinality(Fresh(i)') \in Nat /\ Cardinality(Fresh(i)) \in Nat
  BY FS_Subset, FS_CardinalityType DEF Budget
<1> QED
  BY <1>1, BudgetNumbers DEF Budget

(* if one is added with an entry or a deleted row,                         *)
LEMMA Grants ==
  ASSUME NEW i \in Issues, TypeInv, Budget(i), NEW d,
         Fresh(i)' \subseteq Fresh(i) \cup {d},
         past' \in [Issues -> Pasts],
         past'[i].engineer = past[i].engineer, Allowed(i)' = Allowed(i) + 1
  PROVE  Budget(i)'
<1>1. /\ IsFiniteSet(Fresh(i) \cup {d}) /\ IsFiniteSet(Fresh(i))
      /\ Cardinality(Fresh(i) \cup {d}) =
           IF d \in Fresh(i) THEN Cardinality(Fresh(i)) ELSE Cardinality(Fresh(i)) + 1
  BY FS_AddElement DEF Budget
<1>2. /\ IsFiniteSet(Fresh(i)')
      /\ Cardinality(Fresh(i)') <= Cardinality(Fresh(i) \cup {d})
      /\ Cardinality(Fresh(i)') \in Nat /\ Cardinality(Fresh(i)) \in Nat
  BY <1>1, FS_Subset, FS_CardinalityType
<1> QED
  BY <1>1, <1>2, BudgetNumbers DEF Budget

(* and if one is used for a build.                                         *)
LEMMA Spends ==
  ASSUME NEW i \in Issues, TypeInv, Budget(i), NEW d \in Fresh(i),
         Fresh(i)' \subseteq Fresh(i) \ {d}, past' \in [Issues -> Pasts],
         past'[i].engineer = past[i].engineer + 1, Allowed(i)' = Allowed(i)
  PROVE  Budget(i)'
<1>1. /\ IsFiniteSet(Fresh(i) \ {d}) /\ IsFiniteSet(Fresh(i))
      /\ Cardinality(Fresh(i) \ {d}) = Cardinality(Fresh(i)) - 1
  BY FS_RemoveElement DEF Budget
<1>2. /\ IsFiniteSet(Fresh(i)')
      /\ Cardinality(Fresh(i)') <= Cardinality(Fresh(i) \ {d})
      /\ Cardinality(Fresh(i)') \in Nat /\ Cardinality(Fresh(i)) \in Nat
  BY <1>1, FS_Subset, FS_CardinalityType
<1> QED
  BY <1>1, <1>2, BudgetNumbers DEF Budget

(* A move adds one entering delivery if its card enters, and none          *)
(* otherwise.                                                              *)
LEMMA NewEntering ==
  ASSUME TypeInv, NEW i \in Issues, NEW action \in {"created", "updated"},
         NEW fields \in Changed, NEW c \in Cards, BoardMove(i, action, fields, c)
  PROVE  LET d == Delivery(count.sent + 1, i, action, fields[1], c) IN
         /\ \A e \in Pending' : e \notin Pending =>
              /\ e.issue = i /\ e.id \in count.sent + 1 .. count'.sent
              /\ EnteredState(e) => e = d /\ Entering(i, c)
         /\ Entering(i, c) => d \in Pending' /\ EnteredState(d)
         /\ d.issue = i /\ count.sent \in Nat
<1> DEFINE d == Delivery(count.sent + 1, i, action, fields[1], c)
<1>1. /\ c.col \in Columns /\ Send(i, action, fields, c)
      /\ Entering(i, c) <=> c.col = "ready" /\ (action = "created" \/ fields[1] = "state_id")
      /\ action = "created" => Len(fields) = 1
  BY DEF BoardMove
<1>2. /\ d.issue = i /\ d.col = c.col /\ d.action = action /\ d.field = fields[1]
  BY DEF Delivery
<1> HIDE DEF d
<1>3. /\ d \in wire' /\ count.sent \in Nat
      /\ \A e \in wire' \ wire :
           /\ e.issue = i /\ e.col = c.col /\ e.action = action
           /\ e.id \in count.sent + 1 .. count'.sent
           /\ e.field = "state_id" => e = d
           /\ Len(fields) = 1 => e = d
  BY <1>1, SendEffect DEF d
<1>4. ASSUME NEW e \in Pending', e \notin Pending
      PROVE  /\ e.issue = i /\ e.id \in count.sent + 1 .. count'.sent
             /\ EnteredState(e) => e = d /\ Entering(i, c)
  <2>1. e \in wire' \ wire
    BY <1>4, PendingMoves
  <2>2. EnteredState(e) => e = d
    BY <1>1, <1>3, <2>1 DEF EnteredState
  <2>3. EnteredState(d) => Entering(i, c)
    BY <1>1, <1>2 DEF EnteredState
  <2> QED
    BY <1>3, <2>1, <2>2, <2>3
<1>5. Entering(i, c) => d \in Pending' /\ EnteredState(d)
  BY <1>1, <1>2, <1>3, PendingMoves DEF EnteredState
<1> QED
  BY <1>2, <1>3, <1>4, <1>5 DEF d

(* Every step keeps every budget.                                          *)
LEMMA BuildStep == TypeInv /\ IdInv /\ BuildInv /\ [Next]_vars => BuildInv'
<1> SUFFICES ASSUME TypeInv, IdInv, BuildInv, [Next]_vars PROVE BuildInv'
  OBVIOUS
<1>1. ASSUME Pending' \subseteq Pending, Ids' = Ids, past' \in [Issues -> Pasts],
             \A j \in Issues : SameCounts(j),
             NEW i \in Issues
      PROVE  Budget(i)'
  <2>1. Fresh(i)' \subseteq Fresh(i)
    BY <1>1 DEF Fresh
  <2>2. Allowed(i)' = Allowed(i) /\ Allowed(i) \in Nat
        /\ past'[i].engineer = past[i].engineer
    BY <1>1, BudgetNumbers DEF SameCounts
  <2> QED
    BY <1>1, <2>1, <2>2, Shrinks DEF BuildInv
<1>2. ASSUME NEW i \in Issues, NEW action \in {"created", "updated"},
             NEW fields \in Changed,
             NEW c \in Cards, BoardMove(i, action, fields, c)
      PROVE  BuildInv'
  <2> DEFINE d == Delivery(count.sent + 1, i, action, fields[1], c)
  <2>1. /\ UNCHANGED <<jobs, handling>> /\ Note(i, c) /\ Ids' = Ids
    BY <1>2 DEF BoardMove, Ids
  <2>2. \A e \in Pending' : e \notin Pending =>
          e.issue = i /\ (EnteredState(e) => e = d /\ Entering(i, c))
    BY <1>2, NewEntering
  <2>3. /\ past' \in [Issues -> Pasts]
        /\ past'[i].entries = past[i].entries + (IF Entering(i, c) THEN 1 ELSE 0)
        /\ past'[i].engineer = past[i].engineer
        /\ past'[i].deleted = past[i].deleted
        /\ \A j \in Issues : j # i => past'[j] = past[j]
    BY <2>1, NoteEffect
  <2> HIDE DEF d
  <2>4. ASSUME NEW j \in Issues PROVE Budget(j)'
    <3>1. Budget(j) /\ past'[j].engineer = past[j].engineer
      BY <2>3 DEF BuildInv
    <3>2. CASE j = i /\ Entering(i, c)
      <4>1. Fresh(i)' \subseteq Fresh(i) \cup {d}
        BY <2>1, <2>2 DEF Fresh
      <4>2. Allowed(i)' = Allowed(i) + 1
        BY <2>3, <3>2, BudgetNumbers
      <4> QED
        BY <2>3, <3>1, <3>2, <4>1, <4>2, Grants
    <3>3. CASE ~(j = i /\ Entering(i, c))
      <4>1. Fresh(j)' \subseteq Fresh(j)
        BY <2>1, <2>2, <3>3 DEF Fresh
      <4>2. Allowed(j)' = Allowed(j) /\ Allowed(j) \in Nat
        BY <2>3, <3>3, BudgetNumbers
      <4> QED
        BY <2>3, <3>1, <4>1, <4>2, Shrinks
    <3> QED
      BY <3>2, <3>3
  <2> QED
    BY <2>1, <2>4 DEF BuildInv
<1>3. ASSUME NEW d \in wire, Receive(d) PROVE BuildInv'
  <2>1. \A i \in Issues : Budget(i)'
    <3>1. Ids' = Ids
      BY <1>3, ReceiveEffect DEF Ids
    <3>2. past' \in [Issues -> Pasts] /\ \A j \in Issues : SameCounts(j)
      BY <1>3, ReceiveEffect
    <3>3. Pending' \subseteq Pending
      BY <1>3, PendingMoves
    <3> QED
      BY <1>1, <3>1, <3>2, <3>3
  <2>2. Trigger(d) = "engineer" => EnteredState(d)
    BY DEF Trigger
  <2>3. CASE handling' = handling
    BY <2>1, <2>3 DEF BuildInv
  <2>4. CASE handling' = handling \cup {[d |-> d, kind |-> Trigger(d)]}
    BY <2>1, <2>2, <2>4 DEF BuildInv
  <2> QED
    BY <1>3, <2>3, <2>4, ReceiveEffect
<1>4. ASSUME NEW h \in handling, Enqueue(h) PROVE BuildInv'
  <2>1. handling' = handling \ {h} /\ Pending' \subseteq Pending
    BY <1>4, EnqueueEffect, PendingMoves
  <2>2. h.d \in Pending /\ h.d.issue \in Issues
    BY TypesAre
  <2>3. ASSUME NEW i \in Issues PROVE Budget(i)'
    <3>1. CASE Refused(h)
      <4>1. UNCHANGED <<jobs, past>> /\ past \in [Issues -> Pasts]
        BY <1>4, <3>1, EnqueueEffect, TypesAre
      <4>2. Ids' = Ids /\ \A j \in Issues : SameCounts(j)
        BY <4>1 DEF Ids, SameCounts
      <4> QED
        BY <1>1, <2>1, <4>1, <4>2
    <3>2. CASE ~Refused(h)
      <4>1. /\ jobs' = jobs \cup {Row(h)} /\ past' \in [Issues -> Pasts]
            /\ past'[h.d.issue].engineer = past[h.d.issue].engineer
                 + (IF h.kind = "engineer" THEN 1 ELSE 0)
            /\ past'[h.d.issue].entries = past[h.d.issue].entries
            /\ past'[h.d.issue].deleted = past[h.d.issue].deleted
            /\ \A j \in Issues : j # h.d.issue => past'[j] = past[j]
        BY <1>4, <3>2, EnqueueEffect
      <4>2. Ids' = Ids \cup {h.d.id} /\ h.d.id \notin Ids
        <5>1. Row(h).id = h.d.id
          BY DEF Row
        <5>2. Ids' = Ids \cup {h.d.id}
          BY <4>1, <5>1 DEF Ids
        <5> QED
          BY <3>2, <5>2 DEF Ids, Refused
      <4>3. /\ Fresh(i)' \subseteq Fresh(i) /\ h.d \notin Fresh(i)' /\ Budget(i)
        BY <2>1, <4>2 DEF Fresh, BuildInv
      <4>4. Allowed(i)' = Allowed(i) /\ Allowed(i) \in Nat /\ past[i].engineer \in Nat
        BY <4>1, BudgetNumbers
      <4>5. CASE i = h.d.issue /\ h.kind = "engineer"
        <5>1. h.d \in Fresh(i)
          BY <2>2, <4>2, <4>5 DEF Fresh, BuildInv
        <5> QED
          BY <4>1, <4>3, <4>4, <4>5, <5>1, Spends
      <4>6. CASE ~(i = h.d.issue /\ h.kind = "engineer")
        <5>1. past'[i].engineer = past[i].engineer
          BY <4>1, <4>4, <4>6
        <5> QED
          BY <4>1, <4>3, <4>4, <5>1, Shrinks
      <4> QED
        BY <4>5, <4>6
    <3> QED
      BY <3>1, <3>2
  <2> QED
    BY <2>1, <2>3 DEF BuildInv
<1>5. CASE Lose
  <2>1. Ids' = Ids
    BY <1>5, LoseEffect DEF Ids
  <2>2. past' \in [Issues -> Pasts] /\ UNCHANGED handling
        /\ \A j \in Issues : SameCounts(j)
    BY <1>5, LoseEffect
  <2>3. Pending' \subseteq Pending
    BY <1>5, PendingMoves
  <2> QED
    BY <1>1, <2>1, <2>2, <2>3 DEF BuildInv
<1>6. CASE Crash
  <2>1. handling' = {} /\ Ids' = Ids /\ past' = past
    BY <1>6 DEF Crash, Ids
  <2>2. \A j \in Issues : SameCounts(j)
    BY <2>1 DEF SameCounts
  <2> QED
    BY <1>1, <1>6, <2>1, <2>2, PendingMoves, TypesAre DEF BuildInv
<1>7. CASE DeleteJob
  <2>1. PICK j \in jobs :
          /\ j.issue \in Issues /\ jobs' = jobs \ {j}
          /\ past'[j.issue].deleted = past[j.issue].deleted + 1
          /\ \A i \in Issues : i # j.issue => past'[i] = past[i]
    BY <1>7, DeleteEffect
  <2>2. /\ past' \in [Issues -> Pasts] /\ UNCHANGED handling /\ Pending' = Pending
        /\ \A i \in Issues : /\ past'[i].entries = past[i].entries
                             /\ past'[i].engineer = past[i].engineer
    BY <1>7, DeleteEffect, PendingMoves
  <2>3. Ids \subseteq Ids' \cup {j.id}
    BY <2>1 DEF Ids
  <2>4. ASSUME NEW i \in Issues PROVE Budget(i)'
    <3>1. Budget(i)
      BY DEF BuildInv
    <3>2. CASE i = j.issue
      <4>1. PICK d : \A e \in Pending : e.id = j.id => e = d
        BY DEF IdInv
      <4>2. Fresh(i)' \subseteq Fresh(i) \cup {d}
        BY <2>2, <2>3, <4>1 DEF Fresh
      <4>3. Allowed(i)' = Allowed(i) + 1
        BY <2>1, <2>2, <3>2, BudgetNumbers
      <4> QED
        BY <2>2, <3>1, <4>2, <4>3, Grants
    <3>3. CASE i # j.issue
      <4>1. \A e \in Pending : e.id = j.id => e.issue # i
        BY <2>1, <3>3 DEF IdInv
      <4>2. Fresh(i)' \subseteq Fresh(i)
        BY <2>2, <2>3, <4>1 DEF Fresh
      <4>3. Allowed(i)' = Allowed(i) /\ Allowed(i) \in Nat
        BY <2>1, <2>2, <3>3, BudgetNumbers
      <4> QED
        BY <2>2, <3>1, <4>2, <4>3, Shrinks
    <3> QED
      BY <3>2, <3>3
  <2> QED
    BY <2>2, <2>4 DEF BuildInv
<1>8. CASE Quiet
  <2>1. \A j \in Issues : SameCounts(j)
    BY <1>8 DEF Quiet, SameCounts
  <2> QED
    BY <1>1, <1>8, <2>1, PendingMoves, TypesAre DEF Quiet, BuildInv
<1> QED
  BY <1>2, <1>3, <1>4, <1>5, <1>6, <1>7, <1>8, StepKinds

(* Every step keeps JobInv: a fresh delivery goes only by being marked as  *)
(* missed, by meeting a live job, or by making one.                        *)
LEMMA JobStep == TypeInv /\ IdInv /\ JobInv /\ [Next]_vars => JobInv'
<1> SUFFICES ASSUME TypeInv, IdInv, JobInv, [Next]_vars PROVE JobInv'
  OBVIOUS
<1> DEFINE Waits(i) == past[i].entries > 0 /\ ~past[i].missed /\ ~past[i].held
<1>1. ASSUME \A j \in jobs' : j.live => j \in jobs,
             \A i \in Issues : /\ past'[i].entries = past[i].entries
                               /\ past'[i].held = past[i].held
                               /\ past[i].missed => past'[i].missed,
             \A i \in Issues : \A d \in Fresh(i) : past'[i].missed \/ d \in Fresh(i)'
      PROVE  JobInv'
  <2>1. \A j \in jobs' : j.live => past'[j.issue].held
    BY <1>1, TypesAre DEF JobInv
  <2>2. ASSUME NEW i \in Issues, Waits(i)' PROVE Fresh(i)' # {}
    <3>1. Waits(i)
      BY <1>1, <2>2
    <3>2. PICK d \in Fresh(i) : TRUE
      BY <3>1 DEF JobInv
    <3>3. d \in Fresh(i)'
      BY <1>1, <2>2, <3>2
    <3> QED
      BY <3>3
  <2> QED
    BY <2>1, <2>2 DEF JobInv
<1>2. ASSUME NEW i \in Issues, NEW action \in {"created", "updated"},
             NEW fields \in Changed,
             NEW c \in Cards, BoardMove(i, action, fields, c)
      PROVE  JobInv'
  <2> DEFINE d == Delivery(count.sent + 1, i, action, fields[1], c)
  <2>1. UNCHANGED jobs /\ Note(i, c) /\ Ids' = Ids
    BY <1>2 DEF BoardMove, Ids
  <2>2. /\ Entering(i, c) => d \in Pending' /\ EnteredState(d)
        /\ d.issue = i /\ count.sent \in Nat
    BY <1>2, NewEntering
  <2>3. d.id = count.sent + 1
    BY DEF Delivery
  <2>4. /\ past'[i].entries = past[i].entries + (IF Entering(i, c) THEN 1 ELSE 0)
        /\ past'[i].missed = (past[i].missed /\ ~Entering(i, c))
        /\ past'[i].held = (IF Entering(i, c) THEN Live(i, Kinds) ELSE past[i].held)
        /\ \A j \in Issues : j # i => past'[j] = past[j]
    BY <2>1, NoteEffect
  <2> HIDE DEF d
  <2>5. Pending \subseteq Pending'
    BY <1>2, PendingMoves
  <2>6. ASSUME NEW j \in jobs', j.live PROVE past'[j.issue].held
    <3>1. j \in jobs /\ j.issue \in Issues /\ j.kind \in Kinds /\ past[j.issue].held
      BY <2>1, <2>6, TypesAre DEF JobInv
    <3>2. Live(j.issue, Kinds)
      BY <2>6, <3>1 DEF Live
    <3> QED
      BY <2>4, <3>1, <3>2
  <2>7. ASSUME NEW j \in Issues, Waits(j)' PROVE Fresh(j)' # {}
    <3>1. CASE j = i /\ Entering(i, c)
      <4>1. d.id \notin Ids'
        BY <2>1, <2>2, <2>3 DEF Ids, IdInv
      <4> QED
        BY <2>2, <3>1, <4>1 DEF Fresh
    <3>2. CASE ~(j = i /\ Entering(i, c))
      <4>1. Waits(j)
        BY <2>4, <2>7, <3>2, TypesAre DEF Pasts
      <4>2. Fresh(j) \subseteq Fresh(j)'
        BY <2>1, <2>5 DEF Fresh
      <4> QED
        BY <4>1, <4>2 DEF JobInv
    <3> QED
      BY <3>1, <3>2
  <2> QED
    BY <2>6, <2>7 DEF JobInv
<1>3. ASSUME NEW d \in wire, Receive(d) PROVE JobInv'
  <2>1. /\ \A i \in Issues : /\ past'[i].entries = past[i].entries
                             /\ past'[i].held = past[i].held
                             /\ past[i].missed => past'[i].missed
        /\ UNCHANGED jobs /\ Ids' = Ids
    <3>1. /\ \A i \in Issues : /\ SameCounts(i) /\ past'[i].held = past[i].held
                               /\ past[i].missed => past'[i].missed
          /\ UNCHANGED jobs
      BY <1>3, ReceiveEffect
    <3> QED
      BY <3>1 DEF SameCounts, Ids
  <2>2. \A e \in Pending : e # d \/ (enabled /\ Trigger(d) # "none") => e \in Pending'
    BY <1>3, PendingMoves
  <2>3. mapped /\ EnteredState(d) => Trigger(d) # "none"
    BY DEF Trigger
  <2>4. ~enabled \/ ~mapped => past'[d.issue].missed
    BY <1>3, ReceiveEffect
  <2>5. \A i \in Issues : \A e \in Fresh(i) : past'[i].missed \/ e \in Fresh(i)'
    BY <2>1, <2>2, <2>3, <2>4 DEF Fresh
  <2> QED
    BY <1>1, <2>1, <2>5
<1>4. ASSUME NEW h \in handling, Enqueue(h) PROVE JobInv'
  <2>1. \A e \in Pending : e # h.d => e \in Pending'
    BY <1>4, PendingMoves
  <2>2. h.d \in Pending /\ h.d.issue \in Issues
    BY TypesAre
  <2>3. CASE Refused(h)
    <3>1. UNCHANGED <<jobs, past>> /\ Ids' = Ids
      BY <1>4, <2>3, EnqueueEffect DEF Ids
    <3>2. past[h.d.issue].held \/ h.d.id \in Ids
      BY <2>3 DEF Refused, Duplicate, JobInv, Ids
    <3>3. \A j \in jobs' : j.live => past'[j.issue].held
      BY <3>1 DEF JobInv
    <3>4. ASSUME NEW i \in Issues, Waits(i)' PROVE Fresh(i)' # {}
      <4>1. Waits(i)
        BY <3>1, <3>4
      <4>2. PICK e \in Fresh(i) : TRUE
        BY <4>1 DEF JobInv
      <4>3. e \in Pending /\ e # h.d
        BY <3>2, <4>1, <4>2 DEF Fresh
      <4>4. e \in Fresh(i)'
        BY <2>1, <3>1, <4>2, <4>3 DEF Fresh
      <4> QED
        BY <4>4
    <3> QED
      BY <3>3, <3>4 DEF JobInv
  <2>4. CASE ~Refused(h)
    <3>1. /\ jobs' = jobs \cup {Row(h)} /\ past'[h.d.issue].held = TRUE
          /\ \A j \in Issues : j # h.d.issue => past'[j] = past[j]
      BY <1>4, <2>4, EnqueueEffect
    <3>2. Ids' = Ids \cup {h.d.id}
      <4>1. Row(h).id = h.d.id
        BY DEF Row
      <4> QED
        BY <3>1, <4>1 DEF Ids
    <3>3. ASSUME NEW j \in jobs', j.live PROVE past'[j.issue].held
      <4>1. CASE j.issue = h.d.issue
        BY <3>1, <4>1
      <4>2. CASE j.issue # h.d.issue
        <5>1. j \in jobs
          BY <3>1, <4>2 DEF Row
        <5> QED
          BY <3>1, <3>3, <4>2, <5>1, TypesAre DEF JobInv
      <4> QED
        BY <4>1, <4>2
    <3>4. ASSUME NEW i \in Issues, Waits(i)' PROVE Fresh(i)' # {}
      <4>1. i # h.d.issue /\ Waits(i)
        BY <3>1, <3>4
      <4>2. PICK e \in Fresh(i) : TRUE
        BY <4>1 DEF JobInv
      <4>3. e \in Pending /\ e # h.d /\ e.id # h.d.id
        BY <2>2, <4>1, <4>2 DEF Fresh, IdInv
      <4>4. e \in Fresh(i)'
        BY <2>1, <3>2, <4>2, <4>3 DEF Fresh
      <4> QED
        BY <4>4
    <3> QED
      BY <3>3, <3>4 DEF JobInv
  <2> QED
    BY <2>3, <2>4
<1>5. CASE Lose
  <2>1. /\ \A i \in Issues : /\ past'[i].entries = past[i].entries
                             /\ past'[i].held = past[i].held
                             /\ past[i].missed => past'[i].missed
        /\ UNCHANGED jobs /\ Ids' = Ids
    <3>1. /\ \A i \in Issues : /\ SameCounts(i) /\ past'[i].held = past[i].held
                               /\ past[i].missed => past'[i].missed
          /\ UNCHANGED jobs
      BY <1>5, LoseEffect
    <3> QED
      BY <3>1 DEF SameCounts, Ids
  <2>2. PICK d \in wire : /\ past'[d.issue].missed
                         /\ \A e \in Pending : e # d => e \in Pending'
    BY <1>5, PendingMoves
  <2>3. \A i \in Issues : \A e \in Fresh(i) : past'[i].missed \/ e \in Fresh(i)'
    BY <2>1, <2>2 DEF Fresh
  <2> QED
    BY <1>1, <2>1, <2>3
<1>6. CASE Crash
  <2>1. UNCHANGED <<jobs, past>> /\ Ids' = Ids /\ Pending' = Pending
    BY <1>6, PendingMoves DEF Crash, Ids
  <2> QED
    BY <1>1, <2>1 DEF Fresh
<1>7. CASE DeleteJob
  <2>1. /\ \A i \in Issues : /\ past'[i].entries = past[i].entries
                             /\ past'[i].held = past[i].held
                             /\ past[i].missed => past'[i].missed
        /\ jobs' \subseteq jobs /\ Pending' = Pending
    BY <1>7, DeleteEffect, PendingMoves
  <2>2. Ids' \subseteq Ids
    BY <2>1 DEF Ids
  <2> QED
    BY <1>1, <2>1, <2>2 DEF Fresh
<1>8. CASE Quiet
  <2>1. /\ past' = past /\ Ids' = Ids /\ Pending' = Pending
        /\ \A j \in jobs' : j.live => j \in jobs
    BY <1>8, PendingMoves DEF Quiet
  <2> QED
    BY <1>1, <2>1 DEF Fresh
<1> QED
  BY <1>2, <1>3, <1>4, <1>5, <1>6, <1>7, <1>8, StepKinds
-----------------------------------------------------------------------------
(* The invariants hold in the initial state.                               *)
LEMMA InitHolds == Init => TypeInv /\ IdInv /\ LabelInv /\ BuildInv /\ JobInv
<1> SUFFICES ASSUME Init PROVE TypeInv /\ IdInv /\ LabelInv /\ BuildInv /\ JobInv
  OBVIOUS
<1>1. Pending = {}
  BY DEF Init, Pending
<1>2. TypeInv
  BY BoardAssumption DEF BoardAssumption, Init, TypeInv, TypeOK, NoCard, NoPast,
     Kinds
<1>3. IdInv
  BY <1>1 DEF Init, IdInv
<1>4. LabelInv
  BY <1>1 DEF Init, LabelInv, NoCard, NoPast
<1>5. ASSUME NEW i \in Issues PROVE Budget(i)
  <2>1. Fresh(i) = {}
    BY <1>1 DEF Fresh
  <2>2. past[i].engineer = 0 /\ Allowed(i) = 0
    BY DEF Init, NoPast, Allowed
  <2> QED
    BY <2>1, <2>2, FS_EmptySet DEF Budget
<1>6. BuildInv
  BY <1>5 DEF Init, BuildInv
<1>7. JobInv
  BY <1>1 DEF Init, JobInv, NoPast
<1> QED
  BY <1>2, <1>3, <1>4, <1>6, <1>7

(* They hold throughout.                                                   *)
LEMMA InvHolds == Spec => [](TypeInv /\ IdInv /\ BuildInv /\ JobInv)
<1>1. TypeInv /\ IdInv /\ BuildInv /\ JobInv /\ [Next]_vars
      => (TypeInv /\ IdInv /\ BuildInv /\ JobInv)'
  BY TypeStep, IdStep, BuildStep, JobStep
<1> QED
  BY InitHolds, <1>1, PTL DEF Spec

(* Type correctness of the board, its deliveries and the jobs they make    *)
(* (webhooks.py, models.py).                                               *)
THEOREM TypeCorrect == Spec => []TypeOK
<1>1. TypeInv => TypeOK
  BY DEF TypeInv
<1> QED
  BY InvHolds, <1>1, PTL

(* However deliveries are delayed, reordered, repeated or lost, a card is  *)
(* built at most once per move into ready_for_dev, and once more for each  *)
(* job of it that the console deleted with its delivery id                 *)
(* (_entered_state, enqueue_job, delete_job).                              *)
THEOREM BuiltOncePerEntry == Spec => []OneBuildPerEntry
<1>1. TypeInv /\ BuildInv => OneBuildPerEntry
  <2> SUFFICES ASSUME TypeInv, BuildInv, NEW i \in Issues
               PROVE  past[i].engineer <= past[i].entries + past[i].deleted
    BY DEF OneBuildPerEntry
  <2>1. Cardinality(Fresh(i)) \in Nat
    BY FS_CardinalityType DEF BuildInv, Budget
  <2>2. past[i].engineer \in Nat /\ past[i].entries \in Nat /\ past[i].deleted \in Nat
    BY TypesAre DEF Pasts
  <2>3. past[i].engineer + Cardinality(Fresh(i)) <= past[i].entries + past[i].deleted
    BY DEF BuildInv, Budget, Allowed
  <2> QED
    BY <2>1, <2>2, <2>3
<1> QED
  BY InvHolds, <1>1, PTL

(* Whatever jobs a card has had before, its last move into ready_for_dev   *)
(* finds a job of the card queued or running, or makes one, by the time    *)
(* its deliveries are dealt with, unless one was lost or met a closed gate *)
(* (plane_webhook, enqueue_job).                                           *)
THEOREM EntryGetsJob == Spec => []EnteredHadJob
<1>1. TypeInv /\ JobInv => EnteredHadJob
  <2> SUFFICES ASSUME TypeInv, JobInv, NEW i \in Issues,
                      past[i].entries > 0, ~past[i].missed,
                      \A d \in wire : d.issue # i, \A h \in handling : h.d.issue # i
               PROVE  past[i].held
    BY DEF EnteredHadJob
  <2>1. Fresh(i) = {}
    BY DEF Pending, Fresh
  <2> QED
    BY <2>1 DEF JobInv
<1> QED
  BY InvHolds, <1>1, PTL

(* With the default signal, the label, a ticket of the planner is never    *)
(* planned as an epic before a human labels it (_is_epic).                 *)
THEOREM PlannedStaysTicket ==
  ASSUME EpicSignal = "label"
  PROVE  Spec => []PlannedIsBuilt
<1>1. Init => TypeInv /\ LabelInv
  BY InitHolds
<1>2. TypeInv /\ LabelInv /\ [Next]_vars => (TypeInv /\ LabelInv)'
  BY EpicSignal = "label", TypeStep, LabelStep
<1>3. TypeInv /\ LabelInv => PlannedIsBuilt
  <2> SUFFICES ASSUME TypeInv, LabelInv, NEW i \in Issues, ~past[i].label
               PROVE  past[i].planner = 0
    BY DEF PlannedIsBuilt
  <2>1. past[i].planner \in Nat
    BY TypesAre DEF Pasts
  <2> QED
    BY <2>1 DEF LabelInv
<1> QED
  BY <1>1, <1>2, <1>3, PTL DEF Spec
=============================================================================
