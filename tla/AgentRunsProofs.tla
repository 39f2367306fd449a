---------------------------- MODULE AgentRunsProofs ----------------------------
(***************************************************************************)
(* Proofs about AgentRuns for any cap of the log, with and without a       *)
(* deadline, and for any bounds on chunks, containers and disturbances.    *)
(*                                                                         *)
(* The rows of agent_runs are written from many places, so the proofs go   *)
(* through what a step can do to one row (RowChange, RowKinds).  The       *)
(* invariants of the runs rest on three inductive ones: the container at   *)
(* hand is the row's and its exit code is what is recorded (BoxInv); rows  *)
(* of runs not opened yet are blank and the row at hand is not finished    *)
(* (RowInv); and a follow that ends in time has taken and flushed all the  *)
(* agent printed (PumpInv).  The log needs arithmetic on sequences:        *)
(* appending a batch to a capped log and capping the result gives the tail *)
(* of the whole stream (TailGrows).                                        *)
(***************************************************************************)
EXTENDS AgentRuns, SequenceTheorems, TLAPS

(* What a log is made of: the mark, the chunks and the error text.         *)
Letters == 0 .. MaxChunks + 1

(* What a flush appends.                                                   *)
Batch(f, t) == SubSeq(Chunks(t), f + 1, t)

(* The places from the launched container to its row,                      *)
Live == Follows \cup {"wait", "code", "remove", "finish"}

(* and those where the row at hand is open.                                *)
Opened == Live \cup {"launch"}

(* What each place of Dispatcher.run knows of its run and its exception.   *)
PlaceInv ==
  /\ pc = "start" => count.runs < MaxRuns
  /\ pc \in (Follows \ {"kill"}) \cup {"code"} => rid # 0
  /\ pc = "wait" => rid = 0
  /\ pc \in {"follow", "wait", "code", "parse"} => exc = "none"
  /\ pc \in {"drain", "join"} => exc \in {"none", "timeout"}
  /\ pc = "kill" => exc = "timeout"
  /\ pc \in {"finish", "parse"} => exc # "other"

(* Chunks are printed, read, taken and flushed in that order.              *)
OrderInv ==
  /\ stream.flushed <= stream.taken /\ stream.taken <= stream.read
  /\ stream.read <= stream.printed

(* The types with what the places know.                                    *)
TypeInv == TypeOK /\ PlaceInv /\ OrderInv

(* The container at hand is the row's, an exit code 0 is on record, and a  *)
(* run that is about to be recorded has a container that stopped.          *)
BoxInv ==
  /\ box.state = "none" => box = NoBox
  /\ box.row # 0 /\ box.code = "ok" => ended[box.row] = "ok"
  /\ box.code = "ok" => box.state = "exited"
  /\ pc \in Live \ {"finish"} => box.state # "none" /\ box.row = rid
  /\ pc \in {"remove", "finish"} /\ exc # "other" => box.state # "running"
  /\ pc = "join" /\ exc = "timeout" => box.state # "running"
  /\ pc \in {"remove", "finish"} /\ exc = "none" /\ rid # 0 => ended[rid] = "ok"

(* Rows not opened yet are blank, a deleted row has nothing left, and the  *)
(* row at hand is open.                                                    *)
RowInv ==
  /\ \A r \in RunIds : r > count.runs => rows[r] = NoRow /\ shown[r] = NoRow
  /\ \A r \in RunIds : rows[r].status = "none" => rows[r] = NoRow
  /\ \A r \in RunIds : shown[r].status = "none" => shown[r] = NoRow
  /\ pc \in Opened /\ rid # 0 => rows[rid].status \notin Ended
  /\ pc = "launch" /\ rid # 0 => rows[rid].out = <<>>

(* A follow that ended in time has taken all that was read, has flushed    *)
(* all it took when it is over, and an unbroken pump has read all that was *)
(* printed.                                                                *)
PumpInv ==
  /\ pump = "ended" => stream.read = stream.printed
  /\ pc \in {"drain", "join", "code", "remove", "finish", "parse"}
       /\ exc = "none" /\ rid # 0
       => pump \in {"ended", "broken"} /\ stream.taken = stream.read
  /\ pc \in {"join", "code", "remove", "finish", "parse"} /\ exc = "none" /\ rid # 0
       => stream.flushed = stream.taken
  /\ pc \in {"code", "remove", "finish", "parse"}
       /\ exc = "none" /\ rid # 0
       => pump = "ended"

(* What the dialog shows of a row is what the row was: a finished row has  *)
(* not changed, a running one has not or is longer now, or is at its cap.  *)
ViewInv ==
  \A r \in RunIds :
    /\ shown[r].status \in Ended => rows[r] \in {shown[r], NoRow}
    /\ shown[r].status = "running" /\ rows[r].status = "running"
         => \/ shown[r].out = rows[r].out
            \/ Len(shown[r].out) < Len(rows[r].out)
            \/ Len(rows[r].out) > Cap

(* What is proved together, and what follows of the rows.                  *)
AllInv   == TypeInv /\ BoxInv /\ RowInv /\ PumpInv
CleanInv == TerminalAfterContainer /\ DoneMeansClean

(* What a step can do to a row: leave it or delete it, open it, append a   *)
(* batch to it or finish it.                                               *)
RowChange(r) ==
  \/ rows'[r] \in {rows[r], NoRow}
  \/ /\ pc = "start" /\ pc' = "launch" /\ r = count.runs + 1 /\ count'.runs = r
     /\ rid' = r /\ rows'[r] = [status |-> "running", out |-> <<>>]
  \/ /\ pc \in {"follow", "drain"} /\ r = rid /\ rows[r].status # "none"
     /\ stream.flushed < stream.taken
     /\ rows'[r] = Appended(rows[r], Batch(stream.flushed, stream.taken))
  \/ /\ pc = "finish" /\ pc' \notin Opened
     /\ r = rid /\ rows[r].status # "none"
     /\ rows'[r].status = (IF exc = "none" THEN "done" ELSE "failed")
     /\ exc = "none" => rows'[r].out = rows[r].out
-----------------------------------------------------------------------------
(* The first n chunks, as a sequence.                                      *)
LEMMA ChunksAre ==
  ASSUME NEW n \in 0 .. MaxChunks
  PROVE  /\ Chunks(n) \in Seq(Letters) /\ Len(Chunks(n)) = n
         /\ \A i \in 1 .. n : Chunks(n)[i] = i
<1>1. n \in Nat /\ MaxChunks \in Nat
  BY RunsAssumption DEF RunsAssumption
<1>2. Chunks(n) \in [1 .. n -> Letters]
  BY <1>1 DEF Chunks, Letters
<1>3. Chunks(n) \in Seq(Letters)
  BY <1>1, <1>2
<1>4. Len(Chunks(n)) = n
  BY <1>1, <1>2, <1>3, LenProperties
<1> QED
  BY <1>3, <1>4 DEF Chunks

(* A batch holds the chunks after those that were flushed.                 *)
LEMMA BatchIs ==
  ASSUME NEW t \in 0 .. MaxChunks, NEW f \in 0 .. t
  PROVE  /\ Batch(f, t) \in Seq(Letters) /\ Len(Batch(f, t)) = t - f
         /\ \A i \in 1 .. t - f : Batch(f, t)[i] = f + i
<1>1. t \in Nat /\ f \in Nat /\ MaxChunks \in Nat
  BY RunsAssumption DEF RunsAssumption
<1>2. \A i \in f + 1 .. t : i \in 1 .. t /\ Chunks(t)[i] = i /\ Chunks(t)[i] \in Letters
  <2>1. \A i \in 1 .. t : Chunks(t)[i] = i
    BY ChunksAre
  <2>2. \A i \in f + 1 .. t : i \in 1 .. t /\ i \in Letters
    BY <1>1 DEF Letters
  <2> QED
    BY <2>1, <2>2
<1>3. f + 1 \in Int /\ t \in Int
  BY <1>1
<1>4. /\ Batch(f, t) \in Seq(Letters)
      /\ Len(Batch(f, t)) = IF f + 1 <= t THEN t - (f + 1) + 1 ELSE 0
      /\ \A i \in 1 .. t - (f + 1) + 1 : Batch(f, t)[i] = Chunks(t)[(f + 1) + i - 1]
  BY <1>2, <1>3, SubSeqProperties DEF Batch
<1>5. \A i \in 1 .. t - f : Batch(f, t)[i] = f + i
  <2> SUFFICES ASSUME NEW i \in 1 .. t - f PROVE Batch(f, t)[i] = f + i
    OBVIOUS
  <2>1. i \in 1 .. t - (f + 1) + 1 /\ (f + 1) + i - 1 = f + i /\ f + i \in f + 1 .. t
    BY <1>1
  <2> QED
    BY <1>2, <1>4, <2>1
<1> QED
  BY <1>1, <1>4, <1>5

(* What is cut keeps a mark and the last Cap elements (_cap).              *)
LEMMA CappedIs ==
  ASSUME NEW s \in Seq(Letters)
  PROVE  /\ Capped(s) \in Seq(Letters)
         /\ Len(s) <= Cap => Capped(s) = s
         /\ Len(s) > Cap =>
              /\ Len(Capped(s)) = Cap + 1 /\ Capped(s)[1] = Mark
              /\ \A i \in 1 .. Cap : Capped(s)[i + 1] = s[Len(s) - Cap + i]
<1>1. Cap \in Nat /\ Len(s) \in Nat /\ MaxChunks \in Nat
  BY RunsAssumption, LenProperties DEF RunsAssumption
<1>2. CASE Len(s) <= Cap
  BY <1>1, <1>2 DEF Capped
<1>3. CASE Len(s) > Cap
  <2> DEFINE m == Len(s) - Cap + 1  n == Len(s)  b == SubSeq(s, m, n)
  <2>1. m \in Int /\ n \in Int /\ m <= n + 1
    BY <1>1, <1>3
  <2>2. \A i \in m .. n : s[i] \in Letters
    BY <1>1, <1>3, ElementOfSeq
  <2>3. /\ b \in Seq(Letters) /\ Len(b) = (IF m <= n THEN n - m + 1 ELSE 0)
        /\ \A i \in 1 .. n - m + 1 : b[i] = s[m + i - 1]
    BY <2>1, <2>2, SubSeqProperties
  <2>4. Len(b) = Cap /\ \A i \in 1 .. Cap : b[i] = s[Len(s) - Cap + i]
    <3>1. n - m + 1 = Cap /\ \A i \in 1 .. Cap : m + i - 1 = Len(s) - Cap + i
      BY <1>1
    <3> QED
      BY <1>1, <2>1, <2>3, <3>1
  <2>5. Capped(s) = <<Mark>> \o b
    BY <1>1, <1>3 DEF Capped
  <2>6. <<Mark>> \in Seq(Letters) /\ Len(<<Mark>>) = 1 /\ <<Mark>>[1] = Mark
    BY <1>1 DEF Mark, Letters
  <2> HIDE DEF b
  <2>7. /\ Capped(s) \in Seq(Letters) /\ Len(Capped(s)) = 1 + Cap
        /\ \A i \in 1 .. 1 + Cap :
             Capped(s)[i] = IF i <= 1 THEN <<Mark>>[i] ELSE b[i - 1]
    BY <2>3, <2>4, <2>5, <2>6, ConcatProperties
  <2>8. \A i \in 1 .. Cap : Capped(s)[i + 1] = b[i]
    <3> SUFFICES ASSUME NEW i \in 1 .. Cap PROVE Capped(s)[i + 1] = b[i]
      OBVIOUS
    <3>1. i + 1 \in 1 .. 1 + Cap /\ ~(i + 1 <= 1) /\ (i + 1) - 1 = i
      BY <1>1
    <3> QED
      BY <2>7, <3>1
  <2>9. Capped(s)[1] = Mark
    BY <1>1, <2>6, <2>7
  <2> QED
    BY <1>1, <1>3, <2>4, <2>7, <2>8, <2>9
<1> QED
  BY <1>1, <1>2, <1>3

(* So does the tail of a stream.                                           *)
LEMMA TailIs ==
  ASSUME NEW n \in 0 .. MaxChunks
  PROVE  /\ TailOf(n) \in Seq(Letters)
         /\ n <= Cap => TailOf(n) = Chunks(n)
         /\ n > Cap => /\ Len(TailOf(n)) = Cap + 1 /\ TailOf(n)[1] = Mark
                       /\ \A i \in 1 .. Cap : TailOf(n)[i + 1] = n - Cap + i
<1>1. Cap \in Nat /\ n \in Nat /\ MaxChunks \in Nat
  BY RunsAssumption DEF RunsAssumption
<1>2. CASE n <= Cap
  BY <1>1, <1>2, ChunksAre DEF TailOf
<1>3. CASE n > Cap
  <2> DEFINE b == [i \in 1 .. Cap |-> n - Cap + i]
  <2>1. b \in [1 .. Cap -> Letters]
    BY <1>1, <1>3 DEF Letters
  <2>2. b \in Seq(Letters)
    BY <1>1, <2>1
  <2>3. Len(b) = Cap /\ \A i \in 1 .. Cap : b[i] = n - Cap + i
    BY <1>1, <2>1, <2>2, LenProperties
  <2>4. TailOf(n) = <<Mark>> \o b
    <3>1. ~(n <= Cap)
      BY <1>1, <1>3
    <3> QED
      BY <3>1, Zenon DEF TailOf
  <2>5. <<Mark>> \in Seq(Letters) /\ Len(<<Mark>>) = 1 /\ <<Mark>>[1] = Mark
    BY <1>1 DEF Mark, Letters
  <2> HIDE DEF b
  <2>6. /\ TailOf(n) \in Seq(Letters) /\ Len(TailOf(n)) = 1 + Cap
        /\ \A i \in 1 .. 1 + Cap :
             TailOf(n)[i] = IF i <= 1 THEN <<Mark>>[i] ELSE b[i - 1]
    BY <2>2, <2>3, <2>4, <2>5, ConcatProperties
  <2>7. \A i \in 1 .. Cap : TailOf(n)[i + 1] = b[i]
    <3> SUFFICES ASSUME NEW i \in 1 .. Cap PROVE TailOf(n)[i + 1] = b[i]
      OBVIOUS
    <3>1. i + 1 \in 1 .. 1 + Cap /\ ~(i + 1 <= 1) /\ (i + 1) - 1 = i
      BY <1>1
    <3> QED
      BY <2>6, <3>1
  <2>8. TailOf(n)[1] = Mark
    BY <1>1, <2>5, <2>6
  <2> QED
    <3>1. ~(n <= Cap) /\ 1 + Cap = Cap + 1
      BY <1>1, <1>3
    <3> QED
      BY <2>3, <2>6, <2>7, <2>8, <3>1
<1> QED
  BY <1>1, <1>2, <1>3

(* A log that is the tail of what was flushed is, with a batch appended    *)
(* and cut, the tail of what is flushed now (append_output).               *)
LEMMA TailGrows ==
  ASSUME NEW t \in 0 .. MaxChunks, NEW f \in 0 .. t
  PROVE  Capped(TailOf(f) \o Batch(f, t)) = TailOf(t)
<1> DEFINE a == TailOf(f)  b == Batch(f, t)  s == a \o b
<1>1. /\ Cap \in Nat /\ Cap > 0 /\ f \in Nat /\ t \in Nat /\ f <= t
      /\ f \in 0 .. MaxChunks
  BY RunsAssumption DEF RunsAssumption
<1>2. /\ a \in Seq(Letters)
      /\ f <= Cap => a = Chunks(f)
      /\ f > Cap => /\ Len(a) = Cap + 1 /\ a[1] = Mark
                    /\ \A i \in 1 .. Cap : a[i + 1] = f - Cap + i
  BY <1>1, TailIs
<1>3. b \in Seq(Letters) /\ Len(b) = t - f /\ \A i \in 1 .. t - f : b[i] = f + i
  BY BatchIs
<1>4. Chunks(f) \in Seq(Letters) /\ Len(Chunks(f)) = f
      /\ \A i \in 1 .. f : Chunks(f)[i] = i
  BY <1>1, ChunksAre
<1>5. Chunks(t) \in Seq(Letters) /\ Len(Chunks(t)) = t
      /\ \A i \in 1 .. t : Chunks(t)[i] = i
  BY ChunksAre
<1>6. /\ TailOf(t) \in Seq(Letters)
      /\ t <= Cap => TailOf(t) = Chunks(t)
      /\ t > Cap => /\ Len(TailOf(t)) = Cap + 1 /\ TailOf(t)[1] = Mark
                    /\ \A i \in 1 .. Cap : TailOf(t)[i + 1] = t - Cap + i
  BY TailIs
<1> HIDE DEF a, b
<1>7. /\ s \in Seq(Letters) /\ Len(s) = Len(a) + Len(b)
      /\ \A i \in 1 .. Len(a) + Len(b) :
           s[i] = IF i <= Len(a) THEN a[i] ELSE b[i - Len(a)]
  BY <1>2, <1>3, ConcatProperties
<1> HIDE DEF s
<1>8. ASSUME f <= Cap
      PROVE  Len(s) = t /\ \A i \in 1 .. t : s[i] = i
  <2>1. Len(a) = f /\ f + (t - f) = t
    BY <1>1, <1>2, <1>4, <1>8
  <2>2. Len(s) = t
    BY <1>3, <1>7, <2>1
  <2>3. \A i \in 1 .. t : s[i] = i
    <3> SUFFICES ASSUME NEW i \in 1 .. t PROVE s[i] = i
      OBVIOUS
    <3>1. CASE i <= f
      BY <1>1, <1>2, <1>3, <1>4, <1>7, <1>8, <2>1, <3>1
    <3>2. CASE ~(i <= f)
      <4>1. i - f \in 1 .. t - f /\ f + (i - f) = i
        BY <1>1, <3>2
      <4> QED
        BY <1>1, <1>3, <1>7, <2>1, <3>2, <4>1
    <3> QED
      BY <3>1, <3>2
  <2> QED
    BY <2>2, <2>3
<1>9. CASE t <= Cap
  <2>1. f <= Cap
    BY <1>1, <1>9
  <2>2. s = Chunks(t)
    BY <1>5, <1>7, <1>8, <2>1, SeqEqual
  <2> QED
    BY <1>5, <1>6, <1>7, <1>9, <2>2, CappedIs DEF a, b, s
<1>10. CASE t > Cap
  <2>1. /\ Len(s) > Cap
        /\ \A i \in 1 .. Cap : s[Len(s) - Cap + i] = t - Cap + i
    <3>1. CASE f <= Cap
      <4>1. \A i \in 1 .. Cap : t - Cap + i \in 1 .. t
        BY <1>1, <1>10
      <4> QED
        BY <1>8, <1>10, <3>1, <4>1
    <3>2. CASE f > Cap
      <4>1. Len(a) = Cap + 1
        BY <1>2, <3>2
      <4>2. Len(s) = Cap + 1 + (t - f)
        BY <1>3, <1>7, <4>1
      <4>3. ASSUME NEW i \in 1 .. Cap
            PROVE  s[Len(s) - Cap + i] = t - Cap + i
        <5> DEFINE k == (t - f) + i  j == Len(s) - Cap + i
        <5>1. j = k + 1 /\ j \in 1 .. Len(s) /\ k \in Nat \ {0}
          BY <1>1, <4>2
        <5>2. CASE k <= Cap
          <6>1. k \in 1 .. Cap /\ j <= Len(a) /\ f - Cap + k = t - Cap + i
            BY <1>1, <4>1, <5>1, <5>2
          <6>2. s[j] = a[k + 1]
            BY <1>7, <4>1, <5>1, <6>1
          <6> QED
            BY <1>2, <3>2, <6>1, <6>2
        <5>3. CASE ~(k <= Cap)
          <6> DEFINE e == k - Cap
          <6>1. /\ e \in 1 .. t - f /\ j - Len(a) = e /\ ~(j <= Len(a))
                /\ f + e = t - Cap + i
            BY <1>1, <4>1, <4>2, <5>1, <5>3
          <6>2. s[j] = b[e]
            BY <1>7, <5>1, <6>1
          <6> QED
            BY <1>3, <6>1, <6>2
        <5> QED
          BY <5>2, <5>3
      <4> QED
        BY <1>1, <4>2, <4>3
    <3> QED
      BY <1>1, <3>1, <3>2
  <2>2. /\ Capped(s) \in Seq(Letters)
        /\ Len(Capped(s)) = Cap + 1 /\ Capped(s)[1] = Mark
        /\ \A i \in 1 .. Cap : Capped(s)[i + 1] = t - Cap + i
    BY <1>7, <2>1, CappedIs
  <2>3. ASSUME NEW j \in 1 .. Cap + 1
        PROVE  Capped(s)[j] = TailOf(t)[j]
    <3>1. j = 1 \/ (j - 1 \in 1 .. Cap /\ (j - 1) + 1 = j)
      BY <1>1
    <3> QED
      BY <1>6, <1>10, <2>2, <3>1
  <2> QED
    BY <1>6, <1>10, <2>2, <2>3, SeqEqual DEF a, b, s
<1> QED
  BY <1>1, <1>9, <1>10
(* An append keeps a row well formed and its status.                       *)
LEMMA AppendedType ==
  ASSUME NEW row \in Row, NEW text \in Output
  PROVE  /\ Appended(row, text) \in Row
         /\ Appended(row, text).status = row.status
         /\ Appended(row, text).out = Capped(row.out \o text)
<1>1. Output = Seq(Letters)
  BY DEF Output, Letters
<1>2. row.out \in Seq(Letters) /\ text \in Seq(Letters)
  BY <1>1 DEF Row
<1>3. Capped(row.out \o text) \in Seq(Letters)
  BY <1>2, ConcatProperties, CappedIs
<1> QED
  BY <1>1, <1>3 DEF Appended, Row

(* What a flush has pending is output.                                     *)
LEMMA BatchType ==
  ASSUME TypeInv
  PROVE  /\ Batch(stream.flushed, stream.taken) \in Output
         /\ Len(Batch(stream.flushed, stream.taken)) = stream.taken - stream.flushed
<1>1. stream.taken \in 0 .. MaxChunks /\ stream.flushed \in 0 .. stream.taken
  BY RunsAssumption DEF RunsAssumption, TypeInv, TypeOK, OrderInv
<1> QED
  BY <1>1, BatchIs DEF Output, Letters

(* An edit changes at most the row it is given, and only when it is there. *)
LEMMA EditEffect ==
  ASSUME rows \in [RunIds -> Row], NEW r \in 0 .. MaxRuns, NEW row,
         r # 0 => row \in Row, Edit(r, row)
  PROVE  /\ rows' \in [RunIds -> Row]
         /\ \A q \in RunIds : rows'[q] = rows[q]
              \/ (q = r /\ rows[r].status # "none" /\ rows'[q] = row)
<1>1. CASE r # 0 /\ rows[r].status # "none"
  <2>1. rows' = [rows EXCEPT ![r] = row] /\ row \in Row
    BY <1>1 DEF Edit
  <2> QED
    BY <1>1, <2>1
<1>2. CASE ~(r # 0 /\ rows[r].status # "none")
  BY <1>2 DEF Edit
<1> QED
  BY <1>1, <1>2

(* A flush appends its batch to the row at hand.                           *)
LEMMA FlushEffect ==
  ASSUME TypeInv, pc \in {"follow", "drain"}, stream.flushed < stream.taken,
         Edit(rid, Appended(rows[rid], SubSeq(Chunks(stream.taken),
                            stream.flushed + 1, stream.taken)))
  PROVE  /\ rows' \in [RunIds -> Row] /\ \A r \in RunIds : RowChange(r)
         /\ rid # 0 /\ rows[rid].status # "none" => rows'[rid]
              = Appended(rows[rid], Batch(stream.flushed, stream.taken))
<1> DEFINE text == Batch(stream.flushed, stream.taken)
           row == Appended(rows[rid], text)
<1>1. rid \in 0 .. MaxRuns /\ rows \in [RunIds -> Row]
  BY DEF TypeInv, TypeOK
<1>2. rid # 0 => rows[rid] \in Row
  BY <1>1, RunsAssumption DEF RunsAssumption, RunIds
<1>3. rid # 0 => row \in Row
  BY <1>2, BatchType, AppendedType
<1>4. Edit(rid, row)
  BY DEF Batch
<1> HIDE DEF row
<1>5. /\ rows' \in [RunIds -> Row]
      /\ \A q \in RunIds : rows'[q] = rows[q]
           \/ (q = rid /\ rows[rid].status # "none" /\ rows'[q] = row)
  BY <1>1, <1>3, <1>4, EditEffect
<1>6. rid # 0 /\ rows[rid].status # "none" => rows'[rid] = row
  BY <1>1, <1>4, RunsAssumption DEF RunsAssumption, Edit, RunIds
<1> QED
  BY <1>5, <1>6 DEF RowChange, row

(* finish_run gives the row at hand its final status.                      *)
LEMMA FinishEffect ==
  ASSUME TypeInv, NEW ok \in BOOLEAN, Finish(ok)
  PROVE  rows' \in [RunIds -> Row] /\ \A r \in RunIds : RowChange(r)
<1>1. rid \in 0 .. MaxRuns /\ rows \in [RunIds -> Row]
  BY DEF TypeInv, TypeOK
<1>2. /\ pc = "finish" /\ pc' \notin Opened
      /\ exc \in {"none", "timeout", "failed", "other"}
  BY DEF Finish, Goto, TypeInv, TypeOK, Opened, Live, Follows
<1>3. rid # 0 => rows[rid] \in Row
  BY <1>1, RunsAssumption DEF RunsAssumption, RunIds
<1>4. CASE rows' = rows
  BY <1>1, <1>4 DEF RowChange
<1>5. ASSUME NEW text \in FailureTexts,
             Edit(rid, Close(IF rid = 0 THEN NoRow ELSE rows[rid], text))
      PROVE  rows' \in [RunIds -> Row] /\ \A r \in RunIds : RowChange(r)
  <2> DEFINE row == Close(IF rid = 0 THEN NoRow ELSE rows[rid], text)
  <2>1. text \in Output
    <3>1. MaxChunks \in Nat /\ stream.taken \in 0 .. MaxChunks
      BY RunsAssumption DEF RunsAssumption, TypeInv, TypeOK
    <3>2. <<Errors>> \in Output
      BY <3>1 DEF Output, Errors
    <3>3. Chunks(stream.taken) \in Output
      BY <3>1, ChunksAre DEF Output, Letters
    <3> QED
      BY <1>5, <3>2, <3>3 DEF FailureTexts
  <2>2. rid # 0 => /\ row \in Row
                   /\ row.status = (IF exc = "none" THEN "done" ELSE "failed")
                   /\ exc = "none" => row.out = rows[rid].out
    <3>1. CASE exc = "none"
      BY <1>3, <3>1 DEF Close, Row, Ended
    <3>2. CASE exc # "none"
      <4>1. rid # 0 => Appended(rows[rid], text) \in Row
        BY <1>3, <2>1, AppendedType
      <4> QED
        BY <3>2, <4>1 DEF Close, Row, Ended
    <3> QED
      BY <3>1, <3>2
  <2>3. Edit(rid, row)
    BY <1>5
  <2> HIDE DEF row
  <2>4. /\ rows' \in [RunIds -> Row]
        /\ \A q \in RunIds : rows'[q] = rows[q]
             \/ (q = rid /\ rows[rid].status # "none" /\ rows'[q] = row)
    BY <1>1, <2>2, <2>3, EditEffect
  <2> QED
    BY <1>2, <2>2, <2>4 DEF RowChange, RunIds
<1> QED
  BY <1>4, <1>5 DEF Finish

(* A run that starts has a number left.                                    *)
LEMMA StartsRun ==
  ASSUME TypeInv, pc = "start"
  PROVE  /\ count.runs + 1 \in RunIds /\ count.runs + 1 \in 0 .. MaxRuns
         /\ [count EXCEPT !.runs = @ + 1].runs = count.runs + 1
<1>1. count.runs \in 0 .. MaxRuns /\ count.runs < MaxRuns
  BY DEF TypeInv, TypeOK, PlaceInv
<1> QED
  BY <1>1, RunsAssumption DEF RunsAssumption, RunIds, TypeInv, TypeOK

(* A step does to a row nothing else than RowChange.                       *)
LEMMA RowKinds ==
  ASSUME TypeInv, [Next]_vars
  PROVE  rows' \in [RunIds -> Row] /\ \A r \in RunIds : RowChange(r)
<1> USE DEF runVars, logVars, boxVars, uiVars, procVars, Goto
<1>1. rows \in [RunIds -> Row] /\ <<>> \in Output
  BY RunsAssumption DEF RunsAssumption, TypeInv, TypeOK, Output
<1>2. CASE UNCHANGED rows
  BY <1>1, <1>2 DEF RowChange
<1>3. CASE StartRow
  <2>1. /\ rid' = count.runs + 1 /\ count.runs + 1 \in RunIds
        /\ count'.runs = count.runs + 1
    BY <1>3, StartsRun DEF StartRow
  <2>2. rows' = [rows EXCEPT ![count.runs + 1] = [status |-> "running", out |-> <<>>]]
    <3>1. [NoRow EXCEPT !.status = "running"] = [status |-> "running", out |-> <<>>]
      BY DEF NoRow
    <3> QED
      BY <1>3, <2>1, <3>1 DEF StartRow
  <2>3. [status |-> "running", out |-> <<>>] \in Row
    BY <1>1 DEF Row
  <2> QED
    BY <1>1, <1>3, <2>1, <2>2, <2>3 DEF StartRow, RowChange
<1>4. ASSUME NEW ok \in BOOLEAN, Flush(ok)
      PROVE  rows' \in [RunIds -> Row] /\ \A r \in RunIds : RowChange(r)
  BY <1>2, <1>4, FlushEffect DEF Flush
<1>5. ASSUME NEW ok \in BOOLEAN, Finish(ok)
      PROVE  rows' \in [RunIds -> Row] /\ \A r \in RunIds : RowChange(r)
  BY <1>5, FinishEffect
<1>6. CASE DeleteRows
  BY <1>1, <1>6 DEF DeleteRows, NoRow, Row, RowChange
<1>7. CASE Shutdown
  BY <1>2, <1>7, FlushEffect DEF Shutdown
<1> QED
  BY <1>2, <1>3, <1>4, <1>5, <1>6, <1>7
  DEF vars, Next, Dispatch, Thread, Begin, StartUnlogged, Launch, LaunchFails,
      TakeChunk, Expire, SeeEnd, Drained, KillLate, Join, WaitTimesOut,
      ReadExitCode, DockerFails, Remove, Parse, PumpReads, PumpEnds, PumpBreaks,
      Deadline, AgentPrints, AgentExits, StopJob, DeleteJob, Refresh, Crash, Restart

(* A counted event stays within its bound and counts no run.               *)
LEMMA EventType ==
  ASSUME count \in [runs : 0 .. MaxRuns, events : 0 .. MaxEvents], Event
  PROVE  /\ count' \in [runs : 0 .. MaxRuns, events : 0 .. MaxEvents]
         /\ count'.runs = count.runs
<1>1. count.events + 1 \in 0 .. MaxEvents
  BY RunsAssumption DEF RunsAssumption, Event
<1> QED
  BY <1>1 DEF Event

(* An exit stops the container and records its code.                       *)
LEMMA ExitEffect ==
  ASSUME TypeInv, NEW code \in {"ok", "bad"}, Exit(code)
  PROVE  /\ box' = [state |-> "exited", row |-> box.row, code |-> code]
         /\ box.row \in 0 .. MaxRuns
         /\ ended' \in [RunIds -> {"none", "ok", "bad"}]
         /\ \A r \in RunIds : ended'[r] = IF r = box.row THEN code ELSE ended[r]
         /\ box.row # 0 => ended'[box.row] = code
<1>1. box \in [state : {"none", "running", "exited"}, row : 0 .. MaxRuns,
               code : {"none", "ok", "bad"}]
  BY DEF TypeInv, TypeOK
<1>2. box' = [state |-> "exited", row |-> box.row, code |-> code]
  BY <1>1 DEF Exit
<1>3. ended' = IF box.row = 0 THEN ended ELSE [ended EXCEPT ![box.row] = code]
  BY DEF Exit
<1> QED
  BY <1>1, <1>2, <1>3, RunsAssumption DEF RunsAssumption, TypeInv, TypeOK,
     RunIds

(* A kill from the console is an exit of a running container or nothing.   *)
LEMMA KillEffect ==
  ASSUME TypeInv, KillContainers
  PROVE  \/ box.state = "running" /\ Exit("bad")
         \/ box.state # "running" /\ UNCHANGED <<box, ended>>
  BY DEF KillContainers, boxVars

(* The counters of the stream stay in order.                               *)
LEMMA StreamGrows ==
  ASSUME TypeInv,
         \/ stream.taken < stream.read /\ stream' = [stream EXCEPT !.taken = @ + 1]
         \/ stream.read < stream.printed /\ stream' = [stream EXCEPT !.read = @ + 1]
         \/ stream.printed < MaxChunks /\ stream' = [stream EXCEPT !.printed = @ + 1]
         \/ stream' = [stream EXCEPT !.flushed = stream.taken]
  PROVE  /\ stream' \in [printed : 0 .. MaxChunks, read : 0 .. MaxChunks,
                          taken : 0 .. MaxChunks, flushed : 0 .. MaxChunks]
         /\ OrderInv'
<1>1. /\ stream \in [printed : 0 .. MaxChunks, read : 0 .. MaxChunks,
                      taken : 0 .. MaxChunks, flushed : 0 .. MaxChunks]
      /\ OrderInv /\ MaxChunks \in Nat
  BY RunsAssumption DEF RunsAssumption, TypeInv, TypeOK
<1> HIDE DEF TypeInv
<1>2. CASE stream.taken < stream.read /\ stream' = [stream EXCEPT !.taken = @ + 1]
  BY <1>1, <1>2 DEF OrderInv
<1>3. CASE stream.read < stream.printed /\ stream' = [stream EXCEPT !.read = @ + 1]
  BY <1>1, <1>3 DEF OrderInv
<1>4. CASE stream.printed < MaxChunks /\ stream' = [stream EXCEPT !.printed = @ + 1]
  BY <1>1, <1>4 DEF OrderInv
<1>5. CASE stream' = [stream EXCEPT !.flushed = stream.taken]
  BY <1>1, <1>5 DEF OrderInv
<1> QED
  BY <1>2, <1>3, <1>4, <1>5

(* Every step keeps the variables well formed.                             *)
LEMMA TypeStep == TypeInv /\ [Next]_vars => TypeOK'
<1> SUFFICES ASSUME TypeInv, [Next]_vars PROVE TypeOK'
  OBVIOUS
<1>a. rows' \in [RunIds -> Row]
  BY RowKinds
<1> USE DEF runVars, logVars, boxVars, uiVars, procVars, Goto
<1>1. CASE Begin
  BY <1>1, <1>a DEF Begin, TypeInv, TypeOK, Places, Follows
<1>2. CASE StartRow
  <2>1. /\ pc' = "launch" /\ rid' = count.runs + 1
        /\ count' = [count EXCEPT !.runs = @ + 1]
        /\ count.runs + 1 \in 0 .. MaxRuns
    BY <1>2, StartsRun DEF StartRow
  <2> QED
    BY <1>2, <1>a, <2>1 DEF StartRow, TypeInv, TypeOK, Places
<1>3. CASE StartUnlogged
  <2>1. /\ count.runs + 1 \in 0 .. MaxRuns /\ count.events + 1 \in 0 .. MaxEvents
        /\ 0 \in 0 .. MaxRuns
    BY <1>3, StartsRun, RunsAssumption
    DEF RunsAssumption, StartUnlogged, TypeInv, TypeOK
  <2>2. count' \in [runs : 0 .. MaxRuns, events : 0 .. MaxEvents]
    BY <1>3, <2>1 DEF StartUnlogged, TypeInv, TypeOK
  <2>3. /\ pc' \in Places /\ rid' = 0
        /\ UNCHANGED <<attempt, exc, due, stream, pump, lost, box, ended, rows,
                       shown, deleting, up>>
    BY <1>3 DEF StartUnlogged, Places
  <2> QED
    BY <2>1, <2>2, <2>3 DEF TypeInv, TypeOK
<1>4. CASE Launch
  <2>1. NoLog \in [printed : 0 .. MaxChunks, read : 0 .. MaxChunks,
                   taken : 0 .. MaxChunks, flushed : 0 .. MaxChunks]
    BY RunsAssumption DEF RunsAssumption, NoLog
  <2>2. pc' \in Places
    BY <1>4 DEF Launch, Places, Follows
  <2> QED
    BY <1>4, <1>a, <2>1, <2>2 DEF Launch, TypeInv, TypeOK
<1>5. CASE LaunchFails
  BY <1>5, EventType, <1>a DEF LaunchFails, NoBox, TypeInv, TypeOK, Places,
     Follows
<1>6. CASE TakeChunk
  <2>1. stream' \in [printed : 0 .. MaxChunks, read : 0 .. MaxChunks,
                     taken : 0 .. MaxChunks, flushed : 0 .. MaxChunks]
    BY <1>6, StreamGrows DEF TakeChunk
  <2> QED
    BY <1>6, <1>a, <2>1 DEF TakeChunk, TypeInv, TypeOK
<1>7. ASSUME NEW ok \in BOOLEAN, Flush(ok) PROVE TypeOK'
  <2>1. stream' \in [printed : 0 .. MaxChunks, read : 0 .. MaxChunks,
                     taken : 0 .. MaxChunks, flushed : 0 .. MaxChunks]
    BY <1>7, StreamGrows DEF Flush
  <2>2. count' \in [runs : 0 .. MaxRuns, events : 0 .. MaxEvents] /\ lost' \in BOOLEAN
    BY <1>7, EventType DEF Flush, TypeInv, TypeOK
  <2> QED
    BY <1>7, <1>a, <2>1, <2>2 DEF Flush, TypeInv, TypeOK
<1>8. CASE Expire
  BY <1>8, <1>a DEF Expire, TypeInv, TypeOK, Places, Follows
<1>9. CASE SeeEnd
  BY <1>9, <1>a DEF SeeEnd, TypeInv, TypeOK, Places, Follows
<1>10. CASE Drained
  BY <1>10, <1>a DEF Drained, TypeInv, TypeOK, Places, Follows
<1>11. CASE KillLate
  <2>1. pc' \in Places /\ exc' \in {"none", "timeout", "failed", "other"}
    BY <1>11 DEF KillLate, Places, Follows, TypeInv, TypeOK
  <2>2. CASE Exit("bad")
    BY <1>11, <1>a, <2>1, <2>2, ExitEffect DEF KillLate, TypeInv, TypeOK
  <2>3. CASE UNCHANGED boxVars
    BY <1>11, <1>a, <2>1, <2>3 DEF KillLate, TypeInv, TypeOK
  <2> QED
    BY <1>11, <2>2, <2>3 DEF KillLate
<1>12. CASE Join
  BY <1>12, <1>a DEF Join, TypeInv, TypeOK, Places, Follows
<1>13. CASE WaitTimesOut
  BY <1>13, <1>a DEF WaitTimesOut, TypeInv, TypeOK, Places, Follows
<1>14. CASE ReadExitCode
  BY <1>14, <1>a DEF ReadExitCode, TypeInv, TypeOK, Places, Follows
<1>15. CASE DockerFails
  BY <1>15, EventType, <1>a DEF DockerFails, TypeInv, TypeOK, Places, Follows
<1>16. ASSUME NEW ok \in BOOLEAN, Remove(ok) PROVE TypeOK'
  <2>1. /\ count' \in [runs : 0 .. MaxRuns, events : 0 .. MaxEvents]
        /\ box' \in {box, NoBox}
    BY <1>16, EventType DEF Remove, TypeInv, TypeOK
  <2>2. NoBox \in [state : {"none", "running", "exited"}, row : 0 .. MaxRuns,
                   code : {"none", "ok", "bad"}]
    BY RunsAssumption DEF RunsAssumption, NoBox
  <2> QED
    BY <1>16, <1>a, <2>1, <2>2 DEF Remove, TypeInv, TypeOK, Places
<1>17. ASSUME NEW ok \in BOOLEAN, Finish(ok) PROVE TypeOK'
  BY <1>17, EventType, <1>a DEF Finish, TypeInv, TypeOK, Places, Follows
<1>18. CASE Parse
  BY <1>18, <1>a DEF Parse, TypeInv, TypeOK, Places, Follows
<1>19. CASE PumpReads
  <2>1. stream' \in [printed : 0 .. MaxChunks, read : 0 .. MaxChunks,
                     taken : 0 .. MaxChunks, flushed : 0 .. MaxChunks]
    BY <1>19, StreamGrows DEF PumpReads
  <2> QED
    BY <1>19, <1>a, <2>1 DEF PumpReads, TypeInv, TypeOK
<1>20. CASE PumpEnds
  BY <1>20, <1>a DEF PumpEnds, TypeInv, TypeOK, Places, Follows
<1>21. CASE PumpBreaks
  BY <1>21, EventType, <1>a DEF PumpBreaks, TypeInv, TypeOK, Places, Follows
<1>22. CASE Deadline
  BY <1>22, <1>a DEF Deadline, TypeInv, TypeOK, Places, Follows
<1>23. CASE AgentPrints
  <2>1. stream' \in [printed : 0 .. MaxChunks, read : 0 .. MaxChunks,
                     taken : 0 .. MaxChunks, flushed : 0 .. MaxChunks]
    BY <1>23, StreamGrows DEF AgentPrints
  <2> QED
    BY <1>23, <1>a, <2>1 DEF AgentPrints, TypeInv, TypeOK
<1>24. ASSUME NEW code \in {"ok", "bad"}, AgentExits(code) PROVE TypeOK'
  BY <1>24, <1>a, ExitEffect DEF AgentExits, TypeInv, TypeOK
<1>25. CASE StopJob
  <2>1. /\ box' \in [state : {"none", "running", "exited"}, row : 0 .. MaxRuns,
                     code : {"none", "ok", "bad"}]
        /\ ended' \in [RunIds -> {"none", "ok", "bad"}]
    BY <1>25, KillEffect, ExitEffect DEF StopJob, TypeInv, TypeOK
  <2> QED
    BY <1>25, <1>a, <2>1, EventType DEF StopJob, TypeInv, TypeOK
<1>26. CASE DeleteJob
  <2>1. /\ box' \in [state : {"none", "running", "exited"}, row : 0 .. MaxRuns,
                     code : {"none", "ok", "bad"}]
        /\ ended' \in [RunIds -> {"none", "ok", "bad"}]
    BY <1>26, KillEffect, ExitEffect DEF DeleteJob, TypeInv, TypeOK
  <2> QED
    BY <1>26, <1>a, <2>1, EventType DEF DeleteJob, TypeInv, TypeOK
<1>27. CASE DeleteRows
  <2>1. /\ deleting' = FALSE
        /\ UNCHANGED <<pc, attempt, rid, exc, due, stream, pump, lost, box, ended,
                       shown, up, count>>
    BY <1>27 DEF DeleteRows
  <2> QED
    BY <1>a, <2>1, ZenonT(60) DEF TypeInv, TypeOK
<1>28. CASE Refresh
  BY <1>28, <1>a DEF Refresh, TypeInv, TypeOK, Places, Follows
<1>29. CASE Shutdown
  <2>1. box' \in [state : {"none", "running", "exited"}, row : 0 .. MaxRuns,
                  code : {"none", "ok", "bad"}]
    BY <1>29, RunsAssumption DEF RunsAssumption, Shutdown, NoBox, TypeInv,
       TypeOK
  <2>2. count' \in [runs : 0 .. MaxRuns, events : 0 .. MaxEvents]
    BY <1>29, EventType DEF Shutdown, TypeInv, TypeOK
  <2> QED
    BY <1>29, <1>a, <2>1, <2>2 DEF Shutdown, TypeInv, TypeOK, Places
<1>30. CASE Crash
  BY <1>30, EventType, <1>a DEF Crash, TypeInv, TypeOK, Places, Follows
<1>31. CASE Restart
  BY <1>31, <1>a DEF Restart, TypeInv, TypeOK, Places, Follows
<1>32. CASE UNCHANGED vars
  BY <1>32 DEF vars, TypeInv, TypeOK, Places, Follows
<1> QED
  BY <1>1, <1>2, <1>3, <1>4, <1>5, <1>6, <1>7, <1>8, <1>9, <1>10, <1>11, <1>12,
     <1>13, <1>14, <1>15, <1>16, <1>17, <1>18, <1>19, <1>20, <1>21, <1>22,
     <1>23, <1>24, <1>25, <1>26, <1>27, <1>28, <1>29, <1>30, <1>31, <1>32
  DEF Next, Dispatch, Thread

(* Every step keeps the stream in order.                                   *)
LEMMA OrderStep == TypeInv /\ [Next]_vars => OrderInv'
<1> SUFFICES ASSUME TypeInv, [Next]_vars PROVE OrderInv'
  OBVIOUS
<1> USE DEF runVars, logVars, boxVars, uiVars, procVars
<1>1. CASE UNCHANGED stream
  BY <1>1 DEF TypeInv, OrderInv
<1>2. CASE stream' = NoLog
  BY <1>2 DEF OrderInv, NoLog
<1>3. CASE TakeChunk \/ (\E ok \in BOOLEAN : Flush(ok)) \/ PumpReads \/ AgentPrints
  BY <1>3, StreamGrows DEF TakeChunk, Flush, PumpReads, AgentPrints
<1> QED
  BY <1>1, <1>2, <1>3
  DEF vars, Next, Dispatch, Thread, Begin, StartRow, StartUnlogged, Launch,
      LaunchFails,
      Expire, SeeEnd, Drained, KillLate, Join, WaitTimesOut, ReadExitCode, DockerFails,
      Remove, Finish, Parse, PumpEnds, PumpBreaks, Deadline, AgentExits, StopJob,
      DeleteJob, DeleteRows, Refresh, Shutdown, Crash, Restart

(* Every step keeps what the places know.                                  *)
LEMMA PlaceStep == TypeInv /\ [Next]_vars => PlaceInv'
<1> SUFFICES ASSUME TypeInv, [Next]_vars PROVE PlaceInv'
  OBVIOUS
<1>a. PlaceInv /\ count \in [runs : 0 .. MaxRuns, events : 0 .. MaxEvents]
  BY DEF TypeInv, TypeOK
<1> USE DEF runVars, logVars, boxVars, uiVars, procVars, Goto
<1>1. CASE Begin
  BY <1>1, <1>a DEF Begin, PlaceInv, Follows
<1>2. CASE StartRow
  BY <1>2, StartsRun, <1>a DEF StartRow, PlaceInv, Follows
<1>3. CASE StartUnlogged
  BY <1>3, <1>a DEF StartUnlogged, PlaceInv, Follows
<1>4. CASE Launch
  BY <1>4, <1>a DEF Launch, PlaceInv, Follows
<1>5. CASE LaunchFails
  BY <1>5, EventType, <1>a DEF LaunchFails, PlaceInv, Follows
<1>6. CASE TakeChunk
  BY <1>6, <1>a DEF TakeChunk, PlaceInv, Follows
<1>7. ASSUME NEW ok \in BOOLEAN, Flush(ok) PROVE PlaceInv'
  BY <1>7, EventType, <1>a DEF Flush, PlaceInv, Follows
<1>8. CASE Expire
  BY <1>8, <1>a DEF Expire, PlaceInv, Follows
<1>9. CASE SeeEnd
  BY <1>9, <1>a DEF SeeEnd, PlaceInv, Follows
<1>10. CASE Drained
  BY <1>10, <1>a DEF Drained, PlaceInv, Follows
<1>11. CASE KillLate
  BY <1>11, <1>a DEF KillLate, PlaceInv, Follows
<1>12. CASE Join
  BY <1>12, <1>a DEF Join, PlaceInv, Follows
<1>13. CASE WaitTimesOut
  BY <1>13, <1>a DEF WaitTimesOut, PlaceInv, Follows
<1>14. CASE ReadExitCode
  BY <1>14, <1>a DEF ReadExitCode, PlaceInv, Follows
<1>15. CASE DockerFails
  BY <1>15, EventType, <1>a DEF DockerFails, PlaceInv, Follows
<1>16. ASSUME NEW ok \in BOOLEAN, Remove(ok) PROVE PlaceInv'
  BY <1>16, EventType, <1>a DEF Remove, PlaceInv, Follows
<1>17. ASSUME NEW ok \in BOOLEAN, Finish(ok) PROVE PlaceInv'
  BY <1>17, EventType, <1>a DEF Finish, PlaceInv, Follows
<1>18. CASE Parse
  BY <1>18, <1>a DEF Parse, PlaceInv, Follows
<1>19. CASE PumpReads
  BY <1>19, <1>a DEF PumpReads, PlaceInv, Follows
<1>20. CASE PumpEnds
  BY <1>20, <1>a DEF PumpEnds, PlaceInv, Follows
<1>21. CASE PumpBreaks
  BY <1>21, EventType, <1>a DEF PumpBreaks, PlaceInv, Follows
<1>22. CASE Deadline
  BY <1>22, <1>a DEF Deadline, PlaceInv, Follows
<1>23. CASE AgentPrints
  BY <1>23, <1>a DEF AgentPrints, PlaceInv, Follows
<1>24. ASSUME NEW code \in {"ok", "bad"}, AgentExits(code) PROVE PlaceInv'
  BY <1>24, <1>a DEF AgentExits, PlaceInv, Follows
<1>25. CASE StopJob
  BY <1>25, EventType, <1>a DEF StopJob, PlaceInv, Follows
<1>26. CASE DeleteJob
  BY <1>26, EventType, <1>a DEF DeleteJob, PlaceInv, Follows
<1>27. CASE DeleteRows
  BY <1>27, <1>a DEF DeleteRows, PlaceInv, Follows
<1>28. CASE Refresh
  BY <1>28, <1>a DEF Refresh, PlaceInv, Follows
<1>29. CASE Shutdown
  BY <1>29, EventType, <1>a DEF Shutdown, PlaceInv, Follows
<1>30. CASE Crash
  BY <1>30, EventType, <1>a DEF Crash, PlaceInv, Follows
<1>31. CASE Restart
  BY <1>31, <1>a DEF Restart, PlaceInv, Follows
<1>32. CASE UNCHANGED vars
  BY <1>a, <1>32 DEF vars, PlaceInv, Follows
<1> QED
  BY <1>1, <1>2, <1>3, <1>4, <1>5, <1>6, <1>7, <1>8, <1>9, <1>10, <1>11, <1>12,
     <1>13, <1>14, <1>15, <1>16, <1>17, <1>18, <1>19, <1>20, <1>21, <1>22,
     <1>23, <1>24, <1>25, <1>26, <1>27, <1>28, <1>29, <1>30, <1>31, <1>32
  DEF Next, Dispatch, Thread

(* Every step keeps the container the row's.                               *)
LEMMA BoxStep == TypeInv /\ BoxInv /\ [Next]_vars => BoxInv'
<1> SUFFICES ASSUME TypeInv, BoxInv, [Next]_vars PROVE BoxInv'
  OBVIOUS
<1>a. /\ PlaceInv /\ pc \in Places
      /\ box \in [state : {"none", "running", "exited"}, row : 0 .. MaxRuns,
                  code : {"none", "ok", "bad"}]
  BY DEF TypeInv, TypeOK
<1> USE DEF runVars, logVars, boxVars, uiVars, procVars, Goto
<1>1. CASE Begin
  BY <1>1, <1>a DEF Begin, BoxInv, Live, Follows
<1>2. CASE StartRow
  BY <1>2, <1>a DEF StartRow, BoxInv, Live, Follows
<1>3. CASE StartUnlogged
  BY <1>3, <1>a DEF StartUnlogged, BoxInv, Live, Follows
<1>4. CASE Launch
  BY <1>4, <1>a DEF Launch, NoBox, PlaceInv, BoxInv, Live, Follows
<1>5. CASE LaunchFails
  BY <1>5, <1>a DEF LaunchFails, NoBox, BoxInv, Live, Follows
<1>6. CASE TakeChunk
  BY <1>6, <1>a DEF TakeChunk, BoxInv, Live, Follows
<1>7. ASSUME NEW ok \in BOOLEAN, Flush(ok) PROVE BoxInv'
  BY <1>7, <1>a DEF Flush, BoxInv, Live, Follows
<1>8. CASE Expire
  BY <1>8, <1>a DEF Expire, PlaceInv, BoxInv, Live, Follows
<1>9. CASE SeeEnd
  BY <1>9, <1>a DEF SeeEnd, PlaceInv, BoxInv, Live, Follows
<1>10. CASE Drained
  BY <1>10, <1>a DEF Drained, PlaceInv, BoxInv, Live, Follows
<1>11. CASE KillLate
  BY <1>11, <1>a, ExitEffect DEF KillLate, PlaceInv, BoxInv, Live, Follows
<1>12. CASE Join
  BY <1>12, <1>a DEF Join, PlaceInv, BoxInv, Live, Follows
<1>13. CASE WaitTimesOut
  BY <1>13, <1>a DEF WaitTimesOut, PlaceInv, BoxInv, Live, Follows
<1>14. CASE ReadExitCode
  BY <1>14, <1>a DEF ReadExitCode, PlaceInv, BoxInv, Live, Follows
<1>15. CASE DockerFails
  BY <1>15, <1>a DEF DockerFails, PlaceInv, BoxInv, Live, Follows
<1>16. ASSUME NEW ok \in BOOLEAN, Remove(ok) PROVE BoxInv'
  BY <1>16, <1>a DEF Remove, PlaceInv, NoBox, BoxInv, Live, Follows
<1>17. ASSUME NEW ok \in BOOLEAN, Finish(ok) PROVE BoxInv'
  BY <1>17, <1>a DEF Finish, PlaceInv, BoxInv, Live, Follows
<1>18. CASE Parse
  BY <1>18, <1>a DEF Parse, PlaceInv, BoxInv, Live, Follows
<1>19. CASE PumpReads
  BY <1>19, <1>a DEF PumpReads, BoxInv, Live, Follows
<1>20. CASE PumpEnds
  BY <1>20, <1>a DEF PumpEnds, BoxInv, Live, Follows
<1>21. CASE PumpBreaks
  BY <1>21, <1>a DEF PumpBreaks, BoxInv, Live, Follows
<1>22. CASE Deadline
  BY <1>22, <1>a DEF Deadline, BoxInv, Live, Follows
<1>23. CASE AgentPrints
  BY <1>23, <1>a DEF AgentPrints, BoxInv, Live, Follows
<1>24. ASSUME NEW code \in {"ok", "bad"}, AgentExits(code) PROVE BoxInv'
  BY <1>24, ExitEffect, <1>a DEF AgentExits, PlaceInv, BoxInv, Live, Follows
<1>25. CASE StopJob
  BY <1>25, KillEffect, ExitEffect, <1>a DEF StopJob, BoxInv, Live, Follows
<1>26. CASE DeleteJob
  BY <1>26, KillEffect, ExitEffect, <1>a DEF DeleteJob, BoxInv, Live, Follows
<1>27. CASE DeleteRows
  BY <1>27, <1>a DEF DeleteRows, BoxInv, Live, Follows
<1>28. CASE Refresh
  BY <1>28, <1>a DEF Refresh, BoxInv, Live, Follows
<1>29. CASE Shutdown
  BY <1>29, <1>a DEF Shutdown, NoBox, BoxInv, Live, Follows
<1>30. CASE Crash
  BY <1>30, <1>a DEF Crash, BoxInv, Live, Follows
<1>31. CASE Restart
  BY <1>31, <1>a DEF Restart, BoxInv, Live, Follows
<1>32. CASE UNCHANGED vars
  BY <1>32 DEF vars, BoxInv, Live, Follows
<1> QED
  BY <1>1, <1>2, <1>3, <1>4, <1>5, <1>6, <1>7, <1>8, <1>9, <1>10, <1>11, <1>12,
     <1>13, <1>14, <1>15, <1>16, <1>17, <1>18, <1>19, <1>20, <1>21, <1>22,
     <1>23, <1>24, <1>25, <1>26, <1>27, <1>28, <1>29, <1>30, <1>31, <1>32
  DEF Next, Dispatch, Thread

(* An append makes a log longer, or fills it beyond the cap.               *)
LEMMA AppendedLength ==
  ASSUME NEW row \in Row, NEW text \in Output
  PROVE  /\ Len(row.out) \in Nat /\ Len(text) \in Nat
         /\ Len(row.out) + Len(text) <= Cap
              => Len(Appended(row, text).out) = Len(row.out) + Len(text)
         /\ Len(row.out) + Len(text) > Cap => Len(Appended(row, text).out) > Cap
<1>1. Output = Seq(Letters) /\ Cap \in Nat
  BY RunsAssumption DEF RunsAssumption, Output, Letters
<1>2. row.out \in Seq(Letters) /\ text \in Seq(Letters)
  BY <1>1 DEF Row
<1>3. Len(row.out) \in Nat /\ Len(text) \in Nat
  BY <1>2, LenProperties
<1>4. /\ row.out \o text \in Seq(Letters)
      /\ Len(row.out \o text) = Len(row.out) + Len(text)
  BY <1>2, ConcatProperties
<1>5. Appended(row, text).out = Capped(row.out \o text)
  BY AppendedType
<1>6. CASE Len(row.out) + Len(text) <= Cap
  BY <1>1, <1>3, <1>4, <1>5, <1>6, CappedIs
<1>7. CASE Len(row.out) + Len(text) > Cap
  <2>1. Len(Capped(row.out \o text)) = Cap + 1
    BY <1>4, <1>7, CappedIs
  <2> QED
    BY <1>1, <1>3, <1>5, <1>7, <2>1
<1> QED
  BY <1>1, <1>3, <1>6, <1>7

(* How a place with an open row is reached, and what a refresh shows.      *)
LEMMA PlaceKinds ==
  ASSUME TypeInv, [Next]_vars
  PROVE  /\ UNCHANGED shown \/ (shown' = rows /\ UNCHANGED rows)
         /\ count'.runs \in {count.runs, count.runs + 1}
         /\ pc' \in Opened =>
              \/ pc \in Opened /\ rid' = rid /\ (pc' = "launch" => pc = "launch")
              \/ /\ pc = "start" /\ pc' = "launch"
                 /\ rid' # 0 => /\ rid' \in RunIds
                                /\ rows'[rid'] = [status |-> "running", out |-> <<>>]
<1> USE DEF runVars, logVars, boxVars, uiVars, procVars, Goto
<1>1. UNCHANGED shown \/ (shown' = rows /\ UNCHANGED rows)
  BY DEF vars, Next, Dispatch, Thread, Begin, StartRow, StartUnlogged, Launch,
     LaunchFails,
      TakeChunk, Flush, Expire, SeeEnd, Drained, KillLate, Join, WaitTimesOut,
      ReadExitCode, DockerFails, Remove, Finish, Parse, PumpReads, PumpEnds,
      PumpBreaks, Deadline, AgentPrints, AgentExits, StopJob, DeleteJob,
      DeleteRows, Refresh, Shutdown, Crash, Restart
<1>2. count \in [runs : 0 .. MaxRuns, events : 0 .. MaxEvents]
  BY DEF TypeInv, TypeOK
<1>3. count'.runs \in {count.runs, count.runs + 1}
  BY <1>2 DEF Event, vars, Next, Dispatch, Thread, Begin, StartRow,
     StartUnlogged, Launch, LaunchFails,
      TakeChunk, Flush, Expire, SeeEnd, Drained, KillLate, Join, WaitTimesOut,
      ReadExitCode, DockerFails, Remove, Finish, Parse, PumpReads, PumpEnds,
      PumpBreaks, Deadline, AgentPrints, AgentExits, StopJob, DeleteJob,
      DeleteRows, Refresh, Shutdown, Crash, Restart
<1>4. CASE StartRow
  <2>1. rows \in [RunIds -> Row] /\ count.runs + 1 \in RunIds
    BY <1>4, StartsRun DEF StartRow, TypeInv, TypeOK
  <2>2. [NoRow EXCEPT !.status = "running"] = [status |-> "running", out |-> <<>>]
    BY DEF NoRow
  <2> QED
    BY <1>1, <1>3, <1>4, <2>1, <2>2 DEF StartRow
<1>5. CASE StartUnlogged
  BY <1>1, <1>3, <1>5 DEF StartUnlogged
<1>6. CASE UNCHANGED <<pc, rid>> \/ pc' \notin Opened
  BY <1>1, <1>3, <1>6
<1>7. CASE pc \in Opened /\ pc' # "launch" /\ rid' = rid
  BY <1>1, <1>3, <1>7
<1> QED
  BY <1>4, <1>5, <1>6, <1>7
  DEF Opened, Live, Follows, vars, Next, Dispatch, Thread, Begin, Launch,
      LaunchFails,
      TakeChunk, Flush, Expire, SeeEnd, Drained, KillLate, Join, WaitTimesOut,
      ReadExitCode, DockerFails, Remove, Finish, Parse, PumpReads, PumpEnds,
      PumpBreaks, Deadline, AgentPrints, AgentExits, StopJob, DeleteJob,
      DeleteRows, Refresh, Shutdown, Crash, Restart

(* Every step keeps rows blank until they are opened and open until they   *)
(* are finished.                                                           *)
LEMMA RowStep == TypeInv /\ RowInv /\ [Next]_vars => RowInv'
<1> SUFFICES ASSUME TypeInv, RowInv, [Next]_vars PROVE RowInv'
  OBVIOUS
<1>1. /\ rows \in [RunIds -> Row] /\ shown \in [RunIds -> Row]
      /\ rid \in 0 .. MaxRuns /\ count.runs \in 0 .. MaxRuns
      /\ MaxRuns \in Nat
  BY RunsAssumption DEF RunsAssumption, TypeInv, TypeOK
<1>2. \A r \in RunIds : RowChange(r)
  BY RowKinds
<1>3. \A r \in RunIds : Appended(rows[r], Batch(stream.flushed, stream.taken)).status
                         = rows[r].status
  BY <1>1, BatchType, AppendedType
<1>4. ASSUME NEW r \in RunIds, r > count'.runs
      PROVE  rows'[r] = NoRow /\ shown'[r] = NoRow
  <2>1. r > count.runs
    BY <1>1, <1>4, PlaceKinds DEF RunIds
  <2>2. rows[r] = NoRow /\ shown[r] = NoRow
    BY <2>1 DEF RowInv
  <2>3. rows'[r] = NoRow
    BY <1>1, <1>2, <1>4, <2>2 DEF RowChange, NoRow, RunIds
  <2> QED
    BY <2>2, <2>3, PlaceKinds
<1>5. ASSUME NEW r \in RunIds
      PROVE  rows'[r].status = "none" => rows'[r] = NoRow
  BY <1>2, <1>3 DEF RowChange, RowInv
<1>6. ASSUME NEW r \in RunIds
      PROVE  shown'[r].status = "none" => shown'[r] = NoRow
  BY PlaceKinds DEF RowInv
<1>7. ASSUME pc' \in Opened, rid' # 0
      PROVE  /\ rows'[rid'].status \notin Ended
             /\ pc' = "launch" => rows'[rid'].out = <<>>
  <2>1. CASE pc \in Opened /\ rid' = rid /\ (pc' = "launch" => pc = "launch")
    <3>1. rid \in RunIds /\ rows[rid].status \notin Ended
      BY <1>1, <1>7, <2>1 DEF RowInv, RunIds
    <3>2. pc' = "launch" => rows[rid].out = <<>>
      BY <1>7, <2>1 DEF RowInv
    <3>3. RowChange(rid) /\ pc # "start"
      BY <1>2, <2>1, <3>1 DEF Opened, Live, Follows
    <3> QED
      BY <1>3, <1>7, <2>1, <3>1, <3>2, <3>3 DEF RowChange, NoRow, Ended
  <2>2. CASE /\ pc = "start" /\ pc' = "launch"
             /\ rid' # 0 => /\ rid' \in RunIds
                            /\ rows'[rid'] = [status |-> "running", out |-> <<>>]
    BY <1>7, <2>2 DEF Ended
  <2> QED
    BY <1>7, <2>1, <2>2, PlaceKinds
<1> QED
  BY <1>4, <1>5, <1>6, <1>7 DEF RowInv, Opened

(* Every step keeps a follow that ended in time complete.                  *)
LEMMA PumpStep == TypeInv /\ PumpInv /\ [Next]_vars => PumpInv'
<1> SUFFICES ASSUME TypeInv, PumpInv, [Next]_vars PROVE PumpInv'
  OBVIOUS
<1>a. /\ PlaceInv /\ pc \in Places
      /\ stream \in [printed : 0 .. MaxChunks, read : 0 .. MaxChunks,
                     taken : 0 .. MaxChunks, flushed : 0 .. MaxChunks]
  BY DEF TypeInv, TypeOK
<1> USE DEF runVars, logVars, boxVars, uiVars, procVars, Goto
<1>1. CASE Begin
  BY <1>1, <1>a DEF Begin, PumpInv, PlaceInv
<1>2. CASE StartRow
  BY <1>2, <1>a DEF StartRow, PumpInv, PlaceInv
<1>3. CASE StartUnlogged
  BY <1>3, <1>a DEF StartUnlogged, PumpInv, PlaceInv
<1>4. CASE Launch
  BY <1>4, <1>a DEF Launch, NoLog, PumpInv, PlaceInv
<1>5. CASE LaunchFails
  BY <1>5, <1>a DEF LaunchFails, PumpInv, PlaceInv
<1>6. CASE TakeChunk
  BY <1>6, <1>a DEF TakeChunk, PumpInv, PlaceInv
<1>7. ASSUME NEW ok \in BOOLEAN, Flush(ok) PROVE PumpInv'
  BY <1>7, <1>a DEF Flush, PumpInv, PlaceInv
<1>8. CASE Expire
  BY <1>8, <1>a DEF Expire, PumpInv, PlaceInv
<1>9. CASE SeeEnd
  BY <1>9, <1>a DEF SeeEnd, PumpInv, PlaceInv
<1>10. CASE Drained
  BY <1>10, <1>a DEF Drained, PumpInv, PlaceInv
<1>11. CASE KillLate
  BY <1>11, <1>a DEF KillLate, PumpInv, PlaceInv
<1>12. CASE Join
  BY <1>12, <1>a DEF Join, PumpInv, PlaceInv
<1>13. CASE WaitTimesOut
  BY <1>13, <1>a DEF WaitTimesOut, PumpInv, PlaceInv
<1>14. CASE ReadExitCode
  BY <1>14, <1>a DEF ReadExitCode, PumpInv, PlaceInv
<1>15. CASE DockerFails
  BY <1>15, <1>a DEF DockerFails, PumpInv, PlaceInv
<1>16. ASSUME NEW ok \in BOOLEAN, Remove(ok) PROVE PumpInv'
  BY <1>16, <1>a DEF Remove, PumpInv, PlaceInv
<1>17. ASSUME NEW ok \in BOOLEAN, Finish(ok) PROVE PumpInv'
  BY <1>17, <1>a DEF Finish, PumpInv, PlaceInv
<1>18. CASE Parse
  BY <1>18, <1>a DEF Parse, PumpInv, PlaceInv
<1>19. CASE PumpReads
  BY <1>19, <1>a DEF PumpReads, PumpInv, PlaceInv
<1>20. CASE PumpEnds
  BY <1>20, <1>a DEF PumpEnds, PumpInv, PlaceInv
<1>21. CASE PumpBreaks
  BY <1>21, <1>a DEF PumpBreaks, PumpInv, PlaceInv
<1>22. CASE Deadline
  BY <1>22, <1>a DEF Deadline, PumpInv, PlaceInv
<1>23. CASE AgentPrints
  BY <1>23, <1>a DEF AgentPrints, PumpInv, PlaceInv
<1>24. ASSUME NEW code \in {"ok", "bad"}, AgentExits(code) PROVE PumpInv'
  BY <1>24, <1>a DEF AgentExits, PumpInv, PlaceInv
<1>25. CASE StopJob
  BY <1>25, <1>a DEF StopJob, PumpInv, PlaceInv
<1>26. CASE DeleteJob
  BY <1>26, <1>a DEF DeleteJob, PumpInv, PlaceInv
<1>27. CASE DeleteRows
  BY <1>27, <1>a DEF DeleteRows, PumpInv, PlaceInv
<1>28. CASE Refresh
  BY <1>28, <1>a DEF Refresh, PumpInv, PlaceInv
<1>29. CASE Shutdown
  BY <1>29, <1>a DEF Shutdown, PumpInv, PlaceInv
<1>30. CASE Crash
  BY <1>30, <1>a DEF Crash, PumpInv, PlaceInv
<1>31. CASE Restart
  BY <1>31, <1>a DEF Restart, PumpInv, PlaceInv
<1>32. CASE UNCHANGED vars
  BY <1>32 DEF vars, PumpInv, PlaceInv
<1> QED
  BY <1>1, <1>2, <1>3, <1>4, <1>5, <1>6, <1>7, <1>8, <1>9, <1>10, <1>11, <1>12,
     <1>13, <1>14, <1>15, <1>16, <1>17, <1>18, <1>19, <1>20, <1>21, <1>22,
     <1>23, <1>24, <1>25, <1>26, <1>27, <1>28, <1>29, <1>30, <1>31, <1>32
  DEF Next, Dispatch, Thread

(* Every step keeps what is shown explained.                               *)
LEMMA ViewStep ==
  TypeInv /\ RowInv /\ ViewInv /\ [Next]_vars => ViewInv'
<1> SUFFICES ASSUME TypeInv, RowInv, ViewInv, [Next]_vars, NEW r \in RunIds
             PROVE  /\ shown'[r].status \in Ended => rows'[r] \in {shown'[r], NoRow}
                    /\ shown'[r].status = "running" /\ rows'[r].status = "running"
                         => \/ shown'[r].out = rows'[r].out
                            \/ Len(shown'[r].out) < Len(rows'[r].out)
                            \/ Len(rows'[r].out) > Cap
  BY DEF ViewInv
<1>1. CASE shown' = rows /\ rows' = rows
  BY <1>1
<1>2. CASE shown' = shown
  <2>1. /\ shown[r].status \in Ended => rows[r] \in {shown[r], NoRow}
        /\ shown[r].status = "running" /\ rows[r].status = "running"
             => \/ shown[r].out = rows[r].out
                \/ Len(shown[r].out) < Len(rows[r].out)
                \/ Len(rows[r].out) > Cap
    BY DEF ViewInv
  <2>2. RowChange(r)
    BY RowKinds
  <2>3. CASE rows'[r] \in {rows[r], NoRow}
    BY <1>2, <2>1, <2>3 DEF NoRow
  <2>4. CASE r = count.runs + 1
    <3>1. shown[r] = NoRow
      BY <2>4 DEF RowInv, TypeInv, TypeOK, RunIds
    <3> QED
      BY <1>2, <3>1 DEF NoRow, Ended
  <2>5. CASE /\ pc \in {"follow", "drain"} /\ r = rid /\ rows[r].status # "none"
             /\ stream.flushed < stream.taken
             /\ rows'[r] = Appended(rows[r], Batch(stream.flushed, stream.taken))
    <3> DEFINE text == Batch(stream.flushed, stream.taken)
    <3>1. rows[r] \in Row /\ shown[r] \in Row
      BY DEF TypeInv, TypeOK
    <3>2. r # 0 /\ rows[r].status \notin Ended
      BY <2>5, RunsAssumption DEF RunsAssumption, RowInv, Opened, Live, Follows,
         RunIds
    <3>3. rows[r].status = "running" /\ shown[r].status \notin Ended
      BY <2>1, <2>5, <3>1, <3>2 DEF Row, NoRow
    <3>4. text \in Output /\ Len(text) > 0
      BY <2>5, BatchType DEF TypeInv, TypeOK
    <3> HIDE DEF text
    <3>5. /\ Len(rows[r].out) \in Nat /\ Len(text) \in Nat
          /\ Len(rows[r].out) + Len(text) <= Cap
               => Len(rows'[r].out) = Len(rows[r].out) + Len(text)
          /\ Len(rows[r].out) + Len(text) > Cap => Len(rows'[r].out) > Cap
      BY <2>5, <3>1, <3>4, AppendedLength DEF text
    <3>6. Len(shown[r].out) \in Nat
      BY <3>1, LenProperties DEF Row, Output
    <3>7. Len(rows'[r].out) > Cap \/ Len(rows[r].out) < Len(rows'[r].out)
      BY <3>4, <3>5, RunsAssumption DEF RunsAssumption
    <3>8. CASE Len(rows'[r].out) > Cap
      BY <1>2, <3>3, <3>8
    <3>9. CASE ~(Len(rows'[r].out) > Cap)
      <4>1. /\ Len(rows'[r].out) = Len(rows[r].out) + Len(text)
            /\ Len(rows[r].out) <= Cap
        BY <3>4, <3>5, <3>9, RunsAssumption DEF RunsAssumption
      <4>2. shown[r].status = "running" =>
              shown[r].out = rows[r].out \/ Len(shown[r].out) < Len(rows[r].out)
        BY <2>1, <3>3, <3>5, <4>1, RunsAssumption DEF RunsAssumption
      <4>3. shown[r].status = "running" => Len(shown[r].out) < Len(rows'[r].out)
        BY <3>4, <3>5, <3>6, <4>1, <4>2
      <4> QED
        BY <1>2, <3>3, <4>3
    <3> QED
      BY <3>8, <3>9
  <2>6. CASE /\ pc = "finish" /\ r = rid /\ rows[r].status # "none"
             /\ rows'[r].status = (IF exc = "none" THEN "done" ELSE "failed")
    <3>1. r # 0 /\ rows[r].status \notin Ended
      BY <2>6, RunsAssumption DEF RunsAssumption, RowInv, Opened, Live, Follows,
         RunIds
    <3>2. shown[r].status \notin Ended
      BY <2>1, <2>6, <3>1 DEF NoRow
    <3> QED
      BY <1>2, <2>6, <3>2
  <2> QED
    BY <2>2, <2>3, <2>4, <2>5, <2>6 DEF RowChange
<1> QED
  BY <1>1, <1>2, PlaceKinds

(* Only a launch makes a container run, and only a running one gets an     *)
(* exit code.                                                              *)
LEMMA BoxKinds ==
  ASSUME TypeInv, [Next]_vars
  PROVE  /\ box'.state = "running" =>
              box' = box \/ (pc = "launch" /\ box'.row = rid /\ rows' = rows)
         /\ \A r \in RunIds : \/ ended'[r] = ended[r]
                              \/ box.state = "running" /\ box.row = r
<1> USE DEF runVars, logVars, boxVars, uiVars, procVars, Goto
<1>1. CASE UNCHANGED <<box, ended>>
  BY <1>1
<1>2. CASE Launch
  BY <1>2 DEF Launch
<1>3. CASE LaunchFails
  BY <1>3 DEF LaunchFails, NoBox
<1>4. CASE KillLate
  BY <1>4, ExitEffect DEF KillLate
<1>5. ASSUME NEW ok \in BOOLEAN, Remove(ok)
      PROVE  /\ box'.state = "running" => box' = box
             /\ ended' = ended
  BY <1>5 DEF Remove, NoBox
<1>6. ASSUME NEW code \in {"ok", "bad"}, AgentExits(code)
      PROVE  /\ box'.state # "running"
             /\ \A r \in RunIds : \/ ended'[r] = ended[r]
                                  \/ box.state = "running" /\ box.row = r
  BY <1>6, ExitEffect DEF AgentExits
<1>7. CASE StopJob
  BY <1>7, KillEffect, ExitEffect DEF StopJob
<1>8. CASE DeleteJob
  BY <1>8, KillEffect, ExitEffect DEF DeleteJob
<1>9. CASE Shutdown
  BY <1>9 DEF Shutdown, NoBox, Follows
<1> QED
  BY <1>1, <1>2, <1>3, <1>4, <1>5, <1>6, <1>7, <1>8, <1>9
  DEF vars, Next, Dispatch, Thread, Begin, StartRow, StartUnlogged, TakeChunk,
      Flush,
      Expire, SeeEnd, Drained, Join, WaitTimesOut, ReadExitCode, DockerFails, Finish,
      Parse, PumpReads, PumpEnds, PumpBreaks, Deadline, AgentPrints, DeleteRows,
      Refresh, Crash, Restart

(* A finished row was finished before, or is finished by run itself.       *)
LEMMA EndedFrom ==
  ASSUME TypeInv, RowInv, [Next]_vars, NEW r \in RunIds, rows'[r].status \in Ended
  PROVE  \/ rows'[r] = rows[r]
         \/ /\ pc = "finish" /\ r = rid /\ rows[r].status \notin Ended
            /\ rows'[r].status = "done" => exc = "none"
<1>1. RowChange(r)
  BY RowKinds
<1>2. rid # 0 /\ pc \in Opened => rows[rid].status \notin Ended
  BY DEF RowInv
<1>3. r # 0
  BY RunsAssumption DEF RunsAssumption, RunIds
<1>4. Appended(rows[r], Batch(stream.flushed, stream.taken)).status = rows[r].status
  BY BatchType, AppendedType DEF TypeInv, TypeOK
<1> QED
  BY <1>1, <1>2, <1>3, <1>4 DEF RowChange, NoRow, Ended, Opened, Live, Follows

(* A row is finished only when its container has stopped, and as done only *)
(* on an exit code 0.                                                      *)
LEMMA CleanStep ==
  TypeInv /\ BoxInv /\ RowInv /\ CleanInv /\ [Next]_vars => CleanInv'
<1> SUFFICES ASSUME TypeInv, BoxInv, RowInv, CleanInv, [Next]_vars, NEW r \in RunIds
             PROVE  /\ rows'[r].status \in Ended
                          => ~(box'.state = "running" /\ box'.row = r)
                    /\ rows'[r].status = "done" => ended'[r] = "ok"
  BY DEF CleanInv, TerminalAfterContainer, DoneMeansClean
<1>1. SUFFICES ASSUME rows'[r].status \in Ended
               PROVE  /\ ~(box'.state = "running" /\ box'.row = r)
                      /\ rows'[r].status = "done" => ended'[r] = "ok"
  BY DEF Ended
<1>2. exc \in {"none", "timeout", "failed", "other"} /\ r # 0
  BY RunsAssumption DEF RunsAssumption, RunIds, TypeInv, TypeOK
<1>3. ~(box.state = "running" /\ box.row = r)
  <2>1. CASE rows'[r] = rows[r]
    BY <1>1, <2>1 DEF CleanInv, TerminalAfterContainer
  <2>2. CASE pc = "finish" /\ r = rid
    BY <2>2 DEF BoxInv, TypeInv, PlaceInv
  <2> QED
    BY <1>1, <2>1, <2>2, EndedFrom
<1>4. ended'[r] = ended[r]
  BY <1>3, BoxKinds
<1>5. ~(box'.state = "running" /\ box'.row = r)
  <2>1. CASE box' = box
    BY <1>3, <2>1
  <2>2. CASE pc = "launch" /\ box'.row = rid /\ rows' = rows
    BY <1>1, <1>2, <2>2 DEF RowInv, Opened
  <2> QED
    BY <2>1, <2>2, BoxKinds
<1>6. rows'[r].status = "done" => ended[r] = "ok"
  <2>1. CASE rows'[r] = rows[r]
    BY <2>1 DEF CleanInv, DoneMeansClean
  <2>2. CASE /\ pc = "finish" /\ r = rid
             /\ rows'[r].status = "done" => exc = "none"
    BY <1>2, <2>2 DEF BoxInv
  <2> QED
    BY <1>1, <2>1, <2>2, EndedFrom
<1> QED
  BY <1>4, <1>5, <1>6
(* Every step keeps the log the tail of what was flushed: a flush by       *)
(* TailGrows, the end of a run because all was flushed.                    *)
LEMMA LogStep ==
  TypeInv /\ RowInv /\ PumpInv /\ LogFollowsStream /\ [Next]_vars => LogFollowsStream'
<1> SUFFICES ASSUME TypeInv, RowInv, PumpInv, LogFollowsStream, [Next]_vars,
                    rid' # 0, ~lost'
             PROVE  /\ rows'[rid'].status = "running" /\ pc' \in Live \ {"wait"}
                         => rows'[rid'].out = TailOf(stream'.flushed)
                    /\ rows'[rid'].status = "done" /\ pc' = "parse"
                         => rows'[rid'].out = TailOf(stream'.printed)
  BY DEF LogFollowsStream, Live, Follows
<1> USE DEF runVars, logVars, boxVars, uiVars, procVars, Goto
<1>1. /\ rows \in [RunIds -> Row] /\ rid \in 0 .. MaxRuns
      /\ stream \in [printed : 0 .. MaxChunks, read : 0 .. MaxChunks,
                     taken : 0 .. MaxChunks, flushed : 0 .. MaxChunks]
      /\ MaxRuns \in Nat /\ MaxChunks \in Nat
  BY RunsAssumption DEF RunsAssumption, TypeInv, TypeOK
<1>2. rid # 0 => rid \in RunIds
  BY <1>1 DEF RunIds
<1>3. rid # 0 /\ ~lost =>
        /\ rows[rid].status = "running" /\ pc \in Live \ {"wait"}
             => rows[rid].out = TailOf(stream.flushed)
        /\ rows[rid].status = "done" /\ pc = "parse"
             => rows[rid].out = TailOf(stream.printed)
  BY DEF LogFollowsStream, Live, Follows
<1>4. CASE Launch
  <2>1. /\ rows' = rows /\ rid' = rid /\ pc = "launch" /\ pc' \in {"wait", "follow"}
        /\ stream'.flushed = 0
    BY <1>4 DEF Launch, NoLog
  <2>2. rows[rid].out = <<>>
    BY <2>1 DEF RowInv
  <2>3. TailOf(0) = <<>>
    <3>1. 0 \in 0 .. MaxChunks /\ 0 <= Cap
      BY RunsAssumption DEF RunsAssumption
    <3>2. TailOf(0) \in Seq(Letters) /\ TailOf(0) = Chunks(0) /\ Len(Chunks(0)) = 0
      BY <3>1, TailIs, ChunksAre
    <3> QED
      BY <3>2, EmptySeq
  <2> QED
    BY <2>1, <2>2, <2>3
<1>5. ASSUME NEW ok \in BOOLEAN, Flush(ok),
             pc' \in Live, rows'[rid'].status = "running"
      PROVE  rows'[rid'].out = TailOf(stream'.flushed)
  <2>1. /\ rid' = rid /\ pc \in {"follow", "drain"} /\ pc' = pc
        /\ stream.flushed < stream.taken /\ stream'.flushed = stream.taken
        /\ lost' = lost
        /\ Edit(rid, Appended(rows[rid], SubSeq(Chunks(stream.taken),
                              stream.flushed + 1, stream.taken)))
    BY <1>1, <1>5 DEF Flush
  <2>2. rid \in RunIds /\ rows[rid] \in Row
    BY <1>1, <1>2, <2>1
  <2>3. CASE rows[rid].status = "none"
    <3>1. rows' = rows
      BY <2>1, <2>3 DEF Edit
    <3> QED
      BY <1>5, <2>1, <2>3, <3>1
  <2>4. CASE rows[rid].status # "none"
    <3>1. rows'[rid] = Appended(rows[rid], Batch(stream.flushed, stream.taken))
      BY <2>1, <2>4, FlushEffect
    <3>2. /\ rows'[rid].status = rows[rid].status
          /\ rows'[rid].out
               = Capped(rows[rid].out \o Batch(stream.flushed, stream.taken))
      BY <2>2, <3>1, BatchType, AppendedType
    <3>3. rows[rid].out = TailOf(stream.flushed)
      BY <1>3, <1>5, <2>1, <3>2 DEF Live, Follows
    <3>4. stream.taken \in 0 .. MaxChunks /\ stream.flushed \in 0 .. stream.taken
      BY <1>1, <2>1
    <3> QED
      BY <2>1, <3>2, <3>3, <3>4, TailGrows
  <2> QED
    BY <2>3, <2>4
<1>6. ASSUME NEW ok \in BOOLEAN, Finish(ok),
             pc' = "parse", rows'[rid'].status = "done"
      PROVE  rows'[rid'].out = TailOf(stream'.printed)
  <2>1. /\ rid' = rid /\ lost' = lost /\ stream' = stream /\ pc = "finish"
        /\ exc = "none"
    BY <1>6 DEF Finish
  <2>2. rows[rid].status \notin Ended /\ rid \in RunIds
    BY <1>2, <2>1 DEF RowInv, Opened, Live
  <2>3. RowChange(rid)
    BY <2>2, RowKinds
  <2>4. rows[rid].status # "none" /\ rows'[rid].out = rows[rid].out
    BY <1>6, <2>1, <2>2, <2>3 DEF RowChange, NoRow, Ended
  <2>5. rows[rid].status = "running"
    BY <1>1, <2>2, <2>4 DEF Row
  <2>6. rows[rid].out = TailOf(stream.flushed)
    BY <1>3, <2>1, <2>5 DEF Live
  <2>7. stream.flushed = stream.printed
    BY <2>1 DEF PumpInv
  <2> QED
    BY <2>1, <2>4, <2>6, <2>7
<1>7. CASE DeleteRows
  BY <1>2, <1>7 DEF DeleteRows, NoRow
<1>8. CASE pc' \notin (Live \ {"wait"}) \cup {"parse"}
  BY <1>8
<1>9. CASE /\ UNCHANGED <<rid, lost, rows, stream>>
           /\ pc \in Live /\ pc' \in Live
  <2>1. pc # "wait"
    BY <1>9 DEF TypeInv, PlaceInv
  <2> QED
    BY <1>3, <1>9, <2>1 DEF Live, Follows
<1>10. CASE /\ UNCHANGED <<rid, lost, rows, pc>> /\ stream'.flushed = stream.flushed
            /\ pc = "parse" => stream'.printed = stream.printed
  BY <1>3, <1>10
<1>11. CASE UNCHANGED vars
  BY <1>10, <1>11 DEF vars
<1>12. CASE Expire \/ SeeEnd \/ Drained \/ KillLate \/ Join \/ WaitTimesOut
            \/ ReadExitCode \/ DockerFails \/ (\E ok \in BOOLEAN : Remove(ok))
  <2>1. /\ UNCHANGED <<rid, lost, rows, stream>>
        /\ pc \in Live /\ pc' \in Live \cup {"idle"}
    BY <1>12 DEF Expire, SeeEnd, Drained, KillLate, Join, WaitTimesOut,
       ReadExitCode,
                 DockerFails, Remove, Live, Follows
  <2> QED
    BY <1>8, <1>9, <2>1 DEF Live, Follows
<1>13. CASE AgentPrints
  <2>1. pc = "parse" => FALSE
    BY <1>13 DEF AgentPrints, TypeInv, PlaceInv, PumpInv
  <2> QED
    BY <1>1, <1>10, <1>13, <2>1 DEF AgentPrints
<1>14. CASE TakeChunk \/ PumpReads
  BY <1>1, <1>10, <1>14 DEF TakeChunk, PumpReads
<1>15. CASE \/ PumpEnds \/ PumpBreaks \/ Deadline \/ StopJob \/ DeleteJob \/ Refresh
            \/ Restart \/ (\E code \in {"ok", "bad"} : AgentExits(code))
  BY <1>10, <1>15
  DEF PumpEnds, PumpBreaks, Deadline, StopJob, DeleteJob, Refresh, Restart,
      AgentExits
<1>16. CASE Begin \/ StartRow \/ StartUnlogged \/ LaunchFails \/ Shutdown \/ Crash
  BY <1>8, <1>16
  DEF Begin, StartRow, StartUnlogged, LaunchFails, Shutdown, Crash, Live,
      Follows
<1>17. ASSUME Parse PROVE pc' \notin (Live \ {"wait"}) \cup {"parse"}
  BY <1>17 DEF Parse, Live, Follows
<1>18. ASSUME NEW ok \in BOOLEAN, Flush(ok) PROVE pc' # "parse"
  BY <1>18 DEF Flush
<1>19. ASSUME NEW ok \in BOOLEAN, Finish(ok) PROVE pc' \notin Live
  BY <1>19 DEF Finish, Live, Follows
<1> QED
  BY <1>4, <1>5, <1>6, <1>7, <1>8, <1>11, <1>12, <1>13, <1>14, <1>15, <1>16,
     <1>17,
     <1>18, <1>19
  DEF Next, Dispatch, Thread
-----------------------------------------------------------------------------
(* The invariants hold in the initial state.                               *)
LEMMA InitHolds ==
  Init => AllInv /\ CleanInv /\ LogFollowsStream /\ ViewInv
<1> SUFFICES ASSUME Init PROVE AllInv /\ CleanInv /\ LogFollowsStream /\ ViewInv
  OBVIOUS
<1>1. TypeInv
  <2>1. NoRow \in Row
    BY RunsAssumption DEF RunsAssumption, NoRow, Row, Output
  <2>2. NoBox \in [state : {"none", "running", "exited"}, row : 0 .. MaxRuns,
                   code : {"none", "ok", "bad"}]
    BY RunsAssumption DEF RunsAssumption, NoBox
  <2>3. /\ NoLog \in [printed : 0 .. MaxChunks, read : 0 .. MaxChunks,
                      taken : 0 .. MaxChunks, flushed : 0 .. MaxChunks]
        /\ NoLog.flushed <= NoLog.taken /\ NoLog.taken <= NoLog.read
        /\ NoLog.read <= NoLog.printed
    BY RunsAssumption DEF RunsAssumption, NoLog
  <2>4. TypeOK
    <3>1. "idle" \in Places /\ 0 \in 0 .. MaxRuns /\ 0 \in 0 .. MaxEvents
      BY RunsAssumption DEF RunsAssumption, Places
    <3>2. rows \in [RunIds -> Row] /\ shown \in [RunIds -> Row]
      BY <2>1 DEF Init
    <3>3. ended \in [RunIds -> {"none", "ok", "bad"}]
      BY DEF Init
    <3>4. count \in [runs : 0 .. MaxRuns, events : 0 .. MaxEvents]
      BY <3>1 DEF Init
    <3> QED
      BY <2>2, <2>3, <3>1, <3>2, <3>3, <3>4 DEF Init, TypeOK
  <2> QED
    BY <2>3, <2>4 DEF Init, TypeInv, PlaceInv, OrderInv, Follows
<1>2. BoxInv
  BY DEF Init, BoxInv, NoBox, Live, Follows
<1>3. RowInv
  BY DEF Init, RowInv, NoRow, Opened, Live, Follows
<1>4. PumpInv
  BY DEF Init, PumpInv
<1>5. CleanInv
  BY DEF Init, CleanInv, TerminalAfterContainer, DoneMeansClean, NoRow, Ended
<1>6. LogFollowsStream
  BY DEF Init, LogFollowsStream
<1>7. ViewInv
  BY DEF Init, ViewInv, NoRow, Ended
<1> QED
  BY <1>1, <1>2, <1>3, <1>4, <1>5, <1>6, <1>7 DEF AllInv

(* The inductive invariants hold throughout,                               *)
LEMMA AllInvHolds == Spec => []AllInv
<1>1. Init => AllInv
  BY InitHolds
<1>2. AllInv /\ [Next]_vars => AllInv'
  BY TypeStep, PlaceStep, OrderStep, BoxStep, RowStep, PumpStep
  DEF AllInv, TypeInv
<1> QED
  BY <1>1, <1>2, PTL DEF Spec

(* Type correctness of the dispatch, its container, its rows and the       *)
(* timeline (dispatcher.py, agent_runs.py).                                *)
THEOREM TypeCorrect == Spec => []TypeOK
<1>1. AllInv => TypeOK
  BY DEF AllInv, TypeInv
<1> QED
  BY <1>1, AllInvHolds, PTL

(* and with them that finished rows are clean.                             *)
LEMMA CleanHolds == Spec => []CleanInv
<1>1. Init => CleanInv
  BY InitHolds
<1>2. AllInv /\ CleanInv /\ [Next]_vars => CleanInv'
  BY CleanStep DEF AllInv
<1> QED
  BY <1>1, <1>2, AllInvHolds, PTL DEF Spec

(* A row is terminal only once its container has stopped, however kills,   *)
(* deadlines, removals and restarts fall (dockerctl.py).                   *)
THEOREM RowAfterContainer == Spec => []TerminalAfterContainer
<1>1. CleanInv => TerminalAfterContainer
  BY DEF CleanInv
<1> QED
  BY <1>1, CleanHolds, PTL

(* A row says done only of a container that exited by itself with code 0   *)
(* (Dispatcher.run).                                                       *)
THEOREM DoneIsClean == Spec => []DoneMeansClean
<1>1. CleanInv => DoneMeansClean
  BY DEF CleanInv
<1> QED
  BY <1>1, CleanHolds, PTL

(* A row holds the tail of the stream as far as it was flushed, and all of *)
(* it when the run returns, for any cap and any batches (_follow_stdout,   *)
(* append_output).                                                         *)
THEOREM LogIsStream == Spec => []LogFollowsStream
<1>1. Init => LogFollowsStream
  BY InitHolds
<1>2. AllInv /\ LogFollowsStream /\ [Next]_vars => LogFollowsStream'
  BY LogStep DEF AllInv
<1> QED
  BY <1>1, <1>2, AllInvHolds, PTL DEF Spec

(* No step writes to a finished row, but for the deletion of its job       *)
(* (finish_run).                                                           *)
THEOREM HistoryIsFinal == Spec => FinalRow
<1> DEFINE Final == \A r \in RunIds :
                      rows[r].status \in Ended => rows'[r] \in {rows[r], NoRow}
<1>1. AllInv /\ [Next]_vars => Final
  <2> SUFFICES ASSUME TypeInv, RowInv, [Next]_vars, NEW r \in RunIds,
                      rows[r].status \in Ended
               PROVE  rows'[r] \in {rows[r], NoRow}
    BY DEF AllInv
  <2>1. RowChange(r)
    BY RowKinds
  <2>2. r # count.runs + 1
    BY DEF RowInv, NoRow, Ended, TypeInv, TypeOK, RunIds
  <2>3. ~(pc \in Opened /\ r = rid)
    BY RunsAssumption DEF RunsAssumption, RowInv, RunIds
  <2> QED
    BY <2>1, <2>2, <2>3 DEF RowChange, Opened, Live, Follows
<1>2. AllInv /\ [Next]_vars => [Final]_vars
  BY <1>1
<1> QED
  BY <1>2, AllInvHolds, PTL DEF Spec, FinalRow

(* The dialog renders again whenever what it shows changed, except while a *)
(* running row is at the cap (_show_logs).                                 *)
THEOREM ViewIsFresh == Spec => []ViewNotStale
<1>1. Init => ViewInv
  BY InitHolds
<1>2. AllInv /\ ViewInv /\ [Next]_vars => ViewInv'
  BY ViewStep DEF AllInv
<1>3. AllInv /\ ViewInv => ViewNotStale
  <2> SUFFICES ASSUME TypeInv, RowInv, ViewInv, Signature(shown) = Signature(rows),
                      NEW r \in RunIds
               PROVE  \/ shown[r] = rows[r]
                      \/ rows[r].status = "running" /\ Len(rows[r].out) > Cap
    BY DEF AllInv, ViewNotStale
  <2>1. rows[r] \in Row /\ shown[r] \in Row
    BY DEF TypeInv, TypeOK
  <2>2. shown[r].status = rows[r].status /\ Len(shown[r].out) = Len(rows[r].out)
    <3>1. Signature(shown)[r] = Signature(rows)[r]
      OBVIOUS
    <3> QED
      BY <3>1 DEF Signature
  <2>3. Len(rows[r].out) \in Nat
    BY <2>1, LenProperties DEF Row, Output
  <2>4. CASE rows[r].status = "none"
    BY <2>2, <2>4 DEF RowInv
  <2>5. CASE rows[r].status \in Ended
    BY <2>2, <2>5 DEF ViewInv, NoRow, Ended
  <2>6. CASE rows[r].status = "running"
    <3>1. shown[r].out = rows[r].out \/ Len(rows[r].out) > Cap
      BY <2>2, <2>3, <2>6 DEF ViewInv
    <3> QED
      BY <2>1, <2>2, <2>6, <3>1 DEF Row
  <2> QED
    BY <2>1, <2>4, <2>5, <2>6 DEF Row
<1> QED
  BY <1>1, <1>2, <1>3, AllInvHolds, PTL DEF Spec
=============================================================================
