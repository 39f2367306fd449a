------------------------------ MODULE JobLedger ------------------------------
(***************************************************************************)
(* What the job table promises to everyone who looks at it: each id moves  *)
(* through one lifecycle, one atomic step at a time, and two jobs of the   *)
(* same dedupe key are never active together.  Nothing is said of the      *)
(* coroutines that read first and write later; module JobQueue models      *)
(* those and is shown to implement this specification.                     *)
(***************************************************************************)
CONSTANTS
  JobIds,   (* primary keys of table jobs                                  *)
  Keys,     (* dedupe keys                                                 *)
  NoKey     (* dedupe_key IS NULL                                          *)

VARIABLES
  status,   (* status[j]: job j's status, "absent" when there is no row    *)
  key       (* key[j]: its dedupe key                                      *)

ledger == <<status, key>>

Active   == {"queued", "running"}
Terminal == {"done", "failed", "stopped"}

LedgerTypeOK ==
  /\ status \in [JobIds -> Active \cup Terminal \cup {"absent"}]
  /\ key \in [JobIds -> Keys \cup {NoKey}]

LedgerInit ==
  /\ status = [j \in JobIds |-> "absent"]
  /\ key = [j \in JobIds |-> NoKey]

Accept(j, k) ==
  /\ status[j] = "absent"
  /\ k # NoKey => \A i \in JobIds : ~(status[i] \in Active /\ key[i] = k)
  /\ status' = [status EXCEPT ![j] = "queued"]
  /\ key' = [key EXCEPT ![j] = k]

Start(j) ==
  /\ status[j] = "queued"
  /\ status' = [status EXCEPT ![j] = "running"]
  /\ UNCHANGED key

Settle(j, s) ==
  /\ status[j] = "running"
  /\ status' = [status EXCEPT ![j] = s]
  /\ UNCHANGED key

Cancel(j) ==
  /\ status[j] \in Active
  /\ status' = [status EXCEPT ![j] = "stopped"]
  /\ UNCHANGED key

Restart ==
  /\ status' = [j \in JobIds |->
                  IF status[j] = "running" THEN "queued" ELSE status[j]]
  /\ UNCHANGED key

Remove(j) ==
  /\ status[j] # "absent"
  /\ status' = [status EXCEPT ![j] = "absent"]
  /\ key' = [key EXCEPT ![j] = NoKey]

LedgerNext ==
  \/ Restart
  \/ \E j \in JobIds :
       \/ \E k \in Keys \cup {NoKey} : Accept(j, k)
       \/ Start(j)
       \/ \E s \in {"done", "failed"} : Settle(j, s)
       \/ Cancel(j)
       \/ Remove(j)

LedgerSpec == LedgerInit /\ [][LedgerNext]_ledger
=============================================================================
