------------------------------ MODULE JobLedger ------------------------------
(***************************************************************************)
(* What the durable indexing queue promises about a job, with nothing said *)
(* about processes, workers, claims or crashes: a job is submitted, runs   *)
(* while no other job of its repository runs, ends completed, failed or    *)
(* back in the queue, and is forgotten only while it is not running.       *)
(* IndexingQueue implements this specification.                            *)
(***************************************************************************)

CONSTANTS Jobs,       \* job ids
          RepoOf,     \* the repository (repo_key) of each job
          Deletable   \* repositories whose jobs somebody may delete

VARIABLE ledger     \* ledger[j]: the status of job j

Status == {"absent", "pending", "running", "completed", "failed"}

TypeOK == ledger \in [Jobs -> Status]

Init == ledger = [j \in Jobs |-> "absent"]

Submit(j) ==
  /\ ledger[j] = "absent"
  /\ ledger' = [ledger EXCEPT ![j] = "pending"]

Claim(j) ==
  /\ ledger[j] = "pending"
  /\ \A k \in Jobs : RepoOf[k] = RepoOf[j] => ledger[k] # "running"
  /\ ledger' = [ledger EXCEPT ![j] = "running"]

Settle(j) ==
  /\ ledger[j] = "running"
  /\ \E s \in {"completed", "failed"} : ledger' = [ledger EXCEPT ![j] = s]

\* A failed attempt or the restart of a process puts running jobs back.
Return(S) ==
  /\ \A j \in S : ledger[j] = "running"
  /\ ledger' = [j \in Jobs |-> IF j \in S THEN "pending" ELSE ledger[j]]

\* Retention forgets finished jobs; a deletion also the waiting ones.
Forget(S) ==
  /\ \A j \in S : \/ ledger[j] \in {"completed", "failed"}
                  \/ ledger[j] = "pending" /\ RepoOf[j] \in Deletable
  /\ ledger' = [j \in Jobs |-> IF j \in S THEN "absent" ELSE ledger[j]]

Next ==
  \/ \E j \in Jobs : Submit(j) \/ Claim(j) \/ Settle(j)
  \/ \E S \in SUBSET Jobs : Return(S) \/ Forget(S)

Spec == Init /\ [][Next]_ledger

=============================================================================
