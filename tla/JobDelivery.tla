------------------------------ MODULE JobDelivery ------------------------------
(***************************************************************************)
(* What the rest of the backend may rely on when it hands work to          *)
(* receipt.JobQueue (src/baskety/internal/receipt/jobqueue.go:13-15): the  *)
(* life of every Enqueue call and of the job it offers, with no channel,   *)
(* no workers and no process in it.  A job is handed to its handler at     *)
(* most once, only after its Enqueue call returned nil, and it is gone for *)
(* good once it ended or the process holding it died.                      *)
(***************************************************************************)

CONSTANT Jobs   \* one element per call of Enqueue, with the job it carries

VARIABLE phase  \* phase[j]: how far the call, and then its job, has come

Phases == {"new", "offered", "refused", "panicked", "aborted",
           "queued", "running", "ended", "lost"}

TypeOK == phase \in [Jobs -> Phases]

Init == phase = [j \in Jobs |-> "new"]

Move(j, from, to) ==
    /\ phase[j] = from
    /\ phase' = [phase EXCEPT ![j] = to]

Offer(j) == Move(j, "new", "offered")
Accept(j) == Move(j, "offered", "queued")
Refuse(j) == Move(j, "offered", "refused")
Panic(j) == Move(j, "offered", "panicked")
Start(j) == Move(j, "queued", "running")
Drop(j) == Move(j, "queued", "ended")
Finish(j) == Move(j, "running", "ended")

\* The process goes away: what it had accepted and not ended is lost, and no
\* later process finds it again.
Vanish ==
    phase' = [j \in Jobs |->
                CASE phase[j] = "offered" -> "aborted"
                  [] phase[j] \in {"queued", "running"} -> "lost"
                  [] OTHER -> phase[j]]

Next ==
    \/ \E j \in Jobs : \/ Offer(j) \/ Accept(j) \/ Refuse(j) \/ Panic(j)
                       \/ Start(j) \/ Drop(j) \/ Finish(j)
    \/ Vanish

Spec == Init /\ [][Next]_phase
================================================================================
