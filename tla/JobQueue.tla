------------------------------- MODULE JobQueue -------------------------------
(***************************************************************************)
(* receipt.InProcessQueue (src/baskety/internal/receipt/jobqueue.go) as    *)
(* cmd/baskety/main.go wires it: request goroutines call Enqueue, a fixed  *)
(* pool of worker goroutines ranges over one buffered channel, and the     *)
(* deferred Shutdown closes that channel when the HTTP server has been     *)
(* stopped.  Jobs live in memory only; a process that dies takes them      *)
(* along, and the supervisor starts a new, empty one.                      *)
(*                                                                         *)
(* A job is identified with the Enqueue call that offers it: nothing in    *)
(* the program offers the same payload twice.                              *)
(***************************************************************************)
EXTENDS Naturals, Sequences

CONSTANTS
    Jobs,         \* the calls of Enqueue, each with the job it offers
    Registered,   \* the jobs whose type has a handler (Register)
    Workers,      \* the goroutines NewInProcessQueue starts
    Capacity,     \* the channel's buffer (64 in main.go)
    MaxRestarts,  \* bound: how often the process is started again
    Idle, Gone    \* a worker receiving from the channel; one that returned

ASSUME QueueAssumption ==
    /\ Registered \subseteq Jobs
    /\ Workers # {}
    /\ Capacity \in Nat \ {0}
    /\ MaxRestarts \in Nat
    /\ Idle \notin Jobs
    /\ Gone \notin Jobs
    /\ Idle # Gone

VARIABLES
    proc,       \* "serving", "stopping" (srv.Shutdown), "closing" (the deferred
                \* jobQueue.Shutdown), "exited", "crashed"
    requests,   \* may a request handler still run in this process?
    restarts,   \* processes started after the first one
    buffer,     \* q.jobs
    closed,     \* q.jobs was closed
    call,       \* the state of each Enqueue call
    cancelled,  \* the calls whose request context is done
    worker,     \* what each worker goroutine does: Idle, Gone, or a job
    started,    \* history: how often a job was handed to its handler
    ended,      \* history: the jobs a worker is through with
    lost        \* history: the jobs a process took along when it died

procVars == <<proc, requests, restarts>>
chanVars == <<buffer, closed>>
callVars == <<call, cancelled>>
history == <<started, ended, lost>>
vars == <<procVars, chanVars, callVars, worker, history>>

CallStates == {"new", "offered", "accepted", "refused", "panicked", "aborted"}

Alive == proc \in {"serving", "stopping", "closing"}
Held == {buffer[i] : i \in 1..Len(buffer)} \union {worker[w] : w \in Workers}

TypeOK ==
    /\ proc \in {"serving", "stopping", "closing", "exited", "crashed"}
    /\ requests \in BOOLEAN
    /\ restarts \in 0..MaxRestarts
    /\ buffer \in Seq(Jobs)
    /\ Len(buffer) <= Capacity
    /\ closed \in BOOLEAN
    /\ call \in [Jobs -> CallStates]
    /\ cancelled \in SUBSET Jobs
    /\ worker \in [Workers -> Jobs \union {Idle, Gone}]
    /\ started \in [Jobs -> Nat]
    /\ ended \in SUBSET Jobs
    /\ lost \in SUBSET Jobs

Init ==
    /\ proc = "serving"
    /\ requests = TRUE
    /\ restarts = 0
    /\ buffer = <<>>
    /\ closed = FALSE
    /\ call = [j \in Jobs |-> "new"]
    /\ cancelled = {}
    /\ worker = [w \in Workers |-> Idle]
    /\ started = [j \in Jobs |-> 0]
    /\ ended = {}
    /\ lost = {}

--------------------------------------------------------------------------------
(* Enqueue, on a request goroutine.                                        *)

\* A request reaches its Enqueue call and evaluates the select.
Offer(j) ==
    /\ Alive /\ requests
    /\ call[j] = "new"
    /\ call' = [call EXCEPT ![j] = "offered"]
    /\ UNCHANGED <<procVars, chanVars, cancelled, worker, history>>

\* The client goes away or the request is over its deadline: ctx.Done() is ready.
Cancel(j) ==
    /\ Alive
    /\ call[j] = "offered"
    /\ cancelled' = cancelled \union {j}
    /\ UNCHANGED <<procVars, chanVars, call, worker, history>>

\* mutant: an unbounded send
AcceptUnbounded(j) ==
    /\ Alive /\ ~closed
    /\ call[j] = "offered"
    /\ buffer' = Append(buffer, j)
    /\ call' = [call EXCEPT ![j] = "accepted"]
    /\ UNCHANGED <<procVars, closed, cancelled, worker, history>>

\* The send case: there is room in the buffer.  When the context is done as well
\* the select takes either case.
Accept(j) ==
    /\ Alive /\ ~closed
    /\ call[j] = "offered"
    /\ Len(buffer) < Capacity
    /\ buffer' = Append(buffer, j)
    /\ call' = [call EXCEPT ![j] = "accepted"]
    /\ UNCHANGED <<procVars, closed, cancelled, worker, history>>

\* The ctx.Done() case.
Refuse(j) ==
    /\ Alive
    /\ call[j] = "offered"
    /\ j \in cancelled
    /\ call' = [call EXCEPT ![j] = "refused"]
    /\ UNCHANGED <<procVars, chanVars, cancelled, worker, history>>

\* A send on a closed channel panics, whether it blocked before the close or
\* came after it; middleware.Recoverer turns the panic into a 500.
Panic(j) ==
    /\ Alive /\ closed
    /\ call[j] = "offered"
    /\ call' = [call EXCEPT ![j] = "panicked"]
    /\ UNCHANGED <<procVars, chanVars, cancelled, worker, history>>

--------------------------------------------------------------------------------
(* worker(): for job := range q.jobs                                       *)

\* mutant: the job is looked at and left in the channel
DispatchPeek(w) ==
    /\ Alive /\ worker[w] = Idle
    /\ buffer # <<>> /\ Head(buffer) \in Registered
    /\ worker' = [worker EXCEPT ![w] = Head(buffer)]
    /\ started' = [started EXCEPT ![Head(buffer)] = @ + 1]
    /\ UNCHANGED <<procVars, chanVars, callVars, ended, lost>>

Dispatch(w) ==
    /\ Alive /\ worker[w] = Idle
    /\ buffer # <<>> /\ Head(buffer) \in Registered
    /\ buffer' = Tail(buffer)
    /\ worker' = [worker EXCEPT ![w] = Head(buffer)]
    /\ started' = [started EXCEPT ![Head(buffer)] = @ + 1]
    /\ UNCHANGED <<procVars, closed, callVars, ended, lost>>

\* No handler for the job's type: logged, and on to the next job.
Skip(w) ==
    /\ Alive /\ worker[w] = Idle
    /\ buffer # <<>> /\ Head(buffer) \notin Registered
    /\ buffer' = Tail(buffer)
    /\ ended' = ended \union {Head(buffer)}
    /\ UNCHANGED <<procVars, closed, callVars, worker, started, lost>>

\* mutant: a handler that failed has its job put back
FinishRequeues(w) ==
    /\ Alive /\ worker[w] \in Jobs
    /\ worker' = [worker EXCEPT ![w] = Idle]
    /\ \/ ended' = ended \union {worker[w]} /\ UNCHANGED buffer
       \/ Len(buffer) < Capacity /\ buffer' = Append(buffer, worker[w]) /\ UNCHANGED ended
    /\ UNCHANGED <<procVars, closed, callVars, started, lost>>

\* mutant: the worker returns when its handler failed
FinishReturns(w) ==
    /\ Alive /\ worker[w] \in Jobs
    /\ worker' \in {[worker EXCEPT ![w] = Idle], [worker EXCEPT ![w] = Gone]}
    /\ ended' = ended \union {worker[w]}
    /\ UNCHANGED <<procVars, chanVars, callVars, started, lost>>

\* The handler returns.  An error is logged and the job is over all the same.
Finish(w) ==
    /\ Alive /\ worker[w] \in Jobs
    /\ worker' = [worker EXCEPT ![w] = Idle]
    /\ ended' = ended \union {worker[w]}
    /\ UNCHANGED <<procVars, chanVars, callVars, started, lost>>

\* mutant: the worker returns as soon as the channel is closed
ReturnAtClose(w) ==
    /\ Alive /\ worker[w] = Idle
    /\ closed
    /\ worker' = [worker EXCEPT ![w] = Gone]
    /\ UNCHANGED <<procVars, chanVars, callVars, history>>

\* The range loop ends when the channel is closed and drained.
Return(w) ==
    /\ Alive /\ worker[w] = Idle
    /\ closed /\ buffer = <<>>
    /\ worker' = [worker EXCEPT ![w] = Gone]
    /\ UNCHANGED <<procVars, chanVars, callVars, history>>

--------------------------------------------------------------------------------
(* main.go: the process around the queue.                                  *)

\* SIGINT or SIGTERM: srv.Shutdown stops accepting and waits for the handlers.
Signal ==
    /\ proc = "serving"
    /\ proc' = "stopping"
    /\ UNCHANGED <<requests, restarts, chanVars, callVars, worker, history>>

\* mutant: the queue is shut down without waiting for the handlers
DrainedUnchecked ==
    /\ proc = "stopping"
    /\ proc' = "closing"
    /\ requests' = FALSE
    /\ UNCHANGED <<restarts, chanVars, callVars, worker, history>>

\* srv.Shutdown returns nil: every request handler has returned.
Drained ==
    /\ proc = "stopping"
    /\ \A j \in Jobs : call[j] # "offered"
    /\ proc' = "closing"
    /\ requests' = FALSE
    /\ UNCHANGED <<restarts, chanVars, callVars, worker, history>>

\* srv.Shutdown gives up after 30 s, or ListenAndServe failed: runServe returns
\* while request handlers are still running.
Abandon ==
    /\ proc \in {"serving", "stopping"}
    /\ proc' = "closing"
    /\ UNCHANGED <<requests, restarts, chanVars, callVars, worker, history>>

\* mutant: Shutdown waits without having closed the channel
CloseForgotten ==
    /\ proc = "closing" /\ ~closed
    /\ UNCHANGED vars

\* Shutdown: once.Do(close(q.jobs)), then wg.Wait().
CloseChannel ==
    /\ proc = "closing" /\ ~closed
    /\ closed' = TRUE
    /\ UNCHANGED <<procVars, buffer, callVars, worker, history>>

\* The calls that are cut off when the process is gone.
CutOff == [j \in Jobs |-> IF call[j] = "offered" THEN "aborted" ELSE call[j]]

\* wg.Wait returned: runServe returns and the process exits.
Exit ==
    /\ proc = "closing" /\ closed
    /\ \A w \in Workers : worker[w] = Gone
    /\ proc' = "exited"
    /\ call' = CutOff
    /\ UNCHANGED <<requests, restarts, chanVars, cancelled, worker, history>>

\* The process is killed, or a handler panics on a worker goroutine, where
\* nothing recovers: the channel and everything in it are gone.
Crash ==
    /\ Alive
    /\ proc' = "crashed"
    /\ call' = CutOff
    /\ lost' = lost \union (Held \intersect Jobs)
    /\ buffer' = <<>>
    /\ worker' = [w \in Workers |-> Gone]
    /\ UNCHANGED <<requests, restarts, closed, cancelled, started, ended>>

\* The supervisor starts the program again (restart: unless-stopped).
Restart ==
    /\ ~Alive
    /\ restarts < MaxRestarts
    /\ proc' = "serving"
    /\ requests' = TRUE
    /\ restarts' = restarts + 1
    /\ buffer' = <<>>
    /\ closed' = FALSE
    /\ worker' = [w \in Workers |-> Idle]
    /\ UNCHANGED <<callVars, history>>

--------------------------------------------------------------------------------
Enqueue(j) == Offer(j) \/ Cancel(j) \/ Accept(j) \/ Refuse(j) \/ Panic(j)
Work(w) == Dispatch(w) \/ Skip(w) \/ Finish(w) \/ Return(w)
Process == Signal \/ Drained \/ Abandon \/ CloseChannel \/ Exit \/ Crash \/ Restart

Next ==
    \/ \E j \in Jobs : Enqueue(j)
    \/ \E w \in Workers : Work(w)
    \/ Process

\* The Go scheduler runs every goroutine that can run: a worker receives what is
\* there to be received, and the deferred calls of runServe run.
Fairness ==
    /\ \A w \in Workers : WF_vars(Dispatch(w) \/ Skip(w) \/ Return(w))
    /\ WF_vars(CloseChannel)
    /\ WF_vars(Exit)

\* No part of Fairness, since the code does not guarantee it: the LLM adapter calls
\* its provider without a timeout (adapters/llm/adapter.go:230) and the context of
\* a job is never done, so a provider that does not answer keeps its worker.
HandlersReturn == \A w \in Workers : WF_vars(Finish(w))

Spec == Init /\ [][Next]_vars
FairSpec == Spec /\ Fairness

--------------------------------------------------------------------------------
(* Properties *)

\* No job reaches its handler twice, nor a handler before its Enqueue call has
\* returned nil: a caller that was told "context canceled" may offer the work
\* again without having it done twice.
AtMostOnce ==
    \A j \in Jobs : started[j] <= (IF call[j] = "accepted" THEN 1 ELSE 0)

\* Shutdown "waits for in-flight work" (jobqueue.go:89): a process that exits
\* through it has handled every job it accepted, the buffered ones included.
ShutdownDrains ==
    proc = "exited" =>
        \A j \in Jobs : call[j] = "accepted" => j \in ended \union lost

\* When the HTTP server could be drained before the channel is closed no Enqueue
\* call is left to run into the closed channel.
DrainedCloseIsSafe ==
    closed /\ ~requests => \A j \in Jobs : call[j] # "offered"

\* If every handler returns, an accepted job is eventually through its handler,
\* unless the process died.
AcceptedIsSettled ==
    HandlersReturn =>
        \A j \in Jobs : call[j] = "accepted" ~> j \in ended \union lost

\* If every handler returns, so does Shutdown: the workers drain the channel and
\* leave, and wg.Wait ends.
ShutdownReturns == HandlersReturn => (proc = "closing" ~> ~Alive)

--------------------------------------------------------------------------------
(* The queue delivers jobs the way JobDelivery promises.                   *)

PhaseOf(j) ==
    CASE j \in lost -> "lost"
      [] j \notin lost /\ call[j] # "accepted" -> call[j]
      [] j \notin lost /\ call[j] = "accepted" /\ j \in ended -> "ended"
      [] j \notin lost /\ call[j] = "accepted" /\ j \notin ended ->
            IF \E w \in Workers : worker[w] = j THEN "running" ELSE "queued"

Delivery == INSTANCE JobDelivery WITH phase <- [j \in Jobs |-> PhaseOf(j)]

DeliverySpec == Delivery!Spec
================================================================================
