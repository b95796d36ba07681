---------------------------- MODULE JobQueueProofs ----------------------------
(***************************************************************************)
(* Proofs about JobQueue, for every set of calls and workers, every buffer *)
(* capacity and any number of restarts: the type invariant, at-most-once   *)
(* delivery, a shutdown that drains the channel, and that the queue        *)
(* implements JobDelivery.                                                 *)
(*                                                                         *)
(* AtMostOnce is not inductive: nothing in it keeps a job from being in    *)
(* the channel and with a worker at once.  QInv says where each accepted   *)
(* job is: at one place of the channel, not yet started; or with one       *)
(* worker, started once; or settled.                                       *)
(***************************************************************************)
EXTENDS JobQueue, TLAPS

\* A buffered job is accepted, not started, not settled, and there only once.
BufferedOnce ==
    /\ \A i \in 1..Len(buffer) :
          /\ call[buffer[i]] = "accepted"
          /\ started[buffer[i]] = 0
          /\ buffer[i] \notin ended \union lost
    /\ \A i, k \in 1..Len(buffer) : buffer[i] = buffer[k] => i = k

\* A job with a worker is accepted, started, not settled, and with that one only.
RunningOnce ==
    /\ \A w \in Workers : worker[w] \in Jobs =>
          /\ call[worker[w]] = "accepted"
          /\ started[worker[w]] = 1
          /\ worker[w] \notin ended \union lost
    /\ \A v, w \in Workers : worker[v] = worker[w] /\ worker[v] \in Jobs => v = w

\* An accepted job is in the channel, with a worker, or settled.
Conserved ==
    \A j \in Jobs : call[j] = "accepted" =>
        \/ j \in ended \union lost
        \/ \E i \in 1..Len(buffer) : buffer[i] = j
        \/ \E w \in Workers : worker[w] = j

\* Only accepted jobs settle, and in one way; the others never started.
SettledAccepted ==
    \A j \in Jobs :
        /\ j \in ended \union lost => call[j] = "accepted"
        /\ ~(j \in ended /\ j \in lost)

\* A worker leaves a live process only when the channel is closed and drained,
\* and a dead process holds nothing.
GoneDrained ==
    /\ \A w \in Workers : Alive /\ worker[w] = Gone => closed /\ buffer = <<>>
    /\ ~Alive => buffer = <<>> /\ \A w \in Workers : worker[w] = Gone

\* Once the handlers are known to have returned no call is left in the select.
DrainedIdle == ~requests => \A j \in Jobs : call[j] # "offered"

QInv ==
    /\ TypeOK
    /\ AtMostOnce
    /\ BufferedOnce
    /\ RunningOnce
    /\ Conserved
    /\ SettledAccepted
    /\ GoneDrained
    /\ DrainedIdle

--------------------------------------------------------------------------------
\* The initial state satisfies the invariant: an open, empty queue.
LEMMA InitQInv == Init => QInv
<1> SUFFICES ASSUME Init PROVE QInv
  OBVIOUS
<1> USE QueueAssumption DEF QueueAssumption, Init, Alive
<1>1. buffer \in Seq(Jobs) /\ Len(buffer) = 0
  OBVIOUS
<1>2. /\ worker \in [Workers -> Jobs \union {Idle, Gone}]
      /\ call \in [Jobs -> CallStates] /\ started \in [Jobs -> Nat]
  BY DEF CallStates
<1>3. Len(buffer) <= Capacity /\ restarts \in 0..MaxRestarts
  BY <1>1
<1>4. TypeOK
  BY <1>1, <1>2, <1>3, Zenon DEF TypeOK
<1>5. AtMostOnce
  <2>1. ASSUME NEW j \in Jobs
        PROVE  started[j] <= (IF call[j] = "accepted" THEN 1 ELSE 0)
    <3>1. started[j] = 0 /\ call[j] = "new"
      OBVIOUS
    <3> QED BY <3>1
  <2> QED BY <2>1 DEF AtMostOnce
<1>6. BufferedOnce /\ RunningOnce
  BY <1>1 DEF BufferedOnce, RunningOnce
<1>7. Conserved /\ SettledAccepted /\ GoneDrained /\ DrainedIdle
  BY DEF Conserved, SettledAccepted, GoneDrained, DrainedIdle
<1> QED BY <1>4, <1>5, <1>6, <1>7 DEF QInv

\* Enqueue keeps the invariant.  Accept adds a call that was not accepted before,
\* so its job is nowhere else and was never started.
LEMMA EnqueueQInv == ASSUME QInv, NEW j \in Jobs, Enqueue(j) PROVE QInv'
<1> USE QueueAssumption
    DEF QueueAssumption, QInv, TypeOK, AtMostOnce, CallStates, Alive,
        procVars, chanVars, callVars, history
<1>1. CASE Offer(j)
  <2> USE <1>1 DEF Offer
  <2>1. TypeOK' /\ AtMostOnce'
    OBVIOUS
  <2>2. BufferedOnce' /\ RunningOnce'
    BY DEF BufferedOnce, RunningOnce
  <2>3. Conserved' /\ SettledAccepted'
    BY DEF Conserved, SettledAccepted
  <2>4. GoneDrained' /\ DrainedIdle'
    BY DEF GoneDrained, DrainedIdle
  <2> QED BY <2>1, <2>2, <2>3, <2>4
<1>2. CASE Cancel(j)
  BY <1>2 DEF Cancel, BufferedOnce, RunningOnce, Conserved, SettledAccepted, GoneDrained,
     DrainedIdle
<1>3. CASE Accept(j)
  <2>1. j \notin ended \union lost /\ started[j] = 0
    BY <1>3 DEF Accept, SettledAccepted
  <2>2. \A i \in 1..Len(buffer) : buffer[i] # j
    BY <1>3 DEF Accept, BufferedOnce
  <2>3. \A w \in Workers : worker[w] # j
    BY <1>3 DEF Accept, RunningOnce
  <2>4. /\ Len(buffer') = Len(buffer) + 1
        /\ \A i \in 1..Len(buffer) : buffer'[i] = buffer[i]
        /\ buffer'[Len(buffer) + 1] = j
    BY <1>3 DEF Accept
  <2>5. TypeOK' /\ AtMostOnce'
    BY <1>3, <2>1 DEF Accept
  <2>6. BufferedOnce'
    BY <1>3, <2>1, <2>2, <2>4 DEF Accept, BufferedOnce
  <2>7. RunningOnce'
    BY <1>3, <2>3 DEF Accept, RunningOnce
  <2>8. Conserved'
    BY <1>3, <2>4 DEF Accept, Conserved
  <2>9. SettledAccepted' /\ GoneDrained' /\ DrainedIdle'
    BY <1>3, <2>1 DEF Accept, SettledAccepted, GoneDrained, DrainedIdle
  <2> QED BY <2>5, <2>6, <2>7, <2>8, <2>9
<1>4. CASE Refuse(j)
  BY <1>4 DEF Refuse, BufferedOnce, RunningOnce, Conserved, SettledAccepted, GoneDrained,
     DrainedIdle
<1>5. CASE Panic(j)
  <2> USE <1>5 DEF Panic
  <2>1. TypeOK' /\ AtMostOnce'
    OBVIOUS
  <2>2. BufferedOnce' /\ RunningOnce'
    BY DEF BufferedOnce, RunningOnce
  <2>3. Conserved' /\ SettledAccepted'
    BY DEF Conserved, SettledAccepted
  <2>4. GoneDrained' /\ DrainedIdle'
    BY DEF GoneDrained, DrainedIdle
  <2> QED BY <2>1, <2>2, <2>3, <2>4
<1> QED BY <1>1, <1>2, <1>3, <1>4, <1>5 DEF Enqueue

\* What receiving from the channel does to its contents: the first job leaves, the
\* others move up by one.
LEMMA TailBuffer ==
    ASSUME TypeOK, buffer # <<>>
    PROVE  /\ Head(buffer) = buffer[1] /\ Head(buffer) \in Jobs /\ Len(buffer) \in Nat \ {0}
           /\ Tail(buffer) \in Seq(Jobs)
           /\ Len(Tail(buffer)) = Len(buffer) - 1
           /\ \A i \in 1..Len(Tail(buffer)) : Tail(buffer)[i] = buffer[i + 1]
BY DEF TypeOK

\* The workers keep the invariant.
LEMMA WorkQInv == ASSUME QInv, NEW u \in Workers, Work(u) PROVE QInv'
<1> USE QueueAssumption
    DEF QueueAssumption, QInv, TypeOK, AtMostOnce, CallStates, Alive,
        procVars, chanVars, callVars, history
<1> DEFINE h == Head(buffer)
<1>1. CASE Dispatch(u)
  <2> USE <1>1 DEF Dispatch
  <2>1. /\ h = buffer[1] /\ h \in Jobs /\ Len(buffer) \in Nat \ {0}
        /\ buffer' \in Seq(Jobs) /\ Len(buffer') = Len(buffer) - 1
        /\ \A i \in 1..Len(buffer') : buffer'[i] = buffer[i + 1]
    BY TailBuffer
  <2>2. call[h] = "accepted" /\ started[h] = 0 /\ h \notin ended \union lost
    BY <2>1 DEF BufferedOnce
  <2>3. \A i \in 1..Len(buffer') : buffer'[i] # h
    BY <2>1 DEF BufferedOnce
  <2>4. \A w \in Workers : worker[w] # h
    BY <2>2 DEF RunningOnce
  <2>5. TypeOK' /\ AtMostOnce'
    BY <2>1, <2>2
  <2>6. BufferedOnce'
    BY <2>1, <2>3 DEF BufferedOnce
  <2>7. RunningOnce'
    BY <2>1, <2>2, <2>4 DEF RunningOnce
  <2>8. Conserved'
    <3> SUFFICES ASSUME NEW k \in Jobs, call[k] = "accepted", k \notin ended \union lost
                 PROVE  \/ \E i \in 1..Len(buffer') : buffer'[i] = k
                        \/ \E w \in Workers : worker'[w] = k
      BY DEF Conserved
    <3>1. CASE \E i \in 1..Len(buffer) : buffer[i] = k
      <4> PICK i \in 1..Len(buffer) : buffer[i] = k
        BY <3>1
      <4>1. CASE i = 1
        BY <2>1, <4>1
      <4>2. CASE i # 1
        <5>1. i - 1 \in 1..Len(buffer') /\ buffer'[i - 1] = k
          BY <2>1, <4>2
        <5> QED BY <5>1
      <4> QED BY <4>1, <4>2
    <3>2. CASE \E w \in Workers : worker[w] = k
      BY <3>2
    <3> QED BY <3>1, <3>2 DEF Conserved
  <2>9. SettledAccepted' /\ GoneDrained' /\ DrainedIdle'
    BY <2>1, <2>2 DEF SettledAccepted, GoneDrained, DrainedIdle
  <2> QED BY <2>5, <2>6, <2>7, <2>8, <2>9
<1>2. CASE Skip(u)
  <2> USE <1>2 DEF Skip
  <2>1. /\ h = buffer[1] /\ h \in Jobs /\ Len(buffer) \in Nat \ {0}
        /\ buffer' \in Seq(Jobs) /\ Len(buffer') = Len(buffer) - 1
        /\ \A i \in 1..Len(buffer') : buffer'[i] = buffer[i + 1]
    BY TailBuffer
  <2>2. call[h] = "accepted" /\ started[h] = 0 /\ h \notin ended \union lost
    BY <2>1 DEF BufferedOnce
  <2>3. \A i \in 1..Len(buffer') : buffer'[i] # h
    BY <2>1 DEF BufferedOnce
  <2>4. \A w \in Workers : worker[w] # h
    BY <2>2 DEF RunningOnce
  <2>5. TypeOK' /\ AtMostOnce'
    BY <2>1, <2>2
  <2>6. BufferedOnce'
    BY <2>1, <2>3 DEF BufferedOnce
  <2>7. RunningOnce'
    BY <2>4 DEF RunningOnce
  <2>8. Conserved'
    <3> SUFFICES ASSUME NEW k \in Jobs, call[k] = "accepted", k \notin ended' \union lost
                 PROVE  \/ \E i \in 1..Len(buffer') : buffer'[i] = k
                        \/ \E w \in Workers : worker'[w] = k
      BY DEF Conserved
    <3>1. CASE \E i \in 1..Len(buffer) : buffer[i] = k
      <4> PICK i \in 1..Len(buffer) : buffer[i] = k
        BY <3>1
      <4>1. i # 1
        BY <2>1
      <4>2. i - 1 \in 1..Len(buffer') /\ buffer'[i - 1] = k
        BY <2>1, <4>1
      <4> QED BY <4>2
    <3>2. CASE \E w \in Workers : worker[w] = k
      BY <3>2
    <3> QED BY <3>1, <3>2 DEF Conserved
  <2>9. SettledAccepted' /\ GoneDrained' /\ DrainedIdle'
    BY <2>1, <2>2 DEF SettledAccepted, GoneDrained, DrainedIdle
  <2> QED BY <2>5, <2>6, <2>7, <2>8, <2>9
<1>3. CASE Finish(u)
  <2> USE <1>3 DEF Finish
  <2>1. /\ call[worker[u]] = "accepted" /\ started[worker[u]] = 1
        /\ worker[u] \notin ended \union lost
    BY DEF RunningOnce
  <2>2. \A i \in 1..Len(buffer) : buffer[i] # worker[u]
    BY <2>1 DEF BufferedOnce
  <2>3. TypeOK' /\ AtMostOnce'
    OBVIOUS
  <2>4. BufferedOnce'
    BY <2>2 DEF BufferedOnce
  <2>5. RunningOnce'
    BY <2>1 DEF RunningOnce
  <2>6. Conserved'
    BY DEF Conserved
  <2>7. SettledAccepted' /\ GoneDrained' /\ DrainedIdle'
    BY <2>1 DEF SettledAccepted, GoneDrained, DrainedIdle
  <2> QED BY <2>3, <2>4, <2>5, <2>6, <2>7
<1>4. CASE Return(u)
  BY <1>4 DEF Return, BufferedOnce, RunningOnce, Conserved, SettledAccepted, GoneDrained,
     DrainedIdle
<1> QED BY <1>1, <1>2, <1>3, <1>4 DEF Work

\* Starting, stopping, crashing and restarting the process keep the invariant.
LEMMA ProcessQInv == ASSUME QInv, Process PROVE QInv'
<1> USE QueueAssumption
    DEF QueueAssumption, QInv, TypeOK, AtMostOnce, CallStates, Alive,
        procVars, chanVars, callVars, history
<1>1. CASE Signal
  BY <1>1 DEF Signal, BufferedOnce, RunningOnce, Conserved, SettledAccepted, GoneDrained,
     DrainedIdle
<1>2. CASE Drained
  <2> USE <1>2 DEF Drained
  <2>1. TypeOK' /\ AtMostOnce'
    OBVIOUS
  <2>2. BufferedOnce' /\ RunningOnce'
    BY DEF BufferedOnce, RunningOnce
  <2>3. Conserved' /\ SettledAccepted'
    BY DEF Conserved, SettledAccepted
  <2>4. GoneDrained' /\ DrainedIdle'
    BY DEF GoneDrained, DrainedIdle
  <2> QED BY <2>1, <2>2, <2>3, <2>4
<1>3. CASE Abandon
  <2> USE <1>3 DEF Abandon
  <2>1. TypeOK' /\ AtMostOnce'
    OBVIOUS
  <2>2. BufferedOnce' /\ RunningOnce'
    BY DEF BufferedOnce, RunningOnce
  <2>3. Conserved' /\ SettledAccepted'
    BY DEF Conserved, SettledAccepted
  <2>4. GoneDrained' /\ DrainedIdle'
    BY DEF GoneDrained, DrainedIdle
  <2> QED BY <2>1, <2>2, <2>3, <2>4
<1>4. CASE CloseChannel
  <2> USE <1>4 DEF CloseChannel
  <2>1. TypeOK' /\ AtMostOnce'
    OBVIOUS
  <2>2. BufferedOnce' /\ RunningOnce'
    BY DEF BufferedOnce, RunningOnce
  <2>3. Conserved' /\ SettledAccepted'
    BY DEF Conserved, SettledAccepted
  <2>4. GoneDrained' /\ DrainedIdle'
    BY DEF GoneDrained, DrainedIdle
  <2> QED BY <2>1, <2>2, <2>3, <2>4
<1>5. CASE Exit
  <2> USE <1>5 DEF Exit, CutOff
  <2>1. TypeOK' /\ AtMostOnce'
    OBVIOUS
  <2>2. BufferedOnce' /\ RunningOnce'
    BY DEF BufferedOnce, RunningOnce
  <2>3. Conserved' /\ SettledAccepted'
    BY DEF Conserved, SettledAccepted
  <2>4. GoneDrained' /\ DrainedIdle'
    BY DEF GoneDrained, DrainedIdle
  <2> QED BY <2>1, <2>2, <2>3, <2>4
<1>6. CASE Crash
  <2> USE <1>6 DEF Crash, CutOff
  <2>1. \A k \in Jobs : k \in lost' \ lost =>
           \/ \E i \in 1..Len(buffer) : buffer[i] = k
           \/ \E w \in Workers : worker[w] = k
    BY DEF Held
  <2>2. \A k \in Jobs : k \in lost' \ lost => call[k] = "accepted" /\ k \notin ended
    BY <2>1 DEF BufferedOnce, RunningOnce
  <2>3. TypeOK' /\ AtMostOnce'
    BY DEF Held
  <2>4. BufferedOnce' /\ RunningOnce'
    BY DEF BufferedOnce, RunningOnce
  <2>5. Conserved'
    BY DEF Conserved, Held
  <2>6. SettledAccepted'
    BY <2>2 DEF SettledAccepted
  <2>7. GoneDrained' /\ DrainedIdle'
    BY DEF GoneDrained, DrainedIdle
  <2> QED BY <2>3, <2>4, <2>5, <2>6, <2>7
<1>7. CASE Restart
  <2> USE <1>7 DEF Restart
  <2>1. buffer' \in Seq(Jobs) /\ Len(buffer') = 0
    OBVIOUS
  <2>2. worker' \in [Workers -> Jobs \union {Idle, Gone}]
    OBVIOUS
  <2>3. Len(buffer') <= Capacity /\ restarts' \in 0..MaxRestarts
    BY <2>1
  <2>4. TypeOK'
    BY <2>1, <2>2, <2>3, Zenon
  <2>5. TypeOK' /\ AtMostOnce'
    BY <2>4
  <2>6. BufferedOnce' /\ RunningOnce'
    BY DEF BufferedOnce, RunningOnce
  <2>7. Conserved'
    BY DEF Conserved, GoneDrained
  <2>8. SettledAccepted' /\ GoneDrained' /\ DrainedIdle'
    BY DEF SettledAccepted, GoneDrained, DrainedIdle
  <2> QED BY <2>5, <2>6, <2>7, <2>8
<1> QED BY <1>1, <1>2, <1>3, <1>4, <1>5, <1>6, <1>7 DEF Process

\* QInv is an invariant of the queue.
THEOREM QueueInvariant == Spec => []QInv
<1>1. Init => QInv
  BY InitQInv
<1>2. QInv /\ [Next]_vars => QInv'
  <2> SUFFICES ASSUME QInv, [Next]_vars PROVE QInv'
    OBVIOUS
  <2>1. CASE Next
    BY <2>1, EnqueueQInv, WorkQInv, ProcessQInv DEF Next
  <2>2. CASE UNCHANGED vars
    BY <2>2 DEF QInv, TypeOK, AtMostOnce, BufferedOnce, RunningOnce, Conserved,
       SettledAccepted, GoneDrained, DrainedIdle, Alive, vars, procVars, chanVars,
       callVars, history
  <2> QED BY <2>1, <2>2
<1> QED BY <1>1, <1>2, PTL DEF Spec

\* Type correctness of the queue.
THEOREM QueueTypeOK == Spec => []TypeOK
BY QueueInvariant, PTL DEF QInv

\* No job is handed to its handler twice, or before its Enqueue returned nil.
THEOREM QueueAtMostOnce == Spec => []AtMostOnce
BY QueueInvariant, PTL DEF QInv

\* A process that exits through Shutdown has handled every job it accepted.
THEOREM QueueShutdownDrains == Spec => []ShutdownDrains
<1>1. QInv => ShutdownDrains
  BY QueueAssumption DEF QueueAssumption, QInv, TypeOK, Conserved, GoneDrained, ShutdownDrains,
                         Alive
<1> QED BY <1>1, QueueInvariant, PTL

\* A channel closed after the HTTP server was drained has no caller left.
THEOREM QueueDrainedCloseIsSafe == Spec => []DrainedCloseIsSafe
<1>1. QInv => DrainedCloseIsSafe
  BY DEF QInv, DrainedIdle, DrainedCloseIsSafe
<1> QED BY <1>1, QueueInvariant, PTL

--------------------------------------------------------------------------------
(* JobQueue implements JobDelivery: every step is one move of one job's     *)
(* phase, the end of the process, or a stutter.                            *)

\* Where a job is determines its phase.
LEMMA PhaseByPlace ==
    ASSUME QInv, NEW j \in Jobs
    PROVE  /\ call[j] # "accepted" => PhaseOf(j) = call[j]
           /\ j \in lost => PhaseOf(j) = "lost"
           /\ j \in ended => PhaseOf(j) = "ended"
           /\ \A w \in Workers : worker[w] = j => PhaseOf(j) = "running"
           /\ \A i \in 1..Len(buffer) : buffer[i] = j => PhaseOf(j) = "queued"
<1> USE DEF QInv
<1>1. call[j] # "accepted" => PhaseOf(j) = call[j]
  BY DEF SettledAccepted, PhaseOf
<1>2. j \in lost => PhaseOf(j) = "lost"
  BY DEF PhaseOf
<1>3. j \in ended => PhaseOf(j) = "ended"
  BY DEF SettledAccepted, PhaseOf
<1>4. ASSUME NEW w \in Workers, worker[w] = j PROVE PhaseOf(j) = "running"
  BY <1>4 DEF RunningOnce, PhaseOf
<1>5. ASSUME NEW i \in 1..Len(buffer), buffer[i] = j PROVE PhaseOf(j) = "queued"
  <2>1. call[j] = "accepted" /\ started[j] = 0 /\ j \notin ended \union lost
    BY <1>5 DEF BufferedOnce
  <2>2. \A w \in Workers : worker[w] # j
    BY <2>1 DEF RunningOnce
  <2> QED BY <2>1, <2>2 DEF PhaseOf
<1> QED BY <1>1, <1>2, <1>3, <1>4, <1>5

\* A step that changes the phase of one job is a move of the abstract system.
LEMMA OneMove ==
    ASSUME NEW j \in Jobs, NEW from, NEW to,
           PhaseOf(j) = from, PhaseOf(j)' = to,
           \A k \in Jobs \ {j} : PhaseOf(k)' = PhaseOf(k)
    PROVE  Delivery!Move(j, from, to)
BY DEF Delivery!Move

\* The steps of Enqueue: the call's own phase moves, and nothing else does.
LEMMA EnqueueImplements ==
    ASSUME QInv, QInv', NEW j \in Jobs, Enqueue(j)
    PROVE  Delivery!Next \/ UNCHANGED [k \in Jobs |-> PhaseOf(k)]
<1> USE DEF procVars, chanVars, callVars, history
<1>0. call \in [Jobs -> CallStates]
  BY DEF QInv, TypeOK
<1>1. CASE Offer(j)
  <2>1. PhaseOf(j) = "new" /\ PhaseOf(j)' = "offered"
    BY <1>0, <1>1, PhaseByPlace DEF Offer, PhaseOf, QInv, SettledAccepted
  <2>2. \A k \in Jobs \ {j} : PhaseOf(k)' = PhaseOf(k)
    BY <1>0, <1>1 DEF Offer, PhaseOf
  <2>3. Delivery!Offer(j)
    BY <2>1, <2>2, OneMove DEF Delivery!Offer
  <2> QED BY <2>3 DEF Delivery!Next
<1>2. CASE Cancel(j)
  <2>1. \A k \in Jobs : PhaseOf(k)' = PhaseOf(k)
    BY <1>2 DEF Cancel, PhaseOf
  <2> QED BY <2>1
<1>3. CASE Accept(j)
  <2>1. PhaseOf(j) = "offered"
    BY <1>3, PhaseByPlace DEF Accept
  <2>2. /\ j \notin ended \union lost
        /\ \A w \in Workers : worker[w] # j
    BY <1>3 DEF Accept, QInv, SettledAccepted, RunningOnce
  <2>3. PhaseOf(j)' = "queued"
    BY <1>0, <1>3, <2>2 DEF Accept, PhaseOf
  <2>4. \A k \in Jobs \ {j} : PhaseOf(k)' = PhaseOf(k)
    BY <1>0, <1>3 DEF Accept, PhaseOf
  <2>5. Delivery!Accept(j)
    BY <2>1, <2>3, <2>4, OneMove DEF Delivery!Accept
  <2> QED BY <2>5 DEF Delivery!Next
<1>4. CASE Refuse(j)
  <2>1. PhaseOf(j) = "offered" /\ PhaseOf(j)' = "refused"
    BY <1>0, <1>4, PhaseByPlace DEF Refuse, PhaseOf, QInv, SettledAccepted
  <2>2. \A k \in Jobs \ {j} : PhaseOf(k)' = PhaseOf(k)
    BY <1>0, <1>4 DEF Refuse, PhaseOf
  <2>3. Delivery!Refuse(j)
    BY <2>1, <2>2, OneMove DEF Delivery!Refuse
  <2> QED BY <2>3 DEF Delivery!Next
<1>5. CASE Panic(j)
  <2>1. PhaseOf(j) = "offered" /\ PhaseOf(j)' = "panicked"
    BY <1>0, <1>5, PhaseByPlace DEF Panic, PhaseOf, QInv, SettledAccepted
  <2>2. \A k \in Jobs \ {j} : PhaseOf(k)' = PhaseOf(k)
    BY <1>0, <1>5 DEF Panic, PhaseOf
  <2>3. Delivery!Panic(j)
    BY <2>1, <2>2, OneMove DEF Delivery!Panic
  <2> QED BY <2>3 DEF Delivery!Next
<1> QED BY <1>1, <1>2, <1>3, <1>4, <1>5 DEF Enqueue

\* The steps of the workers: the job at the head starts or is dropped, a running
\* job ends.
LEMMA WorkImplements ==
    ASSUME QInv, QInv', NEW u \in Workers, Work(u)
    PROVE  Delivery!Next \/ UNCHANGED [k \in Jobs |-> PhaseOf(k)]
<1> USE QueueAssumption DEF QueueAssumption, procVars, chanVars, callVars, history
<1>0. TypeOK /\ TypeOK'
  BY DEF QInv
<1>1. CASE Dispatch(u)
  <2>1. PICK h \in Jobs : h = Head(buffer) /\ \E i \in 1..Len(buffer) : buffer[i] = h
    BY <1>0, <1>1, TailBuffer DEF Dispatch
  <2>2. PhaseOf(h) = "queued"
    BY <2>1, PhaseByPlace
  <2>3. worker[u] = Idle /\ worker' = [worker EXCEPT ![u] = h]
        /\ call' = call /\ ended' = ended /\ lost' = lost
    BY <1>1, <2>1 DEF Dispatch
  <2>4. h \notin lost /\ h \notin ended /\ call[h] = "accepted"
    BY <2>1 DEF QInv, BufferedOnce
  <2>5. worker'[u] = h
    BY <2>3, <1>0 DEF TypeOK
  <2>6. PhaseOf(h)' = "running"
    BY <2>3, <2>4, <2>5 DEF PhaseOf
  <2>7. \A k \in Jobs \ {h} : \A w \in Workers : worker'[w] = k <=> worker[w] = k
    BY <2>3, <1>0 DEF TypeOK
  <2>8. \A k \in Jobs \ {h} : PhaseOf(k)' = PhaseOf(k)
    BY <2>3, <2>7 DEF PhaseOf
  <2>9. Delivery!Start(h)
    BY <2>1, <2>2, <2>6, <2>8, OneMove DEF Delivery!Start
  <2> QED BY <2>1, <2>9 DEF Delivery!Next
<1>2. CASE Skip(u)
  <2>1. PICK h \in Jobs : h = Head(buffer) /\ \E i \in 1..Len(buffer) : buffer[i] = h
    BY <1>0, <1>2, TailBuffer DEF Skip
  <2>2. PhaseOf(h) = "queued"
    BY <2>1, PhaseByPlace
  <2>3. worker' = worker /\ call' = call /\ ended' = ended \union {h} /\ lost' = lost
    BY <1>2, <2>1 DEF Skip
  <2>4. h \notin lost /\ call[h] = "accepted"
    BY <2>1 DEF QInv, BufferedOnce
  <2>5. PhaseOf(h)' = "ended"
    BY <2>3, <2>4 DEF PhaseOf
  <2>6. \A k \in Jobs \ {h} : PhaseOf(k)' = PhaseOf(k)
    BY <2>3 DEF PhaseOf
  <2>7. Delivery!Drop(h)
    BY <2>1, <2>2, <2>5, <2>6, OneMove DEF Delivery!Drop
  <2> QED BY <2>1, <2>7 DEF Delivery!Next
<1>3. CASE Finish(u)
  <2>1. PICK r \in Jobs :
           /\ worker[u] = r /\ worker' = [worker EXCEPT ![u] = Idle] /\ call' = call
           /\ ended' = ended \union {r} /\ lost' = lost
    BY <1>3 DEF Finish
  <2>2. PhaseOf(r) = "running"
    BY <2>1, PhaseByPlace
  <2>3. r \notin lost /\ call[r] = "accepted"
    BY <2>1 DEF QInv, RunningOnce
  <2>4. PhaseOf(r)' = "ended"
    BY <2>1, <2>3 DEF PhaseOf
  <2>5. \A k \in Jobs \ {r} : \A w \in Workers : worker'[w] = k <=> worker[w] = k
    BY <2>1, <1>0 DEF TypeOK
  <2>6. \A k \in Jobs \ {r} : PhaseOf(k)' = PhaseOf(k)
    BY <2>1, <2>5 DEF PhaseOf
  <2>7. Delivery!Finish(r)
    BY <2>1, <2>2, <2>4, <2>6, OneMove DEF Delivery!Finish
  <2> QED BY <2>1, <2>7 DEF Delivery!Next
<1>4. CASE Return(u)
  <2>1. \A k \in Jobs : \A w \in Workers : worker'[w] = k <=> worker[w] = k
    BY <1>0, <1>4 DEF Return, TypeOK
  <2>2. \A k \in Jobs : PhaseOf(k)' = PhaseOf(k)
    BY <1>4, <2>1 DEF Return, PhaseOf
  <2> QED BY <2>2
<1> QED BY <1>1, <1>2, <1>3, <1>4 DEF Work

\* The steps of the process: only its end moves phases, all at once.
LEMMA ProcessImplements ==
    ASSUME QInv, QInv', Process
    PROVE  Delivery!Next \/ UNCHANGED [k \in Jobs |-> PhaseOf(k)]
<1> USE QueueAssumption DEF QueueAssumption, procVars, chanVars, callVars, history
<1>0. TypeOK /\ TypeOK'
  BY DEF QInv
<1>1. CASE Signal \/ Drained \/ Abandon \/ CloseChannel
  <2>1. \A k \in Jobs : PhaseOf(k)' = PhaseOf(k)
    BY <1>1 DEF Signal, Drained, Abandon, CloseChannel, PhaseOf
  <2> QED BY <2>1
<1>2. CASE Exit
  <2>1. buffer = <<>> /\ \A w \in Workers : worker[w] = Gone
    BY <1>2 DEF Exit, QInv, GoneDrained, Alive
  <2>2. \A k \in Jobs : call[k] = "accepted" => k \in ended \union lost
    BY <1>0, <2>1 DEF QInv, TypeOK, Conserved
  <2>3. ASSUME NEW k \in Jobs
        PROVE  PhaseOf(k)' = CASE PhaseOf(k) = "offered" -> "aborted"
                               [] PhaseOf(k) \in {"queued", "running"} -> "lost"
                               [] OTHER -> PhaseOf(k)
    <3>1. ended' = ended /\ lost' = lost /\ worker' = worker /\ call' = CutOff
      BY <1>2 DEF Exit
    <3>2. CASE call[k] = "accepted"
      <4>1. call'[k] = "accepted"
        BY <3>1, <3>2 DEF CutOff
      <4>2. PhaseOf(k) \in {"ended", "lost"} /\ PhaseOf(k)' = PhaseOf(k)
        BY <2>2, <3>1, <3>2, <4>1 DEF PhaseOf
      <4> QED BY <4>2
    <3>3. CASE call[k] # "accepted"
      <4>1. PhaseOf(k) = call[k]
        BY <3>3, PhaseByPlace
      <4>2. call'[k] = IF call[k] = "offered" THEN "aborted" ELSE call[k]
        BY <3>1 DEF CutOff
      <4>3. PhaseOf(k)' = call'[k]
        BY <3>1, <3>3, <4>2 DEF QInv, SettledAccepted, PhaseOf
      <4>4. call[k] \notin {"queued", "running"}
        BY <1>0 DEF TypeOK, CallStates
      <4> QED BY <4>1, <4>2, <4>3, <4>4
    <3> QED BY <3>2, <3>3
  <2>4. Delivery!Vanish
    BY <2>3 DEF Delivery!Vanish
  <2> QED BY <2>4 DEF Delivery!Next
<1>3. CASE Crash
  <2>1. ended' = ended /\ lost' = lost \union (Held \intersect Jobs) /\ call' = CutOff
    BY <1>3 DEF Crash
  <2>2. ASSUME NEW k \in Jobs
        PROVE  PhaseOf(k)' = CASE PhaseOf(k) = "offered" -> "aborted"
                               [] PhaseOf(k) \in {"queued", "running"} -> "lost"
                               [] OTHER -> PhaseOf(k)
    <3>1. CASE k \in Held
      <4>1. PhaseOf(k) \in {"queued", "running"}
        BY <3>1, PhaseByPlace DEF Held
      <4>2. PhaseOf(k)' = "lost"
        BY <2>1, <3>1 DEF PhaseOf
      <4> QED BY <4>1, <4>2
    <3>2. CASE k \notin Held /\ call[k] = "accepted"
      <4>1. k \in ended \union lost
        BY <3>2 DEF QInv, Conserved, Held
      <4>2. call'[k] = "accepted"
        BY <2>1, <3>2 DEF CutOff
      <4>3. PhaseOf(k) \in {"ended", "lost"} /\ PhaseOf(k)' = PhaseOf(k)
        BY <2>1, <3>2, <4>1, <4>2 DEF PhaseOf
      <4> QED BY <4>3
    <3>3. CASE k \notin Held /\ call[k] # "accepted"
      <4>1. PhaseOf(k) = call[k]
        BY <3>3, PhaseByPlace
      <4>2. call'[k] = IF call[k] = "offered" THEN "aborted" ELSE call[k]
        BY <2>1 DEF CutOff
      <4>3. PhaseOf(k)' = call'[k]
        BY <2>1, <3>3, <4>2 DEF QInv, SettledAccepted, PhaseOf
      <4>4. call[k] \notin {"queued", "running"}
        BY <1>0 DEF TypeOK, CallStates
      <4> QED BY <4>1, <4>2, <4>3, <4>4
    <3> QED BY <3>1, <3>2, <3>3
  <2>3. Delivery!Vanish
    BY <2>2 DEF Delivery!Vanish
  <2> QED BY <2>3 DEF Delivery!Next
<1>4. CASE Restart
  <2>1. ~Alive /\ call' = call /\ ended' = ended /\ lost' = lost
    BY <1>4 DEF Restart
  <2>2. \A k \in Jobs : \A w \in Workers : worker[w] # k /\ worker'[w] # k
    BY <1>4, <2>1 DEF Restart, QInv, GoneDrained
  <2>3. \A k \in Jobs : PhaseOf(k)' = PhaseOf(k)
    BY <2>1, <2>2 DEF PhaseOf
  <2> QED BY <2>3
<1> QED BY <1>1, <1>2, <1>3, <1>4 DEF Process

\* The queue delivers every job the way JobDelivery promises.
THEOREM QueueImplementsDelivery == Spec => DeliverySpec
<1>1. Init => Delivery!Init
  BY QueueAssumption DEF QueueAssumption, Init, Delivery!Init, PhaseOf
<1>2. QInv /\ QInv' /\ [Next]_vars => [Delivery!Next]_([j \in Jobs |-> PhaseOf(j)])
  <2> SUFFICES ASSUME QInv, QInv', [Next]_vars
               PROVE  Delivery!Next \/ UNCHANGED [j \in Jobs |-> PhaseOf(j)]
    OBVIOUS
  <2>1. CASE Next
    BY <2>1, EnqueueImplements, WorkImplements, ProcessImplements DEF Next
  <2>2. CASE UNCHANGED vars
    <3>1. \A k \in Jobs : PhaseOf(k)' = PhaseOf(k)
      BY <2>2 DEF vars, callVars, history, PhaseOf
    <3> QED BY <3>1
  <2> QED BY <2>1, <2>2
<1> QED BY <1>1, <1>2, QueueInvariant, PTL DEF Spec, DeliverySpec, Delivery!Spec
================================================================================
