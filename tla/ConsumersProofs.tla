--------------------------- MODULE ConsumersProofs ---------------------------
(***************************************************************************)
(* Stopping and backpressure of the consumers, for any number of names,    *)
(* consumers and messages, any prefetch and concurrency, and any failures. *)
(***************************************************************************)
EXTENDS Consumers, FiniteSetTheorems, NaturalsInduction, WellFoundedInduction, TLAPS

Typed ==
    /\ root \in {"nil", "live", "cancelled"}
    /\ names \in [Names -> Objs \cup {Nobody}]
    /\ loop \in [Objs -> Loops]
    /\ batch \in [Objs -> Nat] /\ buffered \in [Objs -> Nat] /\ busy \in [Objs -> Nat]
    /\ closed \in [Objs -> BOOLEAN] /\ stop \in [Objs -> Stops]
    /\ shutdown \in {"no", "taken", "draining", "drained", "expired"}
    /\ stopping \subseteq Objs
    /\ ready \in Nat

\* A consumer's goroutines: the pool is closed, and later found empty, only
\* after the loop that feeds it has returned, and what the loop, the channel
\* and the workers hold is bounded.
Body(o) ==
    /\ closed[o] => loop[o] = "exited"
    /\ stop[o] \in {"closing", "done"} => loop[o] = "exited"
    /\ stop[o] = "done" => buffered[o] = 0 /\ busy[o] = 0
    /\ loop[o] = "submit" <=> batch[o] > 0
    /\ loop[o] = "none" => buffered[o] = 0 /\ busy[o] = 0
    /\ batch[o] <= Prefetch /\ buffered[o] <= Prefetch /\ busy[o] <= Concurrency

\* Who answers for a consumer: the registry, the Shutdown that took it from
\* the registry, or the Unsubscribe that is stopping or has stopped it.
Owned(o) ==
    /\ loop[o] = "none" =>
          stop[o] = "no" /\ o \notin stopping /\ \A n \in Names : names[n] # o
    /\ loop[o] # "none" =>
          (\E n \in Names : names[n] = o) \/ o \in stopping \/ stop[o] # "no"
    /\ shutdown = "drained" => Gone(o) /\ (o \in stopping => stop[o] = "done")

\* Nobody subscribes once Shutdown has taken the consumers.
Closing ==
    /\ shutdown = "no" => stopping = {}
    /\ shutdown # "no" => root = "nil" /\ \A n \in Names : names[n] = Nobody

Inv == Typed /\ Closing /\ \A o \in Objs : Body(o) /\ Owned(o)

\* What the constants are, without the numbering of the consumers.
LEMMA Consts ==
    Nobody \notin Objs /\ Prefetch \in Nat \ {0} /\ Concurrency \in Nat \ {0}
BY ConsumersAssumption DEF Objs, Nobody

\* A new process.
LEMMA InvInit == Init => Inv
BY Consts
DEF Init, Empty, Fresh, Inv, Typed, Closing, Body, Owned, Loops, Stops

\* A step of a dispatch loop.
LEMMA LoopStep ==
    ASSUME Inv, NEW o \in Objs, Loop(o)
    PROVE  Inv'
<1> USE Consts
    DEF Loops, Stops, Gone, engine, bodies, loops, pools, ending,
        wakeup, store, counts
<1>0. Typed /\ Closing /\ \A q \in Objs : Body(q) /\ Owned(q)
  BY Zenon DEF Inv
<1> USE <1>0
<1>1. CASE Begin(o)
  <2>1. Typed'
    BY <1>1, Zenon DEF Typed, Begin, Goto
  <2>2. Closing'
    BY <1>1, Zenon DEF Typed, Closing, Begin, Goto
  <2>3. ASSUME NEW q \in Objs PROVE Body(q)'
    BY <1>1, Body(q), Zenon DEF Typed, Body, Begin, Goto
  <2>4. ASSUME NEW q \in Objs PROVE Owned(q)'
    BY <1>1, Owned(q), Body(q) DEF Typed, Closing, Owned, Body, Begin, Goto
  <2> QED
    BY <2>1, <2>2, <2>3, <2>4, Zenon DEF Inv
<1>2. CASE Return(o)
  <2>1. Typed'
    BY <1>2, Zenon DEF Typed, Return, Goto
  <2>2. Closing'
    BY <1>2, Zenon DEF Typed, Closing, Return, Goto
  <2>3. ASSUME NEW q \in Objs PROVE Body(q)'
    BY <1>2, Body(q), Zenon DEF Typed, Body, Return, Goto
  <2>4. ASSUME NEW q \in Objs PROVE Owned(q)'
    BY <1>2, Owned(q), Body(q) DEF Typed, Closing, Owned, Body, Return, Goto
  <2> QED
    BY <2>1, <2>2, <2>3, <2>4, Zenon DEF Inv
<1>3. CASE Claim(o)
  <2>1. Typed'
    BY <1>3 DEF Typed, Claim, Goto, Claimable
  <2>2. Closing'
    BY <1>3, Zenon DEF Typed, Closing, Claim, Goto, Claimable
  <2>3. ASSUME NEW q \in Objs PROVE Body(q)'
    BY <1>3, Body(q) DEF Typed, Body, Claim, Goto, Claimable
  <2>4. ASSUME NEW q \in Objs PROVE Owned(q)'
    BY <1>3, Owned(q), Body(q) DEF Typed, Closing, Owned, Body, Claim, Goto, Claimable
  <2> QED
    BY <2>1, <2>2, <2>3, <2>4, Zenon DEF Inv
<1>4. CASE ClaimFails(o)
  <2>1. Typed'
    BY <1>4, Zenon DEF Typed, ClaimFails, Goto
  <2>2. Closing'
    BY <1>4, Zenon DEF Typed, Closing, ClaimFails, Goto
  <2>3. ASSUME NEW q \in Objs PROVE Body(q)'
    BY <1>4, Body(q), Zenon DEF Typed, Body, ClaimFails, Goto
  <2>4. ASSUME NEW q \in Objs PROVE Owned(q)'
    BY <1>4, Owned(q), Body(q) DEF Typed, Closing, Owned, Body, ClaimFails, Goto
  <2> QED
    BY <2>1, <2>2, <2>3, <2>4, Zenon DEF Inv
<1>5. CASE Submit(o)
  <2>5. batch[o] \in Nat /\ batch[o] > 0
    BY <1>5, Body(o), Zenon DEF Typed, Body, Submit, Goto, HandedOff
  <2>6. batch' \in [Objs -> Nat] /\ loop' \in [Objs -> Loops]
    BY <1>5, <2>5 DEF Typed, Submit, Goto, HandedOff
  <2>7. buffered' \in [Objs -> Nat] /\ ready' \in Nat
    BY <1>5 DEF Typed, Submit, Goto, HandedOff
  <2>1. Typed'
    BY <1>5, <2>6, <2>7, Zenon DEF Typed, Submit, Goto, HandedOff
  <2>2. Closing'
    BY <1>5, Zenon DEF Typed, Closing, Submit, Goto, HandedOff
  <2>3. ASSUME NEW q \in Objs PROVE Body(q)'
    BY <1>5, Body(q) DEF Typed, Body, Submit, Goto, HandedOff
  <2>4. ASSUME NEW q \in Objs PROVE Owned(q)'
    BY <1>5, Owned(q), Body(q) DEF Typed, Closing, Owned, Body, Submit, Goto, HandedOff
  <2> QED
    BY <2>1, <2>2, <2>3, <2>4, Zenon DEF Inv
<1>6. CASE ReleaseUndispatched(o)
  <2>5. batch[o] \in Nat /\ batch[o] > 0
    BY <1>6, Body(o), Zenon DEF Typed, Body, ReleaseUndispatched, Goto, HandedOff
  <2>6. batch' \in [Objs -> Nat] /\ loop' \in [Objs -> Loops]
    BY <1>6, <2>5 DEF Typed, ReleaseUndispatched, Goto, HandedOff
  <2>7. buffered' \in [Objs -> Nat] /\ ready' \in Nat
    BY <1>6 DEF Typed, ReleaseUndispatched, Goto, HandedOff
  <2>1. Typed'
    BY <1>6, <2>6, <2>7, Zenon DEF Typed, ReleaseUndispatched, Goto, HandedOff
  <2>2. Closing'
    BY <1>6, Zenon DEF Typed, Closing, ReleaseUndispatched, Goto, HandedOff
  <2>3. ASSUME NEW q \in Objs PROVE Body(q)'
    BY <1>6, Body(q) DEF Typed, Body, ReleaseUndispatched, Goto, HandedOff
  <2>4. ASSUME NEW q \in Objs PROVE Owned(q)'
    BY <1>6, Owned(q), Body(q) DEF Typed, Closing, Owned, Body, ReleaseUndispatched, Goto, HandedOff
  <2> QED
    BY <2>1, <2>2, <2>3, <2>4, Zenon DEF Inv
<1>7. CASE WakeBySignal(o)
  <2>1. Typed'
    BY <1>7, Zenon DEF Typed, WakeBySignal, Goto
  <2>2. Closing'
    BY <1>7, Zenon DEF Typed, Closing, WakeBySignal, Goto
  <2>3. ASSUME NEW q \in Objs PROVE Body(q)'
    BY <1>7, Body(q), Zenon DEF Typed, Body, WakeBySignal, Goto
  <2>4. ASSUME NEW q \in Objs PROVE Owned(q)'
    BY <1>7, Owned(q), Body(q) DEF Typed, Closing, Owned, Body, WakeBySignal, Goto
  <2> QED
    BY <2>1, <2>2, <2>3, <2>4, Zenon DEF Inv
<1>8. CASE WakeByContext(o)
  <2>1. Typed'
    BY <1>8, Zenon DEF Typed, WakeByContext, Goto
  <2>2. Closing'
    BY <1>8, Zenon DEF Typed, Closing, WakeByContext, Goto
  <2>3. ASSUME NEW q \in Objs PROVE Body(q)'
    BY <1>8, Body(q), Zenon DEF Typed, Body, WakeByContext, Goto
  <2>4. ASSUME NEW q \in Objs PROVE Owned(q)'
    BY <1>8, Owned(q), Body(q) DEF Typed, Closing, Owned, Body, WakeByContext, Goto
  <2> QED
    BY <2>1, <2>2, <2>3, <2>4, Zenon DEF Inv
<1>9. CASE WakeByTimer(o)
  <2>1. Typed'
    BY <1>9, Zenon DEF Typed, WakeByTimer, Goto
  <2>2. Closing'
    BY <1>9, Zenon DEF Typed, Closing, WakeByTimer, Goto
  <2>3. ASSUME NEW q \in Objs PROVE Body(q)'
    BY <1>9, Body(q), Zenon DEF Typed, Body, WakeByTimer, Goto
  <2>4. ASSUME NEW q \in Objs PROVE Owned(q)'
    BY <1>9, Owned(q), Body(q) DEF Typed, Closing, Owned, Body, WakeByTimer, Goto
  <2> QED
    BY <2>1, <2>2, <2>3, <2>4, Zenon DEF Inv
<1> QED
  BY <1>1, <1>2, <1>3, <1>4, <1>5, <1>6, <1>7, <1>8, <1>9, Zenon DEF Loop

\* A step of a worker.
LEMMA WorkersStep ==
    ASSUME Inv, NEW o \in Objs, Workers(o)
    PROVE  Inv'
<1> USE Consts
    DEF Loops, Stops, Gone, engine, bodies, loops, pools, ending,
        wakeup, store, counts
<1>0. Typed /\ Closing /\ \A q \in Objs : Body(q) /\ Owned(q)
  BY Zenon DEF Inv
<1> USE <1>0
<1>1. CASE TakeTask(o)
  <2>1. Typed'
    BY <1>1 DEF Typed, TakeTask
  <2>2. Closing'
    BY <1>1, Zenon DEF Typed, Closing, TakeTask
  <2>3. ASSUME NEW q \in Objs PROVE Body(q)'
    BY <1>1, Body(q) DEF Typed, Body, TakeTask
  <2>4. ASSUME NEW q \in Objs PROVE Owned(q)'
    BY <1>1, Owned(q), Body(q), Zenon DEF Typed, Closing, Owned, Body, TakeTask
  <2> QED
    BY <2>1, <2>2, <2>3, <2>4, Zenon DEF Inv
<1>2. CASE FinishTask(o)
  <2>1. Typed'
    BY <1>2 DEF Typed, FinishTask, TaskOver
  <2>2. Closing'
    BY <1>2, Zenon DEF Typed, Closing, FinishTask, TaskOver
  <2>3. ASSUME NEW q \in Objs PROVE Body(q)'
    BY <1>2, Body(q) DEF Typed, Body, FinishTask, TaskOver
  <2>4. ASSUME NEW q \in Objs PROVE Owned(q)'
    BY <1>2, Owned(q), Body(q), Zenon DEF Typed, Closing, Owned, Body, FinishTask, TaskOver
  <2> QED
    BY <2>1, <2>2, <2>3, <2>4, Zenon DEF Inv
<1>3. CASE RetryTask(o)
  <2>1. Typed'
    BY <1>3 DEF Typed, RetryTask, TaskOver
  <2>2. Closing'
    BY <1>3, Zenon DEF Typed, Closing, RetryTask, TaskOver
  <2>3. ASSUME NEW q \in Objs PROVE Body(q)'
    BY <1>3, Body(q) DEF Typed, Body, RetryTask, TaskOver
  <2>4. ASSUME NEW q \in Objs PROVE Owned(q)'
    BY <1>3, Owned(q), Body(q), Zenon DEF Typed, Closing, Owned, Body, RetryTask, TaskOver
  <2> QED
    BY <2>1, <2>2, <2>3, <2>4, Zenon DEF Inv
<1>4. CASE TaskFails(o)
  <2>1. Typed'
    BY <1>4 DEF Typed, TaskFails, TaskOver
  <2>2. Closing'
    BY <1>4, Zenon DEF Typed, Closing, TaskFails, TaskOver
  <2>3. ASSUME NEW q \in Objs PROVE Body(q)'
    BY <1>4, Body(q) DEF Typed, Body, TaskFails, TaskOver
  <2>4. ASSUME NEW q \in Objs PROVE Owned(q)'
    BY <1>4, Owned(q), Body(q), Zenon DEF Typed, Closing, Owned, Body, TaskFails, TaskOver
  <2> QED
    BY <2>1, <2>2, <2>3, <2>4, Zenon DEF Inv
<1> QED
  BY <1>1, <1>2, <1>3, <1>4, Zenon DEF Workers

\* A step of Consumer.Stop, or the goroutine of Shutdown beginning one.
LEMMA StoppingStep ==
    ASSUME Inv, NEW o \in Objs, Stopping(o) \/ ShutdownStop(o)
    PROVE  Inv'
<1> USE Consts
    DEF Loops, Stops, Gone, engine, bodies, loops, pools, ending,
        wakeup, store, counts
<1>0. Typed /\ Closing /\ \A q \in Objs : Body(q) /\ Owned(q)
  BY Zenon DEF Inv
<1> USE <1>0
<1>1. CASE StopLoop(o)
  <2>1. Typed'
    BY <1>1, Zenon DEF Typed, StopLoop
  <2>2. Closing'
    BY <1>1, Zenon DEF Typed, Closing, StopLoop
  <2>3. ASSUME NEW q \in Objs PROVE Body(q)'
    BY <1>1, Body(q), Zenon DEF Typed, Body, StopLoop
  <2>4. ASSUME NEW q \in Objs PROVE Owned(q)'
    BY <1>1, Owned(q), Body(q) DEF Typed, Closing, Owned, Body, StopLoop
  <2> QED
    BY <2>1, <2>2, <2>3, <2>4, Zenon DEF Inv
<1>2. CASE StopPool(o)
  <2>1. Typed'
    BY <1>2, Zenon DEF Typed, StopPool
  <2>2. Closing'
    BY <1>2, Zenon DEF Typed, Closing, StopPool
  <2>3. ASSUME NEW q \in Objs PROVE Body(q)'
    BY <1>2, Body(q), Zenon DEF Typed, Body, StopPool
  <2>4. ASSUME NEW q \in Objs PROVE Owned(q)'
    BY <1>2, Owned(q), Body(q) DEF Typed, Closing, Owned, Body, StopPool
  <2> QED
    BY <2>1, <2>2, <2>3, <2>4, Zenon DEF Inv
<1>3. CASE Stopped(o)
  <2>1. Typed'
    BY <1>3, Zenon DEF Typed, Stopped
  <2>2. Closing'
    BY <1>3, Zenon DEF Typed, Closing, Stopped
  <2>3. ASSUME NEW q \in Objs PROVE Body(q)'
    BY <1>3, Body(q), Zenon DEF Typed, Body, Stopped
  <2>4. ASSUME NEW q \in Objs PROVE Owned(q)'
    BY <1>3, Owned(q), Body(q) DEF Typed, Closing, Owned, Body, Stopped
  <2> QED
    BY <2>1, <2>2, <2>3, <2>4, Zenon DEF Inv
<1>4. CASE ShutdownStop(o)
  <2>1. Typed'
    BY <1>4, Zenon DEF Typed, ShutdownStop
  <2>2. Closing'
    BY <1>4, Zenon DEF Typed, Closing, ShutdownStop
  <2>3. ASSUME NEW q \in Objs PROVE Body(q)'
    BY <1>4, Body(q), Zenon DEF Typed, Body, ShutdownStop
  <2>4. ASSUME NEW q \in Objs PROVE Owned(q)'
    BY <1>4, Owned(q), Body(q) DEF Typed, Closing, Owned, Body, ShutdownStop
  <2> QED
    BY <2>1, <2>2, <2>3, <2>4, Zenon DEF Inv
<1> QED
  BY <1>1, <1>2, <1>3, <1>4, Zenon DEF Stopping

\* A step of the engine or of the store.
LEMMA EngineStep ==
    ASSUME Inv, Start \/ Cancel \/ Publish \/ Notify \/ RetryDue \/ Reclaim
           \/ Shutdown \/ ShutdownCancel \/ MaintenanceEnds \/ Drained \/ TimedOut \/ CloseStore
    PROVE  Inv'
<1> USE Consts
    DEF Loops, Stops, Gone, engine, bodies, loops, pools, ending,
        wakeup, store, counts
<1>0. Typed /\ Closing /\ \A q \in Objs : Body(q) /\ Owned(q)
  BY Zenon DEF Inv
<1> USE <1>0
<1>1. CASE Start
  <2>1. Typed'
    BY <1>1, Zenon DEF Typed, Start
  <2>2. Closing'
    BY <1>1, Zenon DEF Typed, Closing, Start
  <2>3. ASSUME NEW q \in Objs PROVE Body(q)'
    BY <1>1, Body(q), Zenon DEF Typed, Body, Start
  <2>4. ASSUME NEW q \in Objs PROVE Owned(q)'
    BY <1>1, Owned(q), Body(q), Zenon DEF Typed, Closing, Owned, Body, Start
  <2> QED
    BY <2>1, <2>2, <2>3, <2>4, Zenon DEF Inv
<1>2. CASE Cancel
  <2>1. Typed'
    BY <1>2, Zenon DEF Typed, Cancel
  <2>2. Closing'
    BY <1>2, Zenon DEF Typed, Closing, Cancel
  <2>3. ASSUME NEW q \in Objs PROVE Body(q)'
    BY <1>2, Body(q), Zenon DEF Typed, Body, Cancel
  <2>4. ASSUME NEW q \in Objs PROVE Owned(q)'
    BY <1>2, Owned(q), Body(q), Zenon DEF Typed, Closing, Owned, Body, Cancel
  <2> QED
    BY <2>1, <2>2, <2>3, <2>4, Zenon DEF Inv
<1>3. CASE Publish
  <2>1. Typed'
    BY <1>3 DEF Typed, Publish
  <2>2. Closing'
    BY <1>3, Zenon DEF Typed, Closing, Publish
  <2>3. ASSUME NEW q \in Objs PROVE Body(q)'
    BY <1>3, Body(q), Zenon DEF Typed, Body, Publish
  <2>4. ASSUME NEW q \in Objs PROVE Owned(q)'
    BY <1>3, Owned(q), Body(q), Zenon DEF Typed, Closing, Owned, Body, Publish
  <2> QED
    BY <2>1, <2>2, <2>3, <2>4, Zenon DEF Inv
<1>4. CASE Notify
  <2>1. Typed'
    BY <1>4, Zenon DEF Typed, Notify
  <2>2. Closing'
    BY <1>4, Zenon DEF Typed, Closing, Notify
  <2>3. ASSUME NEW q \in Objs PROVE Body(q)'
    BY <1>4, Body(q), Zenon DEF Typed, Body, Notify
  <2>4. ASSUME NEW q \in Objs PROVE Owned(q)'
    BY <1>4, Owned(q), Body(q), Zenon DEF Typed, Closing, Owned, Body, Notify
  <2> QED
    BY <2>1, <2>2, <2>3, <2>4, Zenon DEF Inv
<1>5. CASE RetryDue
  <2>1. Typed'
    BY <1>5 DEF Typed, RetryDue
  <2>2. Closing'
    BY <1>5, Zenon DEF Typed, Closing, RetryDue
  <2>3. ASSUME NEW q \in Objs PROVE Body(q)'
    BY <1>5, Body(q), Zenon DEF Typed, Body, RetryDue
  <2>4. ASSUME NEW q \in Objs PROVE Owned(q)'
    BY <1>5, Owned(q), Body(q), Zenon DEF Typed, Closing, Owned, Body, RetryDue
  <2> QED
    BY <2>1, <2>2, <2>3, <2>4, Zenon DEF Inv
<1>6. CASE Reclaim
  <2>1. Typed'
    BY <1>6 DEF Typed, Reclaim
  <2>2. Closing'
    BY <1>6, Zenon DEF Typed, Closing, Reclaim
  <2>3. ASSUME NEW q \in Objs PROVE Body(q)'
    BY <1>6, Body(q), Zenon DEF Typed, Body, Reclaim
  <2>4. ASSUME NEW q \in Objs PROVE Owned(q)'
    BY <1>6, Owned(q), Body(q), Zenon DEF Typed, Closing, Owned, Body, Reclaim
  <2> QED
    BY <2>1, <2>2, <2>3, <2>4, Zenon DEF Inv
<1>7. CASE Shutdown
  <2>0. /\ root' = "nil" /\ shutdown = "no" /\ shutdown' = "taken"
        /\ names' = [n \in Names |-> Nobody]
        /\ stopping' = {names[n] : n \in Names} \ {Nobody}
        /\ UNCHANGED <<loop, batch, buffered, busy, closed, stop, ready>>
    BY <1>7, Zenon DEF Shutdown
  <2>1. Typed'
    BY <2>0 DEF Typed
  <2>2. Closing'
    BY <2>0, ZenonT(30) DEF Closing
  <2>3. ASSUME NEW q \in Objs PROVE Body(q)'
    BY <2>0, Body(q), ZenonT(30) DEF Body
  <2>4. ASSUME NEW q \in Objs PROVE Owned(q)'
    <3>1. q \in stopping' <=> \E n \in Names : names[n] = q
      BY <2>0, Zenon
    <3>2. \A n \in Names : names'[n] # q
      BY <2>0, Zenon
    <3> QED
      BY <2>0, <3>1, <3>2, Owned(q), stopping = {}, Zenon DEF Owned, Closing
  <2> QED
    BY <2>1, <2>2, <2>3, <2>4, Zenon DEF Inv
<1>8. CASE ShutdownCancel
  <2>1. Typed'
    BY <1>8, Zenon DEF Typed, ShutdownCancel
  <2>2. Closing'
    BY <1>8, Zenon DEF Typed, Closing, ShutdownCancel
  <2>3. ASSUME NEW q \in Objs PROVE Body(q)'
    BY <1>8, Body(q), Zenon DEF Typed, Body, ShutdownCancel
  <2>4. ASSUME NEW q \in Objs PROVE Owned(q)'
    BY <1>8, Owned(q), Body(q), Zenon DEF Typed, Closing, Owned, Body, ShutdownCancel
  <2> QED
    BY <2>1, <2>2, <2>3, <2>4, Zenon DEF Inv
<1>9. CASE MaintenanceEnds
  <2>1. Typed'
    BY <1>9, Zenon DEF Typed, MaintenanceEnds
  <2>2. Closing'
    BY <1>9, Zenon DEF Typed, Closing, MaintenanceEnds
  <2>3. ASSUME NEW q \in Objs PROVE Body(q)'
    BY <1>9, Body(q), Zenon DEF Typed, Body, MaintenanceEnds
  <2>4. ASSUME NEW q \in Objs PROVE Owned(q)'
    BY <1>9, Owned(q), Body(q), Zenon DEF Typed, Closing, Owned, Body, MaintenanceEnds
  <2> QED
    BY <2>1, <2>2, <2>3, <2>4, Zenon DEF Inv
<1>10. CASE Drained
  <2>1. Typed'
    BY <1>10, Zenon DEF Typed, Drained
  <2>2. Closing'
    BY <1>10, Zenon DEF Typed, Closing, Drained
  <2>3. ASSUME NEW q \in Objs PROVE Body(q)'
    BY <1>10, Body(q), Zenon DEF Typed, Body, Drained
  <2>4. ASSUME NEW q \in Objs PROVE Owned(q)'
    BY <1>10, Owned(q), Body(q), Zenon DEF Typed, Closing, Owned, Body, Drained
  <2> QED
    BY <2>1, <2>2, <2>3, <2>4, Zenon DEF Inv
<1>11. CASE TimedOut
  <2>1. Typed'
    BY <1>11, Zenon DEF Typed, TimedOut
  <2>2. Closing'
    BY <1>11, Zenon DEF Typed, Closing, TimedOut
  <2>3. ASSUME NEW q \in Objs PROVE Body(q)'
    BY <1>11, Body(q), Zenon DEF Typed, Body, TimedOut
  <2>4. ASSUME NEW q \in Objs PROVE Owned(q)'
    BY <1>11, Owned(q), Body(q), Zenon DEF Typed, Closing, Owned, Body, TimedOut
  <2> QED
    BY <2>1, <2>2, <2>3, <2>4, Zenon DEF Inv
<1>12. CASE CloseStore
  <2>1. Typed'
    BY <1>12, Zenon DEF Typed, CloseStore
  <2>2. Closing'
    BY <1>12, Zenon DEF Typed, Closing, CloseStore
  <2>3. ASSUME NEW q \in Objs PROVE Body(q)'
    BY <1>12, Body(q), Zenon DEF Typed, Body, CloseStore
  <2>4. ASSUME NEW q \in Objs PROVE Owned(q)'
    BY <1>12, Owned(q), Body(q), Zenon DEF Typed, Closing, Owned, Body, CloseStore
  <2> QED
    BY <2>1, <2>2, <2>3, <2>4, Zenon DEF Inv
<1> QED
  BY <1>1, <1>2, <1>3, <1>4, <1>5, <1>6, <1>7, <1>8, <1>9, <1>10, <1>11, <1>12, Zenon

\* Unsubscribe, up to the Stop it calls.
LEMMA UnsubscribeStep ==
    ASSUME Inv, NEW n \in Names, Unsubscribe(n)
    PROVE  Inv'
<1>0. Typed /\ Closing /\ \A q \in Objs : Body(q) /\ Owned(q)
  BY Zenon DEF Inv
<1>1. PICK o \in Objs :
        /\ names[n] = o /\ names' = [names EXCEPT ![n] = Nobody]
        /\ stop' = [stop EXCEPT ![o] = IF @ = "no" THEN "asked" ELSE @]
        /\ UNCHANGED <<root, loop, batch, buffered, busy, closed, shutdown, stopping, ready>>
  BY <1>0, ZenonT(30) DEF Unsubscribe, Typed, bodies, loops, pools, store, counts
<1>2. Typed'
  BY <1>0, <1>1, Zenon DEF Typed, Stops
<1>3. Closing'
  BY <1>0, <1>1, Consts, Zenon DEF Closing, Typed
<1>4. ASSUME NEW q \in Objs PROVE stop'[q] = stop[q] \/ (q = o /\ stop[q] = "no" /\ stop'[q] = "asked")
  BY <1>0, <1>1, Zenon DEF Typed
<1>5. ASSUME NEW q \in Objs PROVE Body(q)'
  BY <1>0, <1>1, <1>4, ZenonT(30) DEF Body
<1>6. ASSUME NEW q \in Objs PROVE Owned(q)'
  <2>1. shutdown = "no" /\ shutdown' = "no" /\ loop'[q] = loop[q] /\ stopping' = stopping
    BY <1>0, <1>1, Consts, Zenon DEF Closing
  <2>2. \A m \in Names : names'[m] = q => names[m] = q
    BY <1>0, <1>1, Consts, Zenon DEF Typed
  <2>3. CASE q = o
    <3>1. loop[q] # "none" /\ stop'[q] # "no"
      BY <1>0, <1>1, <1>4, <2>3, Zenon DEF Owned, Typed
    <3> QED
      BY <2>1, <3>1, Zenon DEF Owned
  <2>4. CASE q # o
    <3>1. stop'[q] = stop[q]
      BY <1>4, <2>4, Zenon
    <3>2. \A m \in Names : names[m] = q => names'[m] = q
      BY <1>0, <1>1, <2>4, Zenon DEF Typed
    <3> QED
      BY <1>0, <2>1, <2>2, <3>1, <3>2, ZenonT(30) DEF Owned
  <2> QED
    BY <2>3, <2>4, Zenon
<1> QED
  BY <1>2, <1>3, <1>5, <1>6, Zenon DEF Inv

\* Subscribe.
LEMMA SubscribeStep ==
    ASSUME Inv, NEW n \in Names, NEW o \in Objs, Subscribe(n, o)
    PROVE  Inv'
<1>0. Typed /\ Closing /\ \A q \in Objs : Body(q) /\ Owned(q)
  BY Zenon DEF Inv
<1>1. /\ root # "nil" /\ names[n] = Nobody /\ loop[o] = "none"
      /\ names' = [names EXCEPT ![n] = o] /\ loop' = [loop EXCEPT ![o] = "begin"]
      /\ UNCHANGED <<root, batch, buffered, busy, closed, stop, shutdown, stopping, ready>>
  BY Zenon DEF Subscribe, pools, ending, store, counts
<1>2. Typed'
  BY <1>0, <1>1, Zenon DEF Typed, Loops
<1>3. shutdown = "no" /\ shutdown' = "no" /\ Closing'
  BY <1>0, <1>1, Zenon DEF Closing
<1>4. ASSUME NEW q \in Objs PROVE loop'[q] = IF q = o THEN "begin" ELSE loop[q]
  BY <1>0, <1>1, Zenon DEF Typed
<1>5. ASSUME NEW q \in Objs PROVE Body(q)'
  <2>1. CASE q = o
    <3>1. Body(q) /\ Owned(q) /\ loop[q] = "none" /\ loop'[q] = "begin"
      BY <1>0, <1>1, <1>4, <2>1, Zenon
    <3>2. stop'[q] = "no" /\ ~closed'[q] /\ ~(batch'[q] > 0)
      BY <1>1, <3>1, Zenon DEF Body, Owned
    <3>3. batch'[q] <= Prefetch /\ buffered'[q] <= Prefetch /\ busy'[q] <= Concurrency
      BY <1>1, <3>1, ZenonT(30) DEF Body
    <3> QED
      BY <3>1, <3>2, <3>3, Zenon DEF Body
  <2>2. CASE q # o
    BY <1>0, <1>1, <1>4, <2>2, Zenon DEF Body
  <2> QED
    BY <2>1, <2>2, Zenon
<1>6. ASSUME NEW q \in Objs PROVE Owned(q)'
  <2>1. CASE q = o
    <3>1. names'[n] = q /\ loop'[q] = "begin"
      BY <1>0, <1>1, <1>4, <2>1, Zenon DEF Typed
    <3> QED
      BY <1>3, <3>1, Zenon DEF Owned
  <2>2. CASE q # o
    <3>1. loop'[q] = loop[q] /\ \A m \in Names : names'[m] = q <=> names[m] = q
      BY <1>0, <1>1, <1>4, <2>2, Consts, Zenon DEF Typed
    <3> QED
      BY <1>0, <1>1, <1>3, <3>1 DEF Owned
  <2> QED
    BY <2>1, <2>2, Zenon
<1> QED
  BY <1>2, <1>3, <1>5, <1>6, Zenon DEF Inv

\* Inv is inductive: every step of Next, or a step that changes nothing,
\* preserves it.
THEOREM Inductive == Spec => []Inv
<1>1. ASSUME Inv, [Next]_vars
      PROVE  Inv'
  <2>1. CASE \E o \in Objs : Loop(o) \/ Workers(o) \/ Stopping(o) \/ ShutdownStop(o)
    BY <1>1, <2>1, LoopStep, WorkersStep, StoppingStep, Zenon
  <2>2. CASE \E n \in Names : Unsubscribe(n) \/ \E o \in Objs : Subscribe(n, o)
    BY <1>1, <2>2, UnsubscribeStep, SubscribeStep, Zenon
  <2>3. CASE \/ Start \/ Cancel \/ Publish \/ Notify \/ RetryDue \/ Reclaim
             \/ Shutdown \/ ShutdownCancel \/ MaintenanceEnds \/ Drained \/ TimedOut \/ CloseStore
    BY <1>1, <2>3, EngineStep, Zenon
  <2>4. CASE UNCHANGED vars
    <3>1. UNCHANGED <<root, names, loop, batch, buffered, busy, closed, stop, shutdown, stopping, ready>>
      BY <2>4, Zenon DEF vars, engine, bodies, loops, pools, ending, wakeup, store, counts
    <3>2. Typed' /\ Closing'
      BY <1>1, <3>1, Zenon DEF Inv, Typed, Closing
    <3>3. ASSUME NEW q \in Objs PROVE Body(q)' /\ Owned(q)'
      BY <1>1, <3>1, ZenonT(30) DEF Inv, Body, Owned, Gone
    <3> QED
      BY <3>2, <3>3, Zenon DEF Inv
  <2> QED
    BY <1>1, <2>1, <2>2, <2>3, <2>4, Zenon DEF Next, Running, Calls, Draining
<1> QED
  BY InvInit, <1>1, PTL DEF Spec

\* What Inv says of the properties that TLC checks.
LEMMA InvImplies == Inv => NoSubmitAfterClose /\ Backpressure /\ DrainedClean
<1> SUFFICES ASSUME Inv PROVE NoSubmitAfterClose /\ Backpressure /\ DrainedClean
  BY Zenon
<1>1. NoSubmitAfterClose
  BY Zenon DEF Inv, Body, NoSubmitAfterClose
<1>2. ASSUME NEW o \in Objs
      PROVE  buffered[o] <= Prefetch /\ InHand(o) <= 2 * Prefetch + Concurrency
  BY Consts DEF Inv, Typed, Body, InHand
<1>3. ASSUME NEW o \in Objs, shutdown = "drained"
      PROVE  /\ Gone(o) /\ batch[o] = 0
             /\ InHand(o) > 0 => o \notin stopping /\ stop[o] \in {"asked", "waiting", "closing"}
  <2>1. Typed /\ Body(o) /\ Owned(o) /\ Closing
    BY Zenon DEF Inv
  <2>2. Gone(o) /\ batch[o] = 0
    BY <1>3, <2>1 DEF Typed, Owned, Gone, Body
  <2>3. ASSUME stop[o] = "done" PROVE ~(InHand(o) > 0)
    <3>1. batch[o] = 0 /\ buffered[o] = 0 /\ busy[o] = 0
      BY <2>1, <2>2, <2>3, Zenon DEF Body
    <3> QED
      BY <3>1 DEF InHand
  <2>4. ASSUME stop[o] = "no", o \notin stopping PROVE ~(InHand(o) > 0)
    <3>1. \A n \in Names : names[n] # o
      BY <1>3, <2>1, Consts, Zenon DEF Closing
    <3>2. loop[o] = "none"
      BY <2>1, <2>4, <3>1, Zenon DEF Owned
    <3>3. batch[o] = 0 /\ buffered[o] = 0 /\ busy[o] = 0
      BY <2>1, <2>2, <3>2, Zenon DEF Body
    <3> QED
      BY <3>3 DEF InHand
  <2>5. o \in stopping => stop[o] = "done"
    BY <1>3, <2>1, Zenon DEF Owned
  <2>6. stop[o] \in Stops
    BY <2>1, Zenon DEF Typed
  <2> QED
    BY <2>2, <2>3, <2>4, <2>5, <2>6, Zenon DEF Stops
<1> QED
  BY <1>1, <1>2, <1>3, Zenon DEF Backpressure, DrainedClean

\* Submit never sends to the channel that Pool.Stop has closed, however many
\* consumers are subscribed, unsubscribed and shut down at once.
THEOREM NeverSubmitsAfterClose == Spec => []NoSubmitAfterClose
BY Inductive, InvImplies, PTL

\* A consumer never holds more than a batch, a full channel and its busy
\* workers, for every Prefetch and Concurrency.
THEOREM AlwaysBackpressure == Spec => []Backpressure
BY Inductive, InvImplies, PTL

\* When Shutdown returns nil, every dispatch loop has returned and every
\* consumer it took from the registry has an empty pool.
THEOREM AlwaysDrainedClean == Spec => []DrainedClean
BY Inductive, InvImplies, PTL

-----------------------------------------------------------------------------
(* The wake-up signal of the queue. *)

WakeInv == ctx \in [Objs -> BOOLEAN] /\ notifying \in Nat /\ NoLostWakeup

\* A step of a dispatch loop does not lose a wake-up: a loop that falls asleep
\* or returns has seen that nothing is available, or says that it did not look.
LEMMA LoopWakes ==
    ASSUME Inv, WakeInv, NEW o \in Objs, Loop(o)
    PROVE  WakeInv'
<1> USE DEF WakeInv, NoLostWakeup, Goto, engine, bodies, loops, pools, ending, wakeup, store, counts
<1>0. ready \in Nat /\ loop \in [Objs -> Loops]
  BY Zenon DEF Inv, Typed
<1>1. ASSUME Begin(o) \/ WakeBySignal(o) \/ WakeByContext(o) \/ WakeByTimer(o)
      PROVE  WakeInv'
  <2>1. loop'[o] = "test" /\ UNCHANGED <<ctx, notifying>>
    BY <1>0, <1>1, Zenon DEF Begin, WakeBySignal, WakeByContext, WakeByTimer
  <2> QED
    BY <2>1, ZenonT(30)
<1>2. ASSUME Return(o) \/ ClaimFails(o)
      PROVE  WakeInv'
  BY <1>0, <1>2, Zenon DEF Return, ClaimFails
<1>3. ASSUME Claim(o)
      PROVE  WakeInv'
  <2>0. UNCHANGED <<ctx, notifying>>
    BY <1>3, Zenon DEF Claim
  <2>1. CASE ready = 0
    <3>1. Claimable = 0
      BY <2>1, Consts DEF Claimable
    <3>2. ready' = ready - Claimable
      BY <1>3, Zenon DEF Claim
    <3>3. ready' = 0
      BY <2>1, <3>1, <3>2
    <3> QED
      BY <2>0, <3>3
  <2>2. CASE ready # 0
    <3>1. loop'[o] = "submit"
      BY <1>0, <1>3, <2>2, Zenon DEF Claim
    <3> QED
      BY <2>0, <3>1, Zenon
  <2> QED
    BY <2>1, <2>2, ZenonT(30)
<1>4. ASSUME Submit(o) \/ ReleaseUndispatched(o)
      PROVE  WakeInv'
  <2>1. loop'[o] \in {"test", "submit"} /\ UNCHANGED <<ctx, notifying>>
    BY <1>0, <1>4, Zenon DEF Submit, ReleaseUndispatched, HandedOff
  <2> QED
    BY <2>1, Zenon
<1> QED
  BY <1>1, <1>2, <1>3, <1>4, Zenon DEF Loop

\* Nor does any other step: what becomes available is announced, or is silent.
LEMMA OthersWake ==
    ASSUME Inv, WakeInv, [Next]_vars, ~\E o \in Objs : Loop(o)
    PROVE  WakeInv'
<1> USE DEF WakeInv, NoLostWakeup, engine, bodies, loops, pools, ending, wakeup, store, counts
<1>1. ASSUME NEW o \in Objs, Workers(o) \/ Stopping(o) \/ ShutdownStop(o)
      PROVE  WakeInv'
  <2>1. UNCHANGED <<ready, silent, signal, notifying, loop>>
    BY <1>1, Zenon DEF Workers, TakeTask, FinishTask, RetryTask, TaskFails, Stopping, StopLoop,
                StopPool, Stopped, ShutdownStop
  <2>2. UNCHANGED ctx \/ ctx' = [ctx EXCEPT ![o] = FALSE]
    BY <1>1, ZenonT(30) DEF Workers, TakeTask, FinishTask, RetryTask, TaskFails, Stopping, StopLoop,
                StopPool, Stopped, ShutdownStop
  <2> QED
    BY <2>1, <2>2, ZenonT(30)
<1>2. ASSUME NEW n \in Names, NEW o \in Objs, Subscribe(n, o)
      PROVE  WakeInv'
  <2>1. loop'[o] = "begin" /\ ctx' \in [Objs -> BOOLEAN] /\ UNCHANGED notifying
    BY <1>2, Zenon DEF Subscribe, Inv, Typed
  <2> QED
    BY <2>1, Zenon
<1>3. ASSUME Publish \/ Reclaim
      PROVE  WakeInv'
  <2>1. notifying' = notifying + 1 /\ UNCHANGED ctx
    BY <1>3, Zenon DEF Publish, Reclaim
  <2>2. notifying' \in Nat /\ notifying' > 0
    BY <2>1
  <2> QED
    BY <2>1, <2>2, ZenonT(30)
<1>4. ASSUME Notify
      PROVE  WakeInv'
  BY <1>4 DEF Notify
<1>5. ASSUME RetryDue
      PROVE  WakeInv'
  BY <1>5, Zenon DEF RetryDue
<1>6. ASSUME Cancel \/ ShutdownCancel
      PROVE  WakeInv'
  BY <1>6, Zenon DEF Cancel, ShutdownCancel
<1>7. ASSUME \/ Start \/ Shutdown \/ MaintenanceEnds \/ Drained \/ TimedOut \/ CloseStore
             \/ (\E n \in Names : Unsubscribe(n)) \/ UNCHANGED vars
      PROVE  WakeInv'
  <2>1. UNCHANGED <<ready, silent, signal, notifying, loop, ctx>>
    BY <1>7, Zenon DEF Start, Shutdown, MaintenanceEnds, Drained, TimedOut, CloseStore, Unsubscribe, vars
  <2> QED
    BY <2>1, Zenon
<1> QED
  BY <1>1, <1>2, <1>3, <1>4, <1>5, <1>6, <1>7, ZenonT(30) DEF Next, Running, Calls, Draining

\* A message that was announced is never left with every dispatch loop asleep
\* and the signal channel empty, for any number of consumers that share the
\* one-place channel, however their claims, waits and stops interleave.
THEOREM NoWakeupIsLost == Spec => []NoLostWakeup
<1>1. Init => WakeInv
  BY DEF Init, Empty, Fresh, WakeInv, NoLostWakeup
<1>2. Inv /\ WakeInv /\ [Next]_vars => WakeInv'
  BY LoopWakes, OthersWake, Zenon
<1>3. WakeInv => NoLostWakeup
  BY Zenon DEF WakeInv
<1> QED
  BY <1>1, <1>2, <1>3, Inductive, PTL DEF Spec
-----------------------------------------------------------------------------
(* What the consumers hold in all. *)

\* The fold of MapThenSumSet over the subsets in T: h is summed up one chosen
\* element at a time.
Pick(s) == CHOOSE x \in s : TRUE

Sums(f, h, T) ==
    f = [s \in T |-> IF s = {} THEN 0 ELSE h[Pick(s)] + f[s \ {Pick(s)}]]

\* A set of naturals that is not empty has a least element.
LEMMA Least ==
  ASSUME NEW T \in SUBSET Nat, T # {}
  PROVE  \E x \in T : \A y \in T : x <= y
<1> DEFINE R == OpToRel(<, Nat)
<1>1. IsWellFoundedOn(R, Nat)
  BY NatLessThanWellFounded, Zenon
<1>2. \A x, y \in Nat : y < x => <<y, x>> \in R
  BY Zenon DEF OpToRel
<1> HIDE DEF R
<1>3. \E x \in T : \A y \in T : ~(<<y, x>> \in R)
  BY <1>1, WFMin, Zenon
<1>4. PICK x \in T : \A y \in T : ~(<<y, x>> \in R)
  BY <1>3, Zenon
<1>5. \A y \in T : ~(y < x)
  BY <1>2, <1>4, Zenon
<1>6. \A y \in T : x <= y
  BY <1>5
<1> QED
  BY <1>6, Zenon

\* What is left of a set when the chosen element is taken is smaller by one.
LEMMA Rest ==
  ASSUME NEW D, IsFiniteSet(D), NEW s \in SUBSET D, s # {}
  PROVE  /\ Pick(s) \in s /\ s \ {Pick(s)} \in SUBSET D
         /\ Cardinality(s) \in Nat \ {0}
         /\ Cardinality(s \ {Pick(s)}) = Cardinality(s) - 1
<1>1. Pick(s) \in s
  BY Zenon DEF Pick
<1>2. IsFiniteSet(s)
  BY FS_Subset, Zenon
<1>3. Cardinality(s) \in Nat /\ Cardinality(s) # 0
  BY <1>2, FS_CardinalityType, FS_EmptySet, Zenon
<1>4. Cardinality(s \ {Pick(s)}) = Cardinality(s) - 1
  BY <1>1, <1>2, FS_RemoveElement, Zenon
<1> QED
  BY <1>1, <1>3, <1>4, Zenon

\* The fold exists.
LEMMA SumsExist ==
  ASSUME NEW D, IsFiniteSet(D), NEW h \in [D -> Nat]
  PROVE  \E f : Sums(f, h, SUBSET D)
<1> DEFINE Upto(n) == {s \in SUBSET D : Cardinality(s) <= n}
           Bad     == {n \in Nat : ~\E f : Sums(f, h, Upto(n))}
<1>1. \A s \in SUBSET D : Cardinality(s) \in Nat /\ (Cardinality(s) = 0 => s = {})
  BY FS_Subset, FS_CardinalityType, FS_EmptySet, Zenon
<1>2. ASSUME NEW n \in Nat, n > 0 => \E f : Sums(f, h, Upto(n - 1))
      PROVE  \E f : Sums(f, h, Upto(n))
  <2>1. CASE n = 0
    <3>1. \A s \in Upto(n) : s = {}
      BY <1>1, <2>1
    <3>2. Sums([s \in Upto(n) |-> 0], h, Upto(n))
      BY <3>1, Zenon DEF Sums
    <3> QED
      BY <3>2, Zenon
  <2>2. CASE n # 0
    <3>1. PICK f : Sums(f, h, Upto(n - 1))
      BY <1>2, <2>2
    <3> DEFINE g == [s \in Upto(n) |-> IF s = {} THEN 0 ELSE h[Pick(s)] + f[s \ {Pick(s)}]]
    <3>2. \A s \in Upto(n - 1) : s \in Upto(n)
      BY <1>1
    <3>3. ASSUME NEW s \in Upto(n), s # {}
          PROVE  s \ {Pick(s)} \in Upto(n - 1)
      BY <3>3, Rest
    <3>4. ASSUME NEW s \in Upto(n - 1)
          PROVE  g[s] = f[s]
      <4>1. f[s] = IF s = {} THEN 0 ELSE h[Pick(s)] + f[s \ {Pick(s)}]
        BY <3>1, <3>4, ZenonT(30) DEF Sums
      <4> QED
        BY <3>2, <4>1, Zenon
    <3>5. \A s \in Upto(n) : g[s] = IF s = {} THEN 0 ELSE h[Pick(s)] + g[s \ {Pick(s)}]
      BY <3>3, <3>4, Zenon
    <3>6. g = [s \in Upto(n) |-> g[s]]
      BY Zenon
    <3> HIDE DEF g
    <3>7. Sums(g, h, Upto(n))
      BY <3>5, <3>6, Zenon DEF Sums
    <3> QED
      BY <3>7, ZenonT(30)
  <2> QED
    BY <2>1, <2>2, Zenon
<1> HIDE DEF Upto
<1>3. Bad = {}
  <2> SUFFICES ASSUME Bad # {} PROVE FALSE
    BY Zenon
  <2>1. PICK n \in Bad : \A m \in Bad : n <= m
    BY Least, ZenonT(30)
  <2>2. n > 0 => n - 1 \in Nat /\ n - 1 \notin Bad
    BY <2>1
  <2> QED
    BY <1>2, <2>1, <2>2, Zenon
<1>4. PICK N \in Nat : N = Cardinality(D)
  BY FS_CardinalityType, Zenon
<1>5. \A s \in SUBSET D : Cardinality(s) <= Cardinality(D)
  BY FS_Subset, Zenon
<1>6. Upto(N) = SUBSET D
  BY <1>4, <1>5, Zenon DEF Upto
<1>7. \E f : Sums(f, h, Upto(N))
  BY <1>3, <1>4, Zenon
<1> QED
  BY <1>6, <1>7, Zenon

\* From h to k the share of o changes by d, and no other.
Shifts(h, k, D, o, d) == k[o] = h[o] + d /\ \A p \in D : p # o => k[p] = h[p]

\* When the share of o changes by d, so does every sum that o is in.
LEMMA SumsChange ==
  ASSUME NEW D, IsFiniteSet(D), NEW h \in [D -> Nat], NEW k \in [D -> Nat],
         NEW o \in D, NEW d \in Int, Shifts(h, k, D, o, d),
         NEW f, Sums(f, h, SUBSET D), NEW g, Sums(g, k, SUBSET D)
  PROVE  f[D] \in Nat /\ g[D] \in Nat /\ g[D] = f[D] + d
<1> DEFINE Off(s) == IF o \in s THEN d ELSE 0
           Right(s) == f[s] \in Nat /\ g[s] \in Nat /\ g[s] = f[s] + Off(s)
           Bad == {n \in Nat : \E s \in SUBSET D : Cardinality(s) = n /\ ~Right(s)}
<1>1. ASSUME NEW s \in SUBSET D, s # {} => Right(s \ {Pick(s)})
      PROVE  Right(s)
  <2>1. f[s] = IF s = {} THEN 0 ELSE h[Pick(s)] + f[s \ {Pick(s)}]
    BY Zenon DEF Sums
  <2>2. g[s] = IF s = {} THEN 0 ELSE k[Pick(s)] + g[s \ {Pick(s)}]
    BY ZenonT(30) DEF Sums
  <2>3. CASE s = {}
    BY <2>1, <2>2, <2>3
  <2>4. CASE s # {}
    <3>1. PICK x \in s : x = Pick(s)
      BY <2>4, Rest, Zenon
    <3>2. PICK r : r = s \ {x}
      BY ZenonT(30)
    <3>3. Right(r)
      BY <1>1, <2>4, <3>1, <3>2, Zenon
    <3>4. f[s] = h[x] + f[r] /\ g[s] = k[x] + g[r]
      BY <2>1, <2>2, <2>4, <3>1, <3>2, Zenon
    <3>5. h[x] \in Nat /\ k[x] \in Nat
      BY <3>1, Zenon
    <3>6. CASE x = o
      <4>1. Off(s) = d /\ Off(r) = 0
        BY <3>1, <3>2, <3>6, Zenon
      <4>2. k[x] = h[x] + d
        BY <3>6, Zenon DEF Shifts
      <4> HIDE DEF Off
      <4> QED
        BY <3>3, <3>4, <3>5, <4>1, <4>2
    <3>7. CASE x # o
      <4>1. Off(s) = Off(r) /\ Off(s) \in Int
        BY <3>1, <3>2, <3>7
      <4>2. k[x] = h[x]
        BY <3>1, <3>7, Zenon DEF Shifts
      <4> HIDE DEF Off
      <4> QED
        BY <3>3, <3>4, <3>5, <4>1, <4>2
    <3> QED
      BY <3>6, <3>7, ZenonT(30)
  <2> QED
    BY <2>3, <2>4, ZenonT(30)
<1> HIDE DEF Right
<1>2. Bad = {}
  <2> SUFFICES ASSUME Bad # {} PROVE FALSE
    BY Zenon
  <2>1. PICK n \in Bad : \A m \in Bad : n <= m
    BY Least, ZenonT(30)
  <2>2. PICK s \in SUBSET D : Cardinality(s) = n /\ ~Right(s)
    BY <2>1, Zenon
  <2>3. ASSUME s # {} PROVE Right(s \ {Pick(s)})
    <3>1. /\ s \ {Pick(s)} \in SUBSET D /\ n \in Nat \ {0}
          /\ Cardinality(s \ {Pick(s)}) = n - 1
      BY <2>2, <2>3, Rest, Zenon
    <3>2. n - 1 \in Nat /\ n - 1 \notin Bad
      BY <2>1, <3>1
    <3> QED
      BY <3>1, <3>2, Zenon
  <2> QED
    BY <1>1, <2>2, <2>3, Zenon
<1>3. D \in SUBSET D /\ Cardinality(D) \in Nat
  BY FS_CardinalityType, Zenon
<1>4. Right(D)
  BY <1>2, <1>3, Zenon
<1> QED
  BY <1>4, Zenon DEF Right

\* The sum is a number.
LEMMA SumsNat ==
  ASSUME NEW D, IsFiniteSet(D), NEW h \in [D -> Nat], NEW f, Sums(f, h, SUBSET D)
  PROVE  f[D] \in Nat
<1>1. CASE D = {}
  BY <1>1 DEF Sums
<1>2. CASE D # {}
  <2>1. PICK o \in D : TRUE
    BY <1>2, Zenon
  <2>2. Shifts(h, h, D, o, 0) /\ 0 \in Int
    BY DEF Shifts
  <2> QED
    BY <2>2, SumsChange, Zenon
<1> QED
  BY <1>1, <1>2, Zenon

\* The sum of nothing is nothing.
LEMMA SumsZero ==
  ASSUME NEW D, IsFiniteSet(D), NEW h, \A p \in D : h[p] = 0, NEW f, Sums(f, h, SUBSET D)
  PROVE  f[D] = 0
<1> DEFINE Bad == {n \in Nat : \E s \in SUBSET D : Cardinality(s) = n /\ f[s] # 0}
<1>1. ASSUME NEW s \in SUBSET D, s # {} => f[s \ {Pick(s)}] = 0
      PROVE  f[s] = 0
  <2>1. f[s] = IF s = {} THEN 0 ELSE h[Pick(s)] + f[s \ {Pick(s)}]
    BY Zenon DEF Sums
  <2>2. s # {} => h[Pick(s)] = 0
    BY Rest, Zenon
  <2> QED
    BY <1>1, <2>1, <2>2
<1>2. Bad = {}
  <2> SUFFICES ASSUME Bad # {} PROVE FALSE
    BY Zenon
  <2>1. PICK n \in Bad : \A m \in Bad : n <= m
    BY Least, ZenonT(30)
  <2>2. PICK s \in SUBSET D : Cardinality(s) = n /\ f[s] # 0
    BY <2>1, Zenon
  <2>3. ASSUME s # {} PROVE f[s \ {Pick(s)}] = 0
    <3>1. /\ s \ {Pick(s)} \in SUBSET D /\ n \in Nat \ {0}
          /\ Cardinality(s \ {Pick(s)}) = n - 1
      BY <2>2, <2>3, Rest, ZenonT(30)
    <3>2. n - 1 \in Nat /\ n - 1 \notin Bad
      BY <2>1, <3>1
    <3> QED
      BY <3>1, <3>2, Zenon
  <2> QED
    BY <1>1, <2>2, <2>3, Zenon
<1>3. D \in SUBSET D /\ Cardinality(D) \in Nat
  BY FS_CardinalityType, Zenon
<1> QED
  BY <1>2, <1>3, Zenon

\* What each consumer holds, and that InHands is the sum of it.
Hands == [o \in Objs |-> InHand(o)]

Summed ==
    /\ Hands \in [Objs -> Nat] /\ InHands \in Nat
    /\ \E f : Sums(f, Hands, SUBSET Objs) /\ InHands = f[Objs]

\* The sum that the model is written with is the fold above.
LEMMA HandsSum == Inv => Summed
<1> SUFFICES ASSUME Inv PROVE Summed
  BY Zenon
<1>0. IsFiniteSet(Objs)
  BY ConsumersAssumption, FS_Interval DEF Objs
<1>1. \A o \in Objs : InHand(o) \in Nat
  BY DEF Inv, Typed, InHand
<1>2. Hands \in [Objs -> Nat]
  BY <1>1, Zenon DEF Hands
<1>3. PICK e : Sums(e, Hands, SUBSET Objs)
  BY <1>0, <1>2, SumsExist, Zenon
<1> DEFINE F(f) == [s \in SUBSET Objs |-> IF s = {} THEN 0 ELSE InHand(Pick(s)) + f[s \ {Pick(s)}]]
           G(f) == [s \in SUBSET Objs |-> IF s = {} THEN 0 ELSE Hands[Pick(s)] + f[s \ {Pick(s)}]]
<1>4. \A f : F(f) = G(f)
  <2> TAKE f
  <2>1. ASSUME NEW s \in SUBSET Objs, s # {} PROVE InHand(Pick(s)) = Hands[Pick(s)]
    BY <1>0, <2>1, Rest, Zenon DEF Hands
  <2> QED
    BY <2>1, Zenon
<1>5. InHands = (CHOOSE f : f = F(f))[Objs]
  BY Zenon DEF InHands, MapThenSumSet, MapThenFoldSet, Pick
<1>6. \A f : Sums(f, Hands, SUBSET Objs) <=> f = G(f)
  BY Zenon DEF Sums
<1> HIDE DEF F, G
<1>7. PICK f : f = CHOOSE c : c = F(c)
  BY Zenon
<1>8. f = F(f)
  BY <1>3, <1>4, <1>6, <1>7, Zenon
<1>9. Sums(f, Hands, SUBSET Objs) /\ InHands = f[Objs]
  BY <1>4, <1>5, <1>6, <1>7, <1>8, Zenon
<1>10. InHands \in Nat
  BY <1>0, <1>2, <1>9, SumsNat, Zenon
<1> QED
  BY <1>2, <1>9, <1>10, Zenon DEF Summed

\* InHands follows what one consumer holds.
LEMMA HandsChange ==
  ASSUME Summed, Summed', NEW o \in Objs, NEW d \in Int,
         InHand(o)' = InHand(o) + d, \A p \in Objs : p # o => InHand(p)' = InHand(p)
  PROVE  InHands \in Nat /\ InHands' \in Nat /\ InHands' = InHands + d
<1>0. IsFiniteSet(Objs)
  BY ConsumersAssumption, FS_Interval DEF Objs
<1>1. PICK f : Sums(f, Hands, SUBSET Objs) /\ InHands = f[Objs]
  BY Zenon DEF Summed
<1>2. PICK g : Sums(g, Hands', SUBSET Objs) /\ InHands' = g[Objs]
  BY Zenon DEF Summed
<1>3. Hands \in [Objs -> Nat] /\ Hands' \in [Objs -> Nat]
  BY Zenon DEF Summed
<1>4. Hands'[o] = Hands[o] + d /\ \A p \in Objs : p # o => Hands'[p] = Hands[p]
  BY Zenon DEF Hands
<1>5. f[Objs] \in Nat /\ g[Objs] \in Nat /\ g[Objs] = f[Objs] + d
  <2>1. PICK h \in [Objs -> Nat] : h = Hands
    BY <1>3, Zenon
  <2>2. PICK k \in [Objs -> Nat] : k = Hands'
    BY <1>3, Zenon
  <2>3. Sums(f, h, SUBSET Objs) /\ Sums(g, k, SUBSET Objs)
    BY <1>1, <1>2, <2>1, <2>2, Zenon
  <2>4. Shifts(h, k, Objs, o, d)
    BY <1>4, <2>1, <2>2, Zenon DEF Shifts
  <2> QED
    BY <1>0, <2>3, <2>4, SumsChange
<1> QED
  BY <1>1, <1>2, <1>5, Zenon

\* InHands does not change when the batches and the pools do not.
LEMMA HandsSame ==
  ASSUME UNCHANGED <<batch, buffered, busy>>
  PROVE  InHands' = InHands
BY DEF InHands, InHand, MapThenSumSet, MapThenFoldSet
-----------------------------------------------------------------------------
(* The leases. *)

LeaseInv == spent \in [Env -> Nat] /\ leased \in Nat /\ LeasesInHand

\* How a store call counts the failures: one that works counts none, one that
\* fails while the store is open counts.
LEMMA Counted ==
  ASSUME spent \in [Env -> Nat]
  PROVE  /\ Works => open /\ spent' \in [Env -> Nat] /\ spent'.fault = spent.fault
         /\ Fails => spent' \in [Env -> Nat] /\ (open => spent'.fault # 0)
         /\ \A e \in Env : Spend(e) => spent' \in [Env -> Nat] /\ (e # "fault" => spent'.fault = spent.fault)
BY DEF Works, Fails, Spend, Env

\* The steps of one consumer: what is leased and what is in hand move together,
\* but for a store call that fails.
LEMMA LeaseMoves ==
  ASSUME LeaseInv, Summed, Summed', NEW o \in Objs, NEW d \in Int,
         InHand(o)' = InHand(o) + d, \A p \in Objs : p # o => InHand(p)' = InHand(p),
         open' = open, spent' \in [Env -> Nat],
         \/ leased' = leased + d /\ spent'.fault = spent.fault
         \/ leased' = leased /\ d = 0 - 1 /\ (open => spent'.fault # 0)
  PROVE  LeaseInv'
<1>1. InHands \in Nat /\ InHands' \in Nat /\ InHands' = InHands + d
  BY HandsChange, Zenon
<1>2. leased \in Nat /\ leased >= InHands
  BY Zenon DEF LeaseInv, LeasesInHand
<1>3. spent.fault = 0 /\ open => leased = InHands
  BY Zenon DEF LeaseInv, LeasesInHand
<1>4. CASE leased' = leased + d /\ spent'.fault = spent.fault
  <2>1. leased' \in Nat /\ leased' >= InHands'
    BY <1>1, <1>2, <1>4
  <2>2. spent'.fault = 0 /\ open' => leased' = InHands'
    BY <1>1, <1>3, <1>4, Zenon
  <2> QED
    BY <2>1, <2>2, Zenon DEF LeaseInv, LeasesInHand
<1>5. CASE leased' = leased /\ d = 0 - 1 /\ (open => spent'.fault # 0)
  <2>1. leased' \in Nat /\ leased' >= InHands'
    BY <1>1, <1>2, <1>5
  <2> QED
    BY <1>5, <2>1, Zenon DEF LeaseInv, LeasesInHand
<1> QED
  BY <1>4, <1>5, Zenon

\* A step of a dispatch loop: a claim leases what it puts in the batch, and a
\* message is handed to the pool, released, or left to its lease.
LEMMA LoopLeases ==
  ASSUME Inv, LeaseInv, Summed, Summed', NEW o \in Objs, Loop(o)
  PROVE  LeaseInv'
<1> USE DEF engine, bodies, loops, pools, ending, wakeup, store, counts
<1>0. /\ batch \in [Objs -> Nat] /\ buffered \in [Objs -> Nat] /\ busy \in [Objs -> Nat]
      /\ ready \in Nat /\ Prefetch \in Nat /\ spent \in [Env -> Nat] /\ leased \in Nat
      /\ loop[o] = "submit" <=> batch[o] > 0
  BY Consts, Zenon DEF Inv, Typed, Body, LeaseInv
<1>1. ASSUME \/ Begin(o) \/ Return(o) \/ ClaimFails(o) \/ WakeBySignal(o)
             \/ WakeByContext(o) \/ WakeByTimer(o)
      PROVE  LeaseInv'
  <2>1. UNCHANGED <<batch, buffered, busy, leased, open>>
    BY <1>1, ZenonT(30) DEF Begin, Return, ClaimFails, WakeBySignal, WakeByContext, WakeByTimer
  <2>2. UNCHANGED spent \/ Fails
    BY <1>1, ZenonT(30) DEF Begin, Return, ClaimFails, WakeBySignal, WakeByContext, WakeByTimer
  <2>3. spent' \in [Env -> Nat] /\ (UNCHANGED spent \/ (open => spent'.fault # 0))
    BY <1>0, <2>2, Counted, Zenon
  <2>4. InHands' = InHands
    BY <2>1, HandsSame, Zenon
  <2> QED
    BY <2>1, <2>3, <2>4, Zenon DEF LeaseInv, LeasesInHand
<1>2. ASSUME Claim(o)
      PROVE  LeaseInv'
  <2>1. PICK d \in Nat : d = Claimable
    BY <1>0, Zenon DEF Claimable
  <2>2. batch[o] = 0
    BY <1>0, <1>2 DEF Claim
  <2>3. batch' = [batch EXCEPT ![o] = d] /\ UNCHANGED <<buffered, busy, open>> /\ leased' = leased + d
    BY <1>2, <2>1, ZenonT(30) DEF Claim
  <2>4. InHand(o)' = InHand(o) + d /\ \A p \in Objs : p # o => InHand(p)' = InHand(p)
    BY <1>0, <2>2, <2>3 DEF InHand
  <2>5. spent' \in [Env -> Nat] /\ spent'.fault = spent.fault
    BY <1>0, <1>2, Counted, Zenon DEF Claim
  <2>6. d \in Int
    OBVIOUS
  <2> QED
    BY <2>3, <2>4, <2>5, <2>6, LeaseMoves, Zenon
<1>3. ASSUME Submit(o)
      PROVE  LeaseInv'
  <2>1. /\ batch' = [batch EXCEPT ![o] = @ - 1] /\ buffered' = [buffered EXCEPT ![o] = @ + 1]
        /\ UNCHANGED <<busy, leased, open, spent>>
    BY <1>3, ZenonT(30) DEF Submit, HandedOff
  <2>2. InHand(o)' = InHand(o) + 0 /\ \A p \in Objs : p # o => InHand(p)' = InHand(p)
    BY <1>0, <2>1 DEF InHand
  <2>3. leased' = leased + 0 /\ spent' \in [Env -> Nat]
    BY <1>0, <2>1
  <2>4. 0 \in Int
    OBVIOUS
  <2> QED
    BY <2>1, <2>2, <2>3, <2>4, LeaseMoves, Zenon
<1>4. ASSUME ReleaseUndispatched(o)
      PROVE  LeaseInv'
  <2>1. batch' = [batch EXCEPT ![o] = @ - 1] /\ UNCHANGED <<buffered, busy, open>>
    BY <1>4, Zenon DEF ReleaseUndispatched, HandedOff
  <2>2. PICK d \in Int : d = 0 - 1
    OBVIOUS
  <2>3. InHand(o)' = InHand(o) + d /\ \A p \in Objs : p # o => InHand(p)' = InHand(p)
    BY <1>0, <2>1, <2>2 DEF InHand
  <2>4. (Works /\ leased' = leased - 1) \/ (Fails /\ leased' = leased)
    BY <1>4, ZenonT(30) DEF ReleaseUndispatched
  <2>5. CASE Works /\ leased' = leased - 1
    <3>1. leased' = leased + d /\ spent' \in [Env -> Nat] /\ spent'.fault = spent.fault
      BY <1>0, <2>2, <2>5, Counted
    <3> QED
      BY <2>1, <2>3, <3>1, LeaseMoves, Zenon
  <2>6. CASE Fails /\ leased' = leased
    <3>1. spent' \in [Env -> Nat] /\ (open => spent'.fault # 0)
      BY <1>0, <2>6, Counted, Zenon
    <3> QED
      BY <2>1, <2>2, <2>3, <2>6, <3>1, LeaseMoves, Zenon
  <2> QED
    BY <2>4, <2>5, <2>6, Zenon
<1> QED
  BY <1>1, <1>2, <1>3, <1>4, Zenon DEF Loop

\* A step of a worker, which settles the message or leaves it to its lease.
LEMMA WorkerLeases ==
  ASSUME Inv, LeaseInv, Summed, Summed', NEW o \in Objs, Workers(o)
  PROVE  LeaseInv'
<1> USE DEF engine, bodies, loops, pools, ending, wakeup, store, counts
<1>0. /\ batch \in [Objs -> Nat] /\ buffered \in [Objs -> Nat] /\ busy \in [Objs -> Nat]
      /\ spent \in [Env -> Nat] /\ leased \in Nat
  BY Zenon DEF Inv, Typed, LeaseInv
<1>1. ASSUME TakeTask(o)
      PROVE  LeaseInv'
  <2>1. /\ buffered' = [buffered EXCEPT ![o] = @ - 1] /\ busy' = [busy EXCEPT ![o] = @ + 1]
        /\ UNCHANGED <<batch, leased, open, spent>>
    BY <1>1, Zenon DEF TakeTask
  <2>2. InHand(o)' = InHand(o) + 0 /\ \A p \in Objs : p # o => InHand(p)' = InHand(p)
    BY <1>0, <2>1 DEF InHand
  <2>3. leased' = leased + 0 /\ spent' \in [Env -> Nat]
    BY <1>0, <2>1
  <2>4. 0 \in Int
    OBVIOUS
  <2> QED
    BY <2>1, <2>2, <2>3, <2>4, LeaseMoves, Zenon
<1>2. ASSUME FinishTask(o) \/ RetryTask(o) \/ TaskFails(o)
      PROVE  LeaseInv'
  <2>1. busy' = [busy EXCEPT ![o] = @ - 1] /\ UNCHANGED <<batch, buffered, open>>
    BY <1>2, Zenon DEF FinishTask, RetryTask, TaskFails, TaskOver
  <2>2. PICK d \in Int : d = 0 - 1
    OBVIOUS
  <2>3. InHand(o)' = InHand(o) + d /\ \A p \in Objs : p # o => InHand(p)' = InHand(p)
    BY <1>0, <2>1, <2>2 DEF InHand
  <2>4. CASE FinishTask(o) \/ RetryTask(o)
    <3>1. leased' = leased - 1 /\ (Works \/ Spend("retry"))
      BY <2>4, Zenon DEF FinishTask, RetryTask
    <3>2. leased' = leased + d /\ spent' \in [Env -> Nat] /\ spent'.fault = spent.fault
      BY <1>0, <2>2, <3>1, Counted DEF Env
    <3> QED
      BY <2>1, <2>3, <3>2, LeaseMoves, Zenon
  <2>5. CASE TaskFails(o)
    <3>1. leased' = leased /\ spent' \in [Env -> Nat] /\ (open => spent'.fault # 0)
      BY <1>0, <2>5, Counted, Zenon DEF TaskFails
    <3> QED
      BY <2>1, <2>2, <2>3, <3>1, LeaseMoves, ZenonT(30)
  <2> QED
    BY <1>2, <2>4, <2>5, Zenon
<1> QED
  BY <1>1, <1>2, Zenon DEF Workers

\* Every other step leaves the consumers' hands as they are; Reclaim takes a
\* lease only when some is in nobody's hands.
LEMMA OtherLeases ==
  ASSUME LeaseInv, Summed, Summed', [Next]_vars, ~\E o \in Objs : Loop(o) \/ Workers(o)
  PROVE  LeaseInv'
<1> USE DEF engine, bodies, loops, pools, ending, wakeup, store, counts
<1>1. UNCHANGED <<batch, buffered, busy>>
  BY Zenon DEF Next, Running, Calls, Draining, Start, Cancel, Stopping, StopLoop, StopPool, Stopped,
         Notify, RetryDue, Reclaim, MaintenanceEnds, ShutdownCancel, ShutdownStop, Drained,
         Unsubscribe, Subscribe, Publish, Shutdown, TimedOut, CloseStore, vars
<1>2. InHands' = InHands
  BY <1>1, HandsSame, Zenon
<1>3. CASE Reclaim
  <2>1. leased' = leased - 1 /\ UNCHANGED <<open, spent>> /\ open /\ leased > InHands
    BY <1>3, Zenon DEF Reclaim
  <2>2. leased \in Nat /\ spent.fault # 0
    BY <2>1 DEF LeaseInv, LeasesInHand
  <2>3. InHands \in Nat
    BY Zenon DEF Summed
  <2> QED
    BY <1>2, <2>1, <2>2, <2>3 DEF LeaseInv, LeasesInHand
<1>4. CASE ~Reclaim
  <2>1. UNCHANGED leased /\ (UNCHANGED open \/ open' = FALSE)
    BY <1>4, ZenonT(30) DEF Next, Running, Calls, Draining, Start, Cancel, Stopping, StopLoop, StopPool,
         Stopped, Notify, RetryDue, MaintenanceEnds, ShutdownCancel, ShutdownStop, Drained,
         Unsubscribe, Subscribe, Publish, Shutdown, TimedOut, CloseStore, vars
  <2>2. UNCHANGED spent \/ Spend("unsubscribe")
    BY <1>4, ZenonT(30) DEF Next, Running, Calls, Draining, Start, Cancel, Stopping, StopLoop, StopPool,
         Stopped, Notify, RetryDue, MaintenanceEnds, ShutdownCancel, ShutdownStop, Drained,
         Unsubscribe, Subscribe, Publish, Shutdown, TimedOut, CloseStore, vars
  <2>3. spent' \in [Env -> Nat] /\ spent'.fault = spent.fault
    BY <2>2, Counted, Zenon DEF LeaseInv, Env
  <2> QED
    BY <1>2, <2>1, <2>3 DEF LeaseInv, LeasesInHand
<1> QED
  BY <1>3, <1>4, Zenon

\* Every lease is in the hands of a consumer until a store call fails, for any
\* number of consumers, any prefetch and any number of workers.
THEOREM LeasesStayInHand == Spec => []LeasesInHand
<1>1. Init => LeaseInv
  <2> SUFFICES ASSUME Init PROVE LeaseInv
    BY Zenon
  <2>1. Inv /\ Summed
    BY InvInit, HandsSum, Zenon
  <2>2. \A o \in Objs : Hands[o] = 0
    BY DEF Init, Fresh, Hands, InHand
  <2>3. PICK f : Sums(f, Hands, SUBSET Objs) /\ InHands = f[Objs]
    BY <2>1, Zenon DEF Summed
  <2>4. IsFiniteSet(Objs)
    BY ConsumersAssumption, FS_Interval DEF Objs
  <2>5. InHands = 0
    BY <2>2, <2>3, <2>4, SumsZero, Zenon
  <2> QED
    BY <2>5 DEF Init, Empty, LeaseInv, LeasesInHand, Env
<1>2. Inv /\ Summed /\ Summed' /\ LeaseInv /\ [Next]_vars => LeaseInv'
  BY LoopLeases, WorkerLeases, OtherLeases, Zenon
<1>3. Spec => []Summed
  BY HandsSum, Inductive, PTL
<1>4. LeaseInv => LeasesInHand
  BY Zenon DEF LeaseInv
<1> QED
  BY <1>1, <1>2, <1>3, <1>4, Inductive, PTL DEF Spec
=============================================================================
