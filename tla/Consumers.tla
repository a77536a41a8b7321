------------------------------ MODULE Consumers ------------------------------
(***************************************************************************)
(* The consumers of one queue: Subscribe and Unsubscribe, the dispatch     *)
(* loop of each consumer, its worker pool, the wake-up signal of the queue *)
(* and Shutdown, which stops them all.  Messages are counted, not named:   *)
(* what becomes of one message is the subject of Delivery.                 *)
(***************************************************************************)
EXTENDS Naturals, FiniteSets, FiniteSetsExt

CONSTANTS
    Names,          \* consumer names
    MaxConsumers,   \* how many consumers a process may make
    Prefetch,       \* size of a claim, and of the channel of the pool
    Concurrency,    \* workers of a pool
    MaxMessages,    \* messages published in a run
    Bound,          \* how often a run may see each of Env
    Budget          \* and how often any of them

Env == {"fault", "retry", "unsubscribe"}

(* Consumers are numbered as they are made. *)
Objs   == 1 .. MaxConsumers
Nobody == 0

ASSUME ConsumersAssumption ==
    /\ MaxConsumers \in Nat
    /\ Prefetch \in Nat \ {0} /\ Concurrency \in Nat \ {0}
    /\ MaxMessages \in Nat /\ Bound \in [Env -> Nat] /\ Budget \in Nat

VARIABLES
    root,       \* rootCtx of the engine: "nil", "live" or "cancelled"
    names,      \* name -> the consumer registered under it, or Nobody
    loop,       \* consumer -> where its dispatch loop is
    ctx,        \* consumer -> its context is live
    batch,      \* consumer -> messages claimed and not yet handed to the pool
    buffered,   \* consumer -> tasks in the channel of its pool
    busy,       \* consumer -> workers running a task
    closed,     \* consumer -> the channel is closed
    stop,       \* consumer -> how far its Stop is
    signal,     \* the wake-up channel of the queue: "absent", "empty" or "full"
    notifying,  \* calls between making a message available and notify
    ready, leased, later,  \* messages available, leased, and waiting for a retry
    settled,    \* messages acknowledged or dead-lettered
    open,       \* the store is open
    shutdown,   \* "no", "taken", "draining", "drained" or "expired"
    stopping,   \* the consumers Shutdown took from the registry
    reclaiming, \* the maintenance goroutine runs
    silent,     \* history: a message is available that nobody was told of
    spent       \* how much of Bound is used

pools  == <<buffered, busy, closed>>
loops  == <<loop, ctx, batch>>
counts == <<ready, leased, later, settled>>
wakeup == <<signal, notifying, silent>>
ending == <<stop, shutdown, stopping>>
engine == <<root, names, reclaiming>>
store  == <<counts, open>>
bodies == <<loops, pools>>
vars   == <<engine, bodies, ending, wakeup, store, spent>>

Published == ready + leased + later + settled

(* What a new process holds in memory. *)
Fresh ==
    /\ root = "nil" /\ names = [n \in Names |-> Nobody]
    /\ loop = [o \in Objs |-> "none"] /\ ctx = [o \in Objs |-> FALSE]
    /\ batch = [o \in Objs |-> 0] /\ buffered = batch /\ busy = batch
    /\ closed = [o \in Objs |-> FALSE] /\ stop = [o \in Objs |-> "no"]
    /\ signal = "absent" /\ notifying = 0 /\ silent = (ready > 0)
    /\ shutdown = "no" /\ stopping = {} /\ reclaiming = FALSE

Empty ==
    /\ ready = 0 /\ leased = 0 /\ later = 0 /\ settled = 0
    /\ spent = [e \in Env |-> 0]

Init == Empty /\ Fresh /\ open = TRUE

Spend(e) ==
    /\ spent[e] < Bound[e] /\ MapThenSumSet(LAMBDA f : spent[f], Env) < Budget
    /\ spent' = [spent EXCEPT ![e] = @ + 1]

(* A store call succeeds while the store is open; it fails now and then,   *)
(* and always once the store is closed.                                    *)
Works == open /\ UNCHANGED spent
Fails == (~open /\ UNCHANGED spent) \/ (open /\ Spend("fault"))
-----------------------------------------------------------------------------
(* Subscribing. *)

Start ==
    /\ root = "nil" /\ shutdown = "no"
    /\ root' = "live" /\ reclaiming' = TRUE
    /\ UNCHANGED <<names, bodies, ending, wakeup, store, spent>>

(* The context given to Start ends: the process was told to terminate.     *)
Cancel ==
    /\ root = "live" /\ root' = "cancelled"
    /\ ctx' = [o \in Objs |-> FALSE]
    /\ UNCHANGED <<names, loop, batch, pools, ending, wakeup, store, reclaiming, spent>>

(* Under the lock of the engine: it runs and the name is free. *)
Subscribe(n, o) ==
    /\ root # "nil" /\ names[n] = Nobody
    /\ loop[o] = "none" /\ \A p \in 1 .. o - 1 : loop[p] # "none"
    /\ names' = [names EXCEPT ![n] = o]
    /\ loop' = [loop EXCEPT ![o] = "begin"]
    /\ ctx' = [ctx EXCEPT ![o] = root = "live"]
    /\ UNCHANGED <<root, batch, pools, ending, wakeup, store, reclaiming, spent>>

(* Unsubscribe, up to the call of Stop. *)
Unsubscribe(n) ==
    LET o == names[n] IN
    /\ o # Nobody /\ Spend("unsubscribe")
    /\ names' = [names EXCEPT ![n] = Nobody]
    /\ stop' = [stop EXCEPT ![o] = IF @ = "no" THEN "asked" ELSE @]
    /\ UNCHANGED <<root, bodies, shutdown, stopping, wakeup, store, reclaiming>>
-----------------------------------------------------------------------------
(* The dispatch loop. *)

Goto(o, l) == loop' = [loop EXCEPT ![o] = l]

(* queueSignal *)
Begin(o) ==
    /\ loop[o] = "begin" /\ Goto(o, "test")
    /\ signal' = IF signal = "absent" THEN "empty" ELSE signal
    /\ UNCHANGED <<engine, ctx, batch, pools, ending, notifying, silent, store, spent>>

(* The loop returns when its context has ended, and takes a wake-up it was *)
(* given with it.                                                          *)
Return(o) ==
    /\ loop[o] = "test" /\ ~ctx[o] /\ Goto(o, "exited")
    /\ silent' = (silent \/ ready > 0)
    /\ UNCHANGED <<engine, ctx, batch, pools, ending, signal, notifying, store, spent>>

Claimable == IF ready < Prefetch THEN ready ELSE Prefetch

(* claimBatch: a batch goes to the pool, an empty one lets the loop wait.  *)
(* Whether the context ends just before or just after the claim makes no   *)
(* difference to it.                                                       *)
Claim(o) ==
    /\ loop[o] = "test" /\ ctx[o] /\ Works
    /\ ready' = ready - Claimable /\ leased' = leased + Claimable
    /\ batch' = [batch EXCEPT ![o] = Claimable]
    /\ Goto(o, IF ready = 0 THEN "wait" ELSE "submit")
    /\ silent' = (silent /\ ready' > 0)
    /\ UNCHANGED <<engine, ctx, pools, ending, signal, notifying, later, settled, open>>

ClaimFails(o) ==
    /\ loop[o] = "test" /\ ctx[o] /\ Fails /\ Goto(o, "wait")
    /\ silent' = (silent \/ ready > 0)
    /\ UNCHANGED <<engine, ctx, batch, pools, ending, signal, notifying, store>>

(* Mutant: the loop waits after every batch. *)
HandedOffThenWaits(o) ==
    /\ batch' = [batch EXCEPT ![o] = @ - 1]
    /\ Goto(o, IF batch[o] = 1 THEN "wait" ELSE "submit")

HandedOff(o) ==
    /\ batch' = [batch EXCEPT ![o] = @ - 1]
    /\ Goto(o, IF batch[o] = 1 THEN "test" ELSE "submit")

(* Mutant: the task is queued without regard to the capacity. *)
SubmitUnbounded(o) ==
    /\ loop[o] = "submit" /\ ~closed[o]
    /\ buffered' = [buffered EXCEPT ![o] = @ + 1] /\ HandedOff(o)
    /\ UNCHANGED <<engine, ctx, busy, closed, ending, wakeup, store, spent>>

(* Submit sends to the channel of the pool when it has room. *)
Submit(o) ==
    /\ loop[o] = "submit" /\ ~closed[o] /\ buffered[o] < Prefetch
    /\ buffered' = [buffered EXCEPT ![o] = @ + 1] /\ HandedOff(o)
    /\ UNCHANGED <<engine, ctx, busy, closed, ending, wakeup, store, spent>>

(* Mutant: the message is dropped, not released. *)
AbandonBatch(o) ==
    /\ loop[o] = "submit" /\ ~ctx[o] /\ Works
    /\ HandedOff(o)
    /\ UNCHANGED <<engine, ctx, pools, ending, wakeup, store>>

(* The context ends while Submit waits, or the pool is stopped: the        *)
(* message is released (releaseUndispatched), and nobody is notified.      *)
ReleaseUndispatched(o) ==
    /\ loop[o] = "submit" /\ (~ctx[o] \/ closed[o])
    /\ HandedOff(o)
    /\ \/ Works /\ leased' = leased - 1 /\ ready' = ready + 1 /\ silent' = TRUE
       \/ Fails /\ UNCHANGED <<leased, ready, silent>>
    /\ UNCHANGED <<engine, ctx, pools, ending, signal, notifying, later, settled, open>>

(* waitForWork: three ways to wake up, any of those that are ready. *)
WakeBySignal(o) ==
    /\ loop[o] = "wait" /\ signal = "full" /\ Goto(o, "test")
    /\ signal' = "empty"
    /\ UNCHANGED <<engine, ctx, batch, pools, ending, notifying, silent, store, spent>>

WakeByContext(o) ==
    /\ loop[o] = "wait" /\ ~ctx[o] /\ Goto(o, "test")
    /\ UNCHANGED <<engine, ctx, batch, pools, ending, wakeup, store, spent>>

(* Mutant: no timer. *)
NeverWakes(o) ==
    /\ FALSE /\ Goto(o, "test")
    /\ UNCHANGED <<engine, ctx, batch, pools, ending, wakeup, store, spent>>

WakeByTimer(o) ==
    /\ loop[o] = "wait" /\ Goto(o, "test")
    /\ UNCHANGED <<engine, ctx, batch, pools, ending, wakeup, store, spent>>
-----------------------------------------------------------------------------
(* The workers of a pool. *)

(* run takes tasks until the channel is closed and empty. *)
TakeTask(o) ==
    /\ buffered[o] > 0 /\ busy[o] < Concurrency
    /\ buffered' = [buffered EXCEPT ![o] = @ - 1]
    /\ busy' = [busy EXCEPT ![o] = @ + 1]
    /\ UNCHANGED <<engine, loops, closed, ending, wakeup, store, spent>>

TaskOver(o) == busy[o] > 0 /\ busy' = [busy EXCEPT ![o] = @ - 1]

(* The handler and the store call that settles the message, whose context  *)
(* does not end with the one of the consumer.                              *)
FinishTask(o) ==
    /\ TaskOver(o) /\ Works
    /\ leased' = leased - 1 /\ settled' = settled + 1
    /\ UNCHANGED <<engine, loops, buffered, closed, ending, wakeup, ready, later, open>>

RetryTask(o) ==
    /\ TaskOver(o) /\ open /\ Spend("retry")
    /\ leased' = leased - 1 /\ later' = later + 1
    /\ UNCHANGED <<engine, loops, buffered, closed, ending, wakeup, ready, settled, open>>

(* The store call fails: the message stays leased. *)
TaskFails(o) ==
    /\ TaskOver(o) /\ Fails
    /\ UNCHANGED <<engine, loops, buffered, closed, ending, wakeup, store>>
-----------------------------------------------------------------------------
(* Messages and wake-ups from elsewhere. *)

(* Publish up to Append. *)
Publish ==
    /\ open /\ root # "nil" /\ Published < MaxMessages
    /\ ready' = ready + 1 /\ notifying' = notifying + 1
    /\ UNCHANGED <<engine, bodies, ending, signal, silent, leased, later, settled, open, spent>>

(* notify: a full channel takes no further signal. *)
Notify ==
    /\ notifying > 0 /\ notifying' = notifying - 1
    /\ signal' = IF signal = "absent" THEN "absent" ELSE "full"
    /\ UNCHANGED <<engine, bodies, ending, silent, store, spent>>

(* The time of a retry comes. *)
RetryDue ==
    /\ later > 0 /\ later' = later - 1 /\ ready' = ready + 1 /\ silent' = TRUE
    /\ UNCHANGED <<engine, bodies, ending, signal, notifying, leased, settled, open, spent>>

InHand(o) == batch[o] + buffered[o] + busy[o]
InHands   == MapThenSumSet(InHand, Objs)

(* reclaim: the lease of a message nobody works on any more runs out. *)
Reclaim ==
    /\ reclaiming /\ open /\ leased > InHands
    /\ leased' = leased - 1 /\ ready' = ready + 1 /\ notifying' = notifying + 1
    /\ UNCHANGED <<engine, bodies, ending, signal, silent, later, settled, open, spent>>
-----------------------------------------------------------------------------
(* Stopping. *)

(* Consumer.Stop: cancel, wait for the dispatch loop, stop the pool. *)
StopLoop(o) ==
    /\ stop[o] = "asked" /\ stop' = [stop EXCEPT ![o] = "waiting"]
    /\ ctx' = [ctx EXCEPT ![o] = FALSE]
    /\ UNCHANGED <<engine, loop, batch, pools, shutdown, stopping, wakeup, store, spent>>

(* Mutant: the pool is stopped without waiting for the loop. *)
StopPoolAtOnce(o) ==
    /\ stop[o] = "waiting" /\ stop' = [stop EXCEPT ![o] = "closing"]
    /\ closed' = [closed EXCEPT ![o] = TRUE]
    /\ UNCHANGED <<engine, loops, buffered, busy, shutdown, stopping, wakeup, store, spent>>

StopPool(o) ==
    /\ stop[o] = "waiting" /\ loop[o] = "exited"
    /\ stop' = [stop EXCEPT ![o] = "closing"]
    /\ closed' = [closed EXCEPT ![o] = TRUE]
    /\ UNCHANGED <<engine, loops, buffered, busy, shutdown, stopping, wakeup, store, spent>>

(* Pool.Stop returns when the workers have emptied the channel. *)
Stopped(o) ==
    /\ stop[o] = "closing" /\ buffered[o] = 0 /\ busy[o] = 0
    /\ stop' = [stop EXCEPT ![o] = "done"]
    /\ UNCHANGED <<engine, bodies, shutdown, stopping, wakeup, store, spent>>

(* Shutdown, first under the lock of the engine. *)
Shutdown ==
    /\ root # "nil" /\ shutdown = "no" /\ shutdown' = "taken"
    /\ stopping' = {names[n] : n \in Names} \ {Nobody}
    /\ names' = [n \in Names |-> Nobody] /\ root' = "nil"
    /\ UNCHANGED <<bodies, stop, wakeup, store, reclaiming, spent>>

ShutdownCancel ==
    /\ shutdown = "taken" /\ shutdown' = "draining"
    /\ ctx' = [o \in Objs |-> FALSE]
    /\ UNCHANGED <<engine, loop, batch, pools, stop, stopping, wakeup, store, spent>>

(* The goroutine of Shutdown stops one consumer after the other, and goes  *)
(* on when Shutdown has given up waiting for it.                           *)
ShutdownStop(o) ==
    /\ shutdown \in {"draining", "expired"}
    /\ o \in stopping /\ stop[o] = "no"
    /\ \A p \in stopping : stop[p] \in {"no", "done"}
    /\ stop' = [stop EXCEPT ![o] = "asked"]
    /\ UNCHANGED <<engine, bodies, shutdown, stopping, wakeup, store, spent>>

(* Mutant: it runs under the context given to Start. *)
MaintenanceOutlives ==
    /\ reclaiming /\ root = "cancelled" /\ reclaiming' = FALSE
    /\ UNCHANGED <<root, names, bodies, ending, wakeup, store, spent>>

MaintenanceEnds ==
    /\ reclaiming /\ (root = "cancelled" \/ shutdown \notin {"no", "taken"})
    /\ reclaiming' = FALSE
    /\ UNCHANGED <<root, names, bodies, ending, wakeup, store, spent>>

Gone(o) == loop[o] \in {"none", "exited"}

(* Mutant: the consumers are not waited for, only the goroutines. *)
DrainedLoops ==
    /\ shutdown = "draining" /\ shutdown' = "drained"
    /\ ~reclaiming /\ \A o \in Objs : Gone(o)
    /\ UNCHANGED <<engine, bodies, stop, stopping, wakeup, store, spent>>

Drained ==
    /\ shutdown = "draining" /\ shutdown' = "drained"
    /\ \A o \in stopping : stop[o] = "done"
    /\ ~reclaiming /\ \A o \in Objs : Gone(o)
    /\ UNCHANGED <<engine, bodies, stop, stopping, wakeup, store, spent>>

TimedOut ==
    /\ shutdown = "draining" /\ shutdown' = "expired"
    /\ UNCHANGED <<engine, bodies, stop, stopping, wakeup, store, spent>>

CloseStore ==
    /\ shutdown \in {"drained", "expired"} /\ open /\ open' = FALSE
    /\ UNCHANGED <<engine, bodies, ending, wakeup, counts, spent>>
-----------------------------------------------------------------------------
Loop(o) ==
    \/ Begin(o) \/ Return(o) \/ Claim(o) \/ ClaimFails(o) \/ Submit(o)
    \/ ReleaseUndispatched(o)
    \/ WakeBySignal(o) \/ WakeByContext(o) \/ WakeByTimer(o)

Workers(o)  == TakeTask(o) \/ FinishTask(o) \/ RetryTask(o) \/ TaskFails(o)
Stopping(o) == StopLoop(o) \/ StopPool(o) \/ Stopped(o)
Draining    == ShutdownCancel \/ (\E o \in Objs : ShutdownStop(o)) \/ Drained

(* What goes on in a running process by itself. *)
Running ==
    \/ \E o \in Objs : Loop(o) \/ Workers(o) \/ Stopping(o)
    \/ Notify \/ RetryDue \/ Reclaim \/ MaintenanceEnds \/ Draining

(* What its callers do. *)
Calls ==
    \/ \E n \in Names : Unsubscribe(n) \/ \E o \in Objs : Subscribe(n, o)
    \/ Publish

Next == Start \/ Cancel \/ Running \/ Calls \/ Shutdown \/ TimedOut \/ CloseStore

Spec == Init /\ [][Next]_vars

(* Goroutines and timers run, handlers return, and the lock of the engine  *)
(* is not held for ever; nothing is assumed of callers, of the store and   *)
(* of the timeout of Shutdown.                                             *)
Fairness ==
    /\ \A o \in Objs : WF_vars(Loop(o)) /\ WF_vars(Workers(o)) /\ WF_vars(Stopping(o))
    /\ WF_vars(MaintenanceEnds \/ Draining)

LiveSpec == Spec /\ Fairness
-----------------------------------------------------------------------------
(* Properties. *)

Loops == {"none", "begin", "test", "submit", "wait", "exited"}
Stops == {"no", "asked", "waiting", "closing", "done"}

(* Pool.Stop closes the channel that Submit sends to, and a send to a      *)
(* closed channel would end the process: a pool is closed only when the    *)
(* dispatch loop that submits to it has returned, whichever of             *)
(* Unsubscribe and Shutdown stops the consumer and when.                   *)
NoSubmitAfterClose == \A o \in Objs : closed[o] => loop[o] = "exited"

(* Backpressure: Submit blocks when the channel is full, so a consumer has *)
(* at most a batch, a full channel and its busy workers in memory.         *)
Backpressure ==
    \A o \in Objs : buffered[o] <= Prefetch /\ InHand(o) <= 2 * Prefetch + Concurrency

(* No lease is left behind: as long as no store call failed, every leased  *)
(* message is in the hands of a consumer that will settle or release it,   *)
(* also while consumers are unsubscribed and the engine is shut down.      *)
LeasesInHand == leased >= InHands /\ (spent.fault = 0 /\ open => leased = InHands)

(* When Shutdown returns without an error, the store may be closed: no     *)
(* dispatch loop runs any more, and no task but those of a consumer that a *)
(* concurrent Unsubscribe is still stopping, which Shutdown does not know. *)
DrainedClean ==
    shutdown = "drained" => \A o \in Objs :
      /\ Gone(o) /\ batch[o] = 0
      /\ InHand(o) > 0 => o \notin stopping /\ stop[o] \in {"asked", "waiting", "closing"}

(* No wake-up is lost: while a message that was announced is available,    *)
(* a notify is under way, the signal is set, or a dispatch loop is awake   *)
(* and will claim or has yet to fail; a loop does not fall asleep on it.   *)
NoLostWakeup ==
    ready > 0 /\ ~silent /\ signal # "absent" =>
      \/ notifying > 0 \/ signal = "full"
      \/ \E o \in Objs : loop[o] \in {"begin", "test", "submit"}
      \/ \A o \in Objs : ~ctx[o]

(* Stop and Shutdown return: a consumer that is being stopped is stopped   *)
(* in the end, with its loop gone and its pool empty, and everything that  *)
(* Shutdown waits for ends, though nothing forces its timeout to come.     *)
StopsEnd ==
    /\ \A o \in Objs : stop[o] = "asked" ~> stop[o] = "done"
    /\ shutdown = "taken" ~> shutdown \in {"drained", "expired"}

(* An available message is claimed in the end while some consumer stays.   *)
ReadyServed == ready > 0 ~> (ready = 0 \/ \A o \in Objs : ~ctx[o])
=============================================================================
