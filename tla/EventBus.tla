------------------------------ MODULE EventBus ------------------------------
(***************************************************************************)
(* The harness event bus and one watch handle: commits on the Session      *)
(* line, the events they publish, the chain of deliveries, and a watcher   *)
(* that combines snapshots with the events that follow them.               *)
(*                                                                         *)
(* Commit number v publishes event v.  The event loop runs one action at a *)
(* time.  A publisher queues its event a few turns after it releases the   *)
(* line.  The next holder needs more turns than that to commit, but one    *)
(* that only reads needs none: a snapshot already waiting for the line is  *)
(* what can come in between.  (Queueing commutes with the other actions.)  *)
(*                                                                         *)
(* Abstractions.  Events of other lanes, which the watcher's filter drops, *)
(* and listeners other than the watcher's, which only take time, are left  *)
(* out.                                                                    *)
(***************************************************************************)
EXTENDS Integers, Sequences, SequencesExt

CONSTANTS
    MaxCommits,      \* bound: commits in a behaviour
    MaxSnapshots,    \* bound: resnapshot calls in a behaviour
    EmitterCancels,  \* TRUE: a task waiting for its delivery may be cancelled
    WatcherCancels   \* TRUE: so may the caller of resnapshot or watch

ASSUME EventBusAssumption ==
    /\ MaxCommits \in Nat
    /\ MaxSnapshots \in Nat
    /\ EmitterCancels \in BOOLEAN
    /\ WatcherCancels \in BOOLEAN

VARIABLES
    version,   \* commits so far
    unqueued,  \* the event that is committed but not queued yet, 0 if none
    chain,     \* the bus's deliveries not done yet, a barrier being 0
    broken,    \* _delivery_tail is a cancelled task
    state,     \* WatchHandle._state, "none" before AgentLane.watch
    capture,   \* where watch or resnapshot is suspended
    fresh,     \* the snapshot a resnapshot has read
    phase,     \* _resnapshot_phase
    epoch,     \* _epoch
    buffer,    \* _buffer: events with the epoch of their push
    held,      \* _held
    queue,     \* the handle's own deliveries not done yet, with their epoch
    base,      \* the snapshot the watcher has, -1 before the first
    got,       \* events its listener received since
    torn       \* a resnapshot was cancelled or failed

busVars == <<version, unqueued, chain, broken>>
handleVars == <<state, capture, fresh, phase, epoch, buffer, held, queue>>
watchVars == <<base, got, torn>>
streamVars == <<busVars, handleVars, watchVars>>

Commits == 1..MaxCommits
Barrier == 0
Pushed == [event : Commits, epoch : 0..MaxSnapshots]

BusTypeOK ==
    /\ version \in 0..MaxCommits
    /\ unqueued \in {0, version}
    /\ chain \in Seq(Commits \union {Barrier})
    /\ broken \in BOOLEAN
    /\ state \in {"none", "buffering", "started", "unsubscribed"}
    /\ capture \in {"none", "first", "line", "boundary"}
    /\ fresh \in 0..version
    /\ phase \in {"none", "dropping", "holding"}
    /\ epoch \in 0..MaxSnapshots
    /\ buffer \in Seq(Pushed)
    /\ held \in Seq(Commits)
    /\ queue \in Seq(Pushed)
    /\ base \in -1..version
    /\ got \in Seq(Commits)
    /\ torn \in BOOLEAN
    /\ phase # "none" => capture \in {"line", "boundary"}
    /\ state = "started" => buffer = <<>>
    /\ phase = "holding" \/ held = <<>>

BusInit ==
    /\ version = 0
    /\ unqueued = 0
    /\ chain = <<>>
    /\ broken = FALSE
    /\ state = "none"
    /\ capture = "none"
    /\ fresh = 0
    /\ phase = "none"
    /\ epoch = 0
    /\ buffer = <<>>
    /\ held = <<>>
    /\ queue = <<>>
    /\ base = -1
    /\ got = <<>>
    /\ torn = FALSE

-----------------------------------------------------------------------------
(* The bus                                                                 *)

(* A Session mutation that publishes an event.                             *)
Commit ==
    /\ version < MaxCommits
    /\ unqueued = 0
    /\ version' = version + 1
    /\ unqueued' = version + 1
    /\ UNCHANGED <<chain, broken, handleVars, watchVars>>

(* Mutant: a barrier is lost when nothing is being delivered.              *)
MutEnqueueBehind(item) ==
    chain' = IF broken \/ (item = Barrier /\ chain = <<>>) THEN chain
             ELSE Append(chain, item)

(* A delivery task joins the chain; behind a cancelled one it is cancelled *)
(* itself.                                                                 *)
Enqueue(item) ==
    chain' = IF broken THEN chain ELSE Append(chain, item)

(* HarnessEventBus.emit_batch                                              *)
Emit ==
    /\ unqueued # 0
    /\ Enqueue(unqueued)
    /\ unqueued' = 0
    /\ UNCHANGED <<version, broken, handleVars, watchVars>>

(* The task of an emitter is cancelled while it awaits its delivery.  The  *)
(* delivery is cancelled with it, and so are the ones it awaits and the    *)
(* ones that await it, for good.                                           *)
CancelEmitter ==
    /\ EmitterCancels
    /\ \E i \in 1..Len(chain) : chain[i] # Barrier
    /\ chain' = <<>>
    /\ broken' = TRUE
    /\ UNCHANGED <<version, unqueued, handleVars, watchVars>>

-----------------------------------------------------------------------------
(* The watch handle                                                        *)

(* Mutant: what is published while a snapshot waits for its boundary is    *)
(* dropped to the end.                                                     *)
MutPushDrops(e) ==
    CASE state = "unsubscribed" \/ phase # "none" ->
            UNCHANGED <<buffer, held, queue>>
      [] state = "buffering" /\ phase = "none" ->
            /\ buffer' = Append(buffer, [event |-> e, epoch |-> epoch])
            /\ UNCHANGED <<held, queue>>
      [] OTHER ->
            /\ queue' = Append(queue, [event |-> e, epoch |-> epoch])
            /\ UNCHANGED <<buffer, held>>

(* WatchHandle.push                                                        *)
Push(e) ==
    CASE state = "unsubscribed" \/ phase = "dropping" ->
            UNCHANGED <<buffer, held, queue>>
      [] state # "unsubscribed" /\ phase = "holding" ->
            /\ held' = Append(held, e)
            /\ UNCHANGED <<buffer, queue>>
      [] state = "buffering" /\ phase = "none" ->
            /\ buffer' = Append(buffer, [event |-> e, epoch |-> epoch])
            /\ UNCHANGED <<held, queue>>
      [] OTHER ->
            /\ queue' = Append(queue, [event |-> e, epoch |-> epoch])
            /\ UNCHANGED <<buffer, held>>

(* The delivery at the head of the chain runs.                             *)
DeliverNext(item) ==
    /\ chain # <<>>
    /\ Head(chain) = item
    /\ chain' = Tail(chain)

(* HarnessEventBus._deliver to the watcher, if it is registered            *)
Deliver(e) ==
    /\ DeliverNext(e)
    /\ IF state = "none" THEN UNCHANGED <<buffer, held, queue>> ELSE Push(e)
    /\ UNCHANGED <<version, unqueued, broken, state, capture, fresh, phase,
                   epoch, watchVars>>

(* enqueue_barrier's callback, WatchHandle._mark_boundary                  *)
MarkBoundary ==
    /\ DeliverNext(Barrier)
    /\ phase' = IF phase = "dropping" THEN "holding" ELSE phase
    /\ UNCHANGED <<version, unqueued, broken, state, capture, fresh, epoch,
                   buffer, held, queue, watchVars>>

(* AgentLane.watch registers its receiver, then reads on the line.         *)
Watch ==
    /\ unqueued = 0
    /\ state = "none"
    /\ state' = "buffering"
    /\ capture' = "first"
    /\ UNCHANGED <<busVars, fresh, phase, epoch, buffer, held, queue,
                   watchVars>>

FirstSnapshot ==
    /\ capture = "first"
    /\ capture' = "none"
    /\ base' = version
    /\ UNCHANGED <<busVars, state, fresh, phase, epoch, buffer, held, queue,
                   got, torn>>

(* WatchHandle.start                                                       *)
Start ==
    /\ state = "buffering"
    /\ capture # "first"
    /\ state' = "started"
    /\ queue' = queue \o buffer
    /\ buffer' = <<>>
    /\ UNCHANGED <<busVars, capture, fresh, phase, epoch, held, watchVars>>

(* WatchHandle._enqueue's delivery: the listener gets the event unless a   *)
(* resnapshot began since it was pushed.                                   *)
Current(pushed) == state = "started" /\ pushed.epoch = epoch

Listen ==
    /\ queue # <<>>
    /\ queue' = Tail(queue)
    /\ got' = IF Current(Head(queue)) THEN Append(got, Head(queue).event)
              ELSE got
    /\ UNCHANGED <<busVars, state, capture, fresh, phase, epoch, buffer, held,
                   base, torn>>

(* WatchHandle.resnapshot up to its wait for the line                      *)
Resnapshot ==
    /\ unqueued = 0
    /\ state \in {"buffering", "started"}
    /\ capture = "none"
    /\ epoch < MaxSnapshots
    /\ epoch' = epoch + 1
    /\ phase' = "dropping"
    /\ capture' = "line"
    /\ UNCHANGED <<busVars, state, fresh, buffer, held, queue, watchVars>>

(* Its capture on the line, which queues the barrier.                      *)
Capture ==
    /\ capture = "line"
    /\ fresh' = version
    /\ Enqueue(Barrier)
    /\ capture' = "boundary"
    /\ UNCHANGED <<version, unqueued, broken, state, phase, epoch, buffer, held,
                   queue, watchVars>>

(* The held events are pushed again when the phase is over.                *)
Release ==
    /\ phase' = "none"
    /\ held' = <<>>
    /\ LET again == [i \in 1..Len(held) |->
                        [event |-> held[i], epoch |-> epoch]]
       IN  CASE state = "unsubscribed" -> UNCHANGED <<buffer, queue>>
             [] state = "buffering" ->
                    buffer' = buffer \o again /\ UNCHANGED queue
             [] OTHER -> queue' = queue \o again /\ UNCHANGED buffer

(* Its return, once the boundary is set                                    *)
Snapshot ==
    /\ unqueued = 0
    /\ capture = "boundary"
    /\ phase = "holding"
    /\ capture' = "none"
    /\ Release
    /\ base' = fresh
    /\ got' = <<>>
    /\ UNCHANGED <<busVars, state, fresh, epoch, torn>>

(* The caller of resnapshot is cancelled, or its capture fails.            *)
CancelResnapshot ==
    /\ WatcherCancels
    /\ capture \in {"line", "boundary"}
    /\ capture' = "none"
    /\ Release
    /\ torn' = TRUE
    /\ UNCHANGED <<busVars, state, fresh, epoch, base, got>>

(* WatchHandle.unsubscribe, also by a watch whose capture fails            *)
Unsubscribe ==
    /\ state \in {"buffering", "started"}
    /\ capture = "first" => WatcherCancels
    /\ state' = "unsubscribed"
    /\ capture' = IF capture = "first" THEN "none" ELSE capture
    /\ buffer' = <<>>
    /\ held' = <<>>
    /\ UNCHANGED <<busVars, fresh, phase, epoch, queue, watchVars>>

-----------------------------------------------------------------------------
BusStep == Emit \/ MarkBoundary \/ \E e \in Commits : Deliver(e)
HandleStep == FirstSnapshot \/ Capture \/ Snapshot \/ Listen

BusNext ==
    \/ Commit
    \/ BusStep
    \/ HandleStep
    \/ CancelEmitter
    \/ Watch
    \/ Start
    \/ Resnapshot
    \/ CancelResnapshot
    \/ Unsubscribe

BusSpec == BusInit /\ [][BusNext]_streamVars

(* Listeners return, the line serves its queue, tasks are scheduled.       *)
FairBusSpec == BusSpec /\ WF_streamVars(BusStep) /\ WF_streamVars(HandleStep)

-----------------------------------------------------------------------------
(* Properties                                                              *)

(* Nothing is under way that could still reach the listener.               *)
AtRest ==
    /\ state = "started"
    /\ capture = "none"
    /\ unqueued = 0
    /\ chain = <<>>
    /\ queue = <<>>

(* What the watcher's snapshot does not cover its listener was told.       *)
Coherent ==
    AtRest =>
        \A v \in 1..version : v <= base \/ \E i \in DOMAIN got : got[i] = v

(* No event falls between the snapshot and the stream, across buffering,   *)
(* start, barriers and any number of resnapshots, unless an emitter or a   *)
(* resnapshot was cancelled.                                               *)
NoGap == ~broken /\ ~torn => Coherent

(* The listener is told in the order of the commits, each once, whatever   *)
(* is cancelled.                                                           *)
InOrder == \A i, j \in DOMAIN got : i < j => got[i] < got[j]

(* After a resnapshot nothing older than its last commit is delivered,     *)
(* also not what was buffered or queued before it.                         *)
OverlapBounded ==
    epoch > 0 /\ capture = "none" /\ ~torn
        => \A i \in DOMAIN got : got[i] >= base

(* A resnapshot returns: its barrier is reached, unless the chain is       *)
(* broken.                                                                 *)
ResnapshotReturns ==
    capture = "boundary" ~> (capture = "none" \/ broken)

(* "Watch snapshot/event boundaries avoid gaps" (invariants.md), whoever   *)
(* is cancelled: emitters are other callers of the harness.                *)
AvoidsGaps == ~torn => Coherent

(* What a watcher sees, together: every event from its snapshot on, in     *)
(* order, none missed, and none twice but those that a resnapshot overlaps.*)
WatchersSeeAll ==
    BusTypeOK /\ NoGap /\ InOrder /\ OverlapBounded

=============================================================================
