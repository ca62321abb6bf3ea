--------------------------- MODULE UpdatePipeline ---------------------------
(***************************************************************************)
(* From a change in a protocol table to the SPF run that takes it into     *)
(* account: the managers' locks, EventBus.Publish with its bounded channel *)
(* and write timeout (internal/eventbus/bus.go), and topologyUpdateLoop    *)
(* with the reads of CalculateRoutes (cmd/olsrd/daemon.go, spf.go).        *)
(*                                                                         *)
(* A handler changes its manager's tables and publishes before it unlocks  *)
(* the manager's mutex, so it holds the mutex while Publish waits for room *)
(* in the channel, and the SPF run that would make room needs that mutex.  *)
(* The tables are abstracted to a version number, an event to a token.     *)
(* An update is a change that its handler publishes: ProcessHello changes  *)
(* 2-hop entries without publishing as long as the link keeps its state,   *)
(* and such a change waits for the next update.  The reads of a run are    *)
(* those of CalculateRoutes and of the RecalculateMroutes that follows.    *)
(*                                                                         *)
(* The write timeout is assumed to expire only while the channel is full:  *)
(* 50 ms are long compared with the time a select takes.  The context of a *)
(* REST request ends when its client hangs up, and Publish may then give   *)
(* the event up at once; that of the daemon ends only with the daemon.     *)
(***************************************************************************)
EXTENDS Naturals

CONSTANTS
    Managers,     \* the tables SPF reads, each with its own mutex
    EventType,    \* the event types topologyUpdateLoop subscribes to
    EventOf,      \* EventOf[m]: the type m publishes
    Updaters,     \* goroutines that update tables: UDP receiver, aging, REST API
    Handles,      \* Handles[u]: the managers whose tables u changes
    Clients,      \* the updaters that publish with the context of a request
    NoOne,        \* nobody: the mutex is free
    NumReads,     \* the reads of one SPF run ...
    ReadFrom,     \* ... and the manager each one locks
    BufferSize,   \* capacity of a subscription's channel
    MaxVersion    \* bound on the updates of one manager

ASSUME PipelineAssumption ==
    /\ EventOf \in [Managers -> EventType]
    /\ NoOne \notin Updaters /\ Clients \subseteq Updaters
    /\ Handles \in [Updaters -> SUBSET Managers]
    /\ NumReads \in Nat
    /\ ReadFrom \in [1..NumReads -> Managers]
    /\ BufferSize \in Nat \ {0}
    /\ MaxVersion \in Nat

VARIABLES
    version,     \* [Managers -> Nat]   changes made to the manager's tables
    publishing,  \* [Managers -> Updaters \cup {NoOne}]: who holds the mutex
                 \* for writing, inside Publish
    channel,     \* [EventType -> 0..BufferSize]   events buffered
    next,        \* the next read of the SPF run, 0 while the loop waits
    seen,        \* [1..NumReads -> Nat]   the version each read last saw
    abandoned    \* history: the managers whose last event was not sent, as
                 \* its client hung up, and after which no run has begun

vars == <<version, publishing, channel, next, seen, abandoned>>

Reads == 1..NumReads

TypeOK ==
    /\ version \in [Managers -> Nat]
    /\ publishing \in [Managers -> Updaters \cup {NoOne}]
    /\ channel \in [EventType -> 0..BufferSize]
    /\ next \in 0..(NumReads + 1)
    /\ seen \in [Reads -> Nat]
    /\ abandoned \subseteq Managers

Init ==
    /\ version = [m \in Managers |-> 0]
    /\ publishing = [m \in Managers |-> NoOne]
    /\ channel = [e \in EventType |-> 0]
    /\ next = 0
    /\ seen = [r \in Reads |-> 0]
    /\ abandoned = {}

-----------------------------------------------------------------------------
Idle(u) == \A m \in Managers : publishing[m] # u

(* A handler or AgeOut locks m, changes its tables and enters Publish. *)
Update(u, m) ==
    /\ m \in Handles[u] /\ Idle(u) /\ publishing[m] = NoOne
    /\ version[m] < MaxVersion
    /\ version' = [version EXCEPT ![m] = @ + 1]
    /\ publishing' = [publishing EXCEPT ![m] = u]
    /\ abandoned' = abandoned \ {m}
    /\ UNCHANGED <<channel, next, seen>>

(* Mutant of Publish: the capacity of the channel is not respected. *)
PublishUnbounded(m) ==
    /\ publishing[m] # NoOne
    /\ channel' = [channel EXCEPT ![EventOf[m]] = @ + 1]
    /\ publishing' = [publishing EXCEPT ![m] = NoOne]
    /\ UNCHANGED <<version, next, seen, abandoned>>

(* Publish finds room in the channel; the handler returns and unlocks. *)
Publish(m) ==
    /\ publishing[m] # NoOne
    /\ channel[EventOf[m]] < BufferSize
    /\ channel' = [channel EXCEPT ![EventOf[m]] = @ + 1]
    /\ publishing' = [publishing EXCEPT ![m] = NoOne]
    /\ UNCHANGED <<version, next, seen, abandoned>>

(* Mutant of PublishTimeout: the event may be given up at any time. *)
PublishGivesUp(m) ==
    /\ publishing[m] # NoOne
    /\ publishing' = [publishing EXCEPT ![m] = NoOne]
    /\ UNCHANGED <<version, channel, next, seen, abandoned>>

(* Mutant of PublishTimeout: there is no timeout. *)
PublishBlocks(m) == FALSE

(* The write timeout: the event is dropped, the handler returns. *)
PublishTimeout(m) ==
    /\ publishing[m] # NoOne
    /\ channel[EventOf[m]] = BufferSize
    /\ publishing' = [publishing EXCEPT ![m] = NoOne]
    /\ UNCHANGED <<version, channel, next, seen, abandoned>>

(* The client of a request has hung up: select may take ctx.Done(),        *)
(* whether the channel has room or not.                                    *)
PublishCancelled(m) ==
    /\ publishing[m] \in Clients
    /\ publishing' = [publishing EXCEPT ![m] = NoOne]
    /\ abandoned' = IF channel[EventOf[m]] = 0 THEN abandoned \cup {m} ELSE abandoned
    /\ UNCHANGED <<version, channel, next, seen>>

(* topologyUpdateLoop takes an event and starts an SPF run. *)
TakeEvent(e) ==
    /\ next = 0 /\ channel[e] > 0
    /\ channel' = [channel EXCEPT ![e] = @ - 1]
    /\ next' = 1
    /\ abandoned' = {}
    /\ UNCHANGED <<version, publishing, seen>>

(* One read of the run, under the manager's read lock. *)
Read ==
    /\ next \in Reads
    /\ publishing[ReadFrom[next]] = NoOne
    /\ seen' = [seen EXCEPT ![next] = version[ReadFrom[next]]]
    /\ next' = next + 1
    /\ UNCHANGED <<version, publishing, channel, abandoned>>

(* Mutant of EndRun: the events that came in during the run are discarded. *)
EndRunDrains ==
    /\ next = NumReads + 1
    /\ next' = 0
    /\ channel' = [e \in EventType |-> 0]
    /\ UNCHANGED <<version, publishing, seen, abandoned>>

(* The run ends; the loop waits for an event again. *)
EndRun ==
    /\ next = NumReads + 1
    /\ next' = 0
    /\ UNCHANGED <<version, publishing, channel, seen, abandoned>>

Next ==
    \/ \E u \in Updaters, m \in Managers : Update(u, m)
    \/ \E m \in Managers : Publish(m) \/ PublishTimeout(m) \/ PublishCancelled(m)
    \/ \E e \in EventType : TakeEvent(e)
    \/ Read
    \/ EndRun

Spec == Init /\ [][Next]_vars

(* Goroutines are scheduled, a full channel's timeout expires, and select  *)
(* chooses at random among the channels that are ready.                    *)
FairSpec ==
    /\ Spec
    /\ \A m \in Managers : WF_vars(Publish(m)) /\ WF_vars(PublishTimeout(m))
    /\ \A e \in EventType : SF_vars(TakeEvent(e))
    /\ WF_vars(Read) /\ WF_vars(EndRun)

-----------------------------------------------------------------------------
(* No update is lost.  A read that is behind its manager's tables is about *)
(* to be repeated: the update is still being published, or an event that   *)
(* will start a run is buffered, or the current run has not come to that   *)
(* read yet.  It holds although a full channel drops events, two events    *)
(* may be answered by one run, and the reads of a run are not atomic.  The *)
(* one exception is the event of a request whose client has hung up: that  *)
(* change waits until some other update starts a run.                      *)
Behind(r) == seen[r] # version[ReadFrom[r]]

NoLostUpdate ==
    \A r \in Reads : Behind(r) =>
        \/ publishing[ReadFrom[r]] # NoOne
        \/ channel[EventOf[ReadFrom[r]]] > 0
        \/ next \in 1..r
        \/ ReadFrom[r] \in abandoned

(* When the updates stop, SPF has seen all of them and stays up to date,   *)
(* but for those of requests whose clients have hung up.                   *)
SPFCatchesUp == <>[](\A r \in Reads : Behind(r) => ReadFrom[r] \in abandoned)

(* A handler does not stay in Publish for ever, although the SPF run that  *)
(* would make room may itself wait for the handler's mutex.                *)
HandlersReturn == \A m \in Managers : publishing[m] # NoOne ~> publishing[m] = NoOne
=============================================================================
