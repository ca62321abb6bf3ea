------------------------ MODULE UpdatePipelineProofs ------------------------
(***************************************************************************)
(* No update of a protocol table is lost on its way to SPF, for any number *)
(* of managers, updating goroutines, reads per run and any buffer size.    *)
(***************************************************************************)
EXTENDS UpdatePipeline, TLAPS

(* TypeOK is inductive: in particular the event counters stay within the   *)
(* channels' capacity.                                                     *)
THEOREM TypeCorrect == Spec => []TypeOK
<1>1. Init => TypeOK
  BY PipelineAssumption DEF Init, TypeOK, Reads
<1>2. TypeOK /\ [Next]_vars => TypeOK'
  <2> SUFFICES ASSUME TypeOK, [Next]_vars PROVE TypeOK'
    OBVIOUS
  <2> USE PipelineAssumption
  <2>1. ASSUME NEW u \in Updaters, NEW m \in Managers, Update(u, m) PROVE TypeOK'
    <3>1. version' \in [Managers -> Nat]
      BY <2>1 DEF Update, TypeOK
    <3>2. publishing' \in [Managers -> Updaters \cup {NoOne}]
      BY <2>1 DEF Update, TypeOK
    <3> QED BY <2>1, <3>1, <3>2 DEF Update, TypeOK, Reads
  <2>2. ASSUME NEW m \in Managers, Publish(m) PROVE TypeOK'
    <3>1. publishing' \in [Managers -> Updaters \cup {NoOne}]
      BY <2>2 DEF Publish, TypeOK
    <3>2. channel' \in [EventType -> 0..BufferSize]
      <4>1. EventOf[m] \in EventType /\ channel[EventOf[m]] + 1 \in 0..BufferSize
        BY <2>2 DEF Publish, TypeOK
      <4> QED BY <2>2, <4>1 DEF Publish, TypeOK
    <3> QED BY <2>2, <3>1, <3>2 DEF Publish, TypeOK, Reads
  <2>3. ASSUME NEW m \in Managers, PublishTimeout(m) PROVE TypeOK'
    <3>1. publishing' \in [Managers -> Updaters \cup {NoOne}]
      BY <2>3 DEF PublishTimeout, TypeOK
    <3> QED BY <2>3, <3>1 DEF PublishTimeout, TypeOK, Reads
  <2>4. ASSUME NEW e \in EventType, TakeEvent(e) PROVE TypeOK'
    BY <2>4 DEF TakeEvent, TypeOK, Reads
  <2>5. CASE Read
    BY <2>5 DEF Read, TypeOK, Reads
  <2>6. CASE EndRun
    BY <2>6 DEF EndRun, TypeOK, Reads
  <2>7. ASSUME NEW m \in Managers, PublishCancelled(m) PROVE TypeOK'
    <3>1. publishing' \in [Managers -> Updaters \cup {NoOne}] /\ abandoned' \subseteq Managers
      BY <2>7 DEF PublishCancelled, TypeOK
    <3> QED BY <2>7, <3>1 DEF PublishCancelled, TypeOK, Reads
  <2>8. CASE UNCHANGED vars
    BY <2>8 DEF vars, TypeOK, Reads
  <2> QED BY <2>1, <2>2, <2>3, <2>4, <2>5, <2>6, <2>7, <2>8 DEF Next
<1> QED BY <1>1, <1>2, PTL DEF Spec

(* NoLostUpdate holds of every behaviour.  The step that matters is        *)
(* PublishTimeout: an event is dropped only when the channel already holds *)
(* an event of the same type, and that one will start a run.  The only     *)
(* updates left without a run are those of requests whose clients hung up. *)
THEOREM UpdatesReachSPF == Spec => []NoLostUpdate
<1>1. Init => NoLostUpdate
  BY PipelineAssumption DEF Init, NoLostUpdate, Behind, Reads
<1>2. TypeOK /\ NoLostUpdate /\ [Next]_vars => NoLostUpdate'
  <2> SUFFICES ASSUME TypeOK, NoLostUpdate, [Next]_vars,
                      NEW r \in Reads, Behind(r)'
               PROVE  (\/ publishing[ReadFrom[r]] # NoOne
                       \/ channel[EventOf[ReadFrom[r]]] > 0
                       \/ next \in 1..r
                       \/ ReadFrom[r] \in abandoned)'
    BY DEF NoLostUpdate, Reads
  <2> DEFINE mgr == ReadFrom[r]
             Covered == \/ publishing[mgr] # NoOne \/ channel[EventOf[mgr]] > 0
                        \/ next \in 1..r \/ mgr \in abandoned
  <2> USE PipelineAssumption
  <2>0. mgr \in Managers /\ EventOf[mgr] \in EventType
    BY DEF Reads
  <2>1. ASSUME NEW u \in Updaters, NEW m \in Managers, Update(u, m)
        PROVE  Covered'
    <3>1. CASE m = mgr
      BY <2>1, <2>0, <3>1 DEF Update, TypeOK
    <3>2. CASE m # mgr
      BY <2>1, <2>0, <3>2 DEF Update, TypeOK, NoLostUpdate, Behind
    <3> QED BY <3>1, <3>2
  <2>2. ASSUME NEW m \in Managers, Publish(m)
        PROVE  Covered'
    BY <2>2, <2>0 DEF Publish, TypeOK, NoLostUpdate, Behind
  <2>3. ASSUME NEW m \in Managers, PublishTimeout(m)
        PROVE  Covered'
    BY <2>3, <2>0 DEF PublishTimeout, TypeOK, NoLostUpdate, Behind
  <2>4. ASSUME NEW e \in EventType, TakeEvent(e)
        PROVE  Covered'
    BY <2>4 DEF TakeEvent, Reads
  <2>5. ASSUME Read
        PROVE  Covered'
    <3>1. next # r
      BY <2>5 DEF Read, Behind, TypeOK, Reads
    <3>2. Behind(r)
      BY <2>5, <3>1 DEF Read, Behind, TypeOK, Reads
    <3> QED BY <2>5, <3>1, <3>2 DEF Read, NoLostUpdate, TypeOK, Reads
  <2>6. ASSUME EndRun
        PROVE  Covered'
    BY <2>6 DEF EndRun, NoLostUpdate, Behind, Reads
  <2>7. ASSUME NEW m \in Managers, PublishCancelled(m)
        PROVE  Covered'
    <3>1. Behind(r)
      BY <2>7 DEF PublishCancelled, Behind
    <3>2. CASE m # mgr
      BY <2>7, <2>0, <3>1, <3>2 DEF PublishCancelled, TypeOK, NoLostUpdate
    <3>3. CASE m = mgr /\ channel[EventOf[mgr]] = 0
      BY <2>7, <3>3 DEF PublishCancelled
    <3>4. CASE m = mgr /\ channel[EventOf[mgr]] # 0
      BY <2>7, <2>0, <3>4 DEF PublishCancelled, TypeOK
    <3> QED BY <3>2, <3>3, <3>4
  <2>8. ASSUME UNCHANGED vars
        PROVE  Covered'
    BY <2>8 DEF vars, NoLostUpdate, Behind
  <2> QED BY <2>1, <2>2, <2>3, <2>4, <2>5, <2>6, <2>7, <2>8 DEF Next
<1> QED BY <1>1, <1>2, TypeCorrect, PTL DEF Spec
=============================================================================
