-------------------- MODULE KernelManagerControllerProofs --------------------
(***************************************************************************)
(* What the controller guarantees for any names, bounds, and set of names  *)
(* hidden by Events.                                                       *)
(***************************************************************************)
EXTENDS KernelManagerController, ClusterProofs

-----------------------------------------------------------------------------
(* Types.                                                                  *)

LEMMA MirrorType ==
  ASSUME NEW p \in Pod
  PROVE  Mirror(p) \in Status
  BY PodFields DEF Mirror, Status, StatusPhase, PodPhase

LEMMA EnvType ==
  ASSUME ClusterAssumption, TypeOK, NEW n \in Names, Env(n)
  PROVE  TypeOK'
<1>1. ClusterTypeOK'
  BY EnvironmentType DEF Env, TypeOK
<1> QED
  BY <1>1 DEF TypeOK, Env, cacheVars, workerVars

LEMMA ReconcileType ==
  ASSUME ClusterAssumption, ControllerAssumption, TypeOK, Reconcile
  PROVE  TypeOK'
<1> USE ZeroObjects
    DEF TypeOK, ClusterTypeOK, cacheVars, WriteKM, WriteConfigMap, WritePod,
        KMUnchanged, ConfigMapUnchanged, PodUnchanged,
        Answered, Fail, Done, Leave, Proceed
<1>1. CASE Cull
  BY <1>1 DEF Cull
<1>2. CASE EnsureConfigMap
  <2>1. NewConfigMap \in ConfigMap /\ CopyConfigMapFields(cmCache[req]) \in ConfigMap
    <3>1. inst.uid \in Nat /\ inst.ann \in Nat
      BY KMFields
    <3>2. NewConfigMap \in ConfigMap
      BY <3>1 DEF NewConfigMap, ConfigMap
    <3> QED
      BY <3>1, <3>2, ConfigMapFields DEF CopyConfigMapFields
  <2>2. CASE CreateConfigMap
    BY <1>2, <2>1, <2>2 DEF EnsureConfigMap, CreateConfigMap
  <2>3. CASE UpdateConfigMap
    BY <1>2, <2>1, <2>3 DEF EnsureConfigMap, UpdateConfigMap
  <2>4. CASE KeepConfigMap
    BY <1>2, <2>4 DEF EnsureConfigMap, KeepConfigMap
  <2> QED
    BY <1>2, <2>2, <2>3, <2>4 DEF EnsureConfigMap
<1>3. CASE EnsurePod
  <2>1. NewPod \in Pod
    BY KMFields DEF NewPod, Pod, PodPhase
  <2>2. CASE CreatePod
    BY <1>3, <2>1, <2>2 DEF EnsurePod, CreatePod
  <2>3. CASE FindPod
    BY <1>3, <2>3 DEF EnsurePod, FindPod
  <2>4. CASE Panic
    BY <1>3, <2>4 DEF EnsurePod, Panic
  <2> QED
    BY <1>3, <2>2, <2>3, <2>4 DEF EnsurePod
<1>4. CASE UpdateStatus
  <2>1. [kms[req] EXCEPT !.status = Mirror(foundPod)] \in KM
    BY MirrorType, KMFields
  <2> QED
    BY <1>4, <2>1 DEF UpdateStatus
<1> QED
  BY <1>1, <1>2, <1>3, <1>4 DEF Reconcile

LEMMA StepType ==
  ASSUME ClusterAssumption, ControllerAssumption, TypeOK, [Next]_vars
  PROVE  TypeOK'
<1>1. ASSUME NEW n \in Names, Env(n)
      PROVE  TypeOK'
  BY <1>1, EnvType
<1>2. ASSUME NEW n \in Names, SyncKM(n) \/ SyncConfigMap(n) \/ SyncPod(n)
      PROVE  TypeOK'
  BY <1>2, ControllerAssumption
  DEF TypeOK, ClusterTypeOK, SyncKM, SyncConfigMap, SyncPod, Enqueue
<1>3. ASSUME NEW n \in Names, ReconcileEvent(n)
      PROVE  TypeOK'
  BY <1>3 DEF TypeOK, ClusterTypeOK, ReconcileEvent, KmNameFromInvolvedObject,
              clusterVars, cacheVars
<1>4. ASSUME NEW n \in Names, FetchInstance(n)
      PROVE  TypeOK'
  BY <1>4, ControllerAssumption
  DEF TypeOK, ClusterTypeOK, FetchInstance, Branch, cacheVars
<1>5. CASE Reconcile
  BY <1>5, ReconcileType
<1>6. CASE ApiError
  BY <1>6, ZeroObjects
  DEF TypeOK, ClusterTypeOK, ApiError, Fail, Leave, cacheVars,
      KMUnchanged, ConfigMapUnchanged, PodUnchanged
<1>7. CASE Restart
  BY <1>7, ZeroObjects, ControllerAssumption
  DEF TypeOK, ClusterTypeOK, Restart, Leave, Listed
<1>8. CASE UNCHANGED vars
  BY <1>8 DEF TypeOK, ClusterTypeOK, vars, clusterVars, cacheVars, workerVars
<1> QED
  BY <1>1, <1>2, <1>3, <1>4, <1>5, <1>6, <1>7, <1>8 DEF Next

LEMMA InitType ==
  ASSUME ClusterAssumption, ControllerAssumption, Init
  PROVE  TypeOK
  BY ClusterAssumption, ControllerAssumption, ZeroObjects
  DEF Init, ClusterInit, TypeOK, ClusterTypeOK

\* Every variable of the controller and the cluster keeps its type.
THEOREM TypeCorrect == Spec => []TypeOK
  BY ClusterAssumption, ControllerAssumption, InitType, StepType, PTL DEF Spec

-----------------------------------------------------------------------------
(* No lost wakeup.                                                         *)

\* A copy with the current resourceVersion is the object.
CopiesCurrent ==
  \A n \in Names :
    /\ "informer" \in fresh[n] => kmCache[n] = kms[n]
    /\ n \in cmFresh => cmCache[n] = cms[n]
    /\ n \in podFresh => podCache[n] = pods[n]

\* A KernelManager without uid is absent.
AbsentIsZero ==
  \A n \in Names : /\ kms[n].uid = 0 => kms[n] = NoKM
                   /\ kmCache[n].uid = 0 => kmCache[n] = NoKM

\* The instance the worker holds: what it is, and that it is the cached one
\* unless the name was queued again.
InstanceHeld ==
  pc # "idle" =>
    /\ req \notin EventNamed
    /\ inst.uid # 0
    /\ pc = "cull" <=> inst.idle
    /\ pc = "configMap" => req \in WithConn
    /\ "reconciler" \in fresh[req] => inst = kms[req]
    /\ req \notin queue => inst = kmCache[req]

\* The parts of Reconcile that ran did what they are for, or the name was
\* queued again, or will be when what they wrote is delivered.
ConfigMapEnsured ==
  pc \in {"pod", "status"} /\ req \in WithConn /\ req \notin queue /\ req \in cmFresh
    => cms[req].data = inst.uid

PodEnsured ==
  pc = "status" /\ req \notin queue /\ req \in podFresh
    => foundPod = pods[req] /\ foundPod # NoPod

WakeInv ==
  /\ CopiesCurrent /\ AbsentIsZero /\ InstanceHeld
  /\ ConfigMapEnsured /\ PodEnsured /\ NoLostWakeup

\* Typing facts on the objects, which the steps below need without the record
\* types themselves.
LEMMA UidTypes ==
  ASSUME TypeOK
  PROVE  /\ \A n \in Names : kms[n].uid \in Nat /\ kmCache[n].uid \in Nat
         /\ \A n \in Names : kms[n].idle \in BOOLEAN /\ kmCache[n].idle \in BOOLEAN
         /\ inst.uid \in Nat /\ inst.idle \in BOOLEAN
  BY KMFields DEF TypeOK, ClusterTypeOK

\* The rest of the cluster outdates the copies of what it changes.
LEMMA EnvWake ==
  ASSUME TypeOK, WakeInv, NEW n \in Names, Env(n)
  PROVE  WakeInv'
<1> USE DEF TypeOK, ClusterTypeOK, Env, cacheVars, workerVars,
            WriteKM, WriteConfigMap, WritePod,
            KMUnchanged, ConfigMapUnchanged, PodUnchanged, WakeInv
<1>1. CASE DeleteKM(n) \/ CreateKM(n) \/ AnnotateActivity(n) \/ LabelIdle(n)
  <2>1. PICK k : /\ kms' = [kms EXCEPT ![n] = k] /\ fresh' = [fresh EXCEPT ![n] = {}]
                 /\ k.uid = 0 => k = NoKM
    <3>1. CASE DeleteKM(n)
      BY <3>1 DEF DeleteKM
    <3>2. CASE CreateKM(n)
      <4>1. NewKM(born[n] + 1).uid # 0
        BY DEF NewKM
      <4> QED
        BY <3>2, <4>1 DEF CreateKM
    <3>3. CASE AnnotateActivity(n)
      <4>1. [kms[n] EXCEPT !.ann = @ + 1].uid # 0
        BY <3>3 DEF AnnotateActivity, MonitorRuns, KM
      <4> QED
        BY <3>3, <4>1 DEF AnnotateActivity
    <3>4. CASE LabelIdle(n)
      <4>1. [kms[n] EXCEPT !.idle = TRUE].uid # 0
        BY <3>4 DEF LabelIdle, MonitorRuns, KM
      <4> QED
        BY <3>4, <4>1 DEF LabelIdle
    <3> QED
      BY <1>1, <3>1, <3>2, <3>3, <3>4
  <2>2. UNCHANGED <<cms, cmFresh, pods, podFresh>>
    BY <1>1 DEF DeleteKM, CreateKM, AnnotateActivity, LabelIdle
  <2>3. CopiesCurrent'
    BY <2>1, <2>2 DEF CopiesCurrent
  <2>4. AbsentIsZero'
    BY <2>1 DEF AbsentIsZero
  <2>5. InstanceHeld'
    BY <2>1 DEF InstanceHeld
  <2>6. ConfigMapEnsured' /\ PodEnsured'
    BY <2>2 DEF ConfigMapEnsured, PodEnsured
  <2>7. NoLostWakeup'
    BY <2>1, <2>2 DEF NoLostWakeup, Settled, Converged
  <2> QED
    BY <2>3, <2>4, <2>5, <2>6, <2>7
<1>2. CASE StartPod(n) \/ StopPod(n) \/ EvictPod(n) \/ CollectPod(n)
  <2>1. /\ \E p : pods' = [pods EXCEPT ![n] = p]
        /\ podFresh' = podFresh \ {n}
        /\ UNCHANGED <<kms, fresh, cms, cmFresh>>
    BY <1>2 DEF StartPod, StopPod, EvictPod, CollectPod
  <2>2. CopiesCurrent' /\ AbsentIsZero' /\ InstanceHeld'
    BY <2>1 DEF CopiesCurrent, AbsentIsZero, InstanceHeld
  <2>3. ConfigMapEnsured' /\ PodEnsured'
    BY <2>1 DEF ConfigMapEnsured, PodEnsured
  <2>4. NoLostWakeup'
    BY <2>1 DEF NoLostWakeup, Settled, Converged
  <2> QED
    BY <2>2, <2>3, <2>4
<1>3. CASE CollectConfigMap(n)
  <2>1. /\ \E c : cms' = [cms EXCEPT ![n] = c]
        /\ cmFresh' = cmFresh \ {n}
        /\ UNCHANGED <<kms, fresh, pods, podFresh>>
    BY <1>3 DEF CollectConfigMap
  <2>2. CopiesCurrent' /\ AbsentIsZero' /\ InstanceHeld'
    BY <2>1 DEF CopiesCurrent, AbsentIsZero, InstanceHeld
  <2>3. ConfigMapEnsured' /\ PodEnsured'
    BY <2>1 DEF ConfigMapEnsured, PodEnsured
  <2>4. NoLostWakeup'
    BY <2>1 DEF NoLostWakeup, Settled, Converged
  <2> QED
    BY <2>2, <2>3, <2>4
<1> QED
  BY <1>1, <1>2, <1>3 DEF Environment

\* A delivery queues the name.
LEMMA SyncWake ==
  ASSUME TypeOK, WakeInv, ControllerAssumption, NEW n \in Names,
         SyncKM(n) \/ SyncConfigMap(n) \/ SyncPod(n)
  PROVE  WakeInv'
<1> USE DEF TypeOK, ClusterTypeOK, WakeInv
<1>1. queue' = queue \cup {n} /\ UNCHANGED <<pc, req, inst, foundPod, kms, cms, pods>>
  BY DEF SyncKM, SyncConfigMap, SyncPod, Enqueue
<1>2. CopiesCurrent' /\ AbsentIsZero'
  BY ControllerAssumption DEF SyncKM, SyncConfigMap, SyncPod, CopiesCurrent, AbsentIsZero
<1>3. InstanceHeld'
  BY <1>1, ControllerAssumption DEF InstanceHeld, SyncKM, SyncConfigMap, SyncPod
<1>4. ConfigMapEnsured' /\ PodEnsured'
  BY <1>1 DEF ConfigMapEnsured, PodEnsured, SyncKM, SyncConfigMap, SyncPod
<1>5. NoLostWakeup'
  BY <1>1, ControllerAssumption
  DEF NoLostWakeup, Settled, Converged, SyncKM, SyncConfigMap, SyncPod
<1> QED
  BY <1>2, <1>3, <1>4, <1>5

\* A name leaves the queue for the worker, with the cached instance; or for
\* good, when its KernelManager is gone.
LEMMA FetchWake ==
  ASSUME TypeOK, WakeInv, ControllerAssumption, NEW n \in Names, FetchInstance(n)
  PROVE  WakeInv'
<1> USE DEF TypeOK, ClusterTypeOK, FetchInstance, cacheVars, WakeInv
<1>1. \A m \in Names : "informer" \in fresh'[m] <=> "informer" \in fresh[m]
  BY ControllerAssumption
<1>2. CopiesCurrent' /\ AbsentIsZero'
  BY <1>1 DEF CopiesCurrent, AbsentIsZero
<1>3. InstanceHeld'
  <2>1. "reconciler" \in fresh'[n] => kmCache[n] = kms[n]
    BY ControllerAssumption DEF CopiesCurrent
  <2> QED
    BY <2>1, UidTypes DEF InstanceHeld, Branch
<1>4. ConfigMapEnsured' /\ PodEnsured'
  BY DEF ConfigMapEnsured, PodEnsured, Branch
<1>5. NoLostWakeup'
  <2>1. CASE kmCache[n].uid = 0
    <3>1. "informer" \in fresh'[n] => kms[n] = NoKM
      BY <1>1, <2>1 DEF CopiesCurrent, AbsentIsZero
    <3> QED
      BY <1>1, <2>1, <3>1 DEF NoLostWakeup, Settled, Converged, Branch
  <2>2. CASE kmCache[n].uid # 0
    <3>1. pc' # "idle"
      BY <2>2 DEF Branch
    <3> QED
      BY <1>1, <3>1 DEF NoLostWakeup, Settled, Converged
  <2> QED
    BY <2>1, <2>2
<1> QED
  BY <1>2, <1>3, <1>4, <1>5

\* A name that an Event hides is not promised anything.
LEMMA EventWake ==
  ASSUME TypeOK, WakeInv, NEW n \in Names, ReconcileEvent(n)
  PROVE  WakeInv'
<1> USE DEF TypeOK, ClusterTypeOK, ReconcileEvent, KmNameFromInvolvedObject,
            clusterVars, cacheVars, WakeInv
<1>1. CopiesCurrent' /\ AbsentIsZero' /\ InstanceHeld'
  BY DEF CopiesCurrent, AbsentIsZero, InstanceHeld
<1>2. ConfigMapEnsured' /\ PodEnsured'
  BY DEF ConfigMapEnsured, PodEnsured
<1>3. NoLostWakeup'
  BY DEF NoLostWakeup, Settled, Converged
<1> QED
  BY <1>1, <1>2, <1>3

\* A name that fails is queued again, whatever the failed call wrote.
LEMMA FailWake ==
  ASSUME TypeOK, WakeInv, pc # "idle", Fail, UNCHANGED cacheVars,
         /\ \A n \in Names \ {req} : kms'[n] = kms[n] /\ cms'[n] = cms[n] /\ pods'[n] = pods[n]
         /\ \A n \in Names \ {req} : fresh'[n] = fresh[n]
         /\ \A n \in Names \ {req} : n \in cmFresh' <=> n \in cmFresh
         /\ \A n \in Names \ {req} : n \in podFresh' <=> n \in podFresh,
         CopiesCurrent', AbsentIsZero'
  PROVE  WakeInv'
<1> USE DEF TypeOK, Fail, Leave, cacheVars, WakeInv
<1>1. InstanceHeld' /\ ConfigMapEnsured' /\ PodEnsured'
  BY DEF InstanceHeld, ConfigMapEnsured, PodEnsured
<1>2. NoLostWakeup'
  BY DEF NoLostWakeup, Settled, Converged
<1> QED
  BY <1>1, <1>2

LEMMA CullWake ==
  ASSUME TypeOK, WakeInv, Cull
  PROVE  WakeInv'
<1> USE DEF TypeOK, ClusterTypeOK, Cull, cacheVars, WriteKM,
            KMUnchanged, ConfigMapUnchanged, PodUnchanged, WakeInv
<1>1. CopiesCurrent' /\ AbsentIsZero'
  BY DEF CopiesCurrent, AbsentIsZero
<1>2. CASE Fail
  BY <1>1, <1>2, FailWake
<1>3. CASE Done /\ WriteKM(req, NoKM)
  <2>1. InstanceHeld' /\ ConfigMapEnsured' /\ PodEnsured'
    BY <1>3 DEF Done, Leave, InstanceHeld, ConfigMapEnsured, PodEnsured
  <2>2. NoLostWakeup'
    BY <1>3 DEF Done, Leave, NoLostWakeup, Settled, Converged
  <2> QED
    BY <1>1, <2>1, <2>2
<1> QED
  BY <1>2, <1>3 DEF Answered

LEMMA ConfigMapWake ==
  ASSUME TypeOK, WakeInv, EnsureConfigMap
  PROVE  WakeInv'
<1> USE DEF TypeOK, ClusterTypeOK, EnsureConfigMap, CreateConfigMap, UpdateConfigMap,
            KeepConfigMap, cacheVars, WriteConfigMap,
            KMUnchanged, ConfigMapUnchanged, PodUnchanged, WakeInv
<1>1. CopiesCurrent' /\ AbsentIsZero'
  BY DEF CopiesCurrent, AbsentIsZero
<1>2. CASE Fail
  BY <1>1, <1>2, FailWake
<1>3. CASE Proceed("pod")
  <2>1. InstanceHeld'
    BY <1>3 DEF Proceed, InstanceHeld
  <2>2. req \in cmFresh' => cmCache[req].data = inst.uid /\ cms'[req] = cms[req]
    <3>1. CASE CreateConfigMap \/ UpdateConfigMap
      BY <1>3, <3>1 DEF Proceed, Fail, Leave
    <3>2. CASE KeepConfigMap
      BY <3>2 DEF ConfigMapDiffers
    <3> QED
      BY <3>1, <3>2
  <2>3. ConfigMapEnsured' /\ PodEnsured'
    BY <1>1, <1>3, <2>2 DEF Proceed, ConfigMapEnsured, PodEnsured, CopiesCurrent
  <2>4. NoLostWakeup'
    BY <1>3 DEF Proceed, NoLostWakeup, Settled, Converged
  <2> QED
    BY <1>1, <2>1, <2>3, <2>4
<1> QED
  BY <1>2, <1>3 DEF Answered

LEMMA PodWake ==
  ASSUME TypeOK, WakeInv, EnsurePod
  PROVE  WakeInv'
<1> USE DEF TypeOK, ClusterTypeOK, EnsurePod, CreatePod, FindPod, Panic, cacheVars, WritePod,
            KMUnchanged, ConfigMapUnchanged, PodUnchanged, WakeInv
<1>1. CopiesCurrent' /\ AbsentIsZero'
  BY DEF CopiesCurrent, AbsentIsZero
<1>2. CASE Fail
  BY <1>1, <1>2, FailWake
<1>3. CASE pc' = "status" /\ UNCHANGED <<queue, req, inst>>
  <2>1. InstanceHeld'
    BY <1>3 DEF InstanceHeld
  <2>2. ConfigMapEnsured'
    BY <1>3 DEF ConfigMapEnsured
  <2>3. PodEnsured'
    <3>1. CASE CreatePod
      <4>1. req \notin podFresh'
        BY <1>3, <3>1 DEF Fail, Leave
      <4> QED
        BY <1>3, <4>1 DEF PodEnsured
    <3>2. CASE FindPod
      BY <1>3, <3>2 DEF PodEnsured, CopiesCurrent
    <3>3. CASE Panic
      BY <1>3, <3>3 DEF Fail, Leave
    <3> QED
      BY <3>1, <3>2, <3>3
  <2>4. NoLostWakeup'
    BY <1>3 DEF NoLostWakeup, Settled, Converged
  <2> QED
    BY <1>1, <2>1, <2>2, <2>3, <2>4
<1> QED
  BY <1>2, <1>3 DEF Answered, Proceed

\* A status that was not written again is that of the cached pod.
LEMMA StatusWake ==
  ASSUME TypeOK, WakeInv, UpdateStatus
  PROVE  WakeInv'
<1> USE DEF TypeOK, ClusterTypeOK, UpdateStatus, cacheVars, WriteKM,
            KMUnchanged, ConfigMapUnchanged, PodUnchanged, WakeInv
<1>1. "reconciler" \in fresh[req] => inst = kms[req] /\ kms[req].uid # 0 /\ ~kms[req].idle
  BY DEF InstanceHeld
<1>2. CopiesCurrent'
  BY DEF CopiesCurrent
<1>3. AbsentIsZero'
  <2>1. "reconciler" \in fresh[req] =>
          [kms[req] EXCEPT !.status = Mirror(foundPod)].uid # 0
    BY <1>1 DEF KM
  <2> QED
    BY <2>1 DEF AbsentIsZero
<1>4. CASE Fail
  BY <1>2, <1>3, <1>4, FailWake
<1>5. CASE Done /\ UNCHANGED <<kms, fresh>> /\ "reconciler" \in fresh[req]
           /\ kms[req].status = Mirror(foundPod)
  <2>1. InstanceHeld' /\ ConfigMapEnsured' /\ PodEnsured'
    BY <1>5 DEF Done, Leave, InstanceHeld, ConfigMapEnsured, PodEnsured
  <2>2. ASSUME Settled(req)'
        PROVE  Converged(req)
    <3>1. req \notin queue /\ req \in cmFresh /\ req \in podFresh
      BY <1>5, <2>2 DEF Settled, Done, Leave
    <3>2. pods[req] # NoPod /\ kms[req].status = Mirror(pods[req])
      BY <1>5, <3>1 DEF PodEnsured
    <3>3. req \in WithConn => cms[req].data = kms[req].uid
      BY <1>1, <1>5, <3>1 DEF ConfigMapEnsured
    <3> QED
      BY <1>1, <1>5, <3>2, <3>3 DEF Converged
  <2>3. NoLostWakeup'
    BY <1>5, <2>2 DEF Done, Leave, NoLostWakeup, Settled, Converged
  <2> QED
    BY <1>2, <1>3, <2>1, <2>3
<1>6. CASE Done /\ WriteKM(req, [kms[req] EXCEPT !.status = Mirror(foundPod)])
  <2>1. InstanceHeld' /\ ConfigMapEnsured' /\ PodEnsured'
    BY <1>6 DEF Done, Leave, InstanceHeld, ConfigMapEnsured, PodEnsured
  <2>2. NoLostWakeup'
    BY <1>6 DEF Done, Leave, NoLostWakeup, Settled, Converged
  <2> QED
    BY <1>2, <1>3, <2>1, <2>2
<1> QED
  BY <1>4, <1>5, <1>6 DEF Answered

LEMMA RestartWake ==
  ASSUME TypeOK, WakeInv, ControllerAssumption, Restart
  PROVE  WakeInv'
<1> USE DEF TypeOK, ClusterTypeOK, Restart, Leave, WakeInv
<1>1. CopiesCurrent' /\ AbsentIsZero' /\ InstanceHeld'
  BY DEF CopiesCurrent, AbsentIsZero, InstanceHeld
<1>2. ConfigMapEnsured' /\ PodEnsured'
  BY DEF ConfigMapEnsured, PodEnsured
<1>3. NoLostWakeup'
  BY DEF NoLostWakeup, Settled, Converged, Listed
<1> QED
  BY <1>1, <1>2, <1>3

LEMMA StepWake ==
  ASSUME ControllerAssumption, TypeOK, WakeInv, [Next]_vars
  PROVE  WakeInv'
<1>1. ASSUME NEW n \in Names, Env(n)
      PROVE  WakeInv'
  BY <1>1, EnvWake
<1>2. ASSUME NEW n \in Names, SyncKM(n) \/ SyncConfigMap(n) \/ SyncPod(n)
      PROVE  WakeInv'
  BY <1>2, SyncWake
<1>3. ASSUME NEW n \in Names, ReconcileEvent(n) \/ FetchInstance(n)
      PROVE  WakeInv'
  BY <1>3, EventWake, FetchWake
<1>4. CASE Reconcile
  BY <1>4, CullWake, ConfigMapWake, PodWake, StatusWake DEF Reconcile
<1>5. CASE ApiError
  <2>1. CopiesCurrent' /\ AbsentIsZero'
    BY <1>5 DEF ApiError, cacheVars, KMUnchanged, ConfigMapUnchanged, PodUnchanged,
                WakeInv, CopiesCurrent, AbsentIsZero
  <2> QED
    BY <1>5, <2>1, FailWake
    DEF ApiError, KMUnchanged, ConfigMapUnchanged, PodUnchanged
<1>6. CASE Restart
  BY <1>6, RestartWake
<1>7. CASE UNCHANGED vars
  BY <1>7 DEF vars, clusterVars, cacheVars, workerVars, WakeInv, CopiesCurrent,
              AbsentIsZero, InstanceHeld, ConfigMapEnsured, PodEnsured,
              NoLostWakeup, Settled, Converged
<1> QED
  BY <1>1, <1>2, <1>3, <1>4, <1>5, <1>6, <1>7 DEF Next

LEMMA InitWake ==
  ASSUME Init
  PROVE  WakeInv
<1>1. CopiesCurrent /\ AbsentIsZero
  BY DEF Init, ClusterInit, CopiesCurrent, AbsentIsZero
<1>2. InstanceHeld /\ ConfigMapEnsured /\ PodEnsured
  BY DEF Init, InstanceHeld, ConfigMapEnsured, PodEnsured
<1>3. NoLostWakeup
  BY DEF Init, ClusterInit, NoLostWakeup, Converged
<1> QED
  BY <1>1, <1>2, <1>3 DEF WakeInv

\* Level-triggered reconciliation converges: a KernelManager for which nothing
\* is queued, running or undelivered is as Reconcile is to make it.
THEOREM WakeupsNotLost == Spec => []NoLostWakeup
<1>1. Init => WakeInv
  BY InitWake
<1>2. TypeOK /\ WakeInv /\ [Next]_vars => WakeInv'
  BY ControllerAssumption, StepWake
<1>3. WakeInv => NoLostWakeup
  BY DEF WakeInv
<1> QED
  BY <1>1, <1>2, <1>3, TypeCorrect, PTL DEF Spec

-----------------------------------------------------------------------------
(* Never a stale configuration.                                            *)

\* Incarnations are numbered in the order they are created.
InNumberOrder ==
  \A n \in Names :
    /\ kms[n].uid \in {0, born[n]} /\ kmCache[n].uid <= born[n]
    /\ pods[n].owner <= born[n] /\ cms[n].data <= born[n] /\ cmCache[n].data <= born[n]

\* The informer has seen every KernelManager that something was made for.
MadeFromCache ==
  \A n \in Names : kmCache[n].uid # 0 =>
    /\ pods[n].owner <= kmCache[n].uid
    /\ cms[n].data <= kmCache[n].uid /\ cmCache[n].data <= kmCache[n].uid

\* The worker's instance is not older than what was made before it.
MadeBeforeInstance ==
  pc # "idle" =>
    /\ inst.uid # 0 /\ inst.uid <= born[req]
    /\ kmCache[req].uid # 0 => inst.uid <= kmCache[req].uid
    /\ pods[req].owner <= inst.uid
    /\ cms[req].data <= inst.uid /\ cmCache[req].data <= inst.uid

\* A ConfigMap that exists has an owner, and its cached copy is not ahead.
ConfigMapAhead ==
  \A n \in Names :
    /\ cms[n].owner = 0 => cms[n] = NoConfigMap
    /\ cmCache[n].owner = 0 => cmCache[n] = NoConfigMap
    /\ cms[n].owner # 0 => cmCache[n].data <= cms[n].data

\* The ConfigMap is made ready for a pod before the pod is made.
ConfigMapBeforePod ==
  /\ pc = "pod" /\ req \in WithConn /\ cms[req].owner # 0 => cms[req].data >= inst.uid
  /\ \A n \in WithConn : cms[n].owner # 0 => cms[n].data >= pods[n].owner

ConfigInv ==
  /\ InNumberOrder /\ MadeFromCache /\ MadeBeforeInstance
  /\ ConfigMapAhead /\ ConfigMapBeforePod /\ NeverStaleConfig

LEMMA Zeros ==
  /\ NoKM.uid = 0
  /\ NoPod.owner = 0 /\ NoPod.mounted = 0
  /\ NoConfigMap.owner = 0 /\ NoConfigMap.data = 0
  BY DEF NoKM, NewKM, NoPod, NoConfigMap

LEMMA Numbers ==
  ASSUME TypeOK
  PROVE  /\ \A n \in Names :
              /\ born[n] \in Nat /\ kms[n].uid \in Nat /\ kmCache[n].uid \in Nat
              /\ pods[n].owner \in Nat /\ pods[n].mounted \in Nat
              /\ cms[n].owner \in Nat /\ cms[n].data \in Nat
              /\ cmCache[n].owner \in Nat /\ cmCache[n].data \in Nat
         /\ inst.uid \in Nat
  BY KMFields, ConfigMapFields, PodFields DEF TypeOK, ClusterTypeOK

\* What is deleted or created elsewhere, and a pod that starts.
LEMMA EnvConfig ==
  ASSUME ClusterAssumption, TypeOK, ConfigInv, NEW n \in Names, Env(n)
  PROVE  ConfigInv'
<1> USE Numbers, Zeros
    DEF TypeOK, ClusterTypeOK, Env, cacheVars, workerVars,
        WriteKM, WriteConfigMap, WritePod,
        KMUnchanged, ConfigMapUnchanged, PodUnchanged
<1> USE ClusterAssumption DEF ClusterAssumption
<1>1. CASE CreateKM(n)
  <2>1. NewKM(born[n] + 1).uid = born[n] + 1
    BY DEF NewKM
  <2> QED
    BY <1>1, <2>1
    DEF CreateKM, ConfigInv, InNumberOrder, MadeFromCache, MadeBeforeInstance,
        ConfigMapAhead, ConfigMapBeforePod, NeverStaleConfig
<1>2. CASE DeleteKM(n)
  BY <1>2
  DEF DeleteKM, ConfigInv, InNumberOrder, MadeFromCache, MadeBeforeInstance,
      ConfigMapAhead, ConfigMapBeforePod, NeverStaleConfig
<1>3. CASE AnnotateActivity(n) \/ LabelIdle(n)
  <2>1. /\ [kms[n] EXCEPT !.ann = @ + 1].uid = kms[n].uid
        /\ [kms[n] EXCEPT !.idle = TRUE].uid = kms[n].uid
    BY DEF KM
  <2>2. PICK k : kms' = [kms EXCEPT ![n] = k] /\ k.uid = kms[n].uid
    BY <1>3, <2>1 DEF AnnotateActivity, LabelIdle
  <2>3. UNCHANGED <<born, pods, cms>>
    BY <1>3 DEF AnnotateActivity, LabelIdle
  <2> QED
    BY <2>2, <2>3
    DEF ConfigInv, InNumberOrder, MadeFromCache, MadeBeforeInstance,
        ConfigMapAhead, ConfigMapBeforePod, NeverStaleConfig
<1>4. CASE StartPod(n) \/ StopPod(n)
  <2>1. \A m \in Nat :
          /\ [pods[n] EXCEPT !.phase = "Running", !.mounted = m].owner = pods[n].owner
          /\ [pods[n] EXCEPT !.phase = "Running", !.mounted = m].mounted = m
    BY DEF Pod
  <2>2. /\ [pods[n] EXCEPT !.phase = "Failed"].owner = pods[n].owner
        /\ [pods[n] EXCEPT !.phase = "Failed"].mounted = pods[n].mounted
    BY DEF Pod
  <2>3. PICK p : /\ pods' = [pods EXCEPT ![n] = p]
                 /\ p.owner = pods[n].owner
                 /\ \/ p.mounted = pods[n].mounted
                    \/ n \in WithConn /\ cms[n].owner # 0 /\ p.mounted = cms[n].data
                    \/ n \notin WithConn
    BY <1>4, <2>1, <2>2 DEF StartPod, StopPod
  <2>4. UNCHANGED <<born, kms, cms>>
    BY <1>4 DEF StartPod, StopPod
  <2> QED
    BY <2>3, <2>4
    DEF ConfigInv, InNumberOrder, MadeFromCache, MadeBeforeInstance,
        ConfigMapAhead, ConfigMapBeforePod, NeverStaleConfig
<1>5. CASE EvictPod(n) \/ CollectPod(n)
  <2>1. pods' = [pods EXCEPT ![n] = NoPod] /\ UNCHANGED <<born, kms, cms>>
    BY <1>5 DEF EvictPod, CollectPod
  <2> QED
    BY <2>1
    DEF ConfigInv, InNumberOrder, MadeFromCache, MadeBeforeInstance,
        ConfigMapAhead, ConfigMapBeforePod, NeverStaleConfig
<1>6. CASE CollectConfigMap(n)
  BY <1>6
  DEF CollectConfigMap, ConfigInv, InNumberOrder, MadeFromCache, MadeBeforeInstance,
      ConfigMapAhead, ConfigMapBeforePod, NeverStaleConfig
<1> QED
  BY <1>1, <1>2, <1>3, <1>4, <1>5, <1>6 DEF Environment

\* A cache catches up with the store.
LEMMA SyncConfig ==
  ASSUME ClusterAssumption, TypeOK, ConfigInv, NEW n \in Names,
         SyncKM(n) \/ SyncConfigMap(n) \/ SyncPod(n)
  PROVE  ConfigInv'
<1> USE Numbers, Zeros, ClusterAssumption
    DEF ClusterAssumption, TypeOK, ClusterTypeOK, Enqueue
<1>1. CASE SyncKM(n)
  BY <1>1
  DEF SyncKM, ConfigInv, InNumberOrder, MadeFromCache, MadeBeforeInstance,
      ConfigMapAhead, ConfigMapBeforePod, NeverStaleConfig
<1>2. CASE SyncConfigMap(n)
  BY <1>2
  DEF SyncConfigMap, ConfigInv, InNumberOrder, MadeFromCache, MadeBeforeInstance,
      ConfigMapAhead, ConfigMapBeforePod, NeverStaleConfig
<1>3. CASE SyncPod(n)
  BY <1>3
  DEF SyncPod, ConfigInv, InNumberOrder, MadeFromCache, MadeBeforeInstance,
      ConfigMapAhead, ConfigMapBeforePod, NeverStaleConfig
<1> QED
  BY <1>1, <1>2, <1>3

\* The worker takes its instance from the cache.
LEMMA FetchConfig ==
  ASSUME ClusterAssumption, TypeOK, ConfigInv, NEW n \in Names, FetchInstance(n)
  PROVE  ConfigInv'
  BY Numbers, ClusterAssumption
  DEF ClusterAssumption, TypeOK, ClusterTypeOK, FetchInstance, Branch, cacheVars,
      ConfigInv, InNumberOrder, MadeFromCache, MadeBeforeInstance,
      ConfigMapAhead, ConfigMapBeforePod, NeverStaleConfig

\* The ConfigMap is made, or has been made before, from this instance.
LEMMA ConfigMapConfig ==
  ASSUME ClusterAssumption, TypeOK, ConfigInv, EnsureConfigMap
  PROVE  ConfigInv'
<1> USE Numbers, Zeros, ClusterAssumption
    DEF ClusterAssumption, TypeOK, ClusterTypeOK, EnsureConfigMap, cacheVars,
        KMUnchanged, ConfigMapUnchanged, PodUnchanged
<1>1. CASE UNCHANGED cms /\ Leave
  BY <1>1
  DEF Leave, ConfigInv, InNumberOrder, MadeFromCache, MadeBeforeInstance,
      ConfigMapAhead, ConfigMapBeforePod, NeverStaleConfig
<1>2. ASSUME NEW c \in ConfigMap, cms' = [cms EXCEPT ![req] = c],
             c.owner # 0, c.data = inst.uid,
             Leave \/ (pc' = "pod" /\ UNCHANGED <<req, inst>>)
      PROVE  ConfigInv'
  BY <1>2
  DEF Leave, ConfigInv, InNumberOrder, MadeFromCache, MadeBeforeInstance,
      ConfigMapAhead, ConfigMapBeforePod, NeverStaleConfig
<1>3. CASE CreateConfigMap
  <2>1. NewConfigMap.owner # 0 /\ NewConfigMap.data = inst.uid /\ NewConfigMap \in ConfigMap
    BY KMFields DEF NewConfigMap, ConfigMap, ConfigInv, MadeBeforeInstance
  <2>2. \/ UNCHANGED cms /\ Leave
        \/ /\ cms' = [cms EXCEPT ![req] = NewConfigMap]
           /\ Leave \/ (pc' = "pod" /\ UNCHANGED <<req, inst>>)
    BY <1>3 DEF CreateConfigMap, WriteConfigMap, Answered, Proceed, Fail
  <2> QED
    BY <1>1, <1>2, <2>1, <2>2
<1>4. CASE UpdateConfigMap
  <2> DEFINE c == CopyConfigMapFields(cmCache[req])
  <2>1. inst.ann \in Nat /\ cmCache[req] \in ConfigMap
    BY KMFields
  <2>2. c \in ConfigMap
    BY <2>1, ConfigMapFields DEF CopyConfigMapFields
  <2>3. c.owner = cmCache[req].owner /\ c.data = inst.uid
    BY <2>1 DEF CopyConfigMapFields, ConfigMap
  <2>4. cmCache[req].owner # 0
    BY <1>4 DEF UpdateConfigMap, ConfigInv, ConfigMapAhead
  <2>5. \/ UNCHANGED cms /\ Leave
        \/ /\ cms' = [cms EXCEPT ![req] = c]
           /\ Leave \/ (pc' = "pod" /\ UNCHANGED <<req, inst>>)
    BY <1>4 DEF UpdateConfigMap, WriteConfigMap, Answered, Proceed, Fail
  <2> QED
    BY <1>1, <1>2, <2>2, <2>3, <2>4, <2>5
<1>5. CASE KeepConfigMap
  BY <1>5
  DEF KeepConfigMap, ConfigMapDiffers, Proceed, ConfigInv, InNumberOrder, MadeFromCache,
      MadeBeforeInstance, ConfigMapAhead, ConfigMapBeforePod, NeverStaleConfig
<1> QED
  BY <1>3, <1>4, <1>5

\* The pod that is made finds its ConfigMap ready.
LEMMA PodConfig ==
  ASSUME ClusterAssumption, TypeOK, ConfigInv, EnsurePod
  PROVE  ConfigInv'
<1> USE Numbers, Zeros, ClusterAssumption
    DEF ClusterAssumption, TypeOK, ClusterTypeOK, EnsurePod, cacheVars,
        KMUnchanged, ConfigMapUnchanged, PodUnchanged
<1>1. CASE UNCHANGED pods /\ (Leave \/ (pc' = "status" /\ UNCHANGED <<req, inst>>))
  BY <1>1
  DEF Leave, ConfigInv, InNumberOrder, MadeFromCache, MadeBeforeInstance,
      ConfigMapAhead, ConfigMapBeforePod, NeverStaleConfig
<1>2. CASE WritePod(req, NewPod) /\ (Leave \/ (pc' = "status" /\ UNCHANGED <<req, inst>>))
  <2>1. NewPod.owner = inst.uid /\ NewPod.mounted = 0
    BY DEF NewPod
  <2> QED
    BY <1>2, <2>1
    DEF WritePod, Leave, ConfigInv, InNumberOrder, MadeFromCache, MadeBeforeInstance,
        ConfigMapAhead, ConfigMapBeforePod, NeverStaleConfig
<1>3. CASE CreatePod
  BY <1>1, <1>2, <1>3 DEF CreatePod, Answered, Proceed, Fail
<1>4. CASE FindPod
  BY <1>1, <1>4 DEF FindPod
<1>5. CASE Panic
  BY <1>1, <1>5 DEF Panic, Fail
<1> QED
  BY <1>3, <1>4, <1>5

\* Culling and the status do not touch what was made.
LEMMA KMWriteConfig ==
  ASSUME ClusterAssumption, TypeOK, ConfigInv, Cull \/ UpdateStatus
  PROVE  ConfigInv'
<1> USE Numbers, Zeros, ClusterAssumption
    DEF ClusterAssumption, TypeOK, ClusterTypeOK, cacheVars
<1>1. UNCHANGED <<kmCache, cmCache, pods, cms, born>> /\ Leave
  BY DEF Cull, UpdateStatus, ConfigMapUnchanged, PodUnchanged, Answered, Fail, Done
<1>2. \/ UNCHANGED kms
      \/ \E k : kms' = [kms EXCEPT ![req] = k] /\ k.uid \in {0, kms[req].uid}
  <2>1. [kms[req] EXCEPT !.status = Mirror(foundPod)].uid = kms[req].uid
    BY DEF KM
  <2>2. CASE Cull
    BY <2>2 DEF Cull, WriteKM, KMUnchanged
  <2>3. CASE UpdateStatus
    BY <2>1, <2>3 DEF UpdateStatus, WriteKM, KMUnchanged
  <2> QED
    BY <2>2, <2>3
<1> QED
  BY <1>1, <1>2
  DEF Leave, ConfigInv, InNumberOrder, MadeFromCache, MadeBeforeInstance,
      ConfigMapAhead, ConfigMapBeforePod, NeverStaleConfig

LEMMA StepConfig ==
  ASSUME ClusterAssumption, TypeOK, ConfigInv, [Next]_vars
  PROVE  ConfigInv'
<1>1. ASSUME NEW n \in Names, Env(n)
      PROVE  ConfigInv'
  BY <1>1, EnvConfig
<1>2. ASSUME NEW n \in Names, SyncKM(n) \/ SyncConfigMap(n) \/ SyncPod(n)
      PROVE  ConfigInv'
  BY <1>2, SyncConfig
<1>3. ASSUME NEW n \in Names, FetchInstance(n)
      PROVE  ConfigInv'
  BY <1>3, FetchConfig
<1>4. CASE Reconcile
  BY <1>4, KMWriteConfig, ConfigMapConfig, PodConfig DEF Reconcile
<1>5. CASE Restart
  BY <1>5, Numbers
  DEF Restart, Leave, TypeOK, ClusterTypeOK, ConfigInv, InNumberOrder, MadeFromCache,
      MadeBeforeInstance, ConfigMapAhead, ConfigMapBeforePod, NeverStaleConfig
<1>6. CASE ApiError
  BY <1>6
  DEF ApiError, Fail, Leave, cacheVars, KMUnchanged, ConfigMapUnchanged, PodUnchanged,
      ConfigInv, InNumberOrder, MadeFromCache, MadeBeforeInstance,
      ConfigMapAhead, ConfigMapBeforePod, NeverStaleConfig
<1>7. ASSUME UNCHANGED vars \/ \E n \in Names : ReconcileEvent(n)
      PROVE  ConfigInv'
  BY <1>7
  DEF vars, ReconcileEvent, KmNameFromInvolvedObject, clusterVars, cacheVars, workerVars,
      ConfigInv, InNumberOrder, MadeFromCache, MadeBeforeInstance,
      ConfigMapAhead, ConfigMapBeforePod, NeverStaleConfig
<1> QED
  BY <1>1, <1>2, <1>3, <1>4, <1>5, <1>6, <1>7 DEF Next

LEMMA InitConfig ==
  ASSUME ClusterAssumption, Init
  PROVE  ConfigInv
  BY Zeros, ClusterAssumption
  DEF ClusterAssumption, Init, ClusterInit, ConfigInv, InNumberOrder, MadeFromCache,
      MadeBeforeInstance, ConfigMapAhead, ConfigMapBeforePod, NeverStaleConfig

\* No kernel starts with the connection file of an earlier KernelManager of
\* its name, whatever the names, incarnations, errors and restarts.
THEOREM ConfigNeverStale == Spec => []NeverStaleConfig
<1>1. Init => ConfigInv
  BY ClusterAssumption, InitConfig
<1>2. TypeOK /\ ConfigInv /\ [Next]_vars => ConfigInv'
  BY ClusterAssumption, StepConfig
<1>3. ConfigInv => NeverStaleConfig
  BY DEF ConfigInv
<1> QED
  BY <1>1, <1>2, <1>3, TypeCorrect, PTL DEF Spec

-----------------------------------------------------------------------------
(* The controller follows KernelLifecycle.                                 *)

\* A step that concerns one name and moves its stage as the life does.
LEMMA OneLife ==
  ASSUME NEW n \in Names,
         \A m \in Names \ {n} : kms'[m] = kms[m] /\ pods'[m] = pods[m],
         NEW from, from = StageOf(kms[n], pods[n]),
         NEW to, to = StageOf(kms'[n], pods'[n]),
         \/ to = from
         \/ from = "absent" /\ to = "requested"
         \/ from = "requested" /\ to = "starting"
         \/ from = "starting" /\ to = "running"
         \/ from = "running" /\ to = "ended"
         \/ from \in {"starting", "running", "ended"} /\ to = "requested"
         \/ from # "absent" /\ to = "absent"
  PROVE  [Lifecycle!Next]_life
<1>1. life[n] = from /\ life' = [life EXCEPT ![n] = to]
  BY DEF life
<1>2. from \in Lifecycle!Stage
  BY DEF StageOf, Lifecycle!Stage
<1>3. CASE to = from
  BY <1>1, <1>3 DEF life
<1> QED
  BY <1>1, <1>2, <1>3
  DEF Lifecycle!Next, Lifecycle!Advance, Lifecycle!Request, Lifecycle!Launch,
      Lifecycle!Begin, Lifecycle!End, Lifecycle!Lose, Lifecycle!Remove, Lifecycle!Stage

\* A KernelManager that is written keeps its stage with its uid.
LEMMA SameStage ==
  ASSUME NEW k, NEW l, NEW p, k.uid = l.uid
  PROVE  StageOf(k, p) = StageOf(l, p)
  BY DEF StageOf

LEMMA EnvLife ==
  ASSUME ClusterAssumption, TypeOK, ConfigInv, NEW n \in Names, Env(n)
  PROVE  [Lifecycle!Next]_life
<1> USE Numbers, Zeros
    DEF TypeOK, ClusterTypeOK, Env, WriteKM, WritePod, KMUnchanged, PodUnchanged
<1>1. CASE CreateKM(n)
  <2>1. kms'[n].uid = born[n] + 1 /\ pods'[n] = pods[n] /\ pods[n].owner <= born[n]
    BY <1>1 DEF CreateKM, NewKM, ConfigInv, InNumberOrder
  <2>2. StageOf(kms[n], pods[n]) = "absent" /\ StageOf(kms'[n], pods'[n]) = "requested"
    BY <1>1, <2>1 DEF CreateKM, StageOf
  <2> QED
    BY <1>1, <2>2, OneLife DEF CreateKM
<1>2. CASE DeleteKM(n)
  <2>1. StageOf(kms[n], pods[n]) # "absent" /\ StageOf(kms'[n], pods'[n]) = "absent"
    BY <1>2 DEF DeleteKM, StageOf
  <2> QED
    BY <1>2, <2>1, OneLife DEF DeleteKM
<1>3. CASE AnnotateActivity(n) \/ LabelIdle(n)
  <2>1. /\ [kms[n] EXCEPT !.ann = @ + 1].uid = kms[n].uid
        /\ [kms[n] EXCEPT !.idle = TRUE].uid = kms[n].uid
    BY DEF KM
  <2>2. kms'[n].uid = kms[n].uid /\ UNCHANGED pods
    BY <1>3, <2>1 DEF AnnotateActivity, LabelIdle
  <2>3. \A m \in Names \ {n} : kms'[m] = kms[m] /\ pods'[m] = pods[m]
    BY <1>3, <2>2 DEF AnnotateActivity, LabelIdle
  <2> QED
    BY <2>2, <2>3, SameStage, OneLife
<1>4. CASE StartPod(n)
  <2>1. pods'[n].phase = "Running" /\ pods'[n].owner = pods[n].owner /\ UNCHANGED kms
    BY <1>4 DEF StartPod, Pod
  <2>2. \/ StageOf(kms'[n], pods'[n]) = StageOf(kms[n], pods[n])
        \/ StageOf(kms[n], pods[n]) = "starting" /\ StageOf(kms'[n], pods'[n]) = "running"
    BY <1>4, <2>1 DEF StartPod, StageOf
  <2> QED
    BY <1>4, <2>2, OneLife DEF StartPod
<1>5. CASE StopPod(n)
  <2>1. pods'[n].phase = "Failed" /\ pods'[n].owner = pods[n].owner /\ UNCHANGED kms
    BY <1>5 DEF StopPod, Pod
  <2>2. \/ StageOf(kms'[n], pods'[n]) = StageOf(kms[n], pods[n])
        \/ StageOf(kms[n], pods[n]) = "running" /\ StageOf(kms'[n], pods'[n]) = "ended"
    BY <1>5, <2>1 DEF StopPod, StageOf
  <2> QED
    BY <1>5, <2>2, OneLife DEF StopPod
<1>6. CASE EvictPod(n) \/ CollectPod(n)
  <2>1. pods' = [pods EXCEPT ![n] = NoPod] /\ UNCHANGED kms
    BY <1>6 DEF EvictPod, CollectPod
  <2>2. StageOf(kms'[n], pods'[n]) \in {"absent", "requested"}
    BY <2>1 DEF StageOf
  <2>3. StageOf(kms'[n], pods'[n]) = "absent" <=> StageOf(kms[n], pods[n]) = "absent"
    BY <2>1 DEF StageOf
  <2>4. StageOf(kms[n], pods[n]) \in {"absent", "requested", "starting", "running", "ended"}
    BY DEF StageOf
  <2> QED
    BY <2>1, <2>2, <2>3, <2>4, OneLife
<1>7. CASE CollectConfigMap(n)
  BY <1>7 DEF CollectConfigMap, life
<1> QED
  BY <1>1, <1>2, <1>3, <1>4, <1>5, <1>6, <1>7 DEF Environment

LEMMA ReconcileLife ==
  ASSUME TypeOK, ConfigInv, Reconcile
  PROVE  [Lifecycle!Next]_life
<1> USE Numbers, Zeros
    DEF TypeOK, ClusterTypeOK, WriteKM, WritePod, KMUnchanged, PodUnchanged
<1>1. CASE Cull
  <2>1. CASE UNCHANGED kms
    BY <1>1, <2>1 DEF Cull, life
  <2>2. CASE kms' = [kms EXCEPT ![req] = NoKM]
    <3>1. UNCHANGED pods /\ StageOf(kms'[req], pods'[req]) = "absent"
      BY <1>1, <2>2 DEF Cull, StageOf
    <3> QED
      BY <2>2, <3>1, OneLife
  <2> QED
    BY <1>1, <2>1, <2>2 DEF Cull
<1>2. CASE EnsureConfigMap
  BY <1>2 DEF EnsureConfigMap, life
<1>3. CASE EnsurePod
  <2>1. CASE UNCHANGED pods
    BY <1>3, <2>1 DEF EnsurePod, life
  <2>2. CASE pods[req] = NoPod /\ pods' = [pods EXCEPT ![req] = NewPod]
    <3>1. UNCHANGED kms /\ pods'[req].phase = "Pending"
      BY <1>3, <2>2 DEF EnsurePod, NewPod
    <3>2. StageOf(kms[req], pods[req]) \in {"absent", "requested"}
      BY <2>2 DEF StageOf
    <3>3. \/ StageOf(kms'[req], pods'[req]) = StageOf(kms[req], pods[req])
          \/ /\ StageOf(kms[req], pods[req]) = "requested"
             /\ StageOf(kms'[req], pods'[req]) = "starting"
      BY <2>2, <3>1 DEF StageOf
    <3> QED
      BY <2>2, <3>1, <3>3, OneLife
  <2> QED
    BY <1>3, <2>1, <2>2 DEF EnsurePod, CreatePod, FindPod, Panic
<1>4. CASE UpdateStatus
  <2>1. UNCHANGED pods
    BY <1>4 DEF UpdateStatus
  <2>2. CASE UNCHANGED kms
    BY <2>1, <2>2 DEF life
  <2>3. CASE kms' = [kms EXCEPT ![req] = [kms[req] EXCEPT !.status = Mirror(foundPod)]]
    <3>1. kms'[req].uid = kms[req].uid
      BY <2>3 DEF KM
    <3>2. \A m \in Names \ {req} : kms'[m] = kms[m] /\ pods'[m] = pods[m]
      BY <2>1, <2>3
    <3> QED
      BY <2>1, <3>1, <3>2, SameStage, OneLife
  <2> QED
    BY <1>4, <2>2, <2>3 DEF UpdateStatus
<1> QED
  BY <1>1, <1>2, <1>3, <1>4 DEF Reconcile

LEMMA StepLife ==
  ASSUME ClusterAssumption, TypeOK, ConfigInv, [Next]_vars
  PROVE  [Lifecycle!Next]_life
<1>1. ASSUME NEW n \in Names, Env(n)
      PROVE  [Lifecycle!Next]_life
  BY <1>1, EnvLife
<1>2. CASE Reconcile
  BY <1>2, ReconcileLife
<1>3. CASE UNCHANGED <<kms, pods>>
  BY <1>3 DEF life
<1> QED
  BY <1>1, <1>2, <1>3
  DEF Next, SyncKM, SyncConfigMap, SyncPod, ReconcileEvent, FetchInstance, ApiError, Restart,
      KMUnchanged, PodUnchanged, vars, clusterVars

\* The controller implements KernelLifecycle: every step of it and of the rest
\* of the cluster is a step of the lives of the KernelManagers or none, for
\* any names, bounds and failures.
THEOREM LifeFollowed == Spec => FollowsLifecycle
<1>1. Init => Lifecycle!Init
  BY Zeros DEF Init, ClusterInit, Lifecycle!Init, life, StageOf
<1>2. TypeOK /\ ConfigInv /\ [Next]_vars => [Lifecycle!Next]_life
  BY ClusterAssumption, StepLife
<1>3. Spec => []ConfigInv
  <2>1. Init => ConfigInv
    BY ClusterAssumption, InitConfig
  <2>2. TypeOK /\ ConfigInv /\ [Next]_vars => ConfigInv'
    BY ClusterAssumption, StepConfig
  <2> QED
    BY <2>1, <2>2, TypeCorrect, PTL DEF Spec
<1> QED
  BY <1>1, <1>2, <1>3, TypeCorrect, PTL DEF Spec, FollowsLifecycle, Lifecycle!Safety

-----------------------------------------------------------------------------
(* Culls.                                                                  *)

\* The idle label stays as long as its KernelManager: what a cache or the
\* worker saw labelled is labelled, unless it is gone.
LabelStays ==
  /\ \A n \in Names :
       kmCache[n].uid # 0 /\ kmCache[n].idle /\ kms[n].uid = kmCache[n].uid => kms[n].idle
  /\ pc # "idle" /\ inst.idle /\ kms[req].uid = inst.uid => kms[req].idle

\* Where the labels stay as they are, whatever else changes.
LEMMA SameLabels ==
  ASSUME LabelStays, UNCHANGED kmCache,
         \A n \in Names : kms'[n].uid # 0 => kms'[n].uid = kms[n].uid /\ (kms[n].idle => kms'[n].idle),
         pc' = "idle" \/ (pc # "idle" /\ UNCHANGED <<req, inst>>),
         req \in Names, pc # "idle" => inst.uid # 0
  PROVE  LabelStays'
  BY DEF LabelStays

LEMMA EnvLabel ==
  ASSUME ClusterAssumption, TypeOK, ConfigInv, LabelStays, NEW n \in Names, Env(n)
  PROVE  LabelStays'
<1> USE Numbers, Zeros DEF TypeOK, ClusterTypeOK, Env, cacheVars, workerVars, WriteKM, KMUnchanged
<1>1. CASE CreateKM(n)
  <2>1. kms'[n].uid = born[n] + 1 /\ \A m \in Names \ {n} : kms'[m] = kms[m]
    BY <1>1 DEF CreateKM, NewKM
  <2>2. kmCache[n].uid <= born[n] /\ (pc # "idle" => inst.uid <= born[req])
    BY DEF ConfigInv, InNumberOrder, MadeBeforeInstance
  <2> QED
    BY <2>1, <2>2 DEF LabelStays
<1>2. CASE DeleteKM(n)
  <2>1. \A m \in Names : kms'[m].uid # 0 => kms'[m] = kms[m]
    BY <1>2 DEF DeleteKM
  <2> QED
    BY <2>1, SameLabels DEF ConfigInv, MadeBeforeInstance
<1>3. CASE AnnotateActivity(n) \/ LabelIdle(n)
  <2>1. /\ [kms[n] EXCEPT !.ann = @ + 1].uid = kms[n].uid
        /\ [kms[n] EXCEPT !.ann = @ + 1].idle = kms[n].idle
        /\ [kms[n] EXCEPT !.idle = TRUE].uid = kms[n].uid
        /\ [kms[n] EXCEPT !.idle = TRUE].idle
    BY DEF KM
  <2>2. \A m \in Names : kms'[m].uid = kms[m].uid /\ (kms[m].idle => kms'[m].idle)
    BY <1>3, <2>1 DEF AnnotateActivity, LabelIdle
  <2> QED
    BY <2>2, SameLabels DEF ConfigInv, MadeBeforeInstance
<1>4. CASE UNCHANGED kms
  BY <1>4 DEF LabelStays
<1> QED
  BY <1>1, <1>2, <1>3, <1>4
  DEF Environment, StartPod, StopPod, EvictPod, CollectPod, CollectConfigMap

\* A status that is written leaves the label alone.
LEMMA ReconcileLabel ==
  ASSUME TypeOK, ConfigInv, LabelStays, Reconcile
  PROVE  LabelStays'
<1> USE Numbers, Zeros DEF TypeOK, ClusterTypeOK, cacheVars, KMUnchanged
<1>1. /\ UNCHANGED kmCache /\ pc # "idle"
      /\ pc' = "idle" \/ UNCHANGED <<req, inst>>
  BY DEF Reconcile, Cull, EnsureConfigMap, CreateConfigMap, UpdateConfigMap, KeepConfigMap,
         EnsurePod, CreatePod, FindPod, Panic, UpdateStatus, Answered, Proceed, Fail, Done, Leave
<1>2. CASE UNCHANGED kms
  BY <1>1, <1>2, SameLabels DEF ConfigInv, MadeBeforeInstance
<1>3. CASE kms' = [kms EXCEPT ![req] = NoKM]
  BY <1>1, <1>3, SameLabels DEF ConfigInv, MadeBeforeInstance
<1>4. CASE kms' = [kms EXCEPT ![req] = [kms[req] EXCEPT !.status = Mirror(foundPod)]]
  <2>1. /\ [kms[req] EXCEPT !.status = Mirror(foundPod)].uid = kms[req].uid
        /\ [kms[req] EXCEPT !.status = Mirror(foundPod)].idle = kms[req].idle
    BY DEF KM
  <2>2. \A m \in Names : kms'[m].uid = kms[m].uid /\ kms'[m].idle = kms[m].idle
    BY <1>4, <2>1
  <2> QED
    BY <1>1, <2>2, SameLabels DEF ConfigInv, MadeBeforeInstance
<1> QED
  BY <1>2, <1>3, <1>4 DEF Reconcile, Cull, EnsureConfigMap, EnsurePod, UpdateStatus, WriteKM

LEMMA StepLabel ==
  ASSUME ClusterAssumption, TypeOK, ConfigInv, LabelStays, [Next]_vars
  PROVE  LabelStays'
<1> USE DEF TypeOK, ClusterTypeOK
<1>1. ASSUME NEW n \in Names, Env(n)
      PROVE  LabelStays'
  BY <1>1, EnvLabel
<1>2. ASSUME NEW n \in Names, SyncKM(n) \/ SyncConfigMap(n) \/ SyncPod(n)
      PROVE  LabelStays'
  BY <1>2 DEF SyncKM, SyncConfigMap, SyncPod, Enqueue, LabelStays
<1>3. ASSUME NEW n \in Names, FetchInstance(n)
      PROVE  LabelStays'
  BY <1>3 DEF FetchInstance, Branch, cacheVars, LabelStays
<1>4. CASE Reconcile
  BY <1>4, ReconcileLabel
<1>5. CASE Restart \/ ApiError
  BY <1>5 DEF Restart, ApiError, Fail, Leave, KMUnchanged, cacheVars, LabelStays
<1>6. CASE UNCHANGED vars \/ \E n \in Names : ReconcileEvent(n)
  BY <1>6 DEF vars, ReconcileEvent, clusterVars, cacheVars, workerVars, LabelStays
<1> QED
  BY <1>1, <1>2, <1>3, <1>4, <1>5, <1>6 DEF Next

\* A KernelManager that is there has the last number of its name.
LEMMA CullSpares ==
  ASSUME TypeOK, InstanceHeld, ConfigInv, LabelStays, NEW n \in Names,
         pc = "cull", req = n, kms[n].uid # 0
  PROVE  kms[n].idle \/ kms[n].uid > inst.uid
  BY Numbers DEF InstanceHeld, ConfigInv, InNumberOrder, MadeBeforeInstance, LabelStays

\* What is culled was labelled, or came after the one that was: no error,
\* restart, stale copy or status write takes a label for another's.
THEOREM CullsSpare == Spec => CullSparesUnlabelled
<1>1. Init => WakeInv /\ ConfigInv /\ LabelStays
  BY ClusterAssumption, InitWake, InitConfig, Zeros DEF Init, LabelStays
<1>2. TypeOK /\ WakeInv /\ ConfigInv /\ LabelStays /\ [Next]_vars
        => WakeInv' /\ ConfigInv' /\ LabelStays'
  BY ClusterAssumption, ControllerAssumption, StepWake, StepConfig, StepLabel
<1>3. TypeOK /\ WakeInv /\ ConfigInv /\ LabelStays =>
        \A n \in Names : pc = "cull" /\ req = n /\ kms[n] # NoKM
                          => kms[n].idle \/ kms[n].uid > inst.uid
  BY CullSpares DEF WakeInv, AbsentIsZero
<1>4. TypeOK /\ WakeInv /\ ConfigInv /\ LabelStays =>
        [\A n \in Names :
           pc = "cull" /\ req = n /\ kms[n] # NoKM /\ kms'[n] = NoKM /\ pc' = "idle"
             => kms[n].idle \/ kms[n].uid > inst.uid]_vars
  BY <1>3
<1> QED
  BY <1>1, <1>2, <1>4, TypeCorrect, PTL DEF Spec, CullSparesUnlabelled

=============================================================================
