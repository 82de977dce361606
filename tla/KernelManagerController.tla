----------------------- MODULE KernelManagerController -----------------------
(***************************************************************************)
(* controller/: the operator that gives every KernelManager a ConfigMap    *)
(* with its connection file and a Pod running its kernel, mirrors the      *)
(* Pod's status and deletes KernelManagers labelled idle.                  *)
(*                                                                         *)
(* One worker takes names from a work queue.  It reads from informer       *)
(* caches that trail the store and writes to the store, where an Update    *)
(* needs the current resourceVersion.  Reconcile is cut at each of its     *)
(* writes, so the cluster and the informers move between them.             *)
(*                                                                         *)
(* The informer delivers the latest object at once: a cache that shows an  *)
(* object passing through several versions differs from one that has not   *)
(* moved yet only in which stale version it holds.                         *)
(***************************************************************************)
EXTENDS Cluster

CONSTANTS
  EventNamed,    \* names that are also the name of an Event object
  NoContainers   \* names whose pod template has no container

ASSUME ControllerAssumption ==
  /\ EventNamed \subseteq Names
  /\ NoContainers \subseteq Names
  /\ {"informer", "reconciler"} \subseteq Clients

VARIABLES
  kmCache, cmCache, podCache,  \* what r.Get returns
  queue,      \* names waiting for the worker
  pc,         \* the part of Reconcile the worker runs next
  req,        \* the name it reconciles, or reconciled last
  inst,       \* instance
  foundPod    \* foundPod

cacheVars == <<kmCache, cmCache, podCache>>
workerVars == <<queue, pc, req, inst, foundPod>>
vars == <<clusterVars, cacheVars, workerVars>>

-----------------------------------------------------------------------------
(* What a reconciliation writes.                                           *)

NewConfigMap == [owner |-> inst.uid, data |-> inst.uid, ann |-> inst.ann]

\* Bug: no controller reference is set on the pod.
NewPodUnowned == [owner |-> 0, phase |-> "Pending", mounted |-> 0]

NewPod == [owner |-> inst.uid, phase |-> "Pending", mounted |-> 0]

\* Bug: the reason of a failed pod for its phase, as kubectl shows it.
MirrorReason(p) == [phase |-> IF p.phase = "Failed" THEN "Evicted" ELSE p.phase,
                    ip |-> IF p.phase \in {"Running", "Failed"} THEN p.owner ELSE 0]

\* A pod gets its address when it runs.
Mirror(p) == [phase |-> p.phase,
              ip |-> IF p.phase \in {"Running", "Failed"} THEN p.owner ELSE 0]

\* Bug: the data of an existing ConfigMap is not compared.
ConfigMapDiffersInAnnotation(found) == found.ann # 0 /\ found.ann # inst.ann

\* An annotation the found ConfigMap does not have yet is no difference.
ConfigMapDiffers(found) ==
  \/ found.data # inst.uid
  \/ found.ann # 0 /\ found.ann # inst.ann

\* OwnerReferences are not among the copied fields.
CopyConfigMapFields(found) == [found EXCEPT !.data = inst.uid, !.ann = inst.ann]

-----------------------------------------------------------------------------
(* How a reconciliation goes on.                                           *)

Proceed(next) == pc' = next /\ UNCHANGED <<queue, req, inst, foundPod>>

Leave == pc' = "idle" /\ inst' = NoKM /\ foundPod' = NoPod /\ UNCHANGED req

Done == Leave /\ UNCHANGED queue

\* Bug: the error is swallowed.
FailQuietly == Leave /\ UNCHANGED queue

\* Reconcile returns an error: the name is queued again.
Fail == Leave /\ queue' = queue \cup {req}

\* The answer to a write that was made may get lost.
Answered(then) ==
  \/ then /\ UNCHANGED faults
  \/ faults > 0 /\ faults' = faults - 1 /\ Fail

-----------------------------------------------------------------------------
(* Reconcile.                                                              *)

\* An Event is about whatever object; the error of looking that up queues the
\* name again.
KmNameFromInvolvedObject(n) == queue' \in {queue, queue \ {n}}

\* The request also names an Event: nothing is written.
ReconcileEvent(n) ==
  /\ pc = "idle" /\ n \in queue /\ n \in EventNamed
  /\ KmNameFromInvolvedObject(n)
  /\ UNCHANGED <<clusterVars, cacheVars, pc, req, inst, foundPod>>

\* Bug: the idle label is not looked at.
BranchIgnoringLabel(n) == IF kmCache[n].uid = 0 THEN "idle"
                          ELSE IF n \in WithConn THEN "configMap" ELSE "pod"

\* The part of Reconcile an instance goes to.
Branch(n) == IF kmCache[n].uid = 0 THEN "idle"
             ELSE IF kmCache[n].idle THEN "cull"
             ELSE IF n \in WithConn THEN "configMap" ELSE "pod"

FetchInstance(n) ==
  /\ pc = "idle" /\ n \in queue /\ n \notin EventNamed
  /\ queue' = queue \ {n}
  /\ req' = n
  /\ inst' = kmCache[n]
  /\ pc' = Branch(n)
  /\ fresh' = [fresh EXCEPT ![n] = IF "informer" \in @ THEN @ \cup {"reconciler"}
                                                      ELSE @ \ {"reconciler"}]
  /\ UNCHANGED <<kms, cms, pods, born, cmFresh, podFresh, faults, cacheVars, foundPod>>

\* Delete gives no uid: it deletes whatever now has the name.
Cull ==
  /\ pc = "cull"
  /\ IF kms[req].uid = 0
     THEN Fail /\ KMUnchanged /\ UNCHANGED faults
     ELSE WriteKM(req, NoKM) /\ Answered(Done)
  /\ ConfigMapUnchanged /\ PodUnchanged
  /\ UNCHANGED <<born, cacheVars>>

CreateConfigMap ==
  /\ cmCache[req] = NoConfigMap
  /\ IF cms[req] = NoConfigMap
     THEN WriteConfigMap(req, NewConfigMap) /\ Answered(Proceed("pod"))
     ELSE Fail /\ ConfigMapUnchanged /\ UNCHANGED faults

UpdateConfigMap ==
  /\ cmCache[req] # NoConfigMap
  /\ ConfigMapDiffers(cmCache[req])
  /\ IF req \in cmFresh
     THEN WriteConfigMap(req, CopyConfigMapFields(cmCache[req])) /\ Answered(Proceed("pod"))
     ELSE Fail /\ ConfigMapUnchanged /\ UNCHANGED faults

KeepConfigMap ==
  /\ cmCache[req] # NoConfigMap
  /\ ~ConfigMapDiffers(cmCache[req])
  /\ Proceed("pod") /\ ConfigMapUnchanged /\ UNCHANGED faults

EnsureConfigMap ==
  /\ pc = "configMap"
  /\ CreateConfigMap \/ UpdateConfigMap \/ KeepConfigMap
  /\ KMUnchanged /\ PodUnchanged
  /\ UNCHANGED <<born, cacheVars>>

\* Bug: the pod is applied, over one the cache does not show yet.
ApplyPod ==
  /\ req \notin NoContainers
  /\ podCache[req] = NoPod
  /\ WritePod(req, NewPod) /\ Answered(Proceed("status"))

\* foundPod stays the zero Pod when the pod was just created.
CreatePod ==
  /\ req \notin NoContainers
  /\ podCache[req] = NoPod
  /\ IF pods[req] = NoPod
     THEN WritePod(req, NewPod) /\ Answered(Proceed("status"))
     ELSE Fail /\ PodUnchanged /\ UNCHANGED faults

\* Whoever owns the pod that is found.
FindPod ==
  /\ req \notin NoContainers
  /\ podCache[req] # NoPod
  /\ foundPod' = podCache[req]
  /\ pc' = "status"
  /\ PodUnchanged
  /\ UNCHANGED <<faults, queue, req, inst>>

\* Bug: the worker does not survive the panic.
PanicEndsWorker ==
  /\ req \in NoContainers
  /\ Proceed("dead") /\ PodUnchanged /\ UNCHANGED faults

\* generatePod takes the first container: the panic becomes an error.
Panic ==
  /\ req \in NoContainers
  /\ Fail /\ PodUnchanged /\ UNCHANGED faults

EnsurePod ==
  /\ pc = "pod"
  /\ Panic \/ CreatePod \/ FindPod
  /\ KMUnchanged /\ ConfigMapUnchanged
  /\ UNCHANGED <<born, cacheVars>>

\* Bug: the whole instance is written, over what was changed since it was read.
UpdateInstance ==
  /\ pc = "status"
  /\ IF kms[req].uid = inst.uid
     THEN WriteKM(req, [inst EXCEPT !.status = Mirror(foundPod)]) /\ Answered(Done)
     ELSE Fail /\ KMUnchanged /\ UNCHANGED faults
  /\ ConfigMapUnchanged /\ PodUnchanged
  /\ UNCHANGED <<born, cacheVars>>

\* The probe time of a mirrored condition is the time of the reconciliation,
\* so a status may differ from the last one although the pod did not change.
UpdateStatus ==
  /\ pc = "status"
  /\ IF "reconciler" \in fresh[req]
     THEN \/ /\ kms[req].status # Mirror(foundPod) \/ foundPod # NoPod
             /\ WriteKM(req, [kms[req] EXCEPT !.status = Mirror(foundPod)])
             /\ Answered(Done)
          \/ /\ kms[req].status = Mirror(foundPod)
             /\ KMUnchanged /\ Answered(Done)
     ELSE Fail /\ KMUnchanged /\ UNCHANGED faults
  /\ ConfigMapUnchanged /\ PodUnchanged
  /\ UNCHANGED <<born, cacheVars>>

\* A call fails and has no effect.
ApiError ==
  /\ pc # "idle"
  /\ faults > 0
  /\ faults' = faults - 1
  /\ Fail
  /\ KMUnchanged /\ ConfigMapUnchanged /\ PodUnchanged
  /\ UNCHANGED <<born, cacheVars>>

-----------------------------------------------------------------------------
(* SetupWithManager: a change of a KernelManager, of a ConfigMap or of a   *)
(* Pod it owns queues the KernelManager's name.                            *)

Enqueue(n) == queue' = queue \cup {n} /\ UNCHANGED <<pc, req, inst, foundPod>>

SyncKM(n) ==
  /\ "informer" \notin fresh[n]
  /\ kmCache' = [kmCache EXCEPT ![n] = kms[n]]
  /\ fresh' = [fresh EXCEPT ![n] = @ \cup {"informer"}]
  /\ Enqueue(n)
  /\ UNCHANGED <<kms, cms, pods, born, cmFresh, podFresh, faults, cmCache, podCache>>

\* Bug: the controller does not watch the ConfigMaps it owns.
SyncConfigMapUnwatched(n) ==
  /\ n \notin cmFresh
  /\ cmCache' = [cmCache EXCEPT ![n] = cms[n]]
  /\ cmFresh' = cmFresh \cup {n}
  /\ UNCHANGED <<kms, cms, pods, born, fresh, podFresh, faults, kmCache, podCache, workerVars>>

SyncConfigMap(n) ==
  /\ n \notin cmFresh
  /\ cmCache' = [cmCache EXCEPT ![n] = cms[n]]
  /\ cmFresh' = cmFresh \cup {n}
  /\ Enqueue(n)
  /\ UNCHANGED <<kms, cms, pods, born, fresh, podFresh, faults, kmCache, podCache>>

\* Bug: the controller does not watch the pods it owns.
SyncPodUnwatched(n) ==
  /\ n \notin podFresh
  /\ podCache' = [podCache EXCEPT ![n] = pods[n]]
  /\ podFresh' = podFresh \cup {n}
  /\ UNCHANGED <<kms, cms, pods, born, fresh, cmFresh, faults, kmCache, cmCache, workerVars>>

SyncPod(n) ==
  /\ n \notin podFresh
  /\ podCache' = [podCache EXCEPT ![n] = pods[n]]
  /\ podFresh' = podFresh \cup {n}
  /\ Enqueue(n)
  /\ UNCHANGED <<kms, cms, pods, born, fresh, cmFresh, faults, kmCache, cmCache>>

\* The process restarts, or another replica becomes leader: it lists all
\* objects, and each of them queues its name.
Listed == {n \in Names : kms[n] # NoKM \/ cms[n] # NoConfigMap \/ pods[n] # NoPod}

Restart ==
  /\ faults > 0
  /\ faults' = faults - 1
  /\ kmCache' = kms /\ cmCache' = cms /\ podCache' = pods
  /\ fresh' = [n \in Names |-> fresh[n] \cup {"informer"}]
  /\ cmFresh' = Names /\ podFresh' = Names
  /\ queue' = Listed
  /\ Leave
  /\ UNCHANGED <<kms, cms, pods, born>>

-----------------------------------------------------------------------------
Init ==
  /\ ClusterInit
  /\ kmCache = kms /\ cmCache = cms /\ podCache = pods
  /\ queue = {}
  /\ pc = "idle"
  /\ req \in Names
  /\ inst = NoKM
  /\ foundPod = NoPod

Env(n) == Environment(n) /\ UNCHANGED <<cacheVars, workerVars>>

Reconcile == Cull \/ EnsureConfigMap \/ EnsurePod \/ UpdateStatus

Next ==
  \/ \E n \in Names : \/ Env(n)
                      \/ SyncKM(n) \/ SyncConfigMap(n) \/ SyncPod(n)
                      \/ ReconcileEvent(n) \/ FetchInstance(n)
  \/ Reconcile
  \/ ApiError
  \/ Restart

Spec == Init /\ [][Next]_vars

\* The worker runs, informers deliver, the queue is first in first out, the
\* garbage collector and the kubelet do their work.
Fairness ==
  /\ WF_vars(Reconcile)
  /\ \A n \in Names :
       /\ SF_vars(FetchInstance(n))
       /\ WF_vars(SyncKM(n)) /\ WF_vars(SyncConfigMap(n)) /\ WF_vars(SyncPod(n))
       /\ WF_vars(CollectPod(n) /\ UNCHANGED <<cacheVars, workerVars>>)
       /\ WF_vars(CollectConfigMap(n) /\ UNCHANGED <<cacheVars, workerVars>>)
       /\ WF_vars(StartPod(n) /\ UNCHANGED <<cacheVars, workerVars>>)

FairSpec == Spec /\ Fairness

-----------------------------------------------------------------------------
(* Properties.                                                             *)

\* Every variable holds a value of its type.
TypeOK ==
  /\ ClusterTypeOK
  /\ kmCache \in [Names -> KM]
  /\ cmCache \in [Names -> ConfigMap]
  /\ podCache \in [Names -> Pod]
  /\ queue \subseteq Names
  /\ pc \in {"idle", "cull", "configMap", "pod", "status"}
  /\ req \in Names
  /\ inst \in KM
  /\ foundPod \in Pod

\* Nothing will make the controller look at n again.
Settled(n) ==
  /\ n \notin queue
  /\ ~(pc # "idle" /\ req = n)
  /\ "informer" \in fresh[n] /\ n \in cmFresh /\ n \in podFresh

\* What Reconcile is to bring about for n.
Converged(n) ==
  \/ kms[n] = NoKM
  \/ /\ ~kms[n].idle
     /\ pods[n] # NoPod
     /\ n \in WithConn => cms[n].data = kms[n].uid
     /\ kms[n].status = Mirror(pods[n])

\* No wakeup is lost: when nothing is queued, running or undelivered for a
\* KernelManager, it has its pod, its own connection config and the status
\* of its pod, and is not waiting to be culled, whatever errors, conflicts
\* and restarts came before.
NoLostWakeup == \A n \in Names \ EventNamed : Settled(n) => Converged(n)

\* No kernel starts with the connection file of an earlier KernelManager of
\* its name: the ConfigMap is brought up to date before the pod is made.
NeverStaleConfig ==
  \A n \in WithConn : pods[n].mounted # 0 => pods[n].mounted >= pods[n].owner

\* The name is not hidden by an Event, and a pod can be made for it.
Reconciled == Names \ (EventNamed \cup NoContainers)

\* A KernelManager labelled idle is deleted.
IdleIsCulled == \A n \in Names \ EventNamed : kms[n].idle ~> ~kms[n].idle

\* A KernelManager that stays gets a pod and connection config of its own,
\* also when it reuses the name of one whose objects are still there.
EveryKMIsServed ==
  \A n \in Reconciled :
    <>[](kms[n].uid # 0 /\ ~kms[n].idle) =>
      []<>(/\ pods[n].owner = kms[n].uid
           /\ n \in WithConn => cms[n].owner = kms[n].uid /\ cms[n].data = kms[n].uid)

\* What a pod ends up as, its KernelManager's status ends up saying.
StatusIsMirrored ==
  \A n \in Reconciled :
    <>[](kms[n].uid # 0 /\ ~kms[n].idle /\ pods[n].owner = kms[n].uid
           /\ pods[n].phase = "Running")
      => <>[](kms[n].status = [phase |-> "Running", ip |-> kms[n].uid])

\* What the controller made does not outlive its KernelManager: every object
\* has the owner whose deletion collects it, and a deleted instance is not
\* worked from for ever.
NoOrphans ==
  \A n \in Names :
    <>[](/\ kms[n] = NoKM => pods[n] = NoPod /\ cms[n] = NoConfigMap
         /\ pods[n].owner \in {0, kms[n].uid})

\* How far the controller has brought a KernelManager: the pod of another
\* incarnation is no pod of its own.
StageOf(km, pod) ==
  IF km.uid = 0 THEN "absent"
  ELSE IF pod.owner # km.uid THEN "requested"
  ELSE CASE pod.phase = "Running" -> "running"
         [] pod.phase = "Failed"  -> "ended"
         [] OTHER                 -> "starting"

life == [n \in Names |-> StageOf(kms[n], pods[n])]

Lifecycle == INSTANCE KernelLifecycle WITH Promised <- Reconciled

\* The controller implements KernelLifecycle, caches, conflicts, lost answers
\* and restarts included: no step gives a KernelManager a second pod, takes
\* its pod's phase back or ends its life but by deleting it.
FollowsLifecycle == Lifecycle!Safety

\* Nor is a KernelManager left without a pod, or with one that cannot start.
ProgressesInLife == Lifecycle!Progress

\* What a cull deletes carries the idle label, or was created after the labelled
\* KernelManager it was decided for: a stale cache may cost a successor of the
\* name its life, and never makes the controller cull one whose label was not
\* seen, or lose a label on the way.
CullSparesUnlabelled ==
  [][\A n \in Names :
       pc = "cull" /\ req = n /\ kms[n] # NoKM /\ kms'[n] = NoKM /\ pc' = "idle"
         => kms[n].idle \/ kms[n].uid > inst.uid]_vars

\* The comment over the cull: "Cull idle KernelManagers if kernel manager
\* label is present".
CullOnlyLabelled ==
  [][\A n \in Names :
       pc = "cull" /\ req = n /\ kms[n] # NoKM /\ kms'[n] = NoKM /\ pc' = "idle"
         => kms[n].idle]_vars

=============================================================================
