-------------------------- MODULE KernelSystemProofs --------------------------
(***************************************************************************)
(* The controller and the sidecar together implement the controller with   *)
(* the cluster it expects: the sidecar is one of the clients that          *)
(* Environment allows for, for any timeouts, failures and interleaving.    *)
(***************************************************************************)
EXTENDS KernelSystem, KernelManagerControllerProofs

Assumptions == ClusterAssumption /\ ControllerAssumption /\ SystemAssumption

\* What a thread of the sidecar is about to change is the current object, or
\* the PUT will be refused.
SidecarCopies ==
  /\ actCopy \in KM /\ cullCopy \in KM
  /\ actPc = "put" /\ "activity" \in fresh[Self] => actCopy = kms[Self]
  /\ cullPc = "put" /\ "culler" \in fresh[Self] => cullCopy = kms[Self]

InHand == IF actPc \in {"get", "put"} THEN 1 ELSE 0

\* Each annotation, each message and the one in hand is of another execution:
\* without it the sidecar could annotate more than the cluster bounds.
ActivityCounted ==
  /\ cells \in 0..MaxActs /\ iopub \in Nat
  /\ kms[Self].ann + iopub + InHand <= cells

SystemInv == TypeOK /\ SidecarCopies /\ ActivityCounted

LEMMA Facts ==
  ASSUME Assumptions, SystemInv
  PROVE  /\ Self \in Names /\ Names = {Self}
         /\ kms \in [Names -> KM] /\ fresh \in [Names -> SUBSET Clients]
         /\ kms[Self] \in KM /\ kms[Self].ann \in Nat
         /\ cells \in Nat /\ iopub \in Nat /\ cells <= MaxActs /\ MaxActs \in Nat
         /\ actCopy \in KM /\ cullCopy \in KM
         /\ {"activity", "culler"} \subseteq Clients
<1>1. Self \in Names /\ Names = {Self} /\ {"activity", "culler"} \subseteq Clients
  BY DEF Assumptions, SystemAssumption
<1>2. kms \in [Names -> KM] /\ fresh \in [Names -> SUBSET Clients]
  BY DEF SystemInv, TypeOK, ClusterTypeOK
<1>3. kms[Self] \in KM /\ kms[Self].ann \in Nat
  BY <1>1, <1>2, KMFields
<1>4. cells \in 0..MaxActs /\ iopub \in Nat /\ MaxActs \in Nat
  BY DEF Assumptions, ClusterAssumption, SystemInv, ActivityCounted
<1>5. actCopy \in KM /\ cullCopy \in KM
  BY DEF SystemInv, SidecarCopies
<1> QED
  BY <1>1, <1>2, <1>3, <1>4, <1>5

-----------------------------------------------------------------------------
(* The controller's own copies.                                            *)

\* A write outdates them.
LEMMA OwnOutdated ==
  ASSUME fresh \in [Names -> SUBSET Clients],
         NEW n \in Names, fresh' = [fresh EXCEPT ![n] = {}]
  PROVE  ownFresh' = [ownFresh EXCEPT ![n] = {}]
  BY DEF ownFresh

\* What the sidecar reads makes none of them current.
LEMMA OwnUntouched ==
  ASSUME fresh \in [Names -> SUBSET Clients], NEW n \in Names, NEW client,
         client \notin OwnCopies,
         fresh' = [fresh EXCEPT ![n] = @ \cup {client}]
  PROVE  UNCHANGED ownFresh
  BY DEF ownFresh

LEMMA OwnUnchanged ==
  ASSUME UNCHANGED fresh
  PROVE  UNCHANGED ownFresh
  BY DEF ownFresh

LEMMA OwnCopy ==
  /\ "informer" \in OwnCopies /\ "reconciler" \in OwnCopies
  /\ "activity" \notin OwnCopies /\ "culler" \notin OwnCopies
  /\ \A n \in Names : /\ "informer" \in ownFresh[n] <=> "informer" \in fresh[n]
                      /\ "reconciler" \in ownFresh[n] <=> "reconciler" \in fresh[n]
  BY DEF OwnCopies, ownFresh

-----------------------------------------------------------------------------
(* What is a step of the cluster or the controller here is one there.      *)

\* What users, the kubelet and the garbage collector do.
LEMMA EnvironmentCarried ==
  ASSUME TypeOK, NEW n \in Names, Env(n)
  PROVE  Controller!Env(n)
<1>1. fresh \in [Names -> SUBSET Clients]
  BY DEF TypeOK, ClusterTypeOK
<1> USE DEF Env, Controller!Env, Controller!Environment, cacheVars, workerVars,
            Controller!cacheVars, Controller!workerVars,
            WriteKM, WriteConfigMap, WritePod,
            KMUnchanged, ConfigMapUnchanged, PodUnchanged,
            Controller!WriteKM, Controller!WriteConfigMap, Controller!WritePod,
            Controller!KMUnchanged, Controller!ConfigMapUnchanged, Controller!PodUnchanged
<1>2. CASE CreateKM(n)
  BY <1>1, <1>2, OwnOutdated
  DEF CreateKM, Controller!CreateKM, NewKM, Controller!NewKM, NoStatus, Controller!NoStatus
<1>3. CASE DeleteKM(n)
  BY <1>1, <1>3, OwnOutdated
  DEF DeleteKM, Controller!DeleteKM, NoKM, Controller!NoKM,
      NewKM, Controller!NewKM, NoStatus, Controller!NoStatus
<1>4. CASE AnnotateActivity(n)
  BY <1>1, <1>4, OwnOutdated
  DEF AnnotateActivity, Controller!AnnotateActivity, MonitorRuns, Controller!MonitorRuns,
      HasMonitor, Controller!HasMonitor
<1>5. CASE LabelIdle(n)
  BY <1>1, <1>5, OwnOutdated
  DEF LabelIdle, Controller!LabelIdle, MonitorRuns, Controller!MonitorRuns,
      HasMonitor, Controller!HasMonitor
<1>6. CASE StartPod(n)
  BY <1>6, OwnUnchanged DEF StartPod, Controller!StartPod
<1>7. CASE StopPod(n)
  BY <1>7, OwnUnchanged DEF StopPod, Controller!StopPod
<1>8. CASE EvictPod(n)
  BY <1>8, OwnUnchanged DEF EvictPod, Controller!EvictPod, NoPod, Controller!NoPod
<1>9. CASE CollectPod(n)
  BY <1>9, OwnUnchanged DEF CollectPod, Controller!CollectPod, NoPod, Controller!NoPod
<1>10. CASE CollectConfigMap(n)
  BY <1>10, OwnUnchanged
  DEF CollectConfigMap, Controller!CollectConfigMap, NoConfigMap, Controller!NoConfigMap
<1> QED
  BY <1>2, <1>3, <1>4, <1>5, <1>6, <1>7, <1>8, <1>9, <1>10 DEF Environment

\* What the informer delivers, and what the worker takes from its queue.
LEMMA InputCarried ==
  ASSUME TypeOK, NEW n \in Names,
         SyncKM(n) \/ SyncConfigMap(n) \/ SyncPod(n) \/ FetchInstance(n)
  PROVE  \/ Controller!SyncKM(n) \/ Controller!SyncConfigMap(n) \/ Controller!SyncPod(n)
         \/ Controller!FetchInstance(n)
<1>1. fresh \in [Names -> SUBSET Clients]
  BY DEF TypeOK, ClusterTypeOK
<1> USE DEF Enqueue, Controller!Enqueue
<1>2. CASE SyncKM(n)
  <2>1. ownFresh' = [ownFresh EXCEPT ![n] = @ \cup {"informer"}]
    BY <1>1, <1>2, OwnCopy DEF SyncKM, ownFresh
  <2> QED
    BY <1>2, <2>1, OwnCopy DEF SyncKM, Controller!SyncKM
<1>3. CASE SyncConfigMap(n)
  BY <1>3, OwnUnchanged DEF SyncConfigMap, Controller!SyncConfigMap
<1>4. CASE SyncPod(n)
  BY <1>4, OwnUnchanged DEF SyncPod, Controller!SyncPod
<1>5. CASE FetchInstance(n)
  <2>1. ownFresh' = [ownFresh EXCEPT ![n] = IF "informer" \in @ THEN @ \cup {"reconciler"}
                                                               ELSE @ \ {"reconciler"}]
    BY <1>1, <1>5, OwnCopy DEF FetchInstance, ownFresh
  <2> QED
    BY <1>5, <2>1
    DEF FetchInstance, Controller!FetchInstance, Branch, Controller!Branch,
        cacheVars, Controller!cacheVars
<1> QED
  BY <1>2, <1>3, <1>4, <1>5

\* What the worker does with an instance.
LEMMA ReconcileCarried ==
  ASSUME TypeOK, Reconcile
  PROVE  Controller!Reconcile
<1>1. fresh \in [Names -> SUBSET Clients] /\ req \in Names
  BY DEF TypeOK, ClusterTypeOK
<1>2. NoKM = Controller!NoKM /\ NoPod = Controller!NoPod /\ NoConfigMap = Controller!NoConfigMap
  BY DEF NoKM, NewKM, NoStatus, NoPod, NoConfigMap, Controller!NoKM, Controller!NewKM,
         Controller!NoStatus, Controller!NoPod, Controller!NoConfigMap
<1>3. /\ Fail <=> Controller!Fail
      /\ Done <=> Controller!Done
      /\ \A next : Proceed(next) <=> Controller!Proceed(next)
  BY <1>2 DEF Fail, Done, Leave, Proceed, Controller!Fail, Controller!Done,
              Controller!Leave, Controller!Proceed
<1>4. /\ KMUnchanged => Controller!KMUnchanged
      /\ ConfigMapUnchanged <=> Controller!ConfigMapUnchanged
      /\ PodUnchanged <=> Controller!PodUnchanged
      /\ UNCHANGED cacheVars <=> UNCHANGED Controller!cacheVars
  BY OwnUnchanged
  DEF KMUnchanged, ConfigMapUnchanged, PodUnchanged, cacheVars, Controller!KMUnchanged,
      Controller!ConfigMapUnchanged, Controller!PodUnchanged, Controller!cacheVars
<1>5. /\ \A o : WriteKM(req, o) => Controller!WriteKM(req, o)
      /\ \A o : WriteConfigMap(req, o) => Controller!WriteConfigMap(req, o)
      /\ \A o : WritePod(req, o) => Controller!WritePod(req, o)
  BY <1>1, OwnOutdated
  DEF WriteKM, WriteConfigMap, WritePod, Controller!WriteKM, Controller!WriteConfigMap,
      Controller!WritePod
<1>6. CASE Cull
  BY <1>2, <1>3, <1>4, <1>5, <1>6
  DEF Cull, Answered, Controller!Cull, Controller!Answered, Controller!Reconcile
<1>7. CASE EnsureConfigMap
  <2>1. CreateConfigMap => Controller!CreateConfigMap
    BY <1>2, <1>3, <1>4, <1>5
    DEF CreateConfigMap, Answered, NewConfigMap,
        Controller!CreateConfigMap, Controller!Answered, Controller!NewConfigMap
  <2>2. UpdateConfigMap => Controller!UpdateConfigMap
    BY <1>2, <1>3, <1>4, <1>5
    DEF UpdateConfigMap, Answered, ConfigMapDiffers, CopyConfigMapFields,
        Controller!UpdateConfigMap, Controller!Answered,
        Controller!ConfigMapDiffers, Controller!CopyConfigMapFields
  <2>3. KeepConfigMap => Controller!KeepConfigMap
    BY <1>2, <1>3, <1>4
    DEF KeepConfigMap, ConfigMapDiffers, Controller!KeepConfigMap, Controller!ConfigMapDiffers
  <2> QED
    BY <1>4, <1>7, <2>1, <2>2, <2>3
    DEF EnsureConfigMap, Controller!EnsureConfigMap, Controller!Reconcile
<1>8. CASE EnsurePod
  <2>1. CreatePod => Controller!CreatePod
    BY <1>2, <1>3, <1>4, <1>5
    DEF CreatePod, Answered, NewPod, Controller!CreatePod, Controller!Answered,
        Controller!NewPod
  <2>2. FindPod => Controller!FindPod
    BY <1>2, <1>4 DEF FindPod, Controller!FindPod
  <2>3. Panic => Controller!Panic
    BY <1>3, <1>4 DEF Panic, Controller!Panic
  <2> QED
    BY <1>4, <1>8, <2>1, <2>2, <2>3
    DEF EnsurePod, Controller!EnsurePod, Controller!Reconcile
<1>9. CASE UpdateStatus
  <2>1. "reconciler" \in ownFresh[req] <=> "reconciler" \in fresh[req]
    BY <1>1, OwnCopy
  <2>2. Mirror(foundPod) = Controller!Mirror(foundPod)
    BY DEF Mirror, Controller!Mirror
  <2> QED
    BY <1>2, <1>3, <1>4, <1>5, <1>9, <2>1, <2>2
    DEF UpdateStatus, Answered, Controller!UpdateStatus, Controller!Answered,
        Controller!Reconcile
<1> QED
  BY <1>6, <1>7, <1>8, <1>9 DEF Reconcile

\* A failed call and a restart of the controller's process.
LEMMA FaultCarried ==
  ASSUME TypeOK, ApiError \/ Restart
  PROVE  Controller!ApiError \/ Controller!Restart
<1> USE DEF Fail, Leave, NoKM, NewKM, NoStatus, NoPod, NoConfigMap,
            Controller!Fail, Controller!Leave, Controller!NoKM, Controller!NewKM,
            Controller!NoStatus, Controller!NoPod, Controller!NoConfigMap
<1>1. CASE ApiError
  BY <1>1, OwnUnchanged
  DEF ApiError, KMUnchanged, ConfigMapUnchanged, PodUnchanged, cacheVars,
      Controller!ApiError, Controller!KMUnchanged, Controller!ConfigMapUnchanged,
      Controller!PodUnchanged, Controller!cacheVars
<1>2. CASE Restart
  <2>1. ownFresh' = [n \in Names |-> ownFresh[n] \cup {"informer"}]
    BY <1>2, OwnCopy DEF Restart, ownFresh
  <2> QED
    BY <1>2, <2>1 DEF Restart, Listed, Controller!Restart, Controller!Listed
<1> QED
  BY <1>1, <1>2

-----------------------------------------------------------------------------
(* The sidecar.                                                            *)

\* A step that leaves the sidecar alone, and where it writes its KernelManager
\* adds no annotation.
LEMMA AsideInv ==
  ASSUME Assumptions, SystemInv, TypeOK',
         UNCHANGED <<cells, iopub, actPc, actCopy, cullPc, cullCopy>>,
         \/ kms'[Self] = kms[Self]
            /\ \A c \in {"activity", "culler"} : c \in fresh'[Self] => c \in fresh[Self]
         \/ fresh'[Self] = {} /\ kms'[Self].ann \in {0, kms[Self].ann}
  PROVE  SystemInv'
<1>1. SidecarCopies'
  BY DEF SystemInv, SidecarCopies
<1>2. ActivityCounted'
  <2>1. kms'[Self].ann \in {0, kms[Self].ann} /\ kms[Self].ann \in Nat /\ cells \in Nat
    BY Facts
  <2> QED
    BY <2>1 DEF SystemInv, ActivityCounted, InHand
<1> QED
  BY <1>1, <1>2 DEF SystemInv

\* What the controller's clients and the cluster do to the KernelManager.
LEMMA WrittenByOthers ==
  ASSUME Assumptions, SystemInv,
         \/ CreateKM(Self) \/ DeleteKM(Self) \/ StopPod(Self) \/ EvictPod(Self)
         \/ CollectPod(Self) \/ CollectConfigMap(Self)
         \/ SyncKM(Self) \/ SyncConfigMap(Self) \/ SyncPod(Self) \/ FetchInstance(Self)
         \/ Reconcile \/ ApiError \/ Restart
  PROVE  \/ kms'[Self] = kms[Self]
            /\ \A c \in {"activity", "culler"} : c \in fresh'[Self] => c \in fresh[Self]
         \/ fresh'[Self] = {} /\ kms'[Self].ann \in {0, kms[Self].ann}
<1>1. /\ Self \in Names /\ Names = {Self}
      /\ kms \in [Names -> KM] /\ fresh \in [Names -> SUBSET Clients]
      /\ kms[Self] \in KM
  BY Facts
<1>2. req = Self
  BY <1>1 DEF SystemInv, TypeOK
<1>3. /\ NoKM.ann = 0 /\ NewKM(born[Self] + 1).ann = 0
      /\ [kms[Self] EXCEPT !.status = Mirror(foundPod)].ann = kms[Self].ann
  BY <1>1 DEF NoKM, NewKM, KM
<1> USE <1>1, <1>2, <1>3 DEF KMUnchanged, WriteKM
<1>4. CASE CreateKM(Self) \/ DeleteKM(Self)
  BY <1>4 DEF CreateKM, DeleteKM
<1>5. CASE StopPod(Self) \/ EvictPod(Self) \/ CollectPod(Self) \/ CollectConfigMap(Self)
  BY <1>5 DEF StopPod, EvictPod, CollectPod, CollectConfigMap
<1>6. CASE SyncKM(Self) \/ SyncConfigMap(Self) \/ SyncPod(Self) \/ FetchInstance(Self)
  BY <1>6 DEF SyncKM, SyncConfigMap, SyncPod, FetchInstance
<1>7. CASE Reconcile
  BY <1>7 DEF Reconcile, Cull, EnsureConfigMap, EnsurePod, UpdateStatus
<1>8. CASE ApiError \/ Restart
  BY <1>8 DEF ApiError, Restart
<1> QED
  BY <1>4, <1>5, <1>6, <1>7, <1>8

\* Steps in which the sidecar has no part.
LEMMA OthersInv ==
  ASSUME Assumptions, SystemInv, ClusterStep \/ ControllerStep
  PROVE  SystemInv'
<1>1. Next
  <2>1. Self \in Names
    BY Facts
  <2> QED
    BY <2>1 DEF ClusterStep, ControllerStep, Next, Env, Environment
<1>2. TypeOK'
  BY <1>1, StepType DEF Assumptions, SystemInv
<1>3. UNCHANGED <<cells, iopub, actPc, actCopy, cullPc, cullCopy>>
  BY DEF ClusterStep, ControllerStep, monitorVars
<1>4. \/ kms'[Self] = kms[Self]
         /\ \A c \in {"activity", "culler"} : c \in fresh'[Self] => c \in fresh[Self]
      \/ fresh'[Self] = {} /\ kms'[Self].ann \in {0, kms[Self].ann}
  BY WrittenByOthers DEF ClusterStep, ControllerStep
<1> QED
  BY <1>2, <1>3, <1>4, AsideInv

\* A sidecar that starts holds nothing.
LEMMA StartInv ==
  ASSUME Assumptions, SystemInv, StartSidecar
  PROVE  SystemInv'
<1>1. Self \in Names /\ kms[Self].ann \in Nat /\ cells \in Nat /\ iopub \in Nat
  BY Facts
<1>2. Env(Self)
  BY DEF StartSidecar, Env, Environment, cacheVars, workerVars
<1>3. TypeOK'
  BY <1>1, <1>2, EnvType DEF Assumptions, SystemInv
<1>4. UNCHANGED <<kms, cells>> /\ actPc' = "waiting" /\ cullPc' = "waiting" /\ iopub' = 0
      /\ actCopy' = NoKM /\ cullCopy' = NoKM
  BY DEF StartSidecar, StartPod, KMUnchanged
<1>5. SidecarCopies'
  BY <1>4, ZeroObjects DEF SidecarCopies
<1>6. ActivityCounted'
  BY <1>1, <1>4 DEF SystemInv, ActivityCounted, InHand
<1> QED
  BY <1>3, <1>5, <1>6 DEF SystemInv

\* What concerns neither the KernelManager nor what the controller knows of it.
Apart == UNCHANGED <<kms, cms, pods, born, ownFresh, cmFresh, podFresh, Outside>>

\* The kernel, time, and what the sidecar does apart from calls.
LEMMA QuietSidecar ==
  ASSUME Assumptions, SystemInv, UNCHANGED Outside,
         \/ Monitor!BecomeReady \/ Monitor!StartCell \/ Monitor!FinishCell \/ Monitor!Start
         \/ Monitor!ReceiveBusy \/ Monitor!CullerCheck \/ Monitor!WakeUp \/ Monitor!Tick
  PROVE  SystemInv' /\ Apart
<1>1. /\ kms[Self].ann \in Nat /\ cells \in Nat /\ iopub \in Nat
      /\ cells <= MaxActs /\ MaxActs \in Nat
  BY Facts
<1> USE DEF Monitor!clusterVars, Monitor!kernelVars, Monitor!actVars, Monitor!cullVars
<1>2. UNCHANGED <<kms, cms, pods, born, fresh, cmFresh, podFresh>>
  BY DEF Monitor!BecomeReady, Monitor!StartCell, Monitor!FinishCell, Monitor!Start,
         Monitor!ReceiveBusy, Monitor!CullerCheck, Monitor!WakeUp, Monitor!Tick
<1>3. TypeOK'
  BY <1>2 DEF SystemInv, TypeOK, ClusterTypeOK, Outside, cacheVars, workerVars
<1>4. SidecarCopies'
  BY <1>2, ZeroObjects
  DEF SystemInv, SidecarCopies, Monitor!BecomeReady, Monitor!StartCell, Monitor!FinishCell,
      Monitor!Start, Monitor!ReceiveBusy, Monitor!CullerCheck, Monitor!WakeUp, Monitor!Tick,
      Monitor!Sleep, NoKM, NewKM, NoStatus, Monitor!NoKM, Monitor!NewKM, Monitor!NoStatus
<1>5. ActivityCounted'
  <2> USE <1>1, <1>2 DEF SystemInv, ActivityCounted, InHand
  <2>1. CASE Monitor!BecomeReady \/ Monitor!StartCell \/ Monitor!FinishCell
    BY <2>1 DEF Monitor!BecomeReady, Monitor!StartCell, Monitor!FinishCell
  <2>2. CASE Monitor!Start \/ Monitor!ReceiveBusy
    BY <2>2 DEF Monitor!Start, Monitor!ReceiveBusy
  <2>3. CASE Monitor!CullerCheck \/ Monitor!WakeUp \/ Monitor!Tick
    BY <2>3 DEF Monitor!CullerCheck, Monitor!WakeUp, Monitor!Tick
  <2> QED
    BY <2>1, <2>2, <2>3
<1> QED
  BY <1>2, <1>3, <1>4, <1>5, OwnUnchanged DEF SystemInv, Apart

\* A GET makes a copy of the sidecar current, and none of the controller's.
LEMMA SidecarGets ==
  ASSUME Assumptions, SystemInv, UNCHANGED Outside, Monitor!ActivityGet \/ Monitor!CullerGet
  PROVE  SystemInv' /\ Apart
<1>1. /\ Self \in Names /\ fresh \in [Names -> SUBSET Clients] /\ kms[Self] \in KM
      /\ kms[Self].ann \in Nat /\ cells \in Nat /\ iopub \in Nat
      /\ {"activity", "culler"} \subseteq Clients
  BY Facts
<1>2. NoKM = Monitor!NoKM
  BY DEF NoKM, NewKM, NoStatus, Monitor!NoKM, Monitor!NewKM, Monitor!NoStatus
<1> USE DEF Monitor!ActivityGet, Monitor!CullerGet, Monitor!Fetch, Monitor!KMUnchanged,
            Monitor!ApiError, Monitor!OnError, Monitor!Sleep, Monitor!Crash,
            Monitor!others, Monitor!kernelVars, Monitor!actVars, Monitor!cullVars
<1>3. UNCHANGED <<kms, cms, pods, born, cmFresh, podFresh, cells, iopub>>
  OBVIOUS
<1>4. \/ UNCHANGED fresh
      \/ fresh' = [fresh EXCEPT ![Self] = @ \cup {"activity"}]
      \/ fresh' = [fresh EXCEPT ![Self] = @ \cup {"culler"}]
  OBVIOUS
<1>5. UNCHANGED ownFresh
  BY <1>1, <1>4, OwnUnchanged, OwnUntouched, OwnCopy
<1>6. TypeOK'
  <2>1. fresh' \in [Names -> SUBSET Clients]
    BY <1>1, <1>4
  <2> QED
    BY <1>3, <2>1 DEF SystemInv, TypeOK, ClusterTypeOK, Outside, cacheVars, workerVars
<1>7. SidecarCopies'
  <2> USE <1>1, <1>2, ZeroObjects DEF SystemInv, SidecarCopies
  <2>1. CASE Monitor!ActivityGet
    BY <2>1
  <2>2. CASE Monitor!CullerGet
    BY <2>2
  <2> QED
    BY <2>1, <2>2
<1>8. ActivityCounted'
  BY <1>1, <1>3 DEF SystemInv, ActivityCounted, InHand
<1> QED
  BY <1>3, <1>5, <1>6, <1>7, <1>8 DEF SystemInv, Apart

\* A PUT that is refused, fails or changes nothing.
LEMMA PutInVain ==
  ASSUME Assumptions, SystemInv, UNCHANGED Outside, UNCHANGED <<kms, fresh>>,
         Monitor!ActivityPut \/ Monitor!CullerPut
  PROVE  SystemInv' /\ Apart
<1>1. kms[Self].ann \in Nat /\ cells \in Nat /\ iopub \in Nat
  BY Facts
<1>2. NoKM = Monitor!NoKM
  BY DEF NoKM, NewKM, NoStatus, Monitor!NoKM, Monitor!NewKM, Monitor!NoStatus
<1> USE DEF Monitor!others, Monitor!kernelVars, Monitor!actVars, Monitor!cullVars
<1>3. UNCHANGED <<cms, pods, born, cmFresh, podFresh, cells, iopub>>
  BY DEF Monitor!ActivityPut, Monitor!CullerPut
<1>4. /\ (actPc' # "put" /\ actCopy' = NoKM) \/ UNCHANGED <<actPc, actCopy>>
      /\ (cullPc' # "put" /\ cullCopy' = NoKM) \/ UNCHANGED <<cullPc, cullCopy>>
  BY <1>2 DEF Monitor!ActivityPut, Monitor!CullerPut, Monitor!OnError, Monitor!Sleep,
              Monitor!Crash
<1>5. InHand' <= InHand /\ InHand' \in Nat /\ InHand \in Nat
  BY DEF InHand, Monitor!ActivityPut, Monitor!CullerPut
<1>6. TypeOK'
  BY <1>3 DEF SystemInv, TypeOK, ClusterTypeOK, Outside, cacheVars, workerVars
<1>7. SidecarCopies'
  BY <1>4, ZeroObjects DEF SystemInv, SidecarCopies
<1>8. ActivityCounted'
  BY <1>1, <1>3, <1>5 DEF SystemInv, ActivityCounted
<1> QED
  BY <1>3, <1>6, <1>7, <1>8, OwnUnchanged DEF SystemInv, Apart

\* A PUT that is made adds one annotation to the current object.
LEMMA ActivityPuts ==
  ASSUME Assumptions, SystemInv, UNCHANGED Outside, ~UNCHANGED <<kms, fresh>>,
         Monitor!ActivityPut
  PROVE  SystemInv' /\ AnnotateActivity(Self) /\ Env(Self)
<1>1. /\ Self \in Names /\ kms \in [Names -> KM] /\ fresh \in [Names -> SUBSET Clients]
      /\ kms[Self] \in KM /\ kms[Self].ann \in Nat
      /\ cells \in Nat /\ iopub \in Nat /\ cells <= MaxActs /\ MaxActs \in Nat
      /\ cullCopy \in KM
  BY Facts
<1> DEFINE o == [kms[Self] EXCEPT !.ann = @ + 1]
<1>2. /\ actPc = "put" /\ actPc' = "receive" /\ actCopy' = NoKM
      /\ UNCHANGED <<cms, pods, born, cmFresh, podFresh, cells, iopub, cullPc, cullCopy>>
  BY DEF Monitor!ActivityPut, Monitor!others, Monitor!kernelVars, Monitor!cullVars,
         NoKM, NewKM, NoStatus, Monitor!NoKM, Monitor!NewKM, Monitor!NoStatus
<1>3. actCopy = kms[Self] /\ kms[Self].uid # 0 /\ WriteKM(Self, o)
  BY <1>2
  DEF Monitor!ActivityPut, Monitor!Replace, Monitor!Refused, Monitor!ApiError,
      Monitor!KMUnchanged, Monitor!WriteKM, WriteKM, SystemInv, SidecarCopies
<1>4. o.ann = kms[Self].ann + 1 /\ kms'[Self] = o /\ fresh'[Self] = {}
  BY <1>1, <1>3 DEF WriteKM, KM
<1>5. kms[Self].ann + 1 + iopub <= cells
  BY <1>1, <1>2 DEF SystemInv, ActivityCounted, InHand
<1>6. AnnotateActivity(Self)
  BY <1>1, <1>2, <1>3, <1>5
  DEF Assumptions, SystemAssumption, AnnotateActivity, MonitorRuns, Monitor!ActivityPut,
      Monitor!Alive, Monitor!PodRuns, ConfigMapUnchanged, PodUnchanged, Outside
<1>7. Env(Self)
  BY <1>6 DEF Env, Environment, Outside
<1>8. TypeOK'
  BY <1>1, <1>7, EnvType DEF Assumptions, SystemInv
<1>9. SidecarCopies'
  BY <1>1, <1>2, <1>4, ZeroObjects DEF SidecarCopies
<1>10. ActivityCounted'
  BY <1>1, <1>2, <1>4, <1>5 DEF SystemInv, ActivityCounted, InHand
<1> QED
  BY <1>6, <1>7, <1>8, <1>9, <1>10 DEF SystemInv

\* A PUT that is made adds the label to the current object.
LEMMA CullerPuts ==
  ASSUME Assumptions, SystemInv, UNCHANGED Outside, ~UNCHANGED <<kms, fresh>>,
         Monitor!CullerPut
  PROVE  SystemInv' /\ LabelIdle(Self) /\ Env(Self)
<1>1. /\ Self \in Names /\ kms \in [Names -> KM] /\ fresh \in [Names -> SUBSET Clients]
      /\ kms[Self] \in KM /\ kms[Self].ann \in Nat /\ cells \in Nat /\ iopub \in Nat
      /\ actCopy \in KM
  BY Facts
<1> DEFINE o == [kms[Self] EXCEPT !.idle = TRUE]
<1>2. /\ cullPc = "put" /\ cullPc' # "put" /\ cullCopy' = NoKM
      /\ UNCHANGED <<cms, pods, born, cmFresh, podFresh, cells, iopub, actPc, actCopy>>
  BY DEF Monitor!CullerPut, Monitor!OnError, Monitor!Sleep, Monitor!Crash,
         Monitor!others, Monitor!kernelVars, Monitor!actVars,
         NoKM, NewKM, NoStatus, Monitor!NoKM, Monitor!NewKM, Monitor!NoStatus
<1>3. cullCopy = kms[Self] /\ kms[Self].uid # 0 /\ WriteKM(Self, o) /\ o # kms[Self]
  BY <1>2
  DEF Monitor!CullerPut, Monitor!Replace, Monitor!Refused, Monitor!ApiError,
      Monitor!KMUnchanged, Monitor!WriteKM, WriteKM, SystemInv, SidecarCopies
<1>4. o.ann = kms[Self].ann /\ (kms[Self].idle = TRUE => o = kms[Self])
  BY <1>1 DEF KM
<1>5. kms'[Self] = o /\ fresh'[Self] = {}
  BY <1>1, <1>3 DEF WriteKM
<1>6. ~kms[Self].idle
  BY <1>1, <1>3, <1>4, KMFields
<1>7. LabelIdle(Self)
  BY <1>2, <1>3, <1>6
  DEF Assumptions, SystemAssumption, LabelIdle, MonitorRuns, Monitor!CullerPut,
      Monitor!Alive, Monitor!PodRuns, ConfigMapUnchanged, PodUnchanged, Outside
<1>8. Env(Self)
  BY <1>7 DEF Env, Environment, Outside
<1>9. TypeOK'
  BY <1>1, <1>8, EnvType DEF Assumptions, SystemInv
<1>10. SidecarCopies'
  BY <1>1, <1>2, <1>5, ZeroObjects DEF SidecarCopies
<1>11. ActivityCounted'
  BY <1>1, <1>2, <1>4, <1>5 DEF SystemInv, ActivityCounted, InHand
<1> QED
  BY <1>7, <1>8, <1>9, <1>10, <1>11 DEF SystemInv

-----------------------------------------------------------------------------
(* The system.                                                             *)

LEMMA InitSystem ==
  ASSUME Assumptions, SystemInit
  PROVE  SystemInv /\ Controller!Init
<1>1. Self \in Names
  BY DEF Assumptions, SystemAssumption
<1>2. TypeOK
  BY InitType DEF Assumptions, SystemInit
<1>3. SidecarCopies
  BY ZeroObjects DEF SystemInit, SidecarCopies
<1>4. ActivityCounted
  <2>1. kms[Self].ann = 0
    BY <1>1 DEF SystemInit, Init, ClusterInit, NoKM, NewKM
  <2> QED
    BY <2>1 DEF SystemInit, ActivityCounted, InHand, Assumptions, ClusterAssumption
<1>5. ownFresh = [n \in Names |-> OwnCopies]
  BY DEF SystemInit, Init, ClusterInit, ownFresh, OwnCopies, Assumptions, ControllerAssumption
<1>6. Controller!Init
  BY <1>5
  DEF SystemInit, Init, ClusterInit, NoKM, NewKM, NoStatus, NoPod, NoConfigMap,
      Controller!Init, Controller!ClusterInit, Controller!NoKM, Controller!NewKM,
      Controller!NoStatus, Controller!NoPod, Controller!NoConfigMap
<1> QED
  BY <1>2, <1>3, <1>4, <1>6 DEF SystemInv

LEMMA StepSystem ==
  ASSUME Assumptions, SystemInv, [SystemNext]_systemVars
  PROVE  /\ SystemInv' /\ [Controller!Next]_(Controller!vars)
         /\ Next \/ Apart
<1> USE DEF SystemInv
<1>1. Self \in Names
  BY Facts
<1>2. ASSUME Env(Self)
      PROVE  Next /\ Controller!Next
  BY <1>1, <1>2, EnvironmentCarried DEF Next, Controller!Next
<1>3. Apart => UNCHANGED Controller!vars
  BY DEF Apart, Outside, cacheVars, workerVars, Controller!vars, Controller!clusterVars,
         Controller!cacheVars, Controller!workerVars
<1>4. CASE StartSidecar
  <2>1. Env(Self)
    BY <1>4 DEF StartSidecar, Env, Environment, cacheVars, workerVars
  <2> QED
    BY <1>2, <1>4, <2>1, StartInv
<1>5. CASE ClusterStep
  <2>1. Env(Self)
    BY <1>5 DEF ClusterStep, Env, Environment
  <2> QED
    BY <1>2, <1>5, <2>1, OthersInv
<1>6. CASE ControllerStep
  <2>1. Next /\ Controller!Next
    BY <1>1, <1>6, InputCarried, ReconcileCarried, FaultCarried
    DEF ControllerStep, Next, Controller!Next
  <2> QED
    BY <1>6, <2>1, OthersInv
<1>7. CASE KernelStep
  BY <1>3, <1>7, QuietSidecar DEF KernelStep
<1>8. CASE SidecarStep
  <2>1. UNCHANGED Outside
    BY <1>8 DEF SidecarStep
  <2>2. CASE Monitor!Start \/ Monitor!ReceiveBusy \/ Monitor!CullerCheck \/ Monitor!WakeUp
             \/ Monitor!Tick
    BY <1>3, <2>1, <2>2, QuietSidecar
  <2>3. CASE Monitor!ActivityGet \/ Monitor!CullerGet
    BY <1>3, <2>1, <2>3, SidecarGets
  <2>4. CASE Monitor!ActivityPut
    BY <1>2, <1>3, <2>1, <2>4, PutInVain, ActivityPuts
  <2>5. CASE Monitor!CullerPut
    BY <1>2, <1>3, <2>1, <2>5, PutInVain, CullerPuts
  <2> QED
    BY <1>8, <2>2, <2>3, <2>4, <2>5 DEF SidecarStep, Monitor!Activity, Monitor!Culler
<1>9. CASE UNCHANGED systemVars
  <2>1. Apart
    BY <1>9, OwnUnchanged
    DEF systemVars, vars, clusterVars, cacheVars, workerVars, Apart, Outside
  <2>2. SystemInv'
    BY <1>9
    DEF systemVars, monitorVars, vars, clusterVars, cacheVars, workerVars, TypeOK,
        ClusterTypeOK, SidecarCopies, ActivityCounted, InHand
  <2> QED
    BY <1>3, <2>1, <2>2
<1> QED
  BY <1>4, <1>5, <1>6, <1>7, <1>8, <1>9 DEF SystemNext

\* The sidecar is no more than the controller's model takes the rest of the
\* cluster to be: every behaviour of the two together is one of the
\* controller, so its theorems hold with this sidecar beside it.
THEOREM ControllerImplemented == SystemSpec => ControllerKeepsItsPromises
<1>1. SystemInit => SystemInv /\ Controller!Init
  BY InitSystem, ClusterAssumption, ControllerAssumption, SystemAssumption DEF Assumptions
<1>2. SystemInv /\ [SystemNext]_systemVars => SystemInv' /\ [Controller!Next]_(Controller!vars)
  BY StepSystem, ClusterAssumption, ControllerAssumption, SystemAssumption DEF Assumptions
<1> QED
  BY <1>1, <1>2, PTL DEF SystemSpec, ControllerKeepsItsPromises, Controller!Spec

\* Where the controller's copies and the store stay, its invariants stay.
LEMMA ApartInv ==
  ASSUME TypeOK, WakeInv, ConfigInv, LabelStays, Apart
  PROVE  WakeInv' /\ ConfigInv' /\ LabelStays' /\ UNCHANGED life
<1>1. /\ UNCHANGED <<kms, cms, pods, born, cmFresh, podFresh>>
      /\ UNCHANGED <<kmCache, cmCache, podCache, queue, pc, req, inst, foundPod>>
  BY DEF Apart, Outside, cacheVars, workerVars
<1>2. \A n \in Names : /\ "informer" \in fresh'[n] <=> "informer" \in fresh[n]
                       /\ "reconciler" \in fresh'[n] <=> "reconciler" \in fresh[n]
  <2>1. \A n \in Names : fresh'[n] \cap OwnCopies = fresh[n] \cap OwnCopies
    BY DEF Apart, ownFresh
  <2> QED
    BY <2>1 DEF OwnCopies
<1>3. CopiesCurrent' /\ AbsentIsZero' /\ ConfigMapEnsured' /\ PodEnsured'
  BY <1>1, <1>2
  DEF WakeInv, CopiesCurrent, AbsentIsZero, ConfigMapEnsured, PodEnsured
<1>4. InstanceHeld'
  BY <1>1, <1>2 DEF TypeOK, WakeInv, InstanceHeld
<1>5. NoLostWakeup'
  BY <1>1, <1>2 DEF WakeInv, NoLostWakeup, Settled, Converged
<1>6. ConfigInv'
  BY <1>1
  DEF ConfigInv, InNumberOrder, MadeFromCache, MadeBeforeInstance, ConfigMapAhead,
      ConfigMapBeforePod, NeverStaleConfig
<1>7. LabelStays' /\ UNCHANGED life
  BY <1>1 DEF LabelStays, life
<1> QED
  BY <1>3, <1>4, <1>5, <1>6, <1>7 DEF WakeInv

\* What the controller promises of its KernelManagers it keeps while the
\* sidecar reads and writes them: no wakeup is lost, no kernel starts with a
\* connection file of an earlier one, a cull spares the ones never labelled,
\* and each life goes its way.
THEOREM PromisesWithSidecar ==
  SystemSpec => []NoLostWakeup /\ []NeverStaleConfig /\ CullSparesUnlabelled /\ FollowsLifecycle
<1> DEFINE I == SystemInv /\ WakeInv /\ ConfigInv /\ LabelStays
           Spares == \A n \in Names :
             pc = "cull" /\ req = n /\ kms[n] # NoKM /\ kms'[n] = NoKM /\ pc' = "idle"
               => kms[n].idle \/ kms[n].uid > inst.uid
<1>1. SystemInit => I /\ Lifecycle!Init
  <2>1. SystemInit => SystemInv /\ WakeInv /\ ConfigInv
    BY InitSystem, InitWake, InitConfig, ClusterAssumption, ControllerAssumption,
       SystemAssumption
    DEF Assumptions, SystemInit
  <2>2. SystemInit => Lifecycle!Init
    BY Zeros DEF SystemInit, Init, ClusterInit, Lifecycle!Init, life, StageOf
  <2>3. SystemInit => LabelStays
    BY Zeros DEF SystemInit, Init, LabelStays
  <2> QED
    BY <2>1, <2>2, <2>3
<1>2. I /\ [SystemNext]_systemVars => I' /\ [Lifecycle!Next]_life
  <2> SUFFICES ASSUME I, [SystemNext]_systemVars
               PROVE  I' /\ [Lifecycle!Next]_life
    OBVIOUS
  <2>1. SystemInv' /\ (Next \/ Apart)
    BY StepSystem, ClusterAssumption, ControllerAssumption, SystemAssumption DEF Assumptions
  <2>2. TypeOK
    BY DEF SystemInv
  <2>3. CASE Next
    BY <2>1, <2>2, <2>3, StepWake, StepConfig, StepLabel, StepLife, ClusterAssumption,
       ControllerAssumption
  <2>4. CASE Apart
    BY <2>1, <2>2, <2>4, ApartInv
  <2> QED
    BY <2>1, <2>3, <2>4
<1>3. I => NoLostWakeup /\ NeverStaleConfig
  BY DEF WakeInv, ConfigInv
<1>4. I => [Spares]_vars
  BY CullSpares DEF SystemInv, WakeInv, AbsentIsZero
<1> QED
  BY <1>1, <1>2, <1>3, <1>4, PTL
  DEF SystemSpec, CullSparesUnlabelled, FollowsLifecycle, Lifecycle!Safety

=============================================================================
