------------------------- MODULE KernelMonitorProofs -------------------------
(***************************************************************************)
(* What the sidecar guarantees for any timeouts, kernels and failures.     *)
(***************************************************************************)
EXTENDS KernelMonitor, ClusterProofs

Assumptions == ClusterAssumption /\ MonitorAssumption

LEMMA InitType ==
  ASSUME Assumptions, Init
  PROVE  TypeOK
<1>1. [owner |-> 1, phase |-> "Running", mounted |-> 1] \in Pod
  BY DEF Pod, PodPhase
<1> QED
  BY <1>1, ZeroObjects, NewKMType
  DEF Init, Assumptions, ClusterAssumption, MonitorAssumption, TypeOK, ClusterTypeOK

\* What the kernel, time and the sidecar do apart from calls.
LEMMA QuietType ==
  ASSUME Assumptions, TypeOK,
         \/ BecomeReady \/ StartCell \/ FinishCell \/ Start \/ ReceiveBusy
         \/ CullerCheck \/ WakeUp \/ Tick \/ OtherWrite
  PROVE  TypeOK'
<1> USE ZeroObjects
    DEF Assumptions, ClusterAssumption, MonitorAssumption, TypeOK, ClusterTypeOK,
        clusterVars, kernelVars, actVars, cullVars
<1>1. CASE BecomeReady \/ StartCell \/ FinishCell
  BY <1>1 DEF BecomeReady, StartCell, FinishCell
<1>2. CASE Start \/ ReceiveBusy
  BY <1>2 DEF Start, ReceiveBusy
<1>3. CASE CullerCheck \/ WakeUp
  BY <1>3 DEF CullerCheck, WakeUp, Sleep
<1>4. CASE Tick
  BY <1>4 DEF Tick
<1>5. CASE OtherWrite
  BY <1>5 DEF OtherWrite, others
<1> QED
  BY <1>1, <1>2, <1>3, <1>4, <1>5

\* The calls of both threads.
LEMMA CallType ==
  ASSUME Assumptions, TypeOK, ActivityGet \/ ActivityPut \/ CullerGet \/ CullerPut
  PROVE  TypeOK'
<1> USE ZeroObjects
    DEF Assumptions, ClusterAssumption, MonitorAssumption, TypeOK, ClusterTypeOK,
        kernelVars, actVars, cullVars, others, Fetch, Refused, ApiError,
        KMUnchanged, Sleep, Crash, OnError
<1>1. CASE ActivityGet
  BY <1>1 DEF ActivityGet
<1>2. CASE CullerGet
  BY <1>2 DEF CullerGet
<1>3. CASE ActivityPut
  <2>1. [actCopy EXCEPT !.ann = @ + 1] \in KM
    BY KMFields
  <2> QED
    BY <1>3, <2>1 DEF ActivityPut, Replace, WriteKM
<1>4. CASE CullerPut
  <2> DEFINE o == [cullCopy EXCEPT !.idle = TRUE]
  <2>1. o \in KM
    BY KMFields
  <2>2. CASE Replace("culler", o) /\ (Sleep \/ Crash) /\ UNCHANGED faults
    <3>1. kms' \in [Names -> KM] /\ fresh' \in [Names -> SUBSET Clients]
      BY <2>1, <2>2 DEF Replace, WriteKM
    <3> QED
      BY <1>4, <2>2, <3>1 DEF CullerPut
  <2>3. CASE KMUnchanged
    BY <1>4, <2>3 DEF CullerPut
  <2> QED
    BY <1>4, <2>2, <2>3 DEF CullerPut
<1> QED
  BY <1>1, <1>2, <1>3, <1>4

LEMMA StepType ==
  ASSUME Assumptions, TypeOK, [Next]_vars
  PROVE  TypeOK'
<1>1. CASE Elsewhere
  <2>1. ClusterTypeOK'
    BY <1>1, EnvironmentType
    DEF Assumptions, MonitorAssumption, TypeOK, Elsewhere, Environment
  <2> QED
    BY <1>1, <2>1 DEF TypeOK, Elsewhere, kernelVars, actVars, cullVars
<1>2. CASE UNCHANGED vars
  BY <1>2 DEF TypeOK, ClusterTypeOK, vars, clusterVars, kernelVars, actVars, cullVars
<1> QED
  BY <1>1, <1>2, QuietType, CallType DEF Next, Activity, Culler

\* Every variable of the sidecar and the cluster keeps its type.
THEOREM TypeCorrect == Spec => []TypeOK
  BY ClusterAssumption, MonitorAssumption, InitType, StepType, PTL DEF Spec, Assumptions

-----------------------------------------------------------------------------
(* No lost update.                                                         *)

\* What a thread is about to change is the current object, or the PUT will be
\* refused.
CopiesCurrent ==
  /\ actPc = "put" /\ "activity" \in fresh[Self] => actCopy = kms[Self]
  /\ cullPc = "put" /\ "culler" \in fresh[Self] => cullCopy = kms[Self]

InHand == IF actPc \in {"get", "put"} THEN 1 ELSE 0

\* Each annotation, each message and the one in hand is of another execution.
Counted == kms[Self].ann + iopub + InHand <= cells

UpdateInv == CopiesCurrent /\ Counted

\* What the type invariant says of the sidecar's KernelManager.
LEMMA Facts ==
  ASSUME Assumptions, TypeOK
  PROVE  /\ Self \in Names /\ kms \in [Names -> KM] /\ fresh \in [Names -> SUBSET Clients]
         /\ kms[Self] \in KM /\ kms[Self].ann \in Nat
         /\ cells \in Nat /\ iopub \in 0..cells /\ cells <= MaxActs /\ MaxActs \in Nat
<1>1. Self \in Names /\ kms \in [Names -> KM] /\ fresh \in [Names -> SUBSET Clients]
  BY DEF Assumptions, MonitorAssumption, TypeOK, ClusterTypeOK
<1>2. cells \in 0..MaxActs /\ iopub \in 0..cells /\ MaxActs \in Nat
  BY DEF Assumptions, ClusterAssumption, TypeOK
<1>3. kms[Self] \in KM
  BY <1>1
<1>4. kms[Self].ann \in Nat
  BY <1>3, KMFields
<1> QED
  BY <1>1, <1>2, <1>3, <1>4

LEMMA InitUpdate ==
  ASSUME Assumptions, Init
  PROVE  UpdateInv
  BY DEF Assumptions, MonitorAssumption, Init, UpdateInv, CopiesCurrent, Counted, InHand, NewKM

\* The kernel, time, and what the sidecar does apart from calls.
LEMMA QuietUpdate ==
  ASSUME Assumptions, TypeOK, UpdateInv,
         \/ BecomeReady \/ StartCell \/ FinishCell \/ Start \/ ReceiveBusy
         \/ CullerCheck \/ WakeUp \/ Tick \/ OtherWrite
  PROVE  UpdateInv' /\ UNCHANGED kms
<1>1. /\ Self \in Names /\ kms \in [Names -> KM] /\ fresh \in [Names -> SUBSET Clients]
      /\ kms[Self] \in KM /\ kms[Self].ann \in Nat
      /\ cells \in Nat /\ iopub \in 0..cells /\ cells <= MaxActs /\ MaxActs \in Nat
  BY Facts
<1> USE <1>1
    DEF clusterVars, kernelVars, actVars, cullVars, UpdateInv, CopiesCurrent, Counted, InHand
<1>2. CASE BecomeReady \/ StartCell \/ FinishCell
  BY <1>2 DEF BecomeReady, StartCell, FinishCell
<1>3. CASE Start \/ ReceiveBusy
  BY <1>3 DEF Start, ReceiveBusy
<1>4. CASE CullerCheck \/ WakeUp
  BY <1>4 DEF CullerCheck, WakeUp, Sleep
<1>5. CASE Tick
  BY <1>5 DEF Tick
<1>6. CASE OtherWrite
  BY <1>6 DEF OtherWrite, others
<1> QED
  BY <1>2, <1>3, <1>4, <1>5, <1>6

\* A GET makes a copy current.
LEMMA GetUpdate ==
  ASSUME Assumptions, TypeOK, UpdateInv, ActivityGet \/ CullerGet
  PROVE  UpdateInv' /\ UNCHANGED kms
<1>1. /\ Self \in Names /\ kms \in [Names -> KM] /\ fresh \in [Names -> SUBSET Clients]
      /\ kms[Self] \in KM /\ kms[Self].ann \in Nat
      /\ cells \in Nat /\ iopub \in 0..cells /\ cells <= MaxActs /\ MaxActs \in Nat
  BY Facts
<1> USE <1>1
    DEF kernelVars, actVars, cullVars, others, Fetch, ApiError, KMUnchanged,
        UpdateInv, CopiesCurrent, Counted, InHand
<1>2. CASE ActivityGet
  BY <1>2 DEF ActivityGet
<1>3. CASE CullerGet
  BY <1>3 DEF CullerGet, Sleep, Crash, OnError
<1> QED
  BY <1>2, <1>3

Intended(n) == CreateKM(n) \/ DeleteKM(n) \/ AnnotateActivity(n) \/ LabelIdle(n)

\* A PUT that is not refused adds one annotation to the current object.
LEMMA ActivityUpdate ==
  ASSUME Assumptions, TypeOK, UpdateInv, ActivityPut
  PROVE  UpdateInv' /\ (UNCHANGED kms \/ Intended(Self))
<1>1. /\ Self \in Names /\ kms \in [Names -> KM] /\ fresh \in [Names -> SUBSET Clients]
      /\ kms[Self] \in KM /\ kms[Self].ann \in Nat
      /\ cells \in Nat /\ iopub \in 0..cells /\ cells <= MaxActs /\ MaxActs \in Nat
  BY Facts
<1>2. UNCHANGED <<others, kernelVars, cullVars>> /\ actPc = "put" /\ actPc' = "receive"
  BY DEF ActivityPut
<1>3. CASE KMUnchanged
  BY <1>1, <1>2, <1>3
  DEF KMUnchanged, kernelVars, cullVars, UpdateInv, CopiesCurrent, Counted, InHand
<1>4. CASE ~KMUnchanged
  <2> DEFINE o == [kms[Self] EXCEPT !.ann = @ + 1]
  <2>1. actCopy = kms[Self] /\ kms[Self].uid # 0 /\ UNCHANGED faults /\ WriteKM(Self, o)
    BY <1>2, <1>4
    DEF ActivityPut, Replace, Refused, ApiError, UpdateInv, CopiesCurrent
  <2>2. o.ann = kms[Self].ann + 1
    BY <1>1 DEF KM
  <2>3. kms[Self].ann + 1 + iopub <= cells
    BY <1>1, <1>2 DEF UpdateInv, Counted, InHand
  <2>4. kms'[Self] = o /\ fresh'[Self] = {}
    BY <1>1, <2>1 DEF WriteKM
  <2>5. UpdateInv'
    BY <1>1, <1>2, <2>2, <2>3, <2>4
    DEF kernelVars, UpdateInv, CopiesCurrent, Counted, InHand
  <2>6. AnnotateActivity(Self)
    BY <1>1, <1>2, <2>1, <2>3
    DEF Assumptions, MonitorAssumption, AnnotateActivity, MonitorRuns, ActivityPut, Alive,
        PodRuns, others, ConfigMapUnchanged, PodUnchanged
  <2> QED
    BY <2>5, <2>6 DEF Intended
<1> QED
  BY <1>3, <1>4

\* A PUT that is not refused adds the label to the current object.
LEMMA CullerUpdate ==
  ASSUME Assumptions, TypeOK, UpdateInv, CullerPut
  PROVE  UpdateInv' /\ (UNCHANGED kms \/ Intended(Self))
<1>1. /\ Self \in Names /\ kms \in [Names -> KM] /\ fresh \in [Names -> SUBSET Clients]
      /\ kms[Self] \in KM /\ kms[Self].ann \in Nat
      /\ cells \in Nat /\ iopub \in 0..cells /\ cells <= MaxActs /\ MaxActs \in Nat
  BY Facts
<1>2. UNCHANGED <<others, kernelVars, actVars>> /\ cullPc = "put" /\ cullPc' # "put"
  BY DEF CullerPut, OnError, Sleep, Crash
<1>3. CASE KMUnchanged
  BY <1>1, <1>2, <1>3
  DEF KMUnchanged, kernelVars, actVars, UpdateInv, CopiesCurrent, Counted, InHand
<1>4. CASE ~KMUnchanged
  <2> DEFINE o == [kms[Self] EXCEPT !.idle = TRUE]
  <2>1. /\ cullCopy = kms[Self] /\ kms[Self].uid # 0 /\ UNCHANGED faults
        /\ WriteKM(Self, o) /\ o # kms[Self]
    BY <1>2, <1>4
    DEF CullerPut, Replace, Refused, ApiError, UpdateInv, CopiesCurrent
  <2>2. o.ann = kms[Self].ann /\ (kms[Self].idle = TRUE => o = kms[Self])
    BY <1>1 DEF KM
  <2>3. kms'[Self] = o /\ fresh'[Self] = {}
    BY <1>1, <2>1 DEF WriteKM
  <2>4. UpdateInv'
    BY <1>1, <1>2, <2>2, <2>3
    DEF kernelVars, actVars, UpdateInv, CopiesCurrent, Counted, InHand
  <2>5. ~kms[Self].idle
    BY <1>1, <2>1, <2>2, KMFields
  <2>6. LabelIdle(Self)
    BY <1>2, <2>1, <2>5
    DEF Assumptions, MonitorAssumption, LabelIdle, MonitorRuns, CullerPut, Alive,
        PodRuns, others, ConfigMapUnchanged, PodUnchanged
  <2> QED
    BY <2>4, <2>6 DEF Intended
<1> QED
  BY <1>3, <1>4

LEMMA ElsewhereUpdate ==
  ASSUME Assumptions, TypeOK, UpdateInv, Elsewhere
  PROVE  UpdateInv' /\ (UNCHANGED kms \/ Intended(Self))
<1>1. /\ Self \in Names /\ kms \in [Names -> KM] /\ fresh \in [Names -> SUBSET Clients]
      /\ kms[Self] \in KM /\ kms[Self].ann \in Nat
      /\ cells \in Nat /\ iopub \in 0..cells /\ cells <= MaxActs /\ MaxActs \in Nat
  BY Facts
<1>2. NewKM(born[Self] + 1).ann = 0 /\ NoKM.ann = 0
  BY DEF NoKM, NewKM
<1> USE <1>1, <1>2
    DEF Elsewhere, WriteKM, kernelVars, actVars, cullVars, KMUnchanged,
        UpdateInv, CopiesCurrent, Counted, InHand
<1>3. CASE CreateKM(Self)
  BY <1>3 DEF CreateKM, Intended
<1>4. CASE DeleteKM(Self)
  BY <1>4 DEF DeleteKM, Intended
<1>5. CASE CollectPod(Self)
  BY <1>5 DEF CollectPod
<1> QED
  BY <1>3, <1>4, <1>5

LEMMA StepUpdate ==
  ASSUME Assumptions, TypeOK, UpdateInv, [Next]_vars
  PROVE  UpdateInv' /\ (UNCHANGED kms \/ Intended(Self))
<1>1. CASE UNCHANGED vars
  BY <1>1
  DEF vars, clusterVars, kernelVars, actVars, cullVars,
      UpdateInv, CopiesCurrent, Counted, InHand
<1> QED
  BY <1>1, QuietUpdate, GetUpdate, ActivityUpdate, CullerUpdate, ElsewhereUpdate
  DEF Next, Activity, Culler

\* Whatever the threads, the controller and users write between the GET and
\* the PUT of a thread, a PUT that is made changes the object as it is then.
THEOREM UpdatesNotLost == Spec => NoLostUpdate
<1>1. TypeOK /\ UpdateInv /\ [Next]_vars => [Update]_kms
  BY StepUpdate, ClusterAssumption, MonitorAssumption
  DEF Assumptions, MonitorAssumption, Intended, Update
<1>2. Init => UpdateInv
  BY InitUpdate, ClusterAssumption, MonitorAssumption DEF Assumptions
<1>3. TypeOK /\ UpdateInv /\ [Next]_vars => UpdateInv'
  BY StepUpdate, ClusterAssumption, MonitorAssumption DEF Assumptions
<1> QED
  BY <1>1, <1>2, <1>3, TypeCorrect, PTL DEF Spec, NoLostUpdate

=============================================================================
