----------------------------- MODULE KernelSystem -----------------------------
(***************************************************************************)
(* The controller and the monitor sidecar of one kernel together.  What    *)
(* the controller's model takes the sidecar to do, and the sidecar's model *)
(* takes the controller to do, is here what they do: the kubelet starts    *)
(* the sidecar with the pod the controller made, its label reaches the     *)
(* controller through the informer, and the controller's status writes     *)
(* get between the sidecar's GET and PUT.                                  *)
(***************************************************************************)
EXTENDS KernelManagerController

CONSTANTS
  Self,          \* the KernelManager that has a sidecar
  IdleTimeout, Interval, CanCrash,   \* as in KernelMonitor
  MonitorFaults  \* bound: failed calls of the sidecar

ASSUME SystemAssumption ==
  /\ Names = {Self} /\ HasMonitor(Self)
  /\ EventNamed = {}
  /\ {"activity", "culler"} \subseteq Clients
  /\ MonitorFaults \in Nat

VARIABLES
  kernel, cells, iopub, quiet, actPc, actCopy, cullPc, cullCopy, nap,  \* as in KernelMonitor
  monitorFaults

monitorVars == <<kernel, cells, iopub, quiet, actPc, actCopy, cullPc, cullCopy, nap, monitorFaults>>
systemVars == <<vars, monitorVars>>

\* Its writes of others are those the controller makes.
Monitor == INSTANCE KernelMonitor WITH
  faults <- monitorFaults, MaxFaults <- MonitorFaults, writes <- 0, MaxWrites <- 0

-----------------------------------------------------------------------------
\* The pod's containers start, those of a recreated pod from the beginning.
StartSidecar ==
  /\ StartPod(Self)
  /\ kernel' = "starting" /\ iopub' = 0 /\ quiet' = 0 /\ nap' = 0
  /\ actPc' = "waiting" /\ cullPc' = "waiting"
  /\ actCopy' = NoKM /\ cullCopy' = NoKM
  /\ UNCHANGED <<cells, monitorFaults, cacheVars, workerVars>>

ClusterStep ==
  /\ \/ CreateKM(Self) \/ DeleteKM(Self)
     \/ StopPod(Self) \/ EvictPod(Self)
     \/ CollectPod(Self) \/ CollectConfigMap(Self)
  /\ UNCHANGED <<cacheVars, workerVars, monitorVars>>

ControllerStep ==
  /\ \/ SyncKM(Self) \/ SyncConfigMap(Self) \/ SyncPod(Self)
     \/ FetchInstance(Self)
     \/ Reconcile \/ ApiError \/ Restart
  /\ UNCHANGED monitorVars

Outside == <<faults, cacheVars, workerVars>>

KernelStep == (Monitor!BecomeReady \/ Monitor!StartCell \/ Monitor!FinishCell) /\ UNCHANGED Outside

SidecarStep ==
  (Monitor!Start \/ Monitor!Activity \/ Monitor!Culler \/ Monitor!Tick) /\ UNCHANGED Outside

SystemInit ==
  /\ Init
  /\ kernel = "starting" /\ cells = 0 /\ iopub = 0
  /\ quiet = 0 /\ nap = 0
  /\ actPc = "waiting" /\ cullPc = "waiting"
  /\ actCopy = NoKM /\ cullCopy = NoKM
  /\ monitorFaults = MonitorFaults

SystemNext ==
  \/ StartSidecar \/ ClusterStep
  \/ ControllerStep \/ KernelStep \/ SidecarStep

SystemSpec == SystemInit /\ [][SystemNext]_systemVars

\* A label that is written, and not refused.
Label == Monitor!CullerPut /\ UNCHANGED Outside /\ kms'[Self].idle # kms[Self].idle

\* As each program's own, and kernels start.  Of the label's attempts, one
\* every interval, not every one is overtaken by another write.
SystemFairness ==
  /\ WF_systemVars(Reconcile /\ UNCHANGED monitorVars)
  /\ SF_systemVars(FetchInstance(Self) /\ UNCHANGED monitorVars)
  /\ WF_systemVars(SyncKM(Self) /\ UNCHANGED monitorVars)
  /\ WF_systemVars(SyncConfigMap(Self) /\ UNCHANGED monitorVars)
  /\ WF_systemVars(SyncPod(Self) /\ UNCHANGED monitorVars)
  /\ WF_systemVars(CollectPod(Self) /\ UNCHANGED <<cacheVars, workerVars, monitorVars>>)
  /\ WF_systemVars(CollectConfigMap(Self) /\ UNCHANGED <<cacheVars, workerVars, monitorVars>>)
  /\ WF_systemVars(StartSidecar)
  /\ WF_systemVars(Monitor!BecomeReady /\ UNCHANGED Outside)
  /\ WF_systemVars(Monitor!Start /\ UNCHANGED Outside)
  /\ WF_systemVars(Monitor!Activity /\ UNCHANGED Outside)
  /\ WF_systemVars(Monitor!Culler /\ UNCHANGED Outside)
  /\ WF_systemVars(Monitor!Tick /\ UNCHANGED Outside)
  /\ SF_systemVars(Label)

SystemFairSpec == SystemSpec /\ SystemFairness

-----------------------------------------------------------------------------
(* Properties.                                                             *)

\* Of the copies of a KernelManager the controller has two.
OwnCopies == {"informer", "reconciler"}
ownFresh == [n \in Names |-> fresh[n] \cap OwnCopies]

Controller == INSTANCE KernelManagerController WITH Clients <- OwnCopies, fresh <- ownFresh

\* The sidecar does nothing to the cluster but what the controller's model
\* allows the rest of the cluster to do, so all that is shown of the
\* controller holds with this sidecar.
ControllerKeepsItsPromises == Controller!Spec

\* A kernel that is left alone ends, by itself or culled: from its pod's start
\* through the sidecar's label, the informer and the delete, across failed
\* calls, restarts of the controller and evictions.
IdleKernelsEnd ==
  []<>(\/ kms[Self].uid = 0
       \/ pods[Self].phase = "Failed" \/ cullPc = "dead")

=============================================================================
