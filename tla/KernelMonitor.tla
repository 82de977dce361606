---------------------------- MODULE KernelMonitor ----------------------------
(***************************************************************************)
(* monitor/main.py: the sidecar of one kernel.  A daemon thread listens on *)
(* the kernel's iopub channel and stamps the time of the last activity;    *)
(* the main thread wakes up every CULLING_INTERVAL and labels the          *)
(* KernelManager idle when the stamp is older than IDLE_TIMEOUT.  Both     *)
(* change the same custom resource, reading it and replacing it in two     *)
(* calls, while its controller and its users write it too.                 *)
(*                                                                         *)
(* Time passes in ticks, any number of them between two steps.             *)
(***************************************************************************)
EXTENDS Cluster

CONSTANTS
  Self,          \* NAME: the KernelManager the sidecar was started for
  IdleTimeout,   \* IDLE_TIMEOUT
  Interval,      \* CULLING_INTERVAL
  CanCrash,      \* TRUE when a call may raise what is not an ApiException
  MaxWrites      \* bound: writes of the KernelManager by others

ASSUME MonitorAssumption ==
  /\ Self \in Names /\ HasMonitor(Self)
  /\ IdleTimeout \in Nat /\ Interval \in Nat \ {0}
  /\ CanCrash \in BOOLEAN
  /\ MaxWrites \in Nat
  /\ {"activity", "culler"} \subseteq Clients

VARIABLES
  kernel,     \* what the kernel does
  cells,      \* executions it was asked for so far
  iopub,      \* its "busy" messages not received yet
  quiet,      \* time since last_activity_timestamp, at most IdleTimeout + 1
  actPc, actCopy,    \* the activity thread, and the crd it read
  cullPc, cullCopy,  \* the main thread, and the crd it read
  nap,        \* what is left of the main thread's sleep
  writes      \* writes of others still to come

kernelVars == <<kernel, cells, iopub>>
actVars == <<actPc, actCopy>>
cullVars == <<cullPc, cullCopy, nap>>
vars == <<clusterVars, kernelVars, quiet, actVars, cullVars, writes>>

others == <<cms, pods, born, cmFresh, podFresh>>

PodRuns == pods[Self].phase = "Running"

\* The sidecar's process: the daemon thread ends with the main thread.
Alive == PodRuns /\ cullPc # "dead"

-----------------------------------------------------------------------------
(* The kernel.                                                             *)

\* The status "idle" that ends an execution is a message without effect.
BecomeReady ==
  /\ PodRuns /\ kernel = "starting"
  /\ kernel' = "idle"
  /\ UNCHANGED <<clusterVars, cells, iopub, quiet, actVars, cullVars, writes>>

StartCell ==
  /\ PodRuns /\ kernel = "idle" /\ cells < MaxActs
  /\ kernel' = "busy"
  /\ cells' = cells + 1
  /\ iopub' = iopub + 1
  /\ UNCHANGED <<clusterVars, quiet, actVars, cullVars, writes>>

FinishCell ==
  /\ PodRuns /\ kernel = "busy"
  /\ kernel' = "idle"
  /\ UNCHANGED <<clusterVars, cells, iopub, quiet, actVars, cullVars, writes>>

-----------------------------------------------------------------------------
(* update_cr_resource.                                                     *)

\* GET: the copy has the current resourceVersion.
Fetch(client) ==
  /\ kms[Self].uid # 0
  /\ fresh' = [fresh EXCEPT ![Self] = @ \cup {client}]
  /\ UNCHANGED kms

\* Bug: the replaced object carries no resourceVersion.
ReplaceBlindly(client, o) ==
  /\ kms[Self].uid # 0
  /\ IF o = kms[Self] THEN KMUnchanged ELSE WriteKM(Self, o)

\* PUT of the whole object: refused unless nobody wrote it since the GET.
Replace(client, o) ==
  /\ client \in fresh[Self] /\ kms[Self].uid # 0
  /\ IF o = kms[Self] THEN KMUnchanged ELSE WriteKM(Self, o)

Refused(client) == client \notin fresh[Self] /\ KMUnchanged

ApiError == faults > 0 /\ faults' = faults - 1 /\ KMUnchanged

-----------------------------------------------------------------------------
(* monitor_activity and update_last_activity.                              *)

\* The constructor waits for the kernel, stamps the time and clears iopub.
Start ==
  /\ Alive /\ cullPc = "waiting" /\ kernel # "starting"
  /\ cullPc' = "check" /\ actPc' = "receive"
  /\ quiet' = 0 /\ iopub' = 0
  /\ UNCHANGED <<clusterVars, kernel, cells, actCopy, cullCopy, nap, writes>>

\* Bug: a message is handled again when none is left.
ReceiveAgain ==
  /\ Alive /\ actPc = "receive"
  /\ iopub' = iopub - 1
  /\ quiet' = 0
  /\ actPc' = "get"
  /\ UNCHANGED <<clusterVars, kernel, cells, actCopy, cullVars, writes>>

ReceiveBusy ==
  /\ Alive /\ actPc = "receive" /\ iopub > 0
  /\ iopub' = iopub - 1
  /\ quiet' = 0
  /\ actPc' = "get"
  /\ UNCHANGED <<clusterVars, kernel, cells, actCopy, cullVars, writes>>

\* Every exception is caught and forgotten.
ActivityGet ==
  /\ Alive /\ actPc = "get"
  /\ \/ Fetch("activity") /\ actPc' = "put" /\ actCopy' = kms[Self] /\ UNCHANGED faults
     \/ kms[Self].uid = 0 /\ KMUnchanged /\ actPc' = "receive" /\ UNCHANGED <<actCopy, faults>>
     \/ ApiError /\ actPc' = "receive" /\ UNCHANGED actCopy
  /\ UNCHANGED <<others, kernelVars, quiet, cullVars, writes>>

ActivityPut ==
  /\ Alive /\ actPc = "put"
  /\ \/ Replace("activity", [actCopy EXCEPT !.ann = @ + 1]) /\ UNCHANGED faults
     \/ Refused("activity") /\ UNCHANGED faults
     \/ ApiError
  /\ actPc' = "receive" /\ actCopy' = NoKM
  /\ UNCHANGED <<others, kernelVars, quiet, cullVars, writes>>

-----------------------------------------------------------------------------
(* start: the main thread.                                                 *)

Sleep == cullPc' = "sleep" /\ nap' = Interval /\ cullCopy' = NoKM

\* The main thread ends, and with it the process.
Crash == CanCrash /\ cullPc' = "dead" /\ cullCopy' = NoKM /\ UNCHANGED nap

\* An ApiException is caught, anything else ends the loop.
OnError == Sleep \/ Crash

\* Bug: the comparison is the other way round.
CullerCheckActive ==
  /\ Alive /\ cullPc = "check"
  /\ IF quiet < IdleTimeout
     THEN cullPc' = "get" /\ UNCHANGED <<cullCopy, nap>>
     ELSE Sleep
  /\ UNCHANGED <<clusterVars, kernelVars, quiet, actVars, writes>>

CullerCheck ==
  /\ Alive /\ cullPc = "check"
  /\ IF quiet > IdleTimeout
     THEN cullPc' = "get" /\ UNCHANGED <<cullCopy, nap>>
     ELSE Sleep
  /\ UNCHANGED <<clusterVars, kernelVars, quiet, actVars, writes>>

CullerGet ==
  /\ Alive /\ cullPc = "get"
  /\ \/ Fetch("culler") /\ cullPc' = "put" /\ cullCopy' = kms[Self] /\ UNCHANGED <<nap, faults>>
     \/ kms[Self].uid = 0 /\ KMUnchanged /\ Sleep /\ UNCHANGED faults
     \/ ApiError /\ OnError
  /\ UNCHANGED <<others, kernelVars, quiet, actVars, writes>>

\* Also when the label is written the answer may get lost.
CullerPut ==
  /\ Alive /\ cullPc = "put"
  /\ \/ /\ Replace("culler", [cullCopy EXCEPT !.idle = TRUE])
        /\ Sleep \/ Crash
        /\ UNCHANGED faults
     \/ Refused("culler") /\ Sleep /\ UNCHANGED faults
     \/ ApiError /\ OnError
  /\ UNCHANGED <<others, kernelVars, quiet, actVars, writes>>

WakeUp ==
  /\ Alive /\ cullPc = "sleep" /\ nap = 0
  /\ cullPc' = "check"
  /\ UNCHANGED <<clusterVars, kernelVars, quiet, actVars, cullCopy, nap, writes>>

-----------------------------------------------------------------------------
(* Time, and the rest of the cluster.                                      *)

Tick ==
  /\ Alive
  /\ quiet <= IdleTimeout \/ nap > 0
  /\ quiet' = IF quiet <= IdleTimeout THEN quiet + 1 ELSE quiet
  /\ nap' = IF nap > 0 THEN nap - 1 ELSE 0
  /\ UNCHANGED <<clusterVars, kernelVars, actVars, cullPc, cullCopy, writes>>

\* A write of the KernelManager by others, such as its controller's of the
\* status, which a replace of the object does not touch.
OtherWrite ==
  /\ kms[Self].uid # 0 /\ writes > 0
  /\ writes' = writes - 1
  /\ fresh' = [fresh EXCEPT ![Self] = {}]
  /\ UNCHANGED <<kms, faults, others, kernelVars, quiet, actVars, cullVars>>

Elsewhere ==
  /\ CreateKM(Self) \/ DeleteKM(Self) \/ CollectPod(Self)
  /\ UNCHANGED <<kernelVars, quiet, actVars, cullVars, writes>>

-----------------------------------------------------------------------------
Init ==
  /\ kms = [n \in Names |-> IF n = Self THEN NewKM(1) ELSE NoKM]
  /\ cms = [n \in Names |-> NoConfigMap]
  /\ pods = [n \in Names |-> IF n = Self THEN [owner |-> 1, phase |-> "Running", mounted |-> 1]
                                         ELSE NoPod]
  /\ born = [n \in Names |-> IF n = Self THEN 1 ELSE 0]
  /\ fresh = [n \in Names |-> {}]
  /\ cmFresh = {} /\ podFresh = {}
  /\ faults = MaxFaults
  /\ kernel = "starting" /\ cells = 0 /\ iopub = 0
  /\ quiet = 0 /\ nap = 0
  /\ actPc = "waiting" /\ cullPc = "waiting"
  /\ actCopy = NoKM /\ cullCopy = NoKM
  /\ writes = MaxWrites

Activity == ReceiveBusy \/ ActivityGet \/ ActivityPut
Culler == CullerCheck \/ CullerGet \/ CullerPut \/ WakeUp

Next ==
  \/ BecomeReady \/ StartCell \/ FinishCell
  \/ Start \/ Activity \/ Culler
  \/ Tick \/ OtherWrite \/ Elsewhere

Spec == Init /\ [][Next]_vars

\* Both threads are scheduled and time passes; a kernel may execute for ever.
Fairness == WF_vars(Start) /\ WF_vars(Activity) /\ WF_vars(Culler) /\ WF_vars(Tick)

FairSpec == Spec /\ Fairness

-----------------------------------------------------------------------------
(* Properties.                                                             *)

\* Every variable holds a value of its type.
TypeOK ==
  /\ ClusterTypeOK
  /\ kernel \in {"starting", "idle", "busy"}
  /\ cells \in 0..MaxActs /\ iopub \in 0..cells
  /\ quiet \in 0..(IdleTimeout + 1) /\ nap \in 0..Interval
  /\ actPc \in {"waiting", "receive", "get", "put"} /\ actCopy \in KM
  /\ cullPc \in {"waiting", "check", "get", "put", "sleep", "dead"} /\ cullCopy \in KM
  /\ writes \in 0..MaxWrites

Update ==
  \E n \in Names : \/ CreateKM(n) \/ DeleteKM(n) \/ AnnotateActivity(n) \/ LabelIdle(n)

\* No update is lost and none is applied to another incarnation than was
\* read: each change of a KernelManager changes the current object as the
\* controller's model takes it to be changed, whichever thread, controller or
\* user wrote it since the GET.
NoLostUpdate == [][Update]_kms

\* A kernel that stays without activity is labelled while its sidecar lives,
\* also when calls are refused or fail with an ApiException, and whatever
\* other writers, activity and earlier incarnations came before.
IdleIsLabelled ==
  <>[](kernel = "idle" /\ iopub = 0 /\ Alive /\ kms[Self].uid # 0) => []<>kms[Self].idle

=============================================================================
