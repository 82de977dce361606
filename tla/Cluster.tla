------------------------------- MODULE Cluster -------------------------------
(***************************************************************************)
(* The objects of one Kubernetes namespace that jupyrator's programs share *)
(* (KernelManager custom resources, ConfigMaps and Pods, all three under   *)
(* the KernelManager's name), and what the rest of the cluster does to     *)
(* them: users and the REST server create and delete KernelManagers, the   *)
(* monitor sidecar annotates and labels them, the kubelet runs pods, the   *)
(* garbage collector removes what a deleted KernelManager owned.           *)
(*                                                                         *)
(* An absent object is the zero value of its type, as a Go client leaves   *)
(* it after a NotFound.  A uid numbers the incarnations of one name.  It   *)
(* also stands for what each incarnation alone carries: its connection     *)
(* key in a ConfigMap, its address in a status.                            *)
(***************************************************************************)
EXTENDS Naturals

CONSTANTS
  Names,         \* names of KernelManagers in the namespace
  WithConn,      \* those whose spec has a kernelConnectionConfig
  WithTimeout,   \* those whose spec has idleTimeoutSeconds # 0
  MonitorImage,  \* TRUE when the controller runs with --monitor-image
  Clients,       \* the holders of copies of a KernelManager
  MaxUid,        \* bound: incarnations of one name
  MaxActs,       \* bound: activity annotations on one KernelManager
  MaxFaults      \* bound: failed calls, restarts and evictions

ASSUME ClusterAssumption ==
  /\ WithConn \subseteq Names
  /\ WithTimeout \subseteq Names
  /\ MonitorImage \in BOOLEAN
  /\ MaxUid \in Nat
  /\ MaxActs \in Nat
  /\ MaxFaults \in Nat

VARIABLES
  kms,       \* kms[n]: the KernelManager n
  cms,       \* cms[n]: the ConfigMap n
  pods,      \* pods[n]: the Pod n
  born,      \* born[n]: how many KernelManagers n were created so far
  fresh,     \* fresh[n]: clients whose copy of kms[n] has its resourceVersion
  cmFresh,   \* names whose cached ConfigMap has the current resourceVersion
  podFresh,  \* names whose cached Pod has the current resourceVersion
  faults     \* faults still to come

clusterVars == <<kms, cms, pods, born, fresh, cmFresh, podFresh, faults>>

-----------------------------------------------------------------------------
(* Objects.                                                                *)

PodPhase == {"", "Pending", "Running", "Failed"}
StatusPhase == PodPhase \cup {"unset"}

\* status: conditions and containerState are mirrored with phase and IP.
Status == [phase : StatusPhase, ip : Nat]
NoStatus == [phase |-> "unset", ip |-> 0]

KM == [uid : Nat, idle : BOOLEAN, ann : Nat, status : Status]
NewKM(u) == [uid |-> u, idle |-> FALSE, ann |-> 0, status |-> NoStatus]
NoKM == NewKM(0)

\* owner: uid in the controller reference; data: whose connection config.
ConfigMap == [owner : Nat, data : Nat, ann : Nat]
NoConfigMap == [owner |-> 0, data |-> 0, ann |-> 0]

\* mounted: whose connection config the containers of the pod started with.
Pod == [owner : Nat, phase : PodPhase, mounted : Nat]
NoPod == [owner |-> 0, phase |-> "", mounted |-> 0]

\* The sidecar is added when all three are configured.
HasMonitor(n) == MonitorImage /\ n \in WithTimeout /\ n \in WithConn

ClusterTypeOK ==
  /\ kms \in [Names -> KM]
  /\ cms \in [Names -> ConfigMap]
  /\ pods \in [Names -> Pod]
  /\ born \in [Names -> Nat]
  /\ fresh \in [Names -> SUBSET Clients]
  /\ cmFresh \subseteq Names
  /\ podFresh \subseteq Names
  /\ faults \in Nat

ClusterInit ==
  /\ kms = [n \in Names |-> NoKM]
  /\ cms = [n \in Names |-> NoConfigMap]
  /\ pods = [n \in Names |-> NoPod]
  /\ born = [n \in Names |-> 0]
  /\ fresh = [n \in Names |-> Clients]
  /\ cmFresh = Names
  /\ podFresh = Names
  /\ faults = MaxFaults

-----------------------------------------------------------------------------
(* Writes: each gives the object a new resourceVersion, which no copy has. *)

WriteKM(n, o) ==
  /\ kms' = [kms EXCEPT ![n] = o]
  /\ fresh' = [fresh EXCEPT ![n] = {}]

WriteConfigMap(n, o) ==
  /\ cms' = [cms EXCEPT ![n] = o]
  /\ cmFresh' = cmFresh \ {n}

WritePod(n, o) ==
  /\ pods' = [pods EXCEPT ![n] = o]
  /\ podFresh' = podFresh \ {n}

KMUnchanged == UNCHANGED <<kms, fresh>>
ConfigMapUnchanged == UNCHANGED <<cms, cmFresh>>
PodUnchanged == UNCHANGED <<pods, podFresh>>

-----------------------------------------------------------------------------
(* Users, the REST server and the monitor sidecar.                         *)

CreateKM(n) ==
  /\ kms[n].uid = 0
  /\ born[n] < MaxUid
  /\ born' = [born EXCEPT ![n] = @ + 1]
  /\ WriteKM(n, NewKM(born[n] + 1))
  /\ ConfigMapUnchanged /\ PodUnchanged /\ UNCHANGED faults

DeleteKM(n) ==
  /\ kms[n].uid # 0
  /\ WriteKM(n, NoKM)
  /\ ConfigMapUnchanged /\ PodUnchanged /\ UNCHANGED <<born, faults>>

\* The sidecar addresses the KernelManager by name, whoever owns its pod.
MonitorRuns(n) == HasMonitor(n) /\ pods[n].phase = "Running" /\ kms[n].uid # 0

AnnotateActivity(n) ==
  /\ MonitorRuns(n)
  /\ kms[n].ann < MaxActs
  /\ WriteKM(n, [kms[n] EXCEPT !.ann = @ + 1])
  /\ ConfigMapUnchanged /\ PodUnchanged /\ UNCHANGED <<born, faults>>

LabelIdle(n) ==
  /\ MonitorRuns(n)
  /\ ~kms[n].idle
  /\ WriteKM(n, [kms[n] EXCEPT !.idle = TRUE])
  /\ ConfigMapUnchanged /\ PodUnchanged /\ UNCHANGED <<born, faults>>

-----------------------------------------------------------------------------
(* The kubelet and the garbage collector.                                  *)

\* A pod that mounts a ConfigMap waits for it to exist.
StartPod(n) ==
  /\ pods[n].phase = "Pending"
  /\ n \in WithConn => cms[n].owner # 0
  /\ WritePod(n, [pods[n] EXCEPT !.phase = "Running",
                                 !.mounted = IF n \in WithConn THEN cms[n].data ELSE 0])
  /\ KMUnchanged /\ ConfigMapUnchanged /\ UNCHANGED <<born, faults>>

\* restartPolicy is Never: a pod that stopped stays stopped.
StopPod(n) ==
  /\ pods[n].phase = "Running"
  /\ WritePod(n, [pods[n] EXCEPT !.phase = "Failed"])
  /\ KMUnchanged /\ ConfigMapUnchanged /\ UNCHANGED <<born, faults>>

EvictPod(n) ==
  /\ pods[n].owner # 0
  /\ faults > 0
  /\ faults' = faults - 1
  /\ WritePod(n, NoPod)
  /\ KMUnchanged /\ ConfigMapUnchanged /\ UNCHANGED born

CollectPod(n) ==
  /\ pods[n].owner \notin {0, kms[n].uid}
  /\ WritePod(n, NoPod)
  /\ KMUnchanged /\ ConfigMapUnchanged /\ UNCHANGED <<born, faults>>

CollectConfigMap(n) ==
  /\ cms[n].owner \notin {0, kms[n].uid}
  /\ WriteConfigMap(n, NoConfigMap)
  /\ KMUnchanged /\ PodUnchanged /\ UNCHANGED <<born, faults>>

Environment(n) ==
  \/ CreateKM(n) \/ DeleteKM(n)
  \/ AnnotateActivity(n) \/ LabelIdle(n)
  \/ StartPod(n) \/ StopPod(n) \/ EvictPod(n)
  \/ CollectPod(n) \/ CollectConfigMap(n)

=============================================================================
