# A TLA+ verification of jupyrator

jupyrator runs Jupyter kernels as Kubernetes custom resources. A REST server
turns requests into `KernelManager` objects, a controller turns each of them
into a ConfigMap and a Pod, and a sidecar in the Pod labels the KernelManager
once its kernel is idle, which makes the controller delete it. No part calls
another: they meet in the objects they read and write, each at its own pace and
each with copies that may be stale. That is where they can go wrong, and what
this project models.

## The system

| Component | State it keeps | Operations | Talks to |
|---|---|---|---|
| Reconciler (`controller/internal/controller`) | informer caches, work queue, the instance being reconciled | `Reconcile`: cull, ensure ConfigMap, ensure Pod, update status; re-emit an Event | reads caches, writes the API server; woken by watches on KernelManagers and on the ConfigMaps and Pods they own |
| ConfigMap helpers (`controller/internal/reconcilehelper`) | none | `CopyConfigMapFields`, `ToSnakeCaseJSON` | called by the reconciler |
| Metrics (`controller/internal/metrics`) | counters and a gauge | counted by `Reconcile`, collected by Prometheus | lists pods from the cache |
| Manager (`controller/cmd/main.go`) | leader lease | start, restart, fail-over | starts the reconciler |
| Monitor sidecar (`monitor/main.py`) | last activity stamp, under a lock | activity thread annotates, main thread labels; both GET and then PUT the resource | the kernel's iopub channel, the API server |
| Kernel client (`apiserver/.../client.py`) | none but the coroutines' frames | `acreate` (create, poll, clean up), `aget_kernel_by_id`, `alist`, `adelete_by_kernel_id` | the API server, through an executor |
| Kernel manager, handlers (`apiserver/.../kernel_manager.py`, `handlers/`) | none | start, get, list, remove, check, contains, shut down all; REST and websocket handlers | the kernel client |
| Server's threads (`kernel_manager.py`'s `run_sync`, `client.py`'s executor) | event loops, the executor's queue | `await` a call, block a loop for a synchronous method | all requests share them |
| Records (`schema.py`, `client.py`'s `_deserialize`, generated models) | none | payload to custom resource, custom resource to `KernelModel` | what each program stores is read by the others |
| Authentication, CORS, health, OpenAPI, kernel specs, manifests | none | | |

What is hard here:

- **stale reads**: the reconciler acts on caches that trail the store, and one
  reconciliation is up to four reads and three writes;
- **names reused**: ConfigMap, Pod and KernelManager share one name, and all
  programs address objects by it, so an object may belong to an earlier
  incarnation of the name;
- **wakeups**: nothing is retried unless an error or a watch queues the name;
- **failures**: calls fail with or without effect, the controller restarts,
  pods are evicted;
- **read-modify-write**: the two monitor threads, the controller and users
  replace the same object;
- **requests**: creates that wait, give up and clean up, interleaved with
  deletes and with other creates of the same id, some of which block the event
  loop that serves them all;
- **records**: one object written by four programs in three forms, with entries
  that may be missing.

`PROJECT.json` lists the hazards line by line with the properties that cover
each.

## Modules

| Module | Models |
|---|---|
| `Cluster` | the objects, the API server's optimistic concurrency, users, the kubelet, the garbage collector |
| `ClusterProofs` | lemmas about it that the theorems below share |
| `KernelManagerController` | `Reconcile`, its caches, queue, watches, failures and restarts |
| `KernelManagerControllerProofs` | theorems about it |
| `KernelLifecycle` | the abstract promise: what becomes of one kernel name |
| `KernelMonitor` | `monitor/main.py` and the kernel it watches |
| `KernelMonitorProofs` | theorems about it |
| `KernelSystem` | the controller and the sidecar composed |
| `KernelSystemProofs` | theorems about it |
| `KernelClient` | REST requests, through the kernel manager and the kernel client |
| `KernelClientProofs` | theorems about it |
| `EventLoop` | the server's event loop, its runners and the executor |
| `KernelRecords` | the payload, the stored object, the generated models, `KernelModel` |
| `ServerProofs` | theorems about the last two |
| `ConfigMapFields` | `CopyConfigMapFields` |
| `ConnectionFile` | `ToSnakeCaseJSON`, and the ConfigMap reconciled with what it makes |
| `StatusMirror` | `createKernelManagerStatus` |
| `CopiedFieldsProofs` | theorems about the last three |
| `KernelMetrics` | the counters, the gauge and concurrent scrapes |
| `KernelMetricsProofs` | theorems about it |

`KernelManagerController`, `KernelMonitor` and `KernelClient` EXTEND `Cluster`,
and each replaces the part of its environment that its program is.
`KernelSystem` puts the first two together; `ConnectionFile` EXTENDS
`ConfigMapFields`; the controller instantiates `KernelLifecycle` under a
refinement mapping. The other modules look into one part in more detail than the
composed models need. The configurations give the constants of a module
directly; no definition is replaced.

### Cluster

One namespace. `kms`, `cms` and `pods` map each name to an object, an absent
object being the zero value of its type, as a Go client leaves it after a
NotFound. A `uid` numbers the incarnations of one name and stands for all that
an incarnation alone carries: its owner references, the connection key in its
ConfigMap (`data`), its pod's address (`ip`). `ann` is the last activity
annotation, counted rather than dated. A pod remembers in `mounted` whose
connection file its containers started with.

A resourceVersion is compared only for equality, so it is not a number here:
`fresh[n]` is the set of clients whose copy of KernelManager `n` has the current
one, and `cmFresh` and `podFresh` the names whose cached ConfigMap or Pod has. A
write empties them; an update needs membership. This makes the states finite
without bounding the number of writes.

The options a spec may have are the constants `WithConn` (a connection config),
`WithTimeout` (an idle timeout) and `MonitorImage`. A spec does not change:
nothing in the repository edits one.

### KernelManagerController

The worker takes a name (`FetchInstance`, lines 101-125 of
`kernelmanager_controller.go`), and then runs the parts of `Reconcile` as the
actions `Cull`, `EnsureConfigMap`, `EnsurePod` and `UpdateStatus`, each with the
cache read, the comparison and the one write it makes. The cluster and the
informers move between any two. `SyncKM`, `SyncConfigMap` and `SyncPod` deliver
the current object to a cache and queue the name, which is what
`SetupWithManager` asks for. A write may be refused (the object exists, is gone,
or has another resourceVersion), may be made and have its answer lost, and a call
may fail without effect (`ApiError`); each is an error return that queues the
name again. `Restart` is a new process or leader: empty queue, then the initial
list.

Simplifications, each with its reason:

- An informer delivers the latest object at once instead of one version after
  another. A cache that is behind behaves alike whichever stale version it holds:
  an update with it is refused, a create with it is decided by the store. Only
  the content copied from a stale version could differ, and that is replaced
  when the current one is delivered.
- One worker: `SetupWithManager` leaves MaxConcurrentReconciles at 1.
- A status is its phase and the incarnation whose address it shows. Conditions
  and container state follow the pod like the phase does. The times of a
  condition may be the time of the reconciliation, so `UpdateStatus` may write a
  status although nothing changed.
- Back-off is not modelled: a name that failed is back in the queue at once.

Two constants name the special cases that share the worker with all other
names: `EventNamed`, names that are also an Event's (the request is taken for
the Event's, and the lookup of its object may fail for ever), and
`NoContainers`, names whose pod template has no container (`generatePod` panics
at `Containers[0]`, which controller-runtime turns into an error).

### KernelLifecycle, and how the controller implements it

`life[n]` is *absent*, *requested*, *starting*, *running* or *ended*. A step
advances one name by one stage, loses its pod (back to *requested*) or removes
the KernelManager. The mapping `life` in `KernelManagerController` reads the
stage off the store alone: a pod of another incarnation is no pod of this
KernelManager. `FollowsLifecycle` is the abstract `Init /\ [][Next]_life`,
`ProgressesInLife` its liveness. So whatever caches, conflicts and retries do,
no KernelManager gets a second pod over its first, no pod's phase goes back, and
only a deletion ends a life.

### KernelMonitor

The activity thread (`actPc`) and the main thread (`cullPc`) each run
`update_cr_resource` as a GET and a PUT with everything else between them. Time
passes in ticks: `quiet` is the age of the activity stamp, capped just above the
timeout, and `nap` is what is left of the sleep. An `ApiException` is caught in
both threads. Any other exception ends the main thread, and with it the process
(`Crash`), if `CanCrash`. Another incarnation of the KernelManager may take the
name while the sidecar of the old pod still runs.

### KernelSystem

`KernelManagerController` with `KernelMonitor` (instantiated, on the same
`kms`, `pods` and `fresh`) in place of the atomic `AnnotateActivity` and
`LabelIdle`, and the controller in place of the monitor's `OtherWrite`. The
kubelet's start of the pod starts the sidecar from the beginning. The sidecar's
failed calls are counted apart (`monitorFaults`).

`ControllerKeepsItsPromises` is the refinement: under the mapping that forgets
the sidecar's variables and its copies' freshness, every step of the composition
is a step of the controller's own model. All safety shown of the controller
therefore holds with the real sidecar.

### KernelClient

Every request is a coroutine that makes one call to the API server per step.
`Arrive` is the handler; a request without its user or with an invalid body is
turned away (`TurnAway`). `Create` to `Delete` are the calls of `acreate` and
`adelete_by_kernel_id` (also as `acreate`'s cleanup and as each step of
`ashutdown_all`), `Read` those of `aget_kernel`, `acheck_kernel_id`,
`__contains__` and the websocket's lookup, whose answers differ (`Outcome`), and
`List` those of `alist`. Faults cover both `ApiException` and anything else,
with and without effect where that differs. `reply` records what a request was
answered and about which incarnation. A kernel id and a KernelManager name
determine each other (one kernel spec), and all requests are of one namespace. A
delete of several kernels is one delete of each, run concurrently; the one
answer to all of them, at the first exception, is left out. At first there is a
kernel of each name, and users may delete any at any time. `ReportStatus` has the
controller mirror any phase at any time, also the predecessor's pod's: requests
tell only *Running* from the rest. `shutdown_all` has no caller in the
repository; it is a public method of the kernel manager and modelled as a
request.

### EventLoop

`Program` is what each kind of request does to the threads: `await` a call in
the executor, `block` the loop it is on for a method made with `run_sync`, which
goes on in the loop of another thread (the runner of the blocked one), and
`return` from it. `shutdown` blocks twice, `ashutdown_all` calling the
synchronous `list_kernel_ids`, and then makes two calls, a lookup and a delete,
for the kernel it listed, there being one in the model. Loops are numbered by depth, 0 being the server's.

### KernelRecords

Values are tagged with their Python types. `KernelDict` is the dict `acreate`
builds; `Deserialize` passes it through `V1Kernel` and its parts, with their
entries, types and required entries. The models contain each other to a known
depth, so the calls of `_deserialize` are a tower of operators, one of which is
`DeserializeBy` with the next one inside it, and not a recursion. `KernelModel` is
`model_validate`, in which an entry that is missing is an exception (`Error`). The controller adds a
status, the monitor a time stamp, and kubectl applies manifests that lack
entries. The connection has three entries instead of eleven: an address, which
the status replaces, a port and a secret.

### ConfigMapFields and ConnectionFile

The labels, annotations, data and binary data (there are some or none) of the wanted and the stored ConfigMap as
functions over subsets of the keys, edited at will, with `UpdateTo` as the
reconciler's use of `CopyConfigMapFields`. A missing key reads as the empty
string, as in Go. `ConnectionFile` makes the data: keys are sequences of
letters, `ConvertToSnakeCase` works letter by letter, and `ToSnakeCaseJSON`
is the set of files that may come of a configuration, since Go's iteration over
a map has any order.

### StatusMirror

The part of a reconciliation the controller's model shows as `Mirror`: phase,
state of the main container, probe and transition times, either of which is the
current time where the pod has none (`TimeOf`). Container states are structs of
pointers, and `==` compares the addresses, so two states decoded apart are equal
only when both are empty (`SameState`).

### KernelMetrics

`Reconcile` counts before it creates and counts the failure afterwards. A scrape
lists the pods, sets the gauge of each namespace that has one and collects
the metrics one after the other, with `Reconcile` and other scrapes in between.

## Runs

| Run | Shows | Bounds | States |
|---|---|---|---|
| `ControllerSafety` | `NoLostWakeup`, `NeverStaleConfig`, `CullSparesUnlabelled`, `FollowsLifecycle` | 1 name, 2 incarnations, 2 annotations, 1 fault | 3.4 M |
| `ControllerLive` | idle ones are culled, the others served and their status right in the end, nothing is orphaned, every life progresses | 1 name, 2 incarnations, 1 fault | 321 k |
| `ControllerOthers` | a name is served although an Event hides another and fails for ever, and a third panics each time | 3 names, 1 incarnation each, 1 fault, no connection config | 382 k |
| `Monitor` | every write changes the current object only as intended; an idle kernel is labelled | 2 incarnations, 3 cells, 1 fault, 2 foreign writes, timeout 2, interval 1 | 274 k |
| `System` | the composition refines the controller's model; idle kernels end | 1 incarnation, 1 fault, timeout 1, interval 1, no cells | 497 k |
| `Client` | every request is answered, creates with a new kernel; a cleanup spares the kernels there were; nothing leaks, and what was deleted or shut down is gone, unless one of few calls of that very request failed | 2 requests of any kind, 2 ids in use, 3 incarnations, 1 fault | 997 k |
| `Loop` | blocked loops wait for their own runner only; no deadlock; every request is answered | 3 requests, 1 worker | 40 k |
| `Records` | requested kernels read back as asked, with text in the environment | 2 ids, 2 timeouts, 1 image, manifests without id or volumes | 21 k |
| `ConfigMap` | an update is not followed by another, leaves nothing foreign, and the file is complete and stable | 1 key of 3 values; configurations of 2 keys of 2 letters, 3 settings | 353 k |
| `StatusMirror` | the status is the pod's; repeating it is quiet | 1 condition, 2 seconds | 117 k |
| `Metrics` | creations are counted, successes not overstated, the gauge catches up | 2 scrapes, 2 pods, counters up to 2 | 430 k |
| `ControllerCullOnlyLabelled` | *violated*: a cull deletes a new KernelManager without label | 2 incarnations | |

Why the bounds are enough to be interesting: two incarnations are what it takes
to have an object of the previous one under the name; two annotations let the
ConfigMap's copy be behind, equal, and behind once more; a fault may hit any
call, restart or eviction, one of them being enough to leave half of a
reconciliation behind. Several names are needed only for what shares the worker
and the queue. Two requests beside users and culls that delete at
any time are what an id takes to be deleted and created again under a request
that waits, by the other one; an id is in use at first, so a third incarnation
lets both requests create it. Both ids being in use, a shutdown of all has two
kernels to stop, between which users, culls, the other request or a fault may
come. In `System` the kernel executes nothing, which is
when its end is due; that the sidecar's annotations are changes the controller's
model allows too is what `NoLostUpdate` says, for any number of executions. Two
letters make camel case keys (`aA`) and their lower case twins (`aa`). Three cells
let one annotation be refused, one be dropped and one be written. Where a theorem exists it removes the bound.

Deadlock is not checked (`CHECK_DEADLOCK FALSE`) where the system may rest: no
KernelManager is left to create, all requests are answered, or the pod is gone.

The properties, in words:

- `NoLostWakeup`: when a name is not queued, not being reconciled, and its three
  caches are current, then its KernelManager has its pod, its own connection
  config and the status of its pod, and is not waiting to be culled. A level
  triggered controller that has this needs no periodic resync.
- `NeverStaleConfig`: a pod never starts with the connection file of an
  incarnation older than its own, although an updated ConfigMap keeps the owner
  reference of the old one and may be collected and made again at any time. That
  the file may be of a *newer* one is harmless: such a pod is being collected.
- `CullSparesUnlabelled`: a cull deletes a KernelManager with the label, or a
  later incarnation than the labelled one it was decided for. The second case is
  the disagreement below; that it is the only one is what the property adds: no
  stale copy, no status written over the object and no restart ever has the
  controller cull one that it took for labelled without reason.
- `IdleIsCulled`, `EveryKMIsServed`, `StatusIsMirrored`, `NoOrphans`: what the
  controller must eventually do.
- `NoLostUpdate`: a step that changes a KernelManager is a creation, a deletion,
  one more annotation or the idle label, applied to the object as it is then.
  Stated with the actions `Cluster` gives the rest of the system, it is also what
  justifies the controller's view of the sidecar (`AnnotateActivity`,
  `LabelIdle`): the monitor, read and write apart, does to the store what these
  atomic steps do.
- `IdleIsLabelled`: conflicts and API errors delay the label and cannot prevent it.
- `ControllerKeepsItsPromises`, `IdleKernelsEnd`: see KernelSystem. The latter
  spans three programs: no KernelManager stays for ever with an idle kernel.
- `NoLeak`: a create answered with any error leaves no kernel of its own behind.
  `DeletedIsGone`: what was answered as deleted is gone. `ShutdownStopsAll`: when
  a shutdown returns, what it listed is gone, and when it raises, what it had come
  to. Each names the calls of the request that must not have failed, which the
  history variable `failed` keeps: a create whose answer is lost, whose cleanup
  fails, or whose last read fails (client.py:227, answered 500) does leave its
  kernel; a lookup that fails is taken for a kernel not found; and a shutdown
  whose delete of a kernel fails raises, that kernel perhaps running on. What
  fails of another request changes nothing, and neither do a create's polls.
  `CleanupSparesOthers`: the cleanup of a create deletes by id, and yet no kernel
  that was there before the create; a later one of the id it may delete.
  `CreatesAnew`: no create is answered with a kernel that was there before it.
  `EveryRequestIsAnswered`: none waits for ever, failures or not.
- `RunnersArePrivate`: a loop is blocked by one request, which runs further down,
  where nobody else does. `NobodyIsStuck` is what that is for: however requests
  nest their blocking calls, each unanswered one can go on, or a request that
  blocks its loop, or a loop below that, can. So blocking inside the event loop,
  twice over, cannot deadlock; on the server's own loop it would.
- `RequestedKernelsRead`, `ReadsBackAsAsked`, `EnvironmentIsText`: a requested
  kernel survives the way through dict, models, API server, controller and monitor.
- `UpdateSettles`, `NothingForeign`, `FileIsComplete`, `NothingToRewrite`: an
  update does not cause another, what the ConfigMap says the KernelManager says,
  and each configured value is in the file under the name of its own key. That
  names differ is checked, and not that snake case is the right form of them.
- `StatusIsThePods`, `RepeatedIsQuiet`: a status does not depend on the one
  before, the container state wherever the pod reports the main container, and a
  reconciliation with nothing to report writes nothing new if the pod's
  conditions have both their times.
- `CreationsAreCounted`, `SuccessesAreReal`, `GaugeCatchesUp`: the counters bound
  the pods that were made from both sides, also as a scrape sees them that
  collects one counter after the other.

### Where the code and what is said of it differ

`ControllerCullOnlyLabelled` shows one case: the comment says that a
KernelManager with the label is culled, and a cull decided on a stale cache
deletes by name, whatever has the name by then.
Others came up while modelling; the properties above are stated so as to hold
with them, and the hazards in `PROJECT.json` name the lines:

- the docstring of `adelete_by_kernel_id` says that it returns when the kernel is
  deleted or does not exist, and it also returns when its lookup fails;
- a KernelManager that reuses a name shows its predecessor's pod's phase and
  address until that pod is collected, and the old pod's sidecar, which knows
  only the name, may label it idle;
- a label or annotation that was added to a KernelManager is not copied to an
  existing ConfigMap;
- a create whose last read fails is answered 500 and its kernel runs on,
  although a create that fails earlier cleans up;
- a pod reported without its main container (an evicted one) empties the
  container state, which the comment (kernelmanager_controller.go:386-388) and the
  message logged (411-413) say is not updated; no property claims either;
- the gauge that says "Current running kms" (metrics.go:44) counts the labelled
  pods of any phase;
- a kernel is labelled during an execution that is longer than the idle timeout,
  or after activity that came between the check and the label;
- one manifest without the id label, volumes, environment or working directory
  makes every list of kernels raise `KeyError`, and a time stamp without
  fraction makes reading raise `ValueError`;
- `ashutdown_all` ends with an error, the remaining kernels running, when one it
  listed is deleted by somebody else; `__contains__` raises for an unknown id;
- the culling metrics are counted and not collected, and the gauge of a namespace
  without pods keeps its last value.

### Fairness

The controller's liveness assumes weak fairness of the worker once it has a name
(`Reconcile`), of each informer delivery, of the garbage collector and of the
kubelet's start of a pod; and strong fairness of taking each queued name, since
the queue is first in, first out: a name in it is taken although others come and
go, and its turn can be interrupted only by another name's. Nothing is assumed of
users, of the sidecar, of pods ending, or of failures, except that `MaxFaults`
bounds the latter: a call that fails for ever is an outage. The Event branch has
no fairness at all, so its failing for ever is a behaviour of the model.

The monitor's threads are scheduled by the operating system and time passes
(weak fairness of each thread and of `Tick`). The kernel has none: it may run a
cell for ever. The client assumes that the executor runs each request's calls,
which carry a request timeout, and that the wait's clock advances. In `EventLoop`
each loop takes its callbacks in turn and the executor its calls, which is
strong fairness: a loop that is blocked again and again still serves a callback
that waits.

`KernelSystem` assumes what its parts do, that kernels become ready, and strong
fairness of a label that is written (`Label`): the sidecar tries once every
interval, and of these attempts not every one is overtaken by another write
between its GET and its PUT. The scrapes of `KernelMetrics` come again and again,
and not every list of pods fails.

## Proofs

Everything below is proved with TLAPS for all constants that satisfy the named
assumptions, hence for any number of names, incarnations, annotations, failures
and any timeouts. The assumptions give the constants their types, and say that
- `MonitorAssumption`: the sidecar exists, that is, its KernelManager asks for one;
- `SystemAssumption`: the one name of the composition has a sidecar, which is
  among the clients, and no Event has that name;
- `ClientAssumption`: there is a name to request;
- `LoopAssumption`, `MetricsAssumption`: `"none"`, which stands for nobody and for
  no namespace, is not the name of a request or of a namespace;
- `KeysAssumption`: the files that `ToSnakeCaseJSON` makes are among those a
  ConfigMap may hold, and the keys of configurations are finitely many.

**`TypeCorrect`** (`Spec => []TypeOK`, controller and monitor): by cases on the actions, with the record
types opened once, in lemmas on the fields of an object (`KMFields`,
`ConfigMapFields`, `PodFields`).

**`WakeupsNotLost`** (`Spec => []NoLostWakeup`). The property says nothing about
the middle of a reconciliation, where it is established, so it is not inductive.
`WakeInv` adds
- `CopiesCurrent`: a copy counted as current is the object;
- `AbsentIsZero`: a KernelManager without uid is absent;
- `InstanceHeld`: the worker's instance is the cached one unless the name was
  queued again, and it is in the part of `Reconcile` its label and options choose;
- `ConfigMapEnsured`, `PodEnsured`: past each part, what that part is for holds,
  unless the name was queued again or a delivery that will queue it is due.

The pattern is the same in all of them: *done, or queued, or to be queued by an
undelivered change*. One lemma per group of actions (`EnvWake`, `SyncWake`,
`FetchWake`, `CullWake`, `ConfigMapWake`, `PodWake`, `StatusWake`, `RestartWake`)
keeps it, and `FailWake` covers every error return at once.

**`ConfigNeverStale`** (`Spec => []NeverStaleConfig`). `ConfigInv` orders the
incarnations seen by the store, the caches, the worker and the objects it made:
nothing is numbered above the creations so far (`InNumberOrder`), no object is
newer than what the informer has shown or the worker holds (`MadeFromCache`,
`MadeBeforeInstance`), a cached ConfigMap is not ahead of the stored one
(`ConfigMapAhead`), and when a pod is made, and as long as it exists, a ConfigMap
of its name is at least as new (`ConfigMapBeforePod`). The last is the point of
ensuring the ConfigMap before the Pod.

**`CullsSpare`** (`Spec => CullSparesUnlabelled`). A cull is decided on the
instance the worker holds, which may be long out of date when it deletes. That
no harm comes of it is `LabelStays`: as long as a KernelManager exists, its label
stays, so the store has whatever label a cache or the instance shows of the same
incarnation. This is relative to the incarnations, and so needs of `ConfigInv` that the
caches and the worker's instance are not of a later one than the store's last
(`InNumberOrder`, `MadeBeforeInstance`), and `InstanceHeld` for the label by
which the worker came to `Cull`.

**`LifeFollowed`** (`Spec => FollowsLifecycle`). The stage of a name depends on
its KernelManager's uid and its pod alone (`SameStage`), so only the steps that
create or delete a KernelManager or write a pod matter; each of them concerns
one name (`OneLife`) and is a step of the lifecycle (`EnvLife`, `ReconcileLife`).
The pod the worker makes is of the incarnation it holds; when that is gone, the
new pod leaves the stage as it is. It needs `TypeOK` and, of `ConfigInv`, that no
pod is of an incarnation not created yet: a new KernelManager begins without a
pod of its own.

**`UpdatesNotLost`** (`Spec => NoLostUpdate`, monitor). `UpdateInv` says that what
a thread is about to PUT derives from the current object, or its resourceVersion
is not current and the PUT will be refused (`CopiesCurrent`), and that
annotations, messages to be received and the one in hand together are no more
than the executions of the kernel (`Counted`), since `AnnotateActivity` allows
only so many. Without the first, an annotation could be written into the next
incarnation, or the label could erase an annotation. One lemma per group of
actions (`QuietUpdate`, `GetUpdate`, `ActivityUpdate`, `CullerUpdate`,
`ElsewhereUpdate`) shows that each keeps `UpdateInv` and what it does to `kms`.

**`ControllerImplemented`** (`SystemSpec => ControllerKeepsItsPromises`): the
controller and the sidecar together implement the controller in its abstract
cluster, where annotations and labels come from anywhere. The mapping forgets the
sidecar's variables and which of its copies are current (`ownFresh`). A step of
the cluster or the controller is the same step there (`EnvironmentCarried`,
`InputCarried`, `ReconcileCarried`, `FaultCarried`); the kernel, time, a GET and
a PUT in vain are nothing (`Apart`); and a PUT that is made is `AnnotateActivity`
or `LabelIdle` of the current object (`ActivityPuts`, `CullerPuts`). The last
needs `SystemInv`: the sidecar's copies are current or will be refused
(`SidecarCopies`), and annotations, messages and the one in hand stay within the
executions (`ActivityCounted`), across pods that are recreated and sidecars that
begin again. **`PromisesWithSidecar`** draws the conclusion for the composition
itself: each of its steps is a step of the controller's model or leaves what the
controller's invariants speak of alone (`ApartInv`), so no wakeup is lost, no
configuration is stale, a cull spares the unlabelled and the lifecycle is
followed.

**The client** (`TypeCorrect`, `NothingLeaks`, `DeletedStaysGone`,
`ShutdownIsComplete`, `CreatedIsNew`, `CleanupSpares`). The six rest on one
invariant,
`ClientInv`: the numbers of the incarnations a request has seen are not above
those created (`Numbered`), and for each request, what it may claim at the line
where it is (`RequestInv`):
- `Unanswered`: a request that runs has answered nothing, and has made nothing
  before its POST;
- `WaitsForItsOwn`: a create waits for the incarnation it made, or cleans it up,
  which is newer than what it found, and what has the name now is that one or a
  later one, which is what spares the older ones in a cleanup;
- `AnsweredRight`: what an answer says held when it was given and still does;
- `ShutSoFar`: the names a shutdown is done with, or stopped at, have lost what it
  listed (`DoneSoFar`).

Three of the properties say that an incarnation is gone, and they stay true
under every other request's steps because a name's incarnations only grow
(`Aged`, `GoneForGood`): what was deleted cannot return, only be succeeded. What
the failures of a request's own calls excuse is by calls: `failed` keeps those
that failed, and each way to leave a kernel behind needs its own (`FailedCalls`).
Each
action has one lemma, and every step is, for each request, its own or one that
leaves it aside (`ActsOrAside`). Since what a read answers depends on the
operation, typing needs to know that a call belongs to it (`TypeInv`).

**`RunnersStayPrivate`, `WaitingEnds`** (event loop). `LoopInv` adds to the
first property where each part of a request runs (`Depth`: a handler on the
server's loop, each `run_sync` below it one loop further down) and that who waits
for a call has one under way (`CallIsAwaited`). Freedom from deadlock follows
from that invariant: who blocks a loop runs further down and is not answered
(`HolderBelow`, `RunnersAreUsed`), nobody blocks the deepest loop, and where
nobody blocks the loop a request can go on, or its call can, or the calls ahead
of it in the executor (`FreeMoves`, `WorkersAreThere`).

**The records** (`RequestsRead`, `AsAsked`, `EnvironmentOfTexts`), for any ids,
idle timeouts, images and working directories. `OnlyTheEnvironmentChanges` computes what `acreate` stores:
the dict it made, with the numbers of the environment as texts. It is proved
from the inside out: a model whose entries are declared, complete and valid is
the dict of its entries at each depth of `_deserialize` (`ModelLevels`, and
`EachLevel`, `Primitives` for the other types), which is applied to the
environment, the volumes, the mounts, the container, and so on to `V1Kernel`.
So the models refuse no request, and lose nothing of it. `RecordsInv` says that
what is stored of a request has the spec of that object, its id and creation
time, and of the status and the annotations nothing or what one write of the
controller or the monitor gives (`RecordOf`); the writes keep it because each is of
one entry (`GetsWith`, `MirroredRecord`, `StampedRecord`). What `KernelModel` reads of such an object
are then the request's own values (`FieldsRead`, `ConnectionRead`, `StatusRead`, `ActivityRead`).

**`CreationsCounted`, `ReportedSuccesses`** (metrics). `MetricsInv` adds to the
two properties what a scrape has collected halfway (`ReportedSoFar`): between the
creations and the failures, it has reported no more creations than the pods made
and the failures counted by now leave room for.

**The ConfigMap** (`FieldsTyped`, `UpdateIsIdempotent`, `ForeignIsRemoved`): after
the copy, the compared keys are the wanted ones, and the wanted data are always a
file of the configuration and no binary data (`FileInv`). `FileIsWhole` and `NothingIsRewritten`
follow from that under the hypothesis `KeysStayApart`, that no two keys of a
configuration have one snake case: then the file has each value under its own
key, and Go's order of iteration makes no other (`FileOfConfig`). The hypothesis
is what `ConvertToSnakeCase` computes letter by letter. To prove it would take an
induction over keys, so it is evaluated by TLC, on all keys of the bound, and
shown in the run by `FileIsComplete`.

**`StatusMirrored`, `RepetitionIsQuiet`** (status). `Mirrored` gives the whole
status from the pod that was seen, all but the times the pod did not have:
a container is passed over only when it and the old status have no state
(`NoneIsPassedOver`).

The inductive invariants, `WakeInv`, `ConfigInv`, `LabelStays`, `SystemInv`,
`ClientInv`, `LoopInv`, `RecordsInv`, `MetricsInv`, `FileInv` and `Mirrored`,
were model-checked before they were proved.

Every safety property of the runs that pass is proved, `FileIsComplete` and
`NothingToRewrite` under the hypothesis `KeysStayApart`. Only model-checked are
liveness, all of it (TLAPS has no rules for fairness and ENABLED here), and
that hypothesis, which is an induction over data.

## Not modelled, and why

- Edits of a KernelManager's spec: the controller would not apply them to an
  existing pod, and nothing in the repository makes any.
- Event re-emission beyond its effect on the queue: it writes no object.
- What the API server validates: a pod it refuses for ever behaves as one whose
  template has no container.
- Lookups over several namespaces; the `wait_for_ready=False` branch of
  `acreate`, which no caller takes; the file and date branches of `_deserialize`,
  which no model has entries for.
- The websocket's traffic after its lookup, routing, and the wording of errors.
- CORS, health checks, OpenAPI, kernel specs, option parsing, logging,
  manifests, generated accessors and deep copies: no state, or data only.

## What is left

1. Payloads with any number of volumes, of any kind Kubernetes has.
2. The culling metrics and the gauge's catching up in more namespaces at once.
3. Several names in `KernelSystem`, each with its sidecar.
