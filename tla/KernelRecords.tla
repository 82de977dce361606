---------------------------- MODULE KernelRecords ----------------------------
(***************************************************************************)
(* apiserver/: what a KernelManager looks like between the programs.       *)
(* acreate turns a request's payload into a dict, passes it through the    *)
(* generated models and stores it; kubectl stores manifests of its own;    *)
(* the controller and the monitor add the status and the last activity;    *)
(* and KernelModel reads all of them back.                                 *)
(*                                                                         *)
(* A value is tagged with its Python type.  Of the connection's eleven     *)
(* entries there are three here: an address, a port and a secret.          *)
(***************************************************************************)
EXTENDS Naturals, Sequences, TLC

CONSTANTS
  Names,      \* kernel ids
  Timeouts,   \* the idle timeouts requests ask for,
  Images,     \* the images
  WorkDirs,   \* and the working directories
  Omissible   \* what manifests of kubectl may lack

ASSUME RecordsAssumption ==
  /\ Timeouts \subseteq Nat
  /\ Omissible \subseteq {"id", "volumes", "env", "volumeMounts", "workingDir", "key"}

VARIABLES
  stored,   \* stored[n]: the custom resource, or None
  asked     \* asked[n]: the payload of the request that created it, or NoPayload

recordVars == <<stored, asked>>

-----------------------------------------------------------------------------
(* Values.                                                                 *)

Dict(f) == <<"dict", f>>
List(s) == <<"list", s>>
Text(x) == <<"str", x>>
Number(i) == <<"int", i>>
None == <<"none">>
Error == <<"error">>       \* an exception

Get(d, k) == IF d[1] = "dict" /\ k \in DOMAIN d[2] THEN d[2][k] ELSE Error
First(d) == IF d[1] = "list" /\ 1 \in DOMAIN d[2] THEN d[2][1] ELSE Error

\* The dict d with the entries of e.
With(d, e) ==
  Dict([k \in DOMAIN e \cup DOMAIN d[2] |-> IF k \in DOMAIN e THEN e[k] ELSE d[2][k]])

Without(d, ks) == Dict([x \in DOMAIN d[2] \ ks |-> d[2][x]])

-----------------------------------------------------------------------------
(* The payload and the object acreate makes of it.                         *)

Volume == Dict([name |-> Text("data"), emptyDir |-> Dict([medium |-> Text("Memory")])])
Mount == Dict([name |-> Text("data"), mountPath |-> Text("/mnt/data")])

Connection == Dict([ip |-> Text("0.0.0.0"), shellPort |-> Number(52318), key |-> Text("secret")])

Payloads(n) ==
  [kernel_id : {n}, idle_timeout : Timeouts, image : Images, working_dir : WorkDirs,
   volumes : {<<>>, <<Volume>>}, volume_mounts : {<<>>, <<Mount>>}, connection_info : {Connection}]

NoPayload == [kernel_id |-> "none"]

\* The environment is the payload, its fields as they are.
Environment(p) ==
  <<Dict([name |-> Text("KERNEL_ID"), value |-> Text(p.kernel_id)]),
    Dict([name |-> Text("KERNEL_IDLE_TIMEOUT"), value |-> Number(p.idle_timeout)])>>

Container(p) ==
  Dict([env |-> List(Environment(p)), image |-> Text(p.image), name |-> Text("ipykernel"),
        volumeMounts |-> List(p.volume_mounts), workingDir |-> Text(p.working_dir)])

PodSpec(p) == Dict([containers |-> List(<<Container(p)>>), volumes |-> List(p.volumes)])

SpecDict(p) ==
  Dict([idleTimeoutSeconds |-> Number(p.idle_timeout), cullingIntervalSeconds |-> Number(60),
        kernelConnectionConfig |-> p.connection_info,
        template |-> Dict([spec |-> PodSpec(p)])])

KernelDict(p) ==
  Dict([apiVersion |-> Text("jupyrator.org/v1"), kind |-> Text("KernelManager"),
        metadata |-> Dict([name |-> Text(p.kernel_id),
                           labels |-> Dict([id |-> Text(p.kernel_id)])]),
        spec |-> SpecDict(p)])

-----------------------------------------------------------------------------
(* _deserialize: the dict through the models, which know their entries and *)
(* those entries' types by name.                                           *)

One(klass) == [form |-> "one", klass |-> klass]
ListOf(klass) == [form |-> "list", klass |-> klass]
DictOf(klass) == [form |-> "dict", klass |-> klass]

V1Kernel ==
  [apiVersion |-> One("str"), kind |-> One("str"), metadata |-> One("V1ObjectMeta"),
   spec |-> One("V1KernelSpec"), status |-> One("V1KernelStatus")]

\* Bug: idle_timeout_seconds has the key of culling_interval_seconds.
V1KernelSpecMixed ==
  [template |-> One("V1PodTemplateSpec"), cullingIntervalSeconds |-> One("int"),
   kernelConnectionConfig |-> One("V1KernelConnectionConfig")]

V1KernelSpec ==
  [template |-> One("V1PodTemplateSpec"), idleTimeoutSeconds |-> One("int"),
   cullingIntervalSeconds |-> One("int"), kernelConnectionConfig |-> One("V1KernelConnectionConfig")]

\* Bug: the secret is not declared.
V1KernelConnectionConfigKeyless == [ip |-> One("str"), shellPort |-> One("int")]

V1KernelConnectionConfig == [ip |-> One("str"), shellPort |-> One("int"), key |-> One("str")]

\* V1KernelCondition is defined nowhere.
V1KernelStatus ==
  [conditions |-> ListOf("V1KernelCondition"), containerState |-> One("V1ContainerState"),
   readyReplicas |-> One("int")]

KubernetesModels ==
  [V1ObjectMeta |-> [name |-> One("str"), labels |-> DictOf("str"), annotations |-> DictOf("str")],
   V1PodTemplateSpec |-> [metadata |-> One("V1ObjectMeta"), spec |-> One("V1PodSpec")],
   V1PodSpec |-> [containers |-> ListOf("V1Container"), volumes |-> ListOf("V1Volume")],
   V1Container |-> [name |-> One("str"), env |-> ListOf("V1EnvVar"), image |-> One("str"),
                    workingDir |-> One("str"), volumeMounts |-> ListOf("V1VolumeMount")],
   V1EnvVar |-> [name |-> One("str"), value |-> One("str")],
   V1Volume |-> [name |-> One("str"), emptyDir |-> One("V1EmptyDirVolumeSource")],
   V1EmptyDirVolumeSource |-> [medium |-> One("str")],
   V1VolumeMount |-> [name |-> One("str"), mountPath |-> One("str")],
   V1ContainerState |-> [running |-> One("object")]]

OwnModels ==
  [V1Kernel |-> V1Kernel, V1KernelSpec |-> V1KernelSpec, V1KernelStatus |-> V1KernelStatus,
   V1KernelConnectionConfig |-> V1KernelConnectionConfig]

Known == DOMAIN OwnModels \cup DOMAIN KubernetesModels
Entries(klass) ==
  IF klass \in DOMAIN OwnModels THEN OwnModels[klass] ELSE KubernetesModels[klass]

\* What the models' constructors do not accept to be missing.
Required ==
  {<<"V1KernelSpec", "template">>, <<"V1PodSpec", "containers">>, <<"V1Container", "name">>,
   <<"V1EnvVar", "name">>, <<"V1Volume", "name">>, <<"V1VolumeMount", "name">>,
   <<"V1VolumeMount", "mountPath">>}

\* Bug: a value is taken to be of its declared type.
PrimitiveAsIs(data, klass) == data

\* klass(data): str of anything is its text, and int of an int is that int.
Primitive(data, klass) == IF klass = "str" /\ data[1] # "str" THEN Text(ToString(data[2])) ELSE data

\* The model of these entries: it is stored without those that are None.
Model(klass, value) ==
  LET kept == {k \in DOMAIN value : value[k] # None}
  IN IF /\ \A e \in Required : e[1] = klass => e[2] \in kept
        /\ \A k \in kept : value[k] # Error
     THEN Dict([k \in kept |-> value[k]]) ELSE Error

\* The declared entries that data has.
Given(data, klass) == IF data[1] = "dict" THEN DOMAIN Entries(klass) \cap DOMAIN data[2] ELSE {}

Each(form, value) == IF \E k \in DOMAIN value : value[k] = Error THEN Error ELSE <<form, value>>

\* One call of _deserialize, of which the inner calls are Inner.
DeserializeBy(Inner(_, _), data, type) ==
  IF data = None THEN None
  ELSE IF type.form # "one"
  THEN Each(type.form, [k \in DOMAIN data[2] |-> Inner(data[2][k], One(type.klass))])
  ELSE IF type.klass \in {"str", "int"} THEN Primitive(data, type.klass)
  ELSE IF type.klass = "object" THEN data
  ELSE IF type.klass \in Known
  THEN Model(type.klass, [k \in Given(data, type.klass) |->
                            Inner(data[2][k], Entries(type.klass)[k])])
  ELSE Error

\* The models contain each other nine calls deep: V1Kernel, V1KernelSpec,
\* V1PodTemplateSpec, V1PodSpec, a list, V1Container, a list, V1EnvVar, str.
Deserialize0(data, type) == DeserializeBy(LAMBDA d, t : Error, data, type)
Deserialize1(data, type) == DeserializeBy(Deserialize0, data, type)
Deserialize2(data, type) == DeserializeBy(Deserialize1, data, type)
Deserialize3(data, type) == DeserializeBy(Deserialize2, data, type)
Deserialize4(data, type) == DeserializeBy(Deserialize3, data, type)
Deserialize5(data, type) == DeserializeBy(Deserialize4, data, type)
Deserialize6(data, type) == DeserializeBy(Deserialize5, data, type)
Deserialize7(data, type) == DeserializeBy(Deserialize6, data, type)
Deserialize(data, type) == DeserializeBy(Deserialize7, data, type)

-----------------------------------------------------------------------------
(* KernelModel.model_validate, and the response made of its result.        *)

\* It fills in what the connection lacks, with a secret of its own making.
KernelConnectionInfoModel(config) ==
  With(Dict([ip |-> Text("0.0.0.0"), shellPort |-> Number(52318), key |-> Text("invented")]), config[2])

Status(obj) == IF "status" \in DOMAIN obj[2] THEN obj[2].status ELSE Dict(<<>>)

\* The address is the pod's once there is a status.
ConnectionInfo(obj) ==
  LET config == Get(Get(obj, "spec"), "kernelConnectionConfig")
      ip     == Get(Status(obj), "ip")
  IN With(KernelConnectionInfoModel(config), IF ip = Error THEN <<>> ELSE [ip |-> ip])

\* str(datetime.now()) has no fraction in the first microsecond of a second,
\* and %f of strptime wants one.
Whole == "2024-01-01 10:00:00"
Fractional == "2024-01-01 10:00:00.000001"

Recorded(obj) == Get(Get(Get(obj, "metadata"), "annotations"), "lastActivityTime")

LastActivity(obj) ==
  IF Recorded(obj) = Error THEN Get(Get(obj, "metadata"), "creationTimestamp")
  ELSE IF Recorded(obj) = Text(Whole) THEN Error ELSE Recorded(obj)

KernelModel(obj) ==
  LET template  == Get(Get(Get(obj, "spec"), "template"), "spec")
      container == First(Get(template, "containers"))
  IN [id              |-> Get(Get(Get(obj, "metadata"), "labels"), "id"),
      ready           |-> Get(Status(obj), "phase") = Text("Running"),
      connection_info |-> ConnectionInfo(obj),
      envs            |-> Get(container, "env"),
      volumes         |-> Get(template, "volumes"),
      volume_mounts   |-> Get(container, "volumeMounts"),
      image           |-> Get(container, "image"),
      idle_timeout    |-> Get(Get(obj, "spec"), "idleTimeoutSeconds"),
      working_dir     |-> Get(container, "workingDir"),
      last_activity   |-> LastActivity(obj)]

\* KeyErrors and ValueErrors are not caught: they fail the whole call.
Reads(obj) ==
  LET k == KernelModel(obj)
  IN Error \notin {k.id, k.envs, k.volumes, k.volume_mounts, k.image, k.idle_timeout, k.working_dir,
                   k.last_activity}

-----------------------------------------------------------------------------
(* The programs.                                                           *)

Exists(n) == stored[n] # None

\* The API server stamps what it stores.
Store(n, obj) ==
  stored' = [stored EXCEPT
    ![n] = With(obj, [metadata |-> With(Get(obj, "metadata"),
                                        [creationTimestamp |-> Text("created")])])]

Create(n) ==
  \E p \in Payloads(n) :
    LET kernel == Deserialize(KernelDict(p), One("V1Kernel"))
    IN /\ ~Exists(n) /\ kernel # Error
       /\ Store(n, kernel)
       /\ asked' = [asked EXCEPT ![n] = p]

Manifest(n, lacks) ==
  Dict([metadata |-> Dict([name |-> Text(n), labels |-> Without(Dict([id |-> Text(n)]), lacks)]),
        spec |-> Dict(
          [idleTimeoutSeconds |-> Number(120), kernelConnectionConfig |-> Without(Connection, lacks),
           template |-> Dict([spec |-> Without(Dict(
             [containers |-> List(<<Without(Dict(
                [env |-> List(<<>>), image |-> Text("elyra/kernel-py:3.2.3"), name |-> Text("main"),
                 volumeMounts |-> List(<<>>), workingDir |-> Text("/mnt/data")]), lacks)>>),
              volumes |-> List(<<>>)]), lacks)])])])

Apply(n) ==
  \E lacks \in SUBSET Omissible :
    ~Exists(n) /\ Store(n, Manifest(n, lacks)) /\ UNCHANGED asked

\* The controller: every entry of the status is always there.
Mirror(n) ==
  \E phase \in {"Pending", "Running", "Failed"} :
    /\ Exists(n)
    /\ stored' = [stored EXCEPT
         ![n] = With(@, [status |-> Dict([conditions |-> List(<<>>), phase |-> Text(phase),
                                          ip |-> Text(IF phase = "Pending" THEN "" ELSE "10.0.0.1")])])]
    /\ UNCHANGED asked

\* The monitor.
Stamp(n) ==
  \E now \in {Whole, Fractional} :
    /\ Exists(n)
    /\ stored' = [stored EXCEPT
         ![n] = With(@, [metadata |-> With(Get(@, "metadata"),
                                           [annotations |-> Dict([lastActivityTime |-> Text(now)])])])]
    /\ UNCHANGED asked

Delete(n) ==
  /\ Exists(n)
  /\ stored' = [stored EXCEPT ![n] = None]
  /\ asked' = [asked EXCEPT ![n] = NoPayload]

RecordsInit == stored = [n \in Names |-> None] /\ asked = [n \in Names |-> NoPayload]

RecordsNext ==
  \E n \in Names : Create(n) \/ Apply(n) \/ Mirror(n) \/ Stamp(n) \/ Delete(n)

RecordsSpec == RecordsInit /\ [][RecordsNext]_recordVars

-----------------------------------------------------------------------------
(* Properties.                                                             *)

Requested(n) == asked[n] # NoPayload
Stamped(n, text) == Recorded(stored[n]) = Text(text)

\* A kernel that a request created can be read back at any time, whatever the
\* controller and the monitor added, a stamp without fraction excepted.
RequestedKernelsRead ==
  \A n \in Names : Requested(n) /\ ~Stamped(n, Whole) => Reads(stored[n])

\* What is read of it is what was asked for, and a running one has the address
\* of its pod.
ReadsBackAsAsked ==
  \A n \in Names : Requested(n) =>
    LET k == KernelModel(stored[n]) p == asked[n]
    IN /\ k.id = Text(p.kernel_id) /\ k.idle_timeout = Number(p.idle_timeout)
       /\ k.image = Text(p.image) /\ k.working_dir = Text(p.working_dir)
       /\ k.volumes = List(p.volumes) /\ k.volume_mounts = List(p.volume_mounts)
       /\ Without(k.connection_info, {"ip"}) = Without(p.connection_info, {"ip"})
       /\ k.ready => Get(k.connection_info, "ip") = Text("10.0.0.1")

\* The environment of a requested kernel consists of texts, as the custom
\* resource definition demands, though the payload has numbers and lists.
EnvironmentIsText ==
  \A n \in Names : Requested(n) =>
    LET env == KernelModel(stored[n]).envs[2]
    IN \A i \in DOMAIN env : Get(env[i], "value")[1] = "str"

=============================================================================
