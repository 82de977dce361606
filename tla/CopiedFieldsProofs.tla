-------------------------- MODULE CopiedFieldsProofs --------------------------
(***************************************************************************)
(* What a reconciliation copies.  For any keys, values and configurations, *)
(* one update settles the ConfigMap, leaves nothing in it that the         *)
(* KernelManager does not say and stores the whole connection file; for    *)
(* any conditions and times, the status is the pod's.                      *)
(***************************************************************************)
EXTENDS ConnectionFile, StatusMirror, FiniteSetTheorems, TLAPS

-----------------------------------------------------------------------------
(* The ConfigMap.                                                          *)

\* What CopyFields makes of a ConfigMap.
LEMMA CopiedFields ==
  ASSUME NEW f \in Objects, NEW t \in Objects
  PROVE  /\ CopyFields(f, t) \in Objects
         /\ CopyFields(f, t).labels = f.labels
         /\ CopyFields(f, t).annotations = f.annotations
         /\ CopyFields(f, t).data = f.data
         /\ CopyFields(f, t).binary = f.binary
  BY DEF CopyFields, Objects

LEMMA SameMapNoDifference ==
  ASSUME NEW m
  PROVE  ~MapDiffers(m, m)
  BY DEF MapDiffers, Lookup

\* A map that does not differ says nothing of its own.
LEMMA NoDifferenceNothingForeign ==
  ASSUME NEW f, NEW t, ~MapDiffers(f, t)
  PROVE  \A k \in DOMAIN t : t[k] = Lookup(f, k)
  BY DEF MapDiffers

\* An edit of the KernelManager or of the ConfigMap.
LEMMA EditTyped ==
  ASSUME TypeOK, EditKernelManager \/ EditConfigMap
  PROVE  /\ TypeOK' /\ UpdateSettles'
         /\ wanted'.data = wanted.data /\ wanted'.binary = wanted.binary
<1>1. CASE EditKernelManager
  BY <1>1 DEF EditKernelManager, TypeOK, Objects, UpdateSettles
<1>2. CASE EditConfigMap
  BY <1>2 DEF EditConfigMap, TypeOK, Objects, UpdateSettles
<1> QED
  BY <1>1, <1>2

\* One update is enough, whatever the ConfigMap held.
LEMMA UpdateSettled ==
  ASSUME TypeOK, NEW w \in Objects, UpdateTo(w)
  PROVE  TypeOK' /\ UpdateSettles' /\ wanted' = w
<1>1. wanted' = w /\ settled' = TRUE
  BY DEF UpdateTo
<1>2. CASE RequireUpdate(w, stored)
  <2>1. stored' = CopyFields(w, stored)
    BY <1>2 DEF UpdateTo
  <2>2. /\ stored' \in Objects /\ stored'.labels = w.labels
        /\ stored'.annotations = w.annotations
        /\ stored'.data = w.data /\ stored'.binary = w.binary
    BY <2>1, CopiedFields DEF TypeOK
  <2> QED
    BY <1>1, <2>2, SameMapNoDifference DEF TypeOK, UpdateSettles, RequireUpdate
<1>3. CASE ~RequireUpdate(w, stored)
  <2>1. stored' = stored
    BY <1>3 DEF UpdateTo
  <2> QED
    BY <1>1, <1>3, <2>1 DEF TypeOK, UpdateSettles, RequireUpdate
<1> QED
  BY <1>2, <1>3

\* The ConfigMap that is wanted has a file of the configuration, and that only.
FileInv ==
  /\ TypeOK /\ UpdateSettles
  /\ config \in Configs
  /\ wanted.data \in ToSnakeCaseJSON(config) /\ ~wanted.binary

LEMMA InitFile ==
  ASSUME FileInit
  PROVE  FileInv
  BY SameMapNoDifference
  DEF FileInit, Init, FileInv, TypeOK, UpdateSettles, RequireUpdate

LEMMA EditFile ==
  ASSUME FileInv, Edit
  PROVE  FileInv'
  BY EditTyped DEF Edit, FileInv

\* What a reconciliation brings the ConfigMap up to date with.
LEMMA ReconcileFile ==
  ASSUME FileInv, NEW f \in ToSnakeCaseJSON(config),
         UpdateTo([wanted EXCEPT !.data = f]), UNCHANGED config
  PROVE  FileInv'
<1> DEFINE w == [wanted EXCEPT !.data = f]
<1>1. f \in Datas
  BY KeysAssumption DEF Files, FileInv
<1>2. w \in Objects /\ w.data = f /\ ~w.binary
  BY <1>1 DEF FileInv, TypeOK, Objects
<1>3. TypeOK' /\ UpdateSettles' /\ wanted' = w
  BY <1>2, UpdateSettled DEF FileInv
<1> QED
  BY <1>2, <1>3 DEF FileInv

LEMMA StepFile ==
  ASSUME FileInv, [FileNext]_fileVars
  PROVE  FileInv'
<1>1. CASE Edit
  BY <1>1, EditFile
<1>2. CASE Reconcile
  BY <1>2, ReconcileFile DEF Reconcile
<1>3. CASE UNCHANGED fileVars
  BY <1>3 DEF fileVars, vars, FileInv, TypeOK, UpdateSettles, RequireUpdate
<1> QED
  BY <1>1, <1>2, <1>3 DEF FileNext

LEMMA FileInvariant == FileSpec => []FileInv
  BY InitFile, StepFile, PTL DEF FileSpec

\* The fields keep their types, whatever is edited and generated.
THEOREM FieldsTyped == FileSpec => []TypeOK
<1>1. FileInv => TypeOK
  BY DEF FileInv
<1> QED
  BY <1>1, FileInvariant, PTL

\* The controller never needs a second update after the first.
THEOREM UpdateIsIdempotent == FileSpec => []UpdateSettles
<1>1. FileInv => UpdateSettles
  BY DEF FileInv
<1> QED
  BY <1>1, FileInvariant, PTL

\* Nothing that the KernelManager does not say survives a reconciliation.
THEOREM ForeignIsRemoved == FileSpec => []NothingForeign
<1>1. FileInv => NothingForeign
  BY NoDifferenceNothingForeign
  DEF FileInv, TypeOK, Objects, UpdateSettles, NothingForeign, RequireUpdate
<1> QED
  BY <1>1, FileInvariant, PTL

-----------------------------------------------------------------------------
(* The connection file.                                                    *)

\* No two keys have one snake case.  It is what ConvertToSnakeCase computes,
\* letter by letter, and all that the theorems below take from it.
KeysStayApart ==
  \A k, l \in ConfigKeys : ConvertToSnakeCase(k) = ConvertToSnakeCase(l) => k = l

LEMMA ConfigShape ==
  ASSUME NEW c \in Configs
  PROVE  /\ DOMAIN c \subseteq ConfigKeys
         /\ Marshalled(c) \subseteq ConfigKeys /\ IsFiniteSet(Marshalled(c))
<1>1. PICK K \in UNION {kSubset(i, ConfigKeys) : i \in 1 .. MaxKeys} : c \in [K -> Settings]
  BY DEF Configs
<1>2. K \subseteq ConfigKeys
  BY <1>1 DEF kSubset
<1>3. Marshalled(c) \subseteq ConfigKeys
  BY <1>1, <1>2 DEF Marshalled
<1> QED
  BY <1>1, <1>2, <1>3, KeysAssumption, FS_Subset

\* A file then has each value under its own key, and there is only one.
LEMMA FileOfConfig ==
  ASSUME KeysStayApart, NEW c \in Configs, NEW f \in ToSnakeCaseJSON(c)
  PROVE  /\ \A k \in Marshalled(c) : f[ConvertToSnakeCase(k)] = c[k]
         /\ Cardinality(DOMAIN f) = Cardinality(Marshalled(c))
         /\ \A g \in ToSnakeCaseJSON(c) : g = f
<1> DEFINE keys == Marshalled(c)
           names == {ConvertToSnakeCase(k) : k \in keys}
           toName == [k \in keys |-> ConvertToSnakeCase(k)]
<1>1. keys \subseteq ConfigKeys /\ IsFiniteSet(keys)
  BY ConfigShape
<1>2. ASSUME NEW g \in ToSnakeCaseJSON(c)
      PROVE  /\ g \in [names -> Settings]
             /\ \A k \in keys : g[ConvertToSnakeCase(k)] = c[k]
  <2>1. /\ g \in [names -> Settings]
        /\ \A s \in names : \E k \in keys : ConvertToSnakeCase(k) = s /\ g[s] = c[k]
    BY <1>2 DEF ToSnakeCaseJSON
  <2>2. ASSUME NEW k \in keys
        PROVE  g[ConvertToSnakeCase(k)] = c[k]
    <3>1. PICK l \in keys : /\ ConvertToSnakeCase(l) = ConvertToSnakeCase(k)
                            /\ g[ConvertToSnakeCase(k)] = c[l]
      BY <2>1
    <3>2. l = k
      BY <1>1, <3>1 DEF KeysStayApart
    <3> QED
      BY <3>1, <3>2
  <2> QED
    BY <2>1, <2>2
<1>3. Cardinality(names) = Cardinality(keys)
  <2>1. toName \in [keys -> names] /\ \A s \in names : \E k \in keys : toName[k] = s
    OBVIOUS
  <2>2. \A k, l \in keys : toName[k] = toName[l] => k = l
    BY <1>1 DEF KeysStayApart
  <2>3. toName \in Bijection(keys, names)
    BY <2>1, <2>2 DEF Bijection, Injection, Surjection, IsInjective
  <2>4. ExistsBijection(keys, names)
    BY <2>3 DEF ExistsBijection
  <2> QED
    BY <1>1, <2>4, FS_Bijection
<1>4. ASSUME NEW g \in ToSnakeCaseJSON(c)
      PROVE  g = f
  <2>1. f \in [names -> Settings] /\ g \in [names -> Settings]
    BY <1>2
  <2>2. \A s \in names : f[s] = g[s]
    BY <1>2
  <2> QED
    BY <2>1, <2>2
<1> QED
  BY <1>2, <1>3, <1>4

\* Where no two keys have one snake case, the file of a reconciled ConfigMap
\* is the whole configuration, whatever had been edited in.
THEOREM FileIsWhole == KeysStayApart => (FileSpec => []FileIsComplete)
<1> SUFFICES ASSUME KeysStayApart
             PROVE  FileSpec => []FileIsComplete
  OBVIOUS
<1>1. FileInv => FileIsComplete
  <2> SUFFICES ASSUME FileInv, settled
               PROVE  /\ \A k \in Marshalled(config) :
                           stored.data[ConvertToSnakeCase(k)] = config[k]
                      /\ Cardinality(DOMAIN stored.data) = Cardinality(Marshalled(config))
    BY DEF FileIsComplete
  <2>1. stored.data = wanted.data
    BY DEF FileInv, UpdateSettles, RequireUpdate
  <2> QED
    BY <2>1, FileOfConfig DEF FileInv
<1> QED
  BY <1>1, FileInvariant, PTL

\* And another reconciliation without an edit writes nothing: the controller
\* does not wake itself up for ever.
THEOREM NothingIsRewritten == KeysStayApart => (FileSpec => NothingToRewrite)
<1> SUFFICES ASSUME KeysStayApart
             PROVE  FileSpec => NothingToRewrite
  OBVIOUS
<1>1. ASSUME FileInv, [FileNext]_fileVars, settled, settled'
      PROVE  stored' = stored
  <2>1. CASE Edit
    BY <1>1, <2>1 DEF Edit, EditKernelManager, EditConfigMap
  <2>2. CASE Reconcile
    <3>1. PICK f \in ToSnakeCaseJSON(config) : UpdateTo([wanted EXCEPT !.data = f])
      BY <2>2 DEF Reconcile
    <3>2. f = wanted.data
      BY <1>1, <3>1, FileOfConfig DEF FileInv
    <3>3. [wanted EXCEPT !.data = f] = wanted
      BY <1>1, <3>2 DEF FileInv, TypeOK, Objects
    <3> QED
      BY <1>1, <3>1, <3>3 DEF UpdateTo, FileInv, UpdateSettles
  <2>3. CASE UNCHANGED fileVars
    BY <2>3 DEF fileVars, vars
  <2> QED
    BY <1>1, <2>1, <2>2, <2>3 DEF FileNext
<1> QED
  BY <1>1, FileInvariant, PTL DEF FileSpec, NothingToRewrite

-----------------------------------------------------------------------------
(* The status.                                                             *)

\* A condition has its two times and nothing else.
IsTimes(t) == t = [probe |-> t.probe, transition |-> t.transition]

\* The status that was written is all of the pod's that was seen: what
\* StatusIsThePods says, no state where no main container was reported, and the
\* times that the pod has.
Mirrored ==
  IF seen = NoPodStatus THEN status = NoStatus
  ELSE /\ status = [phase          |-> seen.phase,
                    containerState |-> IF Main \in DOMAIN seen.containers
                                       THEN seen.containers[Main] ELSE NoState,
                    conditions     |-> [c \in DOMAIN seen.conditions |-> status.conditions[c]]]
       /\ \A c \in DOMAIN seen.conditions :
            /\ IsTimes(status.conditions[c])
            /\ seen.conditions[c].probe # Never =>
                 status.conditions[c].probe = seen.conditions[c].probe
            /\ seen.conditions[c].transition # Never =>
                 status.conditions[c].transition = seen.conditions[c].transition

\* A container is passed over only when its state is that of none.
LEMMA NoneIsPassedOver ==
  ASSUME NEW p, NEW old
  PROVE  ContainerState(p, old) =
           IF Main \in DOMAIN p.containers THEN p.containers[Main] ELSE NoState
  BY DEF ContainerState, SameState, Main, NoState

LEMMA ReconcileMirrors ==
  ASSUME ReconcileStatus
  PROVE  Mirrored'
<1>1. seen' = pod /\ status' = CreateKernelManagerStatus(pod, status)
  BY DEF ReconcileStatus
<1>2. CASE pod = NoPodStatus
  BY <1>1, <1>2 DEF Mirrored, CreateKernelManagerStatus
<1>3. CASE pod # NoPodStatus
  <2> DEFINE times == [c \in DOMAIN pod.conditions |->
                          PodCondToKernelManagerCond(pod.conditions[c])]
  <2>1. status' = [phase          |-> pod.phase,
                   containerState |-> IF Main \in DOMAIN pod.containers
                                      THEN pod.containers[Main] ELSE NoState,
                   conditions     |-> times]
    BY <1>1, <1>3, NoneIsPassedOver DEF CreateKernelManagerStatus
  <2>2. \A c \in DOMAIN pod.conditions :
          /\ IsTimes(times[c])
          /\ pod.conditions[c].probe # Never => times[c].probe = pod.conditions[c].probe
          /\ pod.conditions[c].transition # Never =>
               times[c].transition = pod.conditions[c].transition
    BY DEF PodCondToKernelManagerCond, TimeOf, Never, IsTimes
  <2>3. status'.conditions = times /\ times = [c \in DOMAIN pod.conditions |-> times[c]]
    BY <2>1
  <2> QED
    BY <1>1, <1>3, <2>1, <2>2, <2>3 DEF Mirrored
<1> QED
  BY <1>2, <1>3

LEMMA StepMirrored ==
  ASSUME Mirrored, [MirrorNext]_mirrorVars
  PROVE  Mirrored'
<1>1. CASE UNCHANGED <<status, seen>>
  BY <1>1 DEF Mirrored
<1> QED
  BY <1>1, ReconcileMirrors
  DEF MirrorNext, Report, Recreate, Tick, mirrorVars

LEMMA MirroredSpec == MirrorSpec => []Mirrored
<1>1. MirrorInit => Mirrored
  BY DEF MirrorInit, Mirrored
<1> QED
  BY <1>1, StepMirrored, PTL DEF MirrorSpec

\* A status says what the pod said when it was reconciled, whatever states and
\* conditions the status had before.
THEOREM StatusMirrored == MirrorSpec => []StatusIsThePods
<1>1. ASSUME Mirrored
      PROVE  StatusIsThePods
  <2>1. CASE seen = NoPodStatus
    <3>1. /\ NoPodStatus.phase = NoStatus.phase
          /\ NoPodStatus.conditions = NoStatus.conditions
          /\ NoPodStatus.containers = << >>
          /\ NoStatus.containerState = NoState
      BY DEF NoPodStatus, NoStatus
    <3>2. Main \notin DOMAIN << >>
      BY DEF Main
    <3> QED
      BY <1>1, <2>1, <3>1, <3>2 DEF Mirrored, StatusIsThePods
  <2>2. CASE seen # NoPodStatus
    BY <1>1, <2>2 DEF Mirrored, StatusIsThePods, Main, NoState
  <2> QED
    BY <2>1, <2>2
<1> QED
  BY <1>1, MirroredSpec, PTL

\* A reconciliation of a pod that did not change and has its times does
\* not change the status, however much later it is, so it wakes nobody up.
THEOREM RepetitionIsQuiet == MirrorSpec => RepeatedIsQuiet
<1>1. ASSUME Mirrored, Mirrored', [MirrorNext]_mirrorVars
      PROVE  [pod = seen /\ Dated(pod) /\ seen' = seen => status' = status]_mirrorVars
  <2>1. CASE ReconcileStatus
    <3> SUFFICES ASSUME pod = seen, Dated(pod), seen' = seen
                 PROVE  status' = status
      OBVIOUS
    <3>1. CASE seen = NoPodStatus
      BY <1>1, <3>1 DEF Mirrored
    <3>2. CASE seen # NoPodStatus
      <4>1. \A c \in DOMAIN seen.conditions :
              /\ status.conditions[c] = [probe      |-> seen.conditions[c].probe,
                                        transition |-> seen.conditions[c].transition]
              /\ status'.conditions[c] = [probe      |-> seen.conditions[c].probe,
                                         transition |-> seen.conditions[c].transition]
        BY <1>1, <3>2 DEF Mirrored, Dated, IsTimes, Never
      <4>2. [c \in DOMAIN seen.conditions |-> status.conditions[c]] =
            [c \in DOMAIN seen.conditions |-> status'.conditions[c]]
        BY <4>1
      <4> QED
        BY <1>1, <3>2, <4>2 DEF Mirrored
    <3> QED
      BY <3>1, <3>2
  <2> QED
    BY <1>1, <2>1
    DEF MirrorNext, Report, Recreate, Tick, mirrorVars
<1> QED
  BY <1>1, MirroredSpec, PTL DEF MirrorSpec, RepeatedIsQuiet

=============================================================================
