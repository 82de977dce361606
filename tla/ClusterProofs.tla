---------------------------- MODULE ClusterProofs ----------------------------
(***************************************************************************)
(* What the theorems about the programs use of the objects they share.     *)
(***************************************************************************)
EXTENDS Cluster, TLAPS

-----------------------------------------------------------------------------
(* Objects.                                                                *)

LEMMA ZeroObjects ==
  NoKM \in KM /\ NoConfigMap \in ConfigMap /\ NoPod \in Pod
  BY DEF NoKM, NewKM, NoStatus, NoConfigMap, NoPod, KM, Status, StatusPhase,
         ConfigMap, Pod, PodPhase

LEMMA NewKMType == \A u \in Nat : NewKM(u) \in KM
  BY DEF NewKM, NoStatus, KM, Status, StatusPhase, PodPhase

\* A KernelManager that one field of is written.
LEMMA KMFields ==
  ASSUME NEW k \in KM
  PROVE  /\ k.uid \in Nat /\ k.idle \in BOOLEAN /\ k.ann \in Nat /\ k.status \in Status
         /\ [k EXCEPT !.ann = @ + 1] \in KM
         /\ [k EXCEPT !.idle = TRUE] \in KM
         /\ \A s \in Status : [k EXCEPT !.status = s] \in KM
<1>1. k.uid \in Nat /\ k.idle \in BOOLEAN /\ k.ann \in Nat /\ k.status \in Status
  BY DEF KM
<1>2. k.ann + 1 \in Nat
  BY <1>1
<1>3. [k EXCEPT !.ann = @ + 1] \in KM
  BY <1>2 DEF KM
<1>4. [k EXCEPT !.idle = TRUE] \in KM
  BY DEF KM
<1>5. ASSUME NEW s \in Status
      PROVE  [k EXCEPT !.status = s] \in KM
  BY DEF KM
<1> QED
  BY <1>1, <1>3, <1>4, <1>5

LEMMA ConfigMapFields ==
  ASSUME NEW c \in ConfigMap
  PROVE  /\ c.owner \in Nat /\ c.data \in Nat /\ c.ann \in Nat
         /\ \A d, a \in Nat : [c EXCEPT !.data = d, !.ann = a] \in ConfigMap
  BY DEF ConfigMap

LEMMA PodFields ==
  ASSUME NEW p \in Pod
  PROVE  /\ p.owner \in Nat /\ p.mounted \in Nat /\ p.phase \in PodPhase
         /\ \A m \in Nat : [p EXCEPT !.phase = "Running", !.mounted = m] \in Pod
         /\ [p EXCEPT !.phase = "Failed"] \in Pod
  BY DEF Pod, PodPhase

\* What the rest of the cluster does keeps objects well formed.
LEMMA EnvironmentType ==
  ASSUME ClusterAssumption, ClusterTypeOK, NEW n \in Names, Environment(n)
  PROVE  ClusterTypeOK'
<1> USE DEF ClusterTypeOK, WriteKM, WriteConfigMap, WritePod,
            KMUnchanged, ConfigMapUnchanged, PodUnchanged
<1>1. CASE CreateKM(n)
  BY <1>1, NewKMType DEF CreateKM
<1>2. CASE DeleteKM(n)
  BY <1>2, ZeroObjects DEF DeleteKM
<1>3. CASE AnnotateActivity(n)
  BY <1>3, KMFields DEF AnnotateActivity
<1>4. CASE LabelIdle(n)
  BY <1>4, KMFields DEF LabelIdle
<1>5. CASE StartPod(n)
  <2>1. (IF n \in WithConn THEN cms[n].data ELSE 0) \in Nat
    BY ConfigMapFields
  <2> QED
    BY <1>5, <2>1, PodFields DEF StartPod
<1>6. CASE StopPod(n)
  BY <1>6, PodFields DEF StopPod
<1>7. CASE EvictPod(n)
  BY <1>7, ZeroObjects DEF EvictPod
<1>8. CASE CollectPod(n)
  BY <1>8, ZeroObjects DEF CollectPod
<1>9. CASE CollectConfigMap(n)
  BY <1>9, ZeroObjects DEF CollectConfigMap
<1> QED
  BY <1>1, <1>2, <1>3, <1>4, <1>5, <1>6, <1>7, <1>8, <1>9 DEF Environment

=============================================================================
