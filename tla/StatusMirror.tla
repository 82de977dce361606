---------------------------- MODULE StatusMirror ----------------------------
(***************************************************************************)
(* controller/: createKernelManagerStatus in detail.  A reconciliation     *)
(* makes the status of a KernelManager from its pod's, and from its old    *)
(* one and the clock too.                                                  *)
(*                                                                         *)
(* Two objects that were decoded separately hold their container states at *)
(* different addresses: ContainerState is a struct of pointers, and == of  *)
(* two of them is true only when neither has a state.                      *)
(***************************************************************************)
EXTENDS Naturals, FiniteSets

CONSTANTS
  Conditions,  \* types of pod conditions
  MaxClock     \* bound: seconds

ASSUME MirrorAssumption == MaxClock \in Nat

VARIABLES
  pod,      \* pod.Status
  status,   \* the KernelManager's
  seen,     \* the pod.Status of the last reconciliation
  clock     \* metav1.Now(), in seconds

mirrorVars == <<pod, status, seen, clock>>

-----------------------------------------------------------------------------
Main == "main"         \* the container named as the KernelManager
NoState == "none"
States == {"waiting", "running", "terminated"}
Never == 0             \* the zero time

\* containers: the states that are reported, by container name; conditions: the
\* times of each, of its last probe and its last transition.
NoPodStatus == [phase |-> "", containers |-> << >>, conditions |-> << >>]

NoStatus == [phase |-> "", containerState |-> NoState, conditions |-> << >>]

\* Bug: states are compared by value, as reflect.DeepEqual does.
SameStateByValue(s, old) == s = old

\* By address.
SameState(s, old) == s = NoState /\ old = NoState

\* A container whose state is the old one is passed over.
ContainerState(p, old) ==
  IF Main \in DOMAIN p.containers /\ ~SameState(p.containers[Main], old.containerState)
  THEN p.containers[Main] ELSE NoState

\* A time that the pod leaves out is that of the reconciliation.
TimeOf(t) == IF t # Never THEN t ELSE clock

\* Bug: the probe time is that of the reconciliation.
PodCondToKernelManagerCondNow(c) == [probe |-> clock, transition |-> TimeOf(c.transition)]

PodCondToKernelManagerCond(c) ==
  [probe |-> TimeOf(c.probe), transition |-> TimeOf(c.transition)]

CreateKernelManagerStatus(p, old) ==
  IF p = NoPodStatus THEN NoStatus
  ELSE [phase          |-> p.phase,
        containerState |-> ContainerState(p, old),
        conditions     |-> [c \in DOMAIN p.conditions |->
                              PodCondToKernelManagerCond(p.conditions[c])]]

-----------------------------------------------------------------------------
ReconcileStatus ==
  /\ status' = CreateKernelManagerStatus(pod, status)
  /\ seen' = pod
  /\ UNCHANGED <<pod, clock>>

\* The kubelet reports conditions first and the containers when it knows them;
\* a pod that is evicted is reported without.  It sets either time of a
\* condition or leaves it out.
Report ==
  /\ \E phase \in {"Pending", "Running", "Failed"}, names \in {{}, {"monitor"}, {Main, "monitor"}},
        cs \in SUBSET Conditions :
       /\ phase = "Running" => Main \in names
       /\ \E states \in [names -> States],
             times \in [cs -> [probe : {Never, clock}, transition : {Never, clock}]] :
            pod' = [phase |-> phase, containers |-> states, conditions |-> times]
  /\ UNCHANGED <<status, seen, clock>>

Recreate == pod' = NoPodStatus /\ UNCHANGED <<status, seen, clock>>

Tick == clock < MaxClock /\ clock' = clock + 1 /\ UNCHANGED <<pod, status, seen>>

MirrorInit == pod = NoPodStatus /\ status = NoStatus /\ seen = NoPodStatus /\ clock = 1

MirrorNext == ReconcileStatus \/ Report \/ Recreate \/ Tick

MirrorSpec == MirrorInit /\ [][MirrorNext]_mirrorVars

-----------------------------------------------------------------------------
(* Properties.                                                             *)

\* The status is that of the pod that was reconciled last, whatever it was
\* before: a main container that is reported with the state it had keeps it in
\* the status, which is made anew.
StatusIsThePods ==
  /\ status.phase = seen.phase
  /\ Main \in DOMAIN seen.containers => status.containerState = seen.containers[Main]
  /\ DOMAIN status.conditions = DOMAIN seen.conditions

Dated(p) ==
  \A c \in DOMAIN p.conditions :
    p.conditions[c].probe # Never /\ p.conditions[c].transition # Never

\* Reconciling the same pod again writes the same status, at any later time,
\* when its conditions have all their times: the write wakes nobody up.
RepeatedIsQuiet == [][pod = seen /\ Dated(pod) /\ seen' = seen => status' = status]_mirrorVars

=============================================================================
