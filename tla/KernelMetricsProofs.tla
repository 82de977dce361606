------------------------- MODULE KernelMetricsProofs -------------------------
(***************************************************************************)
(* What the controller's counters mean, for any number of namespaces, pods *)
(* and scrapes at once.                                                    *)
(***************************************************************************)
EXTENDS KernelMetrics, TLAPS

-----------------------------------------------------------------------------
(* The inductive invariant.                                                *)

Metrics == [Metric -> [Namespaces -> Nat]]

MetricsTypeOK ==
  /\ pods \in [Namespaces -> Nat]
  /\ worker \in Namespaces \cup {"none"}
  /\ made \in [Namespaces -> Nat]
  /\ metric \in Metrics
  /\ phase \in [Scrapes -> 0..3]
  /\ counted \in [Scrapes -> [Namespaces -> Nat]]
  /\ left \in [Scrapes -> SUBSET Namespaces]
  /\ report \in [Scrapes -> Metrics]

\* Past the creations and before the failures, a scrape has reported no more
\* creations than the failures counted so far leave room for.
ReportedSoFar ==
  \A s \in Scrapes, ns \in Namespaces :
    phase[s] = 3 => report[s]["created"][ns] <= made[ns] + metric["failed"][ns] + 1

MetricsInv == MetricsTypeOK /\ CreationsAreCounted /\ ReportedSoFar /\ SuccessesAreReal

\* The numbers that are compared.
LEMMA Counters ==
  ASSUME MetricsTypeOK
  PROVE  /\ \A m \in Metric, ns \in Namespaces : metric[m][ns] \in Nat
         /\ \A s \in Scrapes, m \in Metric, ns \in Namespaces : report[s][m][ns] \in Nat
         /\ \A ns \in Namespaces : made[ns] \in Nat
  BY DEF MetricsTypeOK, Metrics

\* Inc counts one metric of one namespace.
LEMMA IncCounts ==
  ASSUME MetricsTypeOK, NEW m \in Metric, NEW ns \in Namespaces, Inc(m, ns)
  PROVE  /\ metric' \in Metrics
         /\ metric'[m][ns] = metric[m][ns] + 1
         /\ \A o \in Namespaces \ {ns} : metric'[m][o] = metric[m][o]
         /\ \A l \in Metric \ {m} : metric'[l] = metric[l]
  BY DEF MetricsTypeOK, Metrics, Inc

LEMMA InitMetrics ==
  ASSUME MetricsAssumption, Init
  PROVE  MetricsInv
<1>1. Zeros \in [Namespaces -> Nat] /\ \A ns \in Namespaces : Zeros[ns] = 0
  BY DEF Zeros
<1>2. [m \in Metric |-> Zeros] \in Metrics /\ "created" \in Metric /\ "failed" \in Metric
  BY <1>1 DEF Metrics, Metric
<1>3. MetricsTypeOK
  BY <1>1, <1>2 DEF Init, MetricsTypeOK
<1>4. /\ worker = "none" /\ \A s \in Scrapes : phase[s] = 0
      /\ \A ns \in Namespaces :
           made[ns] = 0 /\ metric["created"][ns] = 0 /\ metric["failed"][ns] = 0
      /\ \A s \in Scrapes, ns \in Namespaces : report[s]["created"][ns] = 0
                                              /\ report[s]["failed"][ns] = 0
  BY <1>1, <1>2 DEF Init
<1> QED
  BY <1>3, <1>4
  DEF MetricsAssumption, MetricsInv, CreationsAreCounted, ReportedSoFar, SuccessesAreReal

-----------------------------------------------------------------------------
(* Reconcile.                                                              *)

\* A creation is counted before it is tried.
LEMMA StartCreatingMetrics ==
  ASSUME MetricsAssumption, MetricsInv, NEW ns \in Namespaces, StartCreating(ns)
  PROVE  MetricsInv'
<1>1. /\ metric' \in Metrics
      /\ metric'["created"][ns] = metric["created"][ns] + 1
      /\ \A o \in Namespaces \ {ns} : metric'["created"][o] = metric["created"][o]
      /\ metric'["failed"] = metric["failed"]
  BY IncCounts DEF MetricsInv, StartCreating, Metric
<1>2. MetricsTypeOK'
  BY <1>1 DEF MetricsInv, MetricsTypeOK, StartCreating, scrapeVars
<1>3. CreationsAreCounted'
  BY <1>1, Counters DEF MetricsInv, MetricsAssumption, StartCreating, CreationsAreCounted, Metric
<1>4. ReportedSoFar' /\ SuccessesAreReal'
  BY <1>1 DEF MetricsInv, StartCreating, scrapeVars, ReportedSoFar, SuccessesAreReal
<1> QED
  BY <1>2, <1>3, <1>4 DEF MetricsInv

\* It makes a pod, or counts as failed, or both.
LEMMA FinishCreatingMetrics ==
  ASSUME MetricsAssumption, MetricsInv, FinishCreating
  PROVE  MetricsInv'
<1> DEFINE ns == worker
<1>1. ns \in Namespaces /\ worker' = "none" /\ UNCHANGED scrapeVars
  BY DEF MetricsInv, MetricsTypeOK, FinishCreating
<1>2. UNCHANGED metric \/ Inc("failed", ns)
  BY DEF FinishCreating
<1>3. /\ metric' \in Metrics /\ metric'["created"] = metric["created"]
      /\ metric'["failed"][ns] \in {metric["failed"][ns], metric["failed"][ns] + 1}
      /\ \A o \in Namespaces \ {ns} : metric'["failed"][o] = metric["failed"][o]
  BY <1>1, <1>2, IncCounts DEF MetricsInv, MetricsTypeOK, Metric
<1>4. /\ made'[ns] \in {made[ns], made[ns] + 1}
      /\ \A o \in Namespaces \ {ns} : made'[o] = made[o]
      /\ pods' \in [Namespaces -> Nat] /\ made' \in [Namespaces -> Nat]
  <2>1. \/ UNCHANGED <<pods, made>>
        \/ /\ pods' = [pods EXCEPT ![ns] = @ + 1]
           /\ made' = [made EXCEPT ![ns] = @ + 1]
    BY DEF FinishCreating
  <2>2. /\ pods \in [Namespaces -> Nat] /\ made \in [Namespaces -> Nat]
        /\ pods[ns] + 1 \in Nat /\ made[ns] + 1 \in Nat
    BY <1>1 DEF MetricsInv, MetricsTypeOK
  <2> QED
    BY <1>1, <2>1, <2>2
<1>5. made'[ns] = made[ns] + 1 \/ metric'["failed"][ns] = metric["failed"][ns] + 1
  BY <1>1, IncCounts DEF MetricsInv, MetricsTypeOK, FinishCreating, Metric
<1>6. MetricsTypeOK'
  BY <1>1, <1>3, <1>4 DEF MetricsInv, MetricsTypeOK, scrapeVars
<1>7. CreationsAreCounted'
  BY <1>1, <1>3, <1>4, <1>5, Counters
  DEF MetricsInv, MetricsAssumption, CreationsAreCounted, Metric
<1>8. \A o \in Namespaces : made'[o] >= made[o] /\ metric'["failed"][o] >= metric["failed"][o]
  BY <1>3, <1>4, Counters DEF MetricsInv, Metric
<1>9. ReportedSoFar' /\ SuccessesAreReal'
  BY <1>1, <1>3, <1>4, <1>8, <1>6, Counters
  DEF MetricsInv, Metric, Metrics, scrapeVars, ReportedSoFar, SuccessesAreReal
<1> QED
  BY <1>6, <1>7, <1>9 DEF MetricsInv

\* What touches neither creations nor failures nor a scrape.
LEMMA OtherMetrics ==
  ASSUME MetricsInv, NEW ns \in Namespaces, CullOne(ns) \/ RemovePod(ns)
  PROVE  MetricsInv'
<1>1. /\ metric' \in Metrics /\ metric'["created"] = metric["created"]
      /\ metric'["failed"] = metric["failed"]
  BY IncCounts DEF MetricsInv, MetricsTypeOK, CullOne, RemovePod, Metric
<1>2. pods' \in [Namespaces -> Nat] /\ UNCHANGED <<worker, made, scrapeVars>>
  BY DEF MetricsInv, MetricsTypeOK, CullOne, RemovePod
<1> QED
  BY <1>1, <1>2
  DEF MetricsInv, MetricsTypeOK, scrapeVars, CreationsAreCounted, ReportedSoFar, SuccessesAreReal

-----------------------------------------------------------------------------
(* Scrapes.                                                                *)

\* Before the creations are collected, the report is not compared.
LEMMA ListMetrics ==
  ASSUME MetricsInv, NEW s \in Scrapes, ListPods(s) \/ FailToList(s)
  PROVE  MetricsInv'
<1>1. MetricsTypeOK'
  <2>1. {ns \in Namespaces : pods[ns] > 0} \in SUBSET Namespaces
    OBVIOUS
  <2>2. CASE ListPods(s)
    BY <2>1, <2>2 DEF MetricsInv, MetricsTypeOK, ListPods
  <2>3. CASE FailToList(s)
    BY <2>3 DEF MetricsInv, MetricsTypeOK, FailToList
  <2> QED
    BY <2>2, <2>3
<1>2. /\ phase' = [phase EXCEPT ![s] = 1]
      /\ UNCHANGED <<worker, made, metric, report>>
  BY DEF ListPods, FailToList
<1> QED
  BY <1>1, <1>2
  DEF MetricsInv, MetricsTypeOK, CreationsAreCounted, ReportedSoFar, SuccessesAreReal

LEMMA GaugeMetrics ==
  ASSUME MetricsInv, NEW s \in Scrapes, NEW ns \in Namespaces, SetGauge(s, ns)
  PROVE  MetricsInv'
<1>1. /\ metric' \in Metrics /\ metric'["created"] = metric["created"]
      /\ metric'["failed"] = metric["failed"]
  BY DEF MetricsInv, MetricsTypeOK, Metrics, Metric, SetGauge
<1>2. left' \in [Scrapes -> SUBSET Namespaces]
  BY DEF MetricsInv, MetricsTypeOK, SetGauge
<1> QED
  BY <1>1, <1>2
  DEF MetricsInv, MetricsTypeOK, SetGauge, CreationsAreCounted, ReportedSoFar, SuccessesAreReal

\* The creations collected are those counted, the failures those counted later.
LEMMA CollectMetrics ==
  ASSUME MetricsInv, NEW s \in Scrapes, Collect(s)
  PROVE  MetricsInv'
<1> DEFINE m == Collected[phase[s]]
<1>1. phase[s] \in 1..3 /\ UNCHANGED <<pods, worker, made, metric, counted, left>>
  BY DEF MetricsInv, MetricsTypeOK, Collect
<1>2. phase' = [phase EXCEPT ![s] = (phase[s] + 1) % 4]
      /\ report' = [report EXCEPT ![s][m] = metric[m]]
  BY DEF Collect
<1>3. /\ phase[s] = 1 => m = "running" /\ (phase[s] + 1) % 4 = 2
      /\ phase[s] = 2 => m = "created" /\ (phase[s] + 1) % 4 = 3
      /\ phase[s] = 3 => m = "failed"  /\ (phase[s] + 1) % 4 = 0
  BY DEF Collected
<1>4. m \in Metric /\ (phase[s] + 1) % 4 \in 0..3
  BY <1>1, <1>3 DEF Metric
<1>5. MetricsTypeOK'
  BY <1>1, <1>2, <1>4 DEF MetricsInv, MetricsTypeOK, Metrics
<1>6. CreationsAreCounted'
  BY <1>1 DEF MetricsInv, CreationsAreCounted
<1>7. ASSUME NEW q \in Scrapes, q # s
      PROVE  phase'[q] = phase[q] /\ report'[q] = report[q]
  BY <1>2, <1>7 DEF MetricsInv, MetricsTypeOK
<1>8. phase'[s] = (phase[s] + 1) % 4 /\ report'[s][m] = metric[m]
      /\ \A l \in Metric \ {m} : report'[s][l] = report[s][l]
  BY <1>2, <1>4 DEF MetricsInv, MetricsTypeOK, Metrics
<1>9. ReportedSoFar'
  <2>1. ASSUME phase'[s] = 3, NEW ns \in Namespaces
        PROVE  report'[s]["created"][ns] <= made[ns] + metric["failed"][ns] + 1
    <3>1. report'[s]["created"] = metric["created"]
      BY <1>1, <1>3, <1>8, <2>1
    <3> QED
      BY <3>1, Counters DEF MetricsInv, Metric, CreationsAreCounted
  <2> QED
    BY <1>1, <1>7, <2>1 DEF MetricsInv, ReportedSoFar
<1>10. SuccessesAreReal'
  <2>1. ASSUME phase'[s] = 0, NEW ns \in Namespaces
        PROVE  report'[s]["created"][ns] <= made[ns] + report'[s]["failed"][ns] + 1
    <3>1. phase[s] = 3 /\ report'[s]["failed"] = metric["failed"]
          /\ report'[s]["created"] = report[s]["created"]
      BY <1>1, <1>3, <1>8, <2>1 DEF Metric
    <3> QED
      BY <3>1 DEF MetricsInv, ReportedSoFar
  <2> QED
    BY <1>1, <1>7, <2>1 DEF MetricsInv, SuccessesAreReal
<1> QED
  BY <1>5, <1>6, <1>9, <1>10 DEF MetricsInv

-----------------------------------------------------------------------------
LEMMA MetricsInvCorrect == Spec => []MetricsInv
<1>0. Init => MetricsInv
  BY InitMetrics, MetricsAssumption
<1>1. MetricsInv /\ [Next]_vars => MetricsInv'
  <2> SUFFICES ASSUME MetricsInv, [Next]_vars PROVE MetricsInv'
    OBVIOUS
  <2>1. CASE UNCHANGED vars
    BY <2>1
    DEF vars, scrapeVars, MetricsInv, MetricsTypeOK, CreationsAreCounted, ReportedSoFar,
        SuccessesAreReal
  <2> QED
    BY <2>1, MetricsAssumption, StartCreatingMetrics, FinishCreatingMetrics, OtherMetrics,
       ListMetrics, GaugeMetrics, CollectMetrics DEF Next
<1> QED
  BY <1>0, <1>1, PTL DEF Spec

\* The counters account for every creation, whenever they are read.
THEOREM CreationsCounted == Spec => []CreationsAreCounted
<1>1. MetricsInv => CreationsAreCounted
  BY DEF MetricsInv
<1> QED
  BY <1>1, MetricsInvCorrect, PTL

\* What a scrape reports names no success that was none, but for one.
THEOREM ReportedSuccesses == Spec => []SuccessesAreReal
<1>1. MetricsInv => SuccessesAreReal
  BY DEF MetricsInv
<1> QED
  BY <1>1, MetricsInvCorrect, PTL

=============================================================================
