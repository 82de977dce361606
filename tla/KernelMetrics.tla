---------------------------- MODULE KernelMetrics ----------------------------
(***************************************************************************)
(* controller/internal/metrics: what the controller counts and what        *)
(* Prometheus is told.  Reconcile counts pod creations, failures and culls *)
(* by namespace; each scrape lists the pods and sets a gauge per           *)
(* namespace, while other scrapes run.                                     *)
(*                                                                         *)
(* pods are those of the informer's cache that carry the label of their    *)
(* KernelManager, running or not.  A value of 0 is that of a series that   *)
(* was never set.                                                          *)
(***************************************************************************)
EXTENDS Naturals, Sequences

CONSTANTS
  Namespaces,
  Scrapes,       \* scrapes that may run at once
  MaxPods,       \* bound: pods of one namespace
  MaxCounted     \* bound: each counter

ASSUME MetricsAssumption ==
  MaxPods \in Nat /\ MaxCounted \in Nat /\ "none" \notin Namespaces

VARIABLES
  pods,      \* pods[ns]
  worker,    \* the namespace whose pod Reconcile is creating, or "none"
  made,      \* made[ns]: pods that were created
  metric,    \* metric[m][ns]: the metrics
  phase,     \* phase[s]: the metric the scrape s collects next, 0 when it is over
  counted,   \* counted[s]: stsCache, the pods it listed by namespace
  left,      \* left[s]: namespaces whose gauge it sets yet
  report     \* report[s]: what it collected last

scrapeVars == <<phase, counted, left, report>>
vars == <<pods, worker, made, metric, scrapeVars>>

Metric == {"running", "created", "failed", "culled"}
Zeros == [ns \in Namespaces |-> 0]

Inc(m, ns) == metric' = [metric EXCEPT ![m][ns] = @ + 1]

-----------------------------------------------------------------------------
(* Reconcile.                                                              *)

StartCreating(ns) ==
  /\ worker = "none"
  /\ pods[ns] < MaxPods /\ metric["created"][ns] < MaxCounted
  /\ worker' = ns
  /\ Inc("created", ns)
  /\ UNCHANGED <<pods, made, scrapeVars>>

\* Bug: a pod that exists already is no failure.
FinishCreatingQuietly ==
  /\ worker # "none"
  /\ worker' = "none"
  /\ \/ /\ pods' = [pods EXCEPT ![worker] = @ + 1]
        /\ made' = [made EXCEPT ![worker] = @ + 1]
        /\ UNCHANGED metric
     \/ UNCHANGED <<pods, made, metric>>
  /\ UNCHANGED scrapeVars

\* The answer to a Create that was made may get lost: it counts as failed.
FinishCreating ==
  /\ worker # "none"
  /\ worker' = "none"
  /\ \/ /\ pods' = [pods EXCEPT ![worker] = @ + 1]
        /\ made' = [made EXCEPT ![worker] = @ + 1]
        /\ UNCHANGED metric \/ Inc("failed", worker)
     \/ UNCHANGED <<pods, made>> /\ Inc("failed", worker)
  /\ UNCHANGED scrapeVars

CullOne(ns) ==
  /\ worker = "none"
  /\ metric["culled"][ns] < MaxCounted
  /\ Inc("culled", ns)
  /\ UNCHANGED <<pods, worker, made, scrapeVars>>

\* A pod is collected.
RemovePod(ns) ==
  /\ pods[ns] > 0
  /\ pods' = [pods EXCEPT ![ns] = @ - 1]
  /\ UNCHANGED <<worker, made, metric, scrapeVars>>

-----------------------------------------------------------------------------
(* Collect: scrape, then one metric after the other.                       *)

ListPods(s) ==
  /\ phase[s] = 0
  /\ phase' = [phase EXCEPT ![s] = 1]
  /\ counted' = [counted EXCEPT ![s] = pods]
  /\ left' = [left EXCEPT ![s] = {ns \in Namespaces : pods[ns] > 0}]
  /\ UNCHANGED <<pods, worker, made, metric, report>>

\* The list fails: nothing is set, and the metrics are reported as they are.
FailToList(s) ==
  /\ phase[s] = 0
  /\ phase' = [phase EXCEPT ![s] = 1]
  /\ UNCHANGED <<pods, worker, made, metric, counted, left, report>>

\* Bug: a gauge that has a value keeps it.
SetGaugeOnce(s, ns) ==
  /\ phase[s] = 1 /\ ns \in left[s]
  /\ metric' = [metric EXCEPT !["running"][ns] = IF @ = 0 THEN counted[s][ns] ELSE @]
  /\ left' = [left EXCEPT ![s] = @ \ {ns}]
  /\ UNCHANGED <<pods, worker, made, phase, counted, report>>

SetGauge(s, ns) ==
  /\ phase[s] = 1 /\ ns \in left[s]
  /\ metric' = [metric EXCEPT !["running"][ns] = counted[s][ns]]
  /\ left' = [left EXCEPT ![s] = @ \ {ns}]
  /\ UNCHANGED <<pods, worker, made, phase, counted, report>>

\* The culling metrics are not among the collected.
Collected == <<"running", "created", "failed">>

\* Bug: the failures are collected before the creations.
CollectFailedFirst(s) ==
  /\ phase[s] > 0 /\ left[s] = {}
  /\ LET m == <<"running", "failed", "created">>[phase[s]]
     IN report' = [report EXCEPT ![s][m] = metric[m]]
  /\ phase' = [phase EXCEPT ![s] = (@ + 1) % 4]
  /\ UNCHANGED <<pods, worker, made, metric, counted, left>>

\* Reconcile goes on between one metric and the next.
Collect(s) ==
  /\ phase[s] > 0 /\ left[s] = {}
  /\ LET m == Collected[phase[s]] IN report' = [report EXCEPT ![s][m] = metric[m]]
  /\ phase' = [phase EXCEPT ![s] = (@ + 1) % 4]
  /\ UNCHANGED <<pods, worker, made, metric, counted, left>>

-----------------------------------------------------------------------------
Init ==
  /\ pods = Zeros /\ made = Zeros /\ worker = "none"
  /\ metric = [m \in Metric |-> Zeros]
  /\ phase = [s \in Scrapes |-> 0]
  /\ counted = [s \in Scrapes |-> Zeros]
  /\ left = [s \in Scrapes |-> {}]
  /\ report = [s \in Scrapes |-> [m \in Metric |-> Zeros]]

Next ==
  \/ \E ns \in Namespaces : StartCreating(ns) \/ CullOne(ns) \/ RemovePod(ns)
  \/ FinishCreating
  \/ \E s \in Scrapes : \/ ListPods(s) \/ FailToList(s) \/ Collect(s)
                        \/ \E ns \in Namespaces : SetGauge(s, ns)

Spec == Init /\ [][Next]_vars

\* Prometheus scrapes again and again, and not every list fails.
Fairness ==
  \A s \in Scrapes :
    /\ SF_vars(ListPods(s)) /\ WF_vars(Collect(s))
    /\ \A ns \in Namespaces : WF_vars(SetGauge(s, ns))

FairSpec == Spec /\ Fairness

-----------------------------------------------------------------------------
(* Properties.                                                             *)

\* No creation escapes the counters: each was counted before it was tried,
\* and the ones that were not counted as failed made a pod.
CreationsAreCounted ==
  \A ns \in Namespaces :
    LET tried == metric["created"][ns] - (IF worker = ns THEN 1 ELSE 0)
    IN  made[ns] <= tried /\ tried <= made[ns] + metric["failed"][ns]

\* The gauge of a namespace that keeps some pods catches up with their number,
\* also when a scrape that counted earlier sets it later than another.
GaugeCatchesUp ==
  \A ns \in Namespaces : \A n \in 1..MaxPods :
    <>[](pods[ns] = n) => <>[](metric["running"][ns] = n)

\* Whoever subtracts the reported failures from the reported creations learns
\* of no success that is not one, but for the creation that is under way: the
\* failures are collected last, however Reconcile counts on meanwhile.
SuccessesAreReal ==
  \A s \in Scrapes, ns \in Namespaces :
    phase[s] = 0 => report[s]["created"][ns] <= made[ns] + report[s]["failed"][ns] + 1

=============================================================================
