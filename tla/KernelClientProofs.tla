-------------------------- MODULE KernelClientProofs --------------------------
(***************************************************************************)
(* What the REST server's requests guarantee for any number of requests,   *)
(* kernels, incarnations and failed calls.                                 *)
(***************************************************************************)
EXTENDS KernelClient, ClusterProofs

Assumptions == ClusterAssumption /\ ClientAssumption

-----------------------------------------------------------------------------
(* Types.                                                                  *)

Replies == [kind : Kinds, uid : Nat, ready : BOOLEAN]

\* The types of what only requests have.
RequestsTypeOK ==
  /\ pc \in [Requests -> Places]
  /\ op \in [Requests -> DOMAIN Start]
  /\ target \in [Requests -> Names]
  /\ first \in [Requests -> [Names -> Nat]]
  /\ todo \in [Requests -> SUBSET Names]
  /\ mine \in [Requests -> Nat]
  /\ late \in [Requests -> BOOLEAN]
  /\ failed \in [Requests -> SUBSET Places]
  /\ reply \in [Requests -> Replies]

LEMMA TypeParts == TypeOK <=> ClusterTypeOK /\ RequestsTypeOK
  BY DEF TypeOK, RequestsTypeOK, Replies

LEMMA StartDomain ==
  DOMAIN Start = {"create", "delete", "list", "shutdownAll", "get", "connect", "check", "contains"}
  BY DEF Start

\* What a KernelManager looks like to a request.
LEMMA Uids ==
  ASSUME TypeOK
  PROVE  \A n \in Names : kms[n] \in KM /\ kms[n].uid \in Nat /\ born[n] \in Nat
  BY KMFields DEF TypeOK, ClusterTypeOK

\* Going on, and the two forms of an answer, keep the types.
LEMMA GotoType ==
  ASSUME TypeOK, NEW r \in Requests, NEW l \in Places, Goto(r, l)
  PROVE  pc' \in [Requests -> Places] /\ reply' \in [Requests -> Replies]
  BY TypeParts DEF Goto, RequestsTypeOK

LEMMA AnswerType ==
  ASSUME TypeOK, NEW r \in Requests, NEW k \in Kinds,
         Answer(r, k) \/ AnswerKernel(r, k)
  PROVE  pc' \in [Requests -> Places] /\ reply' \in [Requests -> Replies]
<1>1. pc \in [Requests -> Places] /\ reply \in [Requests -> Replies]
  BY TypeParts DEF RequestsTypeOK
<1>2. "answered" \in Places
  BY DEF Places
<1>3. CASE Answer(r, k)
  <2>1. [reply[r] EXCEPT !.kind = k] \in Replies
    BY <1>1 DEF Replies
  <2> QED
    BY <1>1, <1>2, <1>3, <2>1 DEF Answer
<1>4. CASE AnswerKernel(r, k)
  <2>1. kms[target[r]].uid \in Nat
    BY Uids, TypeParts DEF RequestsTypeOK
  <2>2. (kms[target[r]].status.phase = "Running") \in BOOLEAN
    OBVIOUS
  <2>3. [kind |-> k, uid |-> kms[target[r]].uid,
         ready |-> kms[target[r]].status.phase = "Running"] \in Replies
    BY <2>1, <2>2 DEF Replies
  <2> QED
    BY <1>1, <1>2, <1>4, <2>3 DEF AnswerKernel
<1> QED
  BY <1>3, <1>4

\* A call that fails is kept in mind.
LEMMA FailedCalls ==
  ASSUME TypeOK, NEW r \in Requests, Fault(r) \/ NoFault
  PROVE  /\ failed' \in [Requests -> SUBSET Places]
         /\ failed[r] \subseteq failed'[r] /\ (Fault(r) => pc[r] \in failed'[r])
         /\ \A q \in Requests \ {r} : failed'[q] = failed[q]
  BY TypeParts DEF RequestsTypeOK, Fault, NoFault

LEMMA InitType ==
  ASSUME Assumptions, Init
  PROVE  TypeOK
<1>1. ClusterTypeOK
  BY ZeroObjects, NewKMType
  DEF Init, StoreInit, Assumptions, ClusterAssumption, ClusterTypeOK
<1>2. (CHOOSE n \in Names : TRUE) \in Names
  BY DEF Assumptions, ClientAssumption
<1>3. NoReply \in Replies /\ "new" \in Places
  BY DEF NoReply, Replies, Places, Kinds
<1> QED
  BY <1>1, <1>2, <1>3, TypeParts, StartDomain DEF Init, RequestsTypeOK

-----------------------------------------------------------------------------
(* What a step does to the cluster, whoever takes it.                      *)

Writes(n) ==
  \/ WriteKM(n, NewKM(born[n] + 1)) /\ born' = [born EXCEPT ![n] = @ + 1]
  \/ WriteKM(n, NoKM) /\ UNCHANGED born
  \/ \E s \in Status : WriteKM(n, [kms[n] EXCEPT !.status = s]) /\ UNCHANGED born

\* At most one KernelManager is created, deleted or given a status.
Effect ==
  /\ UNCHANGED <<cms, pods, cmFresh, podFresh>>
  /\ UNCHANGED <<kms, born, fresh>> \/ \E n \in Names : Writes(n)
  /\ UNCHANGED faults \/ (faults > 0 /\ faults' = faults - 1)

LEMMA StepEffect ==
  ASSUME TypeOK, [Next]_vars
  PROVE  Effect
<1>1. CASE UNCHANGED vars
  BY <1>1 DEF vars, clusterVars, Effect
<1>2. ASSUME NEW r \in Requests, NEW o \in Ops, NEW n \in Names, Arrive(r, o, n)
      PROVE  Effect
  BY <1>2 DEF Arrive, clusterVars, Effect
<1>3. ASSUME NEW r \in Requests, Timeout(r) \/ NextToShut(r)
      PROVE  Effect
  BY <1>3 DEF Timeout, NextToShut, clusterVars, Effect
<1>4. ASSUME NEW r \in Requests, Poll(r) \/ FetchCreated(r) \/ Lookup(r) \/ Read(r) \/ List(r)
      PROVE  Effect
  <2>1. NoWrite /\ (NoFault \/ Fault(r))
    BY <1>4 DEF Poll, FetchCreated, Lookup, Read, List
  <2> QED
    BY <2>1 DEF NoWrite, NoFault, Fault, others, Effect
<1>5. ASSUME NEW r \in Requests, Create(r)
      PROVE  Effect
  <2>1. target[r] \in Names
    BY TypeParts DEF RequestsTypeOK
  <2>2. UNCHANGED faults \/ (faults > 0 /\ faults' = faults - 1)
    BY <1>5 DEF Create, NoFault, Fault
  <2>3. CASE NewIncarnation(r)
    BY <2>1, <2>2, <2>3 DEF NewIncarnation, Effect, Writes
  <2>4. CASE NoWrite
    BY <2>2, <2>4 DEF NoWrite, others, Effect
  <2> QED
    BY <1>5, <2>3, <2>4 DEF Create
<1>6. ASSUME NEW r \in Requests, Delete(r)
      PROVE  Effect
  <2>1. target[r] \in Names
    BY TypeParts DEF RequestsTypeOK
  <2>2. UNCHANGED faults \/ (faults > 0 /\ faults' = faults - 1)
    BY <1>6 DEF Delete, NoFault, Fault
  <2>3. CASE WriteKM(target[r], NoKM) /\ UNCHANGED <<born, cms, pods, cmFresh, podFresh>>
    BY <2>1, <2>2, <2>3 DEF Effect, Writes
  <2>4. CASE NoWrite
    BY <2>2, <2>4 DEF NoWrite, others, Effect
  <2> QED
    BY <1>6, <2>3, <2>4 DEF Delete
<1>7. ASSUME NEW n \in Names, Elsewhere(n)
      PROVE  Effect
  <2>1. CASE DeleteKM(n)
    BY <2>1 DEF DeleteKM, ConfigMapUnchanged, PodUnchanged, Effect, Writes
  <2>2. CASE ReportStatus(n)
    <3>1. PICK phase \in {"unset", "Running"} :
            WriteKM(n, [kms[n] EXCEPT !.status = [NoStatus EXCEPT !.phase = phase]])
      BY <2>2 DEF ReportStatus
    <3>2. [NoStatus EXCEPT !.phase = phase] \in Status
      BY DEF NoStatus, Status, StatusPhase, PodPhase
    <3> QED
      BY <2>2, <3>1, <3>2 DEF ReportStatus, Effect, Writes
  <2> QED
    BY <1>7, <2>1, <2>2 DEF Elsewhere
<1> QED
  BY <1>1, <1>2, <1>3, <1>4, <1>5, <1>6, <1>7 DEF Next, Serve

LEMMA EffectType ==
  ASSUME TypeOK, Effect
  PROVE  ClusterTypeOK'
<1> USE DEF TypeOK, ClusterTypeOK, WriteKM
<1>1. faults' \in Nat
  BY DEF Effect
<1>2. CASE UNCHANGED <<kms, born, fresh>>
  BY <1>1, <1>2 DEF Effect
<1>3. ASSUME NEW n \in Names, Writes(n)
      PROVE  ClusterTypeOK'
  <2>1. CASE WriteKM(n, NewKM(born[n] + 1)) /\ born' = [born EXCEPT ![n] = @ + 1]
    BY <1>1, <2>1, NewKMType DEF Effect
  <2>2. CASE WriteKM(n, NoKM) /\ UNCHANGED born
    BY <1>1, <2>2, ZeroObjects DEF Effect
  <2>3. ASSUME NEW s \in Status, WriteKM(n, [kms[n] EXCEPT !.status = s]), UNCHANGED born
        PROVE  ClusterTypeOK'
    <3>1. [kms[n] EXCEPT !.status = s] \in KM
      BY KMFields
    <3> QED
      BY <1>1, <2>3, <3>1 DEF Effect
  <2> QED
    BY <1>3, <2>1, <2>2, <2>3 DEF Writes
<1> QED
  BY <1>2, <1>3 DEF Effect

ReadOps == {"get", "connect", "check", "contains"}

\* The calls that a request of each kind makes, on which the kind of its answer depends.
OpAt(r) ==
  /\ pc[r] = "new" => op[r] = "list"
  /\ pc[r] \in {"create", "poll", "fetch"} => op[r] = "create"
  /\ pc[r] \in {"lookup", "delete"} => op[r] \in {"create", "delete", "shutdownAll"}
  /\ pc[r] = "read" => op[r] \in ReadOps
  /\ pc[r] = "list" => op[r] \in {"list", "shutdownAll"}
  /\ pc[r] = "next" => op[r] = "shutdownAll"

LEMMA RequestsType ==
  ASSUME Assumptions, TypeOK, \A r \in Requests : OpAt(r), [Next]_vars
  PROVE  RequestsTypeOK'
<1> USE DEF RequestsTypeOK
<1>0. RequestsTypeOK
  BY TypeParts
<1>1. CASE UNCHANGED vars
  BY <1>0, <1>1 DEF vars, requestVars
<1>2. ASSUME NEW r \in Requests, NEW o \in Ops, NEW n \in Names, Arrive(r, o, n)
      PROVE  RequestsTypeOK'
  <2>1. o \in DOMAIN Start /\ Start[o] \in Places /\ "rejected" \in Kinds
    BY DEF Assumptions, ClientAssumption, Start, Places, Kinds
  <2>2. pc' \in [Requests -> Places] /\ reply' \in [Requests -> Replies]
    BY <1>2, <2>1, GotoType, AnswerType DEF Arrive, Admit, TurnAway
  <2>3. Incarnations \in [Names -> Nat]
    BY Uids DEF Incarnations
  <2>4. CASE Admit(r, o, n)
    <3>1. /\ (IF o \in {"list", "shutdownAll"} THEN target[r] ELSE n) \in Names
          /\ (IF o \in {"create", "delete"} THEN Incarnations ELSE first[r]) \in [Names -> Nat]
      BY <1>0, <2>3
    <3> QED
      BY <1>0, <1>2, <2>1, <2>2, <2>4, <3>1 DEF Arrive, Admit
  <2>5. CASE TurnAway(r)
    BY <1>0, <1>2, <2>2, <2>5 DEF Arrive, TurnAway
  <2> QED
    BY <1>2, <2>4, <2>5 DEF Arrive
<1>3. ASSUME NEW r \in Requests, Timeout(r)
      PROVE  RequestsTypeOK'
  BY <1>0, <1>3 DEF Timeout, requestVars
<1>4. ASSUME NEW r \in Requests, NextToShut(r)
      PROVE  RequestsTypeOK'
  <2>1. "lookup" \in Places /\ "shutDown" \in Kinds
    BY DEF Places, Kinds
  <2>2. pc' \in [Requests -> Places] /\ reply' \in [Requests -> Replies]
    BY <1>4, <2>1, GotoType, AnswerType DEF NextToShut
  <2>3. todo[r] \subseteq Names
    BY <1>0
  <2>4. todo' \in [Requests -> SUBSET Names] /\ target' \in [Requests -> Names]
    BY <1>0, <1>4, <2>3 DEF NextToShut
  <2> QED
    BY <1>0, <1>4, <2>2, <2>4 DEF NextToShut
<1>5. ASSUME NEW r \in Requests, List(r)
      PROVE  RequestsTypeOK'
  <2>1. "next" \in Places /\ {"listed", "exception"} \subseteq Kinds
    BY DEF Places, Kinds
  <2>2. pc' \in [Requests -> Places] /\ reply' \in [Requests -> Replies]
    BY <1>5, <2>1, GotoType, AnswerType DEF List
  <2>3. Incarnations \in [Names -> Nat]
    BY Uids DEF Incarnations
  <2>4. {n \in Names : kms[n].uid # 0} \in SUBSET Names
    OBVIOUS
  <2>5. first' \in [Requests -> [Names -> Nat]] /\ todo' \in [Requests -> SUBSET Names]
    BY <1>0, <1>5, <2>3, <2>4 DEF List
  <2>6. failed' \in [Requests -> SUBSET Places]
    BY <1>5, FailedCalls DEF List
  <2> QED
    BY <1>0, <1>5, <2>2, <2>5, <2>6 DEF List
<1>6. ASSUME NEW r \in Requests, Create(r)
      PROVE  RequestsTypeOK'
  <2>1. "poll" \in Places /\ {"exists", "quota", "creationError", "exception"} \subseteq Kinds
    BY DEF Places, Kinds
  <2>2. pc' \in [Requests -> Places] /\ reply' \in [Requests -> Replies]
    BY <1>6, <2>1, GotoType, AnswerType DEF Create
  <2>3. born[target[r]] + 1 \in Nat
    BY <1>0, Uids
  <2>4. mine' \in [Requests -> Nat]
    BY <1>0, <1>6, <2>3 DEF Create, NewIncarnation
  <2>5. failed' \in [Requests -> SUBSET Places]
    BY <1>6, FailedCalls DEF Create
  <2> QED
    BY <1>0, <1>6, <2>2, <2>4, <2>5 DEF Create, requestVars
<1>7. ASSUME NEW r \in Requests, Poll(r) \/ FetchCreated(r) \/ Lookup(r) \/ Delete(r) \/ Read(r)
      PROVE  RequestsTypeOK'
  <2>1. {"fetch", "lookup", "delete", "next"} \subseteq Places
        /\ {"created", "deleted", "deleteError", "creationError", "exception"} \subseteq Kinds
    BY DEF Places, Kinds
  <2> DEFINE TypedReply == pc' \in [Requests -> Places] /\ reply' \in [Requests -> Replies]
  <2>2. AfterDelete(r) \/ DeleteRefused(r) => TypedReply
    <3>1. AfterDelete(r) =>
            \E k \in {"deleted", "creationError"} : Goto(r, "next") \/ Answer(r, k)
      BY DEF AfterDelete
    <3>2. DeleteRefused(r) => \E k \in {"deleted", "deleteError"} : Answer(r, k)
      BY DEF DeleteRefused
    <3> QED
      BY <2>1, <3>1, <3>2, GotoType, AnswerType
  <2>3. Poll(r) => TypedReply
    BY <1>0, <2>1, GotoType DEF Poll, GiveUp, OnUnready
  <2>4. FetchCreated(r) => TypedReply
    BY <2>1, AnswerType DEF FetchCreated
  <2>5. Lookup(r) => TypedReply
    BY <2>1, <2>2, GotoType, AnswerType DEF Lookup
  <2>6. Delete(r) => TypedReply
    BY <2>1, <2>2, AnswerType DEF Delete
  <2>7. Read(r) => TypedReply
    <3> SUFFICES ASSUME Read(r) PROVE TypedReply
      OBVIOUS
    <3>1. op[r] \in ReadOps
      BY DEF OpAt, Read
    <3>2. {Outcome[op[r]].ready, Outcome[op[r]].unready, Outcome[op[r]].absent,
           Outcome[op[r]].error} \subseteq Kinds
      BY <3>1 DEF ReadOps, Outcome, Kinds
    <3> QED
      BY <2>1, <3>2, AnswerType DEF Read
  <2>8. UNCHANGED <<requestVars, mine, late>>
    BY <1>7 DEF Poll, FetchCreated, Lookup, Delete, Read
  <2>9. failed' \in [Requests -> SUBSET Places]
    BY <1>7, FailedCalls DEF Poll, FetchCreated, Lookup, Delete, Read
  <2> QED
    BY <1>0, <1>7, <2>3, <2>4, <2>5, <2>6, <2>7, <2>8, <2>9 DEF requestVars
<1>8. CASE \E n \in Names : Elsewhere(n)
  BY <1>0, <1>8 DEF Elsewhere, requestVars
<1> QED
  BY <1>1, <1>2, <1>3, <1>4, <1>5, <1>6, <1>7, <1>8 DEF Next, Serve

-----------------------------------------------------------------------------
(* Who takes a step.                                                       *)

\* What r has is left alone.
Aside(r) ==
  /\ pc'[r] = pc[r] /\ op'[r] = op[r] /\ target'[r] = target[r]
  /\ first'[r] = first[r] /\ todo'[r] = todo[r]
  /\ mine'[r] = mine[r] /\ failed'[r] = failed[r] /\ reply'[r] = reply[r]

Acts(r) == Timeout(r) \/ Serve(r) \/ \E o \in Ops, n \in Names : Arrive(r, o, n)

LEMMA StayAside ==
  ASSUME TypeOK, NEW q \in Requests, Acts(q), NEW r \in Requests, r # q
  PROVE  Aside(r)
<1> USE DEF RequestsTypeOK, Aside, requestVars
<1>0. RequestsTypeOK
  BY TypeParts
<1>1. ASSUME NEW l \in Places, Goto(q, l)
      PROVE  pc'[r] = pc[r] /\ reply'[r] = reply[r]
  BY <1>0, <1>1 DEF Goto
<1>2. ASSUME NEW k, Answer(q, k) \/ AnswerKernel(q, k)
      PROVE  pc'[r] = pc[r] /\ reply'[r] = reply[r]
  BY <1>0, <1>2 DEF Answer, AnswerKernel
<1>3. CASE Timeout(q)
  BY <1>3 DEF Timeout
<1>4. ASSUME NEW o \in Ops, NEW n \in Names, Arrive(q, o, n)
      PROVE  Aside(r)
  BY <1>0, <1>4 DEF Arrive, Admit, TurnAway, Goto, Answer
<1>5. CASE NextToShut(q)
  BY <1>0, <1>5 DEF NextToShut, Goto, Answer
<1>6. CASE List(q)
  BY <1>0, <1>6, FailedCalls DEF List, Goto, Answer
<1>7. CASE Create(q)
  BY <1>0, <1>7, FailedCalls DEF Create, NewIncarnation, Goto, Answer
<1>8. CASE Poll(q)
  BY <1>0, <1>8, FailedCalls DEF Poll, OnUnready, GiveUp, Goto
<1>9. CASE FetchCreated(q) \/ Read(q)
  BY <1>2, <1>9, FailedCalls DEF FetchCreated, Read
<1>10. CASE Lookup(q) \/ Delete(q)
  BY <1>0, <1>10, FailedCalls DEF Lookup, Delete, AfterDelete, DeleteRefused, Goto, Answer
<1> QED
  BY <1>3, <1>4, <1>5, <1>6, <1>7, <1>8, <1>9, <1>10 DEF Acts, Serve

\* A request acts, or a step is none of its own.
LEMMA ActsOrAside ==
  ASSUME TypeOK, [Next]_vars, NEW r \in Requests
  PROVE  Acts(r) \/ Aside(r)
<1>1. CASE UNCHANGED vars
  BY <1>1 DEF vars, requestVars, Aside
<1>2. CASE \E n \in Names : Elsewhere(n)
  BY <1>2 DEF Elsewhere, requestVars, Aside
<1> QED
  BY <1>1, <1>2, StayAside DEF Next, Acts

LEMMA ActsOpAt ==
  ASSUME Assumptions, TypeOK, NEW r \in Requests, OpAt(r), Acts(r)
  PROVE  OpAt(r)'
<1> USE DEF OpAt, RequestsTypeOK, requestVars
<1>0. RequestsTypeOK
  BY TypeParts
<1>3. CASE Timeout(r)
  BY <1>3 DEF Timeout
<1>4. ASSUME NEW o \in Ops, NEW n \in Names, Arrive(r, o, n)
      PROVE  OpAt(r)'
  <2>1. o \in DOMAIN Start
    BY StartDomain DEF Assumptions, ClientAssumption
  <2>2. (op'[r] = o /\ pc'[r] = Start[o]) \/ pc'[r] = "answered"
    BY <1>0, <1>4 DEF Arrive, Admit, TurnAway, Goto, Answer
  <2> QED
    BY <2>1, <2>2, StartDomain DEF Start, ReadOps
<1>5. CASE NextToShut(r)
  BY <1>0, <1>5 DEF NextToShut, Goto, Answer
<1>6. CASE List(r)
  BY <1>0, <1>6 DEF List, Goto, Answer
<1>7. CASE Create(r)
  BY <1>0, <1>7 DEF Create, NewIncarnation, Goto, Answer
<1>8. CASE Poll(r)
  BY <1>0, <1>8 DEF Poll, OnUnready, GiveUp, Goto
<1>9. CASE FetchCreated(r) \/ Read(r)
  BY <1>0, <1>9 DEF FetchCreated, Read, Answer, AnswerKernel
<1>10. CASE Lookup(r) \/ Delete(r)
  BY <1>0, <1>10 DEF Lookup, Delete, AfterDelete, DeleteRefused, Goto, Answer
<1> QED
  BY <1>3, <1>4, <1>5, <1>6, <1>7, <1>8, <1>9, <1>10 DEF Acts, Serve

LEMMA OpAtStep ==
  ASSUME Assumptions, TypeOK, [Next]_vars, NEW r \in Requests, OpAt(r)
  PROVE  OpAt(r)'
  BY ActsOrAside, ActsOpAt DEF Aside, OpAt

TypeInv == TypeOK /\ \A r \in Requests : OpAt(r)

LEMMA TypesAndCalls == Spec => []TypeInv
<1>1. Assumptions
  BY ClusterAssumption, ClientAssumption DEF Assumptions
<1>2. Init => TypeInv
  BY <1>1, InitType DEF Init, OpAt, TypeInv
<1>3. ASSUME TypeInv, [Next]_vars
      PROVE  TypeInv'
  <2>1. TypeOK'
    BY <1>1, <1>3, StepEffect, EffectType, RequestsType, TypeParts
       DEF TypeInv, TypeOK, RequestsTypeOK, Replies
  <2> QED
    BY <1>1, <1>3, <2>1, OpAtStep DEF TypeInv
<1> QED
  BY <1>2, <1>3, PTL DEF Spec

\* Every variable of the requests and of what they write keeps its type.
THEOREM TypeCorrect == Spec => []TypeOK
  BY TypesAndCalls, PTL DEF TypeInv

-----------------------------------------------------------------------------
(* The inductive invariant.                                                *)

\* An incarnation that exists, or that a request saw or made, was created.
Numbered ==
  /\ \A n \in Names : kms[n].uid <= born[n]
  /\ \A r \in Requests, n \in Names : first[r][n] <= born[n]
  /\ \A r \in Requests : mine[r] <= born[target[r]]

\* The incarnation u of the kernel n does not exist, and never will again.
Gone(n, u) == u # 0 => kms[n].uid # u

\* Nothing is said before the end, and nothing made before the request.
Unanswered(r) ==
  /\ pc[r] # "answered" => reply[r].kind = "none"
  /\ pc[r] \in {"new", "create"} => mine[r] = 0
  /\ mine[r] # 0 => op[r] = "create"

\* A create waits for the kernel it made, or for a later one, and deletes none
\* other when it gives up.
WaitsForItsOwn(r) ==
  op[r] = "create" /\ pc[r] \in {"poll", "fetch", "lookup", "delete"} =>
    /\ mine[r] > first[r][target[r]]
    /\ kms[target[r]].uid # 0 => kms[target[r]].uid >= mine[r]

\* What was answered.
AnsweredRight(r) ==
  /\ GaveUp(r) /\ failed[r] \subseteq {"poll"} => Gone(target[r], mine[r])
  /\ reply[r].kind = "deleted" /\ failed[r] = {} => Gone(target[r], first[r][target[r]])
  /\ reply[r].kind = "created" => reply[r].uid > first[r][target[r]]

\* The kernels ashutdown_all has still to look at, or failed to delete.
Remaining(r) ==
  IF pc[r] \in {"lookup", "delete"} \/ (pc[r] = "answered" /\ "delete" \in failed[r])
  THEN todo[r] \cup {target[r]} ELSE todo[r]

\* Those it is done with are gone.
ShutSoFar(r) ==
  op[r] = "shutdownAll" /\ pc[r] # "list" /\ failed[r] \cap {"list", "lookup"} = {}
  => \A n \in Names \ Remaining(r) : Gone(n, first[r][n])

RequestInv(r) ==
  /\ Unanswered(r) /\ WaitsForItsOwn(r)
  /\ AnsweredRight(r) /\ ShutSoFar(r)

ClientInv == Numbered /\ \A r \in Requests : RequestInv(r)

\* Incarnations only grow: one that is gone is gone for good.
Aged ==
  \A n \in Names :
    /\ born'[n] >= born[n] /\ kms'[n].uid <= born'[n]
    /\ kms'[n].uid \in {kms[n].uid, 0} \/ kms'[n].uid > born[n]

LEMMA EffectAges ==
  ASSUME TypeOK, Numbered, Effect
  PROVE  Aged
<1>1. CASE UNCHANGED <<kms, born, fresh>>
  BY <1>1, Uids DEF Aged, Numbered
<1>2. ASSUME NEW m \in Names, Writes(m), NEW n \in Names
      PROVE  /\ born'[n] >= born[n] /\ kms'[n].uid <= born'[n]
             /\ kms'[n].uid \in {kms[n].uid, 0} \/ kms'[n].uid > born[n]
  <2>0. /\ kms \in [Names -> KM] /\ born \in [Names -> Nat]
        /\ kms[n].uid \in Nat /\ kms[n].uid <= born[n]
    BY Uids DEF TypeOK, ClusterTypeOK, Numbered
  <2>1. CASE WriteKM(m, NewKM(born[m] + 1)) /\ born' = [born EXCEPT ![m] = @ + 1]
    BY <2>0, <2>1 DEF WriteKM, NewKM
  <2>2. CASE WriteKM(m, NoKM) /\ UNCHANGED born
    BY <2>0, <2>2 DEF WriteKM, NoKM, NewKM
  <2>3. ASSUME NEW s \in Status, WriteKM(m, [kms[m] EXCEPT !.status = s]), UNCHANGED born
        PROVE  kms'[n].uid = kms[n].uid /\ UNCHANGED born
    <3>1. [kms[m] EXCEPT !.status = s].uid = kms[m].uid
      BY <2>0 DEF KM
    <3> QED
      BY <2>0, <2>3, <3>1 DEF WriteKM
  <2>4. (\E s \in Status : WriteKM(m, [kms[m] EXCEPT !.status = s]) /\ UNCHANGED born)
          => kms'[n].uid = kms[n].uid /\ UNCHANGED born
    BY <2>3
  <2>5. kms'[n].uid = kms[n].uid /\ UNCHANGED born
          => /\ born'[n] >= born[n] /\ kms'[n].uid <= born'[n]
             /\ kms'[n].uid \in {kms[n].uid, 0} \/ kms'[n].uid > born[n]
    BY <2>0
  <2> QED
    BY <1>2, <2>1, <2>2, <2>4, <2>5 DEF Writes
<1> QED
  BY <1>1, <1>2 DEF Effect, Aged

LEMMA GoneForGood ==
  ASSUME TypeOK, Aged, NEW n \in Names, NEW u \in Nat, u <= born[n], Gone(n, u)
  PROVE  u # 0 => kms'[n].uid # u
  BY Uids DEF Aged, Gone

\* What the invariants compare are numbers.
LEMMA Numbers ==
  ASSUME TypeOK, Numbered, NEW r \in Requests
  PROVE  /\ target[r] \in Names /\ mine[r] \in Nat /\ mine[r] <= born[target[r]]
         /\ \A n \in Names : first[r][n] \in Nat /\ first[r][n] <= born[n]
         /\ first[r][target[r]] \in Nat
  BY TypeParts DEF RequestsTypeOK, Numbered

\* A request that another step leaves aside keeps what is known of it.
LEMMA AsideRequest ==
  ASSUME TypeOK, TypeOK', Numbered, Aged, NEW r \in Requests, Aside(r), RequestInv(r)
  PROVE  RequestInv(r)'
<1>1. /\ target[r] \in Names /\ mine[r] \in Nat /\ mine[r] <= born[target[r]]
      /\ \A n \in Names : first[r][n] \in Nat /\ first[r][n] <= born[n]
      /\ first[r][target[r]] \in Nat
  BY Numbers
<1>2. Unanswered(r)'
  BY DEF Aside, RequestInv, Unanswered
<1>3. WaitsForItsOwn(r)'
  <2> SUFFICES ASSUME op[r] = "create", pc[r] \in {"poll", "fetch", "lookup", "delete"},
                      kms'[target[r]].uid # 0
               PROVE  kms'[target[r]].uid >= mine[r]
    BY DEF Aside, RequestInv, WaitsForItsOwn
  <2>1. kms'[target[r]].uid \in Nat
    BY <1>1, KMFields DEF TypeOK, ClusterTypeOK
  <2> QED
    BY <1>1, <2>1, Uids DEF Aged, RequestInv, WaitsForItsOwn
<1>4. AnsweredRight(r)'
  BY <1>1, GoneForGood DEF Aside, RequestInv, AnsweredRight, Gone, GaveUp
<1>5. ShutSoFar(r)'
  <2>1. Remaining(r)' = Remaining(r)
    BY DEF Aside, Remaining
  <2> QED
    BY <1>1, <2>1, GoneForGood DEF Aside, RequestInv, ShutSoFar, Gone
<1> QED
  BY <1>2, <1>3, <1>4, <1>5 DEF RequestInv

\* What r is after it went on or was answered.
LEMMA OwnPlace ==
  ASSUME TypeOK, NEW r \in Requests
  PROVE  /\ \A l \in Places : Goto(r, l) => pc'[r] = l /\ reply'[r] = reply[r]
         /\ \A k \in Kinds : Answer(r, k) => pc'[r] = "answered" /\ reply'[r].kind = k
         /\ \A k \in Kinds : AnswerKernel(r, k) =>
              pc'[r] = "answered" /\ reply'[r].kind = k /\ reply'[r].uid = kms[target[r]].uid
<1>1. pc \in [Requests -> Places] /\ reply \in [Requests -> Replies]
  BY TypeParts DEF RequestsTypeOK
<1>2. ASSUME NEW k \in Kinds, Answer(r, k)
      PROVE  pc'[r] = "answered" /\ reply'[r].kind = k
  <2>1. [reply[r] EXCEPT !.kind = k].kind = k
    BY <1>1 DEF Replies
  <2> QED
    BY <1>1, <1>2, <2>1 DEF Answer
<1> QED
  BY <1>1, <1>2 DEF Goto, AnswerKernel

LEMMA ArriveRequest ==
  ASSUME Assumptions, TypeOK, NEW r \in Requests, OpAt(r), RequestInv(r),
         NEW o \in Ops, NEW n \in Names, Arrive(r, o, n)
  PROVE  RequestInv(r)'
<1>1. o \in DOMAIN Start /\ Start[o] \in Places /\ "rejected" \in Kinds
  BY DEF Assumptions, ClientAssumption, Start, Places, Kinds
<1>2. \/ pc'[r] = Start[o] /\ op'[r] = o
      \/ pc'[r] = "answered" /\ op'[r] = "list"
  BY <1>1, OwnPlace, TypeParts DEF Arrive, Admit, TurnAway, OpAt, RequestsTypeOK
<1>3. reply'[r].kind \in {"none", "rejected"} /\ mine'[r] = 0
      /\ (pc'[r] # "answered" => reply'[r].kind = "none")
  BY <1>1, OwnPlace DEF Arrive, Admit, TurnAway, RequestInv, Unanswered
<1> QED
  BY <1>1, <1>2, <1>3, StartDomain
  DEF Start, RequestInv, Unanswered, WaitsForItsOwn, AnsweredRight, GaveUp, ShutSoFar

LEMMA TimeoutRequest ==
  ASSUME TypeOK, NEW r \in Requests, RequestInv(r), Timeout(r)
  PROVE  RequestInv(r)'
  BY DEF Timeout, clusterVars, requestVars, RequestInv, Unanswered, WaitsForItsOwn,
         AnsweredRight, GaveUp, Gone, ShutSoFar, Remaining

\* The kernel that is made is later than all before it.
LEMMA CreateRequest ==
  ASSUME TypeOK, Numbered, NEW r \in Requests, OpAt(r), RequestInv(r), Create(r)
  PROVE  RequestInv(r)'
<1>1. /\ target[r] \in Names /\ mine[r] \in Nat /\ mine[r] <= born[target[r]]
      /\ \A n \in Names : first[r][n] \in Nat /\ first[r][n] <= born[n]
      /\ first[r][target[r]] \in Nat
  BY Numbers
<1>2. op[r] = "create" /\ mine[r] = 0 /\ UNCHANGED requestVars /\ reply[r].kind = "none"
  BY DEF Create, OpAt, RequestInv, Unanswered
<1>3. {"exists", "quota", "creationError", "exception"} \subseteq Kinds /\ "poll" \in Places
  BY DEF Kinds, Places
<1>4. CASE NewIncarnation(r)
  <2>1. /\ mine'[r] = born[target[r]] + 1
        /\ kms'[target[r]].uid = born[target[r]] + 1
    BY <1>1, <1>4, TypeParts, Uids
    DEF NewIncarnation, WriteKM, NewKM, RequestsTypeOK, TypeOK, ClusterTypeOK
  <2>2. \/ pc'[r] = "poll" /\ reply'[r] = reply[r]
        \/ Fault(r) /\ pc'[r] = "answered" /\ reply'[r].kind \in {"creationError", "exception"}
    BY <1>1, <1>3, <1>4, <2>1, OwnPlace, Uids DEF Create, NewIncarnation, Exists
  <2>3. WaitsForItsOwn(r)'
    BY <1>1, <1>2, <2>1, <2>2, Uids DEF requestVars, WaitsForItsOwn
  <2>4. AnsweredRight(r)'
    BY <1>2, <2>2, FailedCalls DEF Create, AnsweredRight, GaveUp
  <2> QED
    BY <1>2, <2>2, <2>3, <2>4 DEF requestVars, RequestInv, Unanswered, ShutSoFar
<1>5. CASE Exists(r)
  <2>1. UNCHANGED mine
    BY <1>5 DEF Create, NewIncarnation
  <2>2. /\ pc'[r] = "answered"
        /\ reply'[r].kind \in {"exists", "quota", "creationError", "exception"}
    BY <1>3, <1>5, OwnPlace DEF Create, NewIncarnation
  <2> QED
    BY <1>2, <2>1, <2>2
    DEF requestVars, RequestInv, Unanswered, WaitsForItsOwn, AnsweredRight, GaveUp, Gone, ShutSoFar
<1>6. CASE ~Exists(r) /\ ~NewIncarnation(r)
  <2>1. /\ UNCHANGED mine /\ pc'[r] = "answered"
        /\ reply'[r].kind \in {"exists", "quota", "creationError", "exception"}
    BY <1>3, <1>6, OwnPlace DEF Create
  <2> QED
    BY <1>2, <2>1
    DEF requestVars, RequestInv, Unanswered, WaitsForItsOwn, AnsweredRight, GaveUp, Gone, ShutSoFar
<1> QED
  BY <1>4, <1>5, <1>6

\* What reading is answered with says nothing of a kernel created or gone.
PlainKinds ==
  {"exception", "found", "connected", "true", "false", "notFound", "notReady", "listed"}

LEMMA PlainAnswer ==
  ASSUME TypeOK, NEW r \in Requests, RequestInv(r), op'[r] = op[r], mine'[r] = mine[r],
         op[r] \in ReadOps \cup {"list"},
         NEW k \in PlainKinds, Answer(r, k) \/ AnswerKernel(r, k)
  PROVE  RequestInv(r)'
<1>1. k \in Kinds
  BY DEF PlainKinds, Kinds
<1>2. pc'[r] = "answered" /\ reply'[r].kind = k
  BY <1>1, OwnPlace
<1> QED
  BY <1>2 DEF PlainKinds, ReadOps, RequestInv, Unanswered, WaitsForItsOwn, AnsweredRight, GaveUp,
              ShutSoFar

LEMMA PollRequest ==
  ASSUME TypeOK, NEW r \in Requests, OpAt(r), RequestInv(r), Poll(r)
  PROVE  RequestInv(r)'
<1>1. op[r] = "create" /\ reply[r].kind = "none" /\ UNCHANGED <<requestVars, mine, kms>>
  BY DEF Poll, OpAt, RequestInv, Unanswered, NoWrite
<1>2. {"fetch", "lookup"} \subseteq Places
  BY DEF Places
<1>3. pc'[r] \in {"poll", "fetch", "lookup"} /\ reply'[r] = reply[r]
  BY <1>2, OwnPlace DEF Poll, GiveUp, OnUnready
<1> QED
  BY <1>1, <1>3
  DEF Poll, requestVars, RequestInv, Unanswered, WaitsForItsOwn, AnsweredRight, GaveUp, ShutSoFar

\* What is answered is at least the incarnation that was waited for.
LEMMA FetchRequest ==
  ASSUME TypeOK, Numbered, NEW r \in Requests, OpAt(r), RequestInv(r), FetchCreated(r)
  PROVE  RequestInv(r)'
<1>1. op[r] = "create" /\ UNCHANGED <<requestVars, mine>>
  BY DEF FetchCreated, OpAt
<1>2. CASE Answer(r, "exception")
  <2>1. pc'[r] = "answered" /\ reply'[r].kind = "exception"
    BY <1>2, OwnPlace DEF Kinds
  <2>2. kms'[target[r]].uid = 0 \/ "fetch" \in failed'[r]
    <3>1. CASE Fault(r)
      BY <3>1, FailedCalls DEF FetchCreated
    <3>2. CASE Exists(r) /\ AnswerKernel(r, "created")
      BY <2>1, <3>2, OwnPlace DEF Kinds
    <3> QED
      BY <3>1, <3>2 DEF FetchCreated, Exists, NoWrite
  <2> QED
    BY <1>1, <2>1, <2>2
    DEF requestVars, RequestInv, Unanswered, WaitsForItsOwn, AnsweredRight, GaveUp, Gone, ShutSoFar
<1>3. CASE Exists(r) /\ AnswerKernel(r, "created")
  <2>1. "created" \in Kinds
    BY DEF Kinds
  <2>2. /\ pc'[r] = "answered" /\ reply'[r].kind = "created"
        /\ reply'[r].uid = kms[target[r]].uid
    BY <1>3, <2>1, OwnPlace
  <2>3. kms[target[r]].uid > first[r][target[r]]
    BY <1>1, <1>3, Numbers, Uids DEF FetchCreated, Exists, RequestInv, WaitsForItsOwn
  <2> QED
    BY <1>1, <2>2, <2>3
    DEF requestVars, RequestInv, Unanswered, WaitsForItsOwn, AnsweredRight, GaveUp, ShutSoFar
<1> QED
  BY <1>2, <1>3 DEF FetchCreated

LEMMA ReadRequest ==
  ASSUME TypeOK, NEW r \in Requests, OpAt(r), RequestInv(r), Read(r)
  PROVE  RequestInv(r)'
<1>1. op[r] \in ReadOps
  BY DEF OpAt, Read
<1>2. {Outcome[op[r]].ready, Outcome[op[r]].unready, Outcome[op[r]].absent,
       Outcome[op[r]].error, "exception"} \subseteq PlainKinds
  BY <1>1 DEF ReadOps, Outcome, PlainKinds
<1>3. \E k \in PlainKinds : Answer(r, k) \/ AnswerKernel(r, k)
  BY <1>2 DEF Read
<1> QED
  BY <1>1, <1>3, PlainAnswer DEF Read, requestVars

\* A shutdown of all that is done with a kernel, or stops at it.
LEMMA DoneSoFar ==
  ASSUME TypeOK, Numbered, Aged, NEW r \in Requests, RequestInv(r),
         pc[r] \in {"lookup", "delete"}, UNCHANGED <<requestVars, mine>>,
         pc'[r] \in {"next", "answered"}, failed[r] \subseteq failed'[r],
         \/ kms'[target[r]].uid = 0
         \/ pc[r] \in failed'[r] /\ (pc[r] = "lookup" \/ pc'[r] = "answered")
  PROVE  ShutSoFar(r)'
<1> SUFFICES ASSUME op[r] = "shutdownAll", failed'[r] \cap {"list", "lookup"} = {},
                    NEW n \in Names \ Remaining(r)', first[r][n] # 0
             PROVE  kms'[n].uid # first[r][n]
  BY DEF requestVars, ShutSoFar, Gone
<1>1. first[r][n] \in Nat /\ first[r][n] <= born[n]
  BY Numbers
<1>2. CASE n = target[r]
  BY <1>2 DEF requestVars, Remaining
<1>3. CASE n # target[r]
  <2>1. Gone(n, first[r][n])
    BY <1>3 DEF requestVars, RequestInv, ShutSoFar, Remaining
  <2> QED
    BY <1>1, <2>1, GoneForGood
<1> QED
  BY <1>2, <1>3

\* The end of adelete_by_kernel_id: the kernel is gone, or its call failed.
LEMMA DeletedRequest ==
  ASSUME TypeOK, Numbered, Aged, NEW r \in Requests, OpAt(r), RequestInv(r),
         pc[r] \in {"lookup", "delete"}, UNCHANGED <<requestVars, mine>>,
         AfterDelete(r) \/ DeleteRefused(r) \/ Answer(r, "exception"),
         \/ Fault(r) /\ (pc[r] = "lookup" \/ DeleteRefused(r) \/ Answer(r, "exception"))
         \/ NoFault /\ kms'[target[r]].uid = 0
  PROVE  RequestInv(r)'
<1>1. /\ target[r] \in Names /\ mine[r] \in Nat /\ mine[r] <= born[target[r]]
      /\ \A n \in Names : first[r][n] \in Nat /\ first[r][n] <= born[n]
      /\ first[r][target[r]] \in Nat
  BY Numbers
<1>2. "next" \in Places /\ {"creationError", "deleted", "deleteError", "exception"} \subseteq Kinds
  BY DEF Places, Kinds
<1>3. op[r] \in {"create", "delete", "shutdownAll"}
  BY DEF OpAt
<1>4. /\ failed[r] \subseteq failed'[r]
      /\ pc[r] \in failed'[r] \/ kms'[target[r]].uid = 0
  BY FailedCalls
<1>5. CASE AfterDelete(r) /\ op[r] = "shutdownAll"
  <2>1. pc'[r] = "next" /\ reply'[r] = reply[r]
    BY <1>2, <1>5, OwnPlace DEF AfterDelete
  <2>2. ShutSoFar(r)'
    <3>1. ~DeleteRefused(r) /\ ~Answer(r, "exception")
      BY <1>2, <1>5, <2>1, OwnPlace DEF DeleteRefused
    <3>2. pc[r] = "lookup" \/ kms'[target[r]].uid = 0
      BY <3>1
    <3> QED
      BY <1>4, <2>1, <3>2, DoneSoFar
  <2> QED
    BY <1>5, <2>1, <2>2
    DEF requestVars, RequestInv, Unanswered, WaitsForItsOwn, AnsweredRight, GaveUp
<1>6. CASE ~(AfterDelete(r) /\ op[r] = "shutdownAll")
  <2>1. \/ pc'[r] = "answered" /\ reply'[r].kind \in {"creationError", "deleteError", "exception"}
        \/ pc'[r] = "answered" /\ reply'[r].kind = "deleted" /\ op[r] = "delete"
    BY <1>2, <1>3, <1>6, OwnPlace DEF AfterDelete, DeleteRefused
  <2>2. ShutSoFar(r)'
    BY <1>4, <2>1, DoneSoFar
  <2>3. AnsweredRight(r)'
    BY <1>4, <2>1 DEF requestVars, RequestInv, AnsweredRight, GaveUp, Gone
  <2> QED
    BY <2>1, <2>2, <2>3 DEF requestVars, RequestInv, Unanswered, WaitsForItsOwn
<1> QED
  BY <1>5, <1>6

LEMMA LookupRequest ==
  ASSUME TypeOK, Numbered, Aged, NEW r \in Requests, OpAt(r), RequestInv(r), Lookup(r)
  PROVE  RequestInv(r)'
<1>1. pc[r] = "lookup" /\ UNCHANGED <<requestVars, mine, kms>>
  BY DEF Lookup, NoWrite
<1>2. CASE Found(r) /\ Goto(r, "delete") /\ NoFault
  <2>1. pc'[r] = "delete" /\ reply'[r] = reply[r]
    BY <1>2, OwnPlace DEF Places
  <2> QED
    BY <1>1, <1>2, <2>1
    DEF requestVars, RequestInv, Unanswered, WaitsForItsOwn, AnsweredRight, GaveUp, Gone,
        ShutSoFar, Remaining, NoFault
<1>3. CASE ~Found(r) /\ AfterDelete(r) /\ NoFault
  BY <1>1, <1>3, DeletedRequest DEF Found, Exists
<1>4. CASE Fault(r) /\ AfterDelete(r)
  BY <1>1, <1>4, DeletedRequest
<1>5. CASE Fault(r) /\ Answer(r, "exception")
  BY <1>1, <1>5, DeletedRequest
<1> QED
  BY <1>2, <1>3, <1>4, <1>5 DEF Lookup

LEMMA DeleteRequest ==
  ASSUME TypeOK, Numbered, Aged, NEW r \in Requests, OpAt(r), RequestInv(r), Delete(r)
  PROVE  RequestInv(r)'
<1>1. pc[r] = "delete" /\ UNCHANGED <<requestVars, mine>>
  BY DEF Delete
<1>2. CASE Fault(r) /\ Answer(r, "exception")
  BY <1>1, <1>2, DeletedRequest
<1>3. CASE Fault(r) /\ DeleteRefused(r)
  BY <1>1, <1>3, DeletedRequest
<1>4. CASE WriteKM(target[r], NoKM) /\ AfterDelete(r) /\ NoFault
  <2>1. kms'[target[r]].uid = 0
    BY <1>4, TypeParts DEF WriteKM, NoKM, NewKM, RequestsTypeOK, ClusterTypeOK
  <2> QED
    BY <1>1, <1>4, <2>1, DeletedRequest
<1>5. CASE ~Exists(r) /\ DeleteRefused(r) /\ NoWrite /\ NoFault
  BY <1>1, <1>5, DeletedRequest DEF Exists, NoWrite
<1> QED
  BY <1>2, <1>3, <1>4, <1>5 DEF Delete

\* Every kernel that is listed is to be shut down, every other one is absent.
LEMMA ListRequest ==
  ASSUME TypeOK, NEW r \in Requests, OpAt(r), RequestInv(r), List(r)
  PROVE  RequestInv(r)'
<1>1. UNCHANGED <<op, target, mine, kms>>
  BY DEF List, NoWrite
<1>2. CASE op[r] = "list" /\ (Answer(r, "listed") \/ Answer(r, "exception"))
  BY <1>1, <1>2, PlainAnswer DEF PlainKinds
<1>4. CASE op[r] # "list" /\ Fault(r) /\ Answer(r, "exception")
  <2>1. pc'[r] = "answered" /\ reply'[r].kind = "exception" /\ op[r] = "shutdownAll"
    BY <1>4, OwnPlace DEF Kinds, List, OpAt
  <2>2. "list" \in failed'[r]
    BY <1>4, FailedCalls DEF List
  <2> QED
    BY <1>1, <2>1, <2>2
    DEF RequestInv, Unanswered, WaitsForItsOwn, AnsweredRight, GaveUp, ShutSoFar
<1>3. CASE op[r] # "list" /\ Goto(r, "next")
           /\ first' = [first EXCEPT ![r] = Incarnations]
           /\ todo' = [todo EXCEPT ![r] = {n \in Names : kms[n].uid # 0}]
  <2>1. pc'[r] = "next" /\ reply'[r].kind = "none" /\ op[r] = "shutdownAll"
    BY <1>3, OwnPlace DEF Places, List, OpAt, RequestInv, Unanswered
  <2>2. first'[r] = Incarnations /\ todo'[r] = {n \in Names : kms[n].uid # 0}
    BY <1>3, TypeParts DEF RequestsTypeOK
  <2>3. \A n \in Names \ todo'[r] : first'[r][n] = 0
    BY <2>2 DEF Incarnations
  <2>4. ShutSoFar(r)'
    BY <2>1, <2>3 DEF ShutSoFar, Remaining, Gone
  <2> QED
    BY <1>1, <2>1, <2>4 DEF RequestInv, Unanswered, WaitsForItsOwn, AnsweredRight, GaveUp
<1> QED
  BY <1>2, <1>3, <1>4 DEF List

LEMMA NextRequest ==
  ASSUME TypeOK, NEW r \in Requests, OpAt(r), RequestInv(r), NextToShut(r)
  PROVE  RequestInv(r)'
<1>1. /\ pc[r] = "next" /\ op[r] = "shutdownAll" /\ mine[r] = 0 /\ reply[r].kind = "none"
      /\ UNCHANGED <<clusterVars, op, first, mine, failed>>
  BY DEF NextToShut, OpAt, RequestInv, Unanswered
<1>2. ASSUME NEW n \in todo[r], todo' = [todo EXCEPT ![r] = @ \ {n}],
             target' = [target EXCEPT ![r] = n], Goto(r, "lookup")
      PROVE  RequestInv(r)'
  <2>1. pc'[r] = "lookup" /\ reply'[r] = reply[r]
    BY <1>2, OwnPlace DEF Places
  <2>2. todo'[r] \cup {target'[r]} = todo[r]
    BY <1>2, TypeParts DEF RequestsTypeOK
  <2>3. Remaining(r)' = Remaining(r)
    BY <1>1, <2>1, <2>2 DEF Remaining
  <2>4. ShutSoFar(r)'
    BY <1>1, <2>1, <2>3 DEF clusterVars, RequestInv, ShutSoFar, Gone
  <2> QED
    BY <1>1, <2>1, <2>4 DEF RequestInv, Unanswered, WaitsForItsOwn, AnsweredRight, GaveUp
<1>3. CASE todo[r] = {} /\ Answer(r, "shutDown") /\ UNCHANGED <<todo, target>>
  <2>1. pc'[r] = "answered" /\ reply'[r].kind = "shutDown"
    BY <1>3, OwnPlace DEF Kinds
  <2>2. ShutSoFar(r)'
    BY <1>1, <1>3, <2>1
    DEF clusterVars, RequestInv, ShutSoFar, Remaining, Gone
  <2> QED
    BY <1>1, <2>1, <2>2 DEF RequestInv, Unanswered, WaitsForItsOwn, AnsweredRight, GaveUp
<1> QED
  BY <1>2, <1>3 DEF NextToShut

LEMMA ActsRequest ==
  ASSUME Assumptions, TypeInv, Numbered, Aged, NEW r \in Requests, RequestInv(r), Acts(r)
  PROVE  RequestInv(r)'
  BY ArriveRequest, TimeoutRequest, CreateRequest, PollRequest, FetchRequest, LookupRequest,
     DeleteRequest, ReadRequest, ListRequest, NextRequest
  DEF TypeInv, Acts, Serve

\* What a request saw or made was created.
LEMMA ActsNumbered ==
  ASSUME TypeInv, TypeOK', Numbered, Aged, NEW r \in Requests, RequestInv(r), Acts(r)
  PROVE  /\ \A n \in Names : first'[r][n] <= born'[n]
         /\ mine'[r] <= born'[target'[r]]
<1>0. TypeOK /\ RequestsTypeOK
  BY TypeParts DEF TypeInv
<1>1. /\ target[r] \in Names /\ mine[r] \in Nat /\ mine[r] <= born[target[r]]
      /\ \A n \in Names : first[r][n] \in Nat /\ first[r][n] <= born[n]
  BY <1>0, Numbers
<1>2. \A n \in Names : /\ born[n] \in Nat /\ born'[n] \in Nat /\ born'[n] >= born[n]
                        /\ Incarnations[n] \in Nat /\ Incarnations[n] <= born[n]
  BY <1>0, Uids DEF TypeOK, ClusterTypeOK, Aged, Numbered, Incarnations
<1>3. \A n \in Names : first'[r][n] \in {first[r][n], Incarnations[n]}
  BY <1>0 DEF Acts, Serve, Arrive, Admit, TurnAway, Timeout, Create, Poll, FetchCreated, Lookup, Delete, Read,
              List, NextToShut, requestVars, RequestsTypeOK
<1>4. \/ target'[r] = target[r] /\ mine'[r] \in {mine[r], born'[target[r]]}
      \/ target'[r] \in Names /\ mine'[r] = 0
  <2>1. CASE NewIncarnation(r) /\ UNCHANGED target
    BY <1>0, <1>1, <2>1 DEF TypeOK, ClusterTypeOK, NewIncarnation, RequestsTypeOK
  <2>2. CASE NextToShut(r)
    <3>1. mine'[r] = 0
      BY <2>2 DEF NextToShut, TypeInv, OpAt, RequestInv, Unanswered
    <3>2. target'[r] \in Names
      BY <1>0, <2>2 DEF NextToShut, RequestsTypeOK
    <3> QED
      BY <3>1, <3>2
  <2>3. ASSUME NEW o \in Ops, NEW n \in Names, Arrive(r, o, n)
        PROVE  target'[r] \in Names /\ mine'[r] = 0
    BY <1>0, <2>3 DEF Arrive, Admit, TurnAway, RequestsTypeOK, RequestInv, Unanswered
  <2>4. CASE UNCHANGED <<target, mine>>
    BY <2>4
  <2> QED
    BY <2>1, <2>2, <2>3, <2>4
    DEF Acts, Serve, Timeout, Create, Poll, FetchCreated, Lookup, Delete, Read, List, requestVars
<1> QED
  BY <1>1, <1>2, <1>3, <1>4

LEMMA NumberedStep ==
  ASSUME Assumptions, TypeInv, TypeOK', ClientInv, [Next]_vars
  PROVE  Numbered' /\ Aged
<1>1. Aged
  BY StepEffect, EffectAges DEF TypeInv, ClientInv
<1>2. ASSUME NEW r \in Requests
      PROVE  /\ \A n \in Names : first'[r][n] <= born'[n]
             /\ mine'[r] <= born'[target'[r]]
  <2>1. CASE Acts(r)
    BY <1>1, <2>1, ActsNumbered DEF ClientInv
  <2>2. CASE Aside(r)
    <3>1. /\ target[r] \in Names /\ mine[r] \in Nat /\ mine[r] <= born[target[r]]
          /\ \A n \in Names : first[r][n] \in Nat /\ first[r][n] <= born[n]
      BY Numbers DEF TypeInv, ClientInv
    <3>2. \A n \in Names : born[n] \in Nat /\ born'[n] \in Nat /\ born'[n] >= born[n]
      BY <1>1 DEF TypeInv, TypeOK, ClusterTypeOK, Aged
    <3> QED
      BY <2>2, <3>1, <3>2 DEF Aside
  <2> QED
    BY <2>1, <2>2, ActsOrAside DEF TypeInv
<1> QED
  BY <1>1, <1>2 DEF Numbered, Aged

LEMMA ClientInvCorrect == Spec => []ClientInv
<1>1. Assumptions
  BY ClusterAssumption, ClientAssumption DEF Assumptions
<1>2. Init => ClientInv
  <2> SUFFICES ASSUME Init PROVE ClientInv
    OBVIOUS
  <2>1. Numbered
    <3>1. \A r \in Requests : target[r] \in Names
      BY <1>1, InitType, TypeParts DEF RequestsTypeOK
    <3>2. NewKM(1).uid = 1
      BY DEF NewKM
    <3>3. /\ \A n \in Names : kms[n] = NewKM(1) /\ born[n] = 1
          /\ \A r \in Requests : mine[r] = 0 /\ \A n \in Names : first[r][n] = 0
      BY DEF Init, StoreInit
    <3> QED
      BY <3>1, <3>2, <3>3 DEF Numbered
  <2>2. ASSUME NEW r \in Requests
        PROVE  RequestInv(r)
    BY DEF Init, NoReply, RequestInv, Unanswered, WaitsForItsOwn, AnsweredRight, GaveUp, ShutSoFar
  <2> QED
    BY <2>1, <2>2 DEF ClientInv
<1>3. TypeInv /\ TypeInv' /\ ClientInv /\ [Next]_vars => ClientInv'
  <2> SUFFICES ASSUME TypeInv, TypeInv', ClientInv, [Next]_vars
               PROVE  ClientInv'
    OBVIOUS
  <2>1. Numbered' /\ Aged
    BY <1>1, NumberedStep DEF TypeInv
  <2>2. ASSUME NEW r \in Requests
        PROVE  RequestInv(r)'
    BY <1>1, <2>1, ActsOrAside, ActsRequest, AsideRequest DEF TypeInv, ClientInv
  <2> QED
    BY <2>1, <2>2 DEF ClientInv
<1> QED
  BY <1>2, <1>3, TypesAndCalls, PTL DEF Spec

\* A create that is answered with an error leaves nothing behind, unless its
\* create call, a call of its cleanup or its last read failed.
THEOREM NothingLeaks == Spec => []NoLeak
<1>1. ClientInv => NoLeak
  BY DEF ClientInv, RequestInv, AnsweredRight, NoLeak, Gone
<1> QED
  BY <1>1, ClientInvCorrect, PTL

\* The cleanup of a create deletes no kernel older than the create.
THEOREM CleanupSpares == Spec => CleanupSparesOthers
<1>1. ASSUME TypeInv, ClientInv
      PROVE  [\A r \in Requests :
                Delete(r) /\ op[r] = "create" /\ kms' # kms
                  => kms[target[r]].uid > first[r][target[r]]]_vars
  <2> SUFFICES ASSUME NEW r \in Requests, Delete(r), op[r] = "create", kms' # kms
               PROVE  kms[target[r]].uid > first[r][target[r]]
    OBVIOUS
  <2>1. pc[r] = "delete" /\ Exists(r)
    BY <1>1 DEF Delete, NoWrite
  <2>2. mine[r] > first[r][target[r]] /\ kms[target[r]].uid >= mine[r]
    BY <1>1, <2>1 DEF ClientInv, RequestInv, WaitsForItsOwn, Exists
  <2> QED
    BY <1>1, <2>2, Numbers, Uids DEF TypeInv, ClientInv
<1> QED
  BY <1>1, TypesAndCalls, ClientInvCorrect, PTL DEF CleanupSparesOthers

\* A kernel whose delete was answered is gone, unless a call of the delete failed.
THEOREM DeletedStaysGone == Spec => []DeletedIsGone
<1>1. ClientInv => DeletedIsGone
  BY DEF ClientInv, RequestInv, AnsweredRight, DeletedIsGone, Gone
<1> QED
  BY <1>1, ClientInvCorrect, PTL

\* A shutdown of all kernels has deleted each of those it listed, or, when it
\* raised, had come to, unless its list or a lookup failed.
THEOREM ShutdownIsComplete == Spec => []ShutdownStopsAll
<1>1. ClientInv => ShutdownStopsAll
  BY DEF ClientInv, RequestInv, ShutSoFar, Remaining, Gone, Shut, ShutdownStopsAll
<1> QED
  BY <1>1, ClientInvCorrect, PTL

\* A create is answered with a kernel created after the request came.
THEOREM CreatedIsNew == Spec => []CreatesAnew
<1>1. ClientInv => CreatesAnew
  BY DEF ClientInv, RequestInv, AnsweredRight, CreatesAnew
<1> QED
  BY <1>1, ClientInvCorrect, PTL

=============================================================================
