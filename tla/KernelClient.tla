----------------------------- MODULE KernelClient -----------------------------
(***************************************************************************)
(* apiserver/: requests that create, read and delete kernels, of the REST  *)
(* handlers and of the kernel manager's other methods.  Each is a          *)
(* coroutine of the server that calls the Kubernetes API in an executor    *)
(* thread, so requests, the controller and users interleave at every call. *)
(*                                                                         *)
(* A kernel id and the name of its KernelManager determine each other: the *)
(* server has one kernel spec, and the requests are of one namespace.      *)
(***************************************************************************)
EXTENDS Cluster

CONSTANTS
  Requests,
  Ops         \* what requests ask for

ASSUME ClientAssumption ==
  /\ Names # {}
  /\ Ops \subseteq {"create", "delete", "list", "shutdownAll", "get", "connect", "check", "contains"}

VARIABLES
  pc,       \* pc[r]: the call request r makes next
  op,       \* op[r]: what it asks for
  target,   \* target[r]: of which kernel
  first,    \* first[r]: the kernels' incarnations when r, a create or a delete,
            \* arrived, or when ashutdown_all listed them
  todo,     \* todo[r]: the kernels r is to shut down yet
  mine,     \* mine[r]: the incarnation r created
  late,     \* late[r]: the timeout of _wait_for_kernel_ready has passed
  failed,   \* failed[r]: the calls of r that failed, for the properties only
  reply     \* reply[r]: what r was answered, and about which incarnation

requestVars == <<op, target, first, todo>>
vars == <<clusterVars, pc, requestVars, mine, late, failed, reply>>

others == <<cms, pods, fresh, cmFresh, podFresh>>

NoReply == [kind |-> "none", uid |-> 0, ready |-> FALSE]

-----------------------------------------------------------------------------
Goto(r, l) == pc' = [pc EXCEPT ![r] = l] /\ UNCHANGED reply

Answer(r, kind) ==
  /\ pc' = [pc EXCEPT ![r] = "answered"]
  /\ reply' = [reply EXCEPT ![r].kind = kind]

\* Bug: the custom resource is returned, not its model.
AnswerResource(r, kind) ==
  /\ pc' = [pc EXCEPT ![r] = "answered"]
  /\ reply' = [reply EXCEPT ![r] = kms[target[r]]]

AnswerKernel(r, kind) ==
  /\ pc' = [pc EXCEPT ![r] = "answered"]
  /\ reply' = [reply EXCEPT ![r] = [kind  |-> kind,
                                    uid   |-> kms[target[r]].uid,
                                    ready |-> kms[target[r]].status.phase = "Running"]]

\* A call that fails: with an ApiException, or with anything else.
Fault(r) ==
  /\ faults > 0 /\ faults' = faults - 1
  /\ failed' = [failed EXCEPT ![r] = @ \cup {pc[r]}]

NoFault == UNCHANGED <<faults, failed>>

NoWrite == UNCHANGED <<kms, born, others>>

\* KernelModel.model_validate takes the readiness from the status.
Exists(r) == kms[target[r]].uid # 0
Ready(r) == kms[target[r]].status.phase = "Running"

-----------------------------------------------------------------------------
(* The handlers take a request.                                            *)

\* A delete of several kernels is one delete of each, all at once.  What answers
\* them together, at the first exception and while others go on, is left out.
Start == [create |-> "create", delete  |-> "lookup", list  |-> "list", shutdownAll |-> "list",
          get    |-> "read",   connect |-> "read",   check |-> "read", contains    |-> "read"]

Incarnations == [n \in Names |-> kms[n].uid]

\* One without its user, or whose body is not valid.
TurnAway(r) == Answer(r, "rejected") /\ UNCHANGED <<op, target, first>>

Admit(r, o, n) ==
  /\ op' = [op EXCEPT ![r] = o]
  /\ target' = [target EXCEPT ![r] = IF o \in {"list", "shutdownAll"} THEN @ ELSE n]
  /\ first' = [first EXCEPT ![r] = IF o \in {"create", "delete"} THEN Incarnations ELSE @]
  /\ Goto(r, Start[o])

Arrive(r, o, n) ==
  /\ pc[r] = "new"
  /\ Admit(r, o, n) \/ TurnAway(r)
  /\ UNCHANGED <<clusterVars, todo, mine, late, failed>>

-----------------------------------------------------------------------------
(* acreate.                                                                *)

NewIncarnation(r) ==
  /\ ~Exists(r) /\ born[target[r]] < MaxUid
  /\ born' = [born EXCEPT ![target[r]] = @ + 1]
  /\ WriteKM(target[r], NewKM(born[target[r]] + 1))
  /\ mine' = [mine EXCEPT ![r] = born[target[r]] + 1]
  /\ UNCHANGED <<cms, pods, cmFresh, podFresh>>

\* Bug: a kernel that exists already is taken for the one to create.
CreateOrTake(r) ==
  /\ pc[r] = "create"
  /\ \/ NewIncarnation(r) /\ Goto(r, "poll") /\ NoFault
     \/ Exists(r) /\ Goto(r, "poll") /\ NoWrite /\ UNCHANGED mine /\ NoFault
  /\ UNCHANGED <<requestVars, late>>

\* Bug: a create that is refused cleans up like one that gives up.
CreateOrCleanUp(r) ==
  /\ pc[r] = "create"
  /\ \/ NewIncarnation(r) /\ Goto(r, "poll") /\ NoFault
     \/ Exists(r) /\ Goto(r, "lookup") /\ NoWrite /\ UNCHANGED mine /\ NoFault
  /\ UNCHANGED <<requestVars, late>>

\* The call may have had its effect and its answer got lost.
Create(r) ==
  /\ pc[r] = "create"
  /\ \/ NewIncarnation(r) /\ Goto(r, "poll") /\ NoFault
     \/ /\ NewIncarnation(r) /\ Fault(r)
        /\ \E kind \in {"creationError", "exception"} : Answer(r, kind)
     \/ Exists(r) /\ Answer(r, "exists") /\ NoWrite /\ UNCHANGED mine /\ NoFault
     \/ /\ Fault(r) /\ NoWrite /\ UNCHANGED mine
        /\ \E kind \in {"quota", "creationError", "exception"} : Answer(r, kind)
  /\ UNCHANGED <<requestVars, late>>

\* Bug: the kernel that was created stays.
GiveUpAtOnce(r) == Answer(r, "creationError")

\* acreate deletes what it created.
GiveUp(r) == Goto(r, "lookup")

\* Bug: the time spent is not looked at.
OnUnreadyWaiting(r) == UNCHANGED <<pc, reply>>

\* A kernel that is not ready yet.
OnUnready(r) == IF late[r] THEN GiveUp(r) ELSE UNCHANGED <<pc, reply>>

\* _wait_for_kernel_ready: whatever is raised in it becomes a
\* KernelRetrieveError, a KernelNotFoundError and its own timeout too.
Poll(r) ==
  /\ pc[r] = "poll"
  /\ \/ Exists(r) /\ Ready(r) /\ Goto(r, "fetch") /\ NoFault
     \/ Exists(r) /\ ~Ready(r) /\ OnUnready(r) /\ NoFault
     \/ ~Exists(r) /\ GiveUp(r) /\ NoFault
     \/ Fault(r) /\ GiveUp(r)
  /\ NoWrite /\ UNCHANGED <<requestVars, mine, late>>

Timeout(r) ==
  /\ pc[r] = "poll" /\ ~late[r]
  /\ late' = [late EXCEPT ![r] = TRUE]
  /\ UNCHANGED <<clusterVars, pc, requestVars, mine, failed, reply>>

\* The kernel is read once more for the response.
FetchCreated(r) ==
  /\ pc[r] = "fetch"
  /\ \/ Exists(r) /\ AnswerKernel(r, "created") /\ NoFault
     \/ ~Exists(r) /\ Answer(r, "exception") /\ NoFault
     \/ Fault(r) /\ Answer(r, "exception")
  /\ NoWrite /\ UNCHANGED <<requestVars, mine, late>>

-----------------------------------------------------------------------------
(* adelete_by_kernel_id, as a request and as acreate's cleanup.            *)

\* adelete_by_kernel_id returned without error.
AfterDelete(r) ==
  IF op[r] = "shutdownAll" THEN Goto(r, "next")
  ELSE Answer(r, IF op[r] = "create" THEN "creationError" ELSE "deleted")

\* A KernelDeleteError: aremove_kernel swallows it, its other callers do not.
DeleteRefused(r) == Answer(r, IF op[r] = "delete" THEN "deleted" ELSE "deleteError")

\* Bug: a kernel that is not ready is taken for none, as by aget_kernel.
FoundReady(r) == Exists(r) /\ Ready(r)

Found(r) == Exists(r)

\* An ApiException of the lookup counts as a kernel not found.
Lookup(r) ==
  /\ pc[r] = "lookup"
  /\ \/ Found(r) /\ Goto(r, "delete") /\ NoFault
     \/ ~Found(r) /\ AfterDelete(r) /\ NoFault
     \/ Fault(r) /\ AfterDelete(r)
     \/ Fault(r) /\ Answer(r, "exception")
  /\ NoWrite /\ UNCHANGED <<requestVars, mine, late>>

\* By the name the lookup found, whatever incarnation has it now.
Delete(r) ==
  /\ pc[r] = "delete"
  /\ \/ /\ Exists(r) /\ WriteKM(target[r], NoKM)
        /\ UNCHANGED <<born, cms, pods, cmFresh, podFresh>>
        /\ \/ AfterDelete(r) /\ NoFault
           \/ Fault(r) /\ (DeleteRefused(r) \/ Answer(r, "exception"))
     \/ ~Exists(r) /\ DeleteRefused(r) /\ NoWrite /\ NoFault
     \/ Fault(r) /\ DeleteRefused(r) /\ NoWrite
     \/ Fault(r) /\ Answer(r, "exception") /\ NoWrite
  /\ UNCHANGED <<requestVars, mine, late>>

-----------------------------------------------------------------------------
(* aget_kernel, acheck_kernel_id, __contains__, and a websocket's lookup.  *)

\* What they return or raise, by what aget_kernel_by_id finds.  A kernel that
\* is not found raises a KernelRetrieveError, as an ApiException does.
Outcome ==
  [get      |-> [ready |-> "found",     unready |-> "notFound", absent |-> "notFound",  error |-> "exception"],
   connect  |-> [ready |-> "connected", unready |-> "notReady", absent |-> "notFound",  error |-> "exception"],
   check    |-> [ready |-> "true",      unready |-> "false",    absent |-> "false",     error |-> "false"],
   contains |-> [ready |-> "true",      unready |-> "false",    absent |-> "exception", error |-> "exception"]]

Read(r) ==
  /\ pc[r] = "read"
  /\ \/ Exists(r) /\ Ready(r) /\ AnswerKernel(r, Outcome[op[r]].ready) /\ NoFault
     \/ Exists(r) /\ ~Ready(r) /\ Answer(r, Outcome[op[r]].unready) /\ NoFault
     \/ ~Exists(r) /\ Answer(r, Outcome[op[r]].absent) /\ NoFault
     \/ Fault(r) /\ \E kind \in {Outcome[op[r]].error, "exception"} : Answer(r, kind)
  /\ NoWrite /\ UNCHANGED <<requestVars, mine, late>>

-----------------------------------------------------------------------------
(* alist, and ashutdown_all, which lists the kernels and deletes each.     *)

List(r) ==
  /\ pc[r] = "list"
  /\ \/ IF op[r] = "list"
        THEN Answer(r, "listed") /\ UNCHANGED <<first, todo>> /\ NoFault
        ELSE /\ first' = [first EXCEPT ![r] = Incarnations]
             /\ todo' = [todo EXCEPT ![r] = {n \in Names : kms[n].uid # 0}]
             /\ Goto(r, "next") /\ NoFault
     \/ Fault(r) /\ Answer(r, "exception") /\ UNCHANGED <<first, todo>>
  /\ NoWrite /\ UNCHANGED <<op, target, mine, late>>

NextToShut(r) ==
  /\ pc[r] = "next"
  /\ \/ \E n \in todo[r] : /\ todo' = [todo EXCEPT ![r] = @ \ {n}]
                           /\ target' = [target EXCEPT ![r] = n]
                           /\ Goto(r, "lookup")
     \/ todo[r] = {} /\ Answer(r, "shutDown") /\ UNCHANGED <<todo, target>>
  /\ UNCHANGED <<clusterVars, op, first, mine, late, failed>>

-----------------------------------------------------------------------------
(* The controller mirrors the pod, users and the culling delete.           *)

\* Whichever phase the pod has, or its predecessor: "unset" stands for all but
\* "Running", the one that requests look at.  The address is left out.
ReportStatus(n) ==
  /\ kms[n].uid # 0
  /\ \E phase \in {"unset", "Running"} :
       WriteKM(n, [kms[n] EXCEPT !.status = [NoStatus EXCEPT !.phase = phase]])
  /\ UNCHANGED <<cms, pods, born, cmFresh, podFresh, faults>>

Elsewhere(n) ==
  /\ ReportStatus(n) \/ DeleteKM(n)
  /\ UNCHANGED <<pc, requestVars, mine, late, failed, reply>>

-----------------------------------------------------------------------------
\* The server starts with the kernels there are: one of each name, some of
\* which a user may delete before the first request comes.
StoreInit ==
  /\ kms = [n \in Names |-> NewKM(1)] /\ born = [n \in Names |-> 1]
  /\ cms = [n \in Names |-> NoConfigMap] /\ pods = [n \in Names |-> NoPod]
  /\ fresh = [n \in Names |-> Clients] /\ cmFresh = Names /\ podFresh = Names
  /\ faults = MaxFaults

Init ==
  /\ StoreInit
  /\ pc = [r \in Requests |-> "new"]
  /\ op = [r \in Requests |-> "list"]
  /\ target = [r \in Requests |-> CHOOSE n \in Names : TRUE]
  /\ first = [r \in Requests |-> [n \in Names |-> 0]]
  /\ todo = [r \in Requests |-> {}]
  /\ mine = [r \in Requests |-> 0]
  /\ late = [r \in Requests |-> FALSE]
  /\ failed = [r \in Requests |-> {}]
  /\ reply = [r \in Requests |-> NoReply]

Serve(r) == Create(r) \/ Poll(r) \/ FetchCreated(r) \/ Lookup(r) \/ Delete(r)
            \/ Read(r) \/ List(r) \/ NextToShut(r)

Next ==
  \/ \E r \in Requests : \/ \E o \in Ops, n \in Names : Arrive(r, o, n)
                         \/ Serve(r) \/ Timeout(r)
  \/ \E n \in Names : Elsewhere(n)

Spec == Init /\ [][Next]_vars

\* The executor runs the calls, which have a request timeout.
Fairness == \A r \in Requests : WF_vars(Serve(r)) /\ WF_vars(Timeout(r))

FairSpec == Spec /\ Fairness

-----------------------------------------------------------------------------
(* Properties.                                                             *)

Kinds == {"none", "rejected", "exception", "quota", "exists", "creationError", "created",
          "deleted", "deleteError", "found", "connected", "true", "false", "notFound",
          "notReady", "listed", "shutDown"}

Places == {"new", "create", "poll", "fetch", "lookup", "delete", "read", "list", "next", "answered"}

\* Every variable holds a value of its type.
TypeOK ==
  /\ ClusterTypeOK
  /\ pc \in [Requests -> Places]
  /\ op \in [Requests -> DOMAIN Start]
  /\ target \in [Requests -> Names]
  /\ first \in [Requests -> [Names -> Nat]]
  /\ todo \in [Requests -> SUBSET Names]
  /\ mine \in [Requests -> Nat]
  /\ late \in [Requests -> BOOLEAN]
  /\ failed \in [Requests -> SUBSET Places]
  /\ reply \in [Requests -> [kind : Kinds, uid : Nat, ready : BOOLEAN]]

GaveUp(r) == op[r] = "create" /\ reply[r].kind \notin {"none", "created"}

\* A create that is answered with any error leaves no kernel of its own behind,
\* whichever requests, users and culls delete and create kernels of that id
\* meanwhile, and however many of its polls failed.  A create call that fails
\* with effect, a cleanup that fails, and a last read that fails do leave it
\* running: then no other call of it than its polls may have failed.
NoLeak ==
  \A r \in Requests :
    GaveUp(r) /\ mine[r] # 0 /\ failed[r] \subseteq {"poll"}
      => kms[target[r]].uid # mine[r]

\* The cleanup of a create, which deletes by kernel id, never deletes a kernel
\* that was there when the create came.  (It may delete a later one of the id.)
CleanupSparesOthers ==
  [][\A r \in Requests :
       Delete(r) /\ op[r] = "create" /\ kms' # kms
         => kms[target[r]].uid > first[r][target[r]]]_vars

\* A kernel whose delete was answered is gone, unless a call of that delete
\* failed, and whatever fails elsewhere.
DeletedIsGone ==
  \A r \in Requests :
    reply[r].kind = "deleted" /\ first[r][target[r]] # 0 /\ failed[r] = {}
      => kms[target[r]].uid # first[r][target[r]]

Shut(r) == op[r] = "shutdownAll" /\ pc[r] = "answered"

\* When ashutdown_all returns, every kernel it listed is gone; when it raises,
\* those it had come to are, but the one whose delete call failed.  The kernels
\* created meanwhile under the same ids are not meant.  Neither holds when its
\* list or one of its lookups failed, the latter of which it does not raise.
ShutdownStopsAll ==
  \A r \in Requests : Shut(r) /\ failed[r] \cap {"list", "lookup"} = {} =>
    \A n \in Names \ todo[r] :
      first[r][n] # 0 /\ (n = target[r] => "delete" \notin failed[r])
        => kms[n].uid # first[r][n]

\* A create is never answered with a kernel that was there before it, whose id
\* it took: the kernel is its own, or one created later still.
CreatesAnew ==
  \A r \in Requests : reply[r].kind = "created" => reply[r].uid > first[r][target[r]]

\* Every request is answered: a kernel that never gets ready, or is deleted
\* under the request that waits for it, keeps none waiting.
EveryRequestIsAnswered ==
  \A r \in Requests : pc[r] # "new" ~> pc[r] = "answered"

=============================================================================
