------------------------------ MODULE EventLoop ------------------------------
(***************************************************************************)
(* apiserver/: the server's threads.  One event loop runs the handlers.    *)
(* Each Kubernetes API call runs in a worker of the client's executor      *)
(* while the loop goes on.  The methods made with run_sync (get_kernel,    *)
(* list_kernel_ids, shutdown_all) block the loop they are called on; they  *)
(* run on the loop of another thread, the runner of the blocked one, which *)
(* a nested call may block in turn.                                        *)
(***************************************************************************)
EXTENDS Naturals, Sequences, FiniteSets

CONSTANTS
  Requests,
  Workers    \* workers of the executor

ASSUME LoopAssumption == Workers \in Nat \ {0} /\ "none" \notin Requests

VARIABLES
  kind,     \* kind[r]: what r asks for
  step,     \* step[r]: the part of its handler that is next
  loop,     \* loop[r]: the loop it runs on, 0 being the server's
  call,     \* call[r]: its API call: "none", "queued", "running" or "returned"
  holder    \* holder[l]: the request that blocks the loop l, or "none"

vars == <<kind, step, loop, call, holder>>

-----------------------------------------------------------------------------
\* "await": an API call; "block": a method made with run_sync; "return": its
\* return.  acreate calls several times, adelete_by_kernel_id twice: here
\* ashutdown_all lists one kernel.
Program ==
  [get      |-> <<"await">>,
   create   |-> <<"await", "await", "await">>,
   connect  |-> <<"block", "await", "return">>,
   shutdown |-> <<"block", "block", "await", "return", "await", "await", "return">>]

Loops == 0 .. 2

Answered(r) == step[r] > Len(Program[kind[r]])
Part(r) == Program[kind[r]][step[r]]

\* The handler of r can go on: its loop is not blocked by anyone.
Runs(r) ==
  /\ step[r] > 0 /\ ~Answered(r)
  /\ call[r] = "none" /\ holder[loop[r]] = "none"

-----------------------------------------------------------------------------
Accept(r, k) ==
  /\ step[r] = 0 /\ holder[0] = "none"
  /\ kind' = [kind EXCEPT ![r] = k]
  /\ step' = [step EXCEPT ![r] = 1]
  /\ UNCHANGED <<loop, call, holder>>

\* run_in_executor: the loop is free for others.
Await(r) ==
  /\ Runs(r) /\ Part(r) = "await"
  /\ call' = [call EXCEPT ![r] = "queued"]
  /\ UNCHANGED <<kind, step, loop, holder>>

\* Every call has a request timeout, so a worker finishes it.
Work(r) ==
  /\ \/ /\ call[r] = "queued"
        /\ Cardinality({q \in Requests : call[q] = "running"}) < Workers
        /\ call' = [call EXCEPT ![r] = "running"]
     \/ call[r] = "running" /\ call' = [call EXCEPT ![r] = "returned"]
  /\ UNCHANGED <<kind, step, loop, holder>>

\* The future's callback runs on the loop of its coroutine.
Resume(r) ==
  /\ call[r] = "returned" /\ holder[loop[r]] = "none"
  /\ call' = [call EXCEPT ![r] = "none"]
  /\ step' = [step EXCEPT ![r] = @ + 1]
  /\ UNCHANGED <<kind, loop, holder>>

\* Bug: the coroutine is run on the loop that waits for it.
BlockOnOwnLoop(r) ==
  /\ Runs(r) /\ Part(r) = "block"
  /\ holder' = [holder EXCEPT ![loop[r]] = r]
  /\ step' = [step EXCEPT ![r] = @ + 1]
  /\ UNCHANGED <<kind, loop, call>>

\* run_sync on a running loop.
Block(r) ==
  /\ Runs(r) /\ Part(r) = "block"
  /\ holder' = [holder EXCEPT ![loop[r]] = r]
  /\ loop' = [loop EXCEPT ![r] = @ + 1]
  /\ step' = [step EXCEPT ![r] = @ + 1]
  /\ UNCHANGED <<kind, call>>

\* Bug: the runner goes on with the coroutine's caller.
ReturnOnRunner(r) ==
  /\ Runs(r) /\ Part(r) = "return"
  /\ holder' = [holder EXCEPT ![loop[r] - 1] = "none"]
  /\ step' = [step EXCEPT ![r] = @ + 1]
  /\ UNCHANGED <<kind, loop, call>>

Return(r) ==
  /\ Runs(r) /\ Part(r) = "return"
  /\ holder' = [holder EXCEPT ![loop[r] - 1] = "none"]
  /\ loop' = [loop EXCEPT ![r] = @ - 1]
  /\ step' = [step EXCEPT ![r] = @ + 1]
  /\ UNCHANGED <<kind, call>>

Init ==
  /\ kind = [r \in Requests |-> "get"]
  /\ step = [r \in Requests |-> 0]
  /\ loop = [r \in Requests |-> 0]
  /\ call = [r \in Requests |-> "none"]
  /\ holder = [l \in Loops |-> "none"]

Serve(r) == Await(r) \/ Resume(r) \/ Block(r) \/ Return(r)

Next ==
  \E r \in Requests : \/ \E k \in DOMAIN Program : Accept(r, k)
                      \/ Serve(r) \/ Work(r)

Spec == Init /\ [][Next]_vars

\* The loops take their callbacks in turn, and the executor its calls.
Fairness == \A r \in Requests : SF_vars(Serve(r)) /\ SF_vars(Work(r))

FairSpec == Spec /\ Fairness

-----------------------------------------------------------------------------
(* Properties.                                                             *)

\* A loop is blocked by one request at a time, which runs on a loop further
\* down; nobody else runs there, so it is never blocked by a stranger.
RunnersArePrivate ==
  /\ \A l \in Loops : holder[l] # "none" => loop[holder[l]] > l
  /\ \A r \in Requests, l \in Loops : l < loop[r] => holder[l] = r

\* q blocks the loop that r runs on, or one further down.
Blocks(q, r) == \E l \in Loops : l >= loop[r] /\ holder[l] = q

WorkerMoves ==
  \/ \E q \in Requests : call[q] = "running"
  \/ Cardinality({q \in Requests : call[q] = "running"}) < Workers

\* Something is about to happen to r.
Moves(r) ==
  \/ step[r] = 0 /\ holder[0] = "none"
  \/ Runs(r)
  \/ call[r] \in {"queued", "running"} /\ WorkerMoves
  \/ call[r] = "returned" /\ holder[loop[r]] = "none"

\* Nothing waits in a circle: a request that can do nothing now waits for one
\* that can, which blocks its loop or, twice nested, that one's runner.
NobodyIsStuck ==
  \A r \in Requests : ~Answered(r) =>
    \E q \in Requests : Moves(q) /\ (q = r \/ Blocks(q, r))

\* Every accepted request is answered, however many of them block the loop.
EveryRequestIsAnswered == \A r \in Requests : step[r] > 0 ~> Answered(r)

=============================================================================
