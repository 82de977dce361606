---------------------------- MODULE ServerProofs ----------------------------
(***************************************************************************)
(* The server's threads: whatever requests arrive at its loop, and however *)
(* many of them block it, a runner serves nobody but the request that      *)
(* waits for it, and somebody always goes on.                              *)
(*                                                                         *)
(* Its records: what a request asks for passes through the models, the API *)
(* server, the controller and the monitor, and is read back as it was.     *)
(***************************************************************************)
EXTENDS EventLoop, KernelRecords, FiniteSetTheorems, TLAPS

Kinds == DOMAIN Program

LoopTypeOK ==
  /\ kind \in [Requests -> Kinds]
  /\ step \in [Requests -> Nat]
  /\ loop \in [Requests -> Loops]
  /\ call \in [Requests -> {"none", "queued", "running", "returned"}]
  /\ holder \in [Loops -> Requests \cup {"none"}]

-----------------------------------------------------------------------------
(* The programs.                                                           *)

\* How many calls of run_sync a handler is in before each of its parts, and
\* when it is over.
Depth ==
  [get      |-> <<0, 0>>,
   create   |-> <<0, 0, 0, 0>>,
   connect  |-> <<0, 1, 1, 0>>,
   shutdown |-> <<0, 1, 2, 2, 1, 1, 1, 0>>]

\* Every "block" goes one deeper, every "return" one up, and nothing else does.
LEMMA ProgramDepth ==
  ASSUME NEW k \in Kinds
  PROVE  /\ Len(Program[k]) \in Nat \ {0}
         /\ Depth[k][1] = 0 /\ Depth[k][Len(Program[k]) + 1] = 0
         /\ \A i \in 1 .. Len(Program[k]) :
              /\ Depth[k][i] \in Loops /\ Depth[k][i + 1] \in Loops
              /\ Program[k][i] = "await"  => Depth[k][i + 1] = Depth[k][i]
              /\ Program[k][i] = "block"  => Depth[k][i + 1] = Depth[k][i] + 1
              /\ Program[k][i] = "return" => Depth[k][i + 1] = Depth[k][i] - 1
<1>1. CASE k = "get"
  BY <1>1 DEF Program, Depth, Loops
<1>2. CASE k = "create"
  BY <1>2 DEF Program, Depth, Loops
<1>3. CASE k = "connect"
  BY <1>3 DEF Program, Depth, Loops
<1>4. CASE k = "shutdown"
  BY <1>4 DEF Program, Depth, Loops
<1> QED
  BY <1>1, <1>2, <1>3, <1>4 DEF Kinds, Program

-----------------------------------------------------------------------------
(* The inductive invariant.                                                *)

\* A request runs as deep as its handler is nested.
AtItsDepth(r) ==
  /\ step[r] <= Len(Program[kind[r]]) + 1
  /\ loop[r] = IF step[r] = 0 THEN 0 ELSE Depth[kind[r]][step[r]]

\* A call under way belongs to the part that awaits it.
CallIsAwaited(r) ==
  call[r] # "none" => step[r] > 0 /\ ~Answered(r) /\ Part(r) = "await"

LoopInv ==
  /\ LoopTypeOK
  /\ \A r \in Requests : AtItsDepth(r) /\ CallIsAwaited(r)
  /\ RunnersArePrivate

LEMMA InitLoop == Init => LoopInv
  BY DEF Init, LoopInv, LoopTypeOK, Loops, Kinds, Program, AtItsDepth, CallIsAwaited, RunnersArePrivate

LEMMA AcceptLoop ==
  ASSUME LoopInv, NEW r \in Requests, NEW k \in Kinds, Accept(r, k)
  PROVE  LoopInv'
<1>1. LoopTypeOK'
  BY DEF LoopInv, LoopTypeOK, Accept
<1>2. ASSUME NEW q \in Requests
      PROVE  AtItsDepth(q)' /\ CallIsAwaited(q)'
  <2>1. CASE q = r
    BY <2>1, ProgramDepth DEF LoopInv, LoopTypeOK, Accept, AtItsDepth, CallIsAwaited
  <2>2. CASE q # r
    BY <1>1, <2>2 DEF LoopInv, LoopTypeOK, Accept, AtItsDepth, CallIsAwaited, Answered, Part
  <2> QED
    BY <2>1, <2>2
<1> QED
  BY <1>1, <1>2 DEF LoopInv, Accept, RunnersArePrivate

\* The steps that move the calls, not the loops.
LEMMA CallLoop ==
  ASSUME LoopInv, NEW r \in Requests, Await(r) \/ Work(r)
  PROVE  LoopInv'
<1>1. LoopTypeOK' /\ UNCHANGED <<kind, step, loop, holder>>
  BY DEF LoopInv, LoopTypeOK, Await, Work
<1>2. ASSUME NEW q \in Requests
      PROVE  AtItsDepth(q)' /\ CallIsAwaited(q)'
  <2>1. AtItsDepth(q)'
    BY <1>1 DEF LoopInv, AtItsDepth
  <2>2. CallIsAwaited(q)'
    BY <1>1 DEF LoopInv, LoopTypeOK, CallIsAwaited, Await, Work, Runs, Answered, Part
  <2> QED
    BY <2>1, <2>2
<1> QED
  BY <1>1, <1>2 DEF LoopInv, RunnersArePrivate

\* What holds of a request whose step goes on by one.
LEMMA NextPart ==
  ASSUME LoopInv, NEW r \in Requests, step[r] > 0, ~Answered(r)
  PROVE  /\ step[r] \in 1 .. Len(Program[kind[r]])
         /\ Len(Program[kind[r]]) \in Nat
         /\ loop[r] = Depth[kind[r]][step[r]]
         /\ Depth[kind[r]][step[r] + 1] \in Loops
         /\ Part(r) = "await"  => Depth[kind[r]][step[r] + 1] = loop[r]
         /\ Part(r) = "block"  => Depth[kind[r]][step[r] + 1] = loop[r] + 1
         /\ Part(r) = "return" => Depth[kind[r]][step[r] + 1] = loop[r] - 1
<1>1. kind[r] \in Kinds /\ step[r] \in Nat
  BY DEF LoopInv, LoopTypeOK
<1>2. Len(Program[kind[r]]) \in Nat
  BY <1>1, ProgramDepth
<1>3. step[r] \in 1 .. Len(Program[kind[r]])
  BY <1>1, <1>2 DEF Answered
<1> QED
  BY <1>1, <1>2, <1>3, ProgramDepth DEF LoopInv, AtItsDepth, Part

\* Going on by one, to the depth of the next part, with no call under way.
LEMMA StepOn ==
  ASSUME LoopInv, NEW r \in Requests, step[r] > 0, ~Answered(r),
         step' = [step EXCEPT ![r] = @ + 1], UNCHANGED kind,
         loop' = [loop EXCEPT ![r] = Depth[kind[r]][step[r] + 1]],
         call' \in [Requests -> {"none", "queued", "running", "returned"}],
         call'[r] = "none", \A q \in Requests \ {r} : call'[q] = call[q],
         NEW q \in Requests
  PROVE  AtItsDepth(q)' /\ CallIsAwaited(q)'
<1>1. CASE q = r
  BY <1>1, NextPart DEF LoopInv, LoopTypeOK, AtItsDepth, CallIsAwaited
<1>2. CASE q # r
  BY <1>2 DEF LoopInv, LoopTypeOK, AtItsDepth, CallIsAwaited, Answered, Part
<1> QED
  BY <1>1, <1>2

LEMMA ResumeLoop ==
  ASSUME LoopInv, NEW r \in Requests, Resume(r)
  PROVE  LoopInv'
<1>1. step[r] > 0 /\ ~Answered(r) /\ Part(r) = "await"
  BY DEF LoopInv, CallIsAwaited, Resume
<1>2. LoopTypeOK' /\ loop' = [loop EXCEPT ![r] = Depth[kind[r]][step[r] + 1]]
  BY <1>1, NextPart DEF LoopInv, LoopTypeOK, Resume
<1>3. \A q \in Requests : AtItsDepth(q)' /\ CallIsAwaited(q)'
  BY <1>1, <1>2, StepOn DEF LoopInv, LoopTypeOK, Resume
<1> QED
  BY <1>2, <1>3 DEF LoopInv, Resume, RunnersArePrivate

\* The loop that gets blocked was nobody's, and the next one down is free.
LEMMA BlockLoop ==
  ASSUME LoopAssumption, LoopInv, NEW r \in Requests, Block(r)
  PROVE  LoopInv'
<1>1. step[r] > 0 /\ ~Answered(r) /\ Part(r) = "block" /\ call[r] = "none" /\ holder[loop[r]] = "none"
  BY DEF Block, Runs
<1>2. loop' = [loop EXCEPT ![r] = Depth[kind[r]][step[r] + 1]]
      /\ loop[r] \in Loops /\ loop[r] + 1 \in Loops
  BY <1>1, NextPart DEF LoopInv, LoopTypeOK, Block
<1>3. LoopTypeOK'
  BY <1>1, <1>2 DEF LoopInv, LoopTypeOK, Block
<1>4. \A q \in Requests : AtItsDepth(q)' /\ CallIsAwaited(q)'
  BY <1>1, <1>2, StepOn DEF LoopInv, LoopTypeOK, Block
<1>5. RunnersArePrivate'
  BY <1>1, <1>2, <1>3 DEF LoopAssumption, LoopInv, LoopTypeOK, Loops, Block, RunnersArePrivate
<1> QED
  BY <1>3, <1>4, <1>5 DEF LoopInv

\* The loop that is freed was blocked by the request that returns to it.
LEMMA ReturnLoop ==
  ASSUME LoopAssumption, LoopInv, NEW r \in Requests, Return(r)
  PROVE  LoopInv'
<1>1. step[r] > 0 /\ ~Answered(r) /\ Part(r) = "return" /\ call[r] = "none" /\ holder[loop[r]] = "none"
  BY DEF Return, Runs
<1>2. loop' = [loop EXCEPT ![r] = Depth[kind[r]][step[r] + 1]]
      /\ loop[r] \in Loops /\ loop[r] - 1 \in Loops
  BY <1>1, NextPart DEF LoopInv, LoopTypeOK, Return
<1>3. LoopTypeOK'
  BY <1>1, <1>2 DEF LoopInv, LoopTypeOK, Return
<1>4. \A q \in Requests : AtItsDepth(q)' /\ CallIsAwaited(q)'
  BY <1>1, <1>2, StepOn DEF LoopInv, LoopTypeOK, Return
<1>5. RunnersArePrivate'
  <2>1. holder[loop[r] - 1] = r
    BY <1>2 DEF LoopInv, Loops, RunnersArePrivate
  <2> QED
    BY <1>1, <1>2, <1>3, <2>1
    DEF LoopAssumption, LoopInv, LoopTypeOK, Loops, Return, RunnersArePrivate
<1> QED
  BY <1>3, <1>4, <1>5 DEF LoopInv

LEMMA LoopInvHolds == Spec => []LoopInv
<1>1. LoopInv /\ [Next]_vars => LoopInv'
  <2> SUFFICES ASSUME LoopInv, [Next]_vars PROVE LoopInv'
    OBVIOUS
  <2>1. CASE UNCHANGED vars
    BY <2>1
    DEF vars, LoopInv, LoopTypeOK, AtItsDepth, CallIsAwaited, Answered, Part, RunnersArePrivate
  <2> QED
    BY <2>1, LoopAssumption, AcceptLoop, CallLoop, ResumeLoop, BlockLoop, ReturnLoop
    DEF Next, Serve, Kinds
<1> QED
  BY <1>1, InitLoop, PTL DEF Spec

\* Nobody but the request that waits for a runner uses or blocks it.
THEOREM RunnersStayPrivate == Spec => []RunnersArePrivate
  BY LoopInvHolds, PTL DEF LoopInv

-----------------------------------------------------------------------------
(* Who waits for whom.                                                     *)

\* Who runs on a runner has still to return from it.
LEMMA RunnersAreUsed ==
  ASSUME LoopInv, NEW r \in Requests, loop[r] # 0
  PROVE  step[r] > 0 /\ ~Answered(r)
<1>1. kind[r] \in Kinds /\ step[r] \in Nat /\ Len(Program[kind[r]]) \in Nat
  BY ProgramDepth DEF LoopInv, LoopTypeOK
<1>2. step[r] # 0 /\ step[r] # Len(Program[kind[r]]) + 1
  BY <1>1, ProgramDepth DEF LoopInv, AtItsDepth
<1> QED
  BY <1>1, <1>2 DEF LoopInv, AtItsDepth, Answered

\* A call that is queued finds a worker free, or one at work.
LEMMA WorkersAreThere ==
  ASSUME LoopAssumption
  PROVE  WorkerMoves
<1>1. CASE {q \in Requests : call[q] = "running"} = {}
  BY <1>1, FS_EmptySet DEF LoopAssumption, WorkerMoves
<1>2. CASE {q \in Requests : call[q] = "running"} # {}
  BY <1>2 DEF WorkerMoves
<1> QED
  BY <1>1, <1>2

LEMMA FreeMoves ==
  ASSUME LoopAssumption, LoopInv, NEW r \in Requests, ~Answered(r), holder[loop[r]] = "none"
  PROVE  Moves(r)
<1>1. call[r] \in {"none", "queued", "running", "returned"} /\ step[r] \in Nat
  BY DEF LoopInv, LoopTypeOK
<1>2. step[r] = 0 => loop[r] = 0
  BY DEF LoopInv, AtItsDepth
<1> QED
  BY <1>1, <1>2, WorkersAreThere DEF Moves, Runs

\* The one that blocks a loop runs further down.
LEMMA HolderBelow ==
  ASSUME LoopInv, NEW l \in Loops, holder[l] # "none"
  PROVE  /\ holder[l] \in Requests /\ loop[holder[l]] \in Loops
         /\ loop[holder[l]] > l /\ ~Answered(holder[l])
<1>1. holder[l] \in Requests /\ loop[holder[l]] > l
  BY DEF LoopInv, LoopTypeOK, RunnersArePrivate
<1>2. loop[holder[l]] \in Loops /\ loop[holder[l]] # 0
  BY <1>1 DEF LoopInv, LoopTypeOK, Loops
<1> QED
  BY <1>1, <1>2, RunnersAreUsed

\* The waiting ends at the deepest loop that is used: nobody blocks that.
THEOREM WaitingEnds == Spec => []NobodyIsStuck
<1>1. LoopInv => NobodyIsStuck
  <2> SUFFICES ASSUME LoopInv, NEW r \in Requests, ~Answered(r)
               PROVE  \E q \in Requests : Moves(q) /\ (q = r \/ Blocks(q, r))
    BY DEF NobodyIsStuck
  <2> DEFINE q1 == holder[loop[r]]
             q2 == holder[loop[q1]]
  <2>1. loop[r] \in Loops
    BY DEF LoopInv, LoopTypeOK
  <2>2. CASE q1 = "none"
    BY <2>2, LoopAssumption, FreeMoves
  <2>3. CASE q1 # "none" /\ q2 = "none"
    <3>1. q1 \in Requests /\ ~Answered(q1)
      BY <2>1, <2>3, HolderBelow
    <3>2. Moves(q1)
      BY <2>3, <3>1, LoopAssumption, FreeMoves
    <3>3. Blocks(q1, r)
      BY <2>1 DEF Blocks, Loops
    <3> QED
      BY <3>1, <3>2, <3>3
  <2>4. CASE q1 # "none" /\ q2 # "none"
    <3>1. loop[q1] \in Loops /\ loop[q1] > loop[r]
      BY <2>1, <2>4, HolderBelow
    <3>2. q2 \in Requests /\ ~Answered(q2) /\ loop[q2] \in Loops /\ loop[q2] > loop[q1]
      BY <2>4, <3>1, HolderBelow
    <3>3. loop[q2] = 2
      BY <2>1, <3>1, <3>2 DEF Loops
    <3>4. holder[loop[q2]] = "none"
      <4> SUFFICES ASSUME holder[2] # "none" PROVE FALSE
        BY <3>3
      <4>1. loop[holder[2]] \in Loops /\ loop[holder[2]] > 2
        BY HolderBelow DEF Loops
      <4> QED
        BY <4>1 DEF Loops
    <3>5. Moves(q2)
      BY <3>2, <3>4, LoopAssumption, FreeMoves
    <3>6. Blocks(q2, r)
      BY <2>1, <3>1 DEF Blocks, Loops
    <3> QED
      BY <3>2, <3>5, <3>6
  <2> QED
    BY <2>2, <2>3, <2>4
<1> QED
  BY <1>1, LoopInvHolds, PTL

-----------------------------------------------------------------------------
(* Records: values, and the models at each depth of _deserialize.          *)

\* A value shows its type, and None and Error are no values.
LEMMA Tags ==
  ASSUME NEW x
  PROVE /\ Dict(x)[1] = "dict" /\ Dict(x)[2] = x
        /\ List(x)[1] = "list" /\ List(x)[2] = x
        /\ Text(x)[1] = "str" /\ Text(x)[2] = x
        /\ Number(x)[1] = "int" /\ Number(x)[2] = x
        /\ None[1] = "none" /\ Error[1] = "error"
        /\ None # Error
BY DEF Dict, List, Text, Number, None, Error

IsValue(v) == v # None /\ v # Error

LEMMA Values ==
  ASSUME NEW x
  PROVE  IsValue(Dict(x)) /\ IsValue(List(x)) /\ IsValue(Text(x)) /\ IsValue(Number(x))
BY DEF IsValue, Dict, List, Text, Number, None, Error

LEMMA TypeForms ==
  ASSUME NEW klass
  PROVE  /\ One(klass).form = "one" /\ One(klass).klass = klass
         /\ ListOf(klass).form = "list" /\ ListOf(klass).klass = klass
         /\ DictOf(klass).form = "dict" /\ DictOf(klass).klass = klass
BY DEF One, ListOf, DictOf

LEMMA Gets ==
  ASSUME NEW f, NEW k
  PROVE  Get(Dict(f), k) = IF k \in DOMAIN f THEN f[k] ELSE Error
BY Tags DEF Get

\* The entries g are what the model klass makes of the entries f.
Complete(klass, f, g) ==
  /\ g = [k \in DOMAIN f |-> g[k]]
  /\ DOMAIN f \subseteq DOMAIN Entries(klass)
  /\ \A k \in DOMAIN f : IsValue(g[k])
  /\ \A e \in Required : e[1] = klass => e[2] \in DOMAIN f

LEMMA CompleteModel ==
  ASSUME NEW klass, NEW f, NEW g, Complete(klass, f, g)
  PROVE  Model(klass, g) = Dict(g)
<1>1. DOMAIN g = DOMAIN f
  BY DEF Complete
<1>2. {k \in DOMAIN g : g[k] # None} = DOMAIN f
  BY <1>1 DEF Complete, IsValue
<1> QED
  BY <1>2 DEF Model, Complete, IsValue

\* The models of every depth.
LEMMA ModelLevels ==
  ASSUME NEW klass \in Known, NEW f, NEW g, Complete(klass, f, g)
  PROVE
    /\ (\A k \in DOMAIN f : Deserialize0(f[k], Entries(klass)[k]) = g[k])
         => Deserialize1(Dict(f), One(klass)) = Dict(g)
    /\ (\A k \in DOMAIN f : Deserialize1(f[k], Entries(klass)[k]) = g[k])
         => Deserialize2(Dict(f), One(klass)) = Dict(g)
    /\ (\A k \in DOMAIN f : Deserialize2(f[k], Entries(klass)[k]) = g[k])
         => Deserialize3(Dict(f), One(klass)) = Dict(g)
    /\ (\A k \in DOMAIN f : Deserialize4(f[k], Entries(klass)[k]) = g[k])
         => Deserialize5(Dict(f), One(klass)) = Dict(g)
    /\ (\A k \in DOMAIN f : Deserialize5(f[k], Entries(klass)[k]) = g[k])
         => Deserialize6(Dict(f), One(klass)) = Dict(g)
    /\ (\A k \in DOMAIN f : Deserialize6(f[k], Entries(klass)[k]) = g[k])
         => Deserialize7(Dict(f), One(klass)) = Dict(g)
    /\ (\A k \in DOMAIN f : Deserialize7(f[k], Entries(klass)[k]) = g[k])
         => Deserialize(Dict(f), One(klass)) = Dict(g)
<1>1. klass \notin {"str", "int", "object"}
  BY DEF Known, OwnModels, KubernetesModels
<1>2. Given(Dict(f), klass) = DOMAIN f
  <2>1. Given(Dict(f), klass) = DOMAIN Entries(klass) \cap DOMAIN f
    BY Tags DEF Given
  <2>2. DOMAIN f \subseteq DOMAIN Entries(klass)
    BY DEF Complete
  <2> QED
    BY <2>1, <2>2, Zenon
<1>3. Model(klass, g) = Dict(g) /\ g = [k \in DOMAIN f |-> g[k]]
  BY CompleteModel DEF Complete
<1>4. Deserialize1(Dict(f), One(klass))
        = Model(klass, [k \in DOMAIN f |-> Deserialize0(f[k], Entries(klass)[k])])
  BY <1>1, <1>2, Tags, TypeForms DEF Deserialize1, DeserializeBy
<1>5. Deserialize2(Dict(f), One(klass))
        = Model(klass, [k \in DOMAIN f |-> Deserialize1(f[k], Entries(klass)[k])])
  BY <1>1, <1>2, Tags, TypeForms DEF Deserialize2, DeserializeBy
<1>6. Deserialize3(Dict(f), One(klass))
        = Model(klass, [k \in DOMAIN f |-> Deserialize2(f[k], Entries(klass)[k])])
  BY <1>1, <1>2, Tags, TypeForms DEF Deserialize3, DeserializeBy
<1>7. Deserialize5(Dict(f), One(klass))
        = Model(klass, [k \in DOMAIN f |-> Deserialize4(f[k], Entries(klass)[k])])
  BY <1>1, <1>2, Tags, TypeForms DEF Deserialize5, DeserializeBy
<1>8. Deserialize6(Dict(f), One(klass))
        = Model(klass, [k \in DOMAIN f |-> Deserialize5(f[k], Entries(klass)[k])])
  BY <1>1, <1>2, Tags, TypeForms DEF Deserialize6, DeserializeBy
<1>9. Deserialize7(Dict(f), One(klass))
        = Model(klass, [k \in DOMAIN f |-> Deserialize6(f[k], Entries(klass)[k])])
  BY <1>1, <1>2, Tags, TypeForms DEF Deserialize7, DeserializeBy
<1>10. Deserialize(Dict(f), One(klass))
        = Model(klass, [k \in DOMAIN f |-> Deserialize7(f[k], Entries(klass)[k])])
  BY <1>1, <1>2, Tags, TypeForms DEF Deserialize, DeserializeBy
<1> QED
  BY <1>3, <1>4, <1>5, <1>6, <1>7, <1>8, <1>9, <1>10, Zenon

\* The lists and dicts of every depth.
LEMMA EachLevel ==
  ASSUME NEW klass, NEW f, NEW g, g = [k \in DOMAIN f |-> g[k]], \A k \in DOMAIN f : IsValue(g[k])
  PROVE
    /\ (\A k \in DOMAIN f : Deserialize1(f[k], One(klass)) = g[k])
         => Deserialize2(List(f), ListOf(klass)) = List(g)
    /\ (\A k \in DOMAIN f : Deserialize3(f[k], One(klass)) = g[k])
         => Deserialize4(List(f), ListOf(klass)) = List(g)
    /\ (\A k \in DOMAIN f : Deserialize5(f[k], One(klass)) = g[k])
         => Deserialize6(Dict(f), DictOf(klass)) = Dict(g)
<1>1. Each("list", g) = List(g) /\ Each("dict", g) = Dict(g)
  BY DEF Each, List, Dict, IsValue
<1>2. Deserialize2(List(f), ListOf(klass)) = Each("list", [k \in DOMAIN f |-> Deserialize1(f[k], One(klass))])
  BY Tags, TypeForms DEF Deserialize2, DeserializeBy
<1>3. Deserialize4(List(f), ListOf(klass)) = Each("list", [k \in DOMAIN f |-> Deserialize3(f[k], One(klass))])
  BY Tags, TypeForms DEF Deserialize4, DeserializeBy
<1>4. Deserialize6(Dict(f), DictOf(klass)) = Each("dict", [k \in DOMAIN f |-> Deserialize5(f[k], One(klass))])
  BY Tags, TypeForms DEF Deserialize6, DeserializeBy
<1> QED
  BY <1>1, <1>2, <1>3, <1>4, Zenon

\* Texts and numbers of every depth.
LEMMA Primitives ==
  ASSUME NEW x
  PROVE  /\ Deserialize0(Number(x), One("str")) = Text(ToString(x))
         /\ Deserialize0(Text(x), One("str")) = Text(x)
         /\ Deserialize1(Text(x), One("str")) = Text(x)
         /\ Deserialize2(Text(x), One("str")) = Text(x)
         /\ Deserialize5(Text(x), One("str")) = Text(x)
         /\ Deserialize6(Text(x), One("str")) = Text(x)
         /\ Deserialize7(Text(x), One("str")) = Text(x)
         /\ Deserialize5(Number(x), One("int")) = Number(x)
         /\ Deserialize6(Number(x), One("int")) = Number(x)
<1>1. Deserialize0(Number(x), One("str")) = Text(ToString(x))
  BY TypeForms, Tags DEF Deserialize0, DeserializeBy, Primitive
<1>2. Deserialize0(Text(x), One("str")) = Text(x)
  BY TypeForms, Tags DEF Deserialize0, DeserializeBy, Primitive
<1>3. Deserialize1(Text(x), One("str")) = Text(x)
  BY TypeForms, Tags DEF Deserialize1, DeserializeBy, Primitive
<1>4. Deserialize2(Text(x), One("str")) = Text(x)
  BY TypeForms, Tags DEF Deserialize2, DeserializeBy, Primitive
<1>5. Deserialize5(Text(x), One("str")) = Text(x)
  BY TypeForms, Tags DEF Deserialize5, DeserializeBy, Primitive
<1>6. Deserialize6(Text(x), One("str")) = Text(x)
  BY TypeForms, Tags DEF Deserialize6, DeserializeBy, Primitive
<1>7. Deserialize7(Text(x), One("str")) = Text(x)
  BY TypeForms, Tags DEF Deserialize7, DeserializeBy, Primitive
<1>8. Deserialize5(Number(x), One("int")) = Number(x)
  BY TypeForms, Tags DEF Deserialize5, DeserializeBy, Primitive
<1>9. Deserialize6(Number(x), One("int")) = Number(x)
  BY TypeForms, Tags DEF Deserialize6, DeserializeBy, Primitive
<1> QED
  BY <1>1, <1>2, <1>3, <1>4, <1>5, <1>6, <1>7, <1>8, <1>9

LEMMA Classes ==
  /\ \A klass \in {"V1Kernel", "V1KernelSpec", "V1KernelConnectionConfig", "V1ObjectMeta",
                   "V1PodTemplateSpec", "V1PodSpec", "V1Container", "V1EnvVar", "V1Volume",
                   "V1EmptyDirVolumeSource", "V1VolumeMount"} : klass \in Known
  /\ Entries("V1Kernel") = V1Kernel
  /\ Entries("V1KernelSpec") = V1KernelSpec
  /\ Entries("V1KernelConnectionConfig") = V1KernelConnectionConfig
  /\ Entries("V1ObjectMeta") = KubernetesModels.V1ObjectMeta
  /\ Entries("V1PodTemplateSpec") = KubernetesModels.V1PodTemplateSpec
  /\ Entries("V1PodSpec") = KubernetesModels.V1PodSpec
  /\ Entries("V1Container") = KubernetesModels.V1Container
  /\ Entries("V1EnvVar") = KubernetesModels.V1EnvVar
  /\ Entries("V1Volume") = KubernetesModels.V1Volume
  /\ Entries("V1EmptyDirVolumeSource") = KubernetesModels.V1EmptyDirVolumeSource
  /\ Entries("V1VolumeMount") = KubernetesModels.V1VolumeMount
BY DEF Entries, Known, OwnModels, KubernetesModels

-----------------------------------------------------------------------------
(* The payload's dict through the models: only the environment changes.    *)

TextEnvironment(p) ==
  <<Dict([name |-> Text("KERNEL_ID"), value |-> Text(p.kernel_id)]),
    Dict([name |-> Text("KERNEL_IDLE_TIMEOUT"), value |-> Text(ToString(p.idle_timeout))])>>

ContainerRecord(p) ==
  Dict([env |-> List(TextEnvironment(p)), image |-> Text(p.image), name |-> Text("ipykernel"),
        volumeMounts |-> List(p.volume_mounts), workingDir |-> Text(p.working_dir)])

PodSpecRecord(p) ==
  Dict([containers |-> List(<<ContainerRecord(p)>>), volumes |-> List(p.volumes)])

SpecRecord(p) ==
  Dict([idleTimeoutSeconds |-> Number(p.idle_timeout), cullingIntervalSeconds |-> Number(60),
        kernelConnectionConfig |-> p.connection_info,
        template |-> Dict([spec |-> PodSpecRecord(p)])])

Metadata(p) ==
  Dict([name |-> Text(p.kernel_id), labels |-> Dict([id |-> Text(p.kernel_id)])])

KernelRecord(p) ==
  Dict([apiVersion |-> Text("jupyrator.org/v1"), kind |-> Text("KernelManager"),
        metadata |-> Metadata(p), spec |-> SpecRecord(p)])

LEMMA EnvironmentRecord ==
  ASSUME NEW p
  PROVE  Deserialize2(List(Environment(p)), ListOf("V1EnvVar")) = List(TextEnvironment(p))
<1> DEFINE id == [name |-> Text("KERNEL_ID"), value |-> Text(p.kernel_id)]
           old == [name |-> Text("KERNEL_IDLE_TIMEOUT"), value |-> Number(p.idle_timeout)]
           new == [name |-> Text("KERNEL_IDLE_TIMEOUT"), value |-> Text(ToString(p.idle_timeout))]
<1>1. Deserialize1(Dict(id), One("V1EnvVar")) = Dict(id)
  <2>1. Complete("V1EnvVar", id, id)
    BY Classes, Values DEF Complete, Required, KubernetesModels
  <2>2. \A k \in DOMAIN id : Deserialize0(id[k], Entries("V1EnvVar")[k]) = id[k]
    BY Classes, Primitives DEF KubernetesModels
  <2> QED
    BY <2>1, <2>2, Classes, ModelLevels
<1>2. Deserialize1(Dict(old), One("V1EnvVar")) = Dict(new)
  <2>1. Complete("V1EnvVar", old, new)
    BY Classes, Values DEF Complete, Required, KubernetesModels
  <2>2. \A k \in DOMAIN old : Deserialize0(old[k], Entries("V1EnvVar")[k]) = new[k]
    BY Classes, Primitives DEF KubernetesModels
  <2> QED
    BY <2>1, <2>2, Classes, ModelLevels
<1>3. \A i \in DOMAIN Environment(p) :
        Deserialize1(Environment(p)[i], One("V1EnvVar")) = TextEnvironment(p)[i]
  BY <1>1, <1>2 DEF Environment, TextEnvironment
<1>4. /\ DOMAIN Environment(p) = DOMAIN TextEnvironment(p)
      /\ TextEnvironment(p) = [i \in DOMAIN TextEnvironment(p) |-> TextEnvironment(p)[i]]
      /\ \A i \in DOMAIN TextEnvironment(p) : IsValue(TextEnvironment(p)[i])
  BY Values DEF Environment, TextEnvironment
<1> QED
  BY <1>3, <1>4, EachLevel

LEMMA VolumeRecord ==
  Deserialize3(Volume, One("V1Volume")) = Volume
<1> DEFINE dir == [medium |-> Text("Memory")]
           volume == [name |-> Text("data"), emptyDir |-> Dict(dir)]
<1>1. Deserialize2(Dict(dir), One("V1EmptyDirVolumeSource")) = Dict(dir)
  <2>1. Complete("V1EmptyDirVolumeSource", dir, dir)
    BY Classes, Values DEF Complete, Required, KubernetesModels
  <2>2. \A k \in DOMAIN dir : Deserialize1(dir[k], Entries("V1EmptyDirVolumeSource")[k]) = dir[k]
    BY Classes, Primitives DEF KubernetesModels
  <2> QED
    BY <2>1, <2>2, Classes, ModelLevels
<1>2. Complete("V1Volume", volume, volume)
  BY Classes, Values DEF Complete, Required, KubernetesModels
<1>3. \A k \in DOMAIN volume : Deserialize2(volume[k], Entries("V1Volume")[k]) = volume[k]
  BY <1>1, Classes, Primitives DEF KubernetesModels
<1> QED
  BY <1>2, <1>3, Classes, ModelLevels DEF Volume

LEMMA MountRecord ==
  Deserialize1(Mount, One("V1VolumeMount")) = Mount
<1> DEFINE mount == [name |-> Text("data"), mountPath |-> Text("/mnt/data")]
<1>1. Complete("V1VolumeMount", mount, mount)
  BY Classes, Values DEF Complete, Required, KubernetesModels
<1>2. \A k \in DOMAIN mount : Deserialize0(mount[k], Entries("V1VolumeMount")[k]) = mount[k]
  BY Classes, Primitives DEF KubernetesModels
<1> QED
  BY <1>1, <1>2, Classes, ModelLevels DEF Mount

LEMMA ContainerThrough ==
  ASSUME NEW n, NEW p \in Payloads(n)
  PROVE  Deserialize3(Container(p), One("V1Container")) = ContainerRecord(p)
<1> DEFINE f == [env |-> List(Environment(p)), image |-> Text(p.image), name |-> Text("ipykernel"),
                 volumeMounts |-> List(p.volume_mounts), workingDir |-> Text(p.working_dir)]
           g == [env |-> List(TextEnvironment(p)), image |-> Text(p.image), name |-> Text("ipykernel"),
                 volumeMounts |-> List(p.volume_mounts), workingDir |-> Text(p.working_dir)]
<1>1. Deserialize2(List(p.volume_mounts), ListOf("V1VolumeMount")) = List(p.volume_mounts)
  <2>1. p.volume_mounts \in {<<>>, <<Mount>>}
    BY DEF Payloads
  <2>2. /\ p.volume_mounts = [k \in DOMAIN p.volume_mounts |-> p.volume_mounts[k]]
        /\ \A k \in DOMAIN p.volume_mounts : p.volume_mounts[k] = Mount
    BY <2>1
  <2>3. IsValue(Mount)
    BY Values DEF Mount
  <2> QED
    BY <2>2, <2>3, MountRecord, EachLevel
<1>2. Complete("V1Container", f, g)
  BY Classes, Values DEF Complete, Required, KubernetesModels
<1>3. \A k \in DOMAIN f : Deserialize2(f[k], Entries("V1Container")[k]) = g[k]
  BY <1>1, EnvironmentRecord, Classes, Primitives DEF KubernetesModels
<1> QED
  BY <1>2, <1>3, Classes, ModelLevels DEF Container, ContainerRecord

LEMMA PodSpecThrough ==
  ASSUME NEW n, NEW p \in Payloads(n)
  PROVE  Deserialize5(PodSpec(p), One("V1PodSpec")) = PodSpecRecord(p)
<1> DEFINE f == [containers |-> List(<<Container(p)>>), volumes |-> List(p.volumes)]
           g == [containers |-> List(<<ContainerRecord(p)>>), volumes |-> List(p.volumes)]
<1>1. Deserialize4(List(<<Container(p)>>), ListOf("V1Container")) = List(<<ContainerRecord(p)>>)
  <2> DEFINE c == <<Container(p)>>
             r == <<ContainerRecord(p)>>
  <2>1. /\ DOMAIN c = DOMAIN r /\ r = [i \in DOMAIN r |-> r[i]]
        /\ \A i \in DOMAIN r : r[i] = ContainerRecord(p) /\ c[i] = Container(p)
    OBVIOUS
  <2>2. IsValue(ContainerRecord(p))
    BY Values DEF ContainerRecord
  <2>3. \A i \in DOMAIN r : IsValue(r[i])
    BY <2>1, <2>2
  <2>4. \A i \in DOMAIN c : Deserialize3(c[i], One("V1Container")) = r[i]
    BY <2>1, ContainerThrough
  <2> HIDE DEF c, r
  <2>5. Deserialize4(List(c), ListOf("V1Container")) = List(r)
    BY <2>1, <2>3, <2>4, EachLevel
  <2> QED
    BY <2>5 DEF c, r
<1>2. Deserialize4(List(p.volumes), ListOf("V1Volume")) = List(p.volumes)
  <2>1. p.volumes \in {<<>>, <<Volume>>}
    BY DEF Payloads
  <2>2. /\ p.volumes = [k \in DOMAIN p.volumes |-> p.volumes[k]]
        /\ \A k \in DOMAIN p.volumes : p.volumes[k] = Volume
    BY <2>1
  <2>3. IsValue(Volume)
    BY Values DEF Volume
  <2> QED
    BY <2>2, <2>3, VolumeRecord, EachLevel
<1>3. Complete("V1PodSpec", f, g)
  BY Classes, Values DEF Complete, Required, KubernetesModels
<1>4. \A k \in DOMAIN f : Deserialize4(f[k], Entries("V1PodSpec")[k]) = g[k]
  BY <1>1, <1>2, Classes DEF KubernetesModels
<1> QED
  BY <1>3, <1>4, Classes, ModelLevels DEF PodSpec, PodSpecRecord

LEMMA SpecThrough ==
  ASSUME NEW n, NEW p \in Payloads(n)
  PROVE  Deserialize7(SpecDict(p), One("V1KernelSpec")) = SpecRecord(p)
<1> DEFINE c == [ip |-> Text("0.0.0.0"), shellPort |-> Number(52318), key |-> Text("secret")]
<1>1. Deserialize6(p.connection_info, One("V1KernelConnectionConfig")) = p.connection_info
  <2>1. Complete("V1KernelConnectionConfig", c, c)
    BY Classes, Values DEF Complete, Required, V1KernelConnectionConfig
  <2>2. \A k \in DOMAIN c : Deserialize5(c[k], Entries("V1KernelConnectionConfig")[k]) = c[k]
    BY Classes, Primitives DEF V1KernelConnectionConfig
  <2>3. p.connection_info = Dict(c)
    BY DEF Payloads, Connection
  <2> QED
    BY <2>1, <2>2, <2>3, Classes, ModelLevels
<1>2. Deserialize6(Dict([spec |-> PodSpec(p)]), One("V1PodTemplateSpec")) = Dict([spec |-> PodSpecRecord(p)])
  <2> DEFINE f == [spec |-> PodSpec(p)]
             g == [spec |-> PodSpecRecord(p)]
  <2>1. IsValue(PodSpecRecord(p))
    BY Values DEF PodSpecRecord
  <2>2. Complete("V1PodTemplateSpec", f, g)
    BY <2>1, Classes DEF Complete, Required, KubernetesModels
  <2>3. \A k \in DOMAIN f : Deserialize5(f[k], Entries("V1PodTemplateSpec")[k]) = g[k]
    BY PodSpecThrough, Classes DEF KubernetesModels
  <2> QED
    BY <2>2, <2>3, Classes, ModelLevels
<1> DEFINE f == [idleTimeoutSeconds |-> Number(p.idle_timeout), cullingIntervalSeconds |-> Number(60),
                 kernelConnectionConfig |-> p.connection_info,
                 template |-> Dict([spec |-> PodSpec(p)])]
           g == [idleTimeoutSeconds |-> Number(p.idle_timeout), cullingIntervalSeconds |-> Number(60),
                 kernelConnectionConfig |-> p.connection_info,
                 template |-> Dict([spec |-> PodSpecRecord(p)])]
<1>3. IsValue(p.connection_info)
  BY Values DEF Payloads, Connection
<1>4. Complete("V1KernelSpec", f, g)
  BY <1>3, Classes, Values DEF Complete, Required, V1KernelSpec
<1>5. \A k \in DOMAIN f : Deserialize6(f[k], Entries("V1KernelSpec")[k]) = g[k]
  BY <1>1, <1>2, Classes, Primitives DEF V1KernelSpec
<1> QED
  BY <1>4, <1>5, Classes, ModelLevels DEF SpecDict, SpecRecord

LEMMA MetadataThrough ==
  ASSUME NEW p
  PROVE  Deserialize7(Metadata(p), One("V1ObjectMeta")) = Metadata(p)
<1> DEFINE l == [id |-> Text(p.kernel_id)]
           m == [name |-> Text(p.kernel_id), labels |-> Dict(l)]
<1>1. Deserialize6(Dict(l), DictOf("str")) = Dict(l)
  BY Values, Primitives, EachLevel
<1>2. Complete("V1ObjectMeta", m, m)
  BY Classes, Values DEF Complete, Required, KubernetesModels
<1>3. \A k \in DOMAIN m : Deserialize6(m[k], Entries("V1ObjectMeta")[k]) = m[k]
  BY <1>1, Classes, Primitives DEF KubernetesModels
<1> QED
  BY <1>2, <1>3, Classes, ModelLevels DEF Metadata

\* What acreate stores is what it was asked for, and the numbers of the
\* environment are texts.
LEMMA OnlyTheEnvironmentChanges ==
  ASSUME NEW n, NEW p \in Payloads(n)
  PROVE  Deserialize(KernelDict(p), One("V1Kernel")) = KernelRecord(p)
<1> DEFINE f == [apiVersion |-> Text("jupyrator.org/v1"), kind |-> Text("KernelManager"),
                 metadata |-> Metadata(p), spec |-> SpecDict(p)]
           g == [apiVersion |-> Text("jupyrator.org/v1"), kind |-> Text("KernelManager"),
                 metadata |-> Metadata(p), spec |-> SpecRecord(p)]
<1>1. IsValue(Metadata(p)) /\ IsValue(SpecRecord(p))
  BY Values DEF Metadata, SpecRecord
<1>2. Complete("V1Kernel", f, g)
  BY <1>1, Classes, Values DEF Complete, Required, V1Kernel
<1>3. \A k \in DOMAIN f : Deserialize7(f[k], Entries("V1Kernel")[k]) = g[k]
  BY MetadataThrough, SpecThrough, Classes, Primitives DEF V1Kernel
<1>4. Deserialize(Dict(f), One("V1Kernel")) = Dict(g)
  BY <1>2, <1>3, Classes, ModelLevels
<1>5. KernelDict(p) = Dict(f)
  BY DEF KernelDict, Metadata
<1> QED
  BY <1>4, <1>5 DEF KernelRecord

-----------------------------------------------------------------------------
(* What is stored of a request.                                            *)

Phases == {"Pending", "Running", "Failed"}

StatusRecord(phase) ==
  Dict([conditions |-> List(<<>>), phase |-> Text(phase),
        ip |-> Text(IF phase = "Pending" THEN "" ELSE "10.0.0.1")])

StampRecord(now) == Dict([lastActivityTime |-> Text(now)])

\* The metadata of the kernel that p asked for, stamped or not.
MetadataOf(m, p) ==
  /\ m[1] = "dict"
  /\ Get(m, "labels") = Dict([id |-> Text(p.kernel_id)])
  /\ Get(m, "creationTimestamp") = Text("created")
  /\ \/ Get(m, "annotations") = Error
     \/ \E now \in {Whole, Fractional} : Get(m, "annotations") = StampRecord(now)

\* The custom resource of the kernel that p asked for, with a status or without.
RecordOf(obj, p) ==
  /\ obj[1] = "dict"
  /\ Get(obj, "spec") = SpecRecord(p)
  /\ \/ Get(obj, "status") = Error
     \/ \E phase \in Phases : Get(obj, "status") = StatusRecord(phase)
  /\ MetadataOf(Get(obj, "metadata"), p)

RecordsInv ==
  /\ DOMAIN stored = Names /\ DOMAIN asked = Names
  /\ \A n \in Names : Requested(n) => asked[n] \in Payloads(n) /\ RecordOf(stored[n], asked[n])

LEMMA GetsWith ==
  ASSUME NEW d, d[1] = "dict", NEW e, NEW k
  PROVE  /\ With(d, e)[1] = "dict"
         /\ Get(With(d, e), k) = IF k \in DOMAIN e THEN e[k] ELSE Get(d, k)
BY DEF Get, With, Dict

\* The first record of a request.
LEMMA FirstRecord ==
  ASSUME NEW p,
         NEW obj, obj = With(KernelRecord(p), [metadata |-> With(Get(KernelRecord(p), "metadata"),
                                                 [creationTimestamp |-> Text("created")])])
  PROVE  RecordOf(obj, p)
<1> DEFINE m == With(Metadata(p), [creationTimestamp |-> Text("created")])
<1>1. /\ KernelRecord(p)[1] = "dict" /\ Get(KernelRecord(p), "metadata") = Metadata(p)
      /\ Get(KernelRecord(p), "spec") = SpecRecord(p) /\ Get(KernelRecord(p), "status") = Error
  BY Gets, Tags DEF KernelRecord
<1>2. /\ Metadata(p)[1] = "dict" /\ Get(Metadata(p), "annotations") = Error
      /\ Get(Metadata(p), "labels") = Dict([id |-> Text(p.kernel_id)])
  BY Gets, Tags DEF Metadata
<1>3. MetadataOf(m, p)
  BY <1>2, GetsWith DEF MetadataOf
<1>4. obj = With(KernelRecord(p), [metadata |-> m])
  BY <1>1
<1> HIDE DEF m
<1>5. PICK e : e = [metadata |-> m]
  OBVIOUS
<1>6. obj = With(KernelRecord(p), e)
  BY <1>4, <1>5, Zenon
<1>7. DOMAIN e = {"metadata"} /\ e["metadata"] = m
  BY <1>5
<1>8. /\ obj[1] = "dict" /\ Get(obj, "metadata") = m
      /\ Get(obj, "spec") = SpecRecord(p) /\ Get(obj, "status") = Error
  BY <1>1, <1>6, <1>7, GetsWith
<1> QED
  BY <1>3, <1>8 DEF RecordOf

\* The controller and the monitor touch nothing of it but their own.
LEMMA MirroredRecord ==
  ASSUME NEW p, NEW obj, RecordOf(obj, p), NEW phase \in Phases
  PROVE  RecordOf(With(obj, [status |-> StatusRecord(phase)]), p)
BY GetsWith DEF RecordOf

LEMMA StampedRecord ==
  ASSUME NEW p, NEW obj, RecordOf(obj, p), NEW now \in {Whole, Fractional}
  PROVE  RecordOf(With(obj, [metadata |-> With(Get(obj, "metadata"),
                                               [annotations |-> StampRecord(now)])]), p)
<1> DEFINE e == [annotations |-> StampRecord(now)]
           m == With(Get(obj, "metadata"), e)
<1>1. DOMAIN e = {"annotations"} /\ e["annotations"] = StampRecord(now)
  OBVIOUS
<1>2. MetadataOf(Get(obj, "metadata"), p)
  BY DEF RecordOf
<1> HIDE DEF e
<1>3. MetadataOf(m, p)
  BY <1>1, <1>2, GetsWith DEF MetadataOf
<1> HIDE DEF m
<1>4. RecordOf(With(obj, [metadata |-> m]), p)
  BY <1>3, GetsWith DEF RecordOf
<1> QED
  BY <1>4 DEF m, e

LEMMA RecordsInvHolds == RecordsSpec => []RecordsInv
<1>1. RecordsInit => RecordsInv
  BY DEF RecordsInit, RecordsInv, Requested
<1>2. RecordsInv /\ [RecordsNext]_recordVars => RecordsInv'
  <2> SUFFICES ASSUME RecordsInv, [RecordsNext]_recordVars PROVE RecordsInv'
    OBVIOUS
  <2>1. CASE UNCHANGED recordVars
    BY <2>1 DEF recordVars, RecordsInv, Requested
  <2>2. ASSUME NEW n \in Names, Create(n) PROVE RecordsInv'
    <3>1. PICK p \in Payloads(n) :
            /\ Store(n, Deserialize(KernelDict(p), One("V1Kernel")))
            /\ asked' = [asked EXCEPT ![n] = p]
      BY <2>2 DEF Create
    <3>2. Store(n, KernelRecord(p))
      BY <3>1, OnlyTheEnvironmentChanges
    <3>3. RecordOf(stored'[n], p)
      BY <3>2, FirstRecord DEF Store, RecordsInv
    <3> QED
      BY <3>1, <3>2, <3>3 DEF Store, RecordsInv, Requested
  <2>3. ASSUME NEW n \in Names, Apply(n) PROVE RecordsInv'
    <3>1. ~Requested(n)
      BY <2>3, Tags DEF Apply, Exists, RecordsInv, RecordOf
    <3>2. UNCHANGED asked /\ \E x : stored' = [stored EXCEPT ![n] = x]
      BY <2>3, Zenon DEF Apply, Store
    <3> QED
      BY <3>1, <3>2 DEF RecordsInv, Requested
  <2>4. ASSUME NEW n \in Names, Mirror(n) PROVE RecordsInv'
    <3>1. PICK phase \in Phases :
            stored' = [stored EXCEPT ![n] = With(stored[n], [status |-> StatusRecord(phase)])]
      BY <2>4 DEF Mirror, Phases, StatusRecord
    <3>2. UNCHANGED asked
      BY <2>4 DEF Mirror
    <3> QED
      BY <3>1, <3>2, MirroredRecord DEF RecordsInv, Requested
  <2>5. ASSUME NEW n \in Names, Stamp(n) PROVE RecordsInv'
    <3>1. PICK now \in {Whole, Fractional} :
            stored' = [stored EXCEPT ![n] =
              With(stored[n], [metadata |-> With(Get(stored[n], "metadata"),
                                                 [annotations |-> StampRecord(now)])])]
      BY <2>5 DEF Stamp, StampRecord
    <3>2. UNCHANGED asked
      BY <2>5 DEF Stamp
    <3> QED
      BY <3>1, <3>2, StampedRecord DEF RecordsInv, Requested
  <2>6. ASSUME NEW n \in Names, Delete(n) PROVE RecordsInv'
    BY <2>6 DEF Delete, RecordsInv, Requested
  <2> QED
    BY <2>1, <2>2, <2>3, <2>4, <2>5, <2>6 DEF RecordsNext
<1> QED
  BY <1>1, <1>2, PTL DEF RecordsSpec

-----------------------------------------------------------------------------
(* What is read of it.                                                     *)

LEMMA ContainerRead ==
  ASSUME NEW p, NEW obj, RecordOf(obj, p)
  PROVE  LET template  == Get(Get(Get(obj, "spec"), "template"), "spec")
             container == First(Get(template, "containers"))
         IN  /\ template = PodSpecRecord(p)
             /\ container = ContainerRecord(p)
<1>1. Get(Get(Get(obj, "spec"), "template"), "spec") = PodSpecRecord(p)
  BY Gets DEF RecordOf, SpecRecord
<1>2. First(Get(PodSpecRecord(p), "containers")) = ContainerRecord(p)
  BY Gets, Tags DEF First, PodSpecRecord
<1> QED
  BY <1>1, <1>2

LEMMA FieldsRead ==
  ASSUME NEW p, NEW obj, RecordOf(obj, p)
  PROVE  LET k == KernelModel(obj)
         IN  /\ k.id = Text(p.kernel_id) /\ k.idle_timeout = Number(p.idle_timeout)
             /\ k.image = Text(p.image) /\ k.working_dir = Text(p.working_dir)
             /\ k.volumes = List(p.volumes) /\ k.volume_mounts = List(p.volume_mounts)
             /\ k.envs = List(TextEnvironment(p))
             /\ k.last_activity = LastActivity(obj)
             /\ k.connection_info = ConnectionInfo(obj)
             /\ k.ready => Get(Status(obj), "phase") = Text("Running")
<1>1. Get(Get(Get(obj, "metadata"), "labels"), "id") = Text(p.kernel_id)
  BY Gets DEF RecordOf, MetadataOf
<1>2. Get(Get(obj, "spec"), "idleTimeoutSeconds") = Number(p.idle_timeout)
  BY Gets DEF RecordOf, SpecRecord
<1>3. Get(PodSpecRecord(p), "volumes") = List(p.volumes)
  BY Gets DEF PodSpecRecord
<1>4. /\ Get(ContainerRecord(p), "env") = List(TextEnvironment(p))
      /\ Get(ContainerRecord(p), "image") = Text(p.image)
      /\ Get(ContainerRecord(p), "volumeMounts") = List(p.volume_mounts)
      /\ Get(ContainerRecord(p), "workingDir") = Text(p.working_dir)
  BY Gets DEF ContainerRecord
<1> QED
  BY <1>1, <1>2, <1>3, <1>4, ContainerRead DEF KernelModel

LEMMA ActivityRead ==
  ASSUME NEW p, NEW obj, RecordOf(obj, p), Recorded(obj) # Text(Whole)
  PROVE  LastActivity(obj) # Error
<1>1. Recorded(obj) = Error \/ Recorded(obj) = Text(Fractional)
  <2>1. ASSUME NEW now, Get(Get(obj, "metadata"), "annotations") = StampRecord(now)
        PROVE  Recorded(obj) = Text(now)
    BY <2>1, Gets DEF Recorded, StampRecord
  <2>2. Get(Error, "lastActivityTime") = Error
    BY Tags DEF Get
  <2> QED
    BY <2>1, <2>2 DEF RecordOf, MetadataOf, Recorded
<1>2. Get(Get(obj, "metadata"), "creationTimestamp") = Text("created")
  BY DEF RecordOf, MetadataOf
<1> QED
  BY <1>1, <1>2, Values DEF LastActivity, IsValue

LEMMA StatusRead ==
  ASSUME NEW p, NEW obj, RecordOf(obj, p), Get(Status(obj), "phase") = Text("Running")
  PROVE  Get(Status(obj), "ip") = Text("10.0.0.1")
<1>1. Text("Running") # Error
  BY Values DEF IsValue
<1>2. Get(Dict(<<>>), "phase") = Error /\ Get(Error, "phase") = Error
  BY Gets, Tags DEF Get
<1>3. ASSUME NEW phase
      PROVE  /\ Get(StatusRecord(phase), "phase") = Text(phase)
             /\ phase = "Running" => Get(StatusRecord(phase), "ip") = Text("10.0.0.1")
  <2>1. PICK ip : ip = Text(IF phase = "Pending" THEN "" ELSE "10.0.0.1")
    OBVIOUS
  <2>2. StatusRecord(phase) = Dict([conditions |-> List(<<>>), phase |-> Text(phase), ip |-> ip])
    BY <2>1, Zenon DEF StatusRecord
  <2>3. phase = "Running" => ip = Text("10.0.0.1")
    BY <2>1
  <2>4. Get(StatusRecord(phase), "phase") = Text(phase) /\ Get(StatusRecord(phase), "ip") = ip
    BY <2>2, Gets
  <2> QED
    BY <2>3, <2>4
<1>4. \A phase \in Phases : Text(phase) = Text("Running") => phase = "Running"
  BY DEF Text
<1>5. Get(StatusRecord("Running"), "ip") = Text("10.0.0.1")
  BY <1>3
<1>6. Status(obj) \in {Dict(<<>>), Get(obj, "status")}
  BY DEF Status, Get, RecordOf
<1> QED
  BY <1>1, <1>2, <1>3, <1>4, <1>5, <1>6 DEF RecordOf

\* The connection is the one that was asked for, but for the address.
LEMMA ConnectionRead ==
  ASSUME NEW n, NEW p \in Payloads(n), NEW obj, RecordOf(obj, p)
  PROVE  /\ Without(ConnectionInfo(obj), {"ip"}) = Without(p.connection_info, {"ip"})
         /\ Get(Status(obj), "ip") # Error
              => Get(ConnectionInfo(obj), "ip") = Get(Status(obj), "ip")
<1> DEFINE ip == Get(Status(obj), "ip")
           e == IF ip = Error THEN <<>> ELSE [ip |-> ip]
           c == [ip |-> Text("0.0.0.0"), shellPort |-> Number(52318), key |-> Text("secret")]
<1>1. p.connection_info = Dict(c)
  BY DEF Payloads, Connection
<1>2. Get(Get(obj, "spec"), "kernelConnectionConfig") = Dict(c)
  BY <1>1, Gets DEF RecordOf, SpecRecord
<1>3. KernelConnectionInfoModel(Dict(c)) = Dict(c)
  BY Tags DEF KernelConnectionInfoModel, With
<1>4. ConnectionInfo(obj) = With(Dict(c), e)
  BY <1>2, <1>3 DEF ConnectionInfo
<1>5. DOMAIN e \subseteq {"ip"} /\ (ip # Error => "ip" \in DOMAIN e /\ e["ip"] = ip)
  OBVIOUS
<1>6. DOMAIN c = {"ip", "shellPort", "key"}
  OBVIOUS
<1> HIDE DEF c, e
<1>7. Without(With(Dict(c), e), {"ip"}) = Without(Dict(c), {"ip"})
  <2>1. With(Dict(c), e)[2] = [k \in DOMAIN e \cup DOMAIN c |-> IF k \in DOMAIN e THEN e[k] ELSE c[k]]
    BY Tags DEF With
  <2>2. (DOMAIN e \cup DOMAIN c) \ {"ip"} = DOMAIN c \ {"ip"}
    BY <1>5, <1>6
  <2>3. [x \in (DOMAIN e \cup DOMAIN c) \ {"ip"} |-> With(Dict(c), e)[2][x]]
         = [x \in DOMAIN c \ {"ip"} |-> c[x]]
    BY <2>1, <2>2, <1>5
  <2>4. DOMAIN With(Dict(c), e)[2] = DOMAIN e \cup DOMAIN c
    BY <2>1
  <2> QED
    BY <2>3, <2>4, Tags DEF Without
<1>8. ip # Error => Get(With(Dict(c), e), "ip") = ip
  BY <1>5, GetsWith, Tags
<1> QED
  BY <1>1, <1>4, <1>7, <1>8

LEMMA EnvironmentRead ==
  ASSUME NEW p, NEW i \in DOMAIN TextEnvironment(p)
  PROVE  Get(TextEnvironment(p)[i], "value")[1] = "str"
<1>1. i \in {1, 2}
  BY DEF TextEnvironment
<1>2. CASE i = 1
  <2>1. TextEnvironment(p)[i] = Dict([name |-> Text("KERNEL_ID"), value |-> Text(p.kernel_id)])
    BY <1>2 DEF TextEnvironment
  <2> QED
    BY <2>1, Gets, Tags
<1>3. CASE i = 2
  <2>1. TextEnvironment(p)[i] = Dict([name |-> Text("KERNEL_IDLE_TIMEOUT"),
                                      value |-> Text(ToString(p.idle_timeout))])
    BY <1>3 DEF TextEnvironment
  <2> QED
    BY <2>1, Gets, Tags
<1> QED
  BY <1>1, <1>2, <1>3

-----------------------------------------------------------------------------
(* The theorems.                                                           *)

\* A kernel that a request created can be read back, unless its last activity
\* is a time without a fraction (KernelModel.model_validate).
THEOREM RequestsRead == RecordsSpec => []RequestedKernelsRead
<1>1. RecordsInv => RequestedKernelsRead
  <2> SUFFICES ASSUME RecordsInv, NEW n \in Names, Requested(n), ~Stamped(n, Whole)
               PROVE  Reads(stored[n])
    BY DEF RequestedKernelsRead
  <2>1. RecordOf(stored[n], asked[n])
    BY DEF RecordsInv
  <2>2. LastActivity(stored[n]) # Error
    BY <2>1, ActivityRead DEF Stamped
  <2> QED
    BY <2>1, <2>2, FieldsRead, Values DEF Reads, IsValue
<1> QED
  BY <1>1, RecordsInvHolds, PTL

\* What KernelModel reads of a kernel is what the request asked acreate for,
\* and once it runs the address is its pod's.
THEOREM AsAsked == RecordsSpec => []ReadsBackAsAsked
<1>1. RecordsInv => ReadsBackAsAsked
  <2> SUFFICES ASSUME RecordsInv, NEW n \in Names, Requested(n)
               PROVE  LET k == KernelModel(stored[n]) p == asked[n]
                      IN /\ k.id = Text(p.kernel_id) /\ k.idle_timeout = Number(p.idle_timeout)
                         /\ k.image = Text(p.image) /\ k.working_dir = Text(p.working_dir)
                         /\ k.volumes = List(p.volumes) /\ k.volume_mounts = List(p.volume_mounts)
                         /\ Without(k.connection_info, {"ip"}) = Without(p.connection_info, {"ip"})
                         /\ k.ready => Get(k.connection_info, "ip") = Text("10.0.0.1")
    BY DEF ReadsBackAsAsked
  <2>1. asked[n] \in Payloads(n) /\ RecordOf(stored[n], asked[n])
    BY DEF RecordsInv
  <2>2. Text("10.0.0.1") # Error
    BY Values DEF IsValue
  <2>3. ASSUME KernelModel(stored[n]).ready
        PROVE  Get(ConnectionInfo(stored[n]), "ip") = Text("10.0.0.1")
    <3>1. Get(Status(stored[n]), "phase") = Text("Running")
      BY <2>1, <2>3, FieldsRead
    <3>2. Get(Status(stored[n]), "ip") = Text("10.0.0.1")
      BY <2>1, <3>1, StatusRead
    <3> QED
      BY <2>1, <2>2, <3>2, ConnectionRead
  <2> QED
    BY <2>1, <2>3, FieldsRead, ConnectionRead
<1> QED
  BY <1>1, RecordsInvHolds, PTL

\* The models turn every value of the environment into a text, as the custom
\* resource definition demands (V1EnvVar in _deserialize).
THEOREM EnvironmentOfTexts == RecordsSpec => []EnvironmentIsText
<1>1. RecordsInv => EnvironmentIsText
  <2> SUFFICES ASSUME RecordsInv, NEW n \in Names, Requested(n)
               PROVE  LET env == KernelModel(stored[n]).envs[2]
                      IN \A i \in DOMAIN env : Get(env[i], "value")[1] = "str"
    BY DEF EnvironmentIsText
  <2>1. KernelModel(stored[n]).envs = List(TextEnvironment(asked[n]))
    BY FieldsRead DEF RecordsInv
  <2>2. KernelModel(stored[n]).envs[2] = TextEnvironment(asked[n])
    BY <2>1, Tags
  <2> QED
    BY <2>2, EnvironmentRead
<1> QED
  BY <1>1, RecordsInvHolds, PTL

=============================================================================
