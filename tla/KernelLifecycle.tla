--------------------------- MODULE KernelLifecycle ---------------------------
(***************************************************************************)
(* What jupyrator promises of one kernel name: a KernelManager that is     *)
(* created gets a pod of its own, which starts and may end, and whose      *)
(* phase never goes back; a pod that is lost is made again; only the       *)
(* deletion of the KernelManager ends a life, and the next KernelManager   *)
(* of the name begins a new one.                                           *)
(***************************************************************************)
CONSTANTS
  Names,      \* names of KernelManagers
  Promised    \* those whose progress is promised

VARIABLE life   \* life[n]: where the KernelManager n is in its life

Stage == {"absent", "requested", "starting", "running", "ended"}

Advance(n, from, to) == life[n] = from /\ life' = [life EXCEPT ![n] = to]

Request(n) == Advance(n, "absent", "requested")
Launch(n) == Advance(n, "requested", "starting")
Begin(n) == Advance(n, "starting", "running")
End(n) == Advance(n, "running", "ended")
Lose(n) == \E s \in {"starting", "running", "ended"} : Advance(n, s, "requested")
Remove(n) == \E s \in Stage \ {"absent"} : Advance(n, s, "absent")

Init == life = [n \in Names |-> "absent"]

Next == \E n \in Names : Request(n) \/ Launch(n) \/ Begin(n) \/ End(n) \/ Lose(n) \/ Remove(n)

\* What is requested is launched and what is starting begins, unless it is
\* lost or removed first.
Progress ==
  \A n \in Promised : \A s \in {"requested", "starting"} : life[n] = s ~> life[n] # s

Safety == Init /\ [][Next]_life

Spec == Safety /\ Progress

=============================================================================
