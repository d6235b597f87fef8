----------------------------- MODULE Lifecycle -----------------------------
(***************************************************************************)
(* What a provisioning saga promises, without rows, leases or fences: the  *)
(* state table of docs/plugin-card.md.  A saga is a set of parts to do,    *)
(* taken one at a time in order; a part that was rejected or lost stops    *)
(* the saga until an operator decides, and nothing is done twice.  Cleanup *)
(* starts over with the grants that were done.  Storage implements this.   *)
(***************************************************************************)
EXTENDS Naturals

CONSTANTS Sagas, MaxGrants    \* the sagas, and the largest number of grants

VARIABLES
    work,    \* Sagas -> what is left to do, done, and open
    shown    \* Sagas -> the status a caller reads

\* Part 0 is the organization; part i is a grant, or its revocation.
Organization == 0
Parts == 0 .. MaxGrants
Closed == [how |-> "closed", part |-> Organization]
Opens == {Closed} \cup [how : {"running", "failed", "lost"}, part : Parts]

Work == [phase : {"none", "forward", "cleanup"}, todo : SUBSET Parts,
         done : SUBSET Parts, open : Opens]
Nothing == [phase |-> "none", todo |-> {}, done |-> {}, open |-> Closed]

Status(w) ==
    LET forward == w.phase = "forward"
    IN  CASE w.phase = "none" -> "absent"
          [] w.phase # "none" /\ w.open.how = "lost" -> "manual_review"
          [] w.open.how = "running" -> IF forward THEN "running" ELSE "cleanup_running"
          [] w.open.how = "failed" -> IF forward THEN "failed" ELSE "cleanup_failed"
          [] w.phase # "none" /\ w.open = Closed /\ w.todo # {} ->
                IF forward THEN "pending" ELSE "cleanup_pending"
          [] OTHER -> IF forward THEN "completed" ELSE "cleanup_completed"
-----------------------------------------------------------------------------
(* The steps of one saga, from w to v. *)

Start(w, v) == /\ w = Nothing
               /\ \E n \in Parts : v = [Nothing EXCEPT !.phase = "forward", !.todo = 0 .. n]

\* The first part that is left, and only when no other is open.
Claim(w, v) == /\ w.open = Closed
               /\ \E i \in w.todo :
                     /\ \A j \in w.todo : i <= j
                     /\ v = [w EXCEPT !.todo = @ \ {i},
                                      !.open = [how |-> "running", part |-> i]]

\* A worker's success, or an operator's confirmation of a lost part.
Settle(w, v) == /\ w.open.how \in {"running", "lost"}
                /\ v = [w EXCEPT !.done = @ \cup {w.open.part}, !.open = Closed]

Reject(w, v) == w.open.how = "running" /\ v = [w EXCEPT !.open.how = "failed"]

Lose(w, v) == w.open.how = "running" /\ v = [w EXCEPT !.open.how = "lost"]

\* retry_failed, confirm_not_applied.
Reopen(w, v) == /\ w.open.how \in {"failed", "lost"}
                /\ v = [w EXCEPT !.todo = @ \cup {w.open.part}, !.open = Closed]

RequestCleanup(w, v) ==
    /\ w.phase = "forward"
    /\ w.open.how = "failed" \/ (w.open = Closed /\ w.todo = {})
    /\ v = [phase |-> "cleanup", todo |-> w.done \ {Organization}, done |-> {}, open |-> Closed]

Step(w, v) == \/ Start(w, v) \/ Claim(w, v) \/ Settle(w, v) \/ Reject(w, v)
              \/ Lose(w, v) \/ Reopen(w, v) \/ RequestCleanup(w, v)

Init == /\ work = [s \in Sagas |-> Nothing]
        /\ shown = [s \in Sagas |-> "absent"]

\* Sagas are independent: one transaction may lose parts of several.
Next == /\ work' \in [Sagas -> Work]
        /\ \A s \in Sagas : work'[s] = work[s] \/ Step(work[s], work'[s])
        /\ shown' = [s \in Sagas |-> Status(work'[s])]

Spec == Init /\ [][Next]_<<work, shown>>
=============================================================================
