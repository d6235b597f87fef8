-------------------------- MODULE StorageLifecycle --------------------------
(***************************************************************************)
(* Storage implements Lifecycle: the work of a saga is read off its effect *)
(* rows, and the status it shows is the column the transactions keep.      *)
(***************************************************************************)
EXTENDS StorageInvariant

Part(e) == IF e = Create THEN 0 ELSE e[2] + 1

PartsIn(p, E, states) == {Part(e) : e \in InState(E, p.cleanup_requested, states)}

OpenPart(p, E) ==
    LET open == InState(E, p.cleanup_requested, {"in_flight", "failed", "unknown"})
        how == [in_flight |-> "running", failed |-> "failed", unknown |-> "lost"]
        e == CHOOSE e \in open : TRUE
    IN  IF open = {} THEN [how |-> "closed", part |-> 0]
        ELSE [how |-> how[E[e].state], part |-> Part(e)]

WorkOf(p, E) ==
    [phase |-> IF p.status = "absent" THEN "none"
               ELSE IF p.cleanup_requested THEN "cleanup" ELSE "forward",
     todo |-> PartsIn(p, E, {"pending"}),
     done |-> PartsIn(p, E, {"applied", "compensated"}),
     open |-> OpenPart(p, E)]

Abstract == INSTANCE Lifecycle WITH
                work <- [s \in Sagas |-> WorkOf(saga[s], effect[s])],
                shown <- [s \in Sagas |-> saga[s].status]

\* Every transaction of storage.rs is a step of the documented state table or
\* leaves every saga where it was: one part at a time, in order, none done
\* twice, none redone without an operator, and the status column always the
\* one the effects stand for.
ImplementsLifecycle == Abstract!Spec
=============================================================================
