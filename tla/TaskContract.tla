---------------------------- MODULE TaskContract ----------------------------
(***************************************************************************)
(* What a Task promises to callers who await its runs: one run at a time,  *)
(* and a status, a result and an error that tell the story of that run.    *)
(***************************************************************************)
CONSTANTS
  Values,     \* what a callback may return, or loadWith may be given
  Failures,   \* what a callback may throw
  Undefined, Null, AbortEvent

VARIABLE task

Is(s) == task.status = s
Becomes(s, result, error) ==
  task' = [status |-> s, result |-> result, error |-> error]

Init == task = [status |-> "pending", result |-> Undefined, error |-> Undefined]

\* A run starts on a pending task, or, forced, on a completed one.
Run == ~Is("running") /\ Becomes("running", Undefined, Undefined)

Succeed == Is("running") /\ \E v \in Values : Becomes("successful", v, Undefined)

Fail == Is("running") /\ \E e \in Failures : Becomes("failed", Undefined, e)

\* The signal of the run is aborted, or had been before the run started.
Cancel == Is("running") /\ \E e \in Failures \cup {AbortEvent, Null} :
            Becomes("canceled", Undefined, e)

\* The callback of a canceled run has now thrown an error of its own.
CanceledRunFails == Is("canceled") /\ \E e \in Failures : Becomes("canceled", Undefined, e)

\* The run has completed and its Disposable is not closed yet: an abort
\* still marks the task as canceled, and leaves the result where it is.
CancelCompleted ==
  /\ task.status \in {"successful", "failed"}
  /\ Becomes("canceled", task.result, AbortEvent)

LoadWith == ~Is("running") /\ \E v \in Values : Becomes("successful", v, Undefined)

Reset == ~Is("running") /\ Becomes("pending", Undefined, Undefined)

Next ==
  \/ Run \/ Succeed \/ Fail \/ Cancel \/ CanceledRunFails \/ CancelCompleted
  \/ LoadWith \/ Reset

Spec == Init /\ [][Next]_task
=============================================================================
