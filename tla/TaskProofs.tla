----------------------------- MODULE TaskProofs -----------------------------
(* Theorems about Task, for any number of calls and signals.               *)
EXTENDS Task, TLAPS

(* Every operation of the task leaves its fields well typed, whatever its  *)
(* listeners do in the middle of it.                                       *)
LEMMA SetStatusType ==
  ASSUME NEW t \in [status : Statuses, result : Results, error : Errors],
         NEW s \in Statuses,
         NEW u \in SetStatus(t, s)
  PROVE  u \in [status : Statuses, result : Results, error : Errors]
BY DEF SetStatus, ListenersRun, Cleared, PreloadedTask, Statuses, Results, Errors

(* The task, the Disposables and the promises keep their types: every run  *)
(* is in one of its phases and settles with a value the code can produce.  *)
THEOREM TypeCorrect == Spec => []TypeOK
<1>1. Init => TypeOK
  BY DEF Init, Cleared, TypeOK, Statuses, Results, Errors, Phases, Promises, Tokens
<1>2. TypeOK /\ [Next]_vars => TypeOK'
  <2> SUFFICES ASSUME TypeOK, [Next]_vars PROVE TypeOK'
    OBVIOUS
  <2> USE DEF TypeOK
  <2>1. ASSUME NEW c \in Calls, NEW s \in Signals \cup {NoSignal},
               NEW force \in BOOLEAN, Start(c, s, force)
        PROVE  TypeOK'
    <3>1. task' \in [status : Statuses, result : Results, error : Errors]
      BY <2>1, SetStatusType DEF Start, Statuses, Results, Errors
    <3>2. QED
      BY <2>1, <3>1 DEF Start, Phases
  <2>2. ASSUME NEW c \in Calls, RunRefused(c) PROVE TypeOK'
    BY <2>2 DEF RunRefused, Answer, Phases, Promises, Tokens
  <2>3. ASSUME NEW c \in Calls, RunAnswered(c) PROVE TypeOK'
    <3>1. task.result \in Calls \cup Tokens /\ task.error \in Calls \cup Tokens
      BY DEF Results, Errors, Tokens
    <3>2. QED
      BY <2>3, <3>1 DEF RunAnswered, Answer, Phases, Promises
  <2>4. ASSUME NEW s \in Signals, Abort(s) PROVE TypeOK'
    BY <2>4 DEF Abort
  <2>5. ASSUME LoadWith PROVE TypeOK'
    <3>1. task' \in [status : Statuses, result : Results, error : Errors]
      BY <2>5, SetStatusType DEF LoadWith, Statuses, Results, Errors
    <3>2. QED
      BY <2>5, <3>1 DEF LoadWith
  <2>6. ASSUME Reset PROVE TypeOK'
    <3>1. task' \in [status : Statuses, result : Results, error : Errors]
      BY <2>6, SetStatusType DEF Reset, Statuses, Results, Errors
    <3>2. QED
      BY <2>6, <3>1 DEF Reset
  <2>7. ASSUME NEW c \in Calls, AbortListener(c) PROVE TypeOK'
    <3>1. task' \in [status : Statuses, result : Results, error : Errors]
      BY <2>7, SetStatusType DEF AbortListener, Statuses, Results, Errors
    <3>2. QED
      BY <2>7, <3>1 DEF AbortListener
  <2>8. ASSUME NEW c \in Calls, Close(c) PROVE TypeOK'
    BY <2>8 DEF Close, Phases
  <2>9. ASSUME NEW c \in Calls, Succeed(c) PROVE TypeOK'
    <3> DEFINE t0 == [task EXCEPT !.result = c]
    <3>1. t0 \in [status : Statuses, result : Results, error : Errors]
      BY DEF Results
    <3>2. PICK t \in SetStatus(t0, "successful") :
             /\ task' = t
             /\ promise' = [promise EXCEPT ![c] = [state |-> "resolved", value |-> t.result]]
      BY <2>9 DEF Succeed
    <3>3. t \in [status : Statuses, result : Results, error : Errors]
      BY <3>1, SetStatusType DEF Statuses
    <3>4. t.result \in Calls \cup Tokens
      BY <3>3 DEF Results, Tokens
    <3>5. QED
      BY <2>9, <3>2, <3>3, <3>4 DEF Succeed, Settled, Phases, Promises
  <2>10. ASSUME NEW c \in Calls, NEW e \in Errors, Settled(c), Catch(c, e)
         PROVE  TypeOK'
    <3> DEFINE t0 == [task EXCEPT !.error = e, !.result = Undefined]
    <3>1. t0 \in [status : Statuses, result : Results, error : Errors]
      BY DEF Results
    <3>2. PICK t \in SetStatus(t0, CaughtStatus(c)) :
             /\ task' = t
             /\ promise' = [promise EXCEPT ![c] = [state |-> "rejected", value |-> t.error]]
      BY <2>10 DEF Catch
    <3>3. t \in [status : Statuses, result : Results, error : Errors]
      BY <3>1, SetStatusType DEF CaughtStatus, Statuses
    <3>4. t.error \in Calls \cup Tokens
      BY <3>3 DEF Errors, Tokens
    <3>5. QED
      BY <2>10, <3>2, <3>3, <3>4 DEF Settled, Phases, Promises
  <2>11. ASSUME NEW c \in Calls, ThrowCanceled(c) PROVE TypeOK'
    BY <2>10, <2>11 DEF ThrowCanceled, GetCancelationError, Errors
  <2>12. ASSUME NEW c \in Calls, Throw(c) PROVE TypeOK'
    BY <2>10, <2>12 DEF Throw, Errors
  <2>13. CASE UNCHANGED vars
    BY <2>13 DEF vars
  <2>14. QED
    BY <2>1, <2>2, <2>3, <2>4, <2>5, <2>6, <2>7, <2>8, <2>9, <2>11, <2>12, <2>13
       DEF Next, Caller, Engine
<1>3. QED
  BY <1>1, <1>2, PTL DEF Spec
-----------------------------------------------------------------------------
(* A task that says it is running has a callback that will settle.         *)

\* The status a listener leaves behind is the one that was set, or one that is at rest.
LEMMA SetStatusStatus ==
  ASSUME NEW t \in [status : Statuses, result : Results, error : Errors],
         NEW s \in Statuses,
         NEW u \in SetStatus(t, s)
  PROVE  u.status \in {s, "pending", "successful"}
BY DEF SetStatus, ListenersRun, Cleared, PreloadedTask

(* Whatever the callers and the listeners do, a task that refuses runs as  *)
(* "already running" has a callback in flight.  The invariant is inductive *)
(* because every way a callback ends leaves another status behind.         *)
THEOREM NeverStuckRunning == Spec => []RunningHasExecutor
<1>1. Init => RunningHasExecutor
  BY DEF Init, Cleared, RunningHasExecutor, IsRunning
<1>2. TypeOK /\ RunningHasExecutor /\ [Next]_vars => RunningHasExecutor'
  <2> SUFFICES ASSUME TypeOK, RunningHasExecutor, [Next]_vars
               PROVE  RunningHasExecutor'
    OBVIOUS
  <2> USE DEF TypeOK, RunningHasExecutor, IsRunning, Executing
  <2>1. ASSUME NEW c \in Calls, NEW s \in Signals \cup {NoSignal},
               NEW force \in BOOLEAN, Start(c, s, force)
        PROVE  RunningHasExecutor'
    BY <2>1 DEF Start
  <2>2. ASSUME NEW c \in Calls, RunRefused(c) PROVE RunningHasExecutor'
    BY <2>2 DEF RunRefused, Answer, NewCall
  <2>3. ASSUME NEW c \in Calls, RunAnswered(c) PROVE RunningHasExecutor'
    BY <2>3 DEF RunAnswered, Answer, Completed
  <2>4. ASSUME NEW s \in Signals, Abort(s) PROVE RunningHasExecutor'
    BY <2>4 DEF Abort
  <2>5. ASSUME LoadWith PROVE RunningHasExecutor'
    BY <2>5, SetStatusStatus DEF LoadWith, Statuses
  <2>6. ASSUME Reset PROVE RunningHasExecutor'
    BY <2>6, SetStatusStatus DEF Reset, Statuses
  <2>7. ASSUME NEW c \in Calls, AbortListener(c) PROVE RunningHasExecutor'
    BY <2>7, SetStatusStatus DEF AbortListener, Statuses
  <2>8. ASSUME NEW c \in Calls, Close(c) PROVE RunningHasExecutor'
    BY <2>8 DEF Close
  <2>9. ASSUME NEW c \in Calls, Succeed(c) PROVE RunningHasExecutor'
    <3> DEFINE t0 == [task EXCEPT !.result = c]
    <3>1. t0 \in [status : Statuses, result : Results, error : Errors]
      BY DEF Results
    <3>2. task'.status \in {"successful", "pending"}
      BY <2>9, <3>1, SetStatusStatus DEF Succeed, Statuses
    <3>3. QED
      BY <3>2
  <2>10. ASSUME NEW c \in Calls, NEW e \in Errors, Settled(c), Catch(c, e)
         PROVE  RunningHasExecutor'
    <3> DEFINE t0 == [task EXCEPT !.error = e, !.result = Undefined]
    <3>1. t0 \in [status : Statuses, result : Results, error : Errors]
      BY DEF Results
    <3>2. CaughtStatus(c) \in {"canceled", "failed"}
      BY DEF CaughtStatus
    <3>3. task'.status \in {CaughtStatus(c), "pending", "successful"}
      BY <2>10, <3>1, <3>2, SetStatusStatus DEF Catch, Statuses
    <3>4. QED
      BY <3>2, <3>3
  <2>11. ASSUME NEW c \in Calls, ThrowCanceled(c) PROVE RunningHasExecutor'
    BY <2>10, <2>11 DEF ThrowCanceled, GetCancelationError, Errors
  <2>12. ASSUME NEW c \in Calls, Throw(c) PROVE RunningHasExecutor'
    BY <2>10, <2>12 DEF Throw, Errors
  <2>13. CASE UNCHANGED vars
    BY <2>13 DEF vars
  <2>14. QED
    BY <2>1, <2>2, <2>3, <2>4, <2>5, <2>6, <2>7, <2>8, <2>9, <2>11, <2>12, <2>13
       DEF Next, Caller, Engine
<1>3. QED
  BY <1>1, <1>2, TypeCorrect, PTL DEF Spec

-----------------------------------------------------------------------------
(* Aborted runs reject, and an abort that comes too late does nothing.     *)

(* A run whose signal is aborted when its callback settles rejects its     *)
(* promise.  It needs no invariant: the only step that resolves a promise  *)
(* of an executing run is guarded by throwIfCanceled.                      *)
THEOREM CanceledRunsReject == Spec => CanceledRunRejects
<1>1. TypeOK /\ [Next]_vars =>
        [\A c \in Calls :
           phase[c] = "executing" /\ phase'[c] = "closing" /\ IsCanceled(c)
             => promise'[c].state = "rejected"]_vars
  <2> SUFFICES ASSUME TypeOK, Next, NEW c \in Calls,
                      phase[c] = "executing", phase'[c] = "closing", IsCanceled(c)
               PROVE  promise'[c].state = "rejected"
    OBVIOUS
  <2> USE DEF TypeOK
  <2>1. ASSUME NEW d \in Calls, Engine(d) PROVE promise'[c].state = "rejected"
    <3>1. ~AbortListener(d) /\ ~Close(d)
      BY DEF AbortListener, Close
    <3>2. CASE Succeed(d)
      BY <3>2 DEF Succeed, Settled
    <3>3. CASE ThrowCanceled(d)
      BY <3>3 DEF ThrowCanceled, Settled, Catch
    <3>4. CASE Throw(d)
      BY <3>4 DEF Throw, Settled, Catch
    <3>5. QED
      BY <2>1, <3>1, <3>2, <3>3, <3>4 DEF Engine
  <2>2. ~Caller
    BY DEF Caller, Start, RunRefused, RunAnswered, Answer, NewCall, Abort, LoadWith, Reset
  <2>3. QED
    BY <2>1, <2>2 DEF Next
<1>2. QED
  BY <1>1, TypeCorrect, PTL DEF Spec, CanceledRunRejects

\* The Disposable of a run that is over is detached from its signal.
ListenersAreInFlight == listening \subseteq InFlight

LEMMA DetachedWhenDone == Spec => []ListenersAreInFlight
<1>1. Init => ListenersAreInFlight
  BY DEF Init, ListenersAreInFlight
<1>2. TypeOK /\ ListenersAreInFlight /\ [Next]_vars => ListenersAreInFlight'
  <2> SUFFICES ASSUME TypeOK, ListenersAreInFlight, [Next]_vars
               PROVE  ListenersAreInFlight'
    OBVIOUS
  <2>1. ASSUME NEW c \in Calls, NEW s \in Signals \cup {NoSignal},
               NEW force \in BOOLEAN, Start(c, s, force)
        PROVE  ListenersAreInFlight'
    BY <2>1 DEF Start, TypeOK, ListenersAreInFlight, InFlight
  <2>2. ASSUME NEW c \in Calls, RunRefused(c) \/ RunAnswered(c)
        PROVE  ListenersAreInFlight'
    BY <2>2 DEF RunRefused, RunAnswered, Answer, NewCall,
                TypeOK, ListenersAreInFlight, InFlight
  <2>3. ASSUME NEW s \in Signals, Abort(s) PROVE ListenersAreInFlight'
    BY <2>3 DEF Abort, ListenersAreInFlight, InFlight
  <2>4. ASSUME LoadWith \/ Reset PROVE ListenersAreInFlight'
    BY <2>4 DEF LoadWith, Reset, ListenersAreInFlight, InFlight
  <2>5. ASSUME NEW c \in Calls, Engine(c) PROVE ListenersAreInFlight'
    BY <2>5 DEF Engine, AbortListener, Close, Succeed, ThrowCanceled, Throw, Settled,
                TypeOK, ListenersAreInFlight, InFlight
  <2>6. CASE UNCHANGED vars
    BY <2>6 DEF vars, ListenersAreInFlight, InFlight
  <2>7. QED
    BY <2>1, <2>2, <2>3, <2>4, <2>5, <2>6 DEF Next, Caller
<1>3. QED
  BY <1>1, <1>2, TypeCorrect, PTL DEF Spec

(* No signal, however late it is aborted, changes a task with no run in    *)
(* flight: its Disposables are detached, so no abort listener is left.     *)
THEOREM LateAbortsAreHarmless == Spec => LateAbortIsHarmless
<1>1. TypeOK /\ ListenersAreInFlight /\ [Next]_vars =>
        [InFlight = {} /\ task'.status = "canceled" => task' = task]_vars
  <2> SUFFICES ASSUME TypeOK, ListenersAreInFlight, Next,
                      InFlight = {}, task'.status = "canceled"
               PROVE  task' = task
    OBVIOUS
  <2> USE DEF TypeOK
  <2>1. \A c \in Calls : ~Engine(c)
    BY DEF ListenersAreInFlight, InFlight, Engine, AbortListener, ToNotify, Close,
           Succeed, ThrowCanceled, Throw, Settled
  <2>2. ASSUME NEW c \in Calls, NEW s \in Signals \cup {NoSignal},
               NEW force \in BOOLEAN, Start(c, s, force)
        PROVE  task' = task
    BY <2>2, SetStatusStatus DEF Start, Statuses
  <2>3. ASSUME NEW c \in Calls, RunRefused(c) \/ RunAnswered(c) PROVE task' = task
    BY <2>3 DEF RunRefused, RunAnswered, Answer
  <2>4. ASSUME NEW s \in Signals, Abort(s) PROVE task' = task
    BY <2>4 DEF Abort
  <2>5. ASSUME LoadWith PROVE task' = task
    BY <2>5, SetStatusStatus DEF LoadWith, Statuses
  <2>6. ASSUME Reset PROVE task' = task
    BY <2>6, SetStatusStatus DEF Reset, Statuses
  <2>7. QED
    BY <2>1, <2>2, <2>3, <2>4, <2>5, <2>6 DEF Next, Caller
<1>2. QED
  BY <1>1, TypeCorrect, DetachedWhenDone, PTL DEF Spec, LateAbortIsHarmless

-----------------------------------------------------------------------------
(* The task of callers who await: one execution at a time, answers that    *)
(* are real, and the implementation of TaskContract.                       *)


(* Without listeners that change the task, setStatus sets the status.      *)
LEMMA QuietListeners ==
  ASSUME ~Reentrant,
         NEW t \in [status : Statuses, result : Results, error : Errors],
         NEW s \in Statuses
  PROVE  SetStatus(t, s) = {[t EXCEPT !.status = s]}
BY DEF SetStatus, ListenersRun

\* What each operation makes of the task when no listener interferes.
LEMMA QuietEffects ==
  ASSUME ~Reentrant, TypeOK
  PROVE  /\ \A c \in Calls, s \in Signals \cup {NoSignal}, force \in BOOLEAN :
              Start(c, s, force) => task' = Cleared("running")
         /\ \A c \in Calls : AbortListener(c) =>
              task' = [status |-> "canceled", result |-> task.result, error |-> AbortEvent]
         /\ \A c \in Calls : Succeed(c) =>
              /\ task' = [status |-> "successful", result |-> c, error |-> task.error]
              /\ promise' = [promise EXCEPT ![c] = [state |-> "resolved", value |-> c]]
         /\ \A c \in Calls, e \in Errors : Catch(c, e) =>
              /\ task' = [status |-> CaughtStatus(c), result |-> Undefined, error |-> e]
              /\ promise' = [promise EXCEPT ![c] = [state |-> "rejected", value |-> e]]
         /\ LoadWith => task' = PreloadedTask
         /\ Reset => task' = Cleared("pending")
<1>1. ASSUME NEW c \in Calls, NEW s \in Signals \cup {NoSignal}, NEW force \in BOOLEAN,
             Start(c, s, force)
      PROVE  task' = Cleared("running")
  <2>1. SetStatus(task, "running") = {[task EXCEPT !.status = "running"]}
    BY QuietListeners DEF TypeOK, Statuses
  <2>2. QED
    BY <1>1, <2>1 DEF Start, Cleared, TypeOK
<1>2. ASSUME NEW c \in Calls, AbortListener(c)
      PROVE  task' = [status |-> "canceled", result |-> task.result, error |-> AbortEvent]
  <2>1. SetStatus(task, "canceled") = {[task EXCEPT !.status = "canceled"]}
    BY QuietListeners DEF TypeOK, Statuses
  <2>2. QED
    BY <1>2, <2>1 DEF AbortListener, TypeOK
<1>3. ASSUME NEW c \in Calls, Succeed(c)
      PROVE  /\ task' = [status |-> "successful", result |-> c, error |-> task.error]
             /\ promise' = [promise EXCEPT ![c] = [state |-> "resolved", value |-> c]]
  <2> DEFINE t0 == [task EXCEPT !.result = c]
  <2>1. t0 \in [status : Statuses, result : Results, error : Errors]
    BY DEF TypeOK, Results
  <2>2. SetStatus(t0, "successful") = {[t0 EXCEPT !.status = "successful"]}
    BY <2>1, QuietListeners DEF Statuses
  <2>3. QED
    BY <1>3, <2>2 DEF Succeed, TypeOK
<1>4. ASSUME NEW c \in Calls, NEW e \in Errors, Catch(c, e)
      PROVE  /\ task' = [status |-> CaughtStatus(c), result |-> Undefined, error |-> e]
             /\ promise' = [promise EXCEPT ![c] = [state |-> "rejected", value |-> e]]
  <2> DEFINE t0 == [task EXCEPT !.error = e, !.result = Undefined]
  <2>1. t0 \in [status : Statuses, result : Results, error : Errors]
    BY DEF TypeOK, Results
  <2>2. CaughtStatus(c) \in Statuses
    BY DEF Statuses, CaughtStatus
  <2>3. SetStatus(t0, CaughtStatus(c)) = {[t0 EXCEPT !.status = CaughtStatus(c)]}
    BY <2>1, <2>2, QuietListeners
  <2>4. QED
    BY <1>4, <2>3 DEF Catch, TypeOK
<1>5. ASSUME LoadWith PROVE task' = PreloadedTask
  <2>1. SetStatus(task, "successful") = {[task EXCEPT !.status = "successful"]}
    BY QuietListeners DEF TypeOK, Statuses
  <2>2. QED
    BY <1>5, <2>1 DEF LoadWith, PreloadedTask, TypeOK
<1>6. ASSUME Reset PROVE task' = Cleared("pending")
  <2>1. SetStatus(task, "pending") = {[task EXCEPT !.status = "pending"]}
    BY QuietListeners DEF TypeOK, Statuses
  <2>2. QED
    BY <1>6, <2>1 DEF Reset, Cleared, TypeOK
<1>7. QED
  BY <1>1, <1>2, <1>3, <1>4, <1>5, <1>6

-----------------------------------------------------------------------------
(* Answers are real, even when runs overlap.                               *)

\* What makes AnswersAreReal inductive: a successful task holds a real value.
HoldsReal ==
  /\ \A c \in Calls : promise[c].state = "resolved" => IsReal(promise[c].value)
  /\ task.status = "successful" => IsReal(task.result)
  /\ \A c \in Calls : phase[c] \in {"idle", "executing"} => promise[c].state = "none"

\* A call settles its promise once: what was resolved stays resolved.
LEMMA RealStaysReal ==
  ASSUME TypeOK, NEW c \in Calls, promise[c].state = "none", NEW p \in Promises,
         promise' = [promise EXCEPT ![c] = p]
  PROVE  \A v : IsReal(v) => IsReal(v)'
BY DEF TypeOK, IsReal

\* A step that settles the promise of one call with a real value, or rejects it.
LEMMA SettlesReal ==
  ASSUME TypeOK, HoldsReal, NEW c \in Calls, phase[c] \in {"idle", "executing"},
         NEW p \in Promises, promise' = [promise EXCEPT ![c] = p],
         NEW q \in {"closing", "done"}, phase' = [phase EXCEPT ![c] = q],
         p.state = "resolved" => IsReal(p.value)',
         task'.status = "successful" => IsReal(task.result)'
  PROVE  HoldsReal'
<1>1. \A v : IsReal(v) => IsReal(v)'
  BY RealStaysReal DEF HoldsReal
<1>2. ASSUME NEW d \in Calls, promise'[d].state = "resolved"
      PROVE  IsReal(promise[d].value)'
  <2>1. CASE d = c
    BY <1>2, <2>1 DEF TypeOK
  <2>2. CASE d # c
    <3>1. promise'[d] = promise[d]
      BY <2>2 DEF TypeOK
    <3>2. QED
      BY <1>1, <1>2, <3>1 DEF HoldsReal
  <2>3. QED
    BY <2>1, <2>2
<1>3. ASSUME NEW d \in Calls, phase'[d] \in {"idle", "executing"}
      PROVE  promise'[d].state = "none"
  BY <1>3 DEF TypeOK, HoldsReal
<1>4. QED
  BY <1>2, <1>3 DEF HoldsReal, IsReal

\* A step that settles no promise.
LEMMA SettlesNone ==
  ASSUME HoldsReal, UNCHANGED promise,
         \A c \in Calls : phase'[c] \in {"idle", "executing"} => phase[c] \in {"idle", "executing"},
         task'.status = "successful" => IsReal(task'.result)
  PROVE  HoldsReal'
BY DEF HoldsReal, IsReal

LEMMA HoldsRealInductive ==
  ASSUME ~Reentrant, TypeOK, HoldsReal, [Next]_vars
  PROVE  HoldsReal'
<1>1. ASSUME NEW c \in Calls, NEW s \in Signals \cup {NoSignal},
             NEW force \in BOOLEAN, Start(c, s, force)
      PROVE  HoldsReal'
  <2>1. task'.status = "running"
    BY <1>1, QuietEffects DEF Cleared
  <2>2. /\ UNCHANGED promise
        /\ \A d \in Calls : phase'[d] \in {"idle", "executing"} => phase[d] \in {"idle", "executing"}
    BY <1>1 DEF Start, NewCall, TypeOK
  <2>3. QED
    BY <2>1, <2>2, SettlesNone
<1>2. ASSUME NEW c \in Calls, RunRefused(c) PROVE HoldsReal'
  <2> DEFINE p == [state |-> "rejected", value |-> AlreadyRunning]
  <2>1. /\ p \in Promises
        /\ phase[c] = "idle"
        /\ promise' = [promise EXCEPT ![c] = p]
        /\ phase' = [phase EXCEPT ![c] = "done"]
        /\ task' = task /\ task.status = "running"
    BY <1>2 DEF RunRefused, Answer, NewCall, IsRunning, Promises, Tokens
  <2>2. QED
    BY <2>1, SettlesReal
<1>3. ASSUME NEW c \in Calls, RunAnswered(c), task.status = "successful" PROVE HoldsReal'
  <2> DEFINE p == [state |-> "resolved", value |-> task.result]
  <2>1. /\ p \in Promises
        /\ phase[c] = "idle"
        /\ promise' = [promise EXCEPT ![c] = p]
        /\ phase' = [phase EXCEPT ![c] = "done"]
        /\ task' = task
    BY <1>3 DEF RunAnswered, Answer, NewCall, Promises, Tokens, TypeOK, Results
  <2>2. IsReal(task.result)'
    BY <1>3, <2>1, RealStaysReal DEF HoldsReal
  <2>3. QED
    BY <2>1, <2>2, SettlesReal
<1>4. ASSUME NEW c \in Calls, RunAnswered(c), task.status # "successful" PROVE HoldsReal'
  <2> DEFINE p == [state |-> "rejected", value |-> task.error]
  <2>1. /\ p \in Promises
        /\ phase[c] = "idle"
        /\ promise' = [promise EXCEPT ![c] = p]
        /\ phase' = [phase EXCEPT ![c] = "done"]
        /\ task' = task
    BY <1>4 DEF RunAnswered, Answer, NewCall, Promises, Tokens, TypeOK, Errors
  <2>2. QED
    BY <1>4, <2>1, SettlesReal
<1>5. ASSUME NEW s \in Signals, Abort(s) PROVE HoldsReal'
  BY <1>5, SettlesNone DEF Abort, HoldsReal
<1>6. ASSUME LoadWith \/ Reset PROVE HoldsReal'
  <2>1. /\ task' = PreloadedTask \/ task' = Cleared("pending")
        /\ UNCHANGED <<phase, promise>>
    BY <1>6, QuietEffects DEF LoadWith, Reset
  <2>2. QED
    BY <2>1, SettlesNone DEF PreloadedTask, Cleared, IsReal
<1>7. ASSUME NEW c \in Calls, AbortListener(c) PROVE HoldsReal'
  <2>1. task'.status = "canceled"
    BY <1>7, QuietEffects
  <2>2. QED
    BY <1>7, <2>1, SettlesNone DEF AbortListener
<1>8. ASSUME NEW c \in Calls, Close(c) PROVE HoldsReal'
  <2>1. /\ UNCHANGED <<task, promise>>
        /\ \A d \in Calls : phase'[d] \in {"idle", "executing"} => phase[d] \in {"idle", "executing"}
    BY <1>8 DEF Close, TypeOK
  <2>2. QED
    BY <2>1, SettlesNone DEF HoldsReal
<1>9. ASSUME NEW c \in Calls, Succeed(c) PROVE HoldsReal'
  <2> DEFINE p == [state |-> "resolved", value |-> c]
  <2>1. /\ task' = [status |-> "successful", result |-> c, error |-> task.error]
        /\ promise' = [promise EXCEPT ![c] = p]
    BY <1>9, QuietEffects
  <2>2. /\ p \in Promises
        /\ phase[c] = "executing"
        /\ phase' = [phase EXCEPT ![c] = "closing"]
    BY <1>9 DEF Succeed, Settled, Promises
  <2>3. IsReal(c)'
    BY <2>1 DEF IsReal, TypeOK
  <2>4. QED
    BY <2>1, <2>2, <2>3, SettlesReal
<1>10. ASSUME NEW c \in Calls, NEW e \in Errors, Settled(c), Catch(c, e)
       PROVE  HoldsReal'
  <2> DEFINE p == [state |-> "rejected", value |-> e]
  <2>1. /\ task' = [status |-> CaughtStatus(c), result |-> Undefined, error |-> e]
        /\ promise' = [promise EXCEPT ![c] = p]
    BY <1>10, QuietEffects
  <2>2. /\ p \in Promises
        /\ phase[c] = "executing"
        /\ phase' = [phase EXCEPT ![c] = "closing"]
    BY <1>10 DEF Settled, Promises, Errors, Tokens
  <2>3. task'.status # "successful"
    BY <2>1 DEF CaughtStatus
  <2>4. QED
    BY <2>1, <2>2, <2>3, SettlesReal
<1>11. ASSUME NEW c \in Calls, ThrowCanceled(c) \/ Throw(c) PROVE HoldsReal'
  BY <1>10, <1>11 DEF ThrowCanceled, Throw, GetCancelationError, Errors
<1>12. CASE UNCHANGED vars
  BY <1>12, SettlesNone DEF vars, HoldsReal
<1>13. QED
  BY <1>1, <1>2, <1>3, <1>4, <1>5, <1>6, <1>7, <1>8, <1>9, <1>11, <1>12
     DEF Next, Caller, Engine

(* No caller of run() is ever answered with the value of a run that was    *)
(* canceled or failed, whatever the overlaps, as long as no status         *)
(* listener changes the task.                                              *)
THEOREM AnswersReal == ASSUME ~Reentrant PROVE Spec => []AnswersAreReal
<1>1. Init => HoldsReal
  BY DEF Init, Cleared, HoldsReal
<1>2. TypeOK /\ HoldsReal /\ [Next]_vars => HoldsReal'
  BY HoldsRealInductive
<1>3. HoldsReal => AnswersAreReal
  BY DEF HoldsReal, AnswersAreReal
<1>4. QED
  BY <1>1, <1>2, <1>3, TypeCorrect, PTL DEF Spec
-----------------------------------------------------------------------------
(* Callers who await.                                                      *)

CanceledTask == [status |-> "canceled", result |-> Undefined, error |-> AbortEvent]

(* With at most one run in flight, the state of the task is a function of  *)
(* how far that run has come and of whether its abort listener has fired.  *)
OneRun      == \A c, d \in InFlight : c = d
OfExecuting == \A c \in Calls : phase[c] = "executing" =>
                 task = IF c \in notified THEN CanceledTask ELSE Cleared("running")
OfClosing   == \A c \in Calls : phase[c] = "closing" =>
                 /\ task.status \in Completed
                 /\ task.status = "canceled" => c \notin listening
Attached    == \A c \in Calls :
                 /\ phase[c] = "idle" => c \notin notified
                 /\ c \in notified => IsCanceled(c) /\ c \notin listening

AwaitInv == /\ RunningHasExecutor
            /\ ListenersAreInFlight
            /\ OneRun
            /\ OfExecuting
            /\ OfClosing
            /\ Attached

LEMMA AwaitStart ==
  ASSUME Sequential, ~Reentrant, TypeOK, AwaitInv,
         NEW c \in Calls, NEW s \in Signals \cup {NoSignal}, NEW force \in BOOLEAN,
         Start(c, s, force)
  PROVE  /\ InFlight = {}
         /\ (OneRun /\ OfExecuting /\ OfClosing /\ Attached)'
<1>1. InFlight = {}
  <2>1. CASE force
    BY <2>1 DEF Start, Disciplined
  <2>2. CASE ~force
    <3>1. task.status = "pending"
      BY <2>2 DEF Start, MayStart
    <3>2. QED
      BY <3>1 DEF AwaitInv, OfExecuting, OfClosing, InFlight, CanceledTask, Cleared, Completed
  <2>3. QED
    BY <2>1, <2>2
<1>2. \A d \in Calls : phase'[d] \in {"executing", "closing"} => d = c /\ phase'[d] = "executing"
  BY <1>1 DEF Start, InFlight, TypeOK
<1>3. c \notin notified' /\ task' = Cleared("running")
  BY QuietEffects DEF Start, NewCall, AwaitInv, Attached
<1>4. Attached'
  <2>1. ASSUME NEW d \in Calls, d \in notified' PROVE IsCanceled(d)' /\ d \notin listening'
    <3>1. d # c /\ d \in notified /\ signal'[d] = signal[d] /\ aborted' = aborted
      BY <1>3, <2>1 DEF Start, TypeOK
    <3>2. QED
      BY <3>1 DEF Start, AwaitInv, Attached, IsCanceled
  <2>2. ASSUME NEW d \in Calls, phase'[d] = "idle" PROVE d \notin notified'
    BY <2>2 DEF Start, AwaitInv, Attached, TypeOK
  <2>3. QED
    BY <2>1, <2>2 DEF Attached
<1>5. QED
  BY <1>1, <1>2, <1>3, <1>4 DEF OneRun, InFlight, OfExecuting, OfClosing

LEMMA AwaitAnswer ==
  ASSUME TypeOK, AwaitInv, NEW c \in Calls, RunRefused(c) \/ RunAnswered(c)
  PROVE  (OneRun /\ OfExecuting /\ OfClosing /\ Attached)'
<1>1. /\ UNCHANGED <<task, aborted, signal, listening, notified>>
      /\ phase' = [phase EXCEPT ![c] = "done"]
  BY DEF RunRefused, RunAnswered, Answer
<1>2. \A d \in Calls : phase'[d] # "done" => phase'[d] = phase[d]
  BY <1>1 DEF TypeOK
<1>3. QED
  BY <1>1, <1>2 DEF AwaitInv, OneRun, InFlight, OfExecuting, OfClosing, Attached,
                    IsCanceled, Cleared, CanceledTask

LEMMA AwaitAbort ==
  ASSUME TypeOK, AwaitInv, NEW s \in Signals, Abort(s)
  PROVE  (OneRun /\ OfExecuting /\ OfClosing /\ Attached)'
BY DEF Abort, AwaitInv, OneRun, InFlight, OfExecuting, OfClosing, Attached,
       IsCanceled, Cleared, CanceledTask

LEMMA AwaitAbortListener ==
  ASSUME ~Reentrant, TypeOK, AwaitInv, NEW c \in Calls, AbortListener(c)
  PROVE  (OneRun /\ OfExecuting /\ OfClosing /\ Attached)'
<1>1. /\ task' = [status |-> "canceled", result |-> task.result, error |-> AbortEvent]
      /\ UNCHANGED <<aborted, phase, signal>>
      /\ notified' = notified \cup {c}
      /\ listening' = listening \ {c}
      /\ IsCanceled(c)
  BY QuietEffects DEF AbortListener, ToNotify
<1>2. c \in InFlight /\ c \notin notified
  BY DEF AwaitInv, ListenersAreInFlight, Attached, AbortListener, ToNotify
<1>3. \A d \in InFlight : d = c
  BY <1>2 DEF AwaitInv, OneRun
<1>4. OfExecuting'
  <2> SUFFICES ASSUME NEW d \in Calls, phase[d] = "executing"
               PROVE  d \in notified' /\ task' = CanceledTask
    BY <1>1 DEF OfExecuting, CanceledTask
  <2>1. d = c /\ task = Cleared("running")
    BY <1>2, <1>3 DEF InFlight, AwaitInv, OfExecuting
  <2>2. QED
    BY <1>1, <2>1 DEF Cleared, CanceledTask
<1>5. OfClosing'
  BY <1>1, <1>3 DEF OfClosing, Completed, InFlight
<1>6. Attached' /\ OneRun'
  BY <1>1, <1>2 DEF AwaitInv, Attached, OneRun, InFlight, IsCanceled
<1>7. QED
  BY <1>4, <1>5, <1>6

LEMMA AwaitClose ==
  ASSUME TypeOK, AwaitInv, NEW c \in Calls, Close(c)
  PROVE  (OneRun /\ OfExecuting /\ OfClosing /\ Attached)'
<1>1. \A d \in Calls : phase'[d] # "done" => phase'[d] = phase[d]
  BY DEF Close, TypeOK
<1>2. QED
  BY <1>1 DEF Close, AwaitInv, OneRun, InFlight, OfExecuting, OfClosing, Attached,
              IsCanceled, Cleared, CanceledTask

\* A run that settles leaves the task completed, and canceled only when no
\* abort listener of that run is left to fire.
LEMMA AwaitSettle ==
  ASSUME TypeOK, AwaitInv, NEW c \in Calls, Settled(c),
         task'.status \in Completed,
         task'.status = "canceled" => IsCanceled(c)
  PROVE  (OneRun /\ OfExecuting /\ OfClosing /\ Attached)'
<1>1. /\ UNCHANGED <<aborted, signal, listening, notified>>
      /\ phase[c] = "executing"
      /\ phase' = [phase EXCEPT ![c] = "closing"]
      /\ IsCanceled(c) => c \notin listening
  BY DEF Settled, Quiet, ToNotify, IsCanceled
<1>2. \A d \in Calls : phase[d] \in {"executing", "closing"} => d = c
  BY <1>1 DEF AwaitInv, OneRun, InFlight
<1>3. \A d \in Calls : phase'[d] \in {"executing", "closing"} => d = c /\ phase'[d] = "closing"
  BY <1>1, <1>2 DEF TypeOK
<1>4. \A d \in Calls : phase'[d] = "idle" => phase[d] = "idle"
  BY <1>1 DEF TypeOK
<1>5. QED
  BY <1>1, <1>3, <1>4 DEF AwaitInv, OneRun, InFlight, OfExecuting, OfClosing, Attached, IsCanceled

LEMMA AwaitAtRest ==
  ASSUME Sequential, TypeOK, AwaitInv, LoadWith \/ Reset
  PROVE  /\ task.status # "running"
         /\ (OneRun /\ OfExecuting /\ OfClosing /\ Attached)'
<1>1. InFlight = {} /\ UNCHANGED <<aborted, phase, signal, listening, notified>>
  BY DEF LoadWith, Reset, Disciplined
<1>2. QED
  BY <1>1 DEF AwaitInv, OneRun, InFlight, Executing, RunningHasExecutor, IsRunning,
              OfExecuting, OfClosing, Attached, IsCanceled

\* What a run that settles makes of the task.
LEMMA Outcomes ==
  ASSUME ~Reentrant, TypeOK, NEW c \in Calls
  PROVE  /\ Succeed(c) => /\ Settled(c) /\ ~IsCanceled(c)
                          /\ task' = [status |-> "successful", result |-> c, error |-> task.error]
         /\ ThrowCanceled(c) =>
              /\ Settled(c) /\ IsCanceled(c)
              /\ task' = [status |-> "canceled", result |-> Undefined,
                          error |-> GetCancelationError(c)]
         /\ Throw(c) => /\ Settled(c)
                        /\ task' = [status |-> CaughtStatus(c), result |-> Undefined, error |-> c]
<1>1. GetCancelationError(c) \in Errors /\ c \in Errors
  BY DEF GetCancelationError, Errors
<1>2. QED
  BY <1>1, QuietEffects DEF Succeed, ThrowCanceled, Throw, CaughtStatus

LEMMA AwaitInductive ==
  ASSUME Sequential, ~Reentrant, TypeOK, AwaitInv, [Next]_vars
  PROVE  (OneRun /\ OfExecuting /\ OfClosing /\ Attached)'
<1>1. ASSUME NEW c \in Calls, Succeed(c) \/ ThrowCanceled(c) \/ Throw(c)
      PROVE  (OneRun /\ OfExecuting /\ OfClosing /\ Attached)'
  BY <1>1, Outcomes, AwaitSettle DEF Completed, CaughtStatus
<1>2. CASE UNCHANGED vars
  BY <1>2 DEF vars, AwaitInv, OneRun, InFlight, OfExecuting, OfClosing, Attached, IsCanceled
<1>3. QED
  BY <1>1, <1>2, AwaitStart, AwaitAnswer, AwaitAbort, AwaitAbortListener, AwaitClose,
     AwaitAtRest DEF Next, Caller, Engine

LEMMA AwaitCorrect == ASSUME Sequential, ~Reentrant PROVE Spec => []AwaitInv
<1> DEFINE Rest == OneRun /\ OfExecuting /\ OfClosing /\ Attached
<1>1. Init => Rest
  BY DEF Init, OneRun, InFlight, OfExecuting, OfClosing, Attached
<1>2. TypeOK /\ RunningHasExecutor /\ ListenersAreInFlight /\ Rest /\ [Next]_vars => Rest'
  BY AwaitInductive DEF AwaitInv
<1>3. RunningHasExecutor /\ ListenersAreInFlight /\ Rest => AwaitInv
  BY DEF AwaitInv
<1>4. QED
  BY <1>1, <1>2, <1>3, TypeCorrect, NeverStuckRunning, DetachedWhenDone, PTL DEF Spec

(* Callers who await never have two callbacks of one task executing, even  *)
(* when some of them call run() again after a cancel, while the canceled   *)
(* callback is still on its way.                                           *)
THEOREM OneExecutionAtATime == ASSUME Sequential, ~Reentrant PROVE Spec => []OneExecution
<1>1. AwaitInv => OneExecution
  BY DEF AwaitInv, OneRun, InFlight, OneExecution, Executing
<1>2. QED
  BY <1>1, AwaitCorrect, PTL

-----------------------------------------------------------------------------
(* The fields.  An abort listener that fires while its run closes leaves   *)
(* the result of that run: no other result may be there.                   *)

OwnResult == \A c \in Calls :
               phase[c] = "closing" /\ task.result \in Calls => task.result = c

FieldsInv == FieldsAgree /\ OwnResult

LEMMA FieldsAbortListener ==
  ASSUME ~Reentrant, TypeOK, AwaitInv, FieldsInv, NEW c \in Calls, AbortListener(c)
  PROVE  FieldsInv'
<1>1. /\ task' = [status |-> "canceled", result |-> task.result, error |-> AbortEvent]
      /\ UNCHANGED phase /\ notified' = notified \cup {c}
  BY QuietEffects DEF AbortListener
<1>2. c \in InFlight
  BY DEF AwaitInv, ListenersAreInFlight, AbortListener, ToNotify
<1>3. task.result \in Calls => task.result = c
  <2>1. CASE phase[c] = "executing"
    BY <2>1, CallsAssumption DEF AwaitInv, OfExecuting, CanceledTask, Cleared, Tokens
  <2>2. CASE phase[c] = "closing"
    BY <2>2 DEF FieldsInv, OwnResult
  <2>3. QED
    BY <1>2, <2>1, <2>2 DEF InFlight
<1>4. OwnResult'
  BY <1>1 DEF FieldsInv, OwnResult
<1>5. AbortEvent # Undefined
  BY TokensAssumption
<1>6. FieldsAgree'
  BY <1>1, <1>3, <1>5 DEF FieldsAgree
<1>7. QED
  BY <1>4, <1>6 DEF FieldsInv

LEMMA FieldsSettle ==
  ASSUME ~Reentrant, TypeOK, AwaitInv, NEW c \in Calls,
         Succeed(c) \/ ThrowCanceled(c) \/ Throw(c)
  PROVE  FieldsInv'
<1>1. Settled(c) /\ phase[c] = "executing" /\ c # Undefined /\ Undefined \notin Calls
  BY CallsAssumption DEF Succeed, ThrowCanceled, Throw, Settled, Tokens
<1>2. task'.result \in Calls => task'.result = c
  BY <1>1, Outcomes
<1>3. OwnResult'
  <2>1. \A d \in Calls : phase'[d] = "closing" => d = c
    BY <1>1 DEF AwaitInv, OneRun, InFlight, Settled, TypeOK
  <2>2. QED
    BY <1>2, <2>1 DEF OwnResult
<1>4. FieldsAgree'
  <2>1. CASE Succeed(c)
    <3>1. task.error = Undefined
      BY <1>1, <2>1 DEF Succeed, AwaitInv, OfExecuting, Attached, Cleared
    <3>2. QED
      BY <1>1, <2>1, <3>1, Outcomes DEF FieldsAgree
  <2>2. CASE ThrowCanceled(c)
    <3>1. GetCancelationError(c) # Undefined
      BY TokensAssumption DEF GetCancelationError
    <3>2. QED
      BY <1>1, <2>2, <3>1, Outcomes DEF FieldsAgree
  <2>3. CASE Throw(c)
    BY <1>1, <2>3, Outcomes DEF FieldsAgree, CaughtStatus
  <2>4. QED
    BY <2>1, <2>2, <2>3
<1>5. QED
  BY <1>3, <1>4 DEF FieldsInv

LEMMA FieldsInductive ==
  ASSUME Sequential, ~Reentrant, TypeOK, AwaitInv, FieldsInv, [Next]_vars
  PROVE  FieldsInv'
<1>0. Preloaded # Undefined /\ Undefined \notin Calls /\ Preloaded \notin Calls
  BY CallsAssumption, TokensAssumption DEF Tokens
<1>1. ASSUME NEW c \in Calls, NEW s \in Signals \cup {NoSignal}, NEW force \in BOOLEAN,
             Start(c, s, force)
      PROVE  FieldsInv'
  BY <1>0, <1>1, QuietEffects DEF Cleared, FieldsInv, FieldsAgree, OwnResult
<1>2. ASSUME NEW c \in Calls, RunRefused(c) \/ RunAnswered(c) PROVE FieldsInv'
  <2>1. /\ UNCHANGED <<task, notified>> /\ phase' = [phase EXCEPT ![c] = "done"]
    BY <1>2 DEF RunRefused, RunAnswered, Answer
  <2>2. QED
    BY <2>1 DEF TypeOK, FieldsInv, FieldsAgree, OwnResult
<1>3. ASSUME NEW s \in Signals, Abort(s) PROVE FieldsInv'
  BY <1>3 DEF Abort, FieldsInv, FieldsAgree, OwnResult
<1>4. CASE LoadWith
  BY <1>0, <1>4, QuietEffects DEF PreloadedTask, FieldsInv, FieldsAgree, OwnResult
<1>5. CASE Reset
  BY <1>0, <1>5, QuietEffects DEF Cleared, FieldsInv, FieldsAgree, OwnResult
<1>6. ASSUME NEW c \in Calls, Close(c) PROVE FieldsInv'
  BY <1>6 DEF Close, TypeOK, FieldsInv, FieldsAgree, OwnResult
<1>7. CASE UNCHANGED vars
  BY <1>7 DEF vars, FieldsInv, FieldsAgree, OwnResult
<1>8. QED
  BY <1>1, <1>2, <1>3, <1>4, <1>5, <1>6, <1>7, FieldsAbortListener, FieldsSettle
  DEF Next, Caller, Engine

(* Result and error agree with the status in every state that callers who  *)
(* await can see, and the one result that outlives a cancel is that of the *)
(* run whose abort came while its Disposable closed.                       *)
THEOREM FieldsAlwaysAgree == ASSUME Sequential, ~Reentrant PROVE Spec => []FieldsAgree
<1>1. Init => FieldsInv
  BY CallsAssumption DEF Init, Cleared, FieldsInv, FieldsAgree, OwnResult, Tokens
<1>2. TypeOK /\ AwaitInv /\ FieldsInv /\ [Next]_vars => FieldsInv'
  BY FieldsInductive
<1>3. FieldsInv => FieldsAgree
  BY DEF FieldsInv
<1>4. QED
  BY <1>1, <1>2, <1>3, TypeCorrect, AwaitCorrect, PTL DEF Spec

-----------------------------------------------------------------------------
(* The task of callers who await implements the one-run-at-a-time task of  *)
(* TaskContract: each step of the code is one step of the contract, or     *)
(* leaves the task as it is.                                               *)
THEOREM ContractImplemented == ASSUME Sequential, ~Reentrant PROVE Spec => ImplementsContract
<1> USE DEF Contract!Is, Contract!Becomes
<1>1. Init => Contract!Init
  BY DEF Init, Contract!Init, Cleared
<1>2. TypeOK /\ AwaitInv /\ [Next]_vars => [Contract!Next]_task
  <2> SUFFICES ASSUME TypeOK, AwaitInv, [Next]_vars
               PROVE  Contract!Next \/ UNCHANGED task
    OBVIOUS
  <2>1. ASSUME NEW c \in Calls, NEW s \in Signals \cup {NoSignal}, NEW force \in BOOLEAN,
               Start(c, s, force)
        PROVE  Contract!Run
    BY <2>1, QuietEffects DEF Start, MayStart, IsRunning, Cleared, Contract!Run
  <2>2. ASSUME NEW c \in Calls, RunRefused(c) \/ RunAnswered(c) PROVE UNCHANGED task
    BY <2>2 DEF RunRefused, RunAnswered, Answer
  <2>3. ASSUME LoadWith PROVE Contract!LoadWith
    BY <2>3, QuietEffects, AwaitAtRest DEF PreloadedTask, Contract!LoadWith
  <2>4. ASSUME Reset PROVE Contract!Reset
    BY <2>4, QuietEffects, AwaitAtRest DEF Cleared, Contract!Reset
  <2>5. ASSUME NEW c \in Calls, AbortListener(c)
        PROVE  Contract!Cancel \/ Contract!CancelCompleted
    <3>1. /\ task' = [status |-> "canceled", result |-> task.result, error |-> AbortEvent]
          /\ c \in listening
      BY <2>5, QuietEffects DEF AbortListener, ToNotify
    <3>2. CASE phase[c] = "executing"
      <4>1. task = Cleared("running")
        BY <3>1, <3>2 DEF AwaitInv, OfExecuting, Attached
      <4>2. QED
        BY <3>1, <4>1 DEF Cleared, Contract!Cancel
    <3>3. CASE phase[c] = "closing"
      <4>1. task.status \in {"successful", "failed"}
        BY <3>1, <3>3 DEF AwaitInv, OfClosing, Completed
      <4>2. QED
        BY <3>1, <4>1 DEF Contract!CancelCompleted
    <3>4. QED
      BY <3>1, <3>2, <3>3 DEF AwaitInv, ListenersAreInFlight, InFlight
  <2>6. ASSUME NEW c \in Calls, Settled(c)
        PROVE  task = IF c \in notified THEN CanceledTask ELSE Cleared("running")
    BY <2>6 DEF Settled, AwaitInv, OfExecuting
  <2>7. \A c \in Calls : c \in notified => IsCanceled(c)
    BY DEF AwaitInv, Attached
  <2>8. ASSUME NEW c \in Calls, Succeed(c) PROVE Contract!Succeed
    <3>1. /\ task = Cleared("running")
          /\ task' = [status |-> "successful", result |-> c, error |-> task.error]
      BY <2>6, <2>7, <2>8, Outcomes
    <3>2. QED
      BY <3>1 DEF Cleared, Contract!Succeed
  <2>9. ASSUME NEW c \in Calls, ThrowCanceled(c)
        PROVE  Contract!Cancel \/ UNCHANGED task
    <3>1. task' = [status |-> "canceled", result |-> Undefined,
                   error |-> GetCancelationError(c)]
      BY <2>9, Outcomes
    <3>2. CASE c \in notified
      BY <2>6, <2>9, <3>1, <3>2, Outcomes DEF CanceledTask, GetCancelationError
    <3>3. CASE c \notin notified
      <4>1. task = Cleared("running")
        BY <2>6, <2>9, <3>3, Outcomes
      <4>2. QED
        BY <3>1, <3>3, <4>1 DEF Cleared, GetCancelationError, Contract!Cancel
    <3>4. QED
      BY <3>2, <3>3
  <2>10. ASSUME NEW c \in Calls, Throw(c)
         PROVE  Contract!Fail \/ Contract!Cancel \/ Contract!CanceledRunFails
    <3>1. task' = [status |-> CaughtStatus(c), result |-> Undefined, error |-> c]
      BY <2>10, Outcomes
    <3>2. CASE c \in notified
      <4>1. task.status = "canceled" /\ CaughtStatus(c) = "canceled"
        BY <2>6, <2>7, <2>10, <3>2, Outcomes DEF CanceledTask, CaughtStatus
      <4>2. QED
        BY <3>1, <4>1 DEF Contract!CanceledRunFails
    <3>3. CASE c \notin notified
      <4>1. task.status = "running"
        BY <2>6, <2>10, <3>3, Outcomes DEF Cleared
      <4>2. QED
        BY <3>1, <4>1 DEF CaughtStatus, Contract!Fail, Contract!Cancel
    <3>4. QED
      BY <3>2, <3>3
  <2>11. ASSUME (\E s \in Signals : Abort(s)) \/ (\E c \in Calls : Close(c)) \/ UNCHANGED vars
         PROVE  UNCHANGED task
    BY <2>11 DEF Abort, Close, vars
  <2>12. QED
    BY <2>1, <2>2, <2>3, <2>4, <2>5, <2>8, <2>9, <2>10, <2>11
       DEF Next, Caller, Engine, Contract!Next
<1>3. QED
  BY <1>1, <1>2, TypeCorrect, AwaitCorrect, PTL DEF Spec, ImplementsContract, Contract!Spec
=============================================================================
