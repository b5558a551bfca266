-------------------------------- MODULE Task --------------------------------
(***************************************************************************)
(* One Task object of the SDK (utils/Task.ts) with the Disposables that    *)
(* its runs create (utils/Disposable.ts).                                  *)
(*                                                                         *)
(* Every operation of the SDK is such a task.  A task is shared mutable    *)
(* state: several callers hold it, each may run, preload or reset it, each *)
(* run may carry an abort signal, and the callback of a run goes on after  *)
(* the task has been marked as canceled.  An action below is a stretch of  *)
(* JavaScript that no other code can interrupt.                            *)
(***************************************************************************)
EXTENDS FiniteSets

CONSTANTS
  Calls,        \* the calls of task.run(), each with the promise it returns
  Signals,      \* the abort signals that callers control
  NoSignal,     \* stands for "new AbortController().signal", which nobody aborts
  Undefined,    \* no result, no error
  Null,         \* the initial cancelationError of a Disposable
  AbortEvent,   \* the event an abort signal dispatches
  AlreadyRunning, \* TaskIsAlreadyRunningError
  Preloaded,    \* the value given to loadWith
  Sequential,   \* callers await the runs in flight before they reset, preload or force
  Reentrant     \* a status listener may reset or preload the task

Tokens == {Undefined, Null, AbortEvent, AlreadyRunning, Preloaded}

ASSUME ModesAssumption == Sequential \in BOOLEAN /\ Reentrant \in BOOLEAN
ASSUME NoSignalAssumption == NoSignal \notin Signals
ASSUME CallsAssumption == Calls \cap Tokens = {}
ASSUME TokensAssumption ==
  /\ Undefined \notin {Null, AbortEvent, AlreadyRunning, Preloaded}
  /\ AbortEvent \notin {Null, AlreadyRunning, Preloaded}
  /\ Preloaded \notin {Null, AlreadyRunning}

VARIABLES
  task,       \* the fields status, result and error of the object
  aborted,    \* the signals that have been aborted
  phase,      \* how far each call of run() has come
  signal,     \* the signal of each started call
  listening,  \* the calls whose Disposable still has its abort listener attached
  notified,   \* the calls whose abort listener has fired
  promise     \* what the promise of each call is settled with

vars == <<task, aborted, phase, signal, listening, notified, promise>>

Statuses  == {"pending", "running", "successful", "failed", "canceled"}
Completed == {"successful", "failed", "canceled"}
Phases    == {"idle", "executing", "closing", "done"}

\* A call stands for the value its callback returns, and for the error it throws.
Results == Calls \cup {Undefined, Preloaded}
Errors  == Calls \cup {Undefined, Null, AbortEvent}
Promises == [state : {"none", "resolved", "rejected"},
             value : Calls \cup Tokens]

Cleared(s) == [status |-> s, result |-> Undefined, error |-> Undefined]

Init ==
  /\ task = Cleared("pending")
  /\ aborted = {}
  /\ phase = [c \in Calls |-> "idle"]
  /\ signal = [c \in Calls |-> NoSignal]
  /\ listening = {}
  /\ notified = {}
  /\ promise = [c \in Calls |-> [state |-> "none", value |-> Undefined]]

Executing == {c \in Calls : phase[c] = "executing"}
InFlight  == {c \in Calls : phase[c] \in {"executing", "closing"}}

-----------------------------------------------------------------------------
(* The fields of the task.  setStatus calls the listeners in the middle of *)
(* the operation that changes the status; what they leave behind is one of *)
(* the states below, and the rest of the operation then runs on that.      *)

PreloadedTask == [status |-> "successful", result |-> Preloaded, error |-> Undefined]

ListenersRun(t) ==
  {t} \cup (IF Reentrant THEN {Cleared("pending"), PreloadedTask} ELSE {})

SetStatus(t, s) ==
  IF t.status = s THEN {t} ELSE ListenersRun([t EXCEPT !.status = s])

IsRunning == task.status = "running"

-----------------------------------------------------------------------------
(* Disposable.                                                             *)

IsCanceled(c) == signal[c] \in aborted

GetCancelationError(c) == IF c \in notified THEN AbortEvent ELSE Null

\* An abort is dispatched to every attached listener before anything else runs.
ToNotify == {c \in listening : IsCanceled(c)}
Quiet    == ToNotify = {}

Abort(s) ==
  /\ Quiet
  /\ s \notin aborted
  /\ aborted' = aborted \cup {s}
  /\ UNCHANGED <<task, phase, signal, listening, notified, promise>>

\* Mutant: the task keeps the signal instead of the event as its error.
AbortListenerKeepsSignal(c) ==
  /\ c \in ToNotify
  /\ \E t \in SetStatus(task, "canceled") : task' = [t EXCEPT !.error = signal[c]]
  /\ notified' = notified \cup {c}
  /\ listening' = listening \ {c}
  /\ UNCHANGED <<aborted, phase, signal, promise>>

\* abortListener, the cancel handler of forceRun, and Disposable.close.
AbortListener(c) ==
  /\ c \in ToNotify
  /\ \E t \in SetStatus(task, "canceled") : task' = [t EXCEPT !.error = AbortEvent]
  /\ notified' = notified \cup {c}
  /\ listening' = listening \ {c}
  /\ UNCHANGED <<aborted, phase, signal, promise>>

\* Mutant: the abort listener stays attached to the signal.
CloseKeepsListener(c) ==
  /\ Quiet
  /\ phase[c] = "closing"
  /\ phase' = [phase EXCEPT ![c] = "done"]
  /\ UNCHANGED <<task, aborted, signal, listening, notified, promise>>

\* Mutant: a Disposable that the abort has closed is not closed again, and the
\* promise of its run hangs.
CloseOnlyListening(c) ==
  /\ Quiet
  /\ phase[c] = "closing"
  /\ c \in listening
  /\ phase' = [phase EXCEPT ![c] = "done"]
  /\ listening' = listening \ {c}
  /\ UNCHANGED <<task, aborted, signal, notified, promise>>

\* The finally of Disposable.run, a few ticks after the callback has settled.
Close(c) ==
  /\ Quiet
  /\ phase[c] = "closing"
  /\ phase' = [phase EXCEPT ![c] = "done"]
  /\ listening' = listening \ {c}
  /\ UNCHANGED <<task, aborted, signal, notified, promise>>

-----------------------------------------------------------------------------
(* run().                                                                  *)

NewCall(c) == Quiet /\ phase[c] = "idle"

\* Reset, preload and forced runs of sequential callers wait for the runs in flight.
Disciplined == Sequential => InFlight = {}

Answer(c, state, value) ==
  /\ phase' = [phase EXCEPT ![c] = "done"]
  /\ promise' = [promise EXCEPT ![c] = [state |-> state, value |-> value]]
  /\ UNCHANGED <<task, aborted, signal, listening, notified>>

RunRefused(c) ==
  /\ NewCall(c)
  /\ IsRunning
  /\ Answer(c, "rejected", AlreadyRunning)

\* Mutant: run() only answers from the cache after a success.
MayStartUnlessSuccessful(force) == ~IsRunning /\ (task.status # "successful" \/ force)

MayStart(force) == ~IsRunning /\ (task.status = "pending" \/ force)

\* Mutant: a forced run keeps the result and the error of the run before.
StartUncleared(c, s, force) ==
  /\ NewCall(c)
  /\ MayStart(force)
  /\ force => Disciplined
  /\ task' \in SetStatus(task, "running")
  /\ phase' = [phase EXCEPT ![c] = "executing"]
  /\ signal' = [signal EXCEPT ![c] = s]
  /\ listening' = IF s \in aborted THEN listening ELSE listening \cup {c}
  /\ UNCHANGED <<aborted, notified, promise>>

\* forceRun up to the first await of the callback.
Start(c, s, force) ==
  /\ NewCall(c)
  /\ MayStart(force)
  /\ force => Disciplined
  /\ \E t \in SetStatus(task, "running") :
       task' = [t EXCEPT !.result = Undefined, !.error = Undefined]
  /\ phase' = [phase EXCEPT ![c] = "executing"]
  /\ signal' = [signal EXCEPT ![c] = s]
  \* A listener added to a signal that is already aborted never fires.
  /\ listening' = IF s \in aborted THEN listening ELSE listening \cup {c}
  /\ UNCHANGED <<aborted, notified, promise>>

\* Mutant: every completed task answers with its result.
RunAnsweredWithResult(c) ==
  /\ NewCall(c)
  /\ task.status \in Completed
  /\ Answer(c, "resolved", task.result)

RunAnswered(c) ==
  /\ NewCall(c)
  /\ task.status \in Completed
  /\ IF task.status = "successful" THEN Answer(c, "resolved", task.result)
                                   ELSE Answer(c, "rejected", task.error)

Settled(c) ==
  /\ Quiet
  /\ phase[c] = "executing"
  /\ phase' = [phase EXCEPT ![c] = "closing"]
  /\ UNCHANGED <<aborted, signal, listening, notified>>

\* Mutant: a failure leaves the status as it is.
CaughtStatusUnlessCanceled(c) == IF IsCanceled(c) THEN "canceled" ELSE task.status

\* Mutant: the status does not tell a cancel from a failure.
CaughtStatusFailed(c) == "failed"

\* The catch block of forceRun.
CaughtStatus(c) == IF IsCanceled(c) THEN "canceled" ELSE "failed"

Catch(c, e) ==
  \E t \in SetStatus([task EXCEPT !.error = e, !.result = Undefined], CaughtStatus(c)) :
    /\ task' = t
    /\ promise' = [promise EXCEPT ![c] = [state |-> "rejected", value |-> t.error]]

\* Mutant: no throwIfCanceled once the callback has returned.
SucceedUnchecked(c) ==
  /\ Settled(c)
  /\ \E t \in SetStatus([task EXCEPT !.result = c], "successful") :
       /\ task' = t
       /\ promise' = [promise EXCEPT ![c] = [state |-> "resolved", value |-> t.result]]

\* The callback returned its value: "this.result = await ..." and what follows.
Succeed(c) ==
  /\ Settled(c)
  /\ ~IsCanceled(c)
  /\ \E t \in SetStatus([task EXCEPT !.result = c], "successful") :
       /\ task' = t
       /\ promise' = [promise EXCEPT ![c] = [state |-> "resolved", value |-> t.result]]

\* throwIfCanceled, by the callback or once it has returned.
ThrowCanceled(c) ==
  /\ Settled(c)
  /\ IsCanceled(c)
  /\ Catch(c, GetCancelationError(c))

\* The callback threw an error of its own.
Throw(c) ==
  /\ Settled(c)
  /\ Catch(c, c)

-----------------------------------------------------------------------------
(* loadWith() and reset().                                                 *)

LoadWith ==
  /\ Quiet
  /\ Disciplined
  /\ \E t \in SetStatus(task, "successful") :
       task' = [t EXCEPT !.result = Preloaded, !.error = Undefined]
  /\ UNCHANGED <<aborted, phase, signal, listening, notified, promise>>

Reset ==
  /\ Quiet
  /\ Disciplined
  /\ \E t \in SetStatus(task, "pending") :
       task' = [t EXCEPT !.result = Undefined, !.error = Undefined]
  /\ UNCHANGED <<aborted, phase, signal, listening, notified, promise>>

-----------------------------------------------------------------------------
\* The steps the JavaScript engine takes on its own once a run has started.
Engine(c) ==
  \/ AbortListener(c)
  \/ Succeed(c)
  \/ ThrowCanceled(c)
  \/ Throw(c)
  \/ Close(c)

\* The steps that callers decide on.
Caller ==
  \/ \E c \in Calls, s \in Signals \cup {NoSignal}, force \in BOOLEAN : Start(c, s, force)
  \/ \E c \in Calls : RunRefused(c) \/ RunAnswered(c)
  \/ \E s \in Signals : Abort(s)
  \/ LoadWith
  \/ Reset

Next == Caller \/ \E c \in Calls : Engine(c)

Spec == Init /\ [][Next]_vars

(* Callbacks settle: every request they await is answered or times out.    *)
FairSpec == Spec /\ \A c \in Calls : WF_vars(Engine(c))

-----------------------------------------------------------------------------
TypeOK ==
  /\ task \in [status : Statuses, result : Results, error : Errors]
  /\ aborted \subseteq Signals
  /\ phase \in [Calls -> Phases]
  /\ signal \in [Calls -> Signals \cup {NoSignal}]
  /\ listening \subseteq Calls
  /\ notified \subseteq Calls
  /\ promise \in [Calls -> Promises]
-----------------------------------------------------------------------------
(* Callers that await the runs in flight before they reset, preload or     *)
(* force the task never have two callbacks executing at once, however many *)
(* of them call run(): after a cancel the callback goes on while the       *)
(* status is no longer "running", and only the other branches of run()     *)
(* keep a second execution from starting.                                  *)
OneExecution == \A c, d \in Executing : c = d

(* A task that says it is running has a callback that will settle and      *)
(* change that: no mix of cancels, resets, preloads and forced runs leaves *)
(* a task that refuses every further run as "already running".             *)
RunningHasExecutor == IsRunning => Executing # {}

IsReal(v) == v = Preloaded \/ \E d \in Calls : v = d /\ promise[d].state = "resolved"

(* Every promise run() resolves carries a preloaded value, or the value of *)
(* a run that itself resolved: a caller answered from the cache never sees *)
(* the value of a canceled or failed run, even when runs overlap.          *)
AnswersAreReal ==
  \A c \in Calls : promise[c].state = "resolved" => IsReal(promise[c].value)

(* Once the signal of a run is aborted, before the run or at any time      *)
(* while its callback executes, its promise rejects, even if the callback  *)
(* ignored the signal and returned a value.                                *)
CanceledRunRejects ==
  [][\A c \in Calls :
       phase[c] = "executing" /\ phase'[c] = "closing" /\ IsCanceled(c)
         => promise'[c].state = "rejected"]_vars

(* An abort that comes when no run is in flight leaves the task alone: a   *)
(* signal that outlives the run it was given to cannot turn a completed    *)
(* task into a canceled one.                                               *)
LateAbortIsHarmless ==
  [][InFlight = {} /\ task'.status = "canceled" => task' = task]_vars

(* The three fields agree for callers who await: a result exactly on       *)
(* success, an error exactly on failure and cancel.  The exception is the  *)
(* abort that comes between the end of the callback and the close of the   *)
(* Disposable: it marks the task as canceled and leaves its result.        *)
FieldsAgree ==
  /\ task.status \in {"pending", "running"} =>
       task.result = Undefined /\ task.error = Undefined
  /\ task.status = "successful" => task.result # Undefined /\ task.error = Undefined
  /\ task.status = "failed" => task.result = Undefined /\ task.error # Undefined
  /\ task.status = "canceled" =>
       /\ task.error # Undefined
       /\ task.result \in Calls => task.error = AbortEvent /\ task.result \in notified

(* A task does not stay "running": the run in flight settles, is canceled  *)
(* or is reset.                                                            *)
RunningEnds == IsRunning ~> ~IsRunning

(* Every promise run() returns settles.                                    *)
EveryRunSettles == \A c \in Calls : phase[c] = "executing" ~> phase[c] = "done"

(* Callers who await get the one-run-at-a-time task of TaskContract.       *)
Contract == INSTANCE TaskContract WITH
  Values   <- Calls \cup {Preloaded},
  Failures <- Calls

ImplementsContract == Contract!Spec
=============================================================================
