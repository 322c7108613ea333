------------------------------ MODULE SagaWorker ------------------------------
(***************************************************************************)
(* SagaWorker of effaced-fastapi: a daemon thread that repeats run_once    *)
(* until it is stopped.  A runner of the saga is one thread here.  The     *)
(* application starts and stops the worker at any time, from one thread,   *)
(* as the lifespan does, or from several: the worker has no lock, so the   *)
(* steps of two calls interleave between any two uses of its fields.       *)
(*                                                                         *)
(* Nobody requeues: SagaRunner's operator is left out.  A thread that is   *)
(* not alive is used again for the next one, whose object replaces it as   *)
(* the one the worker knows; Thread.start always succeeds.                 *)
(***************************************************************************)
EXTENDS SagaRunner

CONSTANTS
    Callers,    \* the application's threads that call start and stop
    NoThread    \* None

ASSUME NoThreadAssumption == NoThread \notin Runners

VARIABLES
    thread,     \* thread[r]: where the drain loop of thread r is, if r is alive
    _thread,    \* the thread that the worker knows
    _stop,      \* the stop signal
    at,         \* at[c]: the statement that caller c executes next
    cancelled   \* threads that an outcome which is no Exception has ended

callVars == <<_thread, _stop, at>>
workerVars == <<thread, callVars, cancelled>>
allVars == <<vars, workerVars>>

\* A thread that was made and never started is not alive, nor is one that has ended.
ThreadPlaces == {"ended", "made", "checking", "passing", "sleeping"}
is_alive(r) == r \in Runners /\ thread[r] \notin {"ended", "made"}
Unstarted(r) == r \in Runners /\ thread[r] = "made"

StartPlaces == {"asking", "clearing", "making", "launching"}
StopPlaces == {"looking", "joining", "joined", "dropping"}

WorkerTypeOK ==
    /\ thread \in [Runners -> ThreadPlaces]
    /\ _thread \in Runners \cup {NoThread}
    /\ _stop \in BOOLEAN
    /\ at \in [Callers -> {"out"} \cup StartPlaces \cup StopPlaces]
    /\ cancelled \subseteq Runners

WorkerInit ==
    /\ Init
    /\ thread = [r \in Runners |-> "ended"]
    /\ _thread = NoThread
    /\ _stop = FALSE
    /\ at = [c \in Callers |-> "out"]
    /\ cancelled = {}

Goto(r, place) == thread' = [thread EXCEPT ![r] = place]

\* A call stands before one statement and goes on to another, or returns or raises ("out").
Moves(c, from, to) ==
    /\ at[c] = from
    /\ at' = [at EXCEPT ![c] = to]
    /\ UNCHANGED vars

-----------------------------------------------------------------------------
(* start.                                                                  *)

\* if self._thread is not None ...
start(c) ==
    /\ Moves(c, "out", IF _thread = NoThread THEN "clearing" ELSE "asking")
    /\ UNCHANGED <<thread, _thread, _stop, cancelled>>

\* ... and self._thread.is_alive(): return.  The second read may find None and raise.
AskAlive(c) ==
    /\ Moves(c, "asking", IF _thread = NoThread \/ is_alive(_thread) THEN "out" ELSE "clearing")
    /\ UNCHANGED <<thread, _thread, _stop, cancelled>>

ClearStop(c) ==
    /\ Moves(c, "clearing", "making")
    /\ _stop' = FALSE
    /\ UNCHANGED <<thread, _thread, cancelled>>

\* The thread of an object that nothing will refer to; which one makes no difference.
Unused == CHOOSE r \in Runners : ~is_alive(r)

MakeThread(c) ==
    /\ Moves(c, "making", "launching")
    /\ \E r \in Runners : ~is_alive(r)
    /\ _thread' = Unused
    /\ Goto(Unused, "made")
    /\ cancelled' = cancelled \ {Unused}
    /\ UNCHANGED _stop

\* self._thread.start(): None, or a thread that was started before, raises.
LaunchThread(c) ==
    /\ Moves(c, "launching", "out")
    /\ IF Unstarted(_thread)
       THEN Goto(_thread, "checking")
       ELSE UNCHANGED thread
    /\ UNCHANGED <<_thread, _stop, cancelled>>

-----------------------------------------------------------------------------
(* stop.                                                                   *)

stop(c) ==
    /\ Moves(c, "out", "looking")
    /\ _stop' = TRUE
    /\ UNCHANGED <<thread, _thread, cancelled>>

LookForThread(c) ==
    /\ Moves(c, "looking", IF _thread = NoThread THEN "out" ELSE "joining")
    /\ UNCHANGED <<thread, _thread, _stop, cancelled>>

\* self._thread.join(timeout) returns, because the thread has ended or because the time
\* is up; it raises when there is no thread or the thread has not been started.
JoinThread(c) ==
    /\ Moves(c, "joining", IF _thread = NoThread \/ Unstarted(_thread) THEN "out" ELSE "joined")
    /\ UNCHANGED <<thread, _thread, _stop, cancelled>>

\* Mutant: the handle is dropped whether the thread has ended or not.
DropAnyhow(c) ==
    /\ Moves(c, "joined", IF _thread = NoThread THEN "out" ELSE "dropping")
    /\ UNCHANGED <<thread, _thread, _stop, cancelled>>

\* if not self._thread.is_alive(), which again may raise.
CheckEnded(c) ==
    /\ Moves(c, "joined", IF _thread = NoThread \/ is_alive(_thread) THEN "out" ELSE "dropping")
    /\ UNCHANGED <<thread, _thread, _stop, cancelled>>

DropThread(c) ==
    /\ Moves(c, "dropping", "out")
    /\ _thread' = NoThread
    /\ UNCHANGED <<thread, _stop, cancelled>>

GoOn(c) ==
    \/ AskAlive(c) \/ ClearStop(c) \/ MakeThread(c) \/ LaunchThread(c)
    \/ LookForThread(c) \/ JoinThread(c) \/ CheckEnded(c) \/ DropThread(c)

-----------------------------------------------------------------------------

\* The process ends, and its daemon threads with it; a new one has a new worker.
Exit ==
    /\ IF \E r \in Runners : pc[r] # "idle"
       THEN \E r \in Runners : Interrupt(r)
       ELSE UNCHANGED vars
    /\ thread' = [r \in Runners |-> "ended"]
    /\ _thread' = NoThread
    /\ _stop' = FALSE
    /\ at' = [c \in Callers |-> "out"]
    /\ cancelled' = {}

-----------------------------------------------------------------------------
(* _drain.                                                                 *)

Check(r) ==
    /\ thread[r] = "checking"
    /\ Goto(r, IF _stop THEN "ended" ELSE "passing")
    /\ UNCHANGED <<vars, callVars, cancelled>>

\* run_once goes on; when it returns a count, the loop checks the signal again.
Pass(r) ==
    /\ thread[r] = "passing"
    /\ RunOnce(r)
    /\ Goto(r, IF pc'[r] = "idle" THEN "checking" ELSE "passing")
    /\ UNCHANGED <<callVars, cancelled>>

Sleep(r) ==
    /\ thread[r] = "passing"
    /\ pc[r] = "idle" /\ Due = {}
    /\ Goto(r, "sleeping")
    /\ UNCHANGED <<vars, callVars, cancelled>>

\* Mutant: an exception of run_once ends the thread.
RaisedThrough(r) ==
    /\ thread[r] = "passing"
    /\ Interrupt(r)
    /\ Goto(r, "ended")
    /\ UNCHANGED <<callVars, cancelled>>

\* An Exception of run_once is logged, and the loop sleeps.
Raised(r) ==
    /\ thread[r] = "passing"
    /\ Interrupt(r)
    /\ Goto(r, "sleeping")
    /\ UNCHANGED <<callVars, cancelled>>

\* A resolver call was cancelled: what run_once raises then is no Exception, so
\* nothing catches it, and the thread ends while the worker still holds it.
Cancelled(r) ==
    /\ thread[r] = "passing"
    /\ \E e \in held[r] : claim[r][e].answer # "none"
    /\ Interrupt(r)
    /\ Goto(r, "ended")
    /\ cancelled' = cancelled \cup {r}
    /\ UNCHANGED callVars

Wake(r) ==
    /\ thread[r] = "sleeping"
    /\ Goto(r, "checking")
    /\ UNCHANGED <<vars, callVars, cancelled>>

Drain(r) == Check(r) \/ Pass(r) \/ Sleep(r) \/ Wake(r)

WorkerNext ==
    \/ Exit
    \/ \E c \in Callers : start(c) \/ stop(c) \/ GoOn(c)
    \/ \E r \in Runners : Drain(r) \/ Raised(r) \/ Cancelled(r)
    \/ /\ \/ \E T \in Transactions : EnqueueTransaction(T)
          \/ \E e \in Entries : GateOpens(e) \/ Expire(e)
       /\ UNCHANGED workerVars

\* The thread and the callers run, gates open with time and retention periods end.
\* Nobody has to call start or to let a pass fail.
WorkerFairness ==
    /\ \A r \in Runners : WF_allVars(Drain(r))
    /\ \A c \in Callers : WF_allVars(GoOn(c))
    /\ \A e \in Entries : WF_allVars(GateOpens(e) /\ lapses' = lapses /\ UNCHANGED workerVars)
    /\ \A e \in Entries : WF_allVars(Expire(e) /\ UNCHANGED workerVars)

WorkerSpec == WorkerInit /\ [][WorkerNext]_allVars /\ WorkerFairness

-----------------------------------------------------------------------------

\* Calls do not overlap: one begins when the one before has returned.
OneCallAtATime == \A c, d \in Callers : at[c] # "out" /\ at[d] # "out" => c = d

\* One worker never drains with two threads at once: a start that finds the loop running
\* is a no-op, also after a stop whose join has timed out, "instead of spawning a second
\* concurrent drain loop" (saga_worker.py:67).  It takes OneCallAtATime.
OneDrainLoop == \A r, s \in Runners : is_alive(r) /\ is_alive(s) => r = s

\* The worker was started, and nobody has stopped it since.  Excluded are a start that
\* found a stopped thread still alive, and a thread that a cancelled call has ended.
Up == _thread # NoThread /\ ~_stop /\ _thread \notin cancelled

\* While a worker is up, every enqueued request comes to an end, its completion
\* recorded or one of its entries abandoned: through failing passes, leases of
\* passes that died, backoff and horizons.
EveryRequestConcludes ==
    <>[]Up => \A e \in Entries :
                 Stored(e) ~> \/ completions[e] > 0
                              \/ \E f \in Siblings(e) : row[f].status = "abandoned"

=============================================================================
