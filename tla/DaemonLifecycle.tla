--------------------------- MODULE DaemonLifecycle ---------------------------
(***************************************************************************)
(* The process around the poll jobs: Daemon, AsyncioScheduler and _serve.  *)
(* A signal starts a task that runs Daemon.shutdown: it sets the events,   *)
(* then waits for the job loops.  The events wake the main coroutine too,  *)
(* whose own call of Daemon.shutdown returns at once; it closes the cache  *)
(* and the store and returns, and asyncio.run cancels every task left, the *)
(* draining one included, long before its time budget would run out.  The  *)
(* process has then stopped for good, with exit code 0; one that died is   *)
(* started again by its supervisor (docker-compose.yml, restart:           *)
(* on-failure), a stopped one only by the operator.                        *)
(*                                                                         *)
(* Platforms without add_signal_handler are not modelled.                  *)
(***************************************************************************)
EXTENDS PollLoop

VARIABLES
  main,        \* where _serve stands; "stopped": it returned, "dead": it was killed
  drain,       \* the shutdown task of the signal handler
  over         \* jobs whose loop has returned

lifeVars == <<main, drain, over>>

LifeTypeOK ==
  /\ main \in {"serving", "leaving", "cacheClosed", "exiting", "stopped", "dead"}
  /\ drain \in {"none", "created", "waiting", "done"}
  /\ over \subseteq Jobs

LifeInit == main = "serving" /\ drain = "none" /\ over = {}

Stopping == drain \in {"waiting", "done"}

Alive == main \notin {"stopped", "dead"}

(***************************************************************************)
(* _job_loop: a cycle per cadence tick until the shutdown event is set; an *)
(* exception of a cycle does not end the loop.                             *)
(***************************************************************************)
LoopStartsCycle(j) ==
  /\ Alive /\ ~Stopping /\ j \notin over
  /\ StartCycle(j)
  /\ UNCHANGED lifeVars

LoopRunsCycle(j) ==
  /\ Alive
  /\ CycleStep(j)
  /\ UNCHANGED lifeVars

LoopReturns(j) ==
  /\ Alive /\ Stopping /\ j \notin over /\ job[j].at = "idle"
  /\ over' = over \cup {j}
  /\ UNCHANGED <<pollVars, main, drain>>

(***************************************************************************)
(* SIGTERM or SIGINT.  A later signal finds the event set and does nothing.*)
(***************************************************************************)
Signal ==
  /\ main = "serving" /\ drain = "none"
  /\ drain' = "created" /\ Mishap
  /\ UNCHANGED <<job, tables, world, conns, main, over>>

\* Mutant: the task is collected before it runs, for want of a reference.
ShutdownCollected ==
  /\ drain = "created" /\ drain' \in {"waiting", "none"}
  /\ UNCHANGED <<pollVars, main, over>>

ShutdownBegins ==
  /\ drain = "created" /\ drain' = "waiting"
  /\ UNCHANGED <<pollVars, main, over>>

ShutdownDone ==
  /\ drain = "waiting" /\ over = Jobs
  /\ drain' = "done"
  /\ UNCHANGED <<pollVars, main, over>>

(***************************************************************************)
(* The main coroutine.                                                     *)
(***************************************************************************)
MainWakes ==
  /\ main = "serving" /\ Stopping
  /\ main' = "leaving"
  /\ UNCHANGED <<pollVars, drain, over>>

CloseCache ==
  /\ main = "leaving" /\ main' = "cacheClosed"
  /\ cacheOpen' = FALSE
  /\ UNCHANGED <<job, tables, world, storeOpen, mishaps, drain, over>>

CloseStore ==
  /\ main = "cacheClosed" /\ main' = "exiting"
  /\ storeOpen' = FALSE
  /\ UNCHANGED <<job, tables, world, cacheOpen, mishaps, drain, over>>

\* Whatever a cycle was awaiting is cancelled; an exception handler for
\* Exception does not see it.
ExitCancels ==
  /\ main = "exiting" /\ main' = "stopped"
  /\ job' = [j \in Jobs |-> Idle]
  /\ drain' = "none" /\ over' = Jobs
  /\ UNCHANGED <<tables, world, conns, mishaps>>

(***************************************************************************)
(* The process dies at any point, with what it had in memory.              *)
(***************************************************************************)
Dies ==
  /\ Alive /\ Mishap
  /\ main' = "dead" /\ drain' = "none" /\ over' = Jobs
  /\ job' = [j \in Jobs |-> Idle]
  /\ storeOpen' = FALSE /\ cacheOpen' = FALSE
  /\ UNCHANGED <<tables, world>>

Boot(from) ==
  /\ main = from /\ main' = "serving"
  /\ over' = {}
  /\ storeOpen' = TRUE /\ cacheOpen' = TRUE
  /\ UNCHANGED <<job, tables, world, mishaps, drain>>

Restart == Boot("dead")      \* the supervisor

Start == Boot("stopped")     \* the operator

LoopStep(j) == LoopStartsCycle(j) \/ LoopRunsCycle(j) \/ LoopReturns(j)

ShutdownStep ==
  ShutdownBegins \/ ShutdownDone \/ MainWakes \/ CloseCache \/ CloseStore \/ ExitCancels
==============================================================================
