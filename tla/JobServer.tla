----------------------------- MODULE JobServer -----------------------------
(***************************************************************************)
(* The daemon that runs the jobs: how a tick starts and ends, whatever job *)
(* it is of.  The schedule starts ticks, and so do HTTP requests, of which *)
(* only one per job is served at a time.  A tick captures the console of   *)
(* the whole process while it runs, and leaves an entry in its job's log,  *)
(* the only memory of the daemon.                                          *)
(***************************************************************************)
EXTENDS Integers, Sequences

CONSTANTS
    Jobs,
    Ticks,          \* ticks that may run at the same time
    JobOf,          \* the job each of them runs
    MAX_ENTRIES     \* 10 in run_log.ts

ASSUME JobServerAssumption ==
    /\ JobOf \in [Ticks -> Jobs]
    /\ MAX_ENTRIES \in Nat \ {0}
    /\ "stdout" \notin Ticks

VARIABLES
    RUNNING,        \* the mutex of each job
    console,        \* where console.log writes: a tick's sink, or stdout
    runs,           \* who started each tick, and the console it found
    buffers,        \* the run log
    crossed         \* history: a tick ended before one that started after it

serverVars == <<RUNNING, console, runs, buffers, crossed>>

-----------------------------------------------------------------------------
NotRunning == [by |-> "nobody", saved |-> "stdout"]

Started(k) == runs[k] # NotRunning

Triggered(k) == runs[k].by = "trigger"

\* Of the log's entries, the routes they say were disabled; the oldest goes.
logRun(buffer, entry) ==
    LET longer == Append(buffer, entry)
    IN IF Len(longer) > MAX_ENTRIES THEN Tail(longer) ELSE longer

\* Mutated form: a scheduled tick that ends frees the mutex as well.
free_always(k, ok) == [RUNNING EXCEPT ![JobOf[k]] = FALSE]

\* Only the request that took the mutex frees it, whatever came of its tick.
Freed(k, ok) ==
    IF Triggered(k) THEN [RUNNING EXCEPT ![JobOf[k]] = FALSE] ELSE RUNNING

\* Mutated form: the console is restored only when the tick did not throw.
restore_after_success(k, ok) == IF ok THEN runs[k].saved ELSE console

\* .finally: what the tick found is restored, whether it is ok or threw.
Restored(k, ok) == runs[k].saved

-----------------------------------------------------------------------------
ServerInit ==
    /\ RUNNING = [j \in Jobs |-> FALSE]
    /\ console = "stdout"
    /\ runs = [k \in Ticks |-> NotRunning]
    /\ buffers = [j \in Jobs |-> << >>]
    /\ crossed = FALSE

\* A request is answered 409 while another one's tick is running; the schedule
\* neither looks at the mutex nor takes it.
Begin(k, by) ==
    /\ ~Started(k)
    /\ by = "trigger" => ~RUNNING[JobOf[k]]
    /\ RUNNING' = IF by = "trigger" THEN [RUNNING EXCEPT ![JobOf[k]] = TRUE]
                                    ELSE RUNNING
    /\ runs' = [runs EXCEPT ![k] = [by |-> by, saved |-> console]]
    /\ console' = k
    /\ UNCHANGED <<buffers, crossed>>

\* An entry is logged, also of a tick that threw.
End(k, ok, entry) ==
    /\ Started(k)
    /\ RUNNING' = Freed(k, ok)
    /\ console' = Restored(k, ok)
    /\ runs' = [runs EXCEPT ![k] = NotRunning]
    /\ buffers' = [buffers EXCEPT ![JobOf[k]] = logRun(@, entry)]
    /\ crossed' = (crossed \/ console # k)

\* The process is stopped and started again.
ServerRestart ==
    /\ RUNNING' = [j \in Jobs |-> FALSE]
    /\ console' = "stdout"
    /\ runs' = [k \in Ticks |-> NotRunning]
    /\ buffers' = [j \in Jobs |-> << >>]
    /\ crossed' = FALSE

-----------------------------------------------------------------------------
\* The mutex is held exactly while a requested tick of the job runs, and by one
\* tick only, whatever scheduled ticks overlap with it, throw or end.
MutexHeldByOneTrigger ==
    \A j \in Jobs :
        /\ RUNNING[j] <=> \E k \in Ticks : Triggered(k) /\ JobOf[k] = j
        /\ \A k1, k2 \in Ticks :
              /\ Triggered(k1) /\ JobOf[k1] = j
              /\ Triggered(k2) /\ JobOf[k2] = j
              => k1 = k2

\* As long as ticks that overlap end in the reverse order in which they
\* started, the console is stdout when none runs and a running tick's sink
\* otherwise, also after ticks that threw.  (Of two ticks that end in the order
\* in which they started, the later restores the sink of the other for good.)
ConsoleRestored ==
    ~crossed => IF \E k \in Ticks : Started(k)
                THEN console \in Ticks /\ Started(console)
                ELSE console = "stdout"
=============================================================================
