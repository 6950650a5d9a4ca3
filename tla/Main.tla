-------------------------------- MODULE Main --------------------------------
(***************************************************************************)
(* main() of ndppd.cc: the configuration is loaded, the process becomes a  *)
(* daemon, the interfaces are opened, and the loop runs until a signal or  *)
(* an error of poll_all.                                                   *)
(***************************************************************************)
EXTENDS Startup, MainClock

VARIABLES
  daemon,     \* the option -d
  process,    \* "none", "main", "loop", "exited"
  status,     \* the exit status of the process
  launcher,   \* what the program that started it sees: "waits" or the status
  running     \* cleared by exit_ndppd

mainVars == <<daemon, process, status, launcher, running>>
vars == <<parserVars, startupVars, clockVars, mainVars>>

Init ==
  /\ ParserInit
  /\ StartupInit
  /\ ClockInit
  /\ daemon = FALSE
  /\ process = "none"
  /\ status = "0"
  /\ launcher = "waits"
  /\ running = TRUE

\* The process ends; without -d the launcher sees its status.
Exit(code) ==
  /\ process' = "exited"
  /\ status' = code
  /\ launcher' = IF launcher = "waits" THEN code ELSE launcher
  /\ UNCHANGED <<daemon, running>>

-----------------------------------------------------------------------------
Edit == Writer /\ UNCHANGED <<startupVars, clockVars, mainVars>>

\* The daemon is started.
Launch ==
  /\ process = "none"
  /\ Load
  /\ process' = "main"
  /\ UNCHANGED <<daemon, status, launcher, running, startupVars, clockVars>>

Parse == process = "main" /\ Parser /\ UNCHANGED <<startupVars, clockVars, mainVars>>

\* The option -d is looked at for the first time after load_config.
LoadConfig ==
  /\ process = "main"
  /\ load_config
  /\ daemon' \in BOOLEAN
  /\ UNCHANGED <<process, status, launcher, running, clockVars>>

\* daemonize: the parent exits with 0.
Daemonize ==
  /\ process = "main" /\ stage = "loaded"
  /\ daemon /\ launcher = "waits"
  /\ launcher' = "0"
  /\ UNCHANGED <<daemon, process, status, running, parserVars, startupVars, clockVars>>

\* It fails: fork, or setsid and chdir in the child.
DaemonizeFails ==
  /\ process = "main" /\ stage = "loaded"
  /\ daemon /\ launcher = "waits"
  /\ \E forked \in BOOLEAN : launcher' = IF forked THEN "0" ELSE "1"
  /\ process' = "exited"
  /\ status' = "1"
  /\ UNCHANGED <<daemon, running, parserVars, startupVars, clockVars>>

Configure ==
  /\ process = "main"
  /\ daemon => launcher # "waits"
  /\ configure
  /\ UNCHANGED <<clockVars, mainVars>>

\* Mutant: the error is not passed on.
Refuse_quietly ==
  /\ process = "main" /\ stage = "failed"
  /\ Exit("0")
  /\ UNCHANGED <<parserVars, startupVars, clockVars>>

\* load_config or configure returned false.
Refuse ==
  /\ process = "main" /\ stage = "failed"
  /\ Exit("-1")
  /\ UNCHANGED <<parserVars, startupVars, clockVars>>

\* Mutant: running is set where the loop begins.
EnterLoop_running ==
  /\ process = "main" /\ stage = "ready"
  /\ process' = "loop"
  /\ t1' = wall /\ start' = wall
  /\ running' = TRUE
  /\ UNCHANGED <<wall, measured, jumps, daemon, status, launcher, parserVars, startupVars>>

\* The pidfile is written, the clock is read for the first time.
EnterLoop ==
  /\ process = "main" /\ stage = "ready"
  /\ process' = "loop"
  /\ t1' = wall /\ start' = wall
  /\ UNCHANGED <<wall, measured, jumps, daemon, status, launcher, running, parserVars, startupVars>>

\* A turn of the loop, in which the clock may be set as well.
Loop ==
  /\ process = "loop" /\ running
  /\ ClockNext
  /\ UNCHANGED <<parserVars, startupVars, mainVars>>

\* The loop ends: running is cleared, or poll_all fails.
LeaveLoop ==
  /\ process = "loop"
  /\ Exit("0")
  /\ UNCHANGED <<parserVars, startupVars, clockVars>>

\* SIGINT or SIGTERM, at any time; one that arrives while the file is parsed is
\* not different from one that arrives when it is read.
exit_ndppd ==
  /\ process \in {"main", "loop"} /\ stage # "file"
  /\ running
  /\ running' = FALSE
  /\ UNCHANGED <<daemon, process, status, launcher, parserVars, startupVars, clockVars>>

Works == Parse \/ LoadConfig \/ Daemonize \/ Configure \/ Refuse \/ EnterLoop
Next == Edit \/ Launch \/ Works \/ DaemonizeFails \/ Loop \/ LeaveLoop \/ exit_ndppd

Spec == Init /\ [][Next]_vars

\* The process runs on, and poll_all returns at least every 50 ms and when a
\* signal arrives.
FairSpec ==
  Spec /\ WF_vars(Works) /\ WF_vars(process = "loop" /\ ~running /\ LeaveLoop)

-----------------------------------------------------------------------------
(***************************************************************************)
(* Properties.                                                             *)
(***************************************************************************)
\* A launcher that waits for the end of the process learns how it went, and the
\* process ends with an error if and only if it never reached its loop.
StatusTellsFailure ==
  process = "exited" =>
    /\ ~daemon => launcher = status
    /\ status = "0" <=> stage = "ready"

\* A signal ends the daemon, also one that arrives while it still reads its
\* configuration (exit_ndppd and the condition of the loop).
SignalStops == ~running ~> process = "exited"
=============================================================================
