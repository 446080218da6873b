------------------------------- MODULE Commands -------------------------------
(***************************************************************************)
(* One command of tools/shell_executor.py at a time, with the limits of    *)
(* tools/resource_limiter.py or without: the process, the task that        *)
(* watches it and the caller that waits for it with a deadline.            *)
(*                                                                         *)
(* A deadline may pass at any time.  The process is the one that was       *)
(* started: with limits a shell, whose children nobody kills, and which    *)
(* may hold its pipes when it is gone.  What a command is, the amounts     *)
(* that are measured, the output and the limits that were exceeded, which  *)
(* ToolResult has no field for, are left out.                              *)
(***************************************************************************)
EXTENDS Integers

CONSTANT MaxCommands    \* bound on the commands of a behaviour

VARIABLES process,     \* what has become of it; "doomed" is killed and not dead yet
          held,        \* whether the pipes are still open in it or its children
          returncode,  \* Unreaped until the event loop has seen the end
          caller,      \* where execute stands
          limited,     \* whether the executor has a limiter
          deadline,    \* whether the wait has one
          watcher,     \* where monitor_process stands
          result,      \* the exit_code handed back
          commands

commandVars == <<process, held, returncode, caller, limited, deadline, watcher, result, commands>>

Unreaped == 100
Killed == -9

CommandInit == /\ process = "none" /\ held = FALSE /\ returncode = Unreaped /\ caller = "idle"
               /\ limited = FALSE /\ deadline = FALSE /\ watcher = "off"
               /\ result = Unreaped /\ commands = 0

CountCommand == commands < MaxCommands /\ commands' = commands + 1

\* execute turns down what is not in the allowlist, has a dangerous argument
\* or would run outside the project; what cannot be started ends the same way.
TurnDown == /\ caller \in {"idle", "answered"} /\ CountCommand /\ caller' = "answered"
            /\ result' = 1 /\ process' = "none" /\ returncode' = Unreaped
            /\ watcher' = "off" /\ held' = FALSE /\ UNCHANGED <<limited, deadline>>

\* execute, execute_with_limits: with a limiter the wait always has a deadline,
\* its network_timeout; without, only when the caller gave one.
Execute(lim, timeout) ==
  /\ caller \in {"idle", "answered"} /\ process # "running" /\ CountCommand
  /\ process' = "running" /\ returncode' = Unreaped /\ held' = TRUE
  /\ caller' = "communicating" /\ limited' = lim /\ deadline' = (lim \/ timeout)
  /\ watcher' = IF lim THEN "polling" ELSE "off"
  /\ result' = Unreaped

\* The process ends, of itself or because it was killed; those that have its
\* pipes close them; the event loop takes note of the end.
Exit(code) == /\ process = "running" /\ process' = (IF code = 0 THEN "exited" ELSE "failed")
              /\ UNCHANGED <<held, returncode, caller, limited, deadline, watcher, result, commands>>
Die == /\ process = "doomed" /\ process' = "killed"
       /\ UNCHANGED <<held, returncode, caller, limited, deadline, watcher, result, commands>>
\* get_preexec_fn: the limits the operating system keeps, by killing too.
SetLimits == /\ process = "running" /\ limited /\ process' = "killed"
             /\ UNCHANGED <<held, returncode, caller, limited, deadline, watcher, result, commands>>
ClosePipes == /\ process \in {"exited", "failed", "killed"} /\ held /\ held' = FALSE
              /\ UNCHANGED <<process, returncode, caller, limited, deadline, watcher, result, commands>>
Reap == /\ process \in {"exited", "failed", "killed"} /\ returncode = Unreaped
        /\ returncode' = (CASE process = "exited" -> 0 [] process = "failed" -> 1 [] OTHER -> Killed)
        /\ UNCHANGED <<process, held, caller, limited, deadline, watcher, result, commands>>

\* The transport is closed once the process is over and its pipes are: kill
\* then raises ProcessLookupError.
Closed == returncode # Unreaped /\ ~held

\* Mutant of Kill: the process is asked to end, and pays no attention.
Kill_Ask == process' = process
\* kill while the transport is open; it does nothing to a process that has ended.
Kill == process' = IF process = "running" THEN "doomed" ELSE process

\* monitor_process: a limit was exceeded ...
Exceed == /\ watcher = "polling" /\ returncode = Unreaped
          /\ Kill /\ watcher' = "done"
          /\ UNCHANGED <<held, returncode, caller, limited, deadline, result, commands>>
\* ... or the process is over.
StopPolling == /\ watcher = "polling" /\ returncode # Unreaped /\ watcher' = "done"
               /\ UNCHANGED <<process, held, returncode, caller, limited, deadline, result, commands>>

\* communicate returns once the process is over and its pipes are closed.
Communicated == /\ caller = "communicating" /\ Closed
                /\ IF limited THEN caller' = "joining" /\ UNCHANGED result
                   ELSE caller' = "answered" /\ result' = returncode
                /\ UNCHANGED <<process, held, returncode, limited, deadline, watcher, commands>>

\* The deadline passes: the process is killed, and waited for for five seconds.
\* The end may have been noted while the transport is not closed yet.
TimeOut == /\ caller = "communicating" /\ deadline /\ Kill /\ caller' = "reaping"
           /\ UNCHANGED <<held, returncode, limited, deadline, watcher, result, commands>>

\* It passes, or the five seconds do, just when the transport was closed: kill
\* raises, execute answers 1 for any exception, and the watcher is left to see
\* for itself that the process is over.
KillRaises == /\ (caller = "communicating" /\ deadline) \/ caller = "reaping"
              /\ Closed /\ caller' = "answered" /\ result' = 1 /\ watcher' = "off"
              /\ UNCHANGED <<process, held, returncode, limited, deadline, commands>>

\* The wait for the end is over, also after five seconds without one: they are
\* enough for the event loop to note that a process has ended.
Reaped == /\ caller = "reaping" /\ (returncode # Unreaped \/ process \in {"running", "doomed"})
          /\ IF returncode = Unreaped THEN Kill ELSE UNCHANGED process
          /\ IF limited THEN caller' = "joining" /\ UNCHANGED result
             ELSE caller' = "answered" /\ result' = 124
          /\ UNCHANGED <<held, returncode, limited, deadline, watcher, commands>>

\* The watcher is waited for for five seconds, and cancelled when it is still
\* polling then.  `process.returncode or 0'
Join == /\ caller = "joining"
        /\ watcher = "polling" => returncode = Unreaped
        /\ result' = (IF returncode = Unreaped THEN 0 ELSE returncode)
        /\ watcher' = "off" /\ caller' = "answered"
        /\ UNCHANGED <<process, held, returncode, limited, deadline, commands>>

CommandNext == \/ TurnDown \/ \E lim, timeout \in BOOLEAN : Execute(lim, timeout)
               \/ (\E code \in {0, 1} : Exit(code)) \/ Die \/ SetLimits \/ ClosePipes \/ Reap
               \/ Exceed \/ StopPolling
               \/ Communicated \/ TimeOut \/ KillRaises \/ Reaped \/ Join

CommandSpec == CommandInit /\ [][CommandNext]_commandVars
-----------------------------------------------------------------------------
\* Whichever of the process, the watcher and the deadline comes first, the
\* process that was started has been told to end when there is an answer, and
\* 0 is answered of a process that ended with success, or of one with limits
\* that was killed (an exit status nobody has seen counts as 0), and a failure
\* with its own code or that of a deadline.  The answer may be worse than the
\* truth: 1 is also that of any process whose deadline passes just as it ends.
AnswerIsHonest ==
  caller = "answered" =>
    /\ process # "running"
    /\ result = 0 => process = "exited" \/ (limited /\ process \in {"doomed", "killed"})
    /\ process = "failed" => result \in {1, 124}
=============================================================================
