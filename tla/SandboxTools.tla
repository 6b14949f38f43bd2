---------------------------- MODULE SandboxTools ----------------------------
(***************************************************************************)
(* The tools an agent calls on one leased sandbox: execute_code (through   *)
(* acas_toolkit.executor.execute), run_python, run_shell and run_pytest.   *)
(*                                                                         *)
(* A call is a request to write a file, where the tool writes one, and a   *)
(* request to execute a command, which the sandbox runs as a process.      *)
(* Calls overlap.  Each request may raise, before or after it has had its  *)
(* effect: a process whose caller saw an exception may still be running.   *)
(* The sandbox may be released while calls are under way.                  *)
(***************************************************************************)
EXTENDS Integers

CONSTANTS
    Calls,     \* tool calls; each has source code of its own, named like it
    Limits,    \* values of timeout_s, in seconds, other than None
    NoLimit,   \* timeout_s is None
    Codes,     \* exit codes programs choose
    Stubborn,  \* calls whose program ignores SIGTERM
    Snippet,   \* the file /tmp/snippet.py
    NoCode

ASSUME CallAssumption ==
    /\ Snippet \notin Calls /\ NoCode \notin Calls
    /\ Stubborn \subseteq Calls
ASSUME LimitAssumption == Limits \subseteq Nat /\ NoLimit \notin Nat
ASSUME CodeAssumption == Codes \subseteq 0..255

VARIABLES
    up,      \* the sandbox exists
    files,   \* /tmp of the sandbox: the source code in each file
    tool,    \* the tool of each call
    limit,   \* request.timeout_s
    pc,      \* how far the call is
    result,  \* what the call returned
    proc,    \* the call's process in the sandbox
    ran,     \* ghost: the source code the process has read
    fate,    \* ghost: how the process ended
    exit     \* the exit code the service reports

call == <<tool, limit, pc, result>>
process == <<proc, ran, fate, exit>>
vars == <<up, files, tool, limit, pc, result, proc, ran, fate, exit>>

Tools == {"none", "execute_code", "run_python", "shell"}

\* The fields of types.ExecStatus that occur, and what a tool without an
\* ExecResult does: return its text or let the exception through.
Statuses == {"ok", "nonzero_exit", "timeout", "oom", "executor_crash", "denied"}
Results == Statuses \cup {"none", "text", "raised"}

\* Every execute() has a path of its own (uuid4): /tmp/exec_<call>.py.
Paths == Calls \cup {Snippet}

Init ==
    /\ up = TRUE
    /\ files = [p \in Paths |-> NoCode]
    /\ tool = [c \in Calls |-> "none"]
    /\ limit = [c \in Calls |-> NoLimit]
    /\ pc = [c \in Calls |-> "idle"]
    /\ result = [c \in Calls |-> "none"]
    /\ proc = [c \in Calls |-> "none"]
    /\ ran = [c \in Calls |-> NoCode]
    /\ fate = [c \in Calls |-> "none"]
    /\ exit = [c \in Calls |-> 0]

-----------------------------------------------------------------------------
(* Exit codes.                                                             *)

ExitTimeout == -1
ExitOom == -2
ExitExecutorCrash == -3
ExitDenied == -4

\* Mutant: the platform's exit codes are not translated.
TranslateNothing(n) == n

\* What execute() makes of the exit code of the process.
Translate(n) ==
    CASE n = 124 -> ExitTimeout
      [] n = 137 -> ExitOom
      [] n \notin {124, 137} -> n

\* ExecResult.from_exit_code
FromExitCode(n) ==
    CASE n = 0 -> "ok"
      [] n = ExitTimeout -> "timeout"
      [] n = ExitOom -> "oom"
      [] n = ExitExecutorCrash -> "executor_crash"
      [] n = ExitDenied -> "denied"
      [] n < ExitDenied -> "executor_crash"
      [] n > 0 -> "nonzero_exit"

-----------------------------------------------------------------------------
(* The caller's side.                                                      *)

\* Mutant: execute() uses one file.
PathShared(c) == Snippet

\* The file a call writes and runs.
Path(c) == IF tool[c] = "execute_code" THEN c ELSE Snippet

\* execute_code with a timeout or without, or execute() refusing a language.
BeginExecute(c) ==
    /\ pc[c] = "idle"
    /\ \E l \in Limits \cup {NoLimit} : limit' = [limit EXCEPT ![c] = l]
    /\ tool' = [tool EXCEPT ![c] = "execute_code"]
    /\ \/ pc' = [pc EXCEPT ![c] = "write"] /\ UNCHANGED result
       \/ /\ pc' = [pc EXCEPT ![c] = "done"]
          /\ result' = [result EXCEPT ![c] = "raised"]
    /\ UNCHANGED <<up, files, process>>

BeginPython(c) ==
    /\ pc[c] = "idle"
    /\ tool' = [tool EXCEPT ![c] = "run_python"]
    /\ pc' = [pc EXCEPT ![c] = "write"]
    /\ UNCHANGED <<up, files, limit, result, process>>

\* run_shell and run_pytest: a command, no file.
BeginShell(c) ==
    /\ pc[c] = "idle"
    /\ tool' = [tool EXCEPT ![c] = "shell"]
    /\ pc' = [pc EXCEPT ![c] = "exec"]
    /\ UNCHANGED <<up, files, limit, result, process>>

Write(c) ==
    /\ pc[c] = "write" /\ up
    /\ files' = [files EXCEPT ![Path(c)] = c]
    /\ pc' = [pc EXCEPT ![c] = "exec"]
    /\ UNCHANGED <<up, tool, limit, result, process>>

\* A request raised.  execute() turns that into a result; the others do not.
Raised(c) ==
    /\ pc' = [pc EXCEPT ![c] = "done"]
    /\ result' = [result EXCEPT ![c] =
                    IF tool[c] = "execute_code" THEN FromExitCode(ExitExecutorCrash)
                                                ELSE "raised"]
    /\ UNCHANGED <<tool, limit>>

WriteRaises(c) ==
    /\ pc[c] = "write"
    /\ \/ UNCHANGED files
       \/ up /\ files' = [files EXCEPT ![Path(c)] = c]
    /\ Raised(c)
    /\ UNCHANGED <<up, process>>

\* The exec request raises: refused, or its process starts or goes on
\* unobserved.
ExecRaises(c) ==
    /\ pc[c] = "exec"
    /\ \/ UNCHANGED proc
       \/ up /\ proc[c] = "none" /\ proc' = [proc EXCEPT ![c] = "started"]
    /\ Raised(c)
    /\ UNCHANGED <<up, files, ran, fate, exit>>

\* The exec request returns the exit code.
ExecReturns(c) ==
    /\ pc[c] = "exec" /\ proc[c] = "ended"
    /\ pc' = [pc EXCEPT ![c] = "done"]
    /\ result' = [result EXCEPT ![c] =
                    IF tool[c] = "execute_code" THEN FromExitCode(Translate(exit[c]))
                                                ELSE "text"]
    /\ UNCHANGED <<up, files, tool, limit, process>>

-----------------------------------------------------------------------------
(* The sandbox's side.                                                     *)

\* The exec request reaches the sandbox.
Start(c) ==
    /\ pc[c] = "exec" /\ proc[c] = "none" /\ up
    /\ proc' = [proc EXCEPT ![c] = "started"]
    /\ UNCHANGED <<up, files, call, ran, fate, exit>>

\* Mutant: a process killed by a signal has a negative exit code, as in Python.
EndedBySignal(c, f, n) ==
    /\ proc' = [proc EXCEPT ![c] = "ended"]
    /\ fate' = [fate EXCEPT ![c] = f]
    /\ exit' = [exit EXCEPT ![c] = IF n > 128 THEN 128 - n ELSE n]

\* The process has ended, as f says, with the exit code n.
Ended(c, f, n) ==
    /\ proc' = [proc EXCEPT ![c] = "ended"]
    /\ fate' = [fate EXCEPT ![c] = f]
    /\ exit' = [exit EXCEPT ![c] = n]

\* The interpreter reads its file; a shell has its command already.
Read(c) ==
    /\ proc[c] = "started"
    /\ ran' = [ran EXCEPT ![c] = IF tool[c] = "shell" THEN c ELSE files[Path(c)]]
    /\ proc' = [proc EXCEPT ![c] = "running"]
    /\ UNCHANGED <<up, files, call, fate, exit>>

\* The program ends by itself.  timeout(1) that has sent its signal by then
\* reports 124.
Exit(c) ==
    /\ \/ proc[c] = "running" /\ \E n \in Codes : Ended(c, "own", n)
       \/ proc[c] = "signalled" /\ Ended(c, "timeout", 124)
    /\ UNCHANGED <<up, files, call, ran>>

\* The kernel kills it for want of memory.
OomKill(c) ==
    /\ proc[c] \in {"running", "signalled"}
    /\ Ended(c, "memory", 137)
    /\ UNCHANGED <<up, files, call, ran>>

\* Mutant: the command is not wrapped in timeout(1).
TimedNever(c) == FALSE

\* The command is wrapped in timeout(1), whose 0 means no limit.
Timed(c) == limit[c] # NoLimit /\ limit[c] # 0

\* timeout(1) sends SIGTERM once; without --kill-after that is all it does.
TimedOut(c) ==
    /\ proc[c] = "running" /\ Timed(c)
    /\ \/ c \notin Stubborn /\ Ended(c, "timeout", 124)
       \/ /\ c \in Stubborn
          /\ proc' = [proc EXCEPT ![c] = "signalled"]
          /\ UNCHANGED <<fate, exit>>
    /\ UNCHANGED <<up, files, call, ran>>

\* The lease ends: the sandbox goes, with its files and processes.
Release ==
    /\ up /\ up' = FALSE
    /\ files' = [p \in Paths |-> NoCode]
    /\ proc' = [c \in Calls |->
                  IF proc[c] \in {"started", "running", "signalled"} THEN "gone"
                                                                     ELSE proc[c]]
    /\ UNCHANGED <<call, ran, fate, exit>>

-----------------------------------------------------------------------------
Caller(c) == \/ BeginExecute(c) \/ BeginPython(c) \/ BeginShell(c)
             \/ Write(c) \/ WriteRaises(c) \/ ExecRaises(c) \/ ExecReturns(c)

Process(c) == Start(c) \/ Read(c) \/ Exit(c) \/ OomKill(c) \/ TimedOut(c)

\* All calls are over and no process is left: the program may stop.
Done ==
    /\ \A c \in Calls : pc[c] = "done" /\ proc[c] \in {"none", "ended", "gone"}
    /\ UNCHANGED vars

Next == Release \/ Done \/ \E c \in Calls : Caller(c) \/ Process(c)

Spec == Init /\ [][Next]_vars

(***************************************************************************)
(* Fairness.  Requests reach a sandbox that exists and come back once the  *)
(* process has ended; a request to one that does not is refused; timeout(1)*)
(* keeps its time.  A program need never end by itself.                    *)
(***************************************************************************)
Refused(c) == ~up /\ (WriteRaises(c) \/ ExecRaises(c))

Fairness == \A c \in Calls :
    /\ WF_vars(Write(c)) /\ WF_vars(Refused(c)) /\ WF_vars(ExecReturns(c))
    /\ WF_vars(Start(c)) /\ WF_vars(Read(c)) /\ WF_vars(TimedOut(c))

FairSpec == Spec /\ Fairness

-----------------------------------------------------------------------------
(* Properties.                                                             *)

\* The type of every variable.
TypeOK ==
    /\ up \in BOOLEAN
    /\ files \in [Paths -> Calls \cup {NoCode}]
    /\ tool \in [Calls -> Tools]
    /\ limit \in [Calls -> Limits \cup {NoLimit}]
    /\ pc \in [Calls -> {"idle", "write", "exec", "done"}]
    /\ result \in [Calls -> Results]
    /\ proc \in [Calls -> {"none", "started", "running", "signalled", "ended", "gone"}]
    /\ ran \in [Calls -> Calls \cup {NoCode}]
    /\ fate \in [Calls -> {"none", "own", "timeout", "memory"}]
    /\ exit \in [Calls -> 0..255]

\* A process started by execute() runs the code of its own call, whatever
\* other calls do in the same /tmp, also when its caller saw an exception.
\* executor.py:12 "every call writes the code to a per-call file"
OwnCode ==
    \A c \in Calls :
        tool[c] = "execute_code" /\ proc[c] \in {"running", "signalled", "ended"}
            => ran[c] = c

\* The status of an ExecResult is true as far as it goes: "ok" says that the
\* call's own code ran to its end and exited with 0, "nonzero_exit" that the
\* program itself ended, and a process killed for time or memory is reported
\* as such or as unobserved.
Honest ==
    \A c \in Calls : tool[c] = "execute_code" /\ pc[c] = "done" =>
        /\ result[c] = "ok" => ran[c] = c /\ fate[c] = "own" /\ exit[c] = 0
        /\ result[c] = "nonzero_exit" => fate[c] = "own" /\ exit[c] > 0
        /\ fate[c] = "timeout" => result[c] \in {"timeout", "executor_crash"}
        /\ fate[c] = "memory" => result[c] \in {"oom", "executor_crash"}

\* A call with a time limit returns, if its program does not ignore SIGTERM.
Answered ==
    \A c \in Calls :
        (pc[c] \in {"write", "exec"} /\ limit[c] \notin {NoLimit, 0} /\ c \notin Stubborn)
            ~> pc[c] = "done"

\* A call with a time limit returns, whatever its program does with SIGTERM.
\* executor.py:106 "a child that traps and ignores SIGTERM gets SIGKILL after
\* 10 s", types.py:115 "Wall-clock seconds before the backend kills the process"
TimeoutKills ==
    \A c \in Calls : (pc[c] = "exec" /\ limit[c] # NoLimit) ~> pc[c] = "done"
=============================================================================
