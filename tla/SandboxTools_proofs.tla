------------------------ MODULE SandboxTools_proofs ------------------------
(* Theorems about SandboxTools, for any set of calls.                       *)
EXTENDS SandboxTools, TLAPS

\* TypeOK is inductive.
LEMMA TypeInit == Init => TypeOK
  BY CallAssumption DEF Init, TypeOK, Tools, Results, Statuses, Paths

LEMMA TypeNext == TypeOK /\ [Next]_vars => TypeOK'
  <1> SUFFICES ASSUME TypeOK, [Next]_vars PROVE TypeOK'
    OBVIOUS
  <1> USE DEF TypeOK, Tools, Results, Statuses, Paths, call, process, Ended
  <1>1. CASE Release
    BY <1>1 DEF Release
  <1>2. ASSUME NEW c \in Calls, Caller(c) PROVE TypeOK'
    <2> Path(c) \in Paths
      BY DEF Path
    <2>1. CASE BeginExecute(c)
      BY <2>1 DEF BeginExecute
    <2>2. CASE BeginPython(c) \/ BeginShell(c)
      BY <2>2 DEF BeginPython, BeginShell
    <2>3. CASE Write(c)
      BY <2>3 DEF Write
    <2>4. CASE WriteRaises(c)
      BY <2>4 DEF WriteRaises, Raised, FromExitCode, ExitExecutorCrash,
                  ExitTimeout, ExitOom, ExitDenied
    <2>5. CASE ExecRaises(c)
      BY <2>5 DEF ExecRaises, Raised, FromExitCode, ExitExecutorCrash,
                  ExitTimeout, ExitOom, ExitDenied
    <2>6. CASE ExecReturns(c)
      <3>1. FromExitCode(Translate(exit[c])) \in Statuses
        BY DEF FromExitCode, Translate, ExitExecutorCrash, ExitTimeout,
               ExitOom, ExitDenied
      <3> QED
        BY <2>6, <3>1 DEF ExecReturns
    <2> QED
      BY <1>2, <2>1, <2>2, <2>3, <2>4, <2>5, <2>6 DEF Caller
  <1>3. ASSUME NEW c \in Calls, Process(c) PROVE TypeOK'
    <2> Path(c) \in Paths
      BY DEF Path
    <2>1. CASE Start(c)
      BY <2>1 DEF Start
    <2>2. CASE Read(c)
      BY <2>2 DEF Read
    <2>3. CASE Exit(c)
      <3>1. CASE proc[c] = "running" /\ \E n \in Codes : Ended(c, "own", n)
        <4>1. PICK n \in Codes : Ended(c, "own", n)
          BY <3>1
        <4>2. n \in 0..255
          BY CodeAssumption
        <4> QED
          BY <2>3, <4>1, <4>2 DEF Exit
      <3>2. CASE proc[c] = "signalled" /\ Ended(c, "timeout", 124)
        BY <2>3, <3>2 DEF Exit
      <3> QED
        BY <2>3, <3>1, <3>2 DEF Exit
    <2>4. CASE OomKill(c)
      BY <2>4 DEF OomKill
    <2>5. CASE TimedOut(c)
      BY <2>5 DEF TimedOut
    <2> QED
      BY <1>3, <2>1, <2>2, <2>3, <2>4, <2>5 DEF Process
  <1>4. CASE UNCHANGED vars
    BY <1>4 DEF vars
  <1> QED
    BY <1>1, <1>2, <1>3, <1>4 DEF Next, Done

\* Every variable keeps its type.
THEOREM TypeCorrect == Spec => []TypeOK
  <1> QED
    BY TypeInit, TypeNext, PTL DEF Spec

-----------------------------------------------------------------------------
(* The code a process runs.                                                 *)

\* A call has no process before its exec request; a process that is going to
\* read a file lives in a sandbox that exists.
Ordered ==
    \A c \in Calls :
        /\ pc[c] = "idle" => proc[c] = "none" /\ tool[c] = "none"
        /\ pc[c] = "write" => proc[c] = "none"
        /\ proc[c] = "started" => up

\* From the end of its write on, the file of an execute() holds its code: no
\* other call has that path.
Written ==
    \A c \in Calls : tool[c] = "execute_code" /\ up
        /\ (pc[c] = "exec" \/ proc[c] = "started") => files[c] = c

CodeInv == TypeOK /\ Ordered /\ Written /\ OwnCode

LEMMA CodeInit == Init => CodeInv
  BY TypeInit DEF Init, CodeInv, Ordered, Written, OwnCode

LEMMA OrderedNext == CodeInv /\ [Next]_vars => Ordered'
  <1> SUFFICES ASSUME CodeInv, [Next]_vars PROVE Ordered'
    OBVIOUS
  <1> USE DEF CodeInv, TypeOK, Ordered, call, process
  <1>1. CASE Release
    BY <1>1 DEF Release
  <1>2. ASSUME NEW c \in Calls, Caller(c) PROVE Ordered'
    BY <1>2 DEF Caller, BeginExecute, BeginPython, BeginShell, Write,
                WriteRaises, Raised, ExecRaises, ExecReturns
  <1>3. ASSUME NEW c \in Calls, Process(c) PROVE Ordered'
    BY <1>3 DEF Process, Start, Read, Exit, OomKill, TimedOut, Ended
  <1>4. CASE UNCHANGED vars
    BY <1>4 DEF vars
  <1> QED
    BY <1>1, <1>2, <1>3, <1>4 DEF Next, Done

LEMMA WrittenNext == CodeInv /\ [Next]_vars => Written'
  <1> SUFFICES ASSUME CodeInv, [Next]_vars PROVE Written'
    OBVIOUS
  <1> USE DEF CodeInv, TypeOK, Ordered, Written, call, process
  <1>1. CASE Release
    BY <1>1 DEF Release
  <1>2. ASSUME NEW c \in Calls, Caller(c) PROVE Written'
    <2>1. CASE BeginExecute(c) \/ BeginPython(c) \/ BeginShell(c)
      <3>1. \A d \in Calls : d # c => tool'[d] = tool[d] /\ pc'[d] = pc[d]
        BY <2>1 DEF BeginExecute, BeginPython, BeginShell
      <3>2. UNCHANGED <<up, files, proc>> /\ proc[c] = "none"
        BY <2>1 DEF BeginExecute, BeginPython, BeginShell
      <3>3. tool'[c] = "execute_code" => pc'[c] # "exec"
        BY <2>1 DEF BeginExecute, BeginPython, BeginShell
      <3> QED
        BY <3>1, <3>2, <3>3
    <2>2. CASE Write(c)
      BY <2>2, CallAssumption DEF Write, Path, Paths
    <2>3. CASE WriteRaises(c)
      BY <2>3, CallAssumption DEF WriteRaises, Raised, Path, Paths
    <2>4. CASE ExecRaises(c) \/ ExecReturns(c)
      BY <2>4 DEF ExecRaises, ExecReturns, Raised
    <2> QED
      BY <1>2, <2>1, <2>2, <2>3, <2>4 DEF Caller
  <1>3. ASSUME NEW c \in Calls, Process(c) PROVE Written'
    BY <1>3 DEF Process, Start, Read, Exit, OomKill, TimedOut, Ended
  <1>4. CASE UNCHANGED vars
    BY <1>4 DEF vars
  <1> QED
    BY <1>1, <1>2, <1>3, <1>4 DEF Next, Done

LEMMA OwnCodeNext == CodeInv /\ [Next]_vars => OwnCode'
  <1> SUFFICES ASSUME CodeInv, [Next]_vars PROVE OwnCode'
    OBVIOUS
  <1> USE DEF CodeInv, TypeOK, Ordered, OwnCode, call, process
  <1>1. CASE Release
    BY <1>1 DEF Release
  <1>2. ASSUME NEW c \in Calls, Caller(c) PROVE OwnCode'
    BY <1>2 DEF Caller, BeginExecute, BeginPython, BeginShell, Write,
                WriteRaises, Raised, ExecRaises, ExecReturns
  <1>3. ASSUME NEW c \in Calls, Process(c) PROVE OwnCode'
    <2>1. CASE Read(c)
      BY <2>1 DEF Read, Written, Path
    <2>2. CASE Start(c) \/ Exit(c) \/ OomKill(c) \/ TimedOut(c)
      BY <2>2 DEF Start, Exit, OomKill, TimedOut, Ended
    <2> QED
      BY <1>3, <2>1, <2>2 DEF Process
  <1>4. CASE UNCHANGED vars
    BY <1>4 DEF vars
  <1> QED
    BY <1>1, <1>2, <1>3, <1>4 DEF Next, Done

LEMMA CodeNext == CodeInv /\ [Next]_vars => CodeInv'
  BY TypeNext, OrderedNext, WrittenNext, OwnCodeNext DEF CodeInv

\* A process started by execute() runs its own call's code.
THEOREM ExecuteRunsOwnCode == Spec => []OwnCode
  <1>1. CodeInv => OwnCode
    BY DEF CodeInv
  <1> QED
    BY <1>1, CodeInit, CodeNext, PTL DEF Spec

-----------------------------------------------------------------------------
(* The status of a result.                                                  *)

\* How a process ended fits the exit code the service reports.
Fated ==
    \A c \in Calls :
        /\ fate[c] = "none" <=> proc[c] # "ended"
        /\ fate[c] = "timeout" => exit[c] = 124
        /\ fate[c] = "memory" => exit[c] = 137

\* A result comes from an exit code the service reported, or from none.
Reported ==
    \A c \in Calls : tool[c] = "execute_code" /\ pc[c] = "done" =>
        \/ result[c] = "raised" /\ proc[c] = "none"
        \/ result[c] = "executor_crash"
        \/ proc[c] = "ended" /\ result[c] = FromExitCode(Translate(exit[c]))

StatusInv == CodeInv /\ Fated /\ Reported

\* The statuses of the exit codes a process can have.
LEMMA StatusOf ==
  ASSUME NEW n \in 0..255
  PROVE  /\ FromExitCode(Translate(n)) = "ok" <=> n = 0
         /\ FromExitCode(Translate(n)) = "timeout" <=> n = 124
         /\ FromExitCode(Translate(n)) = "oom" <=> n = 137
         /\ FromExitCode(Translate(n)) = "nonzero_exit" <=> n \notin {0, 124, 137}
  BY DEF FromExitCode, Translate, ExitTimeout, ExitOom, ExitExecutorCrash,
         ExitDenied

LEMMA CrashStatus == FromExitCode(ExitExecutorCrash) = "executor_crash"
  BY DEF FromExitCode, ExitTimeout, ExitOom, ExitExecutorCrash, ExitDenied

LEMMA FatedNext == StatusInv /\ [Next]_vars => Fated'
  <1> SUFFICES ASSUME StatusInv, [Next]_vars PROVE Fated'
    OBVIOUS
  <1> USE DEF StatusInv, CodeInv, TypeOK, Fated, call, process
  <1>1. CASE Release
    BY <1>1 DEF Release
  <1>2. ASSUME NEW c \in Calls, Caller(c) PROVE Fated'
    BY <1>2 DEF Caller, BeginExecute, BeginPython, BeginShell, Write,
                WriteRaises, Raised, ExecRaises, ExecReturns
  <1>3. ASSUME NEW c \in Calls, Process(c) PROVE Fated'
    BY <1>3 DEF Process, Start, Read, Exit, OomKill, TimedOut, Ended
  <1>4. CASE UNCHANGED vars
    BY <1>4 DEF vars
  <1> QED
    BY <1>1, <1>2, <1>3, <1>4 DEF Next, Done

LEMMA ReportedNext == StatusInv /\ [Next]_vars => Reported'
  <1> SUFFICES ASSUME StatusInv, [Next]_vars PROVE Reported'
    OBVIOUS
  <1> USE DEF StatusInv, CodeInv, TypeOK, Ordered, Reported, call, process
  <1>1. CASE Release
    BY <1>1 DEF Release
  <1>2. ASSUME NEW c \in Calls, Caller(c) PROVE Reported'
    <2>1. CASE BeginExecute(c)
      BY <2>1 DEF BeginExecute
    <2>2. CASE BeginPython(c) \/ BeginShell(c) \/ Write(c)
      BY <2>2 DEF BeginPython, BeginShell, Write
    <2>3. CASE WriteRaises(c) \/ ExecRaises(c)
      BY <2>3, CrashStatus DEF WriteRaises, ExecRaises, Raised
    <2>4. CASE ExecReturns(c)
      BY <2>4 DEF ExecReturns
    <2> QED
      BY <1>2, <2>1, <2>2, <2>3, <2>4 DEF Caller
  <1>3. ASSUME NEW c \in Calls, Process(c) PROVE Reported'
    BY <1>3 DEF Process, Start, Read, Exit, OomKill, TimedOut, Ended
  <1>4. CASE UNCHANGED vars
    BY <1>4 DEF vars
  <1> QED
    BY <1>1, <1>2, <1>3, <1>4 DEF Next, Done

LEMMA HonestFollows == StatusInv => Honest
  <1> SUFFICES ASSUME StatusInv, NEW c \in Calls,
                      tool[c] = "execute_code", pc[c] = "done"
               PROVE  /\ result[c] = "ok" => ran[c] = c /\ fate[c] = "own" /\ exit[c] = 0
                      /\ result[c] = "nonzero_exit" => fate[c] = "own" /\ exit[c] > 0
                      /\ fate[c] = "timeout" => result[c] \in {"timeout", "executor_crash"}
                      /\ fate[c] = "memory" => result[c] \in {"oom", "executor_crash"}
    BY DEF Honest
  <1>1. exit[c] \in 0..255 /\ fate[c] \in {"none", "own", "timeout", "memory"}
    BY DEF StatusInv, CodeInv, TypeOK
  <1>2. /\ fate[c] = "none" <=> proc[c] # "ended"
        /\ fate[c] = "timeout" => exit[c] = 124
        /\ fate[c] = "memory" => exit[c] = 137
    BY DEF StatusInv, Fated
  <1>3. CASE result[c] = "raised" /\ proc[c] = "none"
    BY <1>2, <1>3
  <1>4. CASE result[c] = "executor_crash"
    BY <1>4
  <1>5. CASE proc[c] = "ended" /\ result[c] = FromExitCode(Translate(exit[c]))
    <2>1. ran[c] = c
      BY <1>5 DEF StatusInv, CodeInv, OwnCode
    <2> QED
      BY <1>1, <1>2, <1>5, <2>1, StatusOf
  <1> QED
    BY <1>3, <1>4, <1>5 DEF StatusInv, Reported

\* The status of an ExecResult says what happened to the call's process.
THEOREM StatusHonest == Spec => []Honest
  <1>1. Init => StatusInv
    BY CodeInit DEF Init, StatusInv, Fated, Reported
  <1>2. StatusInv /\ [Next]_vars => StatusInv'
    BY CodeNext, FatedNext, ReportedNext DEF StatusInv
  <1> QED
    BY <1>1, <1>2, HonestFollows, PTL DEF Spec
=============================================================================
