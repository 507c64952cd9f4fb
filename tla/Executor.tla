------------------------------ MODULE Executor ------------------------------
(***************************************************************************)
(* One Exec of the shell tool, on the host (LocalExecutor) or through a    *)
(* docker exec client (DockerExecExecutor).  Exec starts a child, kills it *)
(* when its context ends, and returns once the child is gone and both      *)
(* output pipes are closed; a process the command left in the background   *)
(* keeps them open.  With docker the child is the client, and the command  *)
(* runs in the container.                                                  *)
(***************************************************************************)
EXTENDS Integers

CONSTANTS
    Backend,        \* "local" or "docker"
    Forks,          \* may the command leave a background process
    OutputCap,      \* MaxOutputBytes
    MaxOutput       \* bound on the bytes a command writes

ExecBounds == Backend \in {"local", "docker"} /\ OutputCap \in Nat /\ MaxOutput \in Nat

VARIABLES
    pc,         \* "idle", "running", "returned"
    child,      \* "none", "running", "exited", "killed"
    code,       \* exit code of the child
    command,    \* is the command itself running
    helper,     \* is a background process of it holding the pipes
    ctx,        \* "live", "deadline", "cancelled"
    written,    \* bytes written to standard output
    buf,        \* cappingWriter: bytes kept ...
    dropped,    \* ... and bytes thrown away
    result      \* what Exec returned: an exit code and the kind of error

vars == <<pc, child, code, command, helper, ctx, written, buf, dropped, result>>

NoResult == [code |-> 0, err |-> "none"]

-----------------------------------------------------------------------------
(* exec.CommandContext ... c.Run()                                         *)

Start ==
    /\ pc = "idle"
    /\ pc' = "running" /\ child' = "running" /\ command' = TRUE
    /\ UNCHANGED <<code, helper, ctx, written, buf, dropped, result>>

\* The binary is missing or the fork failed.
SpawnFails ==
    /\ pc = "idle"
    /\ pc' = "returned"
    /\ result' = [code |-> -1, err |-> "spawn"]
    /\ UNCHANGED <<child, code, command, helper, ctx, written, buf, dropped>>

Fork ==
    /\ Forks /\ command /\ ~helper
    /\ helper' = TRUE
    /\ UNCHANGED <<pc, child, code, command, ctx, written, buf, dropped, result>>

\* Mutant: the last byte that fits is already thrown away.
CapWriteMutant == IF OutputCap - buf <= 1 THEN dropped' = dropped + 1 /\ UNCHANGED buf
                  ELSE buf' = buf + 1 /\ UNCHANGED dropped

\* cappingWriter.Write, byte by byte.
CapWrite == IF OutputCap - buf <= 0 THEN dropped' = dropped + 1 /\ UNCHANGED buf
            ELSE buf' = buf + 1 /\ UNCHANGED dropped

Output ==
    /\ pc = "running" /\ (child = "running" \/ helper)
    /\ written < MaxOutput
    /\ written' = written + 1
    /\ CapWrite
    /\ UNCHANGED <<pc, child, code, command, helper, ctx, result>>

Exit(c) ==
    /\ pc = "running" /\ child = "running" /\ command
    /\ child' = "exited" /\ code' = c /\ command' = FALSE
    /\ UNCHANGED <<pc, helper, ctx, written, buf, dropped, result>>

CtxDone(kind) ==
    /\ pc = "running" /\ ctx = "live"
    /\ ctx' = kind
    /\ UNCHANGED <<pc, child, code, command, helper, written, buf, dropped, result>>

\* The runtime kills the child, and nothing else: not the child's children,
\* nor, with docker, the command in the container.
Kill ==
    /\ pc = "running" /\ child = "running" /\ ctx # "live"
    /\ child' = "killed" /\ code' = -1
    /\ command' = (command /\ Backend = "docker")
    /\ UNCHANGED <<pc, helper, ctx, written, buf, dropped, result>>

\* A command whose docker client is gone ends some time, or never.
OrphanEnds ==
    /\ command /\ child # "running" /\ pc # "idle"
    /\ command' = FALSE
    /\ UNCHANGED <<pc, child, code, helper, ctx, written, buf, dropped, result>>

HelperEnds ==
    /\ helper
    /\ helper' = FALSE
    /\ UNCHANGED <<pc, child, code, command, ctx, written, buf, dropped, result>>

\* LocalExecutor looks at the context only when the command failed ...
LocalError == IF code # 0 /\ ctx # "live" THEN ctx ELSE "none"

\* ... DockerExecExecutor always.
DockerError == IF ctx # "live" THEN ctx ELSE "none"

Return ==
    /\ pc = "running" /\ child \in {"exited", "killed"}
    /\ ~(helper /\ Backend = "local")
    /\ LET err == IF Backend = "local" THEN LocalError ELSE DockerError
       IN  result' = [code |-> IF err # "none" THEN -1 ELSE code, err |-> err]
    /\ pc' = "returned"
    /\ UNCHANGED <<child, code, command, helper, ctx, written, buf, dropped>>

Init ==
    /\ pc = "idle" /\ child = "none" /\ code = 0 /\ command = FALSE /\ helper = FALSE
    /\ ctx = "live" /\ written = 0 /\ buf = 0 /\ dropped = 0 /\ result = NoResult

Next ==
    \/ Start \/ SpawnFails \/ Fork \/ Output \/ Kill \/ OrphanEnds \/ HelperEnds \/ Return
    \/ \E c \in {0, 3} : Exit(c)
    \/ \E k \in {"deadline", "cancelled"} : CtxDone(k)

Spec == Init /\ [][Next]_vars

\* The runtime's watcher kills, and Run returns when it can; nothing obliges
\* the command or its helper to end.
FairSpec == Spec /\ WF_vars(Kill) /\ WF_vars(Return)

-----------------------------------------------------------------------------
\* A command that ended with success is reported as a success, whatever
\* happens to the context afterwards.
SuccessReported ==
    pc = "returned" /\ child = "exited" /\ code = 0 => result = [code |-> 0, err |-> "none"]

\* Every byte is either kept or counted as dropped, nothing is dropped while
\* there is room, and the banner appears exactly when something is missing.
OutputAccounted ==
    /\ buf + dropped = written
    /\ dropped > 0 => buf = OutputCap
    /\ buf <= OutputCap

\* What an operator reads of a command is true: its success, and how much of
\* its output is missing.
ShellReported == SuccessReported /\ OutputAccounted

\* Exec returns once its context has ended.
Overdue == pc = "running" /\ ctx # "live"

Returned == pc = "returned"

TimeoutCapsRun == Overdue ~> Returned

\* A reported timeout or cancellation means that the context killed the
\* command.
TimeoutMeansKilled ==
    pc = "returned" /\ result.err \in {"deadline", "cancelled"} => child = "killed"

\* When a timeout is reported the command no longer runs.
TimeoutMeansStopped ==
    pc = "returned" /\ result.err \in {"deadline", "cancelled"} => ~command
=============================================================================
