---------------------------- MODULE SystemCalls ----------------------------
(***************************************************************************)
(* examples/systemcalls/systemcalls.c: do_system, do_exec and              *)
(* do_exec_redirect, called one after the other by one program.  A command *)
(* is a child process, which ends with a status of its own or by a signal; *)
(* fork, execv, waitpid, open and dup2 may fail.                           *)
(***************************************************************************)
EXTENDS Naturals

CONSTANTS
    Call,        \* the functions called, out of {"system", "exec", "redirect"}
    MaxCalls,    \* bound: calls made
    Signals,     \* TRUE if a signal may end a command
    Dup2Fails    \* TRUE if dup2 may fail

VARIABLES
    pc, call,    \* where the caller is, and in which function
    child,       \* "none", "fork", "redirected", "running", "ended", "returned"
    status,      \* of a child that ended: 0, a failure, or a signal
    result,      \* what the last call returned, or "none"
    fds,         \* the program's open descriptors of output files
    calls,
    ran          \* history: how the command of the last call ended, or "not"

vars == <<pc, call, child, status, result, fds, calls, ran>>

Statuses == {"zero", "nonzero", "signal"}

Init ==
    /\ pc = "idle" /\ call = "system" /\ child = "none" /\ status = "zero"
    /\ result = "none" /\ fds = 0 /\ calls = 0 /\ ran = "not"

-----------------------------------------------------------------------------
(* do_exec_redirect opens its output file before it forks. *)
Begin(f) ==
    /\ pc = "idle" /\ calls < MaxCalls /\ calls' = calls + 1
    /\ call' = f /\ result' = "none" /\ ran' = "not"
    /\ pc' = IF f = "redirect" THEN "open" ELSE "fork"
    /\ UNCHANGED <<child, status, fds>>

Return(r) == pc' = "idle" /\ result' = r

Open ==
    /\ pc = "open"
    /\ \/ pc' = "fork" /\ fds' = fds + 1 /\ UNCHANGED result
       \/ Return("false") /\ UNCHANGED fds
    /\ UNCHANGED <<call, child, status, calls, ran>>

Fork ==
    /\ pc = "fork"
    /\ \/ pc' = "wait" /\ child' = "fork" /\ UNCHANGED result
       \/ Return("false") /\ UNCHANGED child
    /\ UNCHANGED <<call, status, fds, calls, ran>>

-----------------------------------------------------------------------------
(* The child: with its output redirected it becomes the command, or else   *)
(* ends with a status that is not zero.  Where dup2 fails it returns, and  *)
(* goes on with a copy of the program to whatever end that comes.          *)
Redirect ==
    /\ child = "fork" /\ call = "redirect"
    /\ \/ child' = "redirected"
       \/ Dup2Fails /\ child' = "returned"
    /\ UNCHANGED <<pc, call, status, result, fds, calls, ran>>

MayExec == child = IF call = "redirect" THEN "redirected" ELSE "fork"

ExecFailed_Zero == "zero"                         \* slip: exit(0)
ExecFailed == "nonzero"

Exec ==
    /\ MayExec
    /\ \/ child' = "running" /\ UNCHANGED status
       \/ child' = "ended" /\ status' = ExecFailed
    /\ UNCHANGED <<pc, call, result, fds, calls, ran>>

CopyEnds ==
    /\ child = "returned" /\ child' = "ended" /\ status' \in Statuses
    /\ UNCHANGED <<pc, call, result, fds, calls, ran>>

(* The command, and what it ends with. *)
CommandEnds ==
    /\ child = "running" /\ child' = "ended"
    /\ \E s \in Statuses : (s = "signal" => Signals) /\ status' = s /\ ran' = s
    /\ UNCHANGED <<pc, call, result, fds, calls>>

-----------------------------------------------------------------------------
(* system() gives back the status whole; the others look at it only if the *)
(* child has exited.                                                       *)
Success(s) == IF call = "system" THEN s = "zero" ELSE s # "nonzero"

Wait ==
    /\ pc = "wait" /\ child = "ended"
    /\ child' = "none" /\ status' = "zero"
    /\ Return(IF Success(status) THEN "true" ELSE "false")
    /\ UNCHANGED <<call, fds, calls, ran>>

WaitFails ==
    /\ pc = "wait" /\ child # "none" /\ child' = "none"
    /\ Return("false") /\ status' = "zero"
    /\ UNCHANGED <<call, fds, calls, ran>>

-----------------------------------------------------------------------------
Next ==
    \/ \E f \in Call : Begin(f)
    \/ Open \/ Fork \/ Redirect \/ CopyEnds \/ Exec \/ CommandEnds \/ Wait \/ WaitFails

Spec == Init /\ [][Next]_vars

-----------------------------------------------------------------------------
(***************************************************************************)
(* Types; a call that has returned leaves no child of it behind, and those *)
(* that open no file leave none open.                                      *)
(***************************************************************************)
TypeOK ==
    /\ pc \in {"idle", "open", "fork", "wait"} /\ call \in Call \cup {"system"}
    /\ child \in {"none", "fork", "redirected", "running", "ended", "returned"}
    /\ status \in Statuses /\ result \in {"none", "true", "false"}
    /\ pc = "idle" => child = "none"
    /\ fds > 0 => "redirect" \in Call

(***************************************************************************)
(* "true if the command ... were executed successfully using the execv()   *)
(* call, false if an error occurred, either in invocation of the fork,     *)
(* waitpid, or execv() command, or if a non-zero return value was          *)
(* returned" (systemcalls.c:40-43): a call returns true only if its        *)
(* command has run, and to a good end.                                     *)
(***************************************************************************)
TrueIfSucceeded == result = "true" => ran = "zero"

-----------------------------------------------------------------------------
(* The code's texts also state what follows, which the code does not keep: *)
(* TLC refutes it.                                                         *)

(***************************************************************************)
(* "This file will be closed at completion of the function call"           *)
(* (systemcalls.c:107).                                                    *)
(***************************************************************************)
FileClosed == pc = "idle" => fds = 0
=============================================================================
