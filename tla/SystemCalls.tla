---------------------------- MODULE SystemCalls ----------------------------
(***************************************************************************)
(* examples/systemcalls: do_system(), do_exec() and do_exec_redirect(),    *)
(* called one after the other by one process that may have children of its *)
(* own.  do_fork_exec() forks and execs, await_child_proc() waits; the     *)
(* redirection is made in the calling process, before the fork.            *)
(***************************************************************************)
EXTENDS Naturals

CONSTANTS
    Others,    \* children the caller has when it makes the first call
    MaxCalls   \* bound: calls

Calls == 1..MaxCalls
Children == Calls \cup Others   \* the child a call forks has the call's number

ASSUME SystemCallsAssumption ==
    /\ MaxCalls \in Nat
    /\ Others \cap Calls = {}

(* Files are known by the call that opened them; 0 is the terminal.        *)
Terminal == 0

VARIABLES
    pc,           \* what the calling process does next; "idle" between calls
    call,         \* the number of the current or last call
    kind,         \* the function each call is of
    ret,          \* what each call has returned: "none", "true" or "false"
    stdout,       \* the file behind descriptor 1 of the calling process
    stderr,       \* ... and behind descriptor 2
    redirect_fd,  \* the file behind redirect_fd, or Terminal if it is not open
    child,        \* what became of each child
    reaped,       \* the children whose end waitpid() has reported
    output        \* the files each child writes its descriptors 1 and 2 to

fds == <<stdout, stderr, redirect_fd>>
kids == <<child, reaped, output>>
vars == <<pc, call, kind, ret, fds, kids>>

Exited == {"exit0", "exit1"}
Ended == Exited \cup {"killed"}

-----------------------------------------------------------------------------
(* The caller calls one of the functions.                                  *)
Begin ==
    /\ pc = "idle" /\ call < MaxCalls
    /\ call' = call + 1
    /\ \E k \in {"system", "exec", "redirect"} :
         /\ kind' = [kind EXCEPT ![call'] = k]
         /\ pc' = CASE k = "system" -> "system" [] k = "exec" -> "fork"
                    [] k = "redirect" -> "open"
    /\ UNCHANGED <<ret, fds, kids>>

Return(value) ==
    /\ pc' = "idle"
    /\ ret' = [ret EXCEPT ![call] = value]

(* do_exec_redirect(): open() ...                                          *)
Open ==
    /\ pc = "open"
    /\ \/ pc' = "dup_stdout" /\ redirect_fd' = call /\ UNCHANGED ret
       \/ Return("false") /\ UNCHANGED redirect_fd
    /\ UNCHANGED <<call, kind, stdout, stderr, kids>>

(* ... a dup2() that fails: close(redirect_fd) and return ...              *)
DupFails ==
    /\ pc \in {"dup_stdout", "dup_stderr"}
    /\ Return("false")
    /\ redirect_fd' = Terminal
    /\ UNCHANGED <<call, kind, stdout, stderr, kids>>

(* Mutant: the failure of the first dup2() is only logged.                 *)
DupStdoutUnchecked ==
    /\ pc = "dup_stdout"
    /\ pc' = "dup_stderr"
    /\ stdout' \in {stdout, redirect_fd}
    /\ UNCHANGED <<call, kind, ret, stderr, redirect_fd, kids>>

(* ... dup2() over the caller's own standard output ...                    *)
DupStdout ==
    /\ pc = "dup_stdout"
    /\ pc' = "dup_stderr"
    /\ stdout' = redirect_fd
    /\ UNCHANGED <<call, kind, ret, stderr, redirect_fd, kids>>

(* ... and its standard error, and close().  Nothing undoes them.          *)
DupStderr ==
    /\ pc = "dup_stderr"
    /\ pc' = "fork"
    /\ stderr' = redirect_fd
    /\ redirect_fd' = Terminal
    /\ UNCHANGED <<call, kind, ret, stdout, kids>>

(* fork(), in do_fork_exec() or in system(); both report its failure.      *)
Fork ==
    /\ pc \in {"fork", "system"}
    /\ \/ /\ child' = [child EXCEPT ![call] = "forked"]
          /\ output' = [output EXCEPT ![call] = <<stdout, stderr>>]
          /\ pc' = IF pc = "fork" THEN "await" ELSE "system_wait"
          /\ UNCHANGED ret
       \/ Return("false") /\ UNCHANGED <<child, output>>
    /\ UNCHANGED <<call, kind, fds, reaped>>

(* Mutant: the process number waitpid() returns is not compared.           *)
AwaitAnyChild ==
    /\ pc = "await"
    /\ \E p \in Children \ reaped :
         /\ child[p] \in Ended
         /\ reaped' = reaped \cup {p}
         /\ IF child[p] \in Exited
            THEN Return(IF child[p] = "exit0" THEN "true" ELSE "false")
            ELSE UNCHANGED <<pc, ret>>
    /\ UNCHANGED <<call, kind, fds, child, output>>

(* Mutant: the loop goes on until the child has succeeded.                 *)
AwaitSuccess ==
    /\ pc = "await"
    /\ \E p \in Children \ reaped :
         /\ child[p] \in Ended
         /\ reaped' = reaped \cup {p}
         /\ IF p = call /\ child[p] = "exit0"
            THEN Return("true")
            ELSE UNCHANGED <<pc, ret>>
    /\ UNCHANGED <<call, kind, fds, child, output>>

(* await_child_proc(): waitpid(-1, ...) reports the end of any child.  That*)
(* of another child is thrown away, and so is that of the call's own child *)
(* if a signal has killed it.                                              *)
AwaitChild ==
    /\ pc = "await"
    /\ \E p \in Children \ reaped :
         /\ child[p] \in Ended
         /\ reaped' = reaped \cup {p}
         /\ IF p = call /\ child[p] \in Exited
            THEN Return(IF child[p] = "exit0" THEN "true" ELSE "false")
            ELSE UNCHANGED <<pc, ret>>
    /\ UNCHANGED <<call, kind, fds, child, output>>

(* With no child left waitpid() returns -1 at once, and the loop goes on.  *)
AwaitNobody ==
    /\ pc = "await"
    /\ \A p \in Children \ reaped : child[p] = "none"
    /\ UNCHANGED vars

(* system() waits for its own child and reports how it ended.              *)
SystemReturns ==
    /\ pc = "system_wait"
    /\ child[call] \in Ended
    /\ reaped' = reaped \cup {call}
    /\ Return(IF child[call] = "exit0" THEN "true" ELSE "false")
    /\ UNCHANGED <<call, kind, fds, child, output>>

CallStep ==
    \/ Open \/ DupFails \/ DupStdout \/ DupStderr \/ Fork \/ AwaitChild
    \/ AwaitNobody \/ SystemReturns

-----------------------------------------------------------------------------
(* The children.  execv() in the child fails: exit(EXIT_FAILURE).          *)
ChildExecs(p) ==
    /\ child[p] = "forked"
    /\ child' = [child EXCEPT ![p] = "running"]
    /\ UNCHANGED <<pc, call, kind, ret, fds, reaped, output>>

ChildExecFails(p) ==
    /\ child[p] = "forked"
    /\ child' = [child EXCEPT ![p] = "exit1"]
    /\ UNCHANGED <<pc, call, kind, ret, fds, reaped, output>>

(* The program it runs exits, or a signal kills it.                        *)
ProgramEnds(p) ==
    /\ child[p] = "running"
    /\ \E how \in Ended : child' = [child EXCEPT ![p] = how]
    /\ UNCHANGED <<pc, call, kind, ret, fds, reaped, output>>

ChildStep(p) == ChildExecs(p) \/ ChildExecFails(p) \/ ProgramEnds(p)

-----------------------------------------------------------------------------
Init ==
    /\ pc = "idle"
    /\ call = 0
    /\ kind = [n \in Calls |-> "none"]
    /\ ret = [n \in Calls |-> "none"]
    /\ stdout = Terminal /\ stderr = Terminal /\ redirect_fd = Terminal
    /\ child = [p \in Children |-> IF p \in Others THEN "running" ELSE "none"]
    /\ reaped = {}
    /\ output = [p \in Children |-> <<Terminal, Terminal>>]

Finished == pc = "idle" /\ call = MaxCalls /\ UNCHANGED vars

Next == Begin \/ CallStep \/ (\E p \in Children : ChildStep(p)) \/ Finished

(* The calling process is scheduled, and the programs it runs end.  The    *)
(* caller's other children may run for ever.                               *)
Fairness == WF_vars(CallStep) /\ \A p \in Calls : WF_vars(ChildStep(p))

Spec == Init /\ [][Next]_vars

FairSpec == Spec /\ Fairness

-----------------------------------------------------------------------------
(* Properties                                                              *)

(* What a call returns is about the child it forked, whichever children of *)
(* the process end meanwhile: true exactly if that child ran the command   *)
(* and exited with 0; and it leaves no zombie behind.                      *)
ResultIsOwn ==
    \A n \in Calls : ret[n] # "none" =>
        /\ ret[n] = "true" <=> child[n] = "exit0"
        /\ child[n] # "none" => child[n] \in Ended /\ n \in reaped

(* The command of do_exec_redirect() writes both its streams to the file   *)
(* asked for.  A redirection outlives its call: a command run later by one *)
(* of the other functions writes to the file of the last call that got as  *)
(* far as running its command, or of a later one that failed half-way.     *)
(* Between calls the caller's two standard streams are the only            *)
(* descriptors left open.                                                  *)
OutputWhereAsked ==
    /\ \A n \in Calls : child[n] # "none" =>
         IF kind[n] = "redirect"
         THEN output[n] = <<n, n>>
         ELSE \A i \in {1, 2} :
                LET f == output[n][i] IN
                /\ f = Terminal \/ (f < n /\ kind[f] = "redirect")
                /\ \A m \in 1..(n - 1) :
                     (kind[m] = "redirect" /\ child[m] # "none") => f >= m
    /\ pc = "idle" => redirect_fd = Terminal

(* A call returns, except that await_child_proc() waits for ever when its  *)
(* child is killed by a signal; do_system() returns in that case too.      *)
CallReturns ==
    \A n \in Calls : (call = n /\ pc # "idle")
        ~> (ret[n] # "none" \/ (child[n] = "killed" /\ kind[n] # "system"))
=============================================================================
