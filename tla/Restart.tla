------------------------------ MODULE Restart ------------------------------
(***************************************************************************)
(* Several aesdsocket processes one after the other, and at times side by  *)
(* side: started and stopped by the script aesdsocket-start-stop or by     *)
(* hand, crashing at any point.  They share what the kernel keeps for all  *)
(* of them: the path of the data file, the file that is found there, and   *)
(* port 9000.  What one process does inside is module Server.              *)
(*                                                                         *)
(* A file (an inode) is known by the server that created it; it lives on   *)
(* for whoever has it open when its path is removed.                       *)
(***************************************************************************)
EXTENDS Naturals, FiniteSets

CONSTANTS
    MaxServers,  \* bound: processes started
    MaxLines     \* bound: lines in one file

ASSUME RestartAssumption == MaxServers \in Nat /\ MaxLines \in Nat

Servers == 1..MaxServers    \* in the order of their starts
None == 0

VARIABLES
    main,       \* how far main() of each server has got, see below
    run_flag,   \* has it not yet been told to stop?
    diskfd,     \* the file it has opened
    path,       \* the file found at /var/tmp/aesdsocketdata, or None
    lines,      \* the number of lines in each file
    time_wait,  \* does the port have connections in TIME_WAIT?
    script,     \* the server whose start the script is waiting for, or None
    met         \* history: the servers alive when it opened the file

kernel == <<path, lines, time_wait>>
vars == <<main, run_flag, diskfd, kernel, script, met>>

(* "exec": before set_up_signals(); "open", "bind", "daemon", "listen":    *)
(* what comes next; "serve": listening; "join": the listening socket is    *)
(* closed, threads are joined; "remove": all is closed but the file still  *)
(* there; and how it ended.                                                *)
Active == {"exec", "open", "bind", "daemon", "listen", "serve", "join", "remove"}

Alive(p) == main[p] \in Active
Fresh == {p \in Servers : main[p] = "none"}
Listening(p) == main[p] = "serve"

At(p, from) == main[p] = from
Goto(p, to) == main' = [main EXCEPT ![p] = to]

-----------------------------------------------------------------------------
(* The script and its users.                                               *)

NewServer(p) ==
    /\ p \in Fresh /\ \A q \in Fresh : p <= q
    /\ Goto(p, "exec")
    /\ UNCHANGED <<run_flag, diskfd, kernel, met>>

(* start-stop-daemon -S -x starts nothing while a process runs the program.*)
(* It becomes the server, and the script goes on when daemon() lets the    *)
(* parent exit.                                                            *)
ScriptStart ==
    /\ script = None
    /\ \A p \in Servers : ~Alive(p)
    /\ \E p \in Servers : NewServer(p) /\ script' = p

ScriptReturns ==
    /\ script # None
    /\ main[script] \notin {"exec", "open", "bind", "daemon"}
    /\ script' = None
    /\ UNCHANGED <<main, run_flag, diskfd, kernel, met>>

(* killall -TERM, which waits for nobody.  Without a handler the signal    *)
(* kills.                                                                  *)
ScriptStop ==
    /\ script = None
    /\ \E p \in Servers : Alive(p) /\ run_flag[p]
    /\ run_flag' = [p \in Servers |-> run_flag[p] /\ ~Alive(p)]
    /\ main' = [p \in Servers |-> IF At(p, "exec") THEN "killed" ELSE main[p]]
    /\ UNCHANGED <<diskfd, kernel, script, met>>

(* Somebody starts the program without the script.                         *)
StartByHand ==
    /\ \E p \in Servers : NewServer(p)
    /\ UNCHANGED script

-----------------------------------------------------------------------------
(* main(), as far as the outside can tell.                                 *)

SetUpSignals(p) ==
    /\ At(p, "exec") /\ Goto(p, "open")
    /\ UNCHANGED <<run_flag, diskfd, kernel, script, met>>

(* Mutant: what an earlier server left is removed.                         *)
OpenAfterRemoving(p) ==
    /\ At(p, "open") /\ Goto(p, "bind")
    /\ path' = p
    /\ diskfd' = [diskfd EXCEPT ![p] = p]
    /\ met' = [met EXCEPT ![p] = {q \in Servers \ {p} : Alive(q)}]
    /\ UNCHANGED <<run_flag, lines, time_wait, script>>

(* open() with O_CREAT and O_APPEND, and without O_TRUNC.                  *)
OpenDisk(p) ==
    /\ At(p, "open") /\ Goto(p, "bind")
    /\ path' = IF path = None THEN p ELSE path
    /\ diskfd' = [diskfd EXCEPT ![p] = path']
    /\ met' = [met EXCEPT ![p] = {q \in Servers \ {p} : Alive(q)}]
    /\ UNCHANGED <<run_flag, lines, time_wait, script>>

(* Mutant: SO_REUSEADDR is not set.                                        *)
BindWithoutReuse(p) ==
    /\ At(p, "bind")
    /\ Goto(p, IF time_wait \/ \E q \in Servers : main[q] \in {"daemon", "listen", "serve"}
               THEN "failed" ELSE "daemon")
    /\ UNCHANGED <<run_flag, diskfd, kernel, script, met>>

(* bind(), after SO_REUSEADDR: it fails only while another socket listens  *)
(* on the port, not for one that is bound only nor for TIME_WAIT; exit().  *)
Bind(p) ==
    /\ At(p, "bind")
    /\ Goto(p, IF \E q \in Servers : Listening(q) THEN "failed" ELSE "daemon")
    /\ UNCHANGED <<run_flag, diskfd, kernel, script, met>>

Daemonize(p) ==
    /\ At(p, "daemon") /\ Goto(p, "listen")
    /\ UNCHANGED <<run_flag, diskfd, kernel, script, met>>

(* The listen thread: it closes the socket if the flag is cleared already; *)
(* else listen(), which fails if another server listens: exit(3).          *)
Listen(p) ==
    /\ At(p, "listen")
    /\ Goto(p, IF ~run_flag[p] THEN "join"
               ELSE IF \E q \in Servers : Listening(q) THEN "failed" ELSE "serve")
    /\ UNCHANGED <<run_flag, diskfd, kernel, script, met>>

(* A handler appends a line and closes the connection; handlers that are   *)
(* running do so after the listening socket has been closed, too.          *)
ServeLine(p) ==
    /\ main[p] \in {"serve", "join"}
    /\ lines[diskfd[p]] < MaxLines
    /\ lines' = [lines EXCEPT ![diskfd[p]] = @ + 1]
    /\ time_wait' = TRUE
    /\ UNCHANGED <<main, run_flag, diskfd, path, script, met>>

(* The timestamp thread, which starts before the listen thread.            *)
PrintTimestamp(p) ==
    /\ main[p] \in {"listen", "serve", "join"}
    /\ lines[diskfd[p]] < MaxLines
    /\ lines' = [lines EXCEPT ![diskfd[p]] = @ + 1]
    /\ UNCHANGED <<main, run_flag, diskfd, path, time_wait, script, met>>

CloseListener(p) ==
    /\ At(p, "serve") /\ ~run_flag[p] /\ Goto(p, "join")
    /\ UNCHANGED <<run_flag, diskfd, kernel, script, met>>

JoinThreads(p) ==
    /\ At(p, "join") /\ Goto(p, "remove")
    /\ UNCHANGED <<run_flag, diskfd, kernel, script, met>>

(* Mutant: the file is not removed.                                        *)
RemoveForgotten(p) ==
    /\ At(p, "remove") /\ Goto(p, "done")
    /\ UNCHANGED <<run_flag, diskfd, kernel, script, met>>

(* remove() of whatever is found at the path.                              *)
Remove(p) ==
    /\ At(p, "remove") /\ Goto(p, "done")
    /\ path' = None
    /\ UNCHANGED <<run_flag, diskfd, lines, time_wait, script, met>>

MainStep(p) ==
    \/ SetUpSignals(p) \/ OpenDisk(p) \/ Bind(p) \/ Daemonize(p) \/ Listen(p)
    \/ CloseListener(p) \/ JoinThreads(p) \/ Remove(p)

(* A server dies: a call fails, or one of the ways Server describes.       *)
Crash(p) ==
    /\ Alive(p) /\ Goto(p, "killed")
    /\ UNCHANGED <<run_flag, diskfd, kernel, script, met>>

(* TIME_WAIT is over.                                                      *)
PortCools ==
    /\ time_wait /\ time_wait' = FALSE
    /\ UNCHANGED <<main, run_flag, diskfd, path, lines, script, met>>

-----------------------------------------------------------------------------
Init ==
    /\ main = [p \in Servers |-> "none"]
    /\ run_flag = [p \in Servers |-> TRUE]
    /\ diskfd = [p \in Servers |-> None]
    /\ path = None
    /\ lines = [p \in Servers |-> 0]
    /\ time_wait = FALSE
    /\ script = None
    /\ met = [p \in Servers |-> {}]

(* Every process that was to be started has been and has ended.            *)
Over == Fresh = {} /\ (\A p \in Servers : ~Alive(p)) /\ UNCHANGED vars

Next ==
    \/ ScriptStart \/ ScriptReturns \/ ScriptStop \/ StartByHand
    \/ \E p \in Servers :
         MainStep(p) \/ ServeLine(p) \/ PrintTimestamp(p) \/ Crash(p)
    \/ PortCools \/ Over

Spec == Init /\ [][Next]_vars

(* Every server is scheduled.  That shutdown comes to its end is what      *)
(* Server!ShutdownCompletes says, and under which condition.               *)
FairSpec == Spec /\ \A p \in Servers : WF_vars(MainStep(p))

-----------------------------------------------------------------------------
(* Properties                                                              *)

(* The data of a server that listens is found at the path, and starts of   *)
(* others that fail do it no harm.  Only an older server that was still    *)
(* shutting down when this one opened the file can take it away.           *)
ServedFileKept ==
    \A p \in Servers : (Listening(p) /\ run_flag[p] /\ path # diskfd[p]) =>
        \E q \in met[p] : q < p /\ main[q] = "done"

OpensUnremoved ==
    \A p \in Servers : (diskfd[p] # diskfd'[p] /\ lines[diskfd'[p]] > 0) =>
        \E q \in Servers \ {p} : diskfd[q] = diskfd'[p] /\ main[q] # "done"

(* A server that opens the data file finds lines in it only if one that    *)
(* used this very file has not come to remove it: it has died, has failed, *)
(* or is still there.                                                      *)
StartsEmpty == [][OpensUnremoved]_vars

(* What the script starts comes to listen, however short ago the server    *)
(* before it served its last client, unless it is stopped or dies, or      *)
(* somebody starts another beside it.                                      *)
StartSucceeds ==
    \A p \in Servers : script = p ~>
        \/ Listening(p) \/ ~run_flag[p] \/ main[p] = "killed"
        \/ met[p] # {} \/ \E q \in Servers : p \in met[q]
=============================================================================
