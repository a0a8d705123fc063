------------------------------- MODULE Server -------------------------------
(***************************************************************************)
(* The aesdsocket process: its threads, flags and signals, and the clients *)
(* that connect to it.                                                     *)
(*                                                                         *)
(*   main            starts the others, waits for the run flag to be       *)
(*                   cleared (the "reaper"), joins every thread, cleans up *)
(*   listen_loop     accepts connections, starts a handler for each        *)
(*   handle_connection   one per connection: receives until a short        *)
(*                   recv(), serves each complete line, closes             *)
(*   print_timestamp_on_time   waits for the due flag, prints a timestamp  *)
(*   signal_handler  SIGINT/SIGTERM clear the run flag, SIGALRM sets due   *)
(*                                                                         *)
(* The critical sections on the data file are those of module DataFile.    *)
(***************************************************************************)
EXTENDS Integers, SequencesExt

CONSTANTS
    Conns,        \* the connections clients may open, one handler each
    TsThread,     \* the timestamp thread
    NoThread,     \* "nobody"
    Faults,       \* what may go wrong outside the server, see FaultKinds
    MAX_BUF_SIZE, \* pieces per read() of the echo loop
    MaxRecords,   \* bound: records per thread, see DataFile
    MaxLines,     \* bound: lines one client sends
    MaxSegments,  \* bound: segments one client sends
    MaxAlarms,    \* bound: SIGALRMs
    MaxTerms      \* bound: SIGINTs and SIGTERMs

(* "stall": a client may stop reading; "close": it may close its socket    *)
(* before its reply is complete; "reset": it may reset the connection;     *)
(* "resources": system calls and allocations of the server may fail.       *)
FaultKinds == {"stall", "close", "reset", "resources"}

ASSUME ServerAssumption ==
    /\ TsThread \notin Conns
    /\ NoThread \notin Conns \cup {TsThread}
    /\ MAX_BUF_SIZE \in Nat \ {0}
    /\ Faults \subseteq FaultKinds
    /\ MaxLines \in Nat /\ MaxRecords \in Nat /\ MaxLines <= MaxRecords
    /\ MaxAlarms \in Nat /\ MaxAlarms < MaxRecords
    /\ MaxSegments \in Nat
    /\ MaxTerms \in Nat

VARIABLES
    proc, g_file_mutex, file, pos, step, served, echo, peer, broken, \* DataFile's
    main,         \* what main() does next
    live,         \* the flags that are allocated: subset of {"run", "due"}
    run_flag,     \* *_run_flag
    due_flag,     \* *_timestamp_due_flag
    handlers,     \* has set_up_signals() run?
    armed,        \* has setitimer() run?
    alarms,       \* SIGALRMs delivered
    terms,        \* SIGINTs and SIGTERMs delivered
    disk,         \* "shut", "open", "closed" (by main) or "removed"
    tspc,         \* what print_timestamp_on_time() does next
    lpc,          \* what listen_loop() does next
    listening,    \* has listen() been called on sockfd, and not yet close()?
    conn,         \* its connection_socket_fd, or NoThread
    thread_list,  \* *g_thread_list_head
    hpc,          \* what each handle_connection() does next
    pending,      \* complete lines in its receive buffer
    client,       \* each client: "away", "connecting", "open", "fin", "reset"
    inbox,        \* segments sent to the server and not yet received
    sent          \* how many lines each client has sent

DF == INSTANCE DataFile WITH DiskMayFail <- "resources" \in Faults,
                             SigpipeIgnored <- FALSE

fileVars    == <<g_file_mutex, file, pos, step, served, echo, broken>>
flagVars    == <<live, run_flag, due_flag>>
signalVars  == <<handlers, armed, alarms, terms>>
mainVars    == <<main, disk>>
listenVars  == <<lpc, listening, conn>>
handlerVars == <<hpc, pending>>
clientVars  == <<client, inbox, sent>>
vars == <<proc, fileVars, peer, flagVars, signalVars, mainVars, tspc,
          listenVars, thread_list, handlerVars, clientVars>>

(* What one recv() returns: exactly buf_chunk_size bytes or fewer, and how *)
(* many newlines are among them.                                           *)
Segment == [full : BOOLEAN, lines : 0..MaxLines]

MainSteps == <<"init", "signals", "open", "socket", "daemon", "timer", "ts",
               "listen", "reap", "join_listen", "join_ts", "shutdown",
               "join_conns", "close_sock", "close_disk", "free_run",
               "free_due", "remove", "done">>

-----------------------------------------------------------------------------
Running == proc = "running"

(* exit(n) from any thread, or the death of the process.                   *)
Dies(how) ==
    /\ proc' = how
    /\ UNCHANGED <<fileVars, peer, flagVars, signalVars, mainVars, tspc,
                   listenVars, thread_list, handlerVars, clientVars>>

MayFail == "resources" \in Faults

-----------------------------------------------------------------------------
(* main()                                                                  *)

(* What no step of main() changes.                                       *)
notMain == <<fileVars, peer, alarms, terms, listening, conn, handlerVars,
             clientVars>>

At(pc) == Running /\ main = pc
Goto(pc) == main' = pc /\ UNCHANGED proc

InitFlags ==
    /\ At("init") /\ Goto("signals")
    /\ live' = {"run", "due"}
    /\ run_flag' = TRUE
    /\ due_flag' = FALSE
    /\ UNCHANGED <<notMain, handlers, armed, disk, tspc, lpc, thread_list>>

SetUpSignals ==
    /\ At("signals") /\ Goto("open")
    /\ handlers' = TRUE
    /\ UNCHANGED <<notMain, flagVars, armed, disk, tspc, lpc, thread_list>>

OpenDisk ==
    /\ At("open") /\ Goto("socket")
    /\ disk' = "open"
    /\ UNCHANGED <<notMain, flagVars, handlers, armed, tspc, lpc, thread_list>>

(* get_bound_socket() and daemon() *)
GetBoundSocket ==
    /\ \/ At("socket") /\ Goto("daemon")
       \/ At("daemon") /\ Goto("timer")
    /\ UNCHANGED <<notMain, flagVars, handlers, armed, disk, tspc, lpc,
                   thread_list>>

(* set_up_timestamp_timer(): setitimer() ... *)
SetTimer ==
    /\ At("timer") /\ Goto("ts")
    /\ armed' = TRUE
    /\ UNCHANGED <<notMain, flagVars, handlers, disk, tspc, lpc, thread_list>>

(* ... and pthread_create().  Its failure is only logged.                  *)
StartTimestamps ==
    /\ At("ts") /\ Goto("listen")
    /\ tspc' \in {"check"} \cup (IF MayFail THEN {"failed"} ELSE {})
    /\ UNCHANGED <<notMain, flagVars, handlers, armed, disk, lpc, thread_list>>

StartListening ==
    /\ At("listen") /\ Goto("reap")
    /\ lpc' = "check"
    /\ UNCHANGED <<notMain, flagVars, handlers, armed, disk, tspc,
                   thread_list>>

(* open(), socket(), bind(), daemon() or the listen thread's creation      *)
(* fails: exit().                                                          *)
StartFails ==
    /\ MayFail
    /\ \E pc \in {"open", "socket", "daemon", "listen"} : At(pc)
    /\ Dies("failed")

(* Mutant: the listen thread is not joined.                                *)
ReapWithoutListenJoin ==
    /\ \/ At("reap") /\ ~run_flag /\ Goto("join_ts")
       \/ At("join_ts") /\ tspc \in {"done", "failed"} /\ Goto("shutdown")
    /\ UNCHANGED <<notMain, flagVars, handlers, armed, disk, tspc, lpc,
                   thread_list>>

(* The reaper sees the run flag cleared; then pthread_join() of the listen *)
(* thread, and of the timestamp thread.  If the latter was never created   *)
(* its pthread_t is uninitialized: the join fails or crashes.              *)
Reap ==
    /\ \/ At("reap") /\ ~run_flag /\ Goto("join_listen")
       \/ At("join_listen") /\ lpc = "done" /\ Goto("join_ts")
       \/ At("join_ts") /\ tspc \in {"done", "failed"} /\ Goto("shutdown")
    /\ UNCHANGED <<notMain, flagVars, handlers, armed, disk, tspc, lpc,
                   thread_list>>

BadJoin == At("join_ts") /\ tspc = "failed" /\ Dies("killed")

(* shutdown_operations(): clear the run flag (again) ...                   *)
ShutdownOperations ==
    /\ At("shutdown") /\ Goto("join_conns")
    /\ run_flag' = FALSE
    /\ UNCHANGED <<notMain, live, due_flag, handlers, armed, disk, tspc, lpc,
                   thread_list>>

(* ... then join, unlink and free the first node until none is left.       *)
JoinConn ==
    /\ At("join_conns")
    /\ thread_list # <<>>
    /\ hpc[Head(thread_list)] = "done"
    /\ thread_list' = Tail(thread_list)
    /\ UNCHANGED <<notMain, proc, flagVars, handlers, armed, mainVars, tspc,
                   lpc>>

JoinedAll ==
    /\ At("join_conns") /\ Goto("close_sock")
    /\ thread_list = <<>>
    /\ UNCHANGED <<notMain, flagVars, handlers, armed, disk, tspc, lpc,
                   thread_list>>

(* close(sockfd), which listen_loop() has closed already: EBADF, ignored;  *)
(* then close(diskfd).                                                     *)
CloseFiles ==
    /\ \/ At("close_sock") /\ Goto("close_disk") /\ UNCHANGED disk
       \/ At("close_disk") /\ Goto("free_run") /\ disk' = "closed"
    /\ UNCHANGED <<notMain, flagVars, handlers, armed, tspc, lpc, thread_list>>

FreeFlags ==
    /\ \/ At("free_run") /\ Goto("free_due") /\ live' = live \ {"run"}
       \/ At("free_due") /\ Goto("remove")   /\ live' = live \ {"due"}
    /\ UNCHANGED <<notMain, run_flag, due_flag, handlers, armed, disk, tspc,
                   lpc, thread_list>>

(* remove(), whose failure is only logged, and the return from main().     *)
RemoveAndReturn ==
    /\ At("remove") /\ main' = "done"
    /\ proc' = "done"
    /\ disk' \in {"removed"} \cup (IF MayFail THEN {"closed"} ELSE {})
    /\ UNCHANGED <<notMain, flagVars, handlers, armed, tspc, lpc, thread_list>>

MainStep ==
    \/ InitFlags \/ SetUpSignals \/ OpenDisk \/ GetBoundSocket \/ SetTimer
    \/ StartTimestamps \/ StartListening \/ Reap \/ ShutdownOperations
    \/ JoinConn \/ JoinedAll \/ CloseFiles \/ FreeFlags \/ RemoveAndReturn

-----------------------------------------------------------------------------
(* print_timestamp_on_time()                                               *)

(* What no step of this thread changes.                                  *)
notTs == <<live, run_flag, handlers, armed, alarms, terms, mainVars,
           listenVars, thread_list, handlerVars, clientVars>>

TsAt(pc) == Running /\ tspc = pc

(* Mutants: the inner loop waits for the due flag only, or for the run     *)
(* flag only.                                                              *)
TsCheckDueOnly ==
    /\ \/ TsAt("check") /\ tspc' = IF run_flag THEN "wait" ELSE "done"
       \/ TsAt("wait") /\ due_flag /\ tspc' = "lock"
    /\ UNCHANGED <<notTs, proc, fileVars, peer, due_flag>>

TsCheckRunOnly ==
    /\ \/ TsAt("check") /\ tspc' = IF run_flag THEN "wait" ELSE "done"
       \/ TsAt("wait") /\ ~run_flag /\ tspc' = "lock"
    /\ UNCHANGED <<notTs, proc, fileVars, peer, due_flag>>

(* The outer loop's test, and the inner loop: it sleeps while the server   *)
(* runs and no timestamp is due, and ends when either changes.             *)
TsCheck ==
    /\ \/ TsAt("check") /\ tspc' = IF run_flag THEN "wait" ELSE "done"
       \/ TsAt("wait") /\ (~run_flag \/ due_flag) /\ tspc' = "lock"
    /\ UNCHANGED <<notTs, proc, fileVars, peer, due_flag>>

(* Mutants: no lock at all; no unlock.                                     *)
TsPrintUnlocked ==
    /\ TsAt("lock")
    /\ tspc' = "clear"
    /\ file' = Append(file, [by |-> TsThread, n |-> served[TsThread], part |-> "ts"])
    /\ pos' = Len(file')
    /\ served' = [served EXCEPT ![TsThread] = @ + 1]
    /\ UNCHANGED <<notTs, proc, g_file_mutex, step, echo, broken, peer,
                   due_flag>>

TsPrintKeepingLock ==
    /\ TsAt("lock")
    /\ \/ DF!TsLock /\ UNCHANGED tspc
       \/ DF!TsPrint /\ tspc' = "clear"
    /\ UNCHANGED <<notTs, due_flag>>

TsPrint ==
    /\ TsAt("lock")
    /\ \/ DF!TsLock /\ UNCHANGED tspc
       \/ DF!TsPrint /\ UNCHANGED tspc
       \/ DF!TsUnlock /\ tspc' = "clear"
    /\ UNCHANGED <<notTs, due_flag>>

(* Mutant: the due flag is not reset.                                      *)
TsClearForgotten ==
    /\ TsAt("clear") /\ tspc' = "check"
    /\ UNCHANGED <<notTs, proc, fileVars, peer, due_flag>>

(* atomic_store(_timestamp_due_flag, false) *)
TsClear ==
    /\ TsAt("clear") /\ tspc' = "check"
    /\ due_flag' = FALSE
    /\ UNCHANGED <<notTs, proc, fileVars, peer>>

TsStep == TsCheck \/ TsPrint \/ TsClear

-----------------------------------------------------------------------------
(* listen_loop()                                                           *)

(* What no step of this thread changes.                                  *)
notListen == <<fileVars, peer, flagVars, signalVars, mainVars, tspc, pending,
               inbox, sent>>

ListenAt(pc) == Running /\ lpc = pc

(* The outer loop's test; close(sockfd) when it fails.                     *)
ListenCheck ==
    /\ ListenAt("check")
    /\ lpc' = IF run_flag THEN "listen" ELSE "done"
    /\ listening' = (listening /\ run_flag)
    /\ UNCHANGED <<notListen, proc, conn, thread_list, hpc, client>>

(* listen(), or the run flag seen cleared; connection_socket_fd = -1.      *)
Listen ==
    /\ ListenAt("listen")
    /\ lpc' = "accept"
    /\ listening' = (listening \/ run_flag)
    /\ conn' = NoThread
    /\ UNCHANGED <<notListen, proc, thread_list, hpc, client>>

(* The accept loop's test of the flag.                                     *)
AcceptCheck ==
    /\ ListenAt("accept")
    /\ lpc' = IF run_flag THEN "accepting" ELSE "recheck"
    /\ UNCHANGED <<notListen, proc, listening, conn, thread_list, hpc, client>>

(* Mutant: EAGAIN is taken for a failure and ends the thread.              *)
AcceptOnce ==
    /\ ListenAt("accepting")
    /\ \/ \E c \in Conns :
            /\ client[c] = "connecting"
            /\ conn' = c
            /\ client' = [client EXCEPT ![c] = "open"]
            /\ lpc' = "recheck"
       \/ /\ \A c \in Conns : client[c] # "connecting"
          /\ lpc' = "done"
          /\ UNCHANGED <<conn, client>>
    /\ UNCHANGED <<notListen, proc, listening, thread_list, hpc>>

(* accept() on the non-blocking socket returns a connection, or EAGAIN: in *)
(* that case the loop sleeps and goes round.                               *)
Accept ==
    /\ ListenAt("accepting")
    /\ \/ \E c \in Conns :
            /\ client[c] = "connecting"
            /\ conn' = c
            /\ client' = [client EXCEPT ![c] = "open"]
            /\ lpc' = "recheck"
       \/ /\ \A c \in Conns : client[c] # "connecting"
          /\ lpc' = "accept"
          /\ UNCHANGED <<conn, client>>
    /\ UNCHANGED <<notListen, proc, listening, thread_list, hpc>>

(* The test after the loop: when the flag is cleared, close(sockfd) and    *)
(* return, whether or not a connection has been accepted.                  *)
ListenRecheck ==
    /\ ListenAt("recheck")
    /\ lpc' = IF run_flag THEN "create" ELSE "done"
    /\ listening' = run_flag
    /\ UNCHANGED <<notListen, proc, conn, thread_list, hpc, client>>

(* Mutant: the failure of pthread_create() goes unnoticed.                 *)
CreateHandlerUnchecked ==
    /\ ListenAt("create")
    /\ lpc' = "add"
    /\ hpc' \in {hpc, [hpc EXCEPT ![conn] = "recv"]}
    /\ UNCHANGED <<notListen, proc, listening, conn, thread_list, client>>

(* pthread_create() of handle_connection() *)
CreateHandler ==
    /\ ListenAt("create")
    /\ lpc' = "add"
    /\ hpc' = [hpc EXCEPT ![conn] = "recv"]
    /\ UNCHANGED <<notListen, proc, listening, conn, thread_list, client>>

(* Mutant: the head of the list is overwritten.                            *)
AddThreadAlone ==
    /\ ListenAt("add")
    /\ lpc' = "check"
    /\ thread_list' = <<conn>>
    /\ UNCHANGED <<notListen, proc, listening, conn, hpc, client>>

(* add_thread_to_list() *)
AddThreadToList ==
    /\ ListenAt("add")
    /\ lpc' = "check"
    /\ thread_list' = <<conn>> \o thread_list
    /\ UNCHANGED <<notListen, proc, listening, conn, hpc, client>>

(* listen(), accept(), malloc() or pthread_create() fails: exit(); malloc()*)
(* in add_thread_to_list() fails: the null pointer is dereferenced.        *)
ListenFails ==
    /\ MayFail
    /\ \/ ListenAt("listen") /\ run_flag /\ Dies("failed")
       \/ ListenAt("accepting") /\ Dies("failed")
       \/ ListenAt("create") /\ Dies("failed")
       \/ ListenAt("add") /\ Dies("killed")

ListenStep ==
    \/ ListenCheck \/ Listen \/ AcceptCheck \/ Accept \/ ListenRecheck
    \/ CreateHandler \/ AddThreadToList

-----------------------------------------------------------------------------
(* handle_connection() and read_until_stop_condition()                     *)

(* What no step of a handler changes.                                    *)
notHandler == <<flagVars, signalVars, mainVars, tspc, listenVars, thread_list,
                client, sent>>

HandlerAt(c, pc) == Running /\ hpc[c] = pc

(* recv() returns data: a full chunk makes the buffer grow and the loop go *)
(* round, a short one ends it and the lines received are served.           *)
Recv(c) ==
    /\ HandlerAt(c, "recv")
    /\ inbox[c] # <<>>
    /\ LET seg == Head(inbox[c]) IN
         /\ hpc' = [hpc EXCEPT ![c] = IF seg.full THEN "recv" ELSE "packets"]
         /\ pending' = [pending EXCEPT ![c] = @ + seg.lines]
    /\ inbox' = [inbox EXCEPT ![c] = Tail(@)]
    /\ UNCHANGED <<notHandler, proc, fileVars, peer>>

(* Mutant: the end of the data is taken for a failure, with NULL returned. *)
RecvEofAsFailure(c) ==
    /\ HandlerAt(c, "recv")
    /\ inbox[c] = <<>>
    /\ client[c] = "fin"
    /\ Dies("killed")

(* recv() returns 0: the function returns without looking for lines, and   *)
(* handle_connection() drops what the buffer holds.                        *)
RecvEof(c) ==
    /\ HandlerAt(c, "recv")
    /\ inbox[c] = <<>>
    /\ client[c] = "fin"
    /\ hpc' = [hpc EXCEPT ![c] = "close"]
    /\ UNCHANGED <<notHandler, proc, fileVars, peer, pending, inbox>>

(* recv() returns -1: read_until_stop_condition() returns NULL, which      *)
(* handle_connection() passes on to a function that dereferences it.       *)
RecvFails(c) ==
    /\ HandlerAt(c, "recv")
    /\ inbox[c] = <<>>
    /\ client[c] = "reset"
    /\ Dies("killed")

(* Mutant: one token too many is looked for.                               *)
HandlePacketTooMany(c) ==
    /\ HandlerAt(c, "packets")
    /\ pending[c] >= 0
    /\ \/ (DF!LockForPacket(c) \/ DF!PacketStep(c)) /\ UNCHANGED pending
       \/ DF!UnlockAfterPacket(c) /\ pending' = [pending EXCEPT ![c] = @ - 1]
    /\ UNCHANGED <<notHandler, hpc, inbox>>

(* One token from the buffer, one handle_packet().                         *)
HandlePacket(c) ==
    /\ HandlerAt(c, "packets")
    /\ pending[c] > 0
    /\ \/ (DF!LockForPacket(c) \/ DF!PacketStep(c)) /\ UNCHANGED pending
       \/ DF!UnlockAfterPacket(c) /\ pending' = [pending EXCEPT ![c] = @ - 1]
    /\ UNCHANGED <<notHandler, hpc, inbox>>

(* Mutant: `if` for `while`.                                               *)
PacketsDoneEarly(c) ==
    /\ HandlerAt(c, "packets")
    /\ step[c] = "out"
    /\ hpc' = [hpc EXCEPT ![c] = "close"]
    /\ UNCHANGED <<notHandler, proc, fileVars, peer, pending, inbox>>

(* The loop over the tokens ends: none is left, or there is no memory for  *)
(* the next one.                                                           *)
PacketsDone(c) ==
    /\ HandlerAt(c, "packets")
    /\ step[c] = "out"
    /\ pending[c] = 0 \/ MayFail
    /\ hpc' = [hpc EXCEPT ![c] = "close"]
    /\ UNCHANGED <<notHandler, proc, fileVars, peer, pending, inbox>>

(* calloc() or realloc() of the receive buffer fails: exit().              *)
BufferFails(c) == MayFail /\ HandlerAt(c, "recv") /\ Dies("failed")

(* close(sockfd) and the thread's return.                                  *)
CloseConnection(c) ==
    /\ HandlerAt(c, "close")
    /\ hpc' = [hpc EXCEPT ![c] = "done"]
    /\ UNCHANGED <<notHandler, proc, fileVars, peer, pending, inbox>>

HandlerStep(c) ==
    \/ Recv(c) \/ RecvEof(c) \/ RecvFails(c) \/ HandlePacket(c)
    \/ PacketsDone(c) \/ CloseConnection(c)

-----------------------------------------------------------------------------
(* signal_handler(), run at any point of any thread.  A flag that has been *)
(* freed is written all the same: the store goes to the heap's own data,   *)
(* and the process may or may not survive it.                              *)

(* What no signal changes.                                               *)
notSignal == <<fileVars, peer, live, handlers, armed, mainVars, tspc,
               listenVars, thread_list, handlerVars, clientVars>>

StoreFlag(f) == proc' \in IF f \in live THEN {proc} ELSE {proc, "killed"}

SigTerm ==
    /\ Running
    /\ terms < MaxTerms
    /\ terms' = terms + 1
    /\ IF handlers
       THEN /\ StoreFlag("run")
            /\ run_flag' = IF "run" \in live THEN FALSE ELSE run_flag
       ELSE proc' = "killed" /\ UNCHANGED run_flag
    /\ UNCHANGED <<notSignal, due_flag, alarms>>

SigAlrm ==
    /\ Running
    /\ armed
    /\ alarms < MaxAlarms
    /\ alarms' = alarms + 1
    /\ StoreFlag("due")
    /\ due_flag' = IF "due" \in live THEN TRUE ELSE due_flag
    /\ UNCHANGED <<notSignal, run_flag, terms>>

-----------------------------------------------------------------------------
(* The clients (external): each connects once, sends some segments and     *)
(* shuts its side down, waits, or resets the connection.  What a client    *)
(* sends when its handler receives no more is read by nobody; whether it   *)
(* reads matters only to a handler that writes to it.                      *)

Connected(c) == Running /\ client[c] \in {"open", "fin"} /\ hpc[c] # "done"

Heard(c) == Running /\ client[c] = "open" /\ hpc[c] \in {"none", "recv"}

serverVars == <<fileVars, flagVars, signalVars, mainVars, tspc, listenVars,
                thread_list, handlerVars>>

ClientConnects(c) ==
    /\ Running
    /\ listening
    /\ client[c] = "away"
    /\ client' = [client EXCEPT ![c] = "connecting"]
    /\ UNCHANGED <<proc, peer, serverVars, inbox, sent>>

ClientSends(c) ==
    /\ Heard(c)
    /\ Len(inbox[c]) < MaxSegments
    /\ \E seg \in Segment :
         /\ sent[c] + seg.lines <= MaxLines
         /\ sent' = [sent EXCEPT ![c] = @ + seg.lines]
         /\ inbox' = [inbox EXCEPT ![c] = Append(@, seg)]
    /\ UNCHANGED <<proc, peer, serverVars, client>>

ClientShutsDown(c) ==
    /\ Heard(c)
    /\ client' = [client EXCEPT ![c] = "fin"]
    /\ UNCHANGED <<proc, peer, serverVars, inbox, sent>>

ClientStalls(c) ==
    /\ "stall" \in Faults
    /\ Connected(c) /\ step[c] = "copy"
    /\ DF!PeerChanges(c) /\ peer'[c] = "stalled"
    /\ UNCHANGED <<serverVars, clientVars>>

ClientReads(c) ==
    /\ Connected(c)
    /\ DF!PeerChanges(c) /\ peer'[c] = "reading"
    /\ UNCHANGED <<serverVars, clientVars>>

ClientCloses(c) ==
    /\ "close" \in Faults
    /\ Connected(c)
    /\ DF!PeerChanges(c) /\ peer'[c] = "gone"
    /\ client' = [client EXCEPT ![c] = "fin"]
    /\ UNCHANGED <<serverVars, inbox, sent>>

ClientResets(c) ==
    /\ "reset" \in Faults
    /\ Connected(c)
    /\ DF!PeerChanges(c) /\ peer'[c] = "gone"
    /\ client' = [client EXCEPT ![c] = "reset"]
    /\ UNCHANGED <<serverVars, inbox, sent>>

ClientStep(c) ==
    \/ ClientConnects(c) \/ ClientSends(c) \/ ClientShutsDown(c)
    \/ ClientStalls(c) \/ ClientReads(c) \/ ClientCloses(c) \/ ClientResets(c)

-----------------------------------------------------------------------------
Terminated == ~Running /\ UNCHANGED vars

Init ==
    /\ DF!Init
    /\ main = "init"
    /\ live = {}
    /\ run_flag = FALSE
    /\ due_flag = FALSE
    /\ handlers = FALSE
    /\ armed = FALSE
    /\ alarms = 0
    /\ terms = 0
    /\ disk = "shut"
    /\ tspc = "none"
    /\ lpc = "none"
    /\ listening = FALSE
    /\ conn = NoThread
    /\ thread_list = <<>>
    /\ hpc = [c \in Conns |-> "none"]
    /\ pending = [c \in Conns |-> 0]
    /\ client = [c \in Conns |-> "away"]
    /\ inbox = [c \in Conns |-> <<>>]
    /\ sent = [c \in Conns |-> 0]

Next ==
    \/ MainStep \/ StartFails \/ BadJoin
    \/ TsStep
    \/ ListenStep \/ ListenFails
    \/ \E c \in Conns : HandlerStep(c) \/ BufferFails(c) \/ ClientStep(c)
    \/ SigTerm
    \/ SigAlrm
    \/ Terminated

EchoStep(c) == step[c] = "copy" /\ HandlePacket(c)

(* Every thread that can run is scheduled eventually.  A write that blocks *)
(* is woken when the client reads, and the room it made in the socket's    *)
(* buffer stays until the write uses it: hence strong fairness.            *)
ServerFairness ==
    /\ WF_vars(MainStep)
    /\ WF_vars(TsStep)
    /\ WF_vars(ListenStep)
    /\ \A c \in Conns : WF_vars(HandlerStep(c)) /\ SF_vars(EchoStep(c))

(* A client that has connected sends no more at some point and says so,    *)
(* and goes on reading.                                                    *)
ClientFairness ==
    \A c \in Conns : WF_vars(ClientShutsDown(c)) /\ WF_vars(ClientReads(c))

Spec == Init /\ [][Next]_vars

-----------------------------------------------------------------------------
(* Properties                                                              *)

TypeOK ==
    /\ DF!TypeOK
    /\ main \in ToSet(MainSteps)
    /\ live \subseteq {"run", "due"}
    /\ {run_flag, due_flag, handlers, armed, listening}
         \subseteq BOOLEAN
    /\ alarms \in 0..MaxAlarms
    /\ terms \in 0..MaxTerms
    /\ disk \in {"shut", "open", "closed", "removed"}
    /\ tspc \in {"none", "failed", "check", "wait", "lock", "clear", "done"}
    /\ lpc \in {"none", "check", "listen", "accept", "accepting", "recheck",
                "create", "add", "done"}
    /\ conn \in Conns \cup {NoThread}
    /\ thread_list \in Seq(Conns)
    /\ hpc \in [Conns -> {"none", "recv", "packets", "close", "done"}]
    /\ pending \in [Conns -> 0..MaxLines]
    /\ client \in [Conns -> {"away", "connecting", "open", "fin", "reset"}]
    /\ inbox \in [Conns -> Seq(Segment)]
    /\ sent \in [Conns -> 0..MaxLines]

(* Once main() starts to close descriptors and free the flags, no thread   *)
(* that could use them is left and nobody holds the mutex, however late a  *)
(* connection was accepted.                                                *)
CleanupIsAlone ==
    main \in {"close_sock", "close_disk", "free_run", "free_due", "remove", "done"} =>
        /\ lpc = "done" /\ tspc \in {"done", "failed"}
        /\ \A c \in Conns : hpc[c] \in {"none", "done"}
        /\ g_file_mutex = NoThread

(* The unsynchronized list of threads knows every handler that is running, *)
(* except the one the listen thread is about to add, and none twice; main  *)
(* takes nodes off it only when the listen thread adds no more.            *)
HandlersListed ==
    /\ \A c \in Conns : hpc[c] \notin {"none", "done"} =>
          c \in ToSet(thread_list) \/ (lpc = "add" /\ conn = c)
    /\ IsInjective(thread_list)
    /\ main = "join_conns" => lpc = "done"

(* Every connection the server has accepted is in the hands of a handler,  *)
(* or of the listen thread; the latter lets go of one at most, and only    *)
(* when the server shuts down.                                             *)
AcceptedAreHandled ==
    \A c \in Conns : (client[c] \notin {"away", "connecting"} /\ hpc[c] = "none") =>
        /\ conn = c
        /\ lpc \in {"recheck", "create"} \/ (lpc = "done" /\ ~run_flag)

(* A timestamp is printed only for an alarm, but for at most one more that *)
(* the shutdown causes.                                                    *)
TimestampsBounded ==
    served[TsThread] <= alarms + (IF run_flag THEN 0 ELSE 1)

(* While memory lasts, a handler leaves complete lines of its buffer       *)
(* unserved only if the client shut down after a full chunk.               *)
LinesDroppedOnlyAtEof ==
    ~MayFail =>
      \A c \in Conns : (hpc[c] \in {"close", "done"} /\ pending[c] > 0) =>
        client[c] \in {"fin", "reset"} /\ served[c] = 0

(* The threads of the server use the data file and its mutex as module     *)
(* DataFile says, until the process ends: what is proved there holds here. *)
UsesDataFile == DF!Spec

(* A client that connects is accepted while the server runs.               *)
ConnectionsAccepted ==
    \A c \in Conns : (client[c] = "connecting" /\ lpc # "none")
                         ~> (client[c] # "connecting" \/ ~run_flag \/ ~Running)

(* A handler that has received lines serves them and ends, although every  *)
(* handler and the timestamp thread compete for one mutex.                 *)
PacketsServed ==
    \A c \in Conns : hpc[c] = "packets" ~> (hpc[c] = "done" \/ ~Running)

(* A timestamp that is due is printed, or the server ends.                 *)
DueTimestampPrinted == due_flag ~> (~due_flag \/ ~Running)

(* After SIGINT or SIGTERM the server cleans up and terminates.            *)
(* signal_handle.c:26: "When it clears, we don't do another loop of        *)
(* listen(), accept(), etc: We clean up and terminate."                    *)
ShutdownCompletes == (main = "reap" /\ ~run_flag) ~> ~Running

(* No client ends the server: while the run flag is set and the listen     *)
(* thread exists, the process lives.  Clients that behave keep this, a     *)
(* client that resets its connection does not.                             *)
(* server.c:123: "Listens as long as the run flag is operational."         *)
ListensWhileRunning ==
    (lpc \notin {"none", "done"} /\ run_flag) => Running
=============================================================================
