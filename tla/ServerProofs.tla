---------------------------- MODULE ServerProofs ----------------------------
(***************************************************************************)
(* TLAPS proofs about Server, for any number of connections, lines,        *)
(* segments, alarms and signals, and for any set of faults.                *)
(***************************************************************************)
EXTENDS Server, TLAPS

(* DataFile again, with the theorems about it.                             *)
DFP == INSTANCE DataFileProofs WITH DiskMayFail <- "resources" \in Faults,
                                    SigpipeIgnored <- FALSE

-----------------------------------------------------------------------------
(* What the steps of each thread leave alone.                              *)
allButProc == <<fileVars, peer, flagVars, signalVars, mainVars, tspc,
                listenVars, thread_list, handlerVars, clientVars>>

(* Everything but the steps of the threads, clients and signals at most    *)
(* ends the process.                                                       *)
LEMMA StepCases ==
    ASSUME [Next]_vars
    PROVE  \/ UNCHANGED allButProc
           \/ MainStep \/ TsStep \/ ListenStep \/ SigTerm \/ SigAlrm
           \/ \E c \in Conns : \/ Recv(c) \/ RecvEof(c) \/ HandlePacket(c)
                               \/ PacketsDone(c) \/ CloseConnection(c)
                               \/ ClientStep(c)
<1> USE DEF allButProc, Dies
<1>1. CASE UNCHANGED vars \/ Terminated
  BY <1>1 DEF Terminated, vars
<1>2. CASE StartFails \/ BadJoin \/ ListenFails
  BY <1>2 DEF StartFails, BadJoin, ListenFails
<1>3. ASSUME NEW c \in Conns, BufferFails(c) \/ RecvFails(c)
      PROVE  UNCHANGED allButProc
  BY <1>3 DEF BufferFails, RecvFails
<1> QED
  BY <1>1, <1>2, <1>3 DEF Next, HandlerStep

(* What each thread's steps never touch.                                   *)
LEMMA MainFrame ==
    ASSUME MainStep
    PROVE  /\ UNCHANGED <<fileVars, peer, alarms, terms, listening, conn, hpc,
                          pending, client, inbox, sent>>
           /\ JoinConn \/ UNCHANGED thread_list
BY DEF MainStep, notMain, handlerVars, clientVars, InitFlags, SetUpSignals,
       OpenDisk, GetBoundSocket, SetTimer, StartTimestamps, StartListening,
       Reap, ShutdownOperations, JoinedAll, CloseFiles, FreeFlags,
       RemoveAndReturn, JoinConn

(* What steps of the timestamp thread leave alone.                         *)
LEMMA TsFrame ==
    ASSUME TsStep
    PROVE  UNCHANGED <<peer, live, run_flag, handlers, armed, alarms, terms, main,
                       disk, lpc, listening, conn, thread_list, hpc, pending,
                       client, inbox, sent>>
BY DEF TsStep, TsCheck, TsPrint, TsClear, notTs, mainVars, listenVars,
       handlerVars, clientVars, fileVars, DF!TsLock, DF!TsPrint, DF!TsUnlock

(* What steps of the listen thread leave alone.                            *)
LEMMA ListenFrame ==
    ASSUME ListenStep
    PROVE  UNCHANGED <<fileVars, peer, live, run_flag, due_flag, handlers, armed,
                       alarms, terms, main, disk, tspc, pending, inbox, sent>>
BY DEF ListenStep, ListenCheck, Listen, AcceptCheck, Accept, ListenRecheck,
       CreateHandler, AddThreadToList, notListen, flagVars, signalVars, mainVars

(* What steps of a handler leave alone.                                    *)
LEMMA HandlerFrame ==
    ASSUME NEW c \in Conns,
           \/ Recv(c) \/ RecvEof(c) \/ HandlePacket(c) \/ PacketsDone(c)
           \/ CloseConnection(c)
    PROVE  UNCHANGED <<peer, live, run_flag, due_flag, handlers, armed, alarms,
                       terms, main, disk, tspc, lpc, listening, conn,
                       thread_list, client, sent>>
BY DEF Recv, RecvEof, HandlePacket, PacketsDone, CloseConnection, notHandler,
       flagVars, signalVars, mainVars, listenVars, DF!LockForPacket,
       DF!UnlockAfterPacket, DF!PacketStep, DF!WriteMessage, DF!WriteNewline,
       DF!Rewind, DF!CopyChunk, DF!SocketWriteFails, DF!CopyEnds, DF!SeekEnd,
       DF!SeekFails

(* What clients leave alone.                                               *)
LEMMA ClientFrame ==
    ASSUME NEW c \in Conns, ClientStep(c)
    PROVE  UNCHANGED <<proc, g_file_mutex, file, pos, step, served, echo, broken,
                       flagVars, signalVars, mainVars, tspc, lpc, listening,
                       conn, thread_list, hpc, pending>>
BY DEF ClientStep, ClientConnects, ClientSends, ClientShutsDown, ClientStalls,
       ClientReads, ClientCloses, ClientResets, serverVars, fileVars,
       listenVars, handlerVars, DF!PeerChanges

(* What signals leave alone.                                               *)
LEMMA SignalFrame ==
    ASSUME SigTerm \/ SigAlrm
    PROVE  UNCHANGED <<fileVars, peer, live, handlers, armed, main, disk, tspc,
                       lpc, listening, conn, thread_list, hpc, pending, client,
                       inbox, sent>>
BY DEF SigTerm, SigAlrm, notSignal, mainVars, listenVars, handlerVars, clientVars

(* A handler's critical section moves nobody else; its end is the end of   *)
(* one of the handler's lines.                                             *)
LEMMA PacketEffect ==
    ASSUME DF!TypeOK, NEW c \in Conns, HandlePacket(c)
    PROVE  /\ hpc[c] = "packets" /\ UNCHANGED <<hpc, inbox>>
           /\ \A t \in DF!Threads \ {c} : step'[t] = step[t] /\ served'[t] = served[t]
           /\ \/ UNCHANGED <<served, pending>>
              \/ /\ pending[c] > 0
                 /\ served'[c] = served[c] + 1
                 /\ pending' = [pending EXCEPT ![c] = @ - 1]
<1>1. hpc[c] = "packets" /\ pending[c] > 0 /\ UNCHANGED <<hpc, inbox>>
  BY DEF HandlePacket, HandlerAt
<1>2. CASE DF!LockForPacket(c) /\ UNCHANGED pending
  BY <1>1, <1>2 DEF DF!LockForPacket, DF!Move, DF!TypeOK, DF!Threads
<1>3. CASE DF!PacketStep(c) /\ UNCHANGED pending
  BY <1>1, <1>3 DEF DF!PacketStep, DF!WriteMessage, DF!WriteNewline, DF!Rewind,
     DF!CopyChunk, DF!SocketWriteFails, DF!CopyEnds, DF!SeekEnd, DF!SeekFails,
     DF!Move, DF!TypeOK, DF!Threads
<1>4. CASE DF!UnlockAfterPacket(c) /\ pending' = [pending EXCEPT ![c] = @ - 1]
  BY <1>1, <1>4
  DEF DF!UnlockAfterPacket, DF!Move, DF!Unlock, DF!TypeOK, DF!Threads
<1> QED
  BY <1>2, <1>3, <1>4 DEF HandlePacket

(* So does that of the timestamp thread; its end is one timestamp.         *)
LEMMA TsEffect ==
    ASSUME DF!TypeOK, TsPrint
    PROVE  /\ tspc = "lock" /\ UNCHANGED due_flag
           /\ \A c \in Conns : step'[c] = step[c] /\ served'[c] = served[c]
           /\ \/ UNCHANGED <<tspc, served>>
              \/ /\ tspc' = "clear"
                 /\ step'[TsThread] = "out"
                 /\ served'[TsThread] = served[TsThread] + 1
BY ServerAssumption
DEF TsPrint, TsAt, DF!TsLock, DF!TsPrint, DF!TsUnlock, DF!Move, DF!Unlock,
    DF!TypeOK, DF!Threads

-----------------------------------------------------------------------------
(* Every step of the server is one of the data file's, ends the process,   *)
(* or touches neither the file nor its mutex.                              *)
LEMMA StepUsesDataFile == [Next]_vars => [DF!Next]_(DF!dfvars)
<1> SUFFICES ASSUME [Next]_vars PROVE [DF!Next]_(DF!dfvars)
  OBVIOUS
<1> USE DEF fileVars, DF!dfvars, Running, DF!Running
<1>1. CASE UNCHANGED vars \/ Terminated
  BY <1>1 DEF vars, Terminated
<1>2. CASE StartFails \/ BadJoin \/ ListenFails
  BY <1>2 DEF StartFails, BadJoin, ListenFails, Dies, At, ListenAt,
              DF!ProcessEnds, DF!Next
<1>3. CASE MainStep
  <2>1. CASE RemoveAndReturn
    BY <2>1 DEF RemoveAndReturn, At, notMain, DF!ProcessEnds, DF!Next
  <2>2. CASE ~RemoveAndReturn
    <3>1. UNCHANGED proc
      BY <1>3, <2>2
      DEF MainStep, InitFlags, SetUpSignals, OpenDisk, GetBoundSocket, SetTimer,
          StartTimestamps, StartListening, Reap, ShutdownOperations, JoinConn,
          JoinedAll, CloseFiles, FreeFlags, Goto
    <3> QED
      BY <1>3, <3>1, MainFrame
  <2> QED
    BY <2>1, <2>2
<1>4. CASE TsStep
  BY <1>4 DEF TsStep, TsCheck, TsPrint, TsClear, DF!Next
<1>5. CASE ListenStep
  BY <1>5 DEF ListenStep, ListenCheck, Listen, AcceptCheck, Accept,
              ListenRecheck, CreateHandler, AddThreadToList, notListen
<1>6. ASSUME NEW c \in Conns, HandlerStep(c) PROVE [DF!Next]_(DF!dfvars)
  <2>1. CASE RecvFails(c)
    BY <2>1 DEF RecvFails, HandlerAt, Dies, DF!ProcessEnds, DF!Next
  <2>2. CASE HandlePacket(c)
    BY <2>2 DEF HandlePacket, DF!Next
  <2> QED
    BY <1>6, <2>1, <2>2
    DEF HandlerStep, Recv, RecvEof, PacketsDone, CloseConnection
<1>7. ASSUME NEW c \in Conns, BufferFails(c) PROVE [DF!Next]_(DF!dfvars)
  BY <1>7 DEF BufferFails, HandlerAt, Dies, DF!ProcessEnds, DF!Next
<1>8. ASSUME NEW c \in Conns, ClientStep(c) PROVE [DF!Next]_(DF!dfvars)
  BY <1>8 DEF ClientStep, ClientConnects, ClientSends, ClientShutsDown,
              ClientStalls, ClientReads, ClientCloses, ClientResets,
              serverVars, DF!Next
<1>9. CASE SigTerm \/ SigAlrm
  BY <1>9 DEF SigTerm, SigAlrm, StoreFlag, notSignal, DF!ProcessEnds, DF!Next
<1> QED
  BY <1>1, <1>2, <1>3, <1>4, <1>5, <1>6, <1>7, <1>8, <1>9 DEF Next

(* The threads of the server use the data file as DataFile says.           *)
THEOREM UsesDataFileCorrect == Spec => UsesDataFile
<1>1. Init => DF!Init
  BY DEF Init
<1> QED
  BY <1>1, StepUsesDataFile, PTL DEF Spec, UsesDataFile, DF!Spec

(* What DataFileProofs shows for any number of threads, whatever fails,    *)
(* hence holds in the server.                                              *)
LEMMA SameDataFile == DF!Spec => DFP!Spec
<1>1. DF!Init => DFP!Init
  BY DEF DF!Init, DFP!Init, DF!Threads, DFP!Threads, DF!Leftover, DFP!Leftover
<1>2. [DF!Next]_(DF!dfvars) => [DFP!Next]_(DFP!dfvars)
  BY DEF DF!Next, DF!dfvars, DF!Running, DF!Move, DF!Lock, DF!Unlock,
    DF!AppendPiece, DF!Breaks, DF!Record, DF!ReadSize, DF!LockForPacket,
    DF!PacketStep, DF!WriteMessage, DF!WriteNewline, DF!Rewind, DF!CopyChunk,
    DF!SocketWriteFails, DF!CopyEnds, DF!SeekEnd, DF!SeekFails,
    DF!UnlockAfterPacket, DF!PeerChanges, DF!TsLock, DF!TsPrint, DF!TsUnlock,
    DF!ProcessEnds, DF!Terminated,
    DFP!Next, DFP!dfvars, DFP!Running, DFP!Move, DFP!Lock, DFP!Unlock,
    DFP!AppendPiece, DFP!Breaks, DFP!Record, DFP!ReadSize, DFP!LockForPacket,
    DFP!PacketStep, DFP!WriteMessage, DFP!WriteNewline, DFP!Rewind,
    DFP!CopyChunk, DFP!SocketWriteFails, DFP!CopyEnds, DFP!SeekEnd,
    DFP!SeekFails, DFP!UnlockAfterPacket, DFP!PeerChanges, DFP!TsLock,
    DFP!TsPrint, DFP!TsUnlock, DFP!ProcessEnds, DFP!Terminated
<1> QED
  BY <1>1, <1>2, PTL DEF DF!Spec, DFP!Spec

(* The constants DataFile gets from Server are as it assumes them.         *)
LEMMA FileAssumption == DFP!DataFileAssumption
BY ServerAssumption DEF DFP!DataFileAssumption, DFP!Threads

(* DataFile's TypeCorrect, for the file inside the server.                 *)
LEMMA FileType == Spec => []DF!TypeOK
<1>1. DFP!TypeOK => DF!TypeOK
  BY DEF DFP!TypeOK, DF!TypeOK, DFP!Threads, DF!Threads, DFP!Piece, DF!Piece,
         DFP!Parts, DF!Parts, DFP!ConnSteps, DF!ConnSteps, DFP!TsSteps, DF!TsSteps
<1>2. DFP!Spec => []DFP!TypeOK
  BY FileAssumption, DFP!TypeCorrect
<1> QED
  BY <1>1, <1>2, UsesDataFileCorrect, SameDataFile, PTL DEF UsesDataFile

(* DataFile's MutexCorrect, for the mutex inside the server.               *)
LEMMA FileMutex == Spec => []DF!MutualExclusion
<1>1. DFP!MutualExclusion => DF!MutualExclusion
  BY DEF DFP!MutualExclusion, DF!MutualExclusion, DFP!Threads, DF!Threads
<1>2. DFP!Spec => []DFP!MutualExclusion
  BY FileAssumption, DFP!MutexCorrect
<1> QED
  BY <1>1, <1>2, UsesDataFileCorrect, SameDataFile, PTL DEF UsesDataFile

(* In the server, too, threads exclude each other, lines are whole, and a  *)
(* client is sent the file with its own line at the end: a handler of      *)
(* server.c that is about to unlock g_file_mutex has sent everything.      *)
THEOREM ServerFileCorrect ==
    Spec => [](/\ DF!MutualExclusion
               /\ DF!LinesComplete
               /\ DF!RecordsContiguous
               /\ DF!ReplyIsSnapshot
               /\ DF!RepliesAgree)
<1>1. DFP!LinesComplete => DF!LinesComplete
  BY DEF DFP!LinesComplete, DF!LinesComplete
<1>2. DFP!RecordsContiguous => DF!RecordsContiguous
  BY DEF DFP!RecordsContiguous, DF!RecordsContiguous
<1>3. DFP!ReplyIsSnapshot => DF!ReplyIsSnapshot
  BY DEF DFP!ReplyIsSnapshot, DF!ReplyIsSnapshot, DFP!Record, DF!Record
<1>4. DFP!RepliesAgree => DF!RepliesAgree
  BY DEF DFP!RepliesAgree, DF!RepliesAgree, DFP!IsPrefix, DF!IsPrefix
<1>5. DFP!Spec => []DFP!LinesComplete
  BY FileAssumption, DFP!LinesCompleteCorrect
<1>6. DFP!Spec => []DFP!RecordsContiguous
  BY FileAssumption, DFP!RecordsCorrect
<1>7. DFP!Spec => []DFP!ReplyIsSnapshot
  BY FileAssumption, DFP!ReplyCorrect
<1>8. DFP!Spec => []DFP!RepliesAgree
  BY FileAssumption, DFP!RepliesAgreeCorrect
<1> QED
  BY <1>1, <1>2, <1>3, <1>4, <1>5, <1>6, <1>7, <1>8, UsesDataFileCorrect,
     SameDataFile, FileMutex, PTL DEF UsesDataFile
-----------------------------------------------------------------------------
(* The inductive invariants.                                               *)

(* Where main() is: before it has created the timestamp thread, the listen *)
(* thread; after it has joined the listen thread, the timestamp thread,    *)
(* the handlers.                                                           *)
BeforeTs     == {"init", "signals", "open", "socket", "daemon", "timer", "ts"}
BeforeListen == BeforeTs \cup {"listen"}
Cleanup      == {"close_sock", "close_disk", "free_run", "free_due", "remove",
                 "done"}
TsJoined     == {"shutdown", "join_conns"} \cup Cleanup
ListenJoined == {"join_ts"} \cup TsJoined

(* The lines a handler has received, those in each segment on its way, and *)
(* those the client has sent add up: before[i] is what lies before segment *)
(* i of those on their way.                                                *)
LinesAddUp(c) ==
    \E before \in [1..(Len(inbox[c]) + 1) -> 0..sent[c]] :
        /\ before[1] = pending[c] + served[c]
        /\ \A i \in 1..Len(inbox[c]) : before[i + 1] = before[i] + inbox[c][i].lines
        /\ before[Len(inbox[c]) + 1] = sent[c]

SentInv == \A c \in Conns : LinesAddUp(c)

(* Threads exist between their creation and their join; they are inside a  *)
(* critical section only where their own program counter says so.          *)
JoinInv ==
    /\ main \in BeforeTs => tspc = "none"
    /\ main \in BeforeListen => lpc = "none"
    /\ main \in ListenJoined => lpc = "done"
    /\ main \in TsJoined => tspc \in {"done", "failed"}
    /\ main \in Cleanup => thread_list = <<>>
    /\ \A c \in Conns : step[c] # "out" => hpc[c] = "packets"
    /\ step[TsThread] # "out" => tspc = "lock"

Accepted(c) == client[c] \notin {"away", "connecting"}

(* What the listen thread holds: nothing while it waits for a connection,  *)
(* then one that has been accepted and has no handler yet, then one whose  *)
(* handler is not in the list yet.                                         *)
ListenInv ==
    /\ \A c \in Conns : ~Accepted(c) => hpc[c] = "none"
    /\ lpc \in {"accept", "accepting"} => conn = NoThread
    /\ lpc = "recheck" =>
         \/ conn = NoThread /\ ~run_flag
         \/ conn \in Conns /\ Accepted(conn) /\ hpc[conn] = "none"
    /\ lpc = "create" => conn \in Conns /\ Accepted(conn) /\ hpc[conn] = "none"
    /\ lpc = "add" =>
         conn \in Conns /\ hpc[conn] # "none" /\ conn \notin ToSet(thread_list)
    /\ \A c \in ToSet(thread_list) : hpc[c] # "none"

(* An alarm that is due has not been printed; the flag is reset only after *)
(* it has, so that no alarm is counted twice.                              *)
TsInv ==
    LET s == served[TsThread]
        due == IF due_flag THEN 1 ELSE 0
        last == IF run_flag THEN 0 ELSE 1 IN
      /\ tspc \in {"none", "failed"} => s = 0 /\ due <= alarms
      /\ tspc = "check" => s + due <= alarms \/ (~run_flag /\ s <= alarms + 1)
      /\ tspc = "wait" => s + due <= alarms
      /\ tspc = "lock" => s + 1 <= alarms + last
      /\ tspc \in {"clear", "done"} => s <= alarms + last

(* Nothing is served before the last segment has been received.            *)
DropInv ==
    /\ \A c \in Conns : hpc[c] \in {"none", "recv"} => served[c] = 0
    /\ LinesDroppedOnlyAtEof

(* Without resets, early closes and failing calls nothing can kill the     *)
(* process while the listen thread exists.                                 *)
AliveInv ==
    /\ \A c \in Conns : peer[c] # "gone" /\ client[c] # "reset"
    /\ handlers <=> main \notin {"init", "signals"}
    /\ armed => main \notin BeforeTs \ {"ts"}
    /\ main \notin {"init", "free_due", "remove", "done"} => "run" \in live
    /\ main \notin {"init", "remove", "done"} => "due" \in live
    /\ lpc \notin {"none", "done"} => Running

-----------------------------------------------------------------------------
(* Type correctness, in parts: TypeOK without what it says of the data     *)
(* file, and with any number of pending lines.                             *)
Steps == {"init", "signals", "open", "socket", "daemon", "timer", "ts", "listen",
          "reap", "join_listen", "join_ts", "shutdown", "join_conns",
          "close_sock", "close_disk", "free_run", "free_due", "remove", "done"}

ControlType ==
    /\ main \in Steps
    /\ live \in SUBSET {"run", "due"}
    /\ alarms \in 0..MaxAlarms
    /\ terms \in 0..MaxTerms
    /\ disk \in {"shut", "open", "closed", "removed"}
    /\ tspc \in {"none", "failed", "check", "wait", "lock", "clear", "done"}
    /\ lpc \in {"none", "check", "listen", "accept", "accepting", "recheck",
                "create", "add", "done"}

FlagType ==
    /\ run_flag \in BOOLEAN
    /\ due_flag \in BOOLEAN
    /\ handlers \in BOOLEAN
    /\ armed \in BOOLEAN
    /\ listening \in BOOLEAN

ConnType ==
    /\ conn \in Conns \cup {NoThread}
    /\ thread_list \in Seq(Conns)
    /\ hpc \in [Conns -> {"none", "recv", "packets", "close", "done"}]
    /\ pending \in [Conns -> Nat]
    /\ client \in [Conns -> {"away", "connecting", "open", "fin", "reset"}]
    /\ inbox \in [Conns -> Seq(Segment)]
    /\ sent \in [Conns -> 0..MaxLines]

(* The steps of main() as a set.                                           *)
LEMMA StepsOfMain == ToSet(MainSteps) = Steps
<1>1. Len(MainSteps) = 19 /\ DOMAIN MainSteps = 1..19
  BY DEF MainSteps
<1> QED
  BY <1>1 DEF ToSet, MainSteps, Steps

(* TypeOK is these parts and the bound on the pending lines.               *)
LEMMA TypeParts ==
    TypeOK <=> /\ DF!TypeOK /\ ControlType /\ FlagType /\ ConnType
               /\ \A c \in Conns : pending[c] <= MaxLines
<1>1. TypeOK <=> /\ DF!TypeOK /\ ControlType /\ FlagType
                 /\ conn \in Conns \cup {NoThread}
                 /\ thread_list \in Seq(Conns)
                 /\ hpc \in [Conns -> {"none", "recv", "packets", "close", "done"}]
                 /\ pending \in [Conns -> 0..MaxLines]
                 /\ client \in [Conns -> {"away", "connecting", "open", "fin", "reset"}]
                 /\ inbox \in [Conns -> Seq(Segment)]
                 /\ sent \in [Conns -> 0..MaxLines]
  BY StepsOfMain DEF TypeOK, ControlType, FlagType
<1>2. pending \in [Conns -> 0..MaxLines] <=>
        pending \in [Conns -> Nat] /\ \A c \in Conns : pending[c] <= MaxLines
  <2>1. \A n : n \in 0..MaxLines <=> n \in Nat /\ n <= MaxLines
    BY ServerAssumption
  <2> QED
    BY <2>1
<1> QED
  BY <1>1, <1>2 DEF ConnType

(* What a handler is told about a segment.                                 *)
LEMMA SegmentType ==
    ASSUME NEW s \in Segment
    PROVE  s.full \in BOOLEAN /\ s.lines \in Nat
BY ServerAssumption DEF Segment

(* Each thread moves among its own points; the bounded counters keep to    *)
(* their bounds.                                                           *)
LEMMA ControlStep == ControlType /\ [Next]_vars => ControlType'
<1> SUFFICES ASSUME ControlType, [Next]_vars PROVE ControlType'
  OBVIOUS
<1> USE ServerAssumption
    DEF ControlType, fileVars, flagVars, signalVars, mainVars, listenVars
<1>1. CASE UNCHANGED allButProc
  BY <1>1 DEF allButProc
<1>2. CASE MainStep
  <2>1. CASE InitFlags
    BY <2>1 DEF InitFlags, Goto, notMain, Steps
  <2>2. CASE SetUpSignals
    BY <2>2 DEF SetUpSignals, Goto, notMain, Steps
  <2>3. CASE OpenDisk
    BY <2>3 DEF OpenDisk, Goto, notMain, Steps
  <2>4. CASE GetBoundSocket
    BY <2>4 DEF GetBoundSocket, Goto, notMain, Steps
  <2>5. CASE SetTimer
    BY <2>5 DEF SetTimer, Goto, notMain, Steps
  <2>6. CASE StartTimestamps
    BY <2>6 DEF StartTimestamps, Goto, notMain, Steps
  <2>7. CASE StartListening
    BY <2>7 DEF StartListening, Goto, notMain, Steps
  <2>8. CASE Reap
    BY <2>8 DEF Reap, Goto, notMain, Steps
  <2>9. CASE ShutdownOperations
    BY <2>9 DEF ShutdownOperations, Goto, notMain, Steps
  <2>10. CASE JoinConn
    BY <2>10 DEF JoinConn, Goto, notMain, Steps
  <2>11. CASE JoinedAll
    BY <2>11 DEF JoinedAll, Goto, notMain, Steps
  <2>12. CASE CloseFiles
    BY <2>12 DEF CloseFiles, Goto, notMain, Steps
  <2>13. CASE FreeFlags
    BY <2>13 DEF FreeFlags, Goto, notMain, Steps
  <2>14. CASE RemoveAndReturn
    BY <2>14 DEF RemoveAndReturn, Goto, notMain, Steps
  <2> QED
    BY <1>2, <2>1, <2>2, <2>3, <2>4, <2>5, <2>6, <2>7, <2>8, <2>9, <2>10, <2>11,
       <2>12, <2>13, <2>14 DEF MainStep
<1>3. CASE TsStep
  BY <1>3, TsFrame DEF TsStep, TsCheck, TsPrint, TsClear
<1>4. CASE ListenStep
  <2>1. lpc' \in {"check", "listen", "accept", "accepting", "recheck",
                  "create", "add", "done"}
    BY <1>4 DEF ListenStep, ListenCheck, Listen, AcceptCheck, Accept,
                ListenRecheck, CreateHandler, AddThreadToList
  <2> QED
    BY <1>4, <2>1, ListenFrame
<1>5. ASSUME NEW c \in Conns,
             \/ Recv(c) \/ RecvEof(c) \/ HandlePacket(c) \/ PacketsDone(c)
             \/ CloseConnection(c)
      PROVE  ControlType'
  BY <1>5, HandlerFrame
<1>6. ASSUME NEW c \in Conns, ClientStep(c) PROVE ControlType'
  BY <1>6, ClientFrame
<1>7. CASE SigTerm
  BY <1>7 DEF SigTerm, notSignal
<1>8. CASE SigAlrm
  BY <1>8 DEF SigAlrm, notSignal
<1> QED
  BY <1>1, <1>2, <1>3, <1>4, <1>5, <1>6, <1>7, <1>8, StepCases

(* The flags stay flags.                                                   *)
LEMMA FlagStep == FlagType /\ [Next]_vars => FlagType'
<1> SUFFICES ASSUME FlagType, [Next]_vars PROVE FlagType'
  OBVIOUS
<1> USE DEF FlagType, flagVars, signalVars, listenVars
<1>1. CASE UNCHANGED allButProc
  BY <1>1 DEF allButProc
<1>2. CASE MainStep
  BY <1>2
  DEF MainStep, InitFlags, SetUpSignals, OpenDisk, GetBoundSocket, SetTimer,
      StartTimestamps, StartListening, Reap, ShutdownOperations, JoinConn,
      JoinedAll, CloseFiles, FreeFlags, RemoveAndReturn, notMain
<1>3. CASE TsStep
  BY <1>3 DEF TsStep, TsCheck, TsPrint, TsClear, notTs
<1>4. CASE ListenStep
  BY <1>4 DEF ListenStep, ListenCheck, Listen, AcceptCheck, Accept,
              ListenRecheck, CreateHandler, AddThreadToList, notListen
<1>5. ASSUME NEW c \in Conns,
             \/ Recv(c) \/ RecvEof(c) \/ HandlePacket(c) \/ PacketsDone(c)
             \/ CloseConnection(c)
      PROVE  FlagType'
  BY <1>5, HandlerFrame
<1>6. ASSUME NEW c \in Conns, ClientStep(c) PROVE FlagType'
  BY <1>6, ClientFrame
<1>7. CASE SigTerm \/ SigAlrm
  BY <1>7 DEF SigTerm, SigAlrm, notSignal
<1> QED
  BY <1>1, <1>2, <1>3, <1>4, <1>5, <1>6, <1>7, StepCases

(* Connections, their handlers and their clients keep their types.         *)
LEMMA ConnStep == ConnType /\ ListenInv /\ [Next]_vars => ConnType'
<1> SUFFICES ASSUME ConnType, ListenInv, [Next]_vars PROVE ConnType'
  OBVIOUS
<1> USE DEF ConnType, listenVars, handlerVars, clientVars
<1>1. CASE UNCHANGED allButProc
  BY <1>1 DEF allButProc
<1>2. CASE MainStep
  <2>1. thread_list' \in Seq(Conns)
    <3>1. CASE JoinConn
      BY <3>1 DEF JoinConn
    <3> QED
      BY <1>2, <3>1, MainFrame
  <2> QED
    BY <1>2, <2>1, MainFrame
<1>3. CASE TsStep
  BY <1>3, TsFrame
<1>4. CASE ListenStep
  <2>1. CASE ListenCheck
    BY <2>1 DEF ListenCheck, notListen
  <2>2. CASE Listen
    BY <2>2 DEF Listen, notListen
  <2>3. CASE AcceptCheck
    BY <2>3 DEF AcceptCheck, notListen
  <2>4. CASE Accept
    BY <2>4 DEF Accept, notListen
  <2>5. CASE ListenRecheck
    BY <2>5 DEF ListenRecheck, notListen
  <2>6. CASE CreateHandler
    BY <2>6 DEF CreateHandler, notListen
  <2>7. CASE AddThreadToList
    <3>1. conn \in Conns /\ thread_list' = <<conn>> \o thread_list
      BY <2>7 DEF AddThreadToList, ListenAt, ListenInv
    <3>2. thread_list' \in Seq(Conns)
      BY <3>1
    <3> QED
      BY <2>7, <3>2 DEF AddThreadToList, notListen
  <2> QED
    BY <1>4, <2>1, <2>2, <2>3, <2>4, <2>5, <2>6, <2>7 DEF ListenStep
<1>5. ASSUME NEW c \in Conns, Recv(c) PROVE ConnType'
  <2>1. Head(inbox[c]) \in Segment /\ Tail(inbox[c]) \in Seq(Segment)
    BY <1>5 DEF Recv
  <2>2. pending' \in [Conns -> Nat]
    BY <1>5, <2>1, SegmentType DEF Recv
  <2>3. hpc' \in [Conns -> {"none", "recv", "packets", "close", "done"}]
    BY <1>5 DEF Recv
  <2>4. inbox' \in [Conns -> Seq(Segment)]
    BY <1>5, <2>1 DEF Recv
  <2> QED
    BY <1>5, <2>2, <2>3, <2>4, HandlerFrame
<1>6. ASSUME NEW c \in Conns, RecvEof(c) \/ PacketsDone(c) \/ CloseConnection(c)
      PROVE  ConnType'
  BY <1>6 DEF RecvEof, PacketsDone, CloseConnection, notHandler
<1>9. ASSUME NEW c \in Conns, HandlePacket(c) PROVE ConnType'
  <2>1. UNCHANGED <<hpc, inbox>>
    BY <1>9 DEF HandlePacket
  <2>2. pending[c] > 0 /\ pending[c] - 1 \in Nat
    BY <1>9 DEF HandlePacket
  <2>3. UNCHANGED pending \/ pending' = [pending EXCEPT ![c] = @ - 1]
    BY <1>9 DEF HandlePacket
  <2>4. pending' \in [Conns -> Nat]
    BY <2>2, <2>3
  <2> QED
    BY <1>9, <2>1, <2>4, HandlerFrame
<1>7. ASSUME NEW c \in Conns, ClientStep(c) PROVE ConnType'
  <2>1. CASE ClientSends(c)
    <3>1. PICK seg \in Segment :
            /\ sent[c] + seg.lines <= MaxLines
            /\ sent' = [sent EXCEPT ![c] = @ + seg.lines]
            /\ inbox' = [inbox EXCEPT ![c] = Append(@, seg)]
      BY <2>1 DEF ClientSends
    <3>2. sent' \in [Conns -> 0..MaxLines]
      BY <3>1, SegmentType, ServerAssumption
    <3>3. inbox' \in [Conns -> Seq(Segment)]
      BY <3>1
    <3> QED
      BY <2>1, <3>2, <3>3 DEF ClientSends, serverVars
  <2> QED
    BY <1>7, <2>1
    DEF ClientStep, ClientConnects, ClientShutsDown, ClientStalls, ClientReads,
        ClientCloses, ClientResets, serverVars
<1>8. CASE SigTerm \/ SigAlrm
  BY <1>8, SignalFrame
<1> QED
  BY <1>1, <1>2, <1>3, <1>4, <1>5, <1>6, <1>7, <1>8, <1>9, StepCases

-----------------------------------------------------------------------------
(* A handler that neither receives nor serves, and whose client is silent. *)
LEMMA LinesKept ==
    ASSUME NEW c \in Conns, LinesAddUp(c),
           inbox'[c] = inbox[c], sent'[c] = sent[c],
           pending'[c] + served'[c] = pending[c] + served[c]
    PROVE  LinesAddUp(c)'
<1>1. PICK before \in [1..(Len(inbox[c]) + 1) -> 0..sent[c]] :
        /\ before[1] = pending[c] + served[c]
        /\ \A i \in 1..Len(inbox[c]) : before[i + 1] = before[i] + inbox[c][i].lines
        /\ before[Len(inbox[c]) + 1] = sent[c]
  BY DEF LinesAddUp
<1>2. /\ before \in [1..(Len(inbox'[c]) + 1) -> 0..sent'[c]]
      /\ before[1] = pending'[c] + served'[c]
      /\ \A i \in 1..Len(inbox'[c]) : before[i + 1] = before[i] + inbox'[c][i].lines
      /\ before[Len(inbox'[c]) + 1] = sent'[c]
  BY <1>1
<1> QED
  BY <1>2 DEF LinesAddUp

(* The first segment is received.                                          *)
LEMMA LinesReceived ==
    ASSUME ConnType, DF!TypeOK, NEW c \in Conns, LinesAddUp(c), Recv(c)
    PROVE  LinesAddUp(c)'
<1> DEFINE n == Len(inbox[c])
<1>1. PICK before \in [1..(n + 1) -> 0..sent[c]] :
        /\ before[1] = pending[c] + served[c]
        /\ \A i \in 1..n : before[i + 1] = before[i] + inbox[c][i].lines
        /\ before[n + 1] = sent[c]
  BY DEF LinesAddUp
<1>2. /\ inbox[c] \in Seq(Segment) /\ n \in Nat \ {0}
      /\ inbox'[c] = Tail(inbox[c])
      /\ pending'[c] = pending[c] + inbox[c][1].lines
      /\ UNCHANGED <<served, sent>>
      /\ pending[c] \in Nat /\ served[c] \in Nat /\ inbox[c][1].lines \in Nat
  <2>1. inbox[c] \in Seq(Segment) /\ inbox[c] # <<>>
    BY DEF Recv, ConnType
  <2>2. n \in Nat \ {0} /\ inbox[c][1] \in Segment /\ Head(inbox[c]) = inbox[c][1]
    BY <2>1
  <2>3. inbox'[c] = Tail(inbox[c]) /\ pending'[c] = pending[c] + inbox[c][1].lines
    BY <2>2 DEF Recv, ConnType
  <2> QED
    BY <2>1, <2>2, <2>3, SegmentType, HandlerFrame
    DEF Recv, ConnType, fileVars, DF!TypeOK, DF!Threads
<1>3. /\ Len(inbox'[c]) = n - 1
      /\ \A i \in 1..(n - 1) : inbox'[c][i] = inbox[c][i + 1]
  BY <1>2
<1> HIDE DEF n
<1> DEFINE after == [i \in 1..n |-> before[i + 1]]
<1>4. after \in [1..n -> 0..sent[c]]
  BY <1>1, <1>2
<1>5. after[1] = pending'[c] + served'[c]
  <2>1. before[1 + 1] = before[1] + inbox[c][1].lines
    BY <1>1, <1>2
  <2>2. after[1] = before[1 + 1]
    BY <1>2
  <2>3. before[1] + inbox[c][1].lines = pending'[c] + served'[c]
    BY <1>1, <1>2
  <2> QED
    BY <2>1, <2>2, <2>3
<1>6. ASSUME NEW i \in 1..(n - 1)
      PROVE  after[i + 1] = after[i] + inbox'[c][i].lines
  <2>1. i + 1 \in 1..n /\ i \in 1..n
    BY <1>2
  <2>2. before[(i + 1) + 1] = before[i + 1] + inbox[c][i + 1].lines
    BY <1>1, <2>1
  <2> QED
    BY <1>3, <2>1, <2>2
<1>7. after[n] = sent'[c]
  BY <1>1, <1>2
<1> HIDE DEF after
<1>8. (n - 1) + 1 = n /\ sent'[c] = sent[c]
  BY <1>2
<1> QED
  BY <1>3, <1>4, <1>5, <1>6, <1>7, <1>8 DEF LinesAddUp

(* A segment is sent.                                                      *)
LEMMA LinesSent ==
    ASSUME ConnType, NEW c \in Conns, LinesAddUp(c), ClientSends(c)
    PROVE  LinesAddUp(c)'
<1> DEFINE n == Len(inbox[c])
<1>1. PICK before \in [1..(n + 1) -> 0..sent[c]] :
        /\ before[1] = pending[c] + served[c]
        /\ \A i \in 1..n : before[i + 1] = before[i] + inbox[c][i].lines
        /\ before[n + 1] = sent[c]
  BY DEF LinesAddUp
<1>2. PICK seg \in Segment :
        /\ sent' = [sent EXCEPT ![c] = @ + seg.lines]
        /\ inbox' = [inbox EXCEPT ![c] = Append(@, seg)]
  BY DEF ClientSends
<1>3. /\ inbox[c] \in Seq(Segment) /\ n \in Nat
      /\ sent[c] \in Nat /\ seg.lines \in Nat
      /\ sent'[c] = sent[c] + seg.lines
      /\ inbox'[c] = Append(inbox[c], seg)
      /\ UNCHANGED <<pending, served>>
  BY <1>2, SegmentType, ServerAssumption
  DEF ConnType, ClientSends, serverVars, fileVars, handlerVars
<1>4. /\ Len(inbox'[c]) = n + 1
      /\ \A i \in 1..n : inbox'[c][i] = inbox[c][i]
      /\ inbox'[c][n + 1] = seg
  BY <1>3
<1> HIDE DEF n
<1> DEFINE after == [i \in 1..(n + 2) |-> IF i = n + 2 THEN sent'[c] ELSE before[i]]
<1>5. after \in [1..(n + 2) -> 0..sent'[c]]
  <2>1. \A i \in 1..(n + 1) : before[i] \in 0..sent'[c]
    BY <1>1, <1>3
  <2> QED
    BY <1>3, <2>1
<1>6. after[1] = pending'[c] + served'[c]
  BY <1>1, <1>3
<1>7. ASSUME NEW i \in 1..(n + 1)
      PROVE  after[i + 1] = after[i] + inbox'[c][i].lines
  <2>1. CASE i = n + 1
    <3>1. after[i + 1] = sent'[c] /\ after[i] = before[n + 1]
      BY <1>3, <2>1
    <3> QED
      BY <1>1, <1>3, <1>4, <2>1, <3>1
  <2>2. CASE i \in 1..n
    <3>1. after[i + 1] = before[i + 1] /\ after[i] = before[i]
      BY <1>3, <2>2
    <3> QED
      BY <1>1, <1>4, <2>2, <3>1
  <2>3. i = n + 1 \/ i \in 1..n
    BY <1>3
  <2> QED
    BY <2>1, <2>2, <2>3
<1>8. after[n + 2] = sent'[c]
  BY <1>3
<1> HIDE DEF after
<1>9. (n + 1) + 1 = n + 2
  BY <1>3
<1> QED
  BY <1>4, <1>5, <1>6, <1>7, <1>8, <1>9 DEF LinesAddUp

(* No step loses or invents a line.                                        *)
LEMMA SentStep == DF!TypeOK /\ ConnType /\ SentInv /\ [Next]_vars => SentInv'
<1> SUFFICES ASSUME DF!TypeOK, ConnType, SentInv, [Next]_vars, NEW c \in Conns
             PROVE  LinesAddUp(c)'
  BY DEF SentInv
<1>0. LinesAddUp(c)
  BY DEF SentInv
<1>1. CASE UNCHANGED <<inbox, sent, pending>> /\ served'[c] = served[c]
  BY <1>0, <1>1, LinesKept
<1>2. CASE MainStep
  BY <1>1, <1>2, MainFrame DEF fileVars
<1>3. CASE TsStep
  <2>1. served'[c] = served[c]
    <3>1. CASE TsPrint
      BY <3>1, TsEffect
    <3> QED
      BY <1>3, <3>1 DEF TsStep, TsCheck, TsClear, fileVars
  <2> QED
    BY <1>1, <1>3, <2>1, TsFrame
<1>4. CASE ListenStep
  BY <1>1, <1>4, ListenFrame DEF fileVars
<1>5. ASSUME NEW d \in Conns, Recv(d) PROVE LinesAddUp(c)'
  <2>1. CASE c = d
    BY <1>0, <1>5, <2>1, LinesReceived
  <2>2. CASE c # d
    BY <1>0, <1>5, <2>2, LinesKept DEF Recv, ConnType, fileVars, notHandler
  <2> QED
    BY <2>1, <2>2
<1>6. ASSUME NEW d \in Conns, HandlePacket(d) PROVE LinesAddUp(c)'
  <2>1. UNCHANGED <<inbox, sent>>
    BY <1>6, HandlerFrame, PacketEffect
  <2>2. pending[c] \in Nat /\ served[c] \in Nat /\ c \in DF!Threads
    BY DEF ConnType, DF!TypeOK, DF!Threads
  <2>3. pending'[c] + served'[c] = pending[c] + served[c]
    <3>1. CASE c = d
      <4>1. CASE UNCHANGED <<served, pending>>
        BY <4>1
      <4>2. CASE /\ served'[c] = served[c] + 1
                 /\ pending' = [pending EXCEPT ![c] = @ - 1]
        <5>1. pending'[c] = pending[c] - 1
          BY <4>2 DEF ConnType
        <5> QED
          BY <2>2, <4>2, <5>1
      <4> QED
        BY <1>6, <3>1, <4>1, <4>2, PacketEffect
    <3>2. CASE c # d
      <4>1. served'[c] = served[c]
        BY <1>6, <2>2, <3>2, PacketEffect
      <4>2. pending'[c] = pending[c]
        BY <1>6, <3>2, PacketEffect DEF ConnType
      <4> QED
        BY <4>1, <4>2
    <3> QED
      BY <3>1, <3>2
  <2> QED
    BY <1>0, <2>1, <2>3, LinesKept
<1>7. ASSUME NEW d \in Conns, RecvEof(d) \/ PacketsDone(d) \/ CloseConnection(d)
      PROVE  LinesAddUp(c)'
  BY <1>1, <1>7, HandlerFrame
  DEF RecvEof, PacketsDone, CloseConnection, fileVars
<1>8. ASSUME NEW d \in Conns, ClientStep(d) PROVE LinesAddUp(c)'
  <2>1. CASE ClientSends(d)
    <3>1. CASE c = d
      BY <1>0, <2>1, <3>1, LinesSent
    <3>2. CASE c # d
      BY <1>0, <2>1, <3>2, LinesKept
      DEF ClientSends, ConnType, serverVars, fileVars, handlerVars
    <3> QED
      BY <3>1, <3>2
  <2>2. CASE ~ClientSends(d)
    <3>1. UNCHANGED <<inbox, sent>>
      BY <1>8, <2>2
      DEF ClientStep, ClientConnects, ClientShutsDown, ClientStalls, ClientReads,
          ClientCloses, ClientResets, clientVars
    <3> QED
      BY <1>1, <1>8, <3>1, ClientFrame
  <2> QED
    BY <2>1, <2>2
<1>9. CASE SigTerm \/ SigAlrm \/ UNCHANGED allButProc
  BY <1>1, <1>9, SignalFrame DEF allButProc, fileVars, handlerVars, clientVars
<1> QED
  BY <1>2, <1>3, <1>4, <1>5, <1>6, <1>7, <1>8, <1>9, StepCases

(* Hence no handler has more lines left than its client may send.          *)
LEMMA PendingBounded ==
    ASSUME DF!TypeOK, ConnType, SentInv, NEW c \in Conns
    PROVE  pending[c] <= MaxLines
<1>1. PICK before \in [1..(Len(inbox[c]) + 1) -> 0..sent[c]] :
        before[1] = pending[c] + served[c]
  BY DEF SentInv, LinesAddUp
<1>2. before[1] \in 0..sent[c]
  <2>1. Len(inbox[c]) \in Nat
    BY DEF ConnType
  <2> QED
    BY <1>1, <2>1
<1> QED
  BY <1>1, <1>2, ServerAssumption DEF ConnType, DF!TypeOK, DF!Threads

-----------------------------------------------------------------------------
(* Sequences as the list of threads uses them.                             *)
LEMMA ListPush ==
    ASSUME NEW s \in Seq(Conns), NEW x \in Conns
    PROVE  /\ ToSet(<<x>> \o s) = {x} \cup ToSet(s)
           /\ x \notin ToSet(s) /\ IsInjective(s) => IsInjective(<<x>> \o s)
<1> DEFINE t == <<x>> \o s
           n == Len(s)
<1>1. /\ DOMAIN s = 1..n /\ n \in Nat
      /\ DOMAIN t = 1..(n + 1)
      /\ t[1] = x /\ \A i \in 1..n : t[i + 1] = s[i]
  OBVIOUS
<1> HIDE DEF t, n
<1>2. \A i \in 1..(n + 1) : i = 1 \/ (i - 1 \in 1..n /\ t[i] = s[i - 1])
  <2>1. \A i \in 1..(n + 1) : i = 1 \/ (i - 1 \in 1..n /\ i = (i - 1) + 1)
    BY <1>1
  <2> QED
    BY <1>1, <2>1
<1>3. ToSet(t) = {x} \cup ToSet(s)
  <2>1. \A i \in 1..n : i + 1 \in 1..(n + 1)
    BY <1>1
  <2>2. 1 \in 1..(n + 1)
    BY <1>1
  <2>3. \A i \in 1..(n + 1) : t[i] = x \/ t[i] \in ToSet(s)
    BY <1>1, <1>2 DEF ToSet
  <2>4. ToSet(t) \subseteq {x} \cup ToSet(s)
    BY <1>1, <2>3 DEF ToSet
  <2>5. x \in ToSet(t)
    BY <1>1, <2>2 DEF ToSet
  <2>6. ToSet(s) \subseteq ToSet(t)
    BY <1>1, <2>1 DEF ToSet
  <2> QED
    BY <2>4, <2>5, <2>6
<1>4. ASSUME x \notin ToSet(s), IsInjective(s) PROVE IsInjective(t)
  <2> SUFFICES ASSUME NEW i \in 1..(n + 1), NEW j \in 1..(n + 1), t[i] = t[j]
               PROVE  i = j
    BY <1>1 DEF IsInjective
  <2>1. \A k \in 1..n : s[k] # x
    BY <1>1, <1>4 DEF ToSet
  <2> QED
    <3>1. CASE i = 1 \/ j = 1
      BY <1>1, <1>2, <2>1, <3>1
    <3>2. CASE i # 1 /\ j # 1
      <4>1. i - 1 \in 1..n /\ j - 1 \in 1..n /\ s[i - 1] = s[j - 1]
        BY <1>2, <3>2
      <4>2. i - 1 = j - 1
        BY <1>1, <1>4, <4>1 DEF IsInjective
      <4> QED
        BY <1>1, <4>2
    <3> QED
      BY <3>1, <3>2
<1> QED
  BY <1>3, <1>4 DEF t

(* Taking the first thread off the list leaves the others on it, each      *)
(* once.                                                                   *)
LEMMA ListPop ==
    ASSUME NEW s \in Seq(Conns), s # <<>>
    PROVE  /\ ToSet(s) = {Head(s)} \cup ToSet(Tail(s))
           /\ IsInjective(s) => IsInjective(Tail(s))
<1> DEFINE t == Tail(s)
           n == Len(t)
<1>1. /\ DOMAIN s = 1..(n + 1) /\ n \in Nat
      /\ DOMAIN t = 1..n
      /\ Head(s) = s[1] /\ \A i \in 1..n : t[i] = s[i + 1]
  OBVIOUS
<1> HIDE DEF t, n
<1>2. ToSet(s) = {Head(s)} \cup ToSet(t)
  <2>1. \A i \in 1..n : i + 1 \in 1..(n + 1)
    BY <1>1
  <2>2. \A i \in 1..(n + 1) : i = 1 \/ (i - 1 \in 1..n /\ i = (i - 1) + 1)
    BY <1>1
  <2>3. 1 \in 1..(n + 1)
    BY <1>1
  <2>4. \A i \in 1..(n + 1) : s[i] = Head(s) \/ s[i] \in ToSet(t)
    <3>1. \A i \in 1..(n + 1) : i = 1 \/ (i - 1 \in 1..n /\ s[i] = t[i - 1])
      BY <1>1, <2>2
    <3> QED
      BY <1>1, <3>1 DEF ToSet
  <2>5. ToSet(s) \subseteq {Head(s)} \cup ToSet(t)
    BY <1>1, <2>4 DEF ToSet
  <2>6. Head(s) \in ToSet(s)
    BY <1>1, <2>3 DEF ToSet
  <2>7. ToSet(t) \subseteq ToSet(s)
    BY <1>1, <2>1 DEF ToSet
  <2> QED
    BY <2>5, <2>6, <2>7
<1>3. ASSUME IsInjective(s) PROVE IsInjective(t)
  <2> SUFFICES ASSUME NEW i \in 1..n, NEW j \in 1..n, t[i] = t[j] PROVE i = j
    BY <1>1 DEF IsInjective
  <2>1. i + 1 \in 1..(n + 1) /\ j + 1 \in 1..(n + 1) /\ s[i + 1] = s[j + 1]
    BY <1>1
  <2>2. i + 1 = j + 1
    BY <1>1, <1>3, <2>1 DEF IsInjective
  <2> QED
    BY <2>2
<1> QED
  BY <1>2, <1>3 DEF t

(* The empty list has no thread, and none twice.                           *)
LEMMA ListEmpty == ToSet(<< >>) = {} /\ IsInjective(<< >>)
BY DEF ToSet, IsInjective

-----------------------------------------------------------------------------
(* The order of creations and joins.                                       *)
LEMMA JoinStep ==
    DF!TypeOK /\ ConnType /\ ListenInv /\ JoinInv /\ [Next]_vars => JoinInv'
<1> SUFFICES ASSUME DF!TypeOK, ConnType, ListenInv, JoinInv, [Next]_vars
             PROVE  JoinInv'
  OBVIOUS
<1> USE DEF JoinInv, BeforeTs, BeforeListen, Cleanup, TsJoined, ListenJoined
<1>1. CASE UNCHANGED <<main, tspc, lpc, thread_list, step, hpc>>
  BY <1>1
<1>2. CASE MainStep
  <2>1. UNCHANGED <<step, hpc>>
    BY <1>2, MainFrame DEF fileVars
  <2>2. CASE InitFlags \/ SetUpSignals \/ OpenDisk \/ GetBoundSocket \/ SetTimer
    BY <2>1, <2>2 DEF InitFlags, SetUpSignals, OpenDisk, GetBoundSocket, SetTimer,
                      At, Goto
  <2>3. CASE StartTimestamps
    BY <2>1, <2>3, ServerAssumption DEF StartTimestamps, At, Goto
  <2>4. CASE StartListening \/ Reap \/ ShutdownOperations
    BY <2>1, <2>4 DEF StartListening, Reap, ShutdownOperations, At, Goto
  <2>5. CASE JoinConn \/ JoinedAll
    BY <2>1, <2>5 DEF JoinConn, JoinedAll, At, Goto, mainVars
  <2>6. CASE CloseFiles \/ FreeFlags \/ RemoveAndReturn
    BY <2>1, <2>6 DEF CloseFiles, FreeFlags, RemoveAndReturn, At, Goto
  <2> QED
    BY <1>2, <2>2, <2>3, <2>4, <2>5, <2>6 DEF MainStep
<1>3. CASE TsStep
  <2>1. UNCHANGED <<main, lpc, thread_list, hpc>>
    BY <1>3, TsFrame
  <2>2. CASE TsPrint
    BY <2>1, <2>2, TsEffect
  <2>3. CASE TsCheck \/ TsClear
    BY <2>1, <2>3 DEF TsCheck, TsClear, TsAt, fileVars
  <2> QED
    BY <1>3, <2>2, <2>3 DEF TsStep
<1>4. CASE ListenStep
  <2>1. UNCHANGED <<main, tspc, step>>
    BY <1>4, ListenFrame DEF fileVars
  <2>2. CASE ListenCheck \/ Listen \/ AcceptCheck \/ Accept \/ ListenRecheck
    BY <2>1, <2>2 DEF ListenCheck, Listen, AcceptCheck, Accept, ListenRecheck,
                      ListenAt
  <2>3. CASE CreateHandler
    <3>1. conn \in Conns /\ hpc[conn] = "none" /\ hpc' = [hpc EXCEPT ![conn] = "recv"]
      BY <2>3 DEF CreateHandler, ListenAt, ListenInv
    <3>2. \A c \in Conns : step[c] # "out" => hpc'[c] = "packets"
      BY <3>1 DEF ConnType
    <3> QED
      BY <2>1, <2>3, <3>2 DEF CreateHandler, ListenAt
  <2>4. CASE AddThreadToList
    BY <2>1, <2>4 DEF AddThreadToList, ListenAt
  <2> QED
    BY <1>4, <2>2, <2>3, <2>4 DEF ListenStep
<1>5. ASSUME NEW c \in Conns,
             Recv(c) \/ RecvEof(c) \/ PacketsDone(c) \/ CloseConnection(c)
      PROVE  JoinInv'
  <2>1. UNCHANGED <<main, tspc, lpc, thread_list, step>> /\ step[c] = "out"
    BY <1>5, HandlerFrame
    DEF Recv, RecvEof, PacketsDone, CloseConnection, HandlerAt, fileVars
  <2>2. \A d \in Conns \ {c} : hpc'[d] = hpc[d]
    BY <1>5 DEF Recv, RecvEof, PacketsDone, CloseConnection, ConnType
  <2> QED
    BY <2>1, <2>2
<1>6. ASSUME NEW c \in Conns, HandlePacket(c) PROVE JoinInv'
  <2>1. /\ UNCHANGED <<main, tspc, lpc, thread_list, hpc>>
        /\ hpc[c] = "packets"
        /\ \A t \in (Conns \cup {TsThread}) \ {c} : step'[t] = step[t]
    BY <1>6, HandlerFrame, PacketEffect DEF DF!Threads
  <2> QED
    BY <2>1, ServerAssumption
<1>7. ASSUME NEW c \in Conns, ClientStep(c) PROVE JoinInv'
  BY <1>1, <1>7, ClientFrame DEF mainVars
<1>8. CASE SigTerm \/ SigAlrm \/ UNCHANGED allButProc
  BY <1>1, <1>8, SignalFrame
  DEF allButProc, fileVars, mainVars, listenVars, handlerVars
<1> QED
  BY <1>2, <1>3, <1>4, <1>5, <1>6, <1>7, <1>8, StepCases

(* A client's step does not undo or make an acceptance.                    *)
LEMMA ClientAccepted ==
    ASSUME ConnType, NEW c \in Conns, NEW d \in Conns, ClientStep(d)
    PROVE  Accepted(c)' <=> Accepted(c)
BY DEF ClientStep, ClientConnects, ClientSends, ClientShutsDown, ClientStalls,
       ClientReads, ClientCloses, ClientResets, Connected, Heard, clientVars,
       Accepted, ConnType

(* A handler's step leaves threads that were never created alone.          *)
LEMMA HandlerExists ==
    ASSUME ConnType, NEW c \in Conns,
           \/ Recv(c) \/ RecvEof(c) \/ HandlePacket(c) \/ PacketsDone(c)
           \/ CloseConnection(c)
    PROVE  /\ hpc[c] \notin {"none", "done"} /\ hpc'[c] # "none"
           /\ \A d \in Conns \ {c} : hpc'[d] = hpc[d]
BY DEF Recv, RecvEof, HandlePacket, PacketsDone, CloseConnection, HandlerAt, ConnType

(* What the listen thread holds, step by step.                             *)
LEMMA ListenInvStep ==
    ConnType /\ JoinInv /\ ListenInv /\ [Next]_vars => ListenInv'
<1> SUFFICES ASSUME ConnType, JoinInv, ListenInv, [Next]_vars PROVE ListenInv'
  OBVIOUS
<1> USE DEF ListenInv
<1>1. CASE UNCHANGED <<lpc, conn, hpc, client, run_flag, thread_list>>
  BY <1>1 DEF Accepted
<1>2. CASE MainStep
  <2>1. UNCHANGED <<conn, hpc, client>>
    BY <1>2, MainFrame
  <2>2. CASE InitFlags
    BY <2>1, <2>2 DEF InitFlags, At, JoinInv, BeforeListen, BeforeTs, Accepted
  <2>3. CASE StartListening
    BY <2>1, <2>3 DEF StartListening, flagVars, Accepted
  <2>4. CASE ShutdownOperations
    BY <2>1, <2>4 DEF ShutdownOperations, Accepted
  <2>5. CASE JoinConn
    <3>1. ToSet(thread_list') \subseteq ToSet(thread_list)
      BY <2>5, ListPop DEF JoinConn, ConnType
    <3> QED
      BY <2>1, <2>5, <3>1 DEF JoinConn, flagVars, Accepted
  <2>6. CASE \/ SetUpSignals \/ OpenDisk \/ GetBoundSocket \/ SetTimer
             \/ StartTimestamps \/ Reap \/ JoinedAll \/ CloseFiles \/ FreeFlags
             \/ RemoveAndReturn
    BY <1>1, <2>1, <2>6
    DEF SetUpSignals, OpenDisk, GetBoundSocket, SetTimer, StartTimestamps, Reap,
        JoinedAll, CloseFiles, FreeFlags, RemoveAndReturn, flagVars
  <2> QED
    BY <1>2, <2>2, <2>3, <2>4, <2>5, <2>6 DEF MainStep
<1>3. CASE TsStep
  BY <1>1, <1>3, TsFrame
<1>4. CASE ListenStep
  <2>1. UNCHANGED run_flag
    BY <1>4, ListenFrame
  <2>2. CASE ListenCheck \/ Listen \/ AcceptCheck \/ ListenRecheck
    BY <2>1, <2>2 DEF ListenCheck, Listen, AcceptCheck, ListenRecheck, ListenAt,
                      Accepted
  <2>3. CASE Accept
    BY <2>1, <2>3 DEF Accept, ListenAt, Accepted, ConnType
  <2>4. CASE CreateHandler
    BY <2>1, <2>4 DEF CreateHandler, ListenAt, Accepted, ConnType
  <2>5. CASE AddThreadToList
    <3>1. ToSet(thread_list') = {conn} \cup ToSet(thread_list)
      BY <2>5, ListPush DEF AddThreadToList, ListenAt, ConnType
    <3> QED
      BY <2>1, <2>5, <3>1 DEF AddThreadToList, ListenAt, Accepted
  <2> QED
    BY <1>4, <2>2, <2>3, <2>4, <2>5 DEF ListenStep
<1>5. ASSUME NEW c \in Conns,
             \/ Recv(c) \/ RecvEof(c) \/ HandlePacket(c) \/ PacketsDone(c)
             \/ CloseConnection(c)
      PROVE  ListenInv'
  <2>1. UNCHANGED <<lpc, conn, client, run_flag, thread_list>>
    BY <1>5, HandlerFrame
  <2>2. \A d \in Conns : (hpc'[d] = "none") <=> (hpc[d] = "none")
    BY <1>5, HandlerExists
  <2>3. \A d \in ToSet(thread_list) : d \in Conns
    BY DEF ConnType, ToSet
  <2> QED
    BY <2>1, <2>2, <2>3 DEF Accepted
<1>6. ASSUME NEW d \in Conns, ClientStep(d) PROVE ListenInv'
  <2>1. UNCHANGED <<lpc, conn, hpc, run_flag, thread_list>>
    BY <1>6, ClientFrame DEF flagVars
  <2>2. \A c \in Conns : Accepted(c)' <=> Accepted(c)
    BY <1>6, ClientAccepted
  <2> QED
    BY <2>1, <2>2
<1>7. CASE SigTerm \/ SigAlrm
  <2>1. UNCHANGED <<lpc, conn, hpc, client, thread_list>>
    BY <1>7, SignalFrame
  <2>2. ~run_flag => ~run_flag'
    BY <1>7 DEF SigTerm, SigAlrm
  <2> QED
    BY <2>1, <2>2 DEF Accepted
<1>8. CASE UNCHANGED allButProc
  BY <1>1, <1>8
  DEF allButProc, flagVars, listenVars, handlerVars, clientVars
<1> QED
  BY <1>2, <1>3, <1>4, <1>5, <1>6, <1>7, <1>8, StepCases

-----------------------------------------------------------------------------
(* These parts together are inductive.                                     *)
ServerInv ==
    ControlType /\ FlagType /\ ConnType /\ SentInv /\ JoinInv /\ ListenInv

(* The invariant holds when the process starts.                            *)
LEMMA InitInv == Init => ServerInv
<1> SUFFICES ASSUME Init PROVE ServerInv
  OBVIOUS
<1>1. ControlType
  BY ServerAssumption DEF Init, ControlType, Steps
<1>2. FlagType
  BY DEF Init, FlagType
<1>3. ConnType
  BY ServerAssumption DEF Init, ConnType
<1>4. SentInv
  <2> SUFFICES ASSUME NEW c \in Conns PROVE LinesAddUp(c)
    BY DEF SentInv
  <2>1. /\ inbox[c] = <<>> /\ Len(inbox[c]) = 0
        /\ sent[c] = 0 /\ pending[c] = 0 /\ served[c] = 0
    BY DEF Init, DF!Init, DF!Threads
  <2> DEFINE before == [i \in 1..1 |-> 0]
  <2>2. /\ before \in [1..(Len(inbox[c]) + 1) -> 0..sent[c]]
        /\ before[1] = pending[c] + served[c]
        /\ \A i \in 1..Len(inbox[c]) : before[i + 1] = before[i] + inbox[c][i].lines
        /\ before[Len(inbox[c]) + 1] = sent[c]
    BY <2>1
  <2> QED
    BY <2>2 DEF LinesAddUp
<1>5. JoinInv
  BY DEF Init, DF!Init, DF!Threads, JoinInv, BeforeTs, BeforeListen, Cleanup,
         TsJoined, ListenJoined
<1>6. ListenInv
  BY ListEmpty DEF Init, ListenInv, Accepted
<1> QED
  BY <1>1, <1>2, <1>3, <1>4, <1>5, <1>6 DEF ServerInv

(* The types, the lines that add up, the order of creations and joins, and *)
(* what the listen thread holds, hold in every state.                      *)
THEOREM ServerInvCorrect == Spec => []ServerInv
<1>1. ServerInv /\ DF!TypeOK /\ [Next]_vars => ServerInv'
  BY ControlStep, FlagStep, ConnStep, SentStep, JoinStep, ListenInvStep
  DEF ServerInv
<1> QED
  BY <1>1, InitInv, FileType, PTL DEF Spec

(* Every variable of the server has its type; no handler ever has more     *)
(* complete lines in its buffer than its client may send.                  *)
THEOREM TypeCorrect == Spec => []TypeOK
<1>1. ServerInv /\ DF!TypeOK => TypeOK
  BY TypeParts, PendingBounded DEF ServerInv
<1> QED
  BY <1>1, ServerInvCorrect, FileType, PTL

(* The list of threads knows every handler that runs, and none twice.      *)
THEOREM HandlersListedCorrect == Spec => []HandlersListed
<1>1. Init => HandlersListed
  BY ListEmpty DEF Init, HandlersListed
<1>2. ServerInv /\ HandlersListed /\ [Next]_vars /\ JoinInv' => HandlersListed'
  <2> SUFFICES ASSUME ServerInv, HandlersListed, [Next]_vars, JoinInv'
               PROVE  HandlersListed'
    OBVIOUS
  <2> USE DEF ServerInv
  <2>0. (main = "join_conns" => lpc = "done")'
    BY DEF JoinInv, ListenJoined, TsJoined
  <2>1. CASE UNCHANGED <<lpc, conn, hpc, thread_list>>
    BY <2>0, <2>1 DEF HandlersListed
  <2>2. CASE MainStep
    <3>1. UNCHANGED <<conn, hpc>>
      BY <2>2, MainFrame
    <3>2. CASE JoinConn
      <4>1. /\ UNCHANGED lpc
            /\ IsInjective(thread_list')
            /\ ToSet(thread_list) = {Head(thread_list)} \cup ToSet(thread_list')
            /\ hpc[Head(thread_list)] = "done"
        BY <3>2, ListPop DEF JoinConn, ConnType, HandlersListed
      <4> QED
        BY <2>0, <3>1, <4>1 DEF HandlersListed
    <3>3. CASE StartListening
      BY <2>0, <3>1, <3>3
      DEF StartListening, At, JoinInv, BeforeListen, HandlersListed
    <3>4. CASE ~JoinConn /\ ~StartListening
      <4>1. UNCHANGED lpc
        BY <2>2, <3>4
        DEF MainStep, InitFlags, SetUpSignals, OpenDisk, GetBoundSocket, SetTimer,
            StartTimestamps, Reap, ShutdownOperations, JoinedAll, CloseFiles,
            FreeFlags, RemoveAndReturn
      <4> QED
        BY <2>1, <2>2, <3>1, <3>4, <4>1, MainFrame
    <3> QED
      BY <3>2, <3>3, <3>4
  <2>3. CASE TsStep
    BY <2>1, <2>3, TsFrame
  <2>4. CASE ListenStep
    <3>1. CASE ListenCheck \/ Listen \/ AcceptCheck \/ Accept \/ ListenRecheck
      BY <2>0, <3>1 DEF ListenCheck, Listen, AcceptCheck, Accept, ListenRecheck,
                        ListenAt, HandlersListed
    <3>2. CASE CreateHandler
      <4>1. /\ lpc = "create" /\ lpc' = "add"
            /\ UNCHANGED <<conn, thread_list>>
            /\ \A c \in Conns \ {conn} : hpc'[c] = hpc[c]
        BY <3>2 DEF CreateHandler, ListenAt, ConnType
      <4> QED
        BY <2>0, <4>1 DEF HandlersListed
    <3>3. CASE AddThreadToList
      <4>1. /\ ToSet(thread_list') = {conn} \cup ToSet(thread_list)
            /\ IsInjective(thread_list')
        BY <3>3, ListPush
        DEF AddThreadToList, ListenAt, ListenInv, ConnType, HandlersListed
      <4> QED
        BY <2>0, <3>3, <4>1 DEF AddThreadToList, ListenAt, HandlersListed
    <3> QED
      BY <2>4, <3>1, <3>2, <3>3 DEF ListenStep
  <2>5. ASSUME NEW c \in Conns,
               \/ Recv(c) \/ RecvEof(c) \/ HandlePacket(c) \/ PacketsDone(c)
               \/ CloseConnection(c)
        PROVE  HandlersListed'
    <3>1. UNCHANGED <<lpc, conn, thread_list>>
      BY <2>5, HandlerFrame
    <3>2. hpc[c] \notin {"none", "done"} /\ \A d \in Conns \ {c} : hpc'[d] = hpc[d]
      BY <2>5, HandlerExists
    <3> QED
      BY <2>0, <3>1, <3>2 DEF HandlersListed
  <2>6. ASSUME NEW c \in Conns, ClientStep(c) PROVE HandlersListed'
    BY <2>1, <2>6, ClientFrame
  <2>7. CASE SigTerm \/ SigAlrm \/ UNCHANGED allButProc
    BY <2>1, <2>7, SignalFrame DEF allButProc, listenVars, handlerVars
  <2> QED
    BY <2>2, <2>3, <2>4, <2>5, <2>6, <2>7, StepCases
<1>3. ServerInv => JoinInv
  BY DEF ServerInv
<1> QED
  BY <1>1, <1>2, <1>3, ServerInvCorrect, PTL DEF Spec

(* Cleanup starts when every other thread has ended and nobody holds the   *)
(* mutex: main() joins the listen thread before it walks the list.         *)
THEOREM CleanupCorrect == Spec => []CleanupIsAlone
<1>1. ServerInv /\ HandlersListed /\ DF!TypeOK /\ DF!MutualExclusion => CleanupIsAlone
  <2> SUFFICES ASSUME ServerInv, HandlersListed, DF!TypeOK, DF!MutualExclusion,
                      main \in Cleanup
               PROVE  /\ lpc = "done" /\ tspc \in {"done", "failed"}
                      /\ \A c \in Conns : hpc[c] \in {"none", "done"}
                      /\ g_file_mutex = NoThread
    BY DEF CleanupIsAlone, Cleanup
  <2>1. lpc = "done" /\ tspc \in {"done", "failed"} /\ thread_list = <<>>
    BY DEF ServerInv, JoinInv, ListenJoined, TsJoined
  <2>2. \A c \in Conns : hpc[c] \in {"none", "done"}
    BY <2>1, ListEmpty DEF HandlersListed
  <2>3. \A t \in Conns \cup {TsThread} : step[t] = "out"
    BY <2>1, <2>2 DEF ServerInv, JoinInv
  <2>4. g_file_mutex = NoThread
    BY <2>3 DEF DF!MutualExclusion, DF!TypeOK, DF!Threads
  <2> QED
    BY <2>1, <2>2, <2>4
<1> QED
  BY <1>1, ServerInvCorrect, HandlersListedCorrect, FileType, FileMutex, PTL

-----------------------------------------------------------------------------
(* Every accepted connection is in somebody's hands: the listen thread     *)
(* gives it to a handler before it asks for the next one.                  *)
THEOREM AcceptedAreHandledCorrect == Spec => []AcceptedAreHandled
<1>1. Init => AcceptedAreHandled
  BY DEF Init, AcceptedAreHandled
<1>2. ServerInv /\ AcceptedAreHandled /\ [Next]_vars => AcceptedAreHandled'
  <2> SUFFICES ASSUME ServerInv, AcceptedAreHandled, [Next]_vars
               PROVE  AcceptedAreHandled'
    OBVIOUS
  <2> USE DEF ServerInv, AcceptedAreHandled
  <2>1. CASE UNCHANGED <<lpc, conn, hpc, client, run_flag>>
    BY <2>1
  <2>2. CASE MainStep
    <3>1. UNCHANGED <<conn, hpc, client>>
      BY <2>2, MainFrame
    <3>2. CASE InitFlags
      BY <3>1, <3>2 DEF InitFlags, At, JoinInv, BeforeListen, BeforeTs
    <3>3. CASE StartListening
      BY <3>1, <3>3 DEF StartListening, At, JoinInv, BeforeListen
    <3>4. CASE ShutdownOperations
      BY <3>1, <3>4 DEF ShutdownOperations
    <3>5. CASE ~InitFlags /\ ~StartListening /\ ~ShutdownOperations
      <4>1. UNCHANGED <<lpc, run_flag>>
        BY <2>2, <3>5
        DEF MainStep, SetUpSignals, OpenDisk, GetBoundSocket, SetTimer, JoinConn,
            StartTimestamps, Reap, JoinedAll, CloseFiles, FreeFlags,
            RemoveAndReturn, flagVars
      <4> QED
        BY <2>1, <3>1, <4>1
    <3> QED
      BY <3>2, <3>3, <3>4, <3>5
  <2>3. CASE TsStep
    BY <2>1, <2>3, TsFrame
  <2>4. CASE ListenStep
    <3>1. UNCHANGED run_flag
      BY <2>4, ListenFrame
    <3>2. CASE ListenCheck \/ Listen \/ AcceptCheck \/ ListenRecheck
      BY <3>1, <3>2 DEF ListenCheck, Listen, AcceptCheck, ListenRecheck, ListenAt
    <3>3. CASE Accept
      BY <3>1, <3>3 DEF Accept, ListenAt, ConnType
    <3>4. CASE CreateHandler
      BY <3>1, <3>4 DEF CreateHandler, ListenAt, ConnType
    <3>5. CASE AddThreadToList
      BY <3>1, <3>5 DEF AddThreadToList, ListenAt
    <3> QED
      BY <2>4, <3>2, <3>3, <3>4, <3>5 DEF ListenStep
  <2>5. ASSUME NEW c \in Conns,
               \/ Recv(c) \/ RecvEof(c) \/ HandlePacket(c) \/ PacketsDone(c)
               \/ CloseConnection(c)
        PROVE  AcceptedAreHandled'
    BY <2>5, HandlerFrame, HandlerExists
  <2>6. ASSUME NEW d \in Conns, ClientStep(d) PROVE AcceptedAreHandled'
    <3>1. \A c \in Conns : Accepted(c)' <=> Accepted(c)
      BY <2>6, ClientAccepted
    <3>2. UNCHANGED <<lpc, conn, hpc, run_flag>>
      BY <2>6, ClientFrame DEF flagVars
    <3> QED
      BY <3>1, <3>2 DEF Accepted
  <2>7. CASE SigTerm \/ SigAlrm
    <3>1. ~run_flag => ~run_flag'
      BY <2>7 DEF SigTerm, SigAlrm
    <3> QED
      BY <2>7, <3>1, SignalFrame
  <2>8. CASE UNCHANGED allButProc
    BY <2>1, <2>8 DEF allButProc, flagVars, listenVars, handlerVars, clientVars
  <2> QED
    BY <2>2, <2>3, <2>4, <2>5, <2>6, <2>7, <2>8, StepCases
<1> QED
  BY <1>1, <1>2, ServerInvCorrect, PTL DEF Spec

-----------------------------------------------------------------------------
(* No more timestamps than alarms and the one that shutdown causes.        *)
LEMMA TsInvStep ==
    ServerInv /\ DF!TypeOK /\ TsInv /\ [Next]_vars => TsInv'
<1> SUFFICES ASSUME ServerInv, DF!TypeOK, TsInv, [Next]_vars PROVE TsInv'
  OBVIOUS
<1> USE DEF ServerInv
<1>1. served[TsThread] \in Nat /\ alarms \in Nat
  BY DEF DF!TypeOK, DF!Threads, ControlType
<1>2. CASE UNCHANGED <<served, tspc, alarms, due_flag, run_flag>>
  BY <1>2 DEF TsInv
<1>3. CASE MainStep
  <2>1. UNCHANGED <<served, alarms>>
    BY <1>3, MainFrame DEF fileVars
  <2>2. CASE InitFlags
    <3>1. tspc = "none" /\ tspc' = "none" /\ due_flag' = FALSE
      BY <2>2 DEF InitFlags, At, JoinInv, BeforeTs
    <3> QED
      BY <1>1, <2>1, <3>1 DEF TsInv
  <2>3. CASE StartTimestamps
    <3>1. /\ tspc = "none" /\ tspc' \in {"check", "failed"}
          /\ UNCHANGED <<run_flag, due_flag>>
      BY <2>3 DEF StartTimestamps, At, JoinInv, BeforeTs, flagVars
    <3> QED
      BY <1>1, <2>1, <3>1 DEF TsInv
  <2>4. CASE ShutdownOperations
    <3>1. UNCHANGED <<tspc, due_flag>> /\ run_flag' = FALSE
      BY <2>4 DEF ShutdownOperations
    <3> QED
      BY <1>1, <2>1, <3>1 DEF TsInv
  <2>5. CASE ~InitFlags /\ ~StartTimestamps /\ ~ShutdownOperations
    <3>1. UNCHANGED <<tspc, run_flag, due_flag>>
      BY <1>3, <2>5
      DEF MainStep, SetUpSignals, OpenDisk, GetBoundSocket, SetTimer,
          StartListening, Reap, JoinConn, JoinedAll, CloseFiles, FreeFlags,
          RemoveAndReturn, flagVars
    <3> QED
      BY <1>2, <2>1, <3>1
  <2> QED
    BY <2>2, <2>3, <2>4, <2>5
<1>4. CASE TsStep
  <2>1. UNCHANGED <<alarms, run_flag>>
    BY <1>4, TsFrame
  <2>2. CASE TsCheck
    <3>1. UNCHANGED <<served, due_flag>>
      BY <2>2 DEF TsCheck, fileVars
    <3>2. CASE tspc = "check" /\ tspc' = (IF run_flag THEN "wait" ELSE "done")
      BY <1>1, <2>1, <3>1, <3>2 DEF TsInv
    <3>3. CASE tspc = "wait" /\ (~run_flag \/ due_flag) /\ tspc' = "lock"
      BY <1>1, <2>1, <3>1, <3>3 DEF TsInv
    <3> QED
      BY <2>2, <3>2, <3>3 DEF TsCheck, TsAt
  <2>3. CASE TsPrint
    BY <1>1, <1>2, <2>1, <2>3, TsEffect DEF TsInv
  <2>4. CASE TsClear
    <3>1. /\ tspc = "clear" /\ tspc' = "check" /\ due_flag' = FALSE
          /\ UNCHANGED served
      BY <2>4 DEF TsClear, TsAt, fileVars
    <3> QED
      BY <1>1, <2>1, <3>1 DEF TsInv
  <2> QED
    BY <1>4, <2>2, <2>3, <2>4 DEF TsStep
<1>5. CASE ListenStep
  BY <1>2, <1>5, ListenFrame DEF fileVars
<1>6. ASSUME NEW c \in Conns,
             \/ Recv(c) \/ RecvEof(c) \/ HandlePacket(c) \/ PacketsDone(c)
             \/ CloseConnection(c)
      PROVE  TsInv'
  <2>1. UNCHANGED <<tspc, alarms, due_flag, run_flag>>
    BY <1>6, HandlerFrame
  <2>2. served'[TsThread] = served[TsThread]
    <3>1. CASE HandlePacket(c)
      BY <3>1, PacketEffect, ServerAssumption DEF DF!Threads
    <3> QED
      BY <1>6, <3>1 DEF Recv, RecvEof, PacketsDone, CloseConnection, fileVars
  <2> QED
    BY <2>1, <2>2 DEF TsInv
<1>7. ASSUME NEW c \in Conns, ClientStep(c) PROVE TsInv'
  BY <1>2, <1>7, ClientFrame DEF flagVars, signalVars
<1>8. CASE SigTerm
  <2>1. UNCHANGED <<served, tspc, due_flag, alarms>> /\ (run_flag' => run_flag)
    BY <1>8 DEF SigTerm, notSignal, fileVars
  <2> QED
    BY <1>1, <2>1 DEF TsInv
<1>9. CASE SigAlrm
  <2>1. /\ UNCHANGED <<served, tspc, run_flag>> /\ alarms' = alarms + 1
        /\ due_flag' \in BOOLEAN
    BY <1>9 DEF SigAlrm, notSignal, fileVars, FlagType
  <2> QED
    BY <1>1, <2>1 DEF TsInv
<1>10. CASE UNCHANGED allButProc
  BY <1>2, <1>10 DEF allButProc, fileVars, flagVars, signalVars
<1> QED
  BY <1>3, <1>4, <1>5, <1>6, <1>7, <1>8, <1>9, <1>10, StepCases

(* Timestamps never outnumber the alarms, but for the one that shutdown    *)
(* causes.                                                                 *)
THEOREM TimestampsBoundedCorrect == Spec => []TimestampsBounded
<1>1. Init => TsInv
  BY DEF Init, DF!Init, DF!Threads, TsInv
<1>2. ServerInv /\ DF!TypeOK /\ TsInv => TimestampsBounded
  <2> SUFFICES ASSUME ServerInv, DF!TypeOK, TsInv PROVE TimestampsBounded
    OBVIOUS
  <2>1. /\ served[TsThread] \in Nat /\ alarms \in Nat
        /\ tspc \in {"none", "failed", "check", "wait", "lock", "clear", "done"}
    BY DEF DF!TypeOK, DF!Threads, ServerInv, ControlType
  <2> QED
    BY <2>1 DEF TsInv, TimestampsBounded
<1> QED
  BY <1>1, <1>2, TsInvStep, ServerInvCorrect, FileType, PTL DEF Spec

-----------------------------------------------------------------------------
(* What a handler leaves unserved.  While memory lasts its loop ends with  *)
(* an empty buffer; recv() returns 0 only after the client's end, which    *)
(* the client does not take back.                                          *)
DropsAtEof(c) ==
    /\ hpc[c] \in {"none", "recv"} => served[c] = 0
    /\ (~MayFail /\ hpc[c] \in {"close", "done"} /\ pending[c] > 0) =>
         client[c] \in {"fin", "reset"} /\ served[c] = 0

(* The invariant says of each connection that its lines are dropped at EOF *)
(* only.                                                                   *)
LEMMA DropParts == DropInv <=> \A c \in Conns : DropsAtEof(c)
BY DEF DropInv, DropsAtEof, LinesDroppedOnlyAtEof

(* A client that has shut down or reset its connection has done so for     *)
(* good.                                                                   *)
LEMMA ClientEnds ==
    ASSUME ConnType, NEW c \in Conns, NEW d \in Conns, ClientStep(d),
           client[c] \in {"fin", "reset"}
    PROVE  client'[c] \in {"fin", "reset"}
BY DEF ClientStep, ClientConnects, ClientSends, ClientShutsDown, ClientStalls,
       ClientReads, ClientCloses, ClientResets, Connected, Heard, clientVars,
       ConnType

(* What a handler leaves unserved, step by step.                           *)
LEMMA DropStep ==
    ServerInv /\ DF!TypeOK /\ DropInv /\ [Next]_vars => DropInv'
<1> SUFFICES ASSUME ServerInv, DF!TypeOK, DropInv, [Next]_vars, NEW c \in Conns
             PROVE  DropsAtEof(c)'
  BY DEF DropInv, DropsAtEof, LinesDroppedOnlyAtEof
<1> USE DEF ServerInv
<1>0. DropsAtEof(c)
  BY DropParts
<1>1. CASE UNCHANGED <<hpc, pending, client, served>>
  BY <1>0, <1>1 DEF DropsAtEof
<1>2. CASE MainStep
  BY <1>1, <1>2, MainFrame DEF fileVars
<1>3. CASE TsStep
  <2>1. served'[c] = served[c]
    <3>1. CASE TsPrint
      BY <3>1, TsEffect
    <3> QED
      BY <1>3, <3>1 DEF TsStep, TsCheck, TsClear, fileVars
  <2> QED
    BY <1>0, <1>3, <2>1, TsFrame DEF DropsAtEof
<1>4. CASE ListenStep
  <2>1. UNCHANGED <<pending, served>>
    BY <1>4, ListenFrame DEF fileVars
  <2>2. CASE Accept
    <3>1. UNCHANGED hpc /\ (client[c] \in {"fin", "reset"} => client'[c] = client[c])
      BY <2>2 DEF Accept, ConnType
    <3> QED
      BY <1>0, <2>1, <3>1 DEF DropsAtEof
  <2>3. CASE CreateHandler
    <3>1. /\ hpc[conn] = "none" /\ conn \in Conns /\ UNCHANGED client
          /\ hpc' = [hpc EXCEPT ![conn] = "recv"]
      BY <2>3 DEF CreateHandler, ListenAt, ListenInv
    <3>2. hpc'[c] = hpc[c] \/ (hpc[c] = "none" /\ hpc'[c] = "recv")
      BY <3>1 DEF ConnType
    <3> QED
      BY <1>0, <2>1, <3>1, <3>2 DEF DropsAtEof
  <2>4. CASE ListenCheck \/ Listen \/ AcceptCheck \/ ListenRecheck \/ AddThreadToList
    BY <1>1, <2>1, <2>4
    DEF ListenCheck, Listen, AcceptCheck, ListenRecheck, AddThreadToList
  <2> QED
    BY <1>4, <2>2, <2>3, <2>4 DEF ListenStep
<1>5. ASSUME NEW d \in Conns,
             \/ Recv(d) \/ RecvEof(d) \/ HandlePacket(d) \/ PacketsDone(d)
             \/ CloseConnection(d)
      PROVE  DropsAtEof(c)'
  <2>1. UNCHANGED client
    BY <1>5, HandlerFrame
  <2>2. CASE c # d
    <3>1. hpc'[c] = hpc[c]
      BY <1>5, <2>2, HandlerExists
    <3>2. served'[c] = served[c] /\ pending'[c] = pending[c]
      <4>1. CASE HandlePacket(d)
        BY <2>2, <4>1, PacketEffect DEF ConnType, DF!Threads
      <4>2. CASE Recv(d)
        BY <2>2, <4>2 DEF Recv, ConnType, fileVars
      <4> QED
        BY <1>5, <4>1, <4>2 DEF RecvEof, PacketsDone, CloseConnection, fileVars
    <3> QED
      BY <1>0, <2>1, <3>1, <3>2 DEF DropsAtEof
  <2>3. CASE c = d
    <3>1. CASE Recv(c)
      <4>1. hpc[c] = "recv" /\ hpc'[c] \in {"recv", "packets"} /\ UNCHANGED served
        BY <3>1 DEF Recv, HandlerAt, ConnType, fileVars
      <4> QED
        BY <1>0, <4>1 DEF DropsAtEof
    <3>2. CASE RecvEof(c)
      <4>1. /\ hpc[c] = "recv" /\ client[c] = "fin" /\ hpc'[c] = "close"
            /\ UNCHANGED served
        BY <3>2 DEF RecvEof, HandlerAt, ConnType, fileVars
      <4> QED
        BY <1>0, <2>1, <4>1 DEF DropsAtEof
    <3>3. CASE HandlePacket(c)
      BY <3>3, PacketEffect DEF DropsAtEof
    <3>4. CASE PacketsDone(c)
      <4>1. hpc'[c] = "close" /\ UNCHANGED pending /\ (pending[c] = 0 \/ MayFail)
        BY <3>4 DEF PacketsDone, ConnType
      <4> QED
        BY <4>1 DEF DropsAtEof
    <3>5. CASE CloseConnection(c)
      <4>1. hpc[c] = "close" /\ hpc'[c] = "done" /\ UNCHANGED <<pending, served>>
        BY <3>5 DEF CloseConnection, HandlerAt, ConnType, fileVars
      <4> QED
        BY <1>0, <2>1, <4>1 DEF DropsAtEof
    <3> QED
      BY <1>5, <2>3, <3>1, <3>2, <3>3, <3>4, <3>5
  <2> QED
    BY <2>2, <2>3
<1>6. ASSUME NEW d \in Conns, ClientStep(d) PROVE DropsAtEof(c)'
  BY <1>0, <1>6, ClientFrame, ClientEnds DEF DropsAtEof
<1>7. CASE SigTerm \/ SigAlrm \/ UNCHANGED allButProc
  BY <1>1, <1>7, SignalFrame DEF allButProc, fileVars, handlerVars, clientVars
<1> QED
  BY <1>2, <1>3, <1>4, <1>5, <1>6, <1>7, StepCases

(* Only the end of the data after a full chunk makes a handler close a     *)
(* connection whose lines it has not served.                               *)
THEOREM LinesDroppedCorrect == Spec => []LinesDroppedOnlyAtEof
<1>1. Init => DropInv
  BY DEF Init, DF!Init, DF!Threads, DropInv, LinesDroppedOnlyAtEof
<1>2. DropInv => LinesDroppedOnlyAtEof
  BY DEF DropInv
<1> QED
  BY <1>1, <1>2, DropStep, ServerInvCorrect, FileType, PTL DEF Spec

-----------------------------------------------------------------------------
(* What can end the process.                                               *)
LEMMA NothingDies ==
    ASSUME Faults \subseteq {"stall"}, ServerInv, DF!TypeOK, AliveInv,
           [Next]_vars, lpc \notin {"none", "done"}
    PROVE  UNCHANGED proc
<1> USE DEF ServerInv
<1>1. /\ ~MayFail
      /\ main \notin BeforeListen /\ main \notin ListenJoined
      /\ handlers /\ {"run", "due"} \subseteq live
      /\ \A c \in Conns : peer[c] # "gone" /\ client[c] # "reset"
  BY DEF MayFail, AliveInv, JoinInv, BeforeListen, BeforeTs, ListenJoined,
         TsJoined, Cleanup
<1>2. CASE UNCHANGED vars \/ Terminated
  BY <1>2 DEF vars, Terminated
<1>3. CASE MainStep
  <2>1. ~RemoveAndReturn
    BY <1>1 DEF RemoveAndReturn, At, ListenJoined, TsJoined, Cleanup
  <2> QED
    BY <1>3, <2>1
    DEF MainStep, InitFlags, SetUpSignals, OpenDisk, GetBoundSocket, SetTimer,
        StartTimestamps, StartListening, Reap, ShutdownOperations, JoinConn,
        JoinedAll, CloseFiles, FreeFlags, Goto
<1>4. CASE StartFails \/ BadJoin \/ ListenFails
  BY <1>1, <1>4 DEF StartFails, BadJoin, ListenFails, At, ListenJoined
<1>5. CASE TsStep
  BY <1>5 DEF TsStep, TsCheck, TsPrint, TsClear, DF!TsLock, DF!TsPrint, DF!TsUnlock
<1>6. CASE ListenStep
  BY <1>6 DEF ListenStep, ListenCheck, Listen, AcceptCheck, Accept,
              ListenRecheck, CreateHandler, AddThreadToList
<1>7. ASSUME NEW c \in Conns, HandlerStep(c) \/ BufferFails(c)
      PROVE  UNCHANGED proc
  <2>1. CASE HandlePacket(c)
    BY <1>1, <2>1
    DEF MayFail, HandlePacket, DF!LockForPacket, DF!UnlockAfterPacket,
        DF!PacketStep, DF!WriteMessage, DF!WriteNewline, DF!Rewind,
        DF!CopyChunk, DF!SocketWriteFails, DF!CopyEnds, DF!SeekEnd, DF!SeekFails
  <2> QED
    BY <1>1, <1>7, <2>1
    DEF HandlerStep, Recv, RecvEof, RecvFails, PacketsDone, CloseConnection,
        BufferFails
<1>8. ASSUME NEW c \in Conns, ClientStep(c) PROVE UNCHANGED proc
  BY <1>8, ClientFrame
<1>9. CASE SigTerm \/ SigAlrm
  BY <1>1, <1>9 DEF SigTerm, SigAlrm, StoreFlag
<1> QED
  BY <1>2, <1>3, <1>4, <1>5, <1>6, <1>7, <1>8, <1>9 DEF Next

(* The clients that are left can neither close early nor reset.            *)
LEMMA ClientsBehave ==
    ASSUME Faults \subseteq {"stall"}, DF!TypeOK, ConnType, AliveInv,
           NEW d \in Conns, ClientStep(d)
    PROVE  \A c \in Conns : peer'[c] # "gone" /\ client'[c] # "reset"
<1>1. \A c \in Conns : peer[c] # "gone" /\ client[c] # "reset"
  BY DEF AliveInv
<1>2. ~ClientCloses(d) /\ ~ClientResets(d)
  BY DEF ClientCloses, ClientResets
<1>3. CASE ClientConnects(d) \/ ClientSends(d) \/ ClientShutsDown(d)
  BY <1>1, <1>3 DEF ClientConnects, ClientSends, ClientShutsDown, ConnType
<1>4. CASE ClientStalls(d) \/ ClientReads(d)
  <2>1. UNCHANGED client /\ peer'[d] # "gone"
    BY <1>4 DEF ClientStalls, ClientReads, clientVars
  <2>2. \A c \in Conns \ {d} : peer'[c] = peer[c]
    BY <1>4 DEF ClientStalls, ClientReads, DF!PeerChanges, DF!TypeOK
  <2> QED
    BY <1>1, <2>1, <2>2
<1> QED
  BY <1>2, <1>3, <1>4 DEF ClientStep

(* Nothing ends the process early, step by step.                           *)
LEMMA AliveStep ==
    ASSUME Faults \subseteq {"stall"}
    PROVE  ServerInv /\ DF!TypeOK /\ AliveInv /\ [Next]_vars => AliveInv'
<1> SUFFICES ASSUME ServerInv, DF!TypeOK, AliveInv, [Next]_vars PROVE AliveInv'
  OBVIOUS
<1> DEFINE Peers == \A c \in Conns : peer[c] # "gone" /\ client[c] # "reset"
           Flags == /\ handlers <=> main \notin {"init", "signals"}
                    /\ armed => main \notin BeforeTs \ {"ts"}
                    /\ main \notin {"init", "free_due", "remove", "done"} => "run" \in live
                    /\ main \notin {"init", "remove", "done"} => "due" \in live
           Lives == lpc \notin {"none", "done"} => Running
<1>0. Peers /\ Flags /\ Lives
  BY DEF AliveInv
<1>1. Lives'
  <2>1. CASE lpc \notin {"none", "done"}
    BY <1>0, <2>1, NothingDies DEF Running
  <2>2. CASE lpc \in {"none", "done"} /\ UNCHANGED lpc
    BY <2>2
  <2>3. CASE lpc \in {"none", "done"} /\ MainStep
    <3>1. CASE StartListening
      BY <3>1 DEF StartListening, At, Goto, Running
    <3> QED
      BY <2>2, <2>3, <3>1
      DEF MainStep, InitFlags, SetUpSignals, OpenDisk, GetBoundSocket, SetTimer,
          StartTimestamps, Reap, ShutdownOperations, JoinConn, JoinedAll,
          CloseFiles, FreeFlags, RemoveAndReturn
  <2>4. CASE lpc \in {"none", "done"} /\ ListenStep
    BY <2>4 DEF ListenStep, ListenCheck, Listen, AcceptCheck, Accept,
                ListenRecheck, CreateHandler, AddThreadToList, ListenAt
  <2>5. CASE lpc \in {"none", "done"} /\ ~MainStep /\ ~ListenStep
    BY <2>2, <2>5, StepCases, TsFrame, HandlerFrame, ClientFrame, SignalFrame
    DEF allButProc, listenVars
  <2> QED
    BY <2>1, <2>3, <2>4, <2>5
<1>2. Peers'
  <2>1. CASE UNCHANGED peer /\ \A c \in Conns : client'[c] # "reset"
    BY <1>0, <2>1
  <2>2. CASE ListenStep
    <3>1. \A c \in Conns : client'[c] # "reset"
      BY <1>0, <2>2 DEF ListenStep, ListenCheck, Listen, AcceptCheck, Accept,
                        ListenRecheck, CreateHandler, AddThreadToList, ServerInv,
                        ConnType
    <3> QED
      BY <2>1, <2>2, <3>1, ListenFrame
  <2>3. ASSUME NEW d \in Conns, ClientStep(d) PROVE Peers'
    BY <2>3, ClientsBehave DEF ServerInv
  <2>4. CASE UNCHANGED <<peer, client>>
    BY <1>0, <2>4
  <2> QED
    BY <2>2, <2>3, <2>4, StepCases, MainFrame, TsFrame, HandlerFrame, SignalFrame
    DEF allButProc, clientVars
<1>3. Flags'
  <2>1. CASE UNCHANGED <<handlers, armed, main, live>>
    BY <1>0, <2>1
  <2>2. CASE MainStep
    BY <1>0, <2>2
    DEF MainStep, InitFlags, SetUpSignals, OpenDisk, GetBoundSocket, SetTimer,
        StartTimestamps, StartListening, Reap, ShutdownOperations, JoinConn,
        JoinedAll, CloseFiles, FreeFlags, RemoveAndReturn, At, Goto, flagVars,
        mainVars, BeforeTs
  <2> QED
    BY <2>1, <2>2, StepCases, TsFrame, ListenFrame, HandlerFrame, ClientFrame,
       SignalFrame DEF allButProc, flagVars, signalVars, mainVars
<1> QED
  BY <1>1, <1>2, <1>3 DEF AliveInv

(* As long as clients only ever stall and no call fails, nothing ends the  *)
(* process while the listen thread exists, whatever the signals do.        *)
THEOREM ListensWhileRunningCorrect ==
    ASSUME Faults \subseteq {"stall"}
    PROVE  Spec => []ListensWhileRunning
<1>1. Init => AliveInv
  BY DEF Init, DF!Init, AliveInv, BeforeTs
<1>2. AliveInv => ListensWhileRunning
  BY DEF AliveInv, ListensWhileRunning
<1> QED
  BY <1>1, <1>2, AliveStep, ServerInvCorrect, FileType, PTL DEF Spec
=============================================================================
