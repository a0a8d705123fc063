--------------------------- MODULE RestartProofs ---------------------------
(***************************************************************************)
(* Proofs about Restart, for any number of servers and of lines.           *)
(***************************************************************************)
EXTENDS Restart, TLAPS

Unopened == {"none", "exec", "open"}
Opened == Active \ Unopened
Closing == {"join", "remove", "done"}

TypeInv ==
    /\ main \in [Servers -> Active \cup {"none", "killed", "failed", "done"}]
    /\ run_flag \in [Servers -> BOOLEAN]
    /\ diskfd \in [Servers -> Servers \cup {None}]
    /\ path \in Servers \cup {None}
    /\ lines \in [Servers -> Nat]
    /\ met \in [Servers -> SUBSET Servers]
    /\ \A p \in Servers : main[p] \in Unopened => diskfd[p] = None
    /\ \A p \in Servers : main[p] \in Opened => diskfd[p] # None

(* A file was created by a server that had it open, and the one at the     *)
(* path by one that has not removed it.                                    *)
FileInv ==
    /\ path # None => diskfd[path] = path /\ main[path] # "done"
    /\ \A p \in Servers : diskfd[p] # None => diskfd[diskfd[p]] = diskfd[p]
    /\ \A p \in Servers : lines[p] > 0 => diskfd[p] = p

(* Servers are started in the order of their numbers, and what stops one   *)
(* stops the older ones too.                                               *)
OrderInv ==
    /\ \A p \in Servers : main[p] = "none" => run_flag[p]
    /\ \A p \in Servers : main[p] \in Closing => ~run_flag[p]
    /\ \A p, q \in Servers : (q < p /\ main[q] = "none") => main[p] = "none"
    /\ \A p, q \in Servers :
         (p < q /\ Alive(p) /\ ~run_flag[q]) => ~run_flag[p]

(* A server that has opened the file has met the older ones still alive,   *)
(* and only one of them can have taken its file away.                      *)
KeptInv ==
    /\ \A p, q \in Servers :
         (q < p /\ main[p] \in Opened /\ Alive(q)) => q \in met[p]
    /\ \A p \in Servers :
         (main[p] \in Opened /\ run_flag[p] /\ path # diskfd[p]) =>
            \E q \in met[p] : q < p /\ main[q] = "done"

(* Servers are numbers, and None is not one of them.                       *)
LEMMA ServersAreNumbers == Servers \subseteq Nat /\ None \notin Servers
<1> QED BY RestartAssumption DEF Servers, None

(* A thread that writes has the file open.                                 *)
LEMMA LinesType ==
    ASSUME TypeInv, NEW p \in Servers, main[p] \in Opened
    PROVE  [lines EXCEPT ![diskfd[p]] = @ + 1] \in [Servers -> Nat]
<1> DEFINE f == diskfd[p]
<1>1. f \in Servers /\ lines \in [Servers -> Nat]
  BY DEF TypeInv
<1> HIDE DEF f
<1>2. lines[f] \in Nat
  BY <1>1, Zenon
<1>3. [lines EXCEPT ![f] = @ + 1] \in [Servers -> Nat]
  BY <1>1, <1>2
<1> QED BY <1>3 DEF f

(* Every step keeps the types.                                             *)
LEMMA TypeStep == TypeInv /\ [Next]_vars => TypeInv'
<1> SUFFICES ASSUME TypeInv, [Next]_vars PROVE TypeInv'
  OBVIOUS
<1> USE ServersAreNumbers DEF At, Goto, kernel, Active, Alive, Fresh,
        Unopened, Opened, Closing, Listening, TypeInv
<1>1. CASE ScriptStart
  BY <1>1 DEF ScriptStart, NewServer
<1>2. CASE ScriptReturns
  BY <1>2 DEF ScriptReturns
<1>3. CASE ScriptStop
  BY <1>3 DEF ScriptStop
<1>4. CASE StartByHand
  BY <1>4 DEF StartByHand, NewServer
<1>5. ASSUME NEW p \in Servers, SetUpSignals(p) PROVE TypeInv'
  BY <1>5 DEF SetUpSignals
<1>6. ASSUME NEW p \in Servers, OpenDisk(p) PROVE TypeInv'
  BY <1>6 DEF OpenDisk
<1>7. ASSUME NEW p \in Servers, Bind(p) PROVE TypeInv'
  BY <1>7 DEF Bind
<1>8. ASSUME NEW p \in Servers, Daemonize(p) PROVE TypeInv'
  BY <1>8 DEF Daemonize
<1>9. ASSUME NEW p \in Servers, Listen(p) PROVE TypeInv'
  BY <1>9 DEF Listen
<1>10. ASSUME NEW p \in Servers, CloseListener(p) PROVE TypeInv'
  BY <1>10 DEF CloseListener
<1>11. ASSUME NEW p \in Servers, JoinThreads(p) PROVE TypeInv'
  BY <1>11 DEF JoinThreads
<1>12. ASSUME NEW p \in Servers, Remove(p) PROVE TypeInv'
  BY <1>12 DEF Remove
<1>13. ASSUME NEW p \in Servers, ServeLine(p) PROVE TypeInv'
  BY <1>13, LinesType DEF ServeLine
<1>14. ASSUME NEW p \in Servers, PrintTimestamp(p) PROVE TypeInv'
  BY <1>14, LinesType DEF PrintTimestamp
<1>15. ASSUME NEW p \in Servers, Crash(p) PROVE TypeInv'
  BY <1>15 DEF Crash
<1>16. CASE PortCools
  BY <1>16 DEF PortCools
<1>17. CASE UNCHANGED vars
  BY <1>17 DEF vars
<1> QED BY <1>1, <1>2, <1>3, <1>4, <1>5, <1>6, <1>7, <1>8, <1>9, <1>10, <1>11,
        <1>12, <1>13, <1>14, <1>15, <1>16, <1>17 DEF Next, MainStep, Over

(* Only OpenDisk opens a file and only Remove takes one away.              *)
LEMMA FileStep == TypeInv /\ FileInv /\ [Next]_vars => FileInv'
<1> SUFFICES ASSUME TypeInv, FileInv, [Next]_vars PROVE FileInv'
  OBVIOUS
<1> USE ServersAreNumbers DEF At, Goto, kernel, Active, Alive, Fresh,
        Unopened, Opened, Closing, Listening, TypeInv, FileInv
<1>1. CASE ScriptStart
  BY <1>1 DEF ScriptStart, NewServer
<1>2. CASE ScriptReturns
  BY <1>2 DEF ScriptReturns
<1>3. CASE ScriptStop
  BY <1>3 DEF ScriptStop
<1>4. CASE StartByHand
  BY <1>4 DEF StartByHand, NewServer
<1>5. ASSUME NEW p \in Servers, SetUpSignals(p) PROVE FileInv'
  BY <1>5 DEF SetUpSignals
<1>6. ASSUME NEW p \in Servers, OpenDisk(p) PROVE FileInv'
  BY <1>6 DEF OpenDisk
<1>7. ASSUME NEW p \in Servers, Bind(p) PROVE FileInv'
  BY <1>7 DEF Bind
<1>8. ASSUME NEW p \in Servers, Daemonize(p) PROVE FileInv'
  BY <1>8 DEF Daemonize
<1>9. ASSUME NEW p \in Servers, Listen(p) PROVE FileInv'
  BY <1>9 DEF Listen
<1>10. ASSUME NEW p \in Servers, CloseListener(p) PROVE FileInv'
  BY <1>10 DEF CloseListener
<1>11. ASSUME NEW p \in Servers, JoinThreads(p) PROVE FileInv'
  BY <1>11 DEF JoinThreads
<1>12. ASSUME NEW p \in Servers, Remove(p) PROVE FileInv'
  BY <1>12 DEF Remove
<1>13. ASSUME NEW p \in Servers, ServeLine(p) PROVE FileInv'
  BY <1>13 DEF ServeLine
<1>14. ASSUME NEW p \in Servers, PrintTimestamp(p) PROVE FileInv'
  BY <1>14 DEF PrintTimestamp
<1>15. ASSUME NEW p \in Servers, Crash(p) PROVE FileInv'
  BY <1>15 DEF Crash
<1>16. CASE PortCools
  BY <1>16 DEF PortCools
<1>17. CASE UNCHANGED vars
  BY <1>17 DEF vars
<1> QED BY <1>1, <1>2, <1>3, <1>4, <1>5, <1>6, <1>7, <1>8, <1>9, <1>10, <1>11,
        <1>12, <1>13, <1>14, <1>15, <1>16, <1>17 DEF Next, MainStep, Over

(* ScriptStop is what clears run flags, of all servers that are alive.     *)
LEMMA OrderStep == TypeInv /\ OrderInv /\ [Next]_vars => OrderInv'
<1> SUFFICES ASSUME TypeInv, OrderInv, [Next]_vars PROVE OrderInv'
  OBVIOUS
<1> USE ServersAreNumbers DEF At, Goto, kernel, Active, Alive, Fresh,
        Unopened, Opened, Closing, Listening, TypeInv, OrderInv
<1>1. CASE ScriptStart
  BY <1>1 DEF ScriptStart, NewServer
<1>2. CASE ScriptReturns
  BY <1>2 DEF ScriptReturns
<1>3. CASE ScriptStop
  BY <1>3 DEF ScriptStop
<1>4. CASE StartByHand
  BY <1>4 DEF StartByHand, NewServer
<1>5. ASSUME NEW p \in Servers, SetUpSignals(p) PROVE OrderInv'
  BY <1>5 DEF SetUpSignals
<1>6. ASSUME NEW p \in Servers, OpenDisk(p) PROVE OrderInv'
  BY <1>6 DEF OpenDisk
<1>7. ASSUME NEW p \in Servers, Bind(p) PROVE OrderInv'
  BY <1>7 DEF Bind
<1>8. ASSUME NEW p \in Servers, Daemonize(p) PROVE OrderInv'
  BY <1>8 DEF Daemonize
<1>9. ASSUME NEW p \in Servers, Listen(p) PROVE OrderInv'
  BY <1>9 DEF Listen
<1>10. ASSUME NEW p \in Servers, CloseListener(p) PROVE OrderInv'
  BY <1>10 DEF CloseListener
<1>11. ASSUME NEW p \in Servers, JoinThreads(p) PROVE OrderInv'
  BY <1>11 DEF JoinThreads
<1>12. ASSUME NEW p \in Servers, Remove(p) PROVE OrderInv'
  BY <1>12 DEF Remove
<1>13. ASSUME NEW p \in Servers, ServeLine(p) PROVE OrderInv'
  BY <1>13 DEF ServeLine
<1>14. ASSUME NEW p \in Servers, PrintTimestamp(p) PROVE OrderInv'
  BY <1>14 DEF PrintTimestamp
<1>15. ASSUME NEW p \in Servers, Crash(p) PROVE OrderInv'
  BY <1>15 DEF Crash
<1>16. CASE PortCools
  BY <1>16 DEF PortCools
<1>17. CASE UNCHANGED vars
  BY <1>17 DEF vars
<1> QED BY <1>1, <1>2, <1>3, <1>4, <1>5, <1>6, <1>7, <1>8, <1>9, <1>10, <1>11,
        <1>12, <1>13, <1>14, <1>15, <1>16, <1>17 DEF Next, MainStep, Over

(* A server that removes has been stopped, hence is older than one that    *)
(* runs.                                                                   *)
LEMMA KeptStep == TypeInv /\ OrderInv /\ KeptInv /\ [Next]_vars => KeptInv'
<1> SUFFICES ASSUME TypeInv, OrderInv, KeptInv, [Next]_vars PROVE KeptInv'
  OBVIOUS
<1> USE ServersAreNumbers DEF At, Goto, kernel, Active, Alive, Fresh,
        Unopened, Opened, Closing, Listening, TypeInv, OrderInv, KeptInv
<1>1. CASE ScriptStart
  BY <1>1 DEF ScriptStart, NewServer
<1>2. CASE ScriptReturns
  BY <1>2 DEF ScriptReturns
<1>3. CASE ScriptStop
  BY <1>3 DEF ScriptStop
<1>4. CASE StartByHand
  BY <1>4 DEF StartByHand, NewServer
<1>5. ASSUME NEW p \in Servers, SetUpSignals(p) PROVE KeptInv'
  BY <1>5 DEF SetUpSignals
<1>6. ASSUME NEW p \in Servers, OpenDisk(p) PROVE KeptInv'
  BY <1>6 DEF OpenDisk
<1>7. ASSUME NEW p \in Servers, Bind(p) PROVE KeptInv'
  BY <1>7 DEF Bind
<1>8. ASSUME NEW p \in Servers, Daemonize(p) PROVE KeptInv'
  BY <1>8 DEF Daemonize
<1>9. ASSUME NEW p \in Servers, Listen(p) PROVE KeptInv'
  BY <1>9 DEF Listen
<1>10. ASSUME NEW p \in Servers, CloseListener(p) PROVE KeptInv'
  BY <1>10 DEF CloseListener
<1>11. ASSUME NEW p \in Servers, JoinThreads(p) PROVE KeptInv'
  BY <1>11 DEF JoinThreads
<1>12. ASSUME NEW p \in Servers, Remove(p) PROVE KeptInv'
  BY <1>12 DEF Remove
<1>13. ASSUME NEW p \in Servers, ServeLine(p) PROVE KeptInv'
  BY <1>13 DEF ServeLine
<1>14. ASSUME NEW p \in Servers, PrintTimestamp(p) PROVE KeptInv'
  BY <1>14 DEF PrintTimestamp
<1>15. ASSUME NEW p \in Servers, Crash(p) PROVE KeptInv'
  BY <1>15 DEF Crash
<1>16. CASE PortCools
  BY <1>16 DEF PortCools
<1>17. CASE UNCHANGED vars
  BY <1>17 DEF vars
<1> QED BY <1>1, <1>2, <1>3, <1>4, <1>5, <1>6, <1>7, <1>8, <1>9, <1>10, <1>11,
        <1>12, <1>13, <1>14, <1>15, <1>16, <1>17 DEF Next, MainStep, Over

(* The invariants hold together.                                           *)
LEMMA InvCorrect == Spec => [](TypeInv /\ FileInv /\ OrderInv /\ KeptInv)
<1>1. Init => TypeInv /\ FileInv /\ OrderInv /\ KeptInv
  BY ServersAreNumbers, RestartAssumption
     DEF Init, TypeInv, FileInv, OrderInv, KeptInv, Active, Alive, Unopened,
         Opened, Closing
<1> QED BY <1>1, TypeStep, FileStep, OrderStep, KeptStep, PTL DEF Spec

(* The data of a server that listens is found at the path, unless an older *)
(* server that had not ended when this one opened the file has removed it: *)
(* whatever is started, by script or by hand, stopped or crashes meanwhile.*)
THEOREM ServedFileKeptCorrect == Spec => []ServedFileKept
<1>1. TypeInv /\ KeptInv => ServedFileKept
  BY DEF KeptInv, ServedFileKept, Listening, Opened, Active, Unopened
<1> QED BY <1>1, InvCorrect, PTL

(* A server that opens a file with lines in it shares the file with one    *)
(* that has died, has failed or is still there.                            *)
THEOREM StartsEmptyCorrect == Spec => StartsEmpty
<1>1. TypeInv /\ FileInv /\ [Next]_vars => OpensUnremoved
  <2> SUFFICES ASSUME TypeInv, FileInv, [Next]_vars, NEW p \in Servers,
                      diskfd[p] # diskfd'[p], lines[diskfd'[p]] > 0
               PROVE  \E q \in Servers \ {p} :
                        diskfd[q] = diskfd'[p] /\ main[q] # "done"
    BY DEF OpensUnremoved
  <2>1. OpenDisk(p)
    BY DEF Next, MainStep, vars, kernel, TypeInv, ScriptStart, NewServer,
           ScriptReturns, ScriptStop, StartByHand, SetUpSignals, OpenDisk, Bind,
           Daemonize, Listen, CloseListener, JoinThreads, Remove, ServeLine,
           PrintTimestamp, Crash, PortCools, Over
  <2>2. diskfd[p] = None
    BY <2>1 DEF OpenDisk, At, TypeInv, Unopened
  <2>3. path # None
    BY <2>1, <2>2, ServersAreNumbers DEF OpenDisk, TypeInv, FileInv
  <2>4. path \in Servers /\ path # p /\ diskfd'[p] = path
    BY <2>1, <2>2, <2>3, ServersAreNumbers DEF OpenDisk, TypeInv, FileInv
  <2> QED BY <2>3, <2>4 DEF FileInv
<1> QED BY <1>1, InvCorrect, PTL DEF StartsEmpty, Spec
=============================================================================
