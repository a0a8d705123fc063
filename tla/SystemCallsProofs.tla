------------------------- MODULE SystemCallsProofs -------------------------
(***************************************************************************)
(* Proofs about SystemCalls, for any number of calls and other children.   *)
(***************************************************************************)
EXTENDS SystemCalls, TLAPS

Redirecting == {"open", "dup_stdout", "dup_stderr"}
Waiting == {"await", "system_wait"}
Files == Calls \cup {Terminal}

TypeInv ==
    /\ pc \in Redirecting \cup Waiting \cup {"idle", "system", "fork"}
    /\ call \in Nat /\ call <= MaxCalls
    /\ kind \in [Calls -> {"none", "system", "exec", "redirect"}]
    /\ ret \in [Calls -> {"none", "true", "false"}]
    /\ stdout \in Files /\ stderr \in Files /\ redirect_fd \in Files
    /\ child \in [Children -> Ended \cup {"none", "forked", "running"}]
    /\ reaped \subseteq Children
    /\ output \in [Children -> Files \X Files]

(* The calls before the current one have returned, those after it have not *)
(* begun, and where the process stands in the current one agrees with its  *)
(* kind and its child.                                                     *)
CallInv ==
    /\ pc # "idle" => call \in Calls /\ ret[call] = "none"
    /\ \A n \in Calls : n > call =>
         kind[n] = "none" /\ ret[n] = "none" /\ child[n] = "none"
    /\ \A n \in Calls : n < call => ret[n] # "none"
    /\ pc = "idle" => \A n \in Calls : n <= call => ret[n] # "none"
    /\ pc # "idle" => (child[call] # "none" <=> pc \in Waiting)
    /\ pc \in Redirecting => kind[call] = "redirect"
    /\ pc \in {"system", "system_wait"} => kind[call] = "system"
    /\ pc \in {"fork", "await"} => kind[call] \in {"exec", "redirect"}

(* What the caller's two streams are: the terminal, or the file of a call  *)
(* that redirects, none older than the last one that ran its command.      *)
StreamInv ==
    /\ redirect_fd = IF pc \in {"dup_stdout", "dup_stderr"} THEN call
                                                            ELSE Terminal
    /\ pc = "dup_stderr" => stdout = call
    /\ (pc \in {"fork", "await"} /\ kind[call] = "redirect") =>
         stdout = call /\ stderr = call
    /\ \A f \in {stdout, stderr} :
         f # Terminal => f <= call /\ kind[f] = "redirect"
    /\ \A m \in Calls : (kind[m] = "redirect" /\ child[m] # "none") =>
         stdout >= m /\ stderr >= m

(* Calls are numbered from 1; the terminal, 0, is none of them.            *)
LEMMA CallsAreNumbers ==
    /\ Calls \subseteq Nat /\ Terminal \notin Calls /\ Calls \subseteq Children
    /\ \A n \in Nat : (n # 0 /\ n <= MaxCalls) => n \in Calls
    /\ \A n \in Calls : n > 0 /\ n <= MaxCalls
<1> QED BY SystemCallsAssumption DEF Calls, Children, Terminal

(* Only a call that is being made waits or forks.                          *)
LEMMA TypeStep ==
    TypeInv /\ CallInv /\ [Next]_vars
    => TypeInv'
<1> SUFFICES ASSUME TypeInv, CallInv, [Next]_vars
             PROVE  TypeInv'
  OBVIOUS
<1> USE CallsAreNumbers, SystemCallsAssumption
    DEF fds, kids, Return, Exited, Ended, Redirecting, Waiting, Files,
        Terminal, TypeInv
<1>1. CASE Begin
  BY <1>1 DEF Begin
<1>2. CASE Open
  BY <1>2 DEF Open
<1>3. CASE DupFails
  BY <1>3 DEF DupFails
<1>4. CASE DupStdout
  BY <1>4 DEF DupStdout
<1>5. CASE DupStderr
  BY <1>5 DEF DupStderr
<1>6. CASE Fork
  BY <1>6 DEF Fork
<1>7. CASE AwaitChild
  BY <1>7 DEF AwaitChild
<1>8. CASE AwaitNobody
  BY <1>8 DEF AwaitNobody, vars
<1>9. CASE SystemReturns
  BY <1>9 DEF SystemReturns, CallInv
<1>10. ASSUME NEW p \in Children, ChildExecs(p) PROVE TypeInv'
  BY <1>10 DEF ChildExecs
<1>11. ASSUME NEW p \in Children, ChildExecFails(p) PROVE TypeInv'
  BY <1>11 DEF ChildExecFails
<1>12. ASSUME NEW p \in Children, ProgramEnds(p) PROVE TypeInv'
  BY <1>12 DEF ProgramEnds
<1>13. CASE UNCHANGED vars
  BY <1>13 DEF vars
<1> QED BY <1>1, <1>2, <1>3, <1>4, <1>5, <1>6, <1>7, <1>8, <1>9, <1>10, <1>11,
           <1>12, <1>13
        DEF Next, CallStep, ChildStep, Finished

(* One call after the other.                                               *)
LEMMA CallKept ==
    TypeInv /\ CallInv /\ [Next]_vars
    => CallInv'
<1> SUFFICES ASSUME TypeInv, CallInv, [Next]_vars
             PROVE  CallInv'
  OBVIOUS
<1> USE CallsAreNumbers, SystemCallsAssumption
    DEF fds, kids, Return, Exited, Ended, Redirecting, Waiting, Files,
        Terminal, TypeInv, CallInv
<1>1. CASE Begin
  BY <1>1 DEF Begin
<1>2. CASE Open
  BY <1>2 DEF Open
<1>3. CASE DupFails
  BY <1>3 DEF DupFails
<1>4. CASE DupStdout
  BY <1>4 DEF DupStdout
<1>5. CASE DupStderr
  BY <1>5 DEF DupStderr
<1>6. CASE Fork
  BY <1>6 DEF Fork
<1>7. CASE AwaitChild
  BY <1>7 DEF AwaitChild
<1>8. CASE AwaitNobody
  BY <1>8 DEF AwaitNobody, vars
<1>9. CASE SystemReturns
  BY <1>9 DEF SystemReturns
<1>10. ASSUME NEW p \in Children, ChildExecs(p) PROVE CallInv'
  BY <1>10 DEF ChildExecs
<1>11. ASSUME NEW p \in Children, ChildExecFails(p) PROVE CallInv'
  BY <1>11 DEF ChildExecFails
<1>12. ASSUME NEW p \in Children, ProgramEnds(p) PROVE CallInv'
  BY <1>12 DEF ProgramEnds
<1>13. CASE UNCHANGED vars
  BY <1>13 DEF vars
<1> QED BY <1>1, <1>2, <1>3, <1>4, <1>5, <1>6, <1>7, <1>8, <1>9, <1>10, <1>11,
           <1>12, <1>13
        DEF Next, CallStep, ChildStep, Finished

(* Only DupStdout and DupStderr change the streams, and never undo it.     *)
LEMMA StreamStep ==
    TypeInv /\ CallInv /\ StreamInv /\ [Next]_vars
    => StreamInv'
<1> SUFFICES ASSUME TypeInv, CallInv, StreamInv, [Next]_vars
             PROVE  StreamInv'
  OBVIOUS
<1> USE CallsAreNumbers, SystemCallsAssumption
    DEF fds, kids, Return, Exited, Ended, Redirecting, Waiting, Files,
        Terminal, TypeInv, CallInv, StreamInv
<1>1. CASE Begin
  BY <1>1 DEF Begin
<1>2. CASE Open
  BY <1>2 DEF Open
<1>3. CASE DupFails
  BY <1>3 DEF DupFails
<1>4. CASE DupStdout
  BY <1>4 DEF DupStdout
<1>5. CASE DupStderr
  BY <1>5 DEF DupStderr
<1>6. CASE Fork
  BY <1>6 DEF Fork
<1>7. CASE AwaitChild
  BY <1>7 DEF AwaitChild
<1>8. CASE AwaitNobody
  BY <1>8 DEF AwaitNobody, vars
<1>9. CASE SystemReturns
  BY <1>9 DEF SystemReturns
<1>10. ASSUME NEW p \in Children, ChildExecs(p) PROVE StreamInv'
  BY <1>10 DEF ChildExecs
<1>11. ASSUME NEW p \in Children, ChildExecFails(p) PROVE StreamInv'
  BY <1>11 DEF ChildExecFails
<1>12. ASSUME NEW p \in Children, ProgramEnds(p) PROVE StreamInv'
  BY <1>12 DEF ProgramEnds
<1>13. CASE UNCHANGED vars
  BY <1>13 DEF vars
<1> QED BY <1>1, <1>2, <1>3, <1>4, <1>5, <1>6, <1>7, <1>8, <1>9, <1>10, <1>11,
           <1>12, <1>13
        DEF Next, CallStep, ChildStep, Finished

(* A result is set once, when the call's own child has been reaped.        *)
LEMMA ResultStep ==
    TypeInv /\ CallInv /\ ResultIsOwn /\ [Next]_vars
    => ResultIsOwn'
<1> SUFFICES ASSUME TypeInv, CallInv, ResultIsOwn, [Next]_vars
             PROVE  ResultIsOwn'
  OBVIOUS
<1> USE CallsAreNumbers, SystemCallsAssumption
    DEF fds, kids, Return, Exited, Ended, Redirecting, Waiting, Files,
        Terminal, TypeInv, CallInv, ResultIsOwn
<1>1. CASE Begin
  BY <1>1 DEF Begin
<1>2. CASE Open
  BY <1>2 DEF Open
<1>3. CASE DupFails
  BY <1>3 DEF DupFails
<1>4. CASE DupStdout
  BY <1>4 DEF DupStdout
<1>5. CASE DupStderr
  BY <1>5 DEF DupStderr
<1>6. CASE Fork
  BY <1>6 DEF Fork
<1>7. CASE AwaitChild
  BY <1>7 DEF AwaitChild
<1>8. CASE AwaitNobody
  BY <1>8 DEF AwaitNobody, vars
<1>9. CASE SystemReturns
  BY <1>9 DEF SystemReturns
<1>10. ASSUME NEW p \in Children, ChildExecs(p) PROVE ResultIsOwn'
  BY <1>10 DEF ChildExecs
<1>11. ASSUME NEW p \in Children, ChildExecFails(p) PROVE ResultIsOwn'
  BY <1>11 DEF ChildExecFails
<1>12. ASSUME NEW p \in Children, ProgramEnds(p) PROVE ResultIsOwn'
  BY <1>12 DEF ProgramEnds
<1>13. CASE UNCHANGED vars
  BY <1>13 DEF vars
<1> QED BY <1>1, <1>2, <1>3, <1>4, <1>5, <1>6, <1>7, <1>8, <1>9, <1>10, <1>11,
           <1>12, <1>13
        DEF Next, CallStep, ChildStep, Finished

(* A child inherits the streams at the fork.                               *)
LEMMA OutputStep ==
    TypeInv /\ CallInv /\ StreamInv /\ OutputWhereAsked /\ [Next]_vars
    => OutputWhereAsked'
<1> SUFFICES ASSUME TypeInv, CallInv, StreamInv, OutputWhereAsked, [Next]_vars
             PROVE  OutputWhereAsked'
  OBVIOUS
<1> USE CallsAreNumbers, SystemCallsAssumption
    DEF fds, kids, Return, Exited, Ended, Redirecting, Waiting, Files,
        Terminal, TypeInv, CallInv, StreamInv, OutputWhereAsked
<1>1. CASE Begin
  BY <1>1 DEF Begin
<1>2. CASE Open
  BY <1>2 DEF Open
<1>3. CASE DupFails
  BY <1>3 DEF DupFails
<1>4. CASE DupStdout
  BY <1>4 DEF DupStdout
<1>5. CASE DupStderr
  BY <1>5 DEF DupStderr
<1>6. CASE Fork
  BY <1>6 DEF Fork
<1>7. CASE AwaitChild
  BY <1>7 DEF AwaitChild
<1>8. CASE AwaitNobody
  BY <1>8 DEF AwaitNobody, vars
<1>9. CASE SystemReturns
  BY <1>9 DEF SystemReturns
<1>10. ASSUME NEW p \in Children, ChildExecs(p) PROVE OutputWhereAsked'
  BY <1>10 DEF ChildExecs
<1>11. ASSUME NEW p \in Children, ChildExecFails(p) PROVE OutputWhereAsked'
  BY <1>11 DEF ChildExecFails
<1>12. ASSUME NEW p \in Children, ProgramEnds(p) PROVE OutputWhereAsked'
  BY <1>12 DEF ProgramEnds
<1>13. CASE UNCHANGED vars
  BY <1>13 DEF vars
<1> QED BY <1>1, <1>2, <1>3, <1>4, <1>5, <1>6, <1>7, <1>8, <1>9, <1>10, <1>11,
           <1>12, <1>13
        DEF Next, CallStep, ChildStep, Finished

(* The invariants hold together.                                           *)
LEMMA InvCorrect ==
    Spec =>
    [](TypeInv /\ CallInv /\ StreamInv /\ ResultIsOwn /\ OutputWhereAsked)
<1> USE CallsAreNumbers, SystemCallsAssumption
    DEF Redirecting, Waiting, Files, Terminal, Exited, Ended
<1>1. Init => TypeInv
  BY DEF Init, TypeInv
<1>2. Init => CallInv /\ ResultIsOwn
  <2> SUFFICES ASSUME Init PROVE CallInv /\ ResultIsOwn
    OBVIOUS
  <2>1. /\ pc = "idle" /\ call = 0
        /\ \A n \in Calls : kind[n] = "none" /\ ret[n] = "none"
    BY DEF Init
  <2>2. \A n \in Calls : n \in Children /\ n \notin Others
    OBVIOUS
  <2>3. \A n \in Calls : child[n] = "none"
    BY <2>2 DEF Init
  <2> QED BY <2>1, <2>3 DEF CallInv, ResultIsOwn
<1>3. Init => StreamInv /\ OutputWhereAsked
  BY DEF Init, StreamInv, OutputWhereAsked
<1> QED BY <1>1, <1>2, <1>3, TypeStep, CallKept, StreamStep,
           ResultStep, OutputStep, PTL DEF Spec

(* What do_system(), do_exec() and do_exec_redirect() return is about the  *)
(* child they forked, whichever other children of the process end first.   *)
THEOREM ResultCorrect == Spec => []ResultIsOwn
<1> QED BY InvCorrect, PTL

(* Commands write where do_exec_redirect() was last asked to send them,    *)
(* whichever of its steps fail.                                            *)
THEOREM OutputCorrect == Spec => []OutputWhereAsked
<1> QED BY InvCorrect, PTL
=============================================================================
