---------------------------- MODULE Popen_proofs ----------------------------
(***************************************************************************)
(* A Popen on Unix.  First the safety of PopenLifecycle, for any threads,  *)
(* exit codes and worlds, and with it that PopenLifecycle implements       *)
(* ChildStatus; then what a call of communicate() that has come back can   *)
(* say, for any settings: any pipes, capacities, sizes of reads, inputs    *)
(* and outputs.  That it comes back is a matter of fairness and left to    *)
(* TLC.                                                                    *)
(***************************************************************************)
EXTENDS PopenImplementsStatus, PopenCommunicate, TLAPS


\* Where the lock is held, and where a collected status is not stored yet.
Section == {"pollWaitpid", "pollStore", "waitWaitpid", "waitStore"}
Storing == {"pollStore", "waitStore"}

LockHeld == \A t \in Threads : pc[t] \in Section <=> waitpidLock = {t}
ChildKnown ==
    /\ child = "unborn" <=> ~childCreated
    /\ ~(childCreated /\ detachedStarted)
    /\ child \in {"zombie", "gone"} => status # {}
    /\ child \in {"unborn", "running"} => status = {}
    /\ SigchldIgnored => child # "zombie" /\ \A t \in Threads : pc[t] \notin Storing
StoreInv == \A t \in Threads : pc[t] \in Storing => child = "gone" /\ returncode = {}
StatusKept ==
    /\ returncode # {} => child = "gone"
    /\ (~SigchldIgnored /\ returncode # {}) => returncode = {ReturnCode(st) : st \in status}
\* A collected status is either stored or on its way.
NotLost ==
    (~SigchldIgnored /\ child = "gone" /\ returncode = {}) =>
        \E t \in Threads : pc[t] \in Storing
Overtaken ==
    \A t, u \in Threads :
        (t # u /\ pc[u] \in Storing /\ pc[t] # "idle") => t \in raced
KillInv ==
    \A t \in Threads :
        (~SigchldIgnored /\ pc[t] = "signalKill" /\ child = "gone") => t \in raced
TimedOnly == \A t \in Threads : pc[t] \in {"timedEnter", "timedCheck"} => op[t] = "timedWait"

IInv ==
    /\ TypeOK
    /\ LockHeld /\ ChildKnown /\ StoreInv /\ StatusKept /\ NotLost
    /\ Overtaken /\ KillInv /\ TimedOnly
    /\ StrayOnlyWhenRaced /\ NothingLeftBehind

LEMMA InitIInv == Init => IInv
  BY DEF Init, IInv, TypeOK, LockHeld, ChildKnown, StoreInv, StatusKept, NotLost, Overtaken,
         KillInv, TimedOnly, StrayOnlyWhenRaced, NothingLeftBehind, Section, Storing,
         WaitStatus, ReturnCodes, Errors, Ops, Points, Signals, SIGKILL, SIGTERM

\* The type of what a step stores in returncode.
LEMMA ReturnCodeType ==
  ASSUME NEW S \in SUBSET WaitStatus
  PROVE  {ReturnCode(st) : st \in S} \in SUBSET ReturnCodes
  <1>1. ASSUME NEW st \in WaitStatus PROVE ReturnCode(st) \in ReturnCodes
    BY <1>1 DEF ReturnCode, WaitStatus, ReturnCodes
  <1>2. QED
    BY <1>1

\* Where a thread can be, and what it can have returned, after a poll.
LEMMA PollReturnsType ==
  ASSUME TypeOK, NEW t \in Threads, NEW r \in BOOLEAN, PollReturns(t, r)
  PROVE  /\ pc' \in [Threads -> Points] /\ op' \in [Threads -> Ops]
         /\ result' \in [Threads -> BOOLEAN] /\ destroyed' \in BOOLEAN
  BY ZenonT(60) DEF TypeOK, PollReturns, Return, Goto, Points, Ops

LEMMA TypeStep == TypeOK /\ [Next]_vars => TypeOK'
  <1> SUFFICES ASSUME TypeOK, [Next]_vars PROVE TypeOK'
    OBVIOUS
  <1> USE DEF TypeOK, implVars, osVars, threadVars, history, Points, Ops, Errors, Signals,
              SIGKILL, SIGTERM, Goto, Return, PollReturns, SignalReturns, EarlyReturn, GoBack, Unlock
  <1>1. CASE UNCHANGED vars
    BY <1>1 DEF vars
  <1>2. CASE Environment
    <2>1. CASE ChildExits
      <3>1. PICK c \in ExitCodes : status' = {[how |-> "exited", n |-> c]}
        BY <2>1 DEF ChildExits
      <3>2. status' \in SUBSET WaitStatus
        BY <3>1 DEF WaitStatus
      <3> QED
        BY <2>1, <3>2 DEF ChildExits, Ended
    <2>2. ASSUME NEW s \in Signals, ChildSignaled(s) PROVE TypeOK'
      <3>1. status' \in SUBSET WaitStatus
        BY <2>2 DEF ChildSignaled, WaitStatus
      <3> QED
        BY <2>2, <3>1 DEF ChildSignaled, Ended
    <2>3. CASE ChildIgnoresSigterm \/ RecyclePid
      BY <2>3, ZenonT(60) DEF ChildIgnoresSigterm, RecyclePid
    <2> QED
      BY <1>2, <2>1, <2>2, <2>3 DEF Environment
  <1>3. ASSUME NEW t \in Threads, StartFails(t) \/ StartSucceeds(t) \/ Call(t) \/ Destroy(t)
        PROVE  TypeOK'
    <2>1. CASE StartFails(t)
      BY <2>1 DEF StartFails
    <2>2. CASE StartSucceeds(t)
      BY <2>2 DEF StartSucceeds
    <2>3. CASE Call(t)
      BY <2>3 DEF Call, Entry
    <2>4. CASE Destroy(t)
      BY <2>4, ZenonT(60) DEF Destroy
    <2> QED
      BY <1>3, <2>1, <2>2, <2>3, <2>4
  <1>4. ASSUME NEW t \in Threads, Tick(t) \/ WaitInterrupted(t)
        PROVE  TypeOK'
    BY <1>4, ZenonT(60) DEF Tick, WaitInterrupted
  <1>5. ASSUME NEW t \in Threads, Step(t)
        PROVE  TypeOK'
    <2>0. {ReturnCode(st) : st \in status} \in SUBSET ReturnCodes
      BY ReturnCodeType
    <2>00. {0} \in SUBSET ReturnCodes
      BY DEF ReturnCodes
    <2>1. CASE PollEnter(t)
      BY <2>1, ZenonT(60) DEF PollEnter
    <2>2. CASE PollTryLock(t)
      <3> HIDE DEF PollReturns
      <3>1. CASE waitpidLock' = {t} /\ Goto(t, "pollWaitpid")
        BY <2>2, <3>1 DEF PollTryLock
      <3>2. CASE UNCHANGED waitpidLock /\ PollReturns(t, FALSE)
        BY <2>2, <3>2, PollReturnsType DEF PollTryLock
      <3> QED
        BY <2>2, <3>1, <3>2 DEF PollTryLock
    <2>3. CASE PollWaitpid(t)
      <3> HIDE DEF PollReturns
      <3>1. CASE Reap(t) /\ Goto(t, "pollStore") /\ UNCHANGED <<returncode, waitpidLock>>
        BY <2>3, <3>1 DEF PollWaitpid, Reap
      <3>2. CASE Unlock /\ UNCHANGED <<returncode, osVars, history>>
                 /\ \E r \in BOOLEAN : PollReturns(t, r)
        BY <2>3, <3>2, PollReturnsType DEF PollWaitpid
      <3>3. CASE Unlock /\ returncode' = {0} /\ UNCHANGED <<osVars, history>>
                 /\ PollReturns(t, TRUE)
        BY <2>3, <3>3, <2>00, PollReturnsType, ZenonT(60) DEF PollWaitpid
      <3> QED
        BY <2>3, <3>1, <3>2, <3>3 DEF PollWaitpid
    <2>4. CASE PollStore(t)
      BY <2>4, <2>0, ZenonT(60) DEF PollStore, HandleExitstatus
    <2>5. CASE TimedEnter(t)
      BY <2>5 DEF TimedEnter
    <2>6. CASE TimedCheck(t)
      BY <2>6, ZenonT(60) DEF TimedCheck
    <2>7. CASE WaitEnter(t)
      BY <2>7 DEF WaitEnter
    <2>8. CASE WaitLoop(t)
      BY <2>8, ZenonT(60) DEF WaitLoop
    <2>9. CASE WaitLock(t)
      BY <2>9 DEF WaitLock
    <2>10. CASE WaitWaitpid(t)
      BY <2>10, <2>00, ZenonT(60) DEF WaitWaitpid, Reap
    <2>11. CASE WaitStore(t)
      BY <2>11, <2>0 DEF WaitStore, HandleExitstatus
    <2>12. CASE SignalEnter(t)
      BY <2>12 DEF SignalEnter
    <2>13. CASE SignalCheck(t)
      BY <2>13 DEF SignalCheck
    <2>14. CASE SignalKill(t)
      BY <2>14, ZenonT(60) DEF SignalKill
    <2> QED
      BY <1>5, <2>1, <2>2, <2>3, <2>4, <2>5, <2>6, <2>7, <2>8, <2>9, <2>10, <2>11, <2>12, <2>13, <2>14 DEF Step
  <1> QED
    BY <1>1, <1>2, <1>3, <1>4, <1>5 DEF Next

LEMMA WorldFixed == [Next]_vars => world' = world /\ (SigchldIgnored' <=> SigchldIgnored)
  <1> SUFFICES ASSUME [Next]_vars PROVE world' = world
    BY DEF SigchldIgnored
  <1>1. CASE UNCHANGED vars
    BY <1>1 DEF vars
  <1>2. CASE Environment
    BY <1>2 DEF Environment, ChildExits, ChildSignaled, ChildIgnoresSigterm, RecyclePid
  <1>3. ASSUME NEW t \in Threads,
               \/ StartFails(t) \/ StartSucceeds(t) \/ Call(t) \/ Destroy(t)
               \/ Tick(t) \/ WaitInterrupted(t) \/ Step(t)
        PROVE  world' = world
    BY <1>3 DEF StartFails, StartSucceeds, Call, Destroy, Tick, WaitInterrupted, Step,
       PollEnter, PollTryLock, PollWaitpid, PollStore, TimedEnter, TimedCheck, WaitEnter,
       WaitLoop, WaitLock, WaitWaitpid, WaitStore, SignalEnter, SignalCheck, SignalKill
  <1> QED
    BY <1>1, <1>2, <1>3 DEF Next

LEMMA IInvStep == IInv /\ [Next]_vars => IInv'
  <1> SUFFICES ASSUME IInv, [Next]_vars PROVE IInv'
    OBVIOUS
  <1>0. TypeOK /\ TypeOK'
    BY TypeStep DEF IInv
  <1>00. SigchldIgnored' <=> SigchldIgnored
    BY WorldFixed
  <1> USE <1>0, <1>00 DEF IInv, LockHeld, ChildKnown, StoreInv, StatusKept, NotLost, Overtaken, KillInv,
              TimedOnly, StrayOnlyWhenRaced, NothingLeftBehind, Section, Storing,
              implVars, osVars, threadVars, history
  <1>1. CASE UNCHANGED vars
    BY <1>1 DEF vars
  <1>2. CASE Environment
    BY <1>2 DEF Environment, ChildExits, ChildSignaled, ChildIgnoresSigterm, RecyclePid, Ended, TypeOK
  <1>3. ASSUME NEW t \in Threads, StartFails(t) PROVE IInv'
    BY <1>3 DEF StartFails, TypeOK, Quiet
  <1>4. ASSUME NEW t \in Threads, StartSucceeds(t) PROVE IInv'
    BY <1>4 DEF StartSucceeds, TypeOK, Quiet
  <1>5. ASSUME NEW t \in Threads, Call(t) PROVE IInv'
    BY <1>5 DEF Call, TypeOK, Entry
  <1>6. ASSUME NEW t \in Threads, Destroy(t) PROVE IInv'
    BY <1>6 DEF Destroy, TypeOK, Quiet
  <1>7. ASSUME NEW t \in Threads, Tick(t) PROVE IInv'
    BY <1>7 DEF Tick, TypeOK
  <1>8. ASSUME NEW t \in Threads, WaitInterrupted(t) PROVE IInv'
    BY <1>8 DEF WaitInterrupted, TypeOK, Unlock, Goto
  <1>9. ASSUME NEW t \in Threads, PollEnter(t) PROVE IInv'
    BY <1>9 DEF PollEnter, TypeOK, Goto, Return, PollReturns, EarlyReturn, GoBack
  <1>10. ASSUME NEW t \in Threads, PollTryLock(t) PROVE IInv'
    <2>1. CASE waitpidLock = {} /\ waitpidLock' = {t} /\ Goto(t, "pollWaitpid")
      BY <1>10, <2>1 DEF PollTryLock, TypeOK, Goto
    <2>2. CASE UNCHANGED waitpidLock /\ PollReturns(t, FALSE)
      BY <1>10, <2>2 DEF PollTryLock, TypeOK, Goto, Return, PollReturns
    <2> QED
      BY <1>10, <2>1, <2>2 DEF PollTryLock
  <1>11. ASSUME NEW t \in Threads, PollWaitpid(t) PROVE IInv'
    <2>1. waitpidLock = {t}
      BY <1>11 DEF PollWaitpid
    <2>2. CASE returncode # {}
      BY <1>11, <2>2, SMTT(30) DEF PollWaitpid, TypeOK, PollReturns, Goto, Return, Unlock
    <2>3. CASE returncode = {} /\ Reap(t) /\ Goto(t, "pollStore") /\ UNCHANGED <<returncode, waitpidLock>>
      BY <1>11, <2>3 DEF PollWaitpid, TypeOK, Goto, Reap
    <2>4. CASE returncode = {} /\ child = "running"
      BY <1>11, <2>4 DEF PollWaitpid, TypeOK, PollReturns, Goto, Return, Reap, Unlock
    <2>5. CASE returncode = {} /\ child = "gone"
      <3>1. \A u \in Threads : pc[u] \notin Storing
        BY <1>11, <2>1 DEF PollWaitpid
      <3>2. SigchldIgnored
        BY <2>5, <3>1
      <3> QED
        BY <1>11, <2>1, <2>5, <3>2 DEF PollWaitpid, TypeOK, PollReturns, Goto, Return, Reap, Unlock
    <2> QED
      BY <1>11, <2>2, <2>3, <2>4, <2>5 DEF PollWaitpid
  <1>12. ASSUME NEW t \in Threads, PollStore(t) PROVE IInv'
    <2>1. child = "gone" /\ UNCHANGED child
      BY <1>12 DEF PollStore, osVars
    <2>2. StatusKept'
      BY <1>12, <2>1 DEF PollStore, HandleExitstatus, StatusKept, osVars
    <2>3. waitpidLock = {t} /\ waitpidLock' = {}
      BY <1>12 DEF PollStore, Unlock
    <2>4. NotLost'
      <3>1. \A st \in status : ReturnCode(st) \in {ReturnCode(x) : x \in status}
        OBVIOUS
      <3> QED
        BY <1>12, <2>1, <3>1 DEF PollStore, HandleExitstatus
    <2> HIDE DEF StatusKept, NotLost
    <2> QED
      BY <1>12, <2>1, <2>2, <2>3, <2>4 DEF PollStore, PollReturns, Return, Goto, TypeOK
  <1>13. ASSUME NEW t \in Threads, TimedEnter(t) PROVE IInv'
    BY <1>13 DEF TimedEnter, TypeOK, Goto, Return, EarlyReturn, GoBack
  <1>14. ASSUME NEW t \in Threads, TimedCheck(t) PROVE IInv'
    BY <1>14 DEF TimedCheck, TypeOK, Goto, Return
  <1>15. ASSUME NEW t \in Threads, WaitEnter(t) PROVE IInv'
    BY <1>15 DEF WaitEnter, TypeOK, Goto, Return, EarlyReturn, GoBack
  <1>16. ASSUME NEW t \in Threads, WaitLoop(t) PROVE IInv'
    BY <1>16 DEF WaitLoop, TypeOK, Goto, Return
  <1>17. ASSUME NEW t \in Threads, WaitLock(t) PROVE IInv'
    BY <1>17 DEF WaitLock, TypeOK, Goto, Return
  <1>18. ASSUME NEW t \in Threads, WaitWaitpid(t) PROVE IInv'
    <2>1. waitpidLock = {t}
      BY <1>18 DEF WaitWaitpid
    <2>2. CASE returncode # {}
      BY <1>18, <2>2 DEF WaitWaitpid, TypeOK, Goto, Return, Reap, Unlock
    <2>3. CASE returncode = {} /\ Reap(t)
      BY <1>18, <2>3 DEF WaitWaitpid, TypeOK, Goto, Return, Reap, Unlock
    <2>4. CASE returncode = {} /\ child = "gone"
      <3>1. \A u \in Threads : pc[u] \notin Storing
        BY <1>18, <2>1 DEF WaitWaitpid
      <3>2. SigchldIgnored
        BY <2>4, <3>1
      <3> QED
        BY <1>18, <2>1, <2>4, <3>2 DEF WaitWaitpid, TypeOK, Goto, Return, Reap, Unlock
    <2> QED
      BY <1>18, <2>2, <2>3, <2>4 DEF WaitWaitpid
  <1>19. ASSUME NEW t \in Threads, WaitStore(t) PROVE IInv'
    <2>1. child = "gone" /\ UNCHANGED child
      BY <1>19 DEF WaitStore, osVars
    <2>2. StatusKept'
      BY <1>19, <2>1 DEF WaitStore, HandleExitstatus, StatusKept, osVars
    <2>3. waitpidLock = {t} /\ waitpidLock' = {}
      BY <1>19 DEF WaitStore, Unlock
    <2>4. NotLost'
      <3>1. \A st \in status : ReturnCode(st) \in {ReturnCode(x) : x \in status}
        OBVIOUS
      <3> QED
        BY <1>19, <2>1, <3>1 DEF WaitStore, HandleExitstatus
    <2> HIDE DEF StatusKept, NotLost
    <2> QED
      BY <1>19, <2>1, <2>2, <2>3, <2>4 DEF WaitStore, Return, Goto, TypeOK
  <1>20. ASSUME NEW t \in Threads, SignalEnter(t) PROVE IInv'
    BY <1>20 DEF SignalEnter, TypeOK, Goto, Return, SignalReturns
  <1>21. ASSUME NEW t \in Threads, SignalCheck(t) PROVE IInv'
    BY <1>21 DEF SignalCheck, TypeOK, Goto, Return, SignalReturns
  <1>22. ASSUME NEW t \in Threads, SignalKill(t) PROVE IInv'
    BY <1>22 DEF SignalKill, TypeOK, Goto, Return, SignalReturns
  <1> QED
    BY <1>1, <1>2, <1>3, <1>4, <1>5, <1>6, <1>7, <1>8, <1>9, <1>10, <1>11, <1>12, <1>13, <1>14, <1>15, <1>16, <1>17, <1>18, <1>19, <1>20, <1>21, <1>22 DEF Next, Step

\* Whatever returncode() reports is the way the child ended.
THEOREM StatusIsTrueHolds == Spec => []StatusIsTrue
  <1>1. Init => IInv
    BY InitIInv
  <1>2. IInv /\ [Next]_vars => IInv'
    BY IInvStep
  <1>3. IInv => StatusIsTrue
    BY DEF IInv, StatusKept, StatusIsTrue
  <1>4. QED
    BY <1>1, <1>2, <1>3, PTL DEF Spec

\* Every variable of the object, the kernel and the threads has its type.
THEOREM TypeCorrect == Spec => []TypeOK
  <1>1. Init => IInv
    BY InitIInv
  <1>2. IInv /\ [Next]_vars => IInv'
    BY IInvStep
  <1>3. IInv => TypeOK
    BY DEF IInv
  <1>4. QED
    BY <1>1, <1>2, <1>3, PTL DEF Spec

\* A signal that hit another process was overtaken, in its call, by another thread's waitpid().
THEOREM StraysWereRaced == Spec => []StrayOnlyWhenRaced
  <1>1. Init => IInv
    BY InitIInv
  <1>2. IInv /\ [Next]_vars => IInv'
    BY IInvStep
  <1>3. IInv => StrayOnlyWhenRaced
    BY DEF IInv
  <1>4. QED
    BY <1>1, <1>2, <1>3, PTL DEF Spec

\* Destroying the object leaves neither a process nor a zombie.
THEOREM DestroyedMeansCollected == Spec => []NothingLeftBehind
  <1>1. Init => IInv
    BY InitIInv
  <1>2. IInv /\ [Next]_vars => IInv'
    BY IInvStep
  <1>3. IInv => NothingLeftBehind
    BY DEF IInv
  <1>4. QED
    BY <1>1, <1>2, <1>3, PTL DEF Spec

\* A reported status is never replaced.
THEOREM StatusIsFinalHolds == Spec => StatusIsFinal
  <1>1. ASSUME IInv, [Next]_vars, returncode # {}, childCreated
        PROVE  returncode' = returncode
    <2> USE <1>1 DEF implVars, osVars, threadVars, history, IInv, StoreInv, Storing
    <2>1. CASE UNCHANGED vars
      BY <2>1 DEF vars
    <2>2. CASE Environment
      BY <2>2 DEF Environment, ChildExits, ChildSignaled, ChildIgnoresSigterm, RecyclePid
    <2>3. ASSUME NEW t \in Threads,
                 \/ StartFails(t) \/ StartSucceeds(t) \/ Call(t) \/ Destroy(t)
                 \/ Tick(t) \/ WaitInterrupted(t)
          PROVE  returncode' = returncode
      BY <2>3 DEF StartFails, StartSucceeds, Call, Destroy, Tick, WaitInterrupted
    <2>4. ASSUME NEW t \in Threads, Step(t)
          PROVE  returncode' = returncode
      <3>1. ~PollStore(t) /\ ~WaitStore(t)
        BY DEF PollStore, WaitStore
      <3> QED
        BY <2>4, <3>1 DEF Step, PollEnter, PollTryLock, PollWaitpid, TimedEnter, TimedCheck,
           WaitEnter, WaitLoop, WaitLock, WaitWaitpid, SignalEnter, SignalCheck, SignalKill
    <2> QED
      BY <2>1, <2>2, <2>3, <2>4 DEF Next
  <1>2. Spec => []IInv
    BY InitIInv, IInvStep, PTL DEF Spec
  <1>3. IInv /\ [Next]_vars =>
          [(returncode # {} /\ childCreated) => returncode' = returncode]_vars
    BY <1>1
  <1>4. QED
    BY <1>2, <1>3, PTL DEF Spec, StatusIsFinal

-----------------------------------------------------------------------------
(* The deadline of a timed wait. *)

\* Who is inside wait() without a deadline, or sends a signal, is in no timed wait.
OpKnown ==
    \A t \in Threads :
        /\ pc[t] \in {"waitEnter", "waitLoop", "waitLock", "waitWaitpid", "waitStore"} =>
               op[t] \in {"wait", "destroy"}
        /\ pc[t] \in {"signalEnter", "signalCheck", "signalKill"} =>
               op[t] \in {"kill", "terminate", "destroy"}
Timed(t) == op[t] = "timedWait"

\* The wait clears the error_code it begins with, and its poll does: an error found in its loop is
\* of a signal that was refused since.
OwnError ==
    \A t \in Threads :
        childCreated /\ Timed(t) /\ pc[t] # "timedEnter" /\ errorCode # "none" => t \in refused

\* What an action of one thread t does to the calls of all: another's call is not touched, and
\* where t goes fits the call it is in.
CallStep(t) ==
    /\ \A u \in Threads \ {t} : pc'[u] = pc[u] /\ op'[u] = op[u] /\ result'[u] = result[u]
    /\ OpKnown'
    /\ Timed(t) /\ op'[t] = "none" /\ ~result'[t] /\ childCreated => expired[t] \/ t \in refused

LEMMA CallsKnown ==
    ASSUME TypeOK, ~(childCreated /\ detachedStarted), OpKnown, OwnError, NEW t \in Threads,
           \/ StartFails(t) \/ StartSucceeds(t) \/ Call(t) \/ Destroy(t)
           \/ Tick(t) \/ WaitInterrupted(t) \/ Step(t)
    PROVE  CallStep(t) /\ OwnError'
<1>. USE DEF CallStep, OpKnown, OwnError, Timed, TypeOK, implVars, history,
             Goto, Return, PollReturns, SignalReturns, GoBack, EarlyReturn
<1>1. CASE StartFails(t)  BY <1>1 DEF StartFails, Quiet
<1>2. CASE StartSucceeds(t)  BY <1>2 DEF StartSucceeds, Quiet
<1>3. CASE Call(t)  BY <1>3 DEF Call, Entry
<1>4. CASE Destroy(t)  BY <1>4 DEF Destroy, Quiet
<1>5. CASE Tick(t)  BY <1>5 DEF Tick
<1>6. CASE WaitInterrupted(t)  BY <1>6 DEF WaitInterrupted
<1>7. CASE PollEnter(t)  BY <1>7 DEF PollEnter
<1>8. CASE PollTryLock(t)  BY <1>8 DEF PollTryLock
<1>9. CASE PollWaitpid(t)  BY <1>9 DEF PollWaitpid, Reap
<1>10. CASE PollStore(t)  BY <1>10 DEF PollStore
<1>11. CASE TimedEnter(t)  BY <1>11 DEF TimedEnter
<1>12. CASE TimedCheck(t)  BY <1>12 DEF TimedCheck
<1>13. CASE WaitEnter(t)  BY <1>13 DEF WaitEnter
<1>14. CASE WaitLoop(t)  BY <1>14 DEF WaitLoop
<1>15. CASE WaitLock(t)  BY <1>15 DEF WaitLock
<1>16. CASE WaitWaitpid(t)  BY <1>16 DEF WaitWaitpid, Reap
<1>17. CASE WaitStore(t)  BY <1>17 DEF WaitStore
<1>18. CASE SignalEnter(t)  BY <1>18 DEF SignalEnter
<1>19. CASE SignalCheck(t)  BY <1>19 DEF SignalCheck
<1>20. CASE SignalKill(t)  BY <1>20 DEF SignalKill
<1>. QED  BY <1>1, <1>2, <1>3, <1>4, <1>5, <1>6, <1>7, <1>8, <1>9, <1>10, <1>11, <1>12, <1>13,
             <1>14, <1>15, <1>16, <1>17, <1>18, <1>19, <1>20 DEF Step

LEMMA CallsStayKnown ==
    ASSUME IInv, OpKnown, OwnError, [Next]_vars
    PROVE  /\ OpKnown' /\ OwnError'
           /\ \A t \in Threads :
                 Timed(t) /\ op'[t] = "none" /\ ~result'[t] /\ childCreated
                     => expired[t] \/ t \in refused
<1>0. TypeOK /\ ~(childCreated /\ detachedStarted)  BY DEF IInv, ChildKnown
<1>1. CASE UNCHANGED vars
      BY <1>1 DEF vars, implVars, threadVars, history, OpKnown, OwnError, Timed
<1>2. CASE Environment
      BY <1>2 DEF Environment, ChildExits, ChildSignaled, ChildIgnoresSigterm, RecyclePid,
         implVars, threadVars, history, OpKnown, OwnError, Timed
<1>3. ASSUME NEW t \in Threads,
             \/ StartFails(t) \/ StartSucceeds(t) \/ Call(t) \/ Destroy(t)
             \/ Tick(t) \/ WaitInterrupted(t) \/ Step(t)
      PROVE  /\ OpKnown' /\ OwnError'
             /\ \A u \in Threads :
                   Timed(u) /\ op'[u] = "none" /\ ~result'[u] /\ childCreated
                       => expired[u] \/ u \in refused
  <2>1. CallStep(t) /\ OwnError'  BY <1>0, <1>3, CallsKnown
  <2>. QED  BY <2>1 DEF CallStep, Timed
<1>. QED  BY <1>1, <1>2, <1>3 DEF Next

\* A timed wait that gives up on a child has waited to its deadline or was overtaken, in that very
\* call, by a signal the kernel refused: the loop of _wait() looks at the error_code all calls
\* share, but finds no error in it that was there before.
THEOREM DeadlineKeptHolds == Spec => DeadlineKept
<1>1. Init => IInv /\ OpKnown /\ OwnError
      BY InitIInv DEF Init, OpKnown, OwnError
<1>2. IInv /\ OpKnown /\ OwnError /\ [Next]_vars => (IInv /\ OpKnown /\ OwnError)'
      BY IInvStep, CallsStayKnown
<1>3. ASSUME IInv, OpKnown, OwnError, [Next]_vars
      PROVE  [\A t \in Threads :
                  (op[t] = "timedWait" /\ op'[t] = "none" /\ ~result'[t] /\ childCreated)
                     => expired[t] \/ t \in refused]_vars
      BY <1>3, CallsStayKnown DEF Timed
<1>. QED  BY <1>1, <1>2, <1>3, PTL DEF Spec, DeadlineKept

-----------------------------------------------------------------------------
(* The refinement of ChildStatus. *)

LEMMA InitImplements == Init => Abs!Init
  BY WorldsAssumption DEF Init, Abs!Init, OwnerBar, SigchldIgnored

\* A status set, once it holds the way the child ended, holds exactly one.
LEMMA StepImplements == IInv /\ IInv' /\ [Next]_vars => [Abs!Next]_(Abs!absVars)
  <1> SUFFICES ASSUME IInv, IInv', [Next]_vars PROVE [Abs!Next]_(Abs!absVars)
    OBVIOUS
  <1> DEFINE ended == {ReturnCode(st) : st \in status}
  <1> USE DEF implVars, osVars, threadVars, history, SigchldIgnored
  <1>1. ASSUME UNCHANGED <<world, childCreated, detachedStarted, status, returncode>>
        PROVE  UNCHANGED Abs!absVars
    BY <1>1 DEF Abs!absVars, OwnerBar
  <1>2. CASE UNCHANGED vars
    BY <1>1, <1>2 DEF vars
  <1>3. CASE Environment
    <2>1. ASSUME child = "running", NEW c \in WaitStatus, status' = {c},
                 UNCHANGED <<world, childCreated, detachedStarted, returncode>>
          PROVE  Abs!End
      <3>1. status = {} /\ childCreated
        BY <2>1 DEF IInv, ChildKnown
      <3>2. ReturnCode(c) \in ReturnCodes
        <4>1. {c} \in SUBSET WaitStatus
          BY <2>1
        <4> QED
          BY <4>1, ReturnCodeType
      <3>3. ended = {} /\ ended' = {ReturnCode(c)}
        BY <2>1, <3>1
      <3> QED
        BY <2>1, <3>1, <3>2, <3>3 DEF Abs!End, OwnerBar
    <2>2. CASE ChildExits
      <3>1. PICK c \in ExitCodes : status' = {[how |-> "exited", n |-> c]}
        BY <2>2 DEF ChildExits
      <3>2. [how |-> "exited", n |-> c] \in WaitStatus
        BY DEF WaitStatus
      <3> QED
        BY <2>1, <2>2, <3>1, <3>2 DEF ChildExits, Abs!Next
    <2>3. ASSUME NEW s \in Signals, ChildSignaled(s)
          PROVE  Abs!Next
      <3>1. [how |-> "signaled", n |-> s] \in WaitStatus
        BY DEF WaitStatus
      <3> QED
        BY <2>1, <2>3, <3>1 DEF ChildSignaled, Abs!Next
    <2>4. CASE ChildIgnoresSigterm \/ RecyclePid
      BY <1>1, <2>4 DEF ChildIgnoresSigterm, RecyclePid
    <2> QED
      BY <1>3, <2>2, <2>3, <2>4 DEF Environment
  <1>4. ASSUME NEW t \in Threads, StartFails(t) \/ StartSucceeds(t)
        PROVE  [Abs!Next]_(Abs!absVars)
    <2>1. child = "unborn" /\ status = {} /\ returncode = {} /\ ~childCreated /\ ~detachedStarted
      BY <1>4 DEF IInv, ChildKnown, StatusKept, StartFails, StartSucceeds
    <2>2. CASE StartFails(t)
      BY <1>1, <2>1, <2>2 DEF StartFails
    <2>3. CASE StartSucceeds(t)
      <3>1. Abs!Start
        BY <2>1, <2>3 DEF StartSucceeds, Abs!Start, OwnerBar
      <3> QED
        BY <3>1 DEF Abs!Next
    <2> QED
      BY <1>4, <2>2, <2>3
  <1>5. ASSUME NEW t \in Threads, childCreated, returncode = {}, status # {},
               UNCHANGED <<world, childCreated, detachedStarted, status>>,
               returncode' = IF ~SigchldIgnored THEN ended ELSE {0}
        PROVE  Abs!Next
    <2>1. ended # {}
      BY <1>5
    <2>2. Abs!Report
      BY <1>5, <2>1 DEF Abs!Report, OwnerBar
    <2> QED
      BY <2>2 DEF Abs!Next
  <1>6. ASSUME NEW t \in Threads, PollStore(t) \/ WaitStore(t)
        PROVE  Abs!Next
    <2>1. child = "gone" /\ returncode = {} /\ ~SigchldIgnored
      BY <1>6 DEF IInv, StoreInv, ChildKnown, Storing, PollStore, WaitStore
    <2>2. childCreated /\ status # {}
      BY <2>1 DEF IInv, ChildKnown
    <2>3. returncode' = ended /\ UNCHANGED <<world, childCreated, detachedStarted, status>>
      BY <1>6 DEF PollStore, WaitStore, HandleExitstatus
    <2> QED
      BY <1>5, <2>1, <2>2, <2>3
  <1>7. ASSUME NEW t \in Threads, PollWaitpid(t) \/ WaitWaitpid(t)
        PROVE  [Abs!Next]_(Abs!absVars)
    <2>1. UNCHANGED <<world, childCreated, detachedStarted, status>>
      BY <1>7 DEF PollWaitpid, WaitWaitpid, Reap
    <2>2. CASE UNCHANGED returncode
      BY <1>1, <2>1, <2>2
    <2>3. CASE returncode' # returncode
      <3>1. returncode = {} /\ returncode' = {0} /\ child = "gone"
        BY <1>7, <2>3 DEF PollWaitpid, WaitWaitpid
      <3>2. waitpidLock = {t} /\ pc[t] \notin Storing
        BY <1>7 DEF IInv, LockHeld, Section, Storing, PollWaitpid, WaitWaitpid
      <3>3. \A u \in Threads : pc[u] \notin Storing
        BY <3>2 DEF IInv, LockHeld, Section, Storing
      <3>4. SigchldIgnored
        BY <3>1, <3>3 DEF IInv, NotLost
      <3>5. childCreated /\ status # {}
        BY <3>1 DEF IInv, ChildKnown
      <3> QED
        BY <1>5, <2>1, <3>1, <3>4, <3>5
    <2> QED
      BY <2>2, <2>3
  <1>8. ASSUME NEW t \in Threads,
               \/ Call(t) \/ Destroy(t) \/ Tick(t) \/ WaitInterrupted(t)
               \/ PollEnter(t) \/ PollTryLock(t) \/ TimedEnter(t) \/ TimedCheck(t)
               \/ WaitEnter(t) \/ WaitLoop(t) \/ WaitLock(t)
               \/ SignalEnter(t) \/ SignalCheck(t) \/ SignalKill(t)
        PROVE  UNCHANGED Abs!absVars
    BY <1>1, <1>8 DEF Call, Destroy, Tick, WaitInterrupted, PollEnter, PollTryLock, TimedEnter,
       TimedCheck, WaitEnter, WaitLoop, WaitLock, SignalEnter, SignalCheck, SignalKill
  <1> QED
    BY <1>2, <1>3, <1>4, <1>6, <1>7, <1>8 DEF Next, Step

\* The exit status of a Popen shared by any number of threads is the abstract one:
\* reported once, after the end, truthfully.
THEOREM PopenRefinesStatus == Spec => ImplementsStatus
  <1>1. Spec => []IInv
    BY InitIInv, IInvStep, PTL DEF Spec
  <1>2. QED
    BY <1>1, InitImplements, StepImplements, PTL DEF Spec, ImplementsStatus, Abs!Spec

-----------------------------------------------------------------------------
(* communicate(). *)


CommTypes ==
    /\ setting \in Settings
    /\ stage \in {"start", "flush", "setup", "poll", "serveIn", "serveOut", "serveErr",
               "wait", "waitAfterKill", "close", "done"}
    /\ fds \in SUBSET Pipes /\ openEnds \in SUBSET Pipes /\ childEnds \in SUBSET Pipes
    /\ unflushed \in Nat /\ written \in Nat /\ childRead \in Nat
    /\ pipe \in [Streams -> Nat]
    /\ got \in [Outputs -> Nat] /\ wrote \in [Outputs -> Nat]
    /\ childOp \in {"choose", "read", "out", "err", "hang", "exited"}

\* The child uses an end it has, and has none once it has exited.
ChildInv ==
    /\ childOp = "exited" => childEnds = {}
    /\ childOp = "read" => "in" \in childEnds /\ ~childEof
    /\ \A s \in Outputs : childOp = s => s \in childEnds

\* What was to be written is in the stream, in the pipe or read; stdin is closed under a
\* child that has it open only when all of it is written.
InputInv ==
    /\ Buffered + written = pipe["in"] + childRead + unflushed
    /\ stage \in {"start", "flush", "setup"} => openEnds = Pipes /\ written = 0
    /\ stage \notin {"start", "flush"} /\ HasReader("in") => unflushed = 0
    /\ "in" \in childEnds /\ "in" \notin openEnds => written = Input
    /\ stage = "serveIn" /\ inBroken => ~HasReader("in")
    /\ childEof => childRead = Buffered + Input

\* What was written is in the pipe or read, and a stream that is no longer polled is empty
\* and has no writer.
OutputInv ==
    /\ \A s \in Outputs : ~ChildEndless => wrote[s] = got[s] + pipe[s]
    /\ ChildEndless => got = wrote
    /\ \A s \in Outputs \ Pipes : pipe[s] = 0
    /\ \A s \in Outputs : stage \notin {"start", "flush", "setup"} /\ s \notin fds =>
           pipe[s] = 0 /\ ~HasWriter(s)
    /\ stage \in {"wait", "waitAfterKill", "close", "done"} => fds = {} \/ timedOut \/ pollFailed

\* Where the child is killed and collected, and what the caller is told of it.
EndInv ==
    /\ stage \in {"close", "done"} => reaped /\ ~ChildRunning /\ (killed <=> commError = "timed_out")
    /\ stage \in {"close", "done"} /\ commError = "none" => ~timedOut
    /\ stage = "waitAfterKill" => killed
    /\ stage \notin {"waitAfterKill", "close", "done"} => ~killed

CommInv == CommTypes /\ ChildInv /\ InputInv /\ OutputInv /\ EndInv

\* What the assumption about the settings says of the one of this behaviour.
LEMMA SettingFacts ==
  ASSUME setting \in Settings
  PROVE  /\ Pipes \subseteq Streams /\ Inherited \subseteq Pipes
         /\ Capacity \in Nat \ {0} /\ ReadSize \in Nat \ {0}
         /\ Input \in Nat /\ Buffered \in Nat /\ (Buffered > 0 => "in" \in Pipes)
         /\ ChildEndless \in BOOLEAN
  BY SettingsAssumption
     DEF Pipes, Inherited, Capacity, ReadSize, Input, Buffered, ChildEndless

\* ... which stays the same.
LEMMA SettingStays ==
  ASSUME UNCHANGED setting
  PROVE  /\ Pipes' = Pipes /\ Inherited' = Inherited /\ Input' = Input
         /\ Buffered' = Buffered /\ ChildEndless' = ChildEndless
  BY DEF Pipes, Inherited, Input, Buffered, ChildEndless

LEMMA CommStart == CommInit => CommInv
  <1> SUFFICES ASSUME CommInit PROVE CommInv
    OBVIOUS
  <1>1. setting \in Settings
    BY DEF CommInit
  <1>2. CommTypes
    BY <1>1, SettingFacts DEF CommInit, CommTypes, Streams, Outputs
  <1>3. ChildInv
    BY DEF CommInit, ChildInv, Outputs
  <1>4. InputInv
    BY <1>1, SettingFacts DEF CommInit, InputInv, HasReader, Streams
  <1>5. OutputInv
    BY DEF CommInit, OutputInv, Streams, Outputs
  <1>6. EndInv
    BY DEF CommInit, EndInv
  <1> QED
    BY <1>2, <1>3, <1>4, <1>5, <1>6 DEF CommInv

LEMMA CommStep == CommInv /\ [CommNext]_commVars => CommInv'
  <1> SUFFICES ASSUME CommInv, [CommNext]_commVars PROVE CommInv'
    OBVIOUS
  <1> USE DEF CommInv
  <1>a. UNCHANGED setting
    BY DEF CommNext, commVars, parentVars, childVars, ParentStep, ChildStep, Start, Flush, SetUp, Poll,
           PollFails, LoopEnds, ServeIn, Drain, Wait, WaitAfterKill, Close, ChildChooses,
           ChildReads, ChildWrites, ChildDies, TimePasses, Finished
  <1> USE SettingFacts, SettingStays, <1>a
  <1>1. CASE UNCHANGED commVars
    <2>1. CommTypes'
      BY <1>1 DEF commVars, parentVars, childVars, CommTypes, Streams, Outputs
    <2>2. ChildInv'
      BY <1>1 DEF commVars, parentVars, childVars, CommTypes, ChildInv, Streams, Outputs
    <2>3. InputInv'
      BY <1>1 DEF commVars, parentVars, childVars, CommTypes, ChildInv, InputInv, EndInv, Streams, Outputs, HasReader, ChildRunning
    <2>4. OutputInv'
      BY <1>1 DEF commVars, parentVars, childVars, CommTypes, ChildInv, OutputInv, Streams, Outputs, HasWriter
    <2>5. EndInv'
      BY <1>1 DEF commVars, parentVars, childVars, CommTypes, EndInv, Streams, Outputs, ChildRunning
    <2> QED
      BY <2>1, <2>2, <2>3, <2>4, <2>5 DEF CommInv
  <1>2. CASE ChildChooses
    <2>1. CommTypes'
      BY <1>2 DEF ChildChooses, parentVars, CommTypes, Streams, Outputs
    <2>2. ChildInv'
      BY <1>2 DEF ChildChooses, parentVars, CommTypes, ChildInv, Streams, Outputs
    <2>3. InputInv'
      BY <1>2 DEF ChildChooses, parentVars, CommTypes, ChildInv, InputInv, EndInv, Streams, Outputs, HasReader, ChildRunning
    <2>4. OutputInv'
      BY <1>2 DEF ChildChooses, parentVars, CommTypes, ChildInv, OutputInv, Streams, Outputs, HasWriter
    <2>5. EndInv'
      BY <1>2 DEF ChildChooses, parentVars, CommTypes, EndInv, Streams, Outputs, ChildRunning
    <2> QED
      BY <2>1, <2>2, <2>3, <2>4, <2>5 DEF CommInv
  <1>3. CASE ChildReads
    <2>1. CommTypes'
      BY <1>3 DEF ChildReads, parentVars, CommTypes, Streams, Outputs
    <2>2. ChildInv'
      BY <1>3 DEF ChildReads, parentVars, CommTypes, ChildInv, Streams, Outputs
    <2>3. InputInv'
      BY <1>3 DEF ChildReads, parentVars, CommTypes, ChildInv, InputInv, EndInv, Streams, Outputs, HasReader, ChildRunning
    <2>4. OutputInv'
      BY <1>3 DEF ChildReads, parentVars, CommTypes, ChildInv, OutputInv, Streams, Outputs, HasWriter
    <2>5. EndInv'
      BY <1>3 DEF ChildReads, parentVars, CommTypes, EndInv, Streams, Outputs, ChildRunning
    <2> QED
      BY <2>1, <2>2, <2>3, <2>4, <2>5 DEF CommInv
  <1>4. ASSUME NEW s \in Outputs, ChildWrites(s) PROVE CommInv'
    <2>1. CommTypes'
      BY <1>4 DEF ChildWrites, parentVars, CommTypes, Streams, Outputs
    <2>2. ChildInv'
      BY <1>4 DEF ChildWrites, parentVars, CommTypes, ChildInv, Streams, Outputs
    <2>3. InputInv'
      BY <1>4 DEF ChildWrites, parentVars, CommTypes, ChildInv, InputInv, EndInv, Streams, Outputs, HasReader, ChildRunning
    <2>4. OutputInv'
      BY <1>4 DEF ChildWrites, parentVars, CommTypes, ChildInv, OutputInv, Streams, Outputs, HasWriter
    <2>5. EndInv'
      BY <1>4 DEF ChildWrites, parentVars, CommTypes, EndInv, Streams, Outputs, ChildRunning
    <2> QED
      BY <2>1, <2>2, <2>3, <2>4, <2>5 DEF CommInv
  <1>5. CASE ChildDies
    <2>1. CommTypes'
      BY <1>5 DEF ChildDies, parentVars, CommTypes, Streams, Outputs
    <2>2. ChildInv'
      BY <1>5 DEF ChildDies, parentVars, CommTypes, ChildInv, Streams, Outputs
    <2>3. InputInv'
      BY <1>5 DEF ChildDies, parentVars, CommTypes, ChildInv, InputInv, EndInv, Streams, Outputs, HasReader, ChildRunning
    <2>4. OutputInv'
      BY <1>5 DEF ChildDies, parentVars, CommTypes, ChildInv, OutputInv, Streams, Outputs, HasWriter
    <2>5. EndInv'
      BY <1>5 DEF ChildDies, parentVars, CommTypes, EndInv, Streams, Outputs, ChildRunning
    <2> QED
      BY <2>1, <2>2, <2>3, <2>4, <2>5 DEF CommInv
  <1>6. CASE TimePasses
    <2>1. CommTypes'
      BY <1>6 DEF TimePasses, parentVars, childVars, CommTypes, Streams, Outputs
    <2>2. ChildInv'
      BY <1>6 DEF TimePasses, parentVars, childVars, CommTypes, ChildInv, Streams, Outputs
    <2>3. InputInv'
      BY <1>6 DEF TimePasses, parentVars, childVars, CommTypes, ChildInv, InputInv, EndInv, Streams, Outputs, HasReader, ChildRunning
    <2>4. OutputInv'
      BY <1>6 DEF TimePasses, parentVars, childVars, CommTypes, ChildInv, OutputInv, Streams, Outputs, HasWriter
    <2>5. EndInv'
      BY <1>6 DEF TimePasses, parentVars, childVars, CommTypes, EndInv, Streams, Outputs, ChildRunning
    <2> QED
      BY <2>1, <2>2, <2>3, <2>4, <2>5 DEF CommInv
  <1>7. CASE Start
    <2>1. CommTypes'
      BY <1>7 DEF Start, childVars, CommTypes, Streams, Outputs
    <2>2. ChildInv'
      BY <1>7 DEF Start, childVars, CommTypes, ChildInv, Streams, Outputs
    <2>3. InputInv'
      BY <1>7 DEF Start, childVars, CommTypes, ChildInv, InputInv, EndInv, Streams, Outputs, HasReader, ChildRunning
    <2>4. OutputInv'
      BY <1>7 DEF Start, childVars, CommTypes, ChildInv, OutputInv, Streams, Outputs, HasWriter
    <2>5. EndInv'
      BY <1>7 DEF Start, childVars, CommTypes, EndInv, Streams, Outputs, ChildRunning
    <2> QED
      BY <2>1, <2>2, <2>3, <2>4, <2>5 DEF CommInv
  <1>8. CASE Flush
    <2>1. CommTypes'
      BY <1>8 DEF Flush, childVars, CommTypes, Streams, Outputs
    <2>2. ChildInv'
      BY <1>8 DEF Flush, childVars, CommTypes, ChildInv, Streams, Outputs
    <2>3. InputInv'
      BY <1>8 DEF Flush, childVars, CommTypes, ChildInv, InputInv, EndInv, Streams, Outputs, HasReader, ChildRunning
    <2>4. OutputInv'
      BY <1>8 DEF Flush, childVars, CommTypes, ChildInv, OutputInv, Streams, Outputs, HasWriter
    <2>5. EndInv'
      BY <1>8 DEF Flush, childVars, CommTypes, EndInv, Streams, Outputs, ChildRunning
    <2> QED
      BY <2>1, <2>2, <2>3, <2>4, <2>5 DEF CommInv
  <1>9. CASE SetUp
    <2>1. CommTypes'
      BY <1>9 DEF SetUp, childVars, CommTypes, Streams, Outputs
    <2>2. ChildInv'
      BY <1>9 DEF SetUp, childVars, CommTypes, ChildInv, Streams, Outputs
    <2>3. InputInv'
      BY <1>9 DEF SetUp, childVars, CommTypes, ChildInv, InputInv, EndInv, Streams, Outputs, HasReader, ChildRunning
    <2>4. OutputInv'
      BY <1>9 DEF SetUp, childVars, CommTypes, InputInv, OutputInv, Streams, Outputs, HasWriter
    <2>5. EndInv'
      BY <1>9 DEF SetUp, childVars, CommTypes, EndInv, Streams, Outputs, ChildRunning
    <2> QED
      BY <2>1, <2>2, <2>3, <2>4, <2>5 DEF CommInv
  <1>10. CASE Poll
    <2>1. CommTypes'
      BY <1>10 DEF Poll, childVars, CommTypes, Streams, Outputs
    <2>2. ChildInv'
      BY <1>10 DEF Poll, childVars, CommTypes, ChildInv, Streams, Outputs
    <2>3. InputInv'
      BY <1>10 DEF Poll, childVars, CommTypes, ChildInv, InputInv, EndInv, Streams, Outputs, HasReader, ChildRunning
    <2>4. OutputInv'
      BY <1>10 DEF Poll, childVars, CommTypes, ChildInv, OutputInv, Streams, Outputs, HasWriter
    <2>5. EndInv'
      BY <1>10 DEF Poll, childVars, CommTypes, EndInv, Streams, Outputs, ChildRunning
    <2> QED
      BY <2>1, <2>2, <2>3, <2>4, <2>5 DEF CommInv
  <1>11. CASE PollFails
    <2>1. CommTypes'
      BY <1>11 DEF PollFails, childVars, CommTypes, Streams, Outputs
    <2>2. ChildInv'
      BY <1>11 DEF PollFails, childVars, CommTypes, ChildInv, Streams, Outputs
    <2>3. InputInv'
      BY <1>11 DEF PollFails, childVars, CommTypes, ChildInv, InputInv, EndInv, Streams, Outputs, HasReader, ChildRunning
    <2>4. OutputInv'
      BY <1>11 DEF PollFails, childVars, CommTypes, ChildInv, OutputInv, Streams, Outputs, HasWriter
    <2>5. EndInv'
      BY <1>11 DEF PollFails, childVars, CommTypes, EndInv, Streams, Outputs, ChildRunning
    <2> QED
      BY <2>1, <2>2, <2>3, <2>4, <2>5 DEF CommInv
  <1>12. CASE LoopEnds
    <2>1. CommTypes'
      BY <1>12 DEF LoopEnds, childVars, CommTypes, Streams, Outputs
    <2>2. ChildInv'
      BY <1>12 DEF LoopEnds, childVars, CommTypes, ChildInv, Streams, Outputs
    <2>3. InputInv'
      BY <1>12 DEF LoopEnds, childVars, CommTypes, ChildInv, InputInv, EndInv, Streams, Outputs, HasReader, ChildRunning
    <2>4. OutputInv'
      BY <1>12 DEF LoopEnds, childVars, CommTypes, ChildInv, OutputInv, Streams, Outputs, HasWriter
    <2>5. EndInv'
      BY <1>12 DEF LoopEnds, childVars, CommTypes, EndInv, Streams, Outputs, ChildRunning
    <2> QED
      BY <2>1, <2>2, <2>3, <2>4, <2>5 DEF CommInv
  <1>13. CASE ServeIn
    <2>1. CommTypes'
      BY <1>13 DEF ServeIn, CloseStdin, InputComplete, childVars, CommTypes, Streams, Outputs
    <2>2. ChildInv'
      BY <1>13 DEF ServeIn, CloseStdin, InputComplete, childVars, CommTypes, ChildInv, Streams, Outputs
    <2>3. InputInv'
      <3>1. CASE HasReader("in") /\ "in" \in revents
        <4>1. PICK n \in 1..Least(Capacity - pipe["in"], Input - written) :
                  pipe' = [pipe EXCEPT !["in"] = @ + n] /\ written' = written + n
          BY <1>13, <3>1 DEF ServeIn, InputInv
        <4>2. n \in Nat
          BY <4>1
        <4>3. pipe'["in"] = pipe["in"] + n
          BY <4>1, <4>2 DEF CommTypes, Streams
        <4>4. Buffered + written' = pipe'["in"] + childRead' + unflushed'
          BY <1>13, <4>1, <4>2, <4>3 DEF ServeIn, childVars, CommTypes, Streams, InputInv
        <4>5. "in" \in childEnds' /\ "in" \notin openEnds' => written' = Input
          <5>1. written # Input
            BY <4>1 DEF Least, CommTypes, Streams
          <5> QED
            BY <1>13, <3>1, <5>1 DEF ServeIn, InputComplete, childVars, InputInv
        <4> QED
          BY <1>13, <4>4, <4>5 DEF ServeIn, childVars, InputInv, HasReader
      <3>2. CASE ~(HasReader("in") /\ "in" \in revents)
        <4>1. UNCHANGED <<written, pipe, unflushed, childVars>>
          BY <1>13, <3>2 DEF ServeIn, InputInv
        <4>2. "in" \notin childEnds \/ UNCHANGED openEnds
          BY <1>13, <3>2 DEF ServeIn, InputInv, HasReader
        <4> QED
          BY <1>13, <4>1, <4>2 DEF ServeIn, childVars, InputInv, HasReader
      <3> QED
        BY <3>1, <3>2
    <2>4. OutputInv'
      BY <1>13 DEF ServeIn, CloseStdin, InputComplete, childVars, CommTypes, ChildInv, OutputInv, Streams, Outputs, HasWriter
    <2>5. EndInv'
      BY <1>13 DEF ServeIn, CloseStdin, InputComplete, childVars, CommTypes, EndInv, Streams, Outputs, ChildRunning
    <2> QED
      BY <2>1, <2>2, <2>3, <2>4, <2>5 DEF CommInv
  <1>14. ASSUME NEW s \in Outputs, NEW here, NEW next,
               \/ s = "out" /\ here = "serveOut" /\ next = "serveErr"
               \/ s = "err" /\ here = "serveErr" /\ next = "poll",
               Drain(s, here, next)
        PROVE  CommInv'
    <2> DEFINE n == Least(pipe[s], ReadSize)
    <2>0. pipe[s] \in Nat /\ n \in Nat /\ pipe[s] - n \in Nat /\ got[s] \in Nat
      BY DEF Least, CommTypes, Streams, Outputs
    <2> HIDE DEF n
    <2>1. CommTypes'
      <3>1. CASE UNCHANGED <<pipe, got>>
        BY <1>14, <3>1 DEF Drain, childVars, CommTypes
      <3>2. CASE /\ pipe' = [pipe EXCEPT ![s] = @ - n] /\ UNCHANGED <<stage, fds>>
                 /\ got' = IF ChildEndless THEN got ELSE [got EXCEPT ![s] = @ + n]
        <4>1. pipe' \in [Streams -> Nat] /\ got' \in [Outputs -> Nat]
          BY <2>0, <3>2 DEF CommTypes, Streams, Outputs
        <4> QED
          BY <1>14, <3>2, <4>1 DEF Drain, childVars, CommTypes
      <3> QED
        BY <1>14, <3>1, <3>2 DEF Drain, n
    <2>2. ChildInv'
      BY <1>14 DEF Drain, childVars, CommTypes, ChildInv, Streams, Outputs
    <2>3. InputInv'
      BY <1>14 DEF Drain, childVars, CommTypes, ChildInv, InputInv, EndInv, Streams, Outputs, HasReader, ChildRunning
    <2>4. OutputInv'
      <3>1. CASE UNCHANGED <<pipe, got>>
        BY <1>14, <3>1 DEF Drain, EndOfStream, childVars, CommTypes, OutputInv, Streams, Outputs, HasWriter
      <3>2. CASE /\ s \in revents /\ pipe[s] > 0 /\ UNCHANGED <<stage, fds>>
                 /\ pipe' = [pipe EXCEPT ![s] = @ - n]
                 /\ got' = IF ChildEndless THEN got ELSE [got EXCEPT ![s] = @ + n]
        <4>1. \A r \in Outputs : ~ChildEndless => wrote'[r] = got'[r] + pipe'[r]
          BY <1>14, <2>0, <3>2 DEF Drain, childVars, CommTypes, OutputInv, Streams, Outputs
        <4>2. \A r \in Outputs : pipe[r] = 0 => pipe'[r] = 0
          BY <2>0, <3>2 DEF CommTypes, Streams, Outputs
        <4> QED
          BY <1>14, <3>2, <4>1, <4>2 DEF Drain, childVars, OutputInv, HasWriter
      <3> QED
        BY <1>14, <3>1, <3>2 DEF Drain, n
    <2>5. EndInv'
      BY <1>14 DEF Drain, childVars, CommTypes, EndInv, Streams, Outputs, ChildRunning
    <2> QED
      BY <2>1, <2>2, <2>3, <2>4, <2>5 DEF CommInv
  <1>15. CASE Wait
    <2>1. CommTypes'
      BY <1>15 DEF Wait, childVars, CommTypes, Streams, Outputs
    <2>2. ChildInv'
      BY <1>15 DEF Wait, childVars, CommTypes, ChildInv, Streams, Outputs
    <2>3. InputInv'
      BY <1>15 DEF Wait, childVars, CommTypes, ChildInv, InputInv, EndInv, Streams, Outputs, HasReader, ChildRunning
    <2>4. OutputInv'
      BY <1>15 DEF Wait, childVars, CommTypes, ChildInv, OutputInv, Streams, Outputs, HasWriter
    <2>5. EndInv'
      BY <1>15 DEF Wait, childVars, CommTypes, EndInv, Streams, Outputs, ChildRunning
    <2> QED
      BY <2>1, <2>2, <2>3, <2>4, <2>5 DEF CommInv
  <1>16. CASE WaitAfterKill
    <2>1. CommTypes'
      BY <1>16 DEF WaitAfterKill, childVars, CommTypes, Streams, Outputs
    <2>2. ChildInv'
      BY <1>16 DEF WaitAfterKill, childVars, CommTypes, ChildInv, Streams, Outputs
    <2>3. InputInv'
      BY <1>16 DEF WaitAfterKill, childVars, CommTypes, ChildInv, InputInv, EndInv, Streams, Outputs, HasReader, ChildRunning
    <2>4. OutputInv'
      BY <1>16 DEF WaitAfterKill, childVars, CommTypes, ChildInv, OutputInv, Streams, Outputs, HasWriter
    <2>5. EndInv'
      BY <1>16 DEF WaitAfterKill, childVars, CommTypes, EndInv, Streams, Outputs, ChildRunning
    <2> QED
      BY <2>1, <2>2, <2>3, <2>4, <2>5 DEF CommInv
  <1>17. CASE Close
    <2>1. CommTypes'
      BY <1>17 DEF Close, childVars, CommTypes, Streams, Outputs
    <2>2. ChildInv'
      BY <1>17 DEF Close, childVars, CommTypes, ChildInv, Streams, Outputs
    <2>3. InputInv'
      BY <1>17 DEF Close, childVars, CommTypes, ChildInv, InputInv, EndInv, Streams, Outputs, HasReader, ChildRunning
    <2>4. OutputInv'
      BY <1>17 DEF Close, childVars, CommTypes, ChildInv, OutputInv, Streams, Outputs, HasWriter
    <2>5. EndInv'
      BY <1>17 DEF Close, childVars, CommTypes, EndInv, Streams, Outputs, ChildRunning
    <2> QED
      BY <2>1, <2>2, <2>3, <2>4, <2>5 DEF CommInv
  <1> QED
    <2>1. CASE ParentStep
      BY <1>7, <1>8, <1>9, <1>10, <1>12, <1>13, <1>14, <1>15, <1>16, <1>17, <2>1
         DEF ParentStep, Outputs
    <2>2. CASE ChildStep
      BY <1>2, <1>3, <1>4, <2>2 DEF ChildStep
    <2> QED
      BY <1>1, <1>5, <1>6, <1>11, <2>1, <2>2 DEF CommNext, Finished

LEMMA CommInvariant == CommSpec => []CommInv
  BY CommStart, CommStep, PTL DEF CommSpec

\* A call that met no error has everything the child wrote: nothing is left in a pipe or taken
\* for the end of one (popen_unix.cpp 143-160, 168-197).
THEOREM NothingLostHolds == CommSpec => []NothingLost
  <1>1. CommInv => NothingLost
    BY DEF CommInv, CommTypes, OutputInv, EndInv, NothingLost, Done
  <1> QED
    BY <1>1, CommInvariant, PTL

\* A child that is told its input is over has had all of it (popen_unix.cpp 105-124, 199-220).
THEOREM EndOfInputHolds == CommSpec => []EndOfInputIsTrue
  <1>1. CommInv => EndOfInputIsTrue
    BY DEF CommInv, InputInv, EndOfInputIsTrue
  <1> QED
    BY <1>1, CommInvariant, PTL

\* A call that is over leaves no child, running or uncollected, and says that there was a
\* timeout if and only if it killed it (popen_unix.cpp 222-240).
THEOREM NotLeftBehindHolds == CommSpec => []NotLeftBehind
  <1>1. CommInv => NotLeftBehind
    BY DEF CommInv, EndInv, NotLeftBehind, Done
  <1> QED
    BY <1>1, CommInvariant, PTL
=============================================================================
