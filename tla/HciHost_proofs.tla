--------------------------- MODULE HciHost_proofs ---------------------------
(***************************************************************************)
(* If the controller does not answer after the timeout, every task gets    *)
(* the acknowledgement of its own command, a startup ends with a           *)
(* controller that does not advertise, and the host believes of its        *)
(* advertising what is true; and when nothing is under way, it advertises, *)
(* unless a start() has failed where nobody calls it again.  All this for  *)
(* any number of faults.  The types hold whether or not the controller     *)
(* answers late.                                                           *)
(*                                                                         *)
(* Of the commands and acknowledgements under way there is at most one,    *)
(* and it belongs to the task that holds ble_hs_hci_mutex.  Once a reset   *)
(* has taken ble_hs_mutex, no other task gets a command out before the     *)
(* startup is over.                                                        *)
(***************************************************************************)
EXTENDS HciHost, TLAPS

USE DEF Command, Startup, Advertising

Place == Command \cup {"idle", "clear", "forget", "onSync", "start", "advertise", "init", "done"}

Shape == /\ pc \in [Task -> Place]
         /\ call \in [Task -> {"none", "lock", "wait", "ok", "failed"}]
         /\ \A t \in Task : call[t] # "none" => pc[t] \in Command

OwnCommand(t) == [op |-> pc[t], current |-> TRUE]

\* The command of the task is under way, or its acknowledgement, or it is lost.
Waits(t) == \/ inflight = <<OwnCommand(t)>> /\ sem = 0 /\ ack = None
            \/ inflight = <<>> /\ sem = 1 /\ ack = OwnCommand(t)
            \/ inflight = <<>> /\ sem = 0 /\ ack = None

\* The acknowledgement is there, and says that the command was executed.
Granted == ack # None /\ ~ refused

Channel == /\ hciLock \in Task \cup {None}
           /\ \A t \in Task : call[t] = "wait" <=> hciLock = t
           /\ \A t \in Task : hciLock = t => Waits(t)
           /\ hciLock = None => inflight = <<>> /\ sem = 0 /\ ack = None
           /\ ack = None => ~ refused

Bringup == /\ pc[Host] \in {"clear", "forget"} => sync = "bad"
           /\ sync = "bringup" <=> pc[Host] \in {"reset", "setup"}
           /\ \A t \in Task : pc[t] \in {"params", "enable"} <=> hsLock = t
           /\ pc[Host] \in {"forget", "reset", "setup"} =>
                 /\ ~ active /\ pc[App] # "enable"
                 /\ pc[App] = "params" => call[App] \in {"lock", "failed"}

Clean == /\ pc[Host] = "setup" \/ (pc[Host] = "reset" /\ call[Host] = "ok") =>
               radio = Silent /\ hciLock # App
         /\ pc[Host] = "reset" /\ hciLock = Host /\ Granted => radio = Silent

IInv == Shape /\ Channel /\ Bringup /\ Clean

-----------------------------------------------------------------------------
LEMMA TaskFacts == /\ Task = {"host", "app"}
                   /\ Host = "host" /\ App = "app"
                   /\ None \notin Task /\ None \notin Sent
BY NoneAssumption DEF Task, Host, App

LEMMA InitEstablishes == Init => IInv
<1> SUFFICES ASSUME Init PROVE IInv
  OBVIOUS
<1> USE TaskFacts DEF Place
<1>1. Shape
  BY DEF Init, Shape
<1>2. Channel
  BY DEF Init, Channel
<1>3. Bringup /\ Clean
  BY DEF Init, Bringup, Clean
<1>4. QED BY <1>1, <1>2, <1>3 DEF IInv

LEMMA GotoFacts ==
    ASSUME Shape, NEW t \in Task, NEW place \in Place, Goto(t, place)
    PROVE  /\ Shape'
           /\ pc'[t] = place
           /\ call'[t] = IF place \in Command THEN "lock" ELSE "none"
           /\ \A u \in Task \ {t} : pc'[u] = pc[u] /\ call'[u] = call[u]
BY DEF Goto, Shape

\* A task that does not wait goes on at another place.
LEMMA GotoKeepsChannel ==
    ASSUME Shape, Channel, NEW t \in Task, NEW place \in Place, Goto(t, place),
           call[t] # "wait", UNCHANGED <<hciLock, ackVars>>
    PROVE  Channel'
<1> USE DEF ackVars
<1>1. /\ pc'[t] = place /\ call'[t] # "wait"
      /\ \A u \in Task \ {t} : pc'[u] = pc[u] /\ call'[u] = call[u]
  BY GotoFacts
<1>2. hciLock # t
  BY DEF Channel
<1>3. \A u \in Task : hciLock = u => Waits(u)'
  BY <1>1, <1>2 DEF Channel, Waits, OwnCommand
<1>4. QED BY <1>1, <1>2, <1>3 DEF Channel

-----------------------------------------------------------------------------
(***************************************************************************)
(* Commands.                                                               *)
(***************************************************************************)

LEMMA SendKeeps == ASSUME IInv, NEW t \in Task, SendCommand(t) PROVE IInv'
<1> USE TaskFacts
<1>1. Shape' /\ UNCHANGED pc
  BY DEF IInv, Shape, SendCommand
<1>2. /\ hciLock = None /\ hciLock' = t /\ UNCHANGED <<sem, ack, refused>>
      /\ inflight' = Append(inflight, OwnCommand(t))
      /\ call' = [call EXCEPT ![t] = "wait"] /\ call[t] = "lock"
  BY DEF SendCommand, HciUnlocked, OwnCommand
<1>3. inflight' = <<OwnCommand(t)>> /\ sem' = 0 /\ ack' = None /\ ~ refused'
  <2>1. inflight = <<>> /\ sem = 0 /\ ack = None /\ ~ refused
    BY <1>2, Zenon DEF IInv, Channel
  <2>2. QED BY <1>2, <2>1
<1>4. Channel'
  BY <1>1, <1>2, <1>3 DEF IInv, Channel, Shape, Waits, OwnCommand
<1>5. t = App => pc[Host] \notin {"forget", "reset", "setup"}
  BY DEF IInv, Bringup, MaySend, SendCommand
<1>6. Bringup' /\ Clean'
  BY <1>1, <1>2, <1>3, <1>5 DEF IInv, Bringup, Clean, Granted, Shape, SendCommand
<1>7. QED BY <1>1, <1>4, <1>6 DEF IInv

LEMMA SendFailsKeeps == ASSUME IInv, NEW t \in Task, SendFails(t) PROVE IInv'
<1> USE TaskFacts
<1>1. /\ UNCHANGED <<pc, hciLock, inflight, sem, ack, refused, radio, sync, active, hsLock>>
      /\ call' = [call EXCEPT ![t] = "failed"] /\ call[t] = "lock"
  BY DEF SendFails, lockVars, ackVars
<1>2. Shape'
  BY <1>1 DEF IInv, Shape
<1>3. Channel'
  BY <1>1 DEF IInv, Channel, Shape, Waits, OwnCommand
<1>4. Bringup' /\ Clean'
  BY <1>1 DEF IInv, Bringup, Clean, Granted, Shape
<1>5. QED BY <1>2, <1>3, <1>4 DEF IInv

\* A command ends when neither it nor its acknowledgement is under way.
LEMMA EndKeeps ==
    ASSUME IInv, NEW t \in Task, call[t] = "wait", NEW result \in {"ok", "failed"},
           CommandEnds(t, result), inflight = <<>>, sem' = 0,
           result = "ok" => Granted,
           UNCHANGED <<sync, hsLock, pc, radio, active>>
    PROVE  IInv'
<1> USE TaskFacts
<1>1. /\ call' = [call EXCEPT ![t] = result] /\ hciLock' = None /\ hciLock = t
      /\ ack' = None /\ ~ refused'
  BY DEF IInv, Channel, CommandEnds
<1>2. inflight' = <<>>
  BY DEF CommandEnds
<1>3. Shape'
  BY <1>1 DEF IInv, Shape
<1>4. Channel'
  BY <1>1, <1>2 DEF IInv, Channel, Shape
<1>5. Bringup'
  BY <1>1 DEF IInv, Bringup, Shape
<1>6. Clean'
  BY <1>1 DEF IInv, Clean, Granted, Shape
<1>7. QED BY <1>3, <1>4, <1>5, <1>6 DEF IInv

LEMMA TimeoutKeeps ==
    ASSUME IInv, ~ LateAcks, NEW t \in Task, Timeout(t) PROVE IInv'
<1>1. inflight = <<>> /\ CommandEnds(t, "failed") /\ call[t] = "wait" /\ sem' = 0
  BY DEF Timeout
<1>2. QED BY <1>1, EndKeeps DEF Timeout

LEMMA ProcessKeeps ==
    ASSUME IInv, NEW t \in Task, ProcessAck(t) PROVE IInv'
<1>1. call[t] = "wait" /\ sem = 1 /\ ack # None /\ sem' = 0
  BY DEF ProcessAck
<1>2. inflight = <<>>
  BY <1>1 DEF IInv, Channel, Waits
<1>3. PICK result \in {"ok", "failed"} : CommandEnds(t, result) /\ (result = "ok" => ~ refused)
  BY DEF ProcessAck
<1>4. QED BY <1>1, <1>2, <1>3, EndKeeps DEF ProcessAck, Granted

-----------------------------------------------------------------------------
(***************************************************************************)
(* The controller.                                                         *)
(***************************************************************************)

LEMMA UnderWay ==
    ASSUME IInv, inflight # <<>>
    PROVE  /\ hciLock \in Task /\ call[hciLock] = "wait"
           /\ inflight = <<OwnCommand(hciLock)>> /\ sem = 0 /\ ack = None
           /\ Head(inflight) = OwnCommand(hciLock) /\ Tail(inflight) = <<>>
           /\ Head(inflight).op = pc[hciLock]
           /\ OwnCommand(hciLock) # None
<1> USE TaskFacts
<1>1. hciLock \in Task /\ call[hciLock] = "wait"
  BY DEF IInv, Channel
<1>2. inflight = <<OwnCommand(hciLock)>> /\ sem = 0 /\ ack = None
  BY <1>1 DEF IInv, Channel, Waits
<1>3. OwnCommand(hciLock) \in Sent
  BY <1>1 DEF IInv, Shape, OwnCommand, Sent
<1>4. Head(inflight) = OwnCommand(hciLock) /\ Tail(inflight) = <<>>
  BY <1>2
<1>5. OwnCommand(hciLock).op = pc[hciLock]
  BY DEF OwnCommand
<1>6. OwnCommand(hciLock) # None
  BY <1>3
<1>7. QED BY <1>1, <1>2, <1>4, <1>5, <1>6

\* What executes a command of the host during the startup leaves the controller as
\* it is, or as HCI Reset does.
LEMMA ExecutedFacts ==
    ASSUME IInv, inflight # <<>>
    PROVE  /\ pc[Host] = "setup" \/ (pc[Host] = "reset" /\ call[Host] = "ok") =>
                Executed(Head(inflight).op) = radio
           /\ pc[Host] = "reset" /\ hciLock = Host => Executed(Head(inflight).op) = Silent
<1> USE TaskFacts
<1>1. /\ hciLock \in Task /\ call[hciLock] = "wait" /\ Head(inflight).op = pc[hciLock]
  BY UnderWay
<1>2. pc[Host] = "setup" \/ (pc[Host] = "reset" /\ call[Host] = "ok") => Head(inflight).op = "setup"
  BY <1>1 DEF IInv, Clean
<1>3. pc[Host] = "reset" /\ hciLock = Host => Head(inflight).op = "reset"
  BY <1>1
<1>4. QED BY <1>2, <1>3 DEF Executed

\* An answer is the one that the task waits for.
LEMMA AnsweredFacts ==
    ASSUME IInv, NEW isRefused \in BOOLEAN, Answered(isRefused)
    PROVE  /\ hciLock \in Task /\ Channel'
           /\ inflight = <<OwnCommand(hciLock)>> /\ inflight' = <<>> /\ sem' = 1
           /\ ack = None /\ ack' # None /\ refused' = isRefused
           /\ UNCHANGED <<sync, hsLock, hciLock, pc, call, active>>
<1> USE TaskFacts
<1> DEFINE t == hciLock
<1>1. /\ t \in Task /\ sem = 0 /\ ack = None /\ inflight = <<OwnCommand(t)>>
      /\ Head(inflight) = OwnCommand(t) /\ Tail(inflight) = <<>> /\ OwnCommand(t) # None
  BY UnderWay DEF Answered
<1>2. /\ inflight' = <<>> /\ sem' = 1 /\ ack' = OwnCommand(t) /\ refused' = isRefused
      /\ UNCHANGED <<sync, hsLock, hciLock, pc, call, active>>
  BY <1>1 DEF Answered, lockVars
<1>3. Channel'
  BY <1>1, <1>2 DEF IInv, Channel, Waits, OwnCommand
<1>4. QED BY <1>1, <1>2, <1>3

LEMMA AnswerKeeps == ASSUME IInv, Answer \/ Refuse PROVE IInv'
<1> USE TaskFacts
<1>1. /\ Channel' /\ inflight # <<>>
      /\ UNCHANGED <<sync, hsLock, hciLock, pc, call, active>>
      /\ \/ radio' = Executed(Head(inflight).op)
         \/ radio' = radio /\ refused'
  <2>1. PICK isRefused \in BOOLEAN :
           /\ Answered(isRefused)
           /\ \/ radio' = Executed(Head(inflight).op)
              \/ radio' = radio /\ isRefused = TRUE
    BY Zenon DEF Answer, Refuse
  <2>2. inflight # <<>>
    BY <2>1 DEF Answered
  <2>3. QED BY <2>1, <2>2, AnsweredFacts
<1>2. Shape' /\ Bringup'
  BY <1>1 DEF IInv, Shape, Bringup
<1>3. Clean'
  BY <1>1, ExecutedFacts DEF IInv, Clean, Granted, Silent
<1>4. QED BY <1>1, <1>2, <1>3 DEF IInv

LEMMA LoseKeeps == ASSUME IInv, Lose PROVE IInv'
<1> USE TaskFacts
<1>1. /\ inflight # <<>> /\ inflight' = <<>> /\ sem = 0 /\ ack = None
      /\ radio' \in {radio, Executed(Head(inflight).op)}
      /\ UNCHANGED <<sync, hsLock, hciLock, pc, call, sem, ack, refused, active>>
  BY UnderWay DEF Lose, lockVars
<1>2. Shape' /\ Bringup'
  BY <1>1 DEF IInv, Shape, Bringup
<1>3. Channel'
  BY <1>1 DEF IInv, Channel, Waits, OwnCommand
<1>4. Clean'
  BY <1>1, ExecutedFacts DEF IInv, Clean, Granted, Silent
<1>5. QED BY <1>2, <1>3, <1>4 DEF IInv

-----------------------------------------------------------------------------
(***************************************************************************)
(* The steps between the commands.                                         *)
(***************************************************************************)

\* A task that has no command under way goes on; the controller is not concerned.
Moves(t, place) == /\ call[t] # "wait"
                   /\ Goto(t, place)
                   /\ UNCHANGED <<hciLock, ackVars, radio>>

LEMMA MoveFacts ==
    ASSUME IInv, NEW t \in Task, NEW place \in Place, Moves(t, place)
    PROVE  /\ Shape' /\ Channel'
           /\ pc'[t] = place
           /\ call'[t] = IF place \in Command THEN "lock" ELSE "none"
           /\ \A u \in Task \ {t} : pc'[u] = pc[u] /\ call'[u] = call[u]
           /\ hciLock' = hciLock /\ (Granted' <=> Granted) /\ radio' = radio
<1>1. Shape /\ Channel /\ call[t] # "wait" /\ Goto(t, place)
  BY DEF IInv, Moves
<1>2. UNCHANGED <<hciLock, ackVars>> /\ radio' = radio
  BY DEF Moves
<1>3. Channel'
  BY <1>1, <1>2, GotoKeepsChannel
<1>4. Granted' <=> Granted
  BY <1>2 DEF Granted, ackVars
<1>5. QED BY <1>1, <1>2, <1>3, <1>4, GotoFacts

\* A step of the setup task, or of the host task outside of a startup.
LEMMA ResetKeeps ==
    ASSUME IInv, pc[Host] = "idle", BeginReset, UNCHANGED <<hsLock, hciLock, ackVars, radio, active>>
    PROVE  IInv'
<1> USE TaskFacts DEF Place
<1>1. Moves(Host, "clear")
  BY DEF IInv, Shape, BeginReset, Moves
<1>2. sync' = "bad" /\ hsLock' = hsLock /\ active' = active
  BY DEF BeginReset
<1>3. Bringup' /\ Clean'
  BY <1>1, <1>2, MoveFacts DEF IInv, Bringup, Clean
<1>4. QED BY <1>1, <1>3, MoveFacts DEF IInv

LEMMA HostKeeps == ASSUME IInv, HostStep PROVE IInv'
<1> USE TaskFacts DEF Place
<1>1. CASE ResetEvent
  BY <1>1, ResetKeeps DEF ResetEvent, lockVars
<1>2. CASE TimerExp
  <2>1. CASE sync = "bad"
    BY <1>2, <2>1, ResetKeeps DEF TimerExp, Retry, lockVars
  <2>2. CASE sync # "bad"
    <3>1. UNCHANGED <<sync, pc, call, hsLock, hciLock, sem, ack, refused, inflight, radio, active>>
      BY <1>2, <2>2 DEF TimerExp, Retry, lockVars, ackVars
    <3>2. QED BY <3>1 DEF IInv, Shape, Channel, Bringup, Clean, Granted, Waits, OwnCommand
  <2>3. QED BY <2>1, <2>2
<1>3. CASE ClearState
  <2>1. /\ Moves(Host, "forget")
        /\ pc[Host] = "clear" /\ hsLock = None /\ hsLock' = None /\ ~ active' /\ sync' = sync
    BY <1>3 DEF ClearState, ActiveAfterReset, Moves, IInv, Shape, lockVars
  <2>2. Bringup' /\ Clean'
    BY <2>1, MoveFacts DEF IInv, Bringup, Clean
  <2>3. QED BY <2>1, <2>2, MoveFacts DEF IInv
<1>4. CASE ForgetReason
  <2>1. /\ Moves(Host, "reset")
        /\ pc[Host] = "forget" /\ sync' = "bringup" /\ hsLock' = hsLock /\ active' = active
    BY <1>4 DEF ForgetReason, Moves, IInv, Shape, lockVars
  <2>2. hciLock # Host
    BY <2>1 DEF IInv, Channel, Shape
  <2>3. Bringup' /\ Clean'
    BY <2>1, <2>2, MoveFacts DEF IInv, Bringup, Clean
  <2>4. QED BY <2>1, <2>3, MoveFacts DEF IInv
<1>5. CASE AfterReset
  <2>1. /\ Moves(Host, "setup")
        /\ pc[Host] = "reset" /\ call[Host] = "ok" /\ UNCHANGED <<sync, hsLock, active>>
    BY <1>5 DEF AfterReset, Moves, lockVars
  <2>2. Bringup' /\ Clean'
    BY <2>1, MoveFacts DEF IInv, Bringup, Clean
  <2>3. QED BY <2>1, <2>2, MoveFacts DEF IInv
<1>6. CASE Synchronized
  <2>1. /\ Moves(Host, "onSync")
        /\ pc[Host] = "setup" /\ sync' = "good" /\ UNCHANGED <<hsLock, active>>
    BY <1>6 DEF Synchronized, Moves, lockVars
  <2>2. Bringup' /\ Clean'
    BY <2>1, MoveFacts DEF IInv, Bringup, Clean
  <2>3. QED BY <2>1, <2>2, MoveFacts DEF IInv
<1>7. CASE StartupFails
  <2>1. /\ Moves(Host, "idle")
        /\ pc[Host] \in {"reset", "setup"} /\ sync' = "bad" /\ UNCHANGED <<hsLock, active>>
    BY <1>7 DEF StartupFails, SyncAfterFailure, Moves, lockVars
  <2>2. Bringup' /\ Clean'
    BY <2>1, MoveFacts DEF IInv, Bringup, Clean
  <2>3. QED BY <2>1, <2>2, MoveFacts DEF IInv
<1>8. CASE OnSync
  <2>1. PICK place \in {"idle", "start"} : Goto(Host, place)
    BY <1>8 DEF OnSync
  <2>2. Moves(Host, place) /\ pc[Host] = "onSync" /\ UNCHANGED <<sync, hsLock, active>>
    BY <1>8, <2>1 DEF OnSync, Moves, IInv, Shape, lockVars
  <2>3. Bringup' /\ Clean'
    BY <2>2, MoveFacts DEF IInv, Bringup, Clean
  <2>4. QED BY <2>2, <2>3, MoveFacts DEF IInv
<1>9. QED BY <1>1, <1>2, <1>3, <1>4, <1>5, <1>6, <1>7, <1>8 DEF HostStep

LEMMA AppInitKeeps == ASSUME IInv, AppInit PROVE IInv'
<1> USE TaskFacts DEF Place
<1>1. Moves(App, "start") /\ pc[App] = "init" /\ UNCHANGED <<sync, hsLock, active>>
  BY DEF AppInit, Moves, IInv, Shape, lockVars
<1>2. Bringup' /\ Clean'
  BY <1>1, MoveFacts DEF IInv, Bringup, Clean
<1>3. QED BY <1>1, <1>2, MoveFacts DEF IInv

-----------------------------------------------------------------------------
(***************************************************************************)
(* Advertising.                                                            *)
(***************************************************************************)

\* The step leaves what a reset looks at as it is.
LEMMA QuietKeeps ==
    ASSUME IInv, NEW t \in Task, NEW place \in {"idle", "done", "start", "data", "advertise"},
           pc[t] \in {"start", "data", "advertise"}, place = "done" => t = App,
           Moves(t, place), UNCHANGED <<sync, hsLock, active>>
    PROVE  IInv'
<1> USE TaskFacts DEF Place
<1>1. Bringup' /\ Clean'
  BY MoveFacts DEF IInv, Bringup, Clean
<1>2. QED BY <1>1, MoveFacts DEF IInv

LEMMA StartKeeps == ASSUME IInv, NEW t \in Task, StartAdvertising(t) PROVE IInv'
<1> USE TaskFacts
<1>1. PICK place \in {"idle", "done", "data", "advertise"} :
          Goto(t, place) /\ (place = "done" => t = App)
  BY DEF StartAdvertising, Return
<1>2. pc[t] = "start" /\ Moves(t, place) /\ UNCHANGED <<sync, hsLock, active>>
  BY <1>1 DEF StartAdvertising, Moves, IInv, Shape, Command, lockVars
<1>3. QED BY <1>1, <1>2, QuietKeeps

LEMMA DataKeeps == ASSUME IInv, NEW t \in Task, AfterData(t) PROVE IInv'
<1> USE TaskFacts
<1>1. PICK place \in {"idle", "done", "advertise"} :
          Goto(t, place) /\ (place = "done" => t = App)
  BY DEF AfterData, Return
<1>2. pc[t] = "data" /\ Moves(t, place) /\ UNCHANGED <<sync, hsLock, active>>
  BY <1>1 DEF AfterData, Moves, lockVars
<1>3. QED BY <1>1, <1>2, QuietKeeps

LEMMA AdvStartKeeps == ASSUME IInv, NEW t \in Task, AdvStart(t) PROVE IInv'
<1> USE TaskFacts DEF Place
<1>1. CASE hsLock' = t /\ Goto(t, "params")
  <2>1. /\ Moves(t, "params") /\ pc[t] = "advertise" /\ UNCHANGED <<sync, active>>
        /\ hsLock = None
    BY <1>1 DEF AdvStart, Moves, IInv, Shape
  <2>2. Bringup' /\ Clean'
    BY <1>1, <2>1, MoveFacts DEF IInv, Bringup, Clean
  <2>3. QED BY <2>1, <2>2, MoveFacts DEF IInv
<1>2. CASE UNCHANGED hsLock /\ Return(t)
  <2>1. PICK place \in {"idle", "done"} : Goto(t, place) /\ (place = "done" => t = App)
    BY <1>2 DEF Return
  <2>2. Moves(t, place) /\ pc[t] = "advertise" /\ UNCHANGED <<sync, hsLock, active>>
    BY <1>2, <2>1 DEF AdvStart, Moves, IInv, Shape
  <2>3. QED BY <2>1, <2>2, QuietKeeps
<1>3. QED BY <1>1, <1>2 DEF AdvStart

\* The host is not in a startup while a task has the lock and its command is done.
LEMMA NoStartup ==
    ASSUME IInv, NEW t \in Task, pc[t] \in {"params", "enable"}, call[t] = "ok" \/ pc[t] = "enable"
    PROVE  pc[Host] \notin {"forget", "reset", "setup"}
BY TaskFacts DEF IInv, Bringup

LEMMA ParamsKeeps == ASSUME IInv, NEW t \in Task, AfterParams(t) PROVE IInv'
<1> USE TaskFacts DEF Place
<1>1. CASE call[t] = "ok" /\ Goto(t, "enable") /\ UNCHANGED hsLock
  <2>1. Moves(t, "enable") /\ pc[t] = "params" /\ UNCHANGED <<sync, hsLock>>
    BY <1>1 DEF AfterParams, Moves
  <2>2. pc[Host] \notin {"forget", "reset", "setup"}
    BY <1>1, <2>1, NoStartup
  <2>3. Bringup' /\ Clean'
    BY <2>1, <2>2, MoveFacts DEF IInv, Bringup, Clean
  <2>4. QED BY <2>1, <2>3, MoveFacts DEF IInv
<1>2. CASE call[t] = "failed" /\ hsLock' = None /\ UNCHANGED active /\ Return(t)
  <2>1. PICK place \in {"idle", "done"} : Goto(t, place) /\ (place = "done" => t = App)
    BY <1>2 DEF Return
  <2>2. Moves(t, place) /\ pc[t] = "params" /\ sync' = sync
    BY <1>2, <2>1 DEF AfterParams, Moves
  <2>3. Bringup' /\ Clean'
    BY <1>2, <2>1, <2>2, MoveFacts DEF IInv, Bringup, Clean
  <2>4. QED BY <2>2, <2>3, MoveFacts DEF IInv
<1>3. QED BY <1>1, <1>2 DEF AfterParams

LEMMA EnableKeeps == ASSUME IInv, NEW t \in Task, AfterEnable(t) PROVE IInv'
<1> USE TaskFacts DEF Place
<1>1. PICK place \in {"idle", "done"} : Goto(t, place) /\ (place = "done" => t = App)
  BY DEF AfterEnable, Return
<1>2. Moves(t, place) /\ pc[t] = "enable" /\ sync' = sync /\ hsLock' = None
  BY <1>1 DEF AfterEnable, Moves
<1>3. pc[Host] \notin {"forget", "reset", "setup"}
  BY <1>2, NoStartup
<1>4. Bringup' /\ Clean'
  BY <1>1, <1>2, <1>3, MoveFacts DEF IInv, Bringup, Clean
<1>5. QED BY <1>2, <1>4, MoveFacts DEF IInv

-----------------------------------------------------------------------------
LEMMA Preserved == ASSUME IInv, ~ LateAcks, [Next]_vars PROVE IInv'
<1>1. ASSUME NEW t \in Task, TaskStep(t) PROVE IInv'
  BY <1>1, SendKeeps, SendFailsKeeps, TimeoutKeeps, ProcessKeeps, StartKeeps, DataKeeps, AdvStartKeeps,
     ParamsKeeps, EnableKeeps DEF TaskStep
<1>2. ASSUME OversizedEvent PROVE IInv'
  <2>1. UNCHANGED <<sync, pc, call, hsLock, hciLock, sem, ack, refused, inflight, radio, active>>
    BY <1>2 DEF OversizedEvent, lockVars, ackVars
  <2>2. QED BY <2>1 DEF IInv, Shape, Channel, Bringup, Clean, Granted, Waits, OwnCommand
<1>3. ASSUME UNCHANGED vars PROVE IInv'
  <2>1. UNCHANGED <<sync, pc, call, hsLock, hciLock, sem, ack, refused, inflight, radio, active>>
    BY <1>3 DEF vars, lockVars, ackVars
  <2>2. QED BY <2>1 DEF IInv, Shape, Channel, Bringup, Clean, Granted, Waits, OwnCommand
<1>4. QED BY <1>1, <1>2, <1>3, HostKeeps, AppInitKeeps, AnswerKeeps, LoseKeeps DEF Next

LEMMA Invariant == ASSUME ~ LateAcks PROVE Spec => []IInv
<1>1. IInv /\ [Next]_vars => IInv'
  BY Preserved
<1>2. QED BY <1>1, InitEstablishes, PTL DEF Spec

\* A task gets the acknowledgement of its own command, if the controller does not
\* answer after the timeout (ble_hs_hci_rx_ack, ble_hs_hci_cmd_tx).
THEOREM OwnAckCorrect == ASSUME ~ LateAcks PROVE Spec => []OwnAck
<1>1. IInv => OwnAck
  BY TaskFacts DEF IInv, Channel, Waits, OwnCommand, OwnAck
<1>2. QED BY <1>1, Invariant, PTL

\* A startup ends with a controller that does not advertise, under the same
\* assumption: no command of the setup task slips into it (ble_hs_sync).
THEOREM CleanCorrect == ASSUME ~ LateAcks PROVE Spec => CleanBringup
<1>1. IInv /\ [Next]_vars => [Synchronized => radio = Silent /\ ~ active]_vars
  BY DEF IInv, Clean, Bringup, Synchronized
<1>2. QED BY <1>1, Invariant, PTL DEF Spec, CleanBringup
-----------------------------------------------------------------------------
(***************************************************************************)
(* Types, whether or not the controller answers late.  Every command that  *)
(* was given up while the controller had still to answer it was a fault;   *)
(* so at most one command more than the faults is under way.               *)
(***************************************************************************)
HostPlace == Command \cup {"idle", "clear", "forget", "onSync", "start", "advertise"}
AppPlace == {"data", "params", "enable", "init", "start", "advertise", "done"}
PlaceOf(t) == IF t = Host THEN HostPlace ELSE AppPlace

Control == /\ Shape
           /\ pc[Host] \in HostPlace /\ pc[App] \in AppPlace
           /\ {hsLock, hciLock} \subseteq Task \cup {None}
           /\ \A t \in Task : call[t] = "wait" <=> hciLock = t

InStartup == /\ sync \in {"bad", "bringup", "good"}
             /\ sync = "bringup" <=> pc[Host] \in {"reset", "setup"}

Flags == /\ reason \in BOOLEAN /\ queued \in BOOLEAN /\ timer \in BOOLEAN
         /\ dataSet \in BOOLEAN /\ synced \in BOOLEAN /\ forever \in BOOLEAN
         /\ refused \in BOOLEAN /\ unaware \in BOOLEAN /\ overtaken \in BOOLEAN
         /\ gaveUp \in BOOLEAN

Lock == IF hciLock = None THEN 0 ELSE 1

Traffic == /\ sem \in {0, 1} /\ ack \in Sent \cup {None}
           /\ inflight \in Seq(Sent)
           /\ radio \in [on : BOOLEAN, data : BOOLEAN]
           /\ faults \in 0 .. MaxFaults
           /\ Len(inflight) + sem <= faults + Lock

TInv == Control /\ InStartup /\ Flags /\ Traffic

LEMMA TypesFollow == TInv => TypeOK
<1> SUFFICES ASSUME TInv PROVE TypeOK
  OBVIOUS
<1>1. Len(inflight) \in Nat /\ Len(inflight) <= MaxFaults + 1
  BY FaultAssumption DEF TInv, Traffic, Lock
<1>2. {reason, queued, timer, dataSet, synced, forever, refused, unaware, overtaken, gaveUp}
         \subseteq BOOLEAN
  BY DEF TInv, Flags
<1>3. sem \in {0, 1} /\ ack \in Sent \cup {None} /\ inflight \in Seq(Sent)
      /\ radio \in [on : BOOLEAN, data : BOOLEAN] /\ faults \in 0 .. MaxFaults
  BY DEF TInv, Traffic
<1>4. QED BY <1>1, <1>2, <1>3 DEF TInv, Control, InStartup, Shape, TypeOK, HostPlace, AppPlace, Command

LEMMA TypesInitially == Init => TInv
<1> SUFFICES ASSUME Init PROVE TInv
  OBVIOUS
<1> USE TaskFacts
<1>1. Control /\ InStartup
  BY DEF Init, Control, InStartup, Shape, HostPlace, AppPlace, Command, Place
<1>2. Flags
  BY DEF Init, Flags
<1>3. Traffic
  BY FaultAssumption DEF Init, Traffic, Lock, Silent
<1>4. QED BY <1>1, <1>2, <1>3 DEF TInv

\* Flags are set, cleared, or computed from flags.
LEMMA FlagsKept == ASSUME Flags, [Next]_vars PROVE Flags'
<1> USE DEF Flags, SchedReset, CommandEnds, GivesUp, resetVars, ackVars, appVars, startVars, histVars
<1>1. ASSUME NEW t \in Task, TaskStep(t) PROVE Flags'
  <2>1. ASSUME SendCommand(t) \/ SendFails(t) PROVE Flags'
    BY <2>1 DEF SendCommand, SendFails
  <2>2. ASSUME Timeout(t) PROVE Flags'
    BY <2>2 DEF Timeout
  <2>3. ASSUME ProcessAck(t) PROVE Flags'
    BY <2>3 DEF ProcessAck
  <2>4. ASSUME StartAdvertising(t) PROVE Flags'
    BY <2>4 DEF StartAdvertising
  <2>5. ASSUME AfterData(t) PROVE Flags'
    BY <2>5 DEF AfterData
  <2>6. ASSUME AdvStart(t) PROVE Flags'
    BY <2>6 DEF AdvStart
  <2>7. ASSUME AfterParams(t) PROVE Flags'
    BY <2>7 DEF AfterParams
  <2>8. ASSUME AfterEnable(t) PROVE Flags'
    BY <2>8 DEF AfterEnable
  <2>9. QED BY <1>1, <2>1, <2>2, <2>3, <2>4, <2>5, <2>6, <2>7, <2>8 DEF TaskStep
<1>2. ASSUME HostStep PROVE Flags'
  <2>1. ASSUME ResetEvent PROVE Flags'
    BY <2>1 DEF ResetEvent
  <2>2. ASSUME TimerExp PROVE Flags'
    BY <2>2 DEF TimerExp
  <2>3. ASSUME ClearState PROVE Flags'
    <3>1. synced' \in BOOLEAN /\ overtaken' \in BOOLEAN
      BY <2>3 DEF ClearState
    <3>2. QED BY <2>3, <3>1 DEF ClearState
  <2>4. ASSUME ForgetReason PROVE Flags'
    BY <2>4 DEF ForgetReason
  <2>5. ASSUME AfterReset \/ Synchronized \/ StartupFails PROVE Flags'
    BY <2>5 DEF AfterReset, Synchronized, StartupFails
  <2>6. ASSUME OnSync PROVE Flags'
    BY <2>6 DEF OnSync
  <2>7. QED BY <1>2, <2>1, <2>2, <2>3, <2>4, <2>5, <2>6 DEF HostStep
<1>3. ASSUME AppInit \/ Answer \/ Refuse \/ Lose PROVE Flags'
  <2>1. refused' \in BOOLEAN
    <3>1. ASSUME NEW isRefused \in BOOLEAN, Answered(isRefused) PROVE refused' \in BOOLEAN
      <4>1. refused' = refused \/ refused' = isRefused
        BY <3>1, Zenon DEF Answered
      <4>2. QED BY <4>1
    <3>2. QED BY <1>3, <3>1 DEF AppInit, Answer, Refuse, Lose
  <2>2. QED BY <1>3, <2>1 DEF AppInit, Answer, Refuse, Answered, Lose
<1>4. ASSUME OversizedEvent PROVE Flags'
  BY <1>4 DEF OversizedEvent
<1>5. ASSUME UNCHANGED vars PROVE Flags'
  BY <1>5 DEF vars
<1>6. QED BY <1>1, <1>2, <1>3, <1>4, <1>5 DEF Next

\* A task that does not wait goes on at another place.
LEMMA GotoKeepsControl ==
    ASSUME Control, NEW t \in Task, NEW place \in PlaceOf(t), Goto(t, place),
           call[t] # "wait", hciLock' = hciLock, hsLock' \in Task \cup {None}
    PROVE  Control'
<1> USE TaskFacts
<1>1. Shape /\ place \in Place
  BY DEF Control, PlaceOf, HostPlace, AppPlace, Place, Command
<1>2. /\ Shape' /\ pc'[t] = place /\ call'[t] # "wait"
      /\ \A u \in Task \ {t} : pc'[u] = pc[u] /\ call'[u] = call[u]
  BY <1>1, GotoFacts
<1>3. pc'[Host] \in HostPlace /\ pc'[App] \in AppPlace
  BY <1>2 DEF Control, PlaceOf
<1>4. QED BY <1>2, <1>3 DEF Control

\* A task whose command is done, or that has none, does not wait.
LEMMA NotWaiting ==
    ASSUME Control, NEW t \in Task, pc[t] \notin Command \/ call[t] \in {"ok", "failed"}
    PROVE  call[t] # "wait"
BY DEF Control, Shape

LEMMA CommandEndsTypes ==
    ASSUME Control, NEW t \in Task, call[t] = "wait", NEW result \in {"ok", "failed"},
           CommandEnds(t, result), pc' = pc, hsLock' = hsLock
    PROVE  Control' /\ hciLock # None /\ hciLock' = None
<1> USE TaskFacts
<1>1. call' = [call EXCEPT ![t] = result] /\ hciLock' = None /\ hciLock = t
  BY DEF CommandEnds, Control
<1>2. Shape'
  BY <1>1 DEF Control, Shape
<1>3. QED BY <1>1, <1>2 DEF Control, Shape

\* What becomes of the tasks and of the mutex of the commands.
LEMMA ControlKept == ASSUME Control, [Next]_vars PROVE Control'
<1> USE TaskFacts
<1>1. ASSUME NEW t \in Task, TaskStep(t) PROVE Control'
  <2>1. ASSUME SendCommand(t) \/ SendFails(t) PROVE Control'
    <3>1. /\ pc' = pc /\ hsLock' = hsLock /\ call[t] = "lock" /\ hciLock = None
          /\ \/ hciLock' = t /\ call' = [call EXCEPT ![t] = "wait"]
             \/ hciLock' = hciLock /\ call' = [call EXCEPT ![t] = "failed"]
      BY <2>1 DEF SendCommand, SendFails, HciUnlocked, lockVars
    <3>2. Shape'
      BY <3>1 DEF Control, Shape
    <3>3. QED BY <3>1, <3>2 DEF Control, Shape
  <2>2. ASSUME Timeout(t) PROVE Control'
    BY <2>2, CommandEndsTypes DEF Timeout
  <2>3. ASSUME ProcessAck(t) PROVE Control'
    <3>1. PICK result \in {"ok", "failed"} : CommandEnds(t, result)
      BY <2>3 DEF ProcessAck
    <3>2. QED BY <2>3, <3>1, CommandEndsTypes DEF ProcessAck, lockVars
  <2>4. ASSUME StartAdvertising(t) PROVE Control'
    <3>1. PICK place \in PlaceOf(t) : Goto(t, place)
      BY <2>4 DEF StartAdvertising, Return, PlaceOf, HostPlace, AppPlace, Command
    <3>2. call[t] # "wait" /\ UNCHANGED <<hsLock, hciLock>>
      BY <2>4, NotWaiting DEF StartAdvertising, lockVars, Command
    <3>3. QED BY <3>1, <3>2, GotoKeepsControl DEF Control
  <2>5. ASSUME AfterData(t) PROVE Control'
    <3>1. PICK place \in PlaceOf(t) : Goto(t, place)
      BY <2>5 DEF AfterData, Return, PlaceOf, HostPlace, AppPlace, Command
    <3>2. call[t] # "wait" /\ UNCHANGED <<hsLock, hciLock>>
      BY <2>5 DEF AfterData, lockVars
    <3>3. QED BY <3>1, <3>2, GotoKeepsControl DEF Control
  <2>6. ASSUME AdvStart(t) PROVE Control'
    <3>1. PICK place \in PlaceOf(t) : Goto(t, place)
      BY <2>6 DEF AdvStart, Return, PlaceOf, HostPlace, AppPlace, Command
    <3>2. call[t] # "wait" /\ hciLock' = hciLock /\ hsLock' \in Task \cup {None}
      BY <2>6, NotWaiting DEF AdvStart, Command, Control
    <3>3. QED BY <3>1, <3>2, GotoKeepsControl
  <2>7. ASSUME AfterParams(t) PROVE Control'
    <3>1. PICK place \in PlaceOf(t) : Goto(t, place)
      BY <2>7 DEF AfterParams, Return, PlaceOf, HostPlace, AppPlace, Command
    <3>2. call[t] # "wait" /\ hciLock' = hciLock /\ hsLock' \in Task \cup {None}
      BY <2>7 DEF AfterParams, Control
    <3>3. QED BY <3>1, <3>2, GotoKeepsControl
  <2>8. ASSUME AfterEnable(t) PROVE Control'
    <3>1. PICK place \in PlaceOf(t) : Goto(t, place)
      BY <2>8 DEF AfterEnable, Return, PlaceOf, HostPlace, AppPlace, Command
    <3>2. call[t] # "wait" /\ hciLock' = hciLock /\ hsLock' \in Task \cup {None}
      BY <2>8 DEF AfterEnable, Control
    <3>3. QED BY <3>1, <3>2, GotoKeepsControl
  <2>9. QED BY <1>1, <2>1, <2>2, <2>3, <2>4, <2>5, <2>6, <2>7, <2>8 DEF TaskStep
<1>2. ASSUME HostStep PROVE Control'
  <2>1. CASE UNCHANGED <<pc, call, hsLock, hciLock>>
    BY <2>1 DEF Control, Shape
  <2>2. CASE \E place \in HostPlace : Goto(Host, place)
    <3>1. PICK place \in HostPlace : Goto(Host, place)
      BY <2>2
    <3>2. UNCHANGED <<hsLock, hciLock>>
      BY <1>2 DEF HostStep, ResetEvent, TimerExp, ClearState, ForgetReason, AfterReset,
                  Synchronized, StartupFails, OnSync, lockVars
    <3>3. pc[Host] \notin Command \/ call[Host] \in {"ok", "failed"}
      BY <1>2 DEF HostStep, ResetEvent, TimerExp, ClearState, ForgetReason, AfterReset,
                  Synchronized, StartupFails, OnSync, Command
    <3>4. call[Host] # "wait" /\ place \in PlaceOf(Host)
      BY <3>3, NotWaiting DEF PlaceOf
    <3>5. QED BY <3>1, <3>2, <3>4, GotoKeepsControl DEF Control
  <2>3. QED
    BY <1>2, <2>1, <2>2
       DEF HostStep, ResetEvent, TimerExp, Retry, BeginReset, ClearState, ForgetReason, AfterReset,
           Synchronized, StartupFails, OnSync, HostPlace, Command, lockVars
<1>3. ASSUME AppInit PROVE Control'
  <2>1. call[App] # "wait" /\ Goto(App, "start") /\ UNCHANGED <<hsLock, hciLock>>
    BY <1>3, NotWaiting DEF AppInit, lockVars, Command
  <2>2. "start" \in PlaceOf(App)
    BY DEF PlaceOf, AppPlace
  <2>3. QED BY <2>1, <2>2, GotoKeepsControl DEF Control
<1>4. ASSUME UNCHANGED <<pc, call, hsLock, hciLock>> PROVE Control'
  BY <1>4 DEF Control, Shape
<1>5. Answer \/ Refuse \/ Lose \/ OversizedEvent \/ UNCHANGED vars => UNCHANGED <<pc, call, hsLock, hciLock>>
  BY DEF Answer, Refuse, Answered, Lose, OversizedEvent, lockVars, vars
<1>6. QED BY <1>1, <1>2, <1>3, <1>4, <1>5 DEF Next

LEMMA StartupKept == ASSUME Control, InStartup, [Next]_vars PROVE InStartup'
<1> USE TaskFacts
<1>1. ASSUME HostStep PROVE InStartup'
  <2>1. ASSUME NEW place \in HostPlace, Goto(Host, place) PROVE pc'[Host] = place
    BY <2>1 DEF Goto, Control, Shape
  <2>2. QED
    BY <1>1, <2>1
       DEF InStartup, HostStep, ResetEvent, TimerExp, Retry, BeginReset, ClearState, ForgetReason,
           AfterReset, Synchronized, StartupFails, SyncAfterFailure, OnSync, HostPlace, Command
<1>2. ASSUME NEW t \in Task, TaskStep(t) PROVE InStartup'
  <2>1. sync' = sync
    BY <1>2 DEF TaskStep, SendCommand, SendFails, Timeout, ProcessAck, StartAdvertising, AfterData, AdvStart,
                AfterParams, AfterEnable
  <2>2. CASE pc'[Host] = pc[Host]
    BY <2>1, <2>2 DEF InStartup
  <2>3. CASE t = Host /\ pc[Host] \in {"start", "data", "advertise", "params", "enable"}
             /\ \E place \in {"idle", "data", "advertise", "params", "enable"} : Goto(Host, place)
    BY <2>1, <2>3 DEF InStartup, Goto, Control, Shape
  <2>4. CASE t = App /\ \E place : Goto(App, place)
    BY <2>2, <2>4 DEF Goto, Control, Shape
  <2>5. QED
    BY <1>2, <2>2, <2>3, <2>4
       DEF TaskStep, SendCommand, SendFails, Timeout, ProcessAck, StartAdvertising, AfterData, AdvStart,
           AfterParams, AfterEnable, Return, Task
<1>3. ASSUME AppInit PROVE InStartup'
  BY <1>3 DEF AppInit, Goto, Control, Shape, InStartup
<1>4. Answer \/ Refuse \/ Lose \/ OversizedEvent \/ UNCHANGED vars => UNCHANGED <<sync, pc>>
  BY DEF Answer, Refuse, Answered, Lose, OversizedEvent, vars
<1>5. ASSUME UNCHANGED <<sync, pc>> PROVE InStartup'
  BY <1>5 DEF InStartup
<1>6. QED BY <1>1, <1>2, <1>3, <1>4, <1>5 DEF Next

-----------------------------------------------------------------------------
LEMMA FaultTypes ==
    ASSUME Fault, faults \in 0 .. MaxFaults
    PROVE  faults' \in 0 .. MaxFaults /\ faults' = faults + 1
BY FaultAssumption DEF Fault

LEMMA ExecutedTypes ==
    ASSUME NEW op, radio \in [on : BOOLEAN, data : BOOLEAN]
    PROVE  Executed(op) \in [on : BOOLEAN, data : BOOLEAN]
BY DEF Executed, Silent

\* The commands that remain are those that were under way.
LEMMA EndedTypes ==
    ASSUME Control, Traffic, NEW t \in Task, call[t] = "wait", NEW result \in {"ok", "failed"},
           CommandEnds(t, result), pc' = pc, hsLock' = hsLock
    PROVE  /\ inflight' \in Seq(Sent) /\ Len(inflight') = Len(inflight) /\ ack' = None
           /\ Lock = 1 /\ Lock' = 0
<1>1. inflight \in Seq(Sent) /\ inflight' = [i \in DOMAIN inflight |-> [inflight[i] EXCEPT !.current = FALSE]]
  BY DEF Traffic, CommandEnds
<1>2. ASSUME NEW i \in DOMAIN inflight PROVE [inflight[i] EXCEPT !.current = FALSE] \in Sent
  <2>1. inflight[i] \in Sent
    BY <1>1
  <2>2. QED BY <2>1 DEF Sent
<1>3. inflight' \in Seq(Sent) /\ Len(inflight') = Len(inflight)
  BY <1>1, <1>2
<1>4. hciLock # None /\ hciLock' = None /\ ack' = None
  BY CommandEndsTypes DEF CommandEnds
<1>5. QED BY <1>3, <1>4 DEF Lock

LEMMA TrafficKept == ASSUME Control, Traffic, [Next]_vars PROVE Traffic'
<1> USE TaskFacts
<1>0. Len(inflight) \in Nat /\ faults \in Nat /\ Lock \in {0, 1} /\ sem \in {0, 1}
  BY FaultAssumption DEF Traffic, Lock
<1>1. ASSUME UNCHANGED <<ackVars, hciLock, radio>>, faults' = faults \/ Fault PROVE Traffic'
  <2>1. faults' \in 0 .. MaxFaults /\ faults' >= faults
    BY <1>0, <1>1, FaultTypes DEF Traffic
  <2>2. QED BY <1>0, <1>1, <2>1, FaultAssumption DEF Traffic, Lock, ackVars
<1>2. ASSUME NEW t \in Task, SendCommand(t) PROVE Traffic'
  <2>1. /\ hciLock' = t /\ inflight' = Append(inflight, [op |-> pc[t], current |-> TRUE])
        /\ call[t] = "lock" /\ hciLock = None /\ UNCHANGED <<sem, ack, radio, faults>>
    BY <1>2 DEF SendCommand, HciUnlocked
  <2>2. [op |-> pc[t], current |-> TRUE] \in Sent
    BY <2>1 DEF Control, Shape, Sent
  <2>3. inflight' \in Seq(Sent) /\ Len(inflight') = Len(inflight) + 1
    BY <2>1, <2>2 DEF Traffic
  <2>4. Lock = 0 /\ Lock' = 1
    BY <2>1 DEF Lock
  <2>5. QED BY <1>0, <2>1, <2>3, <2>4, FaultAssumption DEF Traffic
<1>3. ASSUME NEW t \in Task, Timeout(t) PROVE Traffic'
  <2>1. /\ inflight' \in Seq(Sent) /\ Len(inflight') = Len(inflight) /\ ack' = None
        /\ Lock = 1 /\ Lock' = 0 /\ sem = 0 /\ sem' = 0 /\ radio' = radio
    BY <1>3, EndedTypes DEF Timeout
  <2>2. CASE inflight = <<>> /\ faults' = faults
    BY <1>0, <2>1, <2>2, FaultAssumption DEF Traffic
  <2>3. CASE Fault
    <3>1. faults' \in 0 .. MaxFaults /\ faults' = faults + 1
      BY <2>3, FaultTypes DEF Traffic
    <3>2. QED BY <1>0, <2>1, <3>1, FaultAssumption DEF Traffic
  <2>4. QED BY <1>3, <2>2, <2>3 DEF Timeout
<1>4. ASSUME NEW t \in Task, ProcessAck(t) PROVE Traffic'
  <2>1. PICK result \in {"ok", "failed"} : CommandEnds(t, result)
    BY <1>4 DEF ProcessAck
  <2>2. /\ inflight' \in Seq(Sent) /\ Len(inflight') = Len(inflight) /\ ack' = None
        /\ Lock = 1 /\ Lock' = 0 /\ sem = 1 /\ sem' = 0 /\ radio' = radio
    BY <1>4, <2>1, EndedTypes DEF ProcessAck, lockVars
  <2>3. faults' = faults \/ Fault
    BY <1>4 DEF ProcessAck
  <2>4. faults' \in 0 .. MaxFaults /\ faults' >= faults
    BY <1>0, <2>3, FaultTypes DEF Traffic
  <2>5. QED BY <1>0, <2>2, <2>4, FaultAssumption DEF Traffic
<1>5. ASSUME Answer \/ Refuse PROVE Traffic'
  <2> USE DEF Answered
  <2>1. /\ inflight # <<>> /\ inflight' = Tail(inflight) /\ hciLock' = hciLock
        /\ faults' \in 0 .. MaxFaults /\ faults' >= faults
    BY <1>0, <1>5, FaultTypes DEF Answer, Refuse, lockVars, Traffic
  <2>2. inflight' \in Seq(Sent) /\ Len(inflight') = Len(inflight) - 1 /\ Head(inflight) \in Sent
    BY <2>1 DEF Traffic
  <2>3. radio' \in [on : BOOLEAN, data : BOOLEAN]
    BY <1>5, ExecutedTypes DEF Answer, Refuse, Traffic
  <2>4. /\ sem' \in {0, 1} /\ sem' <= sem + 1 /\ ack' \in Sent \cup {None}
    BY <1>0, <1>5, <2>2 DEF Answer, Refuse, Traffic
  <2>5. Lock' = Lock
    BY <2>1 DEF Lock
  <2>6. QED BY <1>0, <2>1, <2>2, <2>3, <2>4, <2>5, FaultAssumption DEF Traffic
<1>6. ASSUME Lose PROVE Traffic'
  <2>1. /\ inflight # <<>> /\ inflight' = Tail(inflight) /\ UNCHANGED <<hciLock, sem, ack>>
        /\ faults' \in 0 .. MaxFaults /\ faults' = faults + 1
    BY <1>6, FaultTypes DEF Lose, lockVars, Traffic
  <2>2. inflight' \in Seq(Sent) /\ Len(inflight') = Len(inflight) - 1
    BY <2>1 DEF Traffic
  <2>3. radio' \in [on : BOOLEAN, data : BOOLEAN]
    BY <1>6, ExecutedTypes DEF Lose, Traffic
  <2>4. Lock' = Lock
    BY <2>1 DEF Lock
  <2>5. QED BY <1>0, <2>1, <2>2, <2>3, <2>4, FaultAssumption DEF Traffic
<1>7. ASSUME NEW t \in Task, \/ SendFails(t) \/ StartAdvertising(t) \/ AfterData(t)
                              \/ AdvStart(t) \/ AfterParams(t) \/ AfterEnable(t)
      PROVE  Traffic'
  BY <1>1, <1>7 DEF SendFails, StartAdvertising, AfterData, AdvStart, AfterParams, AfterEnable, lockVars
<1>8. ASSUME HostStep \/ AppInit \/ OversizedEvent \/ UNCHANGED vars PROVE Traffic'
  <2>1. UNCHANGED <<ackVars, hciLock, radio>> /\ (faults' = faults \/ Fault)
    BY <1>8 DEF HostStep, ResetEvent, TimerExp, ClearState, ForgetReason, AfterReset, Synchronized,
                StartupFails, OnSync, AppInit, OversizedEvent, vars, lockVars
  <2>2. QED BY <1>1, <2>1
<1>9. QED BY <1>2, <1>3, <1>4, <1>5, <1>6, <1>7, <1>8 DEF Next, TaskStep

LEMMA TypesHold == Spec => []TInv
<1>1. TInv /\ [Next]_vars => TInv'
  BY FlagsKept, ControlKept, StartupKept, TrafficKept DEF TInv
<1>2. QED BY <1>1, TypesInitially, PTL DEF Spec

\* Every variable stays in its range, and there are never more commands under way
\* than faults and one, even if the controller answers after the timeout
\* (ble_hs_hci_cmd_tx gives a command up that is still under way).
THEOREM TypeCorrect == Spec => []TypeOK
BY TypesHold, TypesFollow, PTL
-----------------------------------------------------------------------------
(***************************************************************************)
(* What the host believes.  A task that enables the advertising holds      *)
(* ble_hs_mutex from before the parameters until it has drawn its          *)
(* conclusion, so the belief is ahead of the controller only in its hands; *)
(* and when its command fails, the controller has not executed it, or a    *)
(* reset is due that nobody takes back, or the host is not in sync.        *)
(***************************************************************************)
Enabling(t) == pc[t] = "enable"

\* The command has not been sent, or not been executed yet, or refused.
Unexecuted(t) == \/ call[t] = "lock"
                 \/ hciLock = t /\ (inflight # <<>> \/ refused)

Belief == /\ active \in BOOLEAN
          /\ \A t \in Task : pc[t] = "params" => ~ active
          /\ \A t \in Task : Enabling(t) =>
               /\ active
               /\ hciLock = t /\ Granted => radio.on
               /\ call[t] = "ok" => radio.on
               /\ sync = "good" /\ ~ queued =>
                     (call[t] = "failed" \/ Unexecuted(t) => ~ radio.on)
          /\ sync = "good" /\ ~ queued /\ (\A t \in Task : ~ Enabling(t)) => active = radio.on

BInv == TInv /\ IInv /\ Belief

LEMMA BeliefInitially == Init => Belief
BY TaskFacts DEF Init, Belief, Enabling, Silent

\* Only a task that holds ble_hs_mutex enables, and not during a startup.
LEMMA EnablingFacts ==
    ASSUME BInv, NEW t \in Task, Enabling(t)
    PROVE  /\ \A u \in Task : Enabling(u) => u = t
           /\ pc[Host] \notin {"forget", "reset", "setup"}
<1> USE TaskFacts
<1>1. \A u \in Task : Enabling(u) => hsLock = u
  BY DEF BInv, IInv, Bringup, Enabling
<1>2. pc[Host] \notin {"forget", "reset", "setup"}
  BY DEF BInv, IInv, Bringup, Enabling
<1>3. QED BY <1>1, <1>2 DEF Enabling

\* A step of a task that does not enable, neither before nor after, and leaves
\* what the belief is about as it is.
LEMMA BeliefStays ==
    ASSUME BInv, UNCHANGED <<active, radio, hciLock, ackVars>>,
           queued' = queued \/ queued', sync' = sync \/ sync' # "good",
           \A t \in Task : Enabling(t)' <=> Enabling(t),
           \A t \in Task : pc'[t] = "params" => ~ active,
           \A t \in Task : Enabling(t) => call'[t] = call[t]
    PROVE  Belief'
BY DEF BInv, Belief, Enabling, Unexecuted, Granted, ackVars

\* During a step of the controller.
LEMMA ExecutedOn ==
    ASSUME BInv, inflight # <<>>
    PROVE  /\ sync = "good" /\ pc[hciLock] # "enable" => Executed(Head(inflight).op).on = radio.on
           /\ \A t \in Task : Enabling(t) /\ radio.on => Executed(Head(inflight).op).on
           /\ pc[hciLock] = "enable" => Executed(Head(inflight).op).on
<1> USE TaskFacts
<1>1. hciLock \in Task /\ Head(inflight).op = pc[hciLock]
  BY UnderWay DEF BInv
<1>2. radio \in [on : BOOLEAN, data : BOOLEAN]
  BY DEF BInv, TInv, Traffic
<1>3. /\ pc[hciLock] = "enable" => Executed(Head(inflight).op).on
      /\ pc[hciLock] \notin {"reset", "enable"} => Executed(Head(inflight).op).on = radio.on
  BY <1>1, <1>2 DEF Executed
<1>4. pc[App] # "reset"
  BY DEF BInv, TInv, Control, AppPlace
<1>5. sync = "good" => pc[hciLock] # "reset"
  BY <1>1, <1>4 DEF BInv, TInv, InStartup
<1>6. ASSUME NEW t \in Task, Enabling(t) PROVE pc[Host] # "reset"
  BY <1>6, EnablingFacts
<1>7. QED BY <1>1, <1>3, <1>4, <1>5, <1>6

LEMMA BeliefAfterExecution ==
    ASSUME BInv, inflight # <<>>, inflight' = <<>>, ~ refused',
           radio' = Executed(Head(inflight).op),
           UNCHANGED <<sync, queued, pc, call, hciLock, active>>
    PROVE  Belief'
<1> USE TaskFacts
<1>1. hciLock \in Task /\ call[hciLock] = "wait"
  BY UnderWay DEF BInv
<1>2. ASSUME NEW t \in Task, Enabling(t)'
      PROVE  /\ active'
             /\ hciLock' = t => radio'.on
             /\ call'[t] = "ok" => radio'.on
             /\ sync' = "good" /\ ~ queued' =>
                   (call'[t] = "failed" \/ Unexecuted(t)' => ~ radio'.on)
  <2>1. Enabling(t) /\ active' /\ (hciLock' = t => radio'.on) /\ (call'[t] = "ok" => radio'.on)
    BY <1>2, ExecutedOn DEF BInv, Belief, Enabling
  <2>2. ASSUME sync' = "good", ~ queued', call'[t] = "failed" \/ Unexecuted(t)' PROVE ~ radio'.on
    <3>1. call[t] \in {"failed", "lock"} /\ ~ radio.on
      BY <2>1, <2>2 DEF BInv, Belief, Unexecuted
    <3>2. hciLock # t
      BY <1>1, <3>1
    <3>3. pc[hciLock] # "enable"
      BY <1>1, <2>1, <3>2, EnablingFacts DEF Enabling
    <3>4. QED BY <2>2, <3>1, <3>3, ExecutedOn
  <2>3. QED BY <2>1, <2>2
<1>3. ASSUME sync' = "good", ~ queued', \A t \in Task : ~ Enabling(t)' PROVE active' = radio'.on
  <2>1. pc[hciLock] # "enable" /\ \A t \in Task : ~ Enabling(t)
    BY <1>1, <1>3 DEF Enabling
  <2>2. radio'.on = radio.on
    BY <1>3, <2>1, ExecutedOn
  <2>3. active = radio.on
    BY <1>3, <2>1 DEF BInv, Belief
  <2>4. QED BY <2>2, <2>3
<1>4. QED BY <1>2, <1>3 DEF BInv, Belief

\* An answer, or the loss of a command, that changes nothing in the controller.
LEMMA BeliefAfterNothing ==
    ASSUME BInv, inflight # <<>>, inflight' = <<>>,
           UNCHANGED <<sync, queued, pc, call, hciLock, active, radio>>,
           refused' \/ ack' = None
    PROVE  Belief'
<1> USE TaskFacts
<1>1. \A t \in Task : Unexecuted(t)' => Unexecuted(t)
  BY DEF Unexecuted
<1>2. ~ Granted'
  BY DEF Granted
<1>3. QED BY <1>1, <1>2 DEF BInv, Belief, Enabling

\* The task that steps is not enabling before or after.
LEMMA Elsewhere ==
    ASSUME BInv, NEW t \in Task, NEW place \in Place, Goto(t, place),
           pc[t] # "enable", place # "enable",
           place = "params" => ~ active,
           UNCHANGED <<active, radio, hciLock, ackVars>>,
           queued' = queued, sync' = sync \/ sync' # "good"
    PROVE  Belief'
<1>1. /\ pc'[t] = place
      /\ \A u \in Task \ {t} : pc'[u] = pc[u] /\ call'[u] = call[u]
  BY GotoFacts DEF BInv, IInv
<1>2. \A u \in Task : (Enabling(u)' <=> Enabling(u)) /\ (Enabling(u) => call'[u] = call[u])
  BY <1>1 DEF Enabling
<1>3. \A u \in Task : pc'[u] = "params" => ~ active
  BY <1>1 DEF BInv, Belief
<1>4. QED BY <1>2, <1>3, BeliefStays

LEMMA BeliefAfterHost == ASSUME BInv, HostStep PROVE Belief'
<1> USE TaskFacts DEF Place
<1>1. CASE ResetEvent
  <2>1. /\ pc[Host] = "idle" /\ sync' = "bad" /\ Goto(Host, "clear")
        /\ UNCHANGED <<active, radio, hciLock, ackVars>>
    BY <1>1 DEF ResetEvent, BeginReset, lockVars
  <2>2. /\ pc'[Host] = "clear" /\ pc'[App] = pc[App] /\ call'[App] = call[App]
    BY <2>1, GotoFacts DEF BInv, IInv
  <2>3. QED BY <2>1, <2>2 DEF BInv, Belief, Enabling, Granted, ackVars
<1>2. CASE TimerExp
  <2>1. CASE sync = "bad"
    BY <1>2, <2>1, Elsewhere DEF TimerExp, Retry, BeginReset, resetVars, lockVars
  <2>2. CASE sync # "bad"
    BY <1>2, <2>2, BeliefStays DEF TimerExp, Retry, BInv, Belief, Enabling, resetVars, lockVars
  <2>3. QED BY <2>1, <2>2
<1>3. CASE ClearState
  <2>1. /\ pc[Host] = "clear" /\ hsLock = None /\ active' = FALSE /\ sync' = sync
        /\ Goto(Host, "forget")
    BY <1>3 DEF ClearState, ActiveAfterReset
  <2>2. sync' = "bad" /\ \A t \in Task : ~ Enabling(t)
    BY <2>1 DEF BInv, IInv, Bringup, Enabling
  <2>3. /\ pc'[Host] = "forget" /\ pc'[App] = pc[App]
    BY <2>1, GotoFacts DEF BInv, IInv
  <2>4. QED BY <2>1, <2>2, <2>3 DEF Belief, Enabling
<1>4. CASE ForgetReason
  BY <1>4, Elsewhere DEF ForgetReason, lockVars
<1>5. CASE AfterReset
  BY <1>5, Elsewhere DEF AfterReset, resetVars, lockVars
<1>6. CASE Synchronized
  <2>1. /\ pc[Host] = "setup" /\ Goto(Host, "onSync") /\ UNCHANGED <<active, radio>>
    BY <1>6 DEF Synchronized
  <2>2. /\ radio.on = FALSE /\ active = FALSE /\ pc[App] # "enable"
    BY <2>1 DEF BInv, IInv, Clean, Bringup, Belief, Silent
  <2>3. pc'[Host] = "onSync" /\ pc'[App] = pc[App]
    BY <2>1, GotoFacts DEF BInv, IInv
  <2>4. QED BY <2>1, <2>2, <2>3 DEF Belief, Enabling
<1>7. CASE StartupFails
  BY <1>7, Elsewhere DEF StartupFails, SyncAfterFailure, resetVars, lockVars
<1>8. CASE OnSync
  BY <1>8, Elsewhere DEF OnSync, resetVars, lockVars
<1>9. QED BY <1>1, <1>2, <1>3, <1>4, <1>5, <1>6, <1>7, <1>8 DEF HostStep

LEMMA BeliefAfterCommand ==
    ASSUME BInv, NEW t \in Task, call[t] = "wait", NEW result \in {"ok", "failed"},
           CommandEnds(t, result), UNCHANGED <<sync, pc, radio, active>>,
           queued' = queued \/ queued',
           result = "ok" => Granted,
           result = "failed" => pc[t] # "enable" \/ queued' \/ refused
    PROVE  Belief'
<1> USE TaskFacts
<1>1. call' = [call EXCEPT ![t] = result] /\ hciLock' = None /\ hciLock = t
  BY DEF BInv, IInv, Channel, CommandEnds
<1>2. call'[t] = result /\ \A u \in Task \ {t} : call'[u] = call[u]
  BY <1>1 DEF BInv, IInv, Shape
<1>3. \A u \in Task : Unexecuted(u)' => Unexecuted(u)
  BY <1>1, <1>2 DEF Unexecuted
<1>4. result = "failed" /\ refused => Unexecuted(t)
  BY <1>1 DEF Unexecuted
<1>5. QED BY <1>1, <1>2, <1>3, <1>4 DEF BInv, Belief, Enabling

LEMMA BeliefAfterTask == ASSUME BInv, ~ LateAcks, NEW t \in Task, TaskStep(t) PROVE Belief'
<1> USE TaskFacts
<1>1. CASE SendCommand(t) \/ SendFails(t)
  <2>1. /\ UNCHANGED <<active, radio, sync, queued, pc, ack, refused>>
        /\ call[t] = "lock" /\ hciLock = None
        /\ call'[t] \in {"wait", "failed"} /\ hciLock' \in {hciLock, t}
        /\ hciLock' = hciLock => inflight' = inflight
        /\ \A u \in Task \ {t} : call'[u] = call[u]
    BY <1>1 DEF SendCommand, SendFails, HciUnlocked, BInv, IInv, Shape, resetVars, lockVars, ackVars
  <2>2. ack = None
    BY <2>1 DEF BInv, IInv, Channel
  <2>3. ~ Granted'
    BY <2>1, <2>2 DEF Granted
  <2>4. Unexecuted(t)
    BY <2>1 DEF Unexecuted
  <2>5. \A u \in Task \ {t} : Unexecuted(u)' => Unexecuted(u)
    BY <2>1 DEF Unexecuted
  <2>6. QED BY <2>1, <2>3, <2>4, <2>5 DEF BInv, Belief, Enabling
<1>2. CASE Timeout(t)
  BY <1>2, BeliefAfterCommand DEF Timeout, SchedReset
<1>3. CASE ProcessAck(t)
  <2>1. /\ call[t] = "wait" /\ ack # None /\ UNCHANGED <<sync, pc, radio, active>>
    BY <1>3 DEF ProcessAck
  <2>2. PICK result \in {"ok", "failed"} :
           /\ CommandEnds(t, result)
           /\ result = "ok" => ~ refused
           /\ result = "failed" => queued' \/ refused
    BY <1>3 DEF ProcessAck, SchedReset
  <2>3. queued' = queued \/ queued'
    BY <1>3 DEF ProcessAck, SchedReset, resetVars
  <2>4. QED BY <2>1, <2>2, <2>3, BeliefAfterCommand DEF Granted
<1>4. CASE StartAdvertising(t)
  BY <1>4, Elsewhere DEF StartAdvertising, Return, Place, resetVars, lockVars
<1>5. CASE AfterData(t)
  BY <1>5, Elsewhere DEF AfterData, Return, Place, resetVars, lockVars
<1>6. CASE AdvStart(t)
  BY <1>6, Elsewhere DEF AdvStart, Return, Place, resetVars
<1>7. CASE AfterParams(t)
  <2>1. CASE call[t] = "failed" /\ UNCHANGED active /\ Return(t)
    BY <1>7, <2>1, Elsewhere DEF AfterParams, Return, Place, resetVars
  <2>2. CASE call[t] = "ok" /\ active' = TRUE /\ Goto(t, "enable")
    <3>1. /\ pc'[t] = "enable" /\ call'[t] = "lock"
          /\ \A u \in Task \ {t} : pc'[u] = pc[u] /\ call'[u] = call[u]
      BY <2>2, GotoFacts DEF BInv, IInv, Place, Command
    <3>2. hsLock = t /\ \A u \in Task \ {t} : ~ Enabling(u)
      BY <1>7 DEF AfterParams, BInv, IInv, Bringup, Enabling
    <3>3. hciLock' = hciLock /\ hciLock # t /\ UNCHANGED <<ackVars, radio, sync, queued>>
      BY <1>7, <2>2 DEF AfterParams, BInv, IInv, Channel, resetVars
    <3>4. pc[t] = "params" /\ ~ active
      BY <1>7 DEF AfterParams, BInv, Belief
    <3>5. sync = "good" /\ ~ queued => ~ radio.on
      BY <3>2, <3>4 DEF BInv, Belief, Enabling
    <3>6. \A u \in Task : pc'[u] # "params"
      BY <1>7, <3>1, <3>2 DEF AfterParams, BInv, IInv, Bringup
    <3>7. QED BY <2>2, <3>1, <3>2, <3>3, <3>5, <3>6 DEF Belief, Enabling
  <2>3. QED BY <1>7, <2>1, <2>2 DEF AfterParams
<1>8. CASE AfterEnable(t)
  <2>1. PICK place \in {"idle", "done"} : Goto(t, place)
    BY <1>8 DEF AfterEnable, Return
  <2>2. /\ pc'[t] = place /\ \A u \in Task \ {t} : pc'[u] = pc[u] /\ call'[u] = call[u]
    BY <2>1, GotoFacts DEF BInv, IInv, Place
  <2>3. Enabling(t) /\ UNCHANGED <<sync, queued, radio>>
    BY <1>8 DEF AfterEnable, Enabling, resetVars
  <2>4. \A u \in Task : ~ Enabling(u)'
    BY <2>2, <2>3, EnablingFacts DEF Enabling
  <2>5. ASSUME sync' = "good", ~ queued' PROVE active' = radio'.on
    <3>1. CASE call[t] = "ok" /\ active' = active
      <4>1. active = TRUE /\ radio.on = TRUE
        BY <2>3, <3>1 DEF BInv, Belief, TInv, Traffic
      <4>2. QED BY <2>3, <3>1, <4>1
    <3>2. CASE call[t] = "failed" /\ active' = FALSE
      <4>1. radio.on = FALSE
        BY <2>3, <2>5, <3>2 DEF BInv, Belief, TInv, Traffic
      <4>2. QED BY <2>3, <3>2, <4>1
    <3>3. QED BY <1>8, <3>1, <3>2 DEF AfterEnable
  <2>6. active' \in BOOLEAN
    BY <1>8 DEF AfterEnable, BInv, Belief
  <2>7. \A u \in Task : pc'[u] # "params"
    BY <2>2, <2>3 DEF BInv, IInv, Bringup, Enabling
  <2>8. QED BY <2>4, <2>5, <2>6, <2>7 DEF Belief
<1>9. QED BY <1>1, <1>2, <1>3, <1>4, <1>5, <1>6, <1>7, <1>8 DEF TaskStep

LEMMA BeliefKept == ASSUME BInv, ~ LateAcks, [Next]_vars PROVE Belief'
<1> USE TaskFacts
<1>1. ASSUME AppInit PROVE Belief'
  BY <1>1, Elsewhere DEF AppInit, Place, resetVars, lockVars
<1>2. ASSUME Answer \/ Refuse PROVE Belief'
  <2>1. /\ inflight # <<>> /\ inflight' = <<>>
        /\ UNCHANGED <<sync, queued, pc, call, hciLock, active>>
        /\ \/ radio' = Executed(Head(inflight).op) /\ ~ refused'
           \/ radio' = radio /\ refused'
    BY <1>2, AnsweredFacts DEF Answer, Refuse, Answered, BInv, resetVars
  <2>2. QED BY <2>1, BeliefAfterExecution, BeliefAfterNothing
<1>3. ASSUME Lose PROVE Belief'
  <2>1. /\ inflight # <<>> /\ inflight' = <<>> /\ ack = None
        /\ UNCHANGED <<sync, queued, pc, call, hciLock, ack, refused, active>>
    BY <1>3, UnderWay DEF Lose, BInv, resetVars, lockVars
  <2>2. ~ refused
    BY <2>1 DEF BInv, IInv, Channel
  <2>3. CASE radio' = radio
    BY <2>1, <2>3, BeliefAfterNothing
  <2>4. CASE radio' = Executed(Head(inflight).op)
    BY <2>1, <2>2, <2>4, BeliefAfterExecution
  <2>5. QED BY <1>3, <2>3, <2>4 DEF Lose
<1>4. ASSUME OversizedEvent PROVE Belief'
  BY <1>4 DEF OversizedEvent, SchedReset, BInv, Belief, Enabling, Unexecuted, Granted, lockVars, ackVars
<1>5. ASSUME UNCHANGED vars PROVE Belief'
  BY <1>5 DEF vars, resetVars, lockVars, ackVars, BInv, Belief, Enabling, Unexecuted, Granted
<1>6. QED BY <1>1, <1>2, <1>3, <1>4, <1>5, BeliefAfterHost, BeliefAfterTask DEF Next

\* When nothing is under way the host believes of its advertising what is true, if
\* the controller does not answer after the timeout (ble_gap_adv_active).
THEOREM BeliefCorrect == ASSUME ~ LateAcks PROVE Spec => []BeliefHolds
<1>1. TInv /\ IInv /\ Belief /\ [Next]_vars => Belief'
  BY BeliefKept DEF BInv
<1>2. TInv /\ IInv /\ Belief => BeliefHolds
  BY TaskFacts DEF Belief, Enabling, BeliefHolds, Quiet
<1>3. QED BY <1>1, <1>2, BeliefInitially, TypesHold, Invariant, PTL DEF Spec
-----------------------------------------------------------------------------
(***************************************************************************)
(* What FoundAgain rests on.  Between a startup that succeeds and the next *)
(* reset, as long as the host has been told of its resets, the signer      *)
(* advertises or somebody is on the way to it, unless a start() has given  *)
(* up or none has ever come past its checks; what is on the way to the     *)
(* enabling has given the controller its data, unless a reset came in      *)
(* between.                                                                *)
(***************************************************************************)
Running == sync = "good" /\ pc[Host] # "onSync"
Restarting == pc[Host] \in {"forget", "reset", "setup", "onSync"}

\* The places of NimBLEAdvertising::start and ble_gap_adv_start.
Starting == Advertising \cup {"start", "advertise"}

Advances(t) == pc[t] \in {"start", "data", "advertise", "params"} /\ call[t] # "failed"
HasData(t) == \/ pc[t] \in {"advertise", "params", "enable"}
              \/ pc[t] = "data" /\ (call[t] = "ok" \/ (hciLock = t /\ Granted))

\* A host that is out of step and does nothing about it has a timer.
SomethingLeft == sync = "bad" /\ pc[Host] = "idle" => timer

\* Between the reset and onSync the host takes itself for synced just if onReset has
\* not been called.
Known == /\ sync = "bad" => pc[Host] \in {"idle", "clear", "forget"}
         /\ Running => synced
         /\ Restarting => (synced <=> unaware)

Promise == Running /\ ~ unaware /\ ~ queued /\ ~ gaveUp =>
               active \/ pc[App] = "init" \/ NeverStarted \/ \E t \in Task : Advances(t)

Early == pc[App] = "init" => /\ ~ dataSet /\ ~ active
                             /\ pc[Host] \notin Starting

\* An enabling that fails is followed by a reset, or it is the start() that gave up.
Undecided == sync = "good" /\ ~ queued /\ ~ gaveUp =>
                 \A t \in Task : pc[t] = "enable" => call[t] # "failed"

\* What is past the checks of start() has noted its duration.
Noted == pc[App] \in Starting \ {"start"} => forever

Calm == Restarting /\ ~ unaware /\ ~ overtaken => pc[App] \in {"init", "start", "done"} /\ ~ active

Loaded == Running /\ ~ unaware /\ ~ overtaken =>
              /\ active \/ dataSet => radio.data
              /\ \A t \in Task : HasData(t) => radio.data

Left == SomethingLeft /\ Known /\ Promise /\ Undecided /\ Early /\ Noted /\ Calm /\ Loaded

SInv == BInv /\ Left

\* When nothing is under way, the signer is found, with the exceptions of FoundAgain.
NotStranded ==
    Quiet => unaware \/ IF radio.on THEN radio.data \/ overtaken ELSE gaveUp \/ NeverStarted

LEMMA LeftInitially == Init => Left
BY TaskFacts DEF Init, Left, SomethingLeft, Known, Promise, Early, Calm, Loaded, Running, Restarting,
                  Undecided, Noted, Starting

\* A step that leaves alone what is said of the tasks.
LEMMA LeftStays ==
    ASSUME SInv, UNCHANGED <<sync, pc, call, hciLock, ack, refused, active, radio, appVars>>,
           queued' = queued \/ queued', sync = "bad" => timer' = timer
    PROVE  Left'
BY DEF SInv, Left, SomethingLeft, Known, Promise, Undecided, Early, Noted, Calm, Loaded, Running,
       Restarting, Advances, HasData, Granted, NeverStarted, appVars, startVars, histVars

LEMMA ExecutedData ==
    ASSUME BInv, Running, inflight # <<>>
    PROVE  radio.data \/ pc[hciLock] = "data" => Executed(Head(inflight).op).data
<1> USE TaskFacts
<1>1. hciLock \in Task /\ Head(inflight).op = pc[hciLock]
  BY UnderWay DEF BInv
<1>2. radio \in [on : BOOLEAN, data : BOOLEAN]
  BY DEF BInv, TInv, Traffic
<1>3. pc[hciLock] # "reset"
  BY <1>1 DEF BInv, TInv, Control, AppPlace, InStartup, Running
<1>4. QED BY <1>1, <1>2, <1>3 DEF Executed

\* A step of the controller.
LEMMA LeftAfterController == ASSUME SInv, Answer \/ Refuse \/ Lose PROVE Left'
<1> USE TaskFacts
<1>1. /\ inflight # <<>> /\ radio' \in {radio, Executed(Head(inflight).op)}
      /\ UNCHANGED <<sync, queued, timer, pc, call, hciLock, active, appVars>>
  BY DEF Answer, Refuse, Answered, Lose, resetVars, lockVars
<1>2. UNCHANGED <<dataSet, synced, forever, unaware, overtaken, gaveUp>>
  BY <1>1 DEF appVars, startVars, histVars
<1>3. ack = None /\ hciLock \in Task
  BY <1>1, UnderWay DEF SInv, BInv
<1>4. Granted' => radio' = Executed(Head(inflight).op)
  <2>1. CASE Answer
    BY <2>1 DEF Answer
  <2>2. CASE Refuse
    <3>1. Answered(TRUE)
      BY <2>2 DEF Refuse
    <3>2. refused' = TRUE
      BY <3>1, AnsweredFacts DEF SInv, BInv
    <3>3. QED BY <3>2 DEF Granted
  <2>3. CASE Lose
    BY <1>3, <2>3 DEF Lose, Granted
  <2>4. QED BY <2>1, <2>2, <2>3
<1>5. Loaded'
  <2>1. SUFFICES ASSUME Running', ~ unaware', ~ overtaken'
                 PROVE  /\ active' \/ dataSet' => radio'.data
                        /\ \A t \in Task : HasData(t)' => radio'.data
    BY DEF Loaded
  <2>2. Running /\ ~ unaware /\ ~ overtaken
    BY <1>1, <1>2, <2>1 DEF Running
  <2>3. radio.data => radio'.data
    BY <1>1, <2>2, ExecutedData DEF SInv
  <2>4. ASSUME NEW t \in Task, HasData(t)' PROVE radio'.data
    <3>1. CASE HasData(t)
      BY <2>2, <2>3, <3>1 DEF SInv, Left, Loaded
    <3>2. CASE ~ HasData(t)
      <4>1. pc[t] = "data" /\ hciLock = t /\ Granted'
        BY <1>1, <2>4, <3>2 DEF HasData
      <4>2. QED BY <1>1, <1>4, <2>2, <4>1, ExecutedData DEF SInv
    <3>3. QED BY <3>1, <3>2
  <2>5. QED BY <1>1, <1>2, <2>2, <2>3, <2>4 DEF SInv, Left, Loaded
<1>6. QED
  BY <1>1, <1>2, <1>5 DEF SInv, Left, SomethingLeft, Known, Promise, Undecided, Early, Noted, Calm,
                          Running, Restarting, Advances, NeverStarted

LEMMA LeftAfterHost == ASSUME SInv, HostStep PROVE Left'
<1> USE TaskFacts DEF Place, Starting
<1> USE DEF Left, SomethingLeft, Known, Undecided, Early, Noted, Restarting, Running, NeverStarted,
            appVars, startVars, histVars
<1>0. ASSUME NEW place \in Place, Goto(Host, place)
      PROVE  /\ pc'[Host] = place /\ pc'[App] = pc[App] /\ call'[App] = call[App]
             /\ call'[Host] = IF place \in Command THEN "lock" ELSE "none"
  BY <1>0, GotoFacts DEF SInv, BInv, IInv
<1>00. sync \in {"bad", "bringup", "good"} /\ (sync = "bringup" <=> pc[Host] \in {"reset", "setup"})
  BY DEF SInv, BInv, TInv, InStartup
<1>1. ASSUME pc[Host] = "idle", BeginReset, UNCHANGED <<active, appVars>> PROVE Left'
  BY <1>0, <1>1 DEF BeginReset, SInv, Promise, Calm, Loaded
<1>2. ASSUME TimerExp, sync # "bad" PROVE Left'
  <2>1. UNCHANGED <<sync, pc, call, hciLock, ack, refused, active, radio, queued, appVars>>
    BY <1>2 DEF TimerExp, Retry, resetVars, lockVars, ackVars
  <2> HIDE DEF Left, appVars
  <2>2. QED BY <1>2, <2>1, LeftStays
<1>3. CASE ClearState
  <2>1. /\ pc[Host] = "clear" /\ pc'[Host] = "forget" /\ pc'[App] = pc[App]
        /\ sync' = sync /\ sync = "bad" /\ ~ active' /\ UNCHANGED <<dataSet, forever>>
        /\ unaware' = synced' /\ (overtaken' <=> pc[App] \in {"data", "advertise"})
        /\ hsLock = None
    BY <1>0, <1>3 DEF ClearState, ActiveAfterReset, SInv, BInv, IInv, Bringup
  <2>2. pc[App] \notin {"params", "enable"}
    BY <2>1 DEF SInv, BInv, IInv, Bringup
  <2>3. pc[App] \in {"data", "params", "enable", "init", "start", "advertise", "done"}
    BY DEF SInv, BInv, TInv, Control, AppPlace
  <2>4. QED BY <2>1, <2>2, <2>3 DEF SInv, Promise, Calm, Loaded
<1>4. CASE ForgetReason \/ AfterReset
  <2>1. /\ pc[Host] \in {"forget", "reset"} /\ pc'[Host] \in {"reset", "setup"} /\ pc'[App] = pc[App]
        /\ sync' = "bringup"
        /\ UNCHANGED <<active, dataSet, synced, forever, unaware, overtaken, gaveUp>>
    BY <1>0, <1>00, <1>4 DEF ForgetReason, AfterReset
  <2>2. QED BY <2>1 DEF SInv, Promise, Calm, Loaded
<1>5. CASE Synchronized
  <2>0. pc[App] # "enable"
    BY <1>5 DEF Synchronized, SInv, BInv, IInv, Bringup
  <2>1. /\ pc[Host] = "setup" /\ pc'[Host] = "onSync" /\ pc'[App] = pc[App] /\ sync' = "good"
        /\ UNCHANGED <<active, dataSet, synced, forever, unaware, overtaken, gaveUp>>
    BY <1>0, <1>5 DEF Synchronized
  <2>2. QED BY <2>0, <2>1 DEF SInv, Promise, Calm, Loaded
<1>6. CASE StartupFails
  <2>1. /\ pc[Host] \in {"reset", "setup"} /\ pc'[Host] = "idle" /\ pc'[App] = pc[App]
        /\ sync' = "bad" /\ timer' = TRUE
        /\ UNCHANGED <<active, dataSet, synced, forever, unaware, overtaken, gaveUp>>
    BY <1>0, <1>6 DEF StartupFails, SyncAfterFailure
  <2>2. QED BY <2>1 DEF SInv, Promise, Calm, Loaded
<1>7. CASE OnSync
  <2>1. /\ pc[Host] = "onSync" /\ pc'[App] = pc[App] /\ call'[App] = call[App] /\ synced' = TRUE
        /\ UNCHANGED <<sync, queued, active, radio, forever, unaware, overtaken, gaveUp>>
        /\ UNCHANGED <<hciLock, ack, refused>>
    BY <1>0, <1>7 DEF OnSync, resetVars, lockVars, ackVars
  <2>2. sync = "good"
    BY <1>00, <2>1 DEF SInv
  <2>3. pc'[Host] = IF synced \/ pc[App] = "init" \/ ~ forever THEN "idle" ELSE "start"
    BY <1>0, <1>7 DEF OnSync
  <2>4. /\ synced \/ pc[App] = "init" => dataSet' = dataSet
        /\ ~ synced /\ pc[App] # "init" => dataSet' = FALSE /\ call'[Host] = "none"
    BY <1>0, <1>7 DEF OnSync
  <2>5. Promise'
    <3>1. SUFFICES ASSUME ~ synced, pc[App] # "init"
                   PROVE  NeverStarted' \/ \E t \in Task : Advances(t)'
      BY <2>1, <2>2 DEF SInv, Promise
    <3>2. CASE forever
      BY <2>3, <2>4, <3>1, <3>2 DEF Advances
    <3>3. CASE ~ forever
      <4>1. pc[App] \in {"start", "done"}
        BY <3>1, <3>3 DEF SInv, BInv, TInv, Control, AppPlace
      <4>2. pc[App] = "start" => call[App] = "none"
        BY DEF SInv, BInv, IInv, Shape
      <4>3. QED BY <2>1, <3>3, <4>1, <4>2 DEF Advances
    <3>4. QED BY <3>2, <3>3
  <2>6. Undecided' /\ Early' /\ Noted' /\ Calm' /\ Known' /\ SomethingLeft'
    BY <2>1, <2>2, <2>3, <2>4 DEF SInv, Calm
  <2>7. Loaded'
    BY <2>1, <2>2, <2>3, <2>4 DEF SInv, Calm, Loaded, HasData, Granted
  <2>8. QED BY <2>5, <2>6, <2>7
<1>8. ASSUME TimerExp, sync = "bad" PROVE Left'
  BY <1>1, <1>8 DEF TimerExp, Retry
<1>9. ASSUME ResetEvent PROVE Left'
  BY <1>1, <1>9 DEF ResetEvent
<1>10. QED BY <1>2, <1>3, <1>4, <1>5, <1>6, <1>7, <1>8, <1>9 DEF HostStep

LEMMA LeftAfterCommand ==
    ASSUME SInv, NEW t \in Task, call[t] = "wait", NEW result \in {"ok", "failed"},
           CommandEnds(t, result), UNCHANGED <<sync, pc, timer, radio, active, startVars>>,
           UNCHANGED <<unaware, overtaken>>,
           queued' = queued \/ queued', gaveUp => gaveUp',
           result = "ok" => Granted,
           result = "failed" => pc[t] \in {"reset", "setup"} \/ queued' \/ gaveUp'
    PROVE  Left'
<1> USE TaskFacts
<1>1. call' = [call EXCEPT ![t] = result] /\ hciLock' = None /\ hciLock = t
  BY DEF SInv, BInv, IInv, Channel, CommandEnds
<1>2. call'[t] = result /\ \A u \in Task \ {t} : call'[u] = call[u]
  BY <1>1 DEF SInv, BInv, IInv, Shape
<1>3. \A u \in Task : HasData(u)' => HasData(u)
  BY <1>1, <1>2 DEF HasData
<1>4. ~ queued' /\ ~ gaveUp' =>
         ~ queued /\ ~ gaveUp /\ \A u \in Task : Advances(u) => Advances(u)'
  BY <1>2 DEF Advances
<1>5. UNCHANGED <<dataSet, synced, forever, unaware, overtaken>>
  BY DEF startVars
<1>6. SomethingLeft' /\ Known' /\ Early' /\ Noted' /\ Calm'
  BY <1>5 DEF SInv, Left, SomethingLeft, Known, Early, Noted, Calm, Running, Restarting
<1>7. Undecided'
  BY <1>2 DEF SInv, Left, Undecided
<1>8. Promise'
  BY <1>4, <1>5 DEF SInv, Left, Promise, Running, NeverStarted
<1>9. Loaded'
  BY <1>3, <1>5 DEF SInv, Left, Loaded, Running
<1>10. QED BY <1>6, <1>7, <1>8, <1>9 DEF Left

LEMMA LeftAfterSend ==
    ASSUME SInv, NEW t \in Task, SendCommand(t) \/ SendFails(t) PROVE Left'
<1> USE TaskFacts
<1>1. /\ UNCHANGED <<active, radio, sync, queued, timer, pc, ack>>
      /\ UNCHANGED <<dataSet, synced, forever, unaware, overtaken>>
      /\ call[t] = "lock" /\ hciLock = None
      /\ call'[t] \in {"wait", "failed"}
      /\ \A u \in Task \ {t} : call'[u] = call[u]
  BY DEF SendCommand, SendFails, HciUnlocked, SInv, BInv, IInv, Shape, resetVars, ackVars, appVars,
         startVars, histVars
<1>2. gaveUp => gaveUp'
  BY DEF SendCommand, SendFails, GivesUp, appVars, histVars
<1>3. call'[t] = "failed" =>
         sync # "good" \/ gaveUp' \/ pc[t] \notin {"data", "params", "enable"}
  BY DEF SendCommand, SendFails, MaySend, GivesUp, SInv, BInv, IInv, Shape
<1>4. sync = "good" /\ ~ gaveUp' =>
         ~ gaveUp /\ \A u \in Task : Advances(u) => Advances(u)'
  BY <1>1, <1>2, <1>3 DEF Advances, SInv, BInv, IInv, Shape
<1>5. ~ Granted'
  BY <1>1 DEF SInv, BInv, IInv, Channel, Granted
<1>6. \A u \in Task : HasData(u)' => HasData(u)
  BY <1>1, <1>5 DEF HasData
<1>7. SomethingLeft' /\ Known' /\ Early' /\ Noted' /\ Calm'
  BY <1>1 DEF SInv, Left, SomethingLeft, Known, Early, Noted, Calm, Running, Restarting
<1>8. Undecided'
  BY <1>1, <1>2, <1>3 DEF SInv, Left, Undecided
<1>9. Promise'
  BY <1>1, <1>4 DEF SInv, Left, Promise, Running, NeverStarted
<1>10. Loaded'
  BY <1>1, <1>6 DEF SInv, Left, Loaded, Running
<1>11. QED BY <1>7, <1>8, <1>9, <1>10 DEF Left

\* A task goes on at another place.  When the setup task does, the host may be restarting.
LEMMA LeftAfterMove ==
    ASSUME SInv, NEW t \in Task, NEW place \in Place, Goto(t, place),
           t = Host => pc[t] \in Starting /\ place \in Starting \cup {"idle"},
           t = App => /\ pc[t] # "done" /\ place # "init"
                      /\ synced \/ place = "done" \/ pc[t] \in Starting \ {"start"}
                      /\ place \in Starting \ {"start"} => pc[t] \in Starting \ {"start"} \/ forever',
           forever => forever',
           Running => forever' = forever \/ active' \/ Advances(t)',
           UNCHANGED <<sync, queued, timer, hciLock, ack, refused, radio, synced, histVars>>,
           active' = active \/ pc[t] \in {"params", "enable"},
           dataSet' = dataSet \/ pc[t] = "data",
           Running /\ ~ queued /\ ~ gaveUp =>
               \/ active' \/ Advances(t)'
               \/ ~ active /\ pc[t] # "init" /\ ~ Advances(t),
           Running => (active' \/ dataSet' \/ HasData(t)' => active \/ dataSet \/ HasData(t))
    PROVE  Left'
<1> USE TaskFacts DEF Place, Starting
<1>1. /\ pc'[t] = place
      /\ \A u \in Task \ {t} : pc'[u] = pc[u] /\ call'[u] = call[u]
  BY GotoFacts DEF SInv, BInv, IInv
<1>2. UNCHANGED <<unaware, overtaken, gaveUp>>
  BY DEF histVars
<1>3. sync \in {"bad", "bringup", "good"} /\ (sync = "bringup" <=> pc[Host] \in {"reset", "setup"})
  BY DEF SInv, BInv, TInv, InStartup
<1>4. t = Host => sync = "good"
  BY <1>3 DEF SInv, Left, Known
<1>5. (Running' <=> Running) /\ (Restarting' <=> Restarting)
  BY <1>1, <1>4 DEF Running, Restarting
<1>6. SomethingLeft' /\ Known'
  BY <1>1, <1>2, <1>3, <1>4, <1>5 DEF SInv, Left, SomethingLeft, Known
<1>7. Early' /\ Noted'
  <2>1. CASE t = Host
    BY <1>1, <2>1 DEF SInv, Left, Early, Noted
  <2>2. CASE t = App
    BY <1>1, <2>2 DEF SInv, Left, Early, Noted
  <2>3. QED BY <2>1, <2>2
<1>8. Calm'
  <2>1. SUFFICES ASSUME Restarting, ~ unaware, ~ overtaken
                 PROVE  pc'[App] \in {"init", "start", "done"} /\ ~ active'
    BY <1>2, <1>5 DEF Calm
  <2>2. pc[App] \in {"init", "start", "done"} /\ ~ active /\ ~ synced
    BY <2>1 DEF SInv, Left, Calm, Known
  <2>3. t = App
    BY <2>1 DEF Restarting
  <2>4. QED BY <1>1, <2>2, <2>3
<1>9. Promise'
  <2>1. SUFFICES ASSUME Running, ~ unaware, ~ queued, ~ gaveUp
                 PROVE  active' \/ pc'[App] = "init" \/ NeverStarted' \/ \E u \in Task : Advances(u)'
    BY <1>2, <1>5 DEF Promise
  <2>2. active \/ pc[App] = "init" \/ NeverStarted \/ \E u \in Task : Advances(u)
    BY <2>1 DEF SInv, Left, Promise
  <2>3. \A u \in Task \ {t} : Advances(u) => Advances(u)'
    BY <1>1 DEF Advances
  <2>4. NeverStarted /\ forever' = forever => NeverStarted'
    BY <1>1 DEF NeverStarted
  <2>5. QED BY <1>1, <2>1, <2>2, <2>3, <2>4
<1>10. Loaded'
  <2>1. \A u \in Task \ {t} : HasData(u)' => HasData(u)
    BY <1>1 DEF HasData, Granted
  <2>2. QED BY <1>2, <1>5, <2>1 DEF SInv, Left, Loaded
<1>11. Undecided'
  <2>1. pc'[t] = "enable" => call'[t] = "lock"
    BY GotoFacts DEF SInv, BInv, IInv
  <2>2. QED BY <1>1, <1>2, <2>1 DEF SInv, Left, Undecided
<1>12. QED BY <1>6, <1>7, <1>8, <1>9, <1>10, <1>11 DEF Left

LEMMA LeftAfterTask == ASSUME SInv, ~ LateAcks, NEW t \in Task, TaskStep(t) PROVE Left'
<1> USE TaskFacts DEF Starting
<1>0. UNCHANGED appVars => UNCHANGED <<dataSet, synced, forever, histVars>>
  BY DEF appVars, startVars
<1>1. CASE SendCommand(t) \/ SendFails(t)
  BY <1>1, LeftAfterSend
<1>2. CASE Timeout(t)
  BY <1>2, LeftAfterCommand DEF Timeout, SchedReset, appVars, histVars
<1>3. CASE ProcessAck(t)
  <2>1. /\ call[t] = "wait" /\ ack # None
        /\ UNCHANGED <<sync, pc, timer, radio, active, startVars, unaware, overtaken>>
    BY <1>3 DEF ProcessAck
  <2>2. PICK result \in {"ok", "failed"} :
           /\ CommandEnds(t, result)
           /\ result = "ok" => ~ refused
           /\ result = "failed" => queued' \/ gaveUp' \/ pc[t] \notin {"data", "params", "enable"}
    BY <1>3 DEF ProcessAck, SchedReset, GivesUp
  <2>3. queued' = queued \/ queued'
    BY <1>3 DEF ProcessAck, SchedReset, resetVars
  <2>4. gaveUp => gaveUp'
    BY <1>3, Zenon DEF ProcessAck, GivesUp
  <2>5. pc[t] \in {"data", "params", "enable", "reset", "setup"}
    BY <2>1 DEF SInv, BInv, IInv, Shape
  <2>6. QED BY <2>1, <2>2, <2>3, <2>4, <2>5, LeftAfterCommand DEF Granted
<1>4. CASE StartAdvertising(t)
  <2>1. Running => synced
    BY DEF SInv, Left, Known
  <2>2. PICK place \in Place :
           /\ Goto(t, place)
           /\ place \in {"idle", "done", "data", "advertise"}
           /\ place = "idle" => t = Host
           /\ place = "done" => t = App
           /\ place = "advertise" => dataSet
           /\ place \in {"idle", "done"} <=> ~ synced \/ active
           /\ place \in {"idle", "done"} => forever' = forever
           /\ place \notin {"idle", "done"} => forever'
    BY <1>4 DEF StartAdvertising, Return, Place, Command
  <2>3. /\ pc[t] = "start" /\ pc'[t] = place
        /\ call'[t] = IF place \in Command THEN "lock" ELSE "none"
        /\ UNCHANGED <<sync, queued, timer, hciLock, ack, refused, radio, active, dataSet, synced, histVars>>
    BY <1>4, <2>2, GotoFacts DEF StartAdvertising, SInv, BInv, IInv, resetVars, lockVars, ackVars
  <2>4. hciLock # t
    BY <2>3 DEF SInv, BInv, IInv, Channel, Shape, Command
  <2>5. Running => active' \/ Advances(t)'
    BY <2>1, <2>2, <2>3 DEF Advances, Command
  <2>6. HasData(t)' => dataSet
    BY <2>2, <2>3, <2>4 DEF HasData, Command
  <2>7. forever => forever'
    BY <1>4, Zenon DEF StartAdvertising
  <2>8. Running => forever' = forever \/ active' \/ Advances(t)'
    BY <2>5, Zenon
  <2>9. place \in {"data", "advertise"} => synced /\ forever'
    BY <1>4, <2>2, <2>3 DEF StartAdvertising, Return
  <2>10. QED BY <2>2, <2>3, <2>5, <2>6, <2>7, <2>8, <2>9, LeftAfterMove
<1>5. CASE AfterData(t)
  <2>1. PICK place \in Place :
           /\ Goto(t, place)
           /\ place \in {"idle", "done", "advertise"}
           /\ place = "idle" => t = Host
           /\ place = "done" => t = App
           /\ place = "advertise" => call[t] = "ok"
           /\ place # "advertise" => call[t] = "failed" /\ dataSet' = dataSet
    BY <1>5 DEF AfterData, Return, Place, Command
  <2>2. /\ pc[t] = "data" /\ pc'[t] = place
        /\ call'[t] = IF place \in Command THEN "lock" ELSE "none"
        /\ UNCHANGED <<sync, queued, timer, hciLock, ack, refused, radio, active, synced, forever, histVars>>
    BY <1>5, <2>1, GotoFacts DEF AfterData, SInv, BInv, IInv, resetVars, lockVars, ackVars
  <2>3. /\ active' \/ Advances(t)' \/ (~ active /\ ~ Advances(t))
        /\ dataSet' \/ HasData(t)' => dataSet \/ HasData(t)
    BY <2>1, <2>2 DEF Advances, HasData, Command
  <2>4. QED BY <2>1, <2>2, <2>3, LeftAfterMove
<1>6. CASE AdvStart(t)
  <2>1. PICK place \in Place :
           /\ Goto(t, place)
           /\ place \in {"idle", "done", "params"}
           /\ place = "idle" => t = Host
           /\ place = "done" => t = App
           /\ place # "params" => active \/ sync # "good"
    BY <1>6 DEF AdvStart, Return, Place, Command
  <2>2. /\ pc[t] = "advertise" /\ pc'[t] = place
        /\ call'[t] = IF place \in Command THEN "lock" ELSE "none"
        /\ UNCHANGED <<sync, queued, timer, hciLock, ack, refused, radio, active, appVars>>
    BY <1>6, <2>1, GotoFacts DEF AdvStart, SInv, BInv, IInv, resetVars, ackVars
  <2>3. /\ Running => active' \/ Advances(t)'
        /\ HasData(t)
    BY <2>1, <2>2 DEF Advances, HasData, Running, Command
  <2>4. QED BY <1>0, <2>1, <2>2, <2>3, LeftAfterMove
<1>7. CASE AfterParams(t)
  <2>1. PICK place \in Place :
           /\ Goto(t, place)
           /\ place \in {"idle", "done", "enable"}
           /\ place = "idle" => t = Host
           /\ place = "done" => t = App
           /\ place = "enable" => active'
           /\ place # "enable" => call[t] = "failed" /\ active' = active
    BY <1>7 DEF AfterParams, Return, Place, Command
  <2>2. /\ pc[t] = "params" /\ pc'[t] = place
        /\ UNCHANGED <<sync, queued, timer, hciLock, ack, refused, radio, appVars>>
    BY <1>7, <2>1, GotoFacts DEF AfterParams, SInv, BInv, IInv, resetVars, ackVars
  <2>3. /\ active' \/ (~ active /\ ~ Advances(t))
        /\ HasData(t)
    BY <2>1, <2>2 DEF Advances, HasData
  <2>4. QED BY <1>0, <2>1, <2>2, <2>3, LeftAfterMove
<1>8. CASE AfterEnable(t)
  <2>1. PICK place \in {"idle", "done"} :
           /\ Goto(t, place)
           /\ place = "idle" => t = Host
           /\ place = "done" => t = App
    BY <1>8 DEF AfterEnable, Return
  <2>2. /\ pc[t] = "enable"
        /\ UNCHANGED <<sync, queued, timer, hciLock, ack, refused, radio, appVars>>
    BY <1>8 DEF AfterEnable, resetVars, ackVars
  <2>3. active /\ HasData(t)
    BY <2>2 DEF SInv, BInv, Belief, Enabling, HasData
  <2>4. Running /\ ~ queued /\ ~ gaveUp => active'
    BY <1>8, <2>2, <2>3 DEF AfterEnable, SInv, Left, Undecided, Running
  <2>5. place \in Place /\ UNCHANGED <<dataSet, synced, forever, histVars>>
    BY <1>0, <2>2 DEF Place
  <2>6. QED BY <2>1, <2>2, <2>3, <2>4, <2>5, LeftAfterMove
<1>9. QED BY <1>1, <1>2, <1>3, <1>4, <1>5, <1>6, <1>7, <1>8 DEF TaskStep

LEMMA LeftKept == ASSUME SInv, ~ LateAcks, [Next]_vars PROVE Left'
<1> USE TaskFacts
<1>1. ASSUME AppInit PROVE Left'
  <2>1. /\ pc[App] = "init" /\ synced /\ Goto(App, "start")
        /\ UNCHANGED <<sync, queued, timer, hciLock, ack, refused, radio, active>>
        /\ UNCHANGED <<dataSet, synced, forever, histVars>>
    BY <1>1 DEF AppInit, resetVars, lockVars, ackVars, appVars, startVars
  <2>2. pc'[App] = "start" /\ call'[App] = "none"
    BY <2>1, GotoFacts DEF SInv, BInv, IInv, Place, Command
  <2>3. Advances(App)' /\ ~ HasData(App)'
    BY <2>2 DEF Advances, HasData
  <2>4. QED BY <2>1, <2>3, LeftAfterMove DEF Place
<1>2. ASSUME OversizedEvent PROVE Left'
  BY <1>2, LeftStays DEF OversizedEvent, SchedReset, lockVars, ackVars
<1>3. ASSUME UNCHANGED vars PROVE Left'
  BY <1>3, LeftStays DEF vars, resetVars, lockVars, ackVars
<1>4. QED BY <1>1, <1>2, <1>3, LeftAfterController, LeftAfterHost, LeftAfterTask DEF Next

\* If the controller does not answer after the timeout, a host that is out of step has
\* a timer, and a signer that is not found has something under way; except after a
\* reset that onReset was not told of, a start() that the controller has refused or
\* that could not be sent, or a start() of setup that came when the host was not
\* synced, after which no onSync starts again (ble_hs_reset, ble_hs_timer_exp,
\* NimBLEDevice::onSync, NimBLEAdvertising::onHostSync).
THEOREM NotStrandedCorrect ==
    ASSUME ~ LateAcks PROVE Spec => [](SomethingLeft /\ NotStranded)
<1>1. TInv /\ IInv /\ Belief /\ Left /\ [Next]_vars => Belief' /\ Left'
  BY BeliefKept, LeftKept DEF BInv, SInv
<1>2. TInv /\ IInv /\ Belief /\ Left => SomethingLeft /\ NotStranded
  <2>1. SUFFICES ASSUME TInv, Belief, Left, Quiet, ~ unaware
                 PROVE  IF radio.on THEN radio.data \/ overtaken ELSE gaveUp \/ NeverStarted
    BY Zenon DEF NotStranded, Left
  <2>2. /\ pc[Host] = "idle" /\ pc[App] = "done" /\ sync = "good" /\ ~ queued
    BY <2>1 DEF Quiet
  <2>3. active = radio.on
    BY <2>1, <2>2, TaskFacts DEF Belief, Enabling
  <2>4. active => radio.data \/ overtaken
    BY <2>1, <2>2 DEF Left, Loaded, Running
  <2>5. ~ active => gaveUp \/ NeverStarted
    BY <2>1, <2>2, TaskFacts DEF Left, Promise, Advances, Running
  <2>6. QED BY <2>3, <2>4, <2>5
<1>3. Init => Belief /\ Left
  BY BeliefInitially, LeftInitially
<1>4. QED BY <1>1, <1>2, <1>3, TypesHold, Invariant, PTL DEF Spec
=============================================================================
