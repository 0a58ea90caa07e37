------------------------------ MODULE HciHost ------------------------------
(***************************************************************************)
(* How the host of NimBLE keeps in step with the controller: commands that *)
(* are acknowledged or time out, the reset that every failure schedules,   *)
(* the startup sequence, its retries, and the advertising that             *)
(* NimBLEDevice::onSync restarts.                                          *)
(*                                                                         *)
(* Two tasks send commands: the host task, which is the parent task of the *)
(* host, and the setup task of the firmware, which starts to advertise     *)
(* once.  They share the mutex of the commands, the lock of the host, and  *)
(* flags that no lock protects.  The controller executes commands in their *)
(* order; it may fail to answer, or refuse one.                            *)
(***************************************************************************)
EXTENDS Naturals, Sequences

CONSTANTS MaxFaults,  \* bound: how often something goes wrong
          LateAcks,   \* whether the controller may answer after BLE_HCI_CMD_TIMEOUT_MS
          None

ASSUME FaultAssumption == MaxFaults \in Nat /\ LateAcks \in BOOLEAN

Host == "host"
App == "app"
Task == {Host, App}

Startup == {"reset", "setup"}
Advertising == {"data", "params", "enable"}
Command == Startup \cup Advertising

VARIABLES sync,      \* ble_hs_sync_state
          reason,    \* whether ble_hs_reset_reason is not 0
          queued,    \* ble_hs_ev_reset is in the queue of the host task
          timer,     \* ble_hs_timer is running
          hsLock,    \* the task that holds ble_hs_mutex for longer than a step
          hciLock,   \* the task that holds ble_hs_hci_mutex
          pc,        \* where each task is; a command is named by its place
          call,      \* how far its command is
          sem,       \* ble_hs_hci_sem
          ack,       \* ble_hs_hci_ack
          refused,   \* whether its status is an error
          inflight,  \* the commands the controller has still to answer
          radio,     \* what the controller advertises
          active,    \* ble_gap_slave[0].op, what the host believes of it
          dataSet,   \* NimBLEAdvertising::m_advDataSet
          synced,    \* NimBLEDevice::m_synced
          forever,   \* NimBLEAdvertising::m_duration = 0: a start() has come past its checks
          unaware,   \* history: the last reset came without a call of onReset
          overtaken, \* history: the last reset came in the middle of the start() of setup
          gaveUp,    \* history: since then a start() has ended without its command or for a refusal
          faults

lockVars == <<hsLock, hciLock>>
ackVars == <<sem, ack, refused, inflight>>
histVars == <<unaware, overtaken, gaveUp>>
startVars == <<dataSet, synced, forever>>
appVars == <<startVars, histVars>>
resetVars == <<reason, queued>>
vars == <<sync, resetVars, timer, lockVars, pc, call, ackVars, radio, active, appVars, faults>>

Sent == [op : Command, current : BOOLEAN]

ASSUME NoneAssumption == None \notin Task /\ None \notin Sent

TypeOK == /\ sync \in {"bad", "bringup", "good"}
          /\ {reason, queued, timer, dataSet, synced, forever} \subseteq BOOLEAN
          /\ {refused, unaware, overtaken, gaveUp} \subseteq BOOLEAN
          /\ {hsLock, hciLock} \subseteq Task \cup {None}
          /\ pc[Host] \in Command \cup {"idle", "clear", "forget", "onSync", "start", "advertise"}
          /\ pc[App] \in Command \cup {"init", "start", "advertise", "done"}
          /\ call \in [Task -> {"none", "lock", "wait", "ok", "failed"}]
          /\ sem \in {0, 1} /\ ack \in Sent \cup {None}
          /\ inflight \in Seq(Sent) /\ Len(inflight) <= MaxFaults + 1
          /\ radio \in [on : BOOLEAN, data : BOOLEAN]
          /\ faults \in 0 .. MaxFaults
          /\ \A t \in Task : call[t] # "none" => pc[t] \in Command
          /\ sync = "bringup" <=> pc[Host] \in {"reset", "setup"}

Silent == [on |-> FALSE, data |-> FALSE]

\* ble_hs_start has just called ble_hs_sync; the setup task waits in NimBLEDevice::init.
Init == /\ sync = "bringup"
        /\ reason = FALSE /\ queued = FALSE /\ timer = FALSE
        /\ hsLock = None /\ hciLock = None
        /\ pc = [t \in Task |-> IF t = Host THEN "reset" ELSE "init"]
        /\ call = [t \in Task |-> IF t = Host THEN "lock" ELSE "none"]
        /\ sem = 0 /\ ack = None /\ refused = FALSE /\ inflight = <<>>
        /\ radio = Silent
        /\ active = FALSE /\ dataSet = FALSE /\ synced = FALSE /\ forever = FALSE
        /\ unaware = FALSE /\ overtaken = FALSE /\ gaveUp = FALSE
        /\ faults = 0

Fault == faults < MaxFaults /\ faults' = faults + 1

\* ble_hs_sched_reset: an event that is in the queue is not put there again.
SchedReset(r) == reason' = r /\ queued' = TRUE

\* The task goes on at another place, and with a command if that is the place's name.
Goto(t, place) == /\ pc' = [pc EXCEPT ![t] = place]
                  /\ call' = [call EXCEPT ![t] = IF place \in Command THEN "lock" ELSE "none"]

Return(t) == Goto(t, IF t = Host THEN "idle" ELSE "done")
-----------------------------------------------------------------------------
(***************************************************************************)
(* ble_hs_hci_cmd_tx                                                       *)
(***************************************************************************)

\* Mutant: a task that is not the parent task is not kept away from the startup.
EveryoneMaySend(t) == sync # "bad"

\* "No other tasks are allowed to send any commands" during the bringup
\* (ble_hs_hci_cmd_send_buf).
MaySend(t) == sync = "good" \/ (sync = "bringup" /\ t = Host)

\* Mutant: commands are sent without the mutex.
NoMutex == TRUE

HciUnlocked == hciLock = None

\* A start() ends without a reset, which would have led to another one.
GivesUp(t) == gaveUp' = (gaveUp \/ pc[t] \in Advertising)

SendCommand(t) ==
    /\ call[t] = "lock"
    /\ HciUnlocked
    /\ MaySend(t)
    /\ hciLock' = t
    /\ call' = [call EXCEPT ![t] = "wait"]
    /\ inflight' = Append(inflight, [op |-> pc[t], current |-> TRUE])
    /\ UNCHANGED <<sync, resetVars, timer, hsLock, pc, sem, ack, refused, radio, active, appVars,
                   faults>>

\* The host is not synced; or the transport does not take the command in time, for
\* which no reset is scheduled.
SendFails(t) ==
    /\ call[t] = "lock"
    /\ HciUnlocked
    /\ call' = [call EXCEPT ![t] = "failed"]
    /\ \/ ~ MaySend(t) /\ UNCHANGED <<gaveUp, faults>>
       \/ MaySend(t) /\ Fault /\ GivesUp(t)
    /\ UNCHANGED <<sync, resetVars, timer, lockVars, pc, ackVars, radio, active, startVars,
                   unaware, overtaken>>

\* The task gives its command up or is done with it.
CommandEnds(t, result) ==
    /\ call' = [call EXCEPT ![t] = result]
    /\ hciLock' = None
    /\ ack' = None
    /\ refused' = FALSE
    /\ inflight' = [i \in DOMAIN inflight |-> [inflight[i] EXCEPT !.current = FALSE]]

\* ble_hs_hci_wait_for_ack
Timeout(t) ==
    /\ call[t] = "wait"
    /\ sem = 0
    /\ IF inflight = <<>> THEN UNCHANGED faults ELSE LateAcks /\ Fault
    /\ CommandEnds(t, "failed")
    /\ SchedReset(TRUE)
    /\ UNCHANGED <<sync, timer, hsLock, pc, sem, radio, active, appVars>>

\* ble_hs_hci_process_ack.  A response that is too short costs a reset whose
\* reason is the status, which is 0.  No reset is scheduled if the controller has
\* refused the command, as it is for an answer that is malformed or belongs to
\* another command.
ProcessAck(t) ==
    /\ call[t] = "wait"
    /\ sem = 1 /\ ack # None
    /\ sem' = 0
    /\ \/ /\ ack.op = pc[t] /\ ~ refused
          /\ CommandEnds(t, "ok")
          /\ UNCHANGED <<resetVars, gaveUp, faults>>
       \/ /\ ack.op = pc[t] /\ pc[t] = "setup" /\ ~ refused
          /\ Fault
          /\ CommandEnds(t, "ok")
          /\ SchedReset(FALSE)
          /\ UNCHANGED gaveUp
       \/ /\ ack.op = pc[t] /\ refused
          /\ CommandEnds(t, "failed")
          /\ GivesUp(t)
          /\ UNCHANGED <<resetVars, faults>>
       \/ /\ IF ack.op = pc[t] THEN Fault ELSE UNCHANGED faults
          /\ CommandEnds(t, "failed")
          /\ SchedReset(TRUE)
          /\ UNCHANGED gaveUp
    /\ UNCHANGED <<sync, timer, hsLock, pc, radio, active, startVars, unaware, overtaken>>
-----------------------------------------------------------------------------
(***************************************************************************)
(* The controller and the transport.                                       *)
(***************************************************************************)
Executed(op) == CASE op = "reset" -> Silent
                  [] op = "data" -> [radio EXCEPT !.data = TRUE]
                  [] op = "enable" -> [radio EXCEPT !.on = TRUE]
                  [] OTHER -> radio

\* ble_hs_hci_rx_ack: "This ack is unexpected; ignore it" when there is one already.
Answered(isRefused) ==
    /\ inflight # <<>>
    /\ inflight' = Tail(inflight)
    /\ IF sem = 0 THEN sem' = 1 /\ ack' = Head(inflight) /\ refused' = isRefused
                  ELSE UNCHANGED <<sem, ack, refused>>
    /\ UNCHANGED <<sync, resetVars, timer, lockVars, pc, call, active, appVars>>

Answer == Answered(FALSE) /\ radio' = Executed(Head(inflight).op) /\ UNCHANGED faults

\* The command is answered with an error, and not executed.
Refuse == Answered(TRUE) /\ Fault /\ UNCHANGED radio

\* The command or its answer is lost.
Lose ==
    /\ inflight # <<>>
    /\ Fault
    /\ radio' \in {radio, Executed(Head(inflight).op)}
    /\ inflight' = Tail(inflight)
    /\ UNCHANGED <<sync, resetVars, timer, lockVars, pc, call, sem, ack, refused, active, appVars>>

\* host_rcv_pkt, in the task of the controller: an event that no buffer can hold.
OversizedEvent ==
    /\ Fault
    /\ SchedReset(TRUE)
    /\ UNCHANGED <<sync, timer, lockVars, pc, call, ackVars, radio, active, appVars>>
-----------------------------------------------------------------------------
(***************************************************************************)
(* ble_hs_reset and ble_hs_sync.                                           *)
(***************************************************************************)
BeginReset == sync' = "bad" /\ Goto(Host, "clear")

ResetEvent == /\ pc[Host] = "idle"
              /\ queued
              /\ queued' = FALSE
              /\ BeginReset
              /\ UNCHANGED <<reason, timer, lockVars, ackVars, radio, active, appVars, faults>>

\* Mutant: a failed startup is not tried again.
NoRetry == UNCHANGED <<sync, pc, call>>

\* ble_hs_timer_exp: in the state "bad" the host is reset.
Retry == IF sync = "bad" THEN BeginReset ELSE UNCHANGED <<sync, pc, call>>

TimerExp == /\ pc[Host] = "idle"
            /\ timer
            /\ timer' = FALSE
            /\ Retry
            /\ UNCHANGED <<resetVars, lockVars, ackVars, radio, active, appVars, faults>>

\* Mutant: the host goes on to believe that it advertises.
ActiveAsItIs == active

\* ble_gap_reset_state reports the end of the advertising.
ActiveAfterReset == FALSE

\* ble_gap_reset_state, and NimBLEDevice::onReset as the reset_cb and by the event
\* that the advertising is over; neither is called for the reason 0.
ClearState == /\ pc[Host] = "clear"
              /\ hsLock = None
              /\ active' = ActiveAfterReset
              /\ synced' = (synced /\ ~ reason)
              /\ unaware' = synced'
              /\ gaveUp' = FALSE
              /\ overtaken' = (pc[App] \in {"data", "advertise"})
              /\ Goto(Host, "forget")
              /\ UNCHANGED <<sync, resetVars, timer, lockVars, ackVars, radio, dataSet, forever, faults>>

\* ble_hs_reset_reason = 0, whatever was scheduled in the meantime.
ForgetReason == /\ pc[Host] = "forget"
                /\ reason' = FALSE
                /\ sync' = "bringup"
                /\ Goto(Host, "reset")
                /\ UNCHANGED <<queued, timer, lockVars, ackVars, radio, active, appVars, faults>>

\* ble_hs_startup_go: HCI Reset, and then the commands that set the controller up.
AfterReset == /\ pc[Host] = "reset"
              /\ call[Host] = "ok"
              /\ Goto(Host, "setup")
              /\ UNCHANGED <<sync, resetVars, timer, lockVars, ackVars, radio, active, appVars, faults>>

Synchronized == /\ pc[Host] = "setup"
                /\ call[Host] = "ok"
                /\ sync' = "good"
                /\ timer' = TRUE
                /\ Goto(Host, "onSync")
                /\ UNCHANGED <<resetVars, lockVars, ackVars, radio, active, appVars, faults>>

\* Mutant: a failed startup does not end the bringup.
StillBringup == "bringup"

SyncAfterFailure == "bad"

StartupFails == /\ pc[Host] \in {"reset", "setup"}
                /\ call[Host] = "failed"
                /\ sync' = SyncAfterFailure
                /\ timer' = TRUE
                /\ Goto(Host, "idle")
                /\ UNCHANGED <<resetVars, lockVars, ackVars, radio, active, appVars, faults>>
-----------------------------------------------------------------------------
(***************************************************************************)
(* NimBLEDevice and NimBLEAdvertising.                                     *)
(***************************************************************************)

\* NimBLEDevice::onSync, which has nothing to restart before init has ended, and
\* NimBLEAdvertising::onHostSync: "prevent auto start if host reset before started by
\* app" (NimBLEAdvertising::NimBLEAdvertising).
OnSync == /\ pc[Host] = "onSync"
          /\ IF synced \/ pc[App] = "init"
             THEN Goto(Host, "idle") /\ UNCHANGED dataSet
             ELSE Goto(Host, IF forever THEN "start" ELSE "idle") /\ dataSet' = FALSE
          /\ synced' = TRUE
          /\ UNCHANGED <<sync, resetVars, timer, lockVars, ackVars, radio, active, forever, histVars, faults>>

\* NimBLEDevice::init waits until the host is synced.
AppInit == /\ pc[App] = "init"
           /\ synced
           /\ Goto(App, "start")
           /\ UNCHANGED <<sync, resetVars, timer, lockVars, ackVars, radio, active, appVars, faults>>

\* NimBLEAdvertising::start, which notes the duration once it is past its checks.
StartAdvertising(t) ==
    /\ pc[t] = "start"
    /\ IF ~ synced \/ active
       THEN Return(t) /\ UNCHANGED forever
       ELSE Goto(t, IF dataSet THEN "advertise" ELSE "data") /\ forever' = TRUE
    /\ UNCHANGED <<sync, resetVars, timer, lockVars, ackVars, radio, active, dataSet, synced,
                   histVars, faults>>

AfterData(t) ==
    /\ pc[t] = "data"
    /\ \/ call[t] = "ok" /\ dataSet' = TRUE /\ Goto(t, "advertise")
       \/ call[t] = "failed" /\ UNCHANGED dataSet /\ Return(t)
    /\ UNCHANGED <<sync, resetVars, timer, lockVars, ackVars, radio, active, synced, forever,
                   histVars, faults>>

\* ble_gap_adv_start keeps the lock during its commands.  The address it needs is
\* unknown until the host is synced.
AdvStart(t) ==
    /\ pc[t] = "advertise"
    /\ hsLock = None
    /\ \/ ~ active /\ hsLock' = t /\ Goto(t, "params")
       \/ (active \/ sync # "good") /\ UNCHANGED hsLock /\ Return(t)
    /\ UNCHANGED <<sync, resetVars, timer, hciLock, ackVars, radio, active, appVars, faults>>

AfterParams(t) ==
    /\ pc[t] = "params"
    /\ \/ call[t] = "ok" /\ active' = TRUE /\ UNCHANGED hsLock /\ Goto(t, "enable")
       \/ call[t] = "failed" /\ hsLock' = None /\ UNCHANGED active /\ Return(t)
    /\ UNCHANGED <<sync, resetVars, timer, hciLock, ackVars, radio, appVars, faults>>

AfterEnable(t) ==
    /\ pc[t] = "enable"
    /\ \/ call[t] = "ok" /\ UNCHANGED active
       \/ call[t] = "failed" /\ active' = FALSE
    /\ hsLock' = None
    /\ Return(t)
    /\ UNCHANGED <<sync, resetVars, timer, hciLock, ackVars, radio, appVars, faults>>
-----------------------------------------------------------------------------
TaskStep(t) == \/ SendCommand(t) \/ SendFails(t) \/ Timeout(t) \/ ProcessAck(t)
               \/ StartAdvertising(t) \/ AfterData(t) \/ AdvStart(t)
               \/ AfterParams(t) \/ AfterEnable(t)

HostStep == \/ ResetEvent \/ TimerExp \/ ClearState \/ ForgetReason
            \/ AfterReset \/ Synchronized \/ StartupFails \/ OnSync

Next == \/ \E t \in Task : TaskStep(t)
        \/ HostStep \/ AppInit
        \/ Answer \/ Refuse \/ Lose \/ OversizedEvent

Spec == Init /\ [][Next]_vars

\* The tasks are scheduled, their locks are handed on, timers expire, and the
\* controller answers what is not lost.
Fairness == /\ \A t \in Task : SF_vars(TaskStep(t))
            /\ SF_vars(HostStep) /\ WF_vars(AppInit) /\ WF_vars(Answer)

FairSpec == Spec /\ Fairness
-----------------------------------------------------------------------------
(***************************************************************************)
(* Properties.                                                             *)
(***************************************************************************)

\* An acknowledgement that a task waits for, or finds, is the one of its own
\* command ("This ack is unexpected; ignore it", ble_hs_hci_rx_ack).
OwnAck == \A t \in Task : call[t] = "wait" /\ ack # None => ack.current /\ ack.op = pc[t]

\* When the startup is over the controller is as HCI Reset has left it, though the
\* setup task may have had a command under way when the host was reset.
CleanBringup == [][Synchronized => radio = Silent /\ ~ active]_vars

\* When nothing is under way, the host advertises if and only if it believes it
\* does (ble_gap_adv_active); otherwise start() refuses to put it right.
Quiet == /\ pc[Host] = "idle" /\ pc[App] = "done"
         /\ sync = "good" /\ ~ queued
BeliefHolds == Quiet => active = radio.on

\* The start() of setup was refused for want of a synced host, and nobody calls it again.
NeverStarted == pc[App] = "done" /\ ~ forever

\* "If we were advertising forever, restart it now" (NimBLEAdvertising::onHostSync):
\* whatever fails, as long as it does not go on failing, the signer is found in the
\* end; unless the last reset was not announced, or it was start() that failed where
\* no reset follows.  It is found with its data unless the last reset came between
\* the data and the enabling.
FoundAgain ==
    <>[](unaware \/ IF radio.on THEN radio.data \/ overtaken ELSE gaveUp \/ NeverStarted)
=============================================================================
