------------------------------ MODULE AclFlow ------------------------------
(***************************************************************************)
(* Flow control of the data that the controller passes to the host of      *)
(* NimBLE.  The host has a pool of buffers; the controller may fill as     *)
(* many as the host has reported free.  The host counts what it frees and  *)
(* reports it when the pool runs low, when a timer expires, or when a      *)
(* connection ends.                                                        *)
(*                                                                         *)
(* The task of the controller puts packets into ble_hs_rx_q and events     *)
(* into the queue of the host task, which handles one event at a time and  *)
(* empties ble_hs_rx_q when it gets to the event for it.                   *)
(***************************************************************************)
EXTENDS Totals, Sequences, SequencesExt

CONSTANTS Peer,          \* connection handles
          BufCount,      \* BLE_ACL_BUF_COUNT
          Threshold,     \* BLE_HS_FLOW_CTRL_THRESH
          MaxFragments,  \* bound: fragments of an L2CAP packet
          MaxOverlap,    \* bound: packets received after two links were up together
          None

ASSUME PeerAssumption == IsFiniteSet(Peer) /\ None \notin Peer
ASSUME BoundAssumption == /\ {BufCount, Threshold, MaxOverlap} \subseteq Nat
                          /\ Threshold < BufCount
                          /\ MaxFragments \in Nat \ {0}

VARIABLES up,         \* links the controller has
          credit,     \* buffers that the controller may fill
          unreported, \* buffers of each link that the controller has filled
          evq,        \* the event queue of the host task
          rxq,        \* ble_hs_rx_q
          receiving,  \* the host task is emptying ble_hs_rx_q
          conns,      \* connections the host has
          held,       \* buffers in the packet that each connection reassembles
          fragments,  \* how many fragments it has; 0 when there is none
          completed,  \* bhc_completed_pkts of each connection
          num,        \* ble_hs_flow_num_completed_pkts
          timer,      \* ble_hs_flow_timer is running
          resetDue,   \* the host has decided to reset itself
          leftover,   \* history: the part of num that was reported already
          dropped,    \* history: packets of each link that were neither received nor counted
          unsent,     \* history: buffers of each link that were counted, in a report that failed
          overlap     \* history: 0 as long as no two links were known together, and since
                      \* then one more than the packets received

linkVars == <<up, credit, unreported, unsent>>
queueVars == <<evq, rxq, receiving>>
l2capVars == <<held, fragments>>
flowVars == <<completed, num, timer, resetDue, leftover>>
vars == <<linkVars, queueVars, conns, l2capVars, flowVars, dropped, overlap>>

Packet == [peer : Peer, last : BOOLEAN, first : BOOLEAN]
Event == [kind : {"data", "flow", "timer"}, peer : {None}]
         \cup [kind : {"connected", "disconnected"}, peer : Peer]

Zero == [p \in Peer |-> 0]

\* Mutant: an event can be in the queue twice.
PutAgain(kind) == Append(evq, [kind |-> kind, peer |-> None])

\* ble_npl_eventq_put: an event that is in the queue is not put there again.
Put(kind) == IF \E e \in ToSet(evq) : e.kind = kind THEN evq
             ELSE Append(evq, [kind |-> kind, peer |-> None])

\* The host task takes its next event.
Running == ~ resetDue
Takes(kinds) == /\ Running /\ ~ receiving
                /\ evq # <<>> /\ Head(evq).kind \in kinds
                /\ evq' = Tail(evq)

TypeOK == /\ up \subseteq Peer /\ conns \subseteq Peer
          /\ credit \in 0 .. BufCount
          /\ {unreported, held, completed, dropped, unsent} \subseteq [Peer -> 0 .. BufCount]
          /\ fragments \in [Peer -> 0 .. MaxFragments]
          /\ evq \in Seq(Event) /\ IsInjective(evq)
          /\ rxq \in Seq(Packet)
          /\ overlap \in 0 .. MaxOverlap + 1
          /\ num \in Nat /\ leftover \in 0 .. num
          /\ {receiving, timer, resetDue} \subseteq BOOLEAN
          /\ \A p \in Peer : held[p] <= fragments[p] /\ (fragments[p] > 0 => held[p] > 0)

Init == /\ up = {} /\ credit = BufCount /\ unreported = Zero
        /\ evq = <<>> /\ rxq = <<>> /\ receiving = FALSE
        /\ conns = {} /\ held = Zero /\ fragments = Zero
        /\ completed = Zero /\ num = 0 /\ timer = FALSE
        /\ resetDue = FALSE /\ leftover = 0 /\ overlap = 0
        /\ dropped = Zero /\ unsent = Zero
-----------------------------------------------------------------------------
(***************************************************************************)
(* The controller.  It takes the buffers of a link that has ended as free. *)
(***************************************************************************)
Known(p) == p \in conns \/ \E e \in ToSet(evq) : e.peer = p

LinkStarts(p) == /\ Running /\ p \notin up /\ ~ Known(p)
                 /\ overlap' = IF overlap = 0 /\ \E q \in Peer : q \in up \/ Known(q)
                               THEN 1 ELSE overlap
                 /\ up' = up \cup {p}
                 /\ evq' = Append(evq, [kind |-> "connected", peer |-> p])
                 /\ UNCHANGED <<credit, unreported, unsent, rxq, receiving, conns, l2capVars, flowVars, dropped>>

LinkEnds(p) == /\ Running /\ p \in up
               /\ up' = up \ {p}
               /\ credit' = credit + unreported[p]
               /\ unreported' = [unreported EXCEPT ![p] = 0]
               /\ dropped' = [dropped EXCEPT ![p] = 0]
               /\ unsent' = [unsent EXCEPT ![p] = 0]
               /\ evq' = Append(evq, [kind |-> "disconnected", peer |-> p])
               /\ UNCHANGED <<rxq, receiving, conns, l2capVars, flowVars, overlap>>

Used == Len(rxq) + Total(held)

\* ble_hci_rx_acl, ble_hs_rx_data: without a buffer the packet is lost.
Receive(pkt) == /\ Running /\ pkt.peer \in up
                /\ credit > 0
                /\ overlap <= MaxOverlap
                /\ overlap' = IF overlap = 0 THEN 0 ELSE overlap + 1
                /\ credit' = credit - 1
                /\ unreported' = [unreported EXCEPT ![pkt.peer] = @ + 1]
                /\ IF Used < BufCount
                   THEN /\ rxq' = Append(rxq, pkt)
                        /\ evq' = Put("data")
                        /\ UNCHANGED dropped
                   ELSE /\ dropped' = [dropped EXCEPT ![pkt.peer] = @ + 1]
                        /\ UNCHANGED <<rxq, evq>>
                /\ UNCHANGED <<up, unsent, receiving, conns, l2capVars, flowVars>>
-----------------------------------------------------------------------------
(***************************************************************************)
(* Freed buffers.                                                          *)
(***************************************************************************)

\* "If the number of free buffers is at or below the configured threshold"
RunsLow(n) == BufCount - n <= Threshold

\* Mutant: the timer is started with the second buffer.
SecondFreed(n) == n = 2

FirstFreed(n) == n = 1

\* ble_hs_flow_acl_free, ble_hs_flow_inc_completed_pkts, for n buffers in a row.
Free(p, n) ==
    LET counts == {num + k : k \in 1 .. n}
        low == \E c \in counts : c <= BufCount /\ RunsLow(c)
    IN /\ completed' = [completed EXCEPT ![p] = @ + n]
       /\ num' = num + n
       /\ resetDue' = (resetDue \/ num' > BufCount)
       /\ evq' = IF low THEN Put("flow") ELSE evq
       /\ timer' = IF low THEN FALSE ELSE timer \/ \E c \in counts : FirstFreed(c)
       /\ UNCHANGED leftover

\* Mutant: what was reported is reported again.
NotCleared(S) == completed

Cleared(S) == [p \in Peer |-> IF p \in S THEN 0 ELSE completed[p]]

\* The controller gets the counts of the connections in sent, and ignores those whose
\* link has ended; the counts of the connections in lost are cleared and not sent, and
\* those of the connections in gone end with them.
Reports(sent, lost, gone) ==
    /\ credit' = credit + Total([p \in up \cap sent |-> completed[p]])
    /\ unreported' = [p \in Peer |-> unreported[p] - IF p \in up \cap sent THEN completed[p] ELSE 0]
    /\ unsent' = [p \in Peer |-> unsent[p] + IF p \in up \cap lost THEN completed[p] ELSE 0]
    /\ completed' = Cleared(sent \cup lost \cup gone)

\* ble_hs_flow_tx_num_comp_pkts: a command for each connection in turn.  The count is
\* cleared before the command is sent, and the first failure ends the report.
Report(gone) == Reports(Peer, {}, gone)

ReportFails(gone) == \E p \in Peer : \E sent \in SUBSET (Peer \ {p}) :
                        completed[p] > 0 /\ Reports(sent, {p}, gone)

\* Mutant: the counter goes on.
NumAsItIs == num

NumAfterReport == 0

\* ble_hs_flow_event_cb, for the event and for the timer.
FlowEvent == /\ Takes({"flow", "timer"})
             /\ \/ /\ num = 0
                   /\ UNCHANGED <<credit, unreported, unsent, completed, resetDue>>
                \/ /\ num > 0
                   /\ Report({})
                   /\ UNCHANGED resetDue
                \/ /\ num > 0
                   /\ ReportFails({})
                   /\ resetDue' = TRUE
             /\ num' = NumAfterReport
             /\ leftover' = 0
             /\ UNCHANGED <<up, rxq, receiving, conns, l2capVars, timer, dropped, overlap>>

\* os_callout_timer_cb
TimerExpires == /\ Running /\ timer
                /\ timer' = FALSE
                /\ evq' = Put("timer")
                /\ UNCHANGED <<linkVars, rxq, receiving, conns, l2capVars, completed, num, resetDue,
                               leftover, dropped, overlap>>
-----------------------------------------------------------------------------
(***************************************************************************)
(* ble_hs_process_rx_data_queue                                            *)
(***************************************************************************)
DataEvent == /\ Takes({"data"})
             /\ receiving' = TRUE
             /\ UNCHANGED <<linkVars, rxq, conns, l2capVars, flowVars, dropped, overlap>>

QueueEmpty == /\ Running /\ receiving
              /\ rxq = <<>>
              /\ receiving' = FALSE
              /\ UNCHANGED <<linkVars, evq, rxq, conns, l2capVars, flowVars, dropped, overlap>>

Take == /\ Running /\ receiving /\ rxq # <<>>
        /\ rxq' = Tail(rxq)
        /\ UNCHANGED <<linkVars, receiving, conns, overlap>>

\* "Peer not connected; quietly discard packet" (ble_hs_hci_evt_acl_process)
DiscardUnconnected ==
    /\ Take
    /\ LET p == Head(rxq).peer
       IN /\ p \notin conns
          /\ dropped' = IF p \in up THEN [dropped EXCEPT ![p] = @ + 1] ELSE dropped
    /\ UNCHANGED <<evq, l2capVars, flowVars>>

\* The state of the reassembly and the buffers that are freed.
Reassembly(p, h, f, freed) == /\ held' = [held EXCEPT ![p] = h]
                              /\ fragments' = [fragments EXCEPT ![p] = f]
                              /\ Free(p, freed)

\* ble_l2cap_rx: a packet that was never completed is discarded, unless the new one
\* has a bad header or is for a channel that does not exist.
FirstFragment ==
    /\ Take
    /\ LET pkt == Head(rxq) p == pkt.peer
       IN /\ p \in conns /\ pkt.first
          /\ \/ Reassembly(p, held[p], fragments[p], 1)
             \/ pkt.last /\ Reassembly(p, 0, 0, held[p] + 1)
             \/ ~ pkt.last /\ Reassembly(p, 1, 1, held[p])
    /\ UNCHANGED dropped

\* Mutant: the buffers of the packet stay with the connection when it is complete.
NotRemoved(h, last) == IF last THEN 1 ELSE h + 1

\* ble_l2cap_remove_rx when all fragments have been received.
BuffersFreed(h, last) == IF last THEN h + 1 ELSE 0

\* ble_l2cap_append_rx: the buffer is kept, or freed when its data fit into others.
\* A fragment too many discards the packet.
NextFragment ==
    /\ Take
    /\ LET pkt == Head(rxq) p == pkt.peer
       IN /\ p \in conns /\ ~ pkt.first
          /\ \/ /\ fragments[p] = 0
                /\ Reassembly(p, 0, 0, 1)
             \/ /\ fragments[p] > 0
                /\ LET ends == pkt.last \/ fragments[p] = MaxFragments
                   IN Reassembly(p, IF ends THEN 0 ELSE held[p] + 1,
                                 IF ends THEN 0 ELSE fragments[p] + 1,
                                 BuffersFreed(held[p], ends))
             \/ /\ fragments[p] > 0 /\ ~ pkt.last /\ fragments[p] < MaxFragments
                /\ Reassembly(p, held[p], fragments[p] + 1, 1)
    /\ UNCHANGED dropped
-----------------------------------------------------------------------------
(***************************************************************************)
(* Events of the links.                                                    *)
(***************************************************************************)
Connected == /\ Takes({"connected"})
             /\ conns' = conns \cup {Head(evq).peer}
             /\ UNCHANGED <<linkVars, rxq, receiving, l2capVars, flowVars, dropped, overlap>>

\* ble_gap_conn_broken: ble_hs_flow_connection_broken reports for every connection,
\* leaves num as it is and does not care whether the report fails; the buffers of the
\* reassembly are freed when the connection cannot be found any more.
Disconnected == /\ Takes({"disconnected"})
                /\ LET gone == {Head(evq).peer} IN Report(gone) \/ ReportFails(gone)
                /\ leftover' = num - Total(completed')
                /\ conns' = conns \ {Head(evq).peer}
                /\ held' = [held EXCEPT ![Head(evq).peer] = 0]
                /\ fragments' = [fragments EXCEPT ![Head(evq).peer] = 0]
                /\ UNCHANGED <<up, rxq, receiving, num, timer, resetDue, dropped, overlap>>
-----------------------------------------------------------------------------
HostEvent == FlowEvent \/ DataEvent \/ Connected \/ Disconnected
HostLoop == QueueEmpty \/ DiscardUnconnected \/ FirstFragment \/ NextFragment

\* A reset ends it; what follows is the subject of HciHost.
Next == \/ \E p \in Peer : LinkStarts(p) \/ LinkEnds(p)
        \/ \E pkt \in Packet : Receive(pkt)
        \/ TimerExpires
        \/ HostEvent
        \/ HostLoop

Spec == Init /\ [][Next]_vars

\* Both tasks and the timer go on.
Fairness == WF_vars(HostEvent) /\ WF_vars(HostLoop) /\ WF_vars(TimerExpires)

FairSpec == Spec /\ Fairness
-----------------------------------------------------------------------------
(***************************************************************************)
(* Properties.                                                             *)
(***************************************************************************)
InQueue(p) == Cardinality({i \in DOMAIN rxq : rxq[i].peer = p})

\* Every buffer the controller has filled for a link is queued, or held, or counted
\* and about to be reported; none is lost to it, or reported twice.  Where a report
\* failed the host resets itself; only that at the end of another link may fail
\* unnoticed (ble_hs_flow_connection_broken).
CreditsAreKept ==
    \A p \in up :
        /\ unreported[p] = InQueue(p) + held[p] + completed[p] + dropped[p] + unsent[p]
        /\ unsent[p] > 0 => resetDue \/ overlap > 0

\* With one link at a time, a controller that keeps to its credit always finds a
\* buffer and a connection ("failed to allocate ACL buffers; increase
\* ACL_BUF_COUNT", ble_hci_rx_acl).
NothingIsDropped == overlap = 0 => dropped = Zero

\* "The number of freed buffers since the most-recent number-of-completed-packets
\* event was sent" (ble_hs_flow_num_completed_pkts) counts besides these only what
\* was reported at the end of a connection, and only with that, or with the buffers
\* of two links, can it grow so far that the host resets itself.  It is 0 also when
\* the host resets itself as it could not report.
CountIsExplained == /\ num = Total(completed) + leftover \/ (resetDue /\ num = 0 /\ leftover = 0)
                    /\ resetDue => num = 0 \/ leftover > 0 \/ overlap > 0

\* A buffer that was freed is reported, or its report fails, although no other one
\* follows and the connection stays ("Periodically sends number-of-completed-packets events").
FreedIsReported == \A p \in Peer : completed[p] > 0 ~> (completed[p] = 0 \/ resetDue)
=============================================================================
