---------------------------- MODULE QueuedWrites ----------------------------
(***************************************************************************)
(* Queued writes of the ATT server of NimBLE: a message longer than a      *)
(* packet reaches the signer in pieces, each with a Prepare Write Request, *)
(* and counts when an Execute Write Request comes.  The pieces of all      *)
(* connections share one pool, and a queue that is not completed in time   *)
(* costs its connection (ble_hs_conn_timer).                               *)
(*                                                                         *)
(* The host task handles one event at a time.  What can come between its   *)
(* steps are the controller, which learns of a lost link before the host   *)
(* does, and time.  Requests of any shape and in any order may arrive.     *)
(***************************************************************************)
EXTENDS Integers, Totals, Sequences, Bags, SequencesExt, FiniteSetsExt

CONSTANTS Client,
          Octet,     \* what texts are made of
          Entry,     \* the pieces that clients send: handle, offset and text
          Accepts,   \* the values each attribute takes; it refuses the others
          MaxLen,    \* BLE_ATT_ATTR_MAX_LEN
          PoolSize,  \* BLE_ATT_SVR_MAX_PREP_ENTRIES
          Timeout,   \* BLE_ATT_SVR_QUEUED_WRITE_TMO, in ticks of this model
          Off        \* the timer is not scheduled

ASSUME ClientAssumption == IsFiniteSet(Client)
ASSUME EntryAssumption ==
    Entry \subseteq [handle : Nat, offset : Nat, text : Seq(Octet) \ {<<>>}]
ASSUME AcceptsAssumption == Accepts \in [{e.handle : e \in Entry} -> SUBSET Seq(Octet)]
ASSUME NumberAssumption == MaxLen \in Nat /\ PoolSize \in Nat /\ Timeout \in Nat \ {0}
ASSUME OffAssumption == Off \notin Nat

VARIABLES pool,         \* the number of free entries
          queue,        \* basc_prep_list of each connection
          left,         \* ticks until the queue of each connection times out
          connected,    \* the connections the host knows
          terminating,  \* those with BLE_HS_CONN_F_TERMINATING
          link,         \* the connections the controller knows
          hsTimer,      \* ticks until ble_hs_timer expires
          host,         \* what the host task is in the middle of
          accepted,     \* history: what was accepted since the last execution
          executed      \* history: the writes of the step before, if it was an execution

connVars == <<connected, terminating, link>>
writeVars == <<pool, queue, left, connVars, hsTimer, host, accepted, executed>>

NotExecuted == [writes |-> <<>>, error |-> FALSE]

QWTypeOK == /\ pool \in 0 .. PoolSize
            /\ queue \in [Client -> UNION {[1 .. n -> Entry] : n \in 0 .. PoolSize}]
            /\ left \in [Client -> 0 .. Timeout]
            /\ connected \subseteq Client
            /\ terminating \subseteq connected
            /\ link \subseteq connected
            /\ hsTimer \in 0 .. Timeout \cup {Off}
            /\ host \in {"idle", "timer"}
            /\ DOMAIN accepted = Client

QWInit == /\ pool = PoolSize
          /\ queue = [c \in Client |-> <<>>]
          /\ left = [c \in Client |-> 0]
          /\ connected = {}
          /\ terminating = {}
          /\ link = {}
          /\ hsTimer = Off
          /\ host = "idle"
          /\ accepted = [c \in Client |-> EmptyBag]
          /\ executed = NotExecuted
-----------------------------------------------------------------------------
(***************************************************************************)
(* The list of prepared entries, sorted by handle and offset.              *)
(***************************************************************************)
\* Mutant: the offsets are not looked at.
HandlesInOrder(e, f) == e.handle <= f.handle

Precedes(e, f) == \/ e.handle < f.handle
                  \/ e.handle = f.handle /\ e.offset <= f.offset

\* ble_att_svr_prep_find_prev: the entries from the first one on that precede the
\* new one; it goes after them.
Before(q, e) == {i \in DOMAIN q : \A j \in 1 .. i : Precedes(q[j], e)}
Inserted(q, e) == InsertAt(q, Cardinality(Before(q, e)) + 1, e)

EndOf(e) == e.offset + Len(e.text)

\* An entry starts its attribute at 0 or continues where the one before left off.
Follows(q, i) ==
    IF i = 1 \/ q[i - 1].handle # q[i].handle THEN q[i].offset = 0
                                              ELSE q[i].offset = EndOf(q[i - 1])

\* ble_att_svr_prep_validate
Valid(q) == \A i \in DOMAIN q : Follows(q, i) /\ EndOf(q[i]) <= MaxLen

\* ble_att_svr_prep_extract: the values of one attribute are concatenated.
ValueFor(q, h) == FlattenSeq([i \in DOMAIN q |-> IF q[i].handle = h THEN q[i].text ELSE <<>>])

Handles(q) == {q[i].handle : i \in DOMAIN q}

\* The n-th number of a set, from below.
Nth(S, n) == CHOOSE x \in S : Cardinality({y \in S : y <= x}) = n

\* Mutant: the attributes that would take their values are written whatever the others do.
TakenAnywhere(q) == {h \in Handles(q) : ValueFor(q, h) \in Accepts[h]}

\* The attributes before the first one that refuses its value.
Taken(q) == {h \in Handles(q) : \A g \in Handles(q) : g <= h => ValueFor(q, g) \in Accepts[g]}

\* ble_att_svr_prep_write: one write for each attribute, in the order of the handles,
\* until one is refused.
Writes(q) == [n \in 1 .. Cardinality(Taken(q)) |->
                [handle |-> Nth(Taken(q), n), text |-> ValueFor(q, Nth(Taken(q), n))]]
-----------------------------------------------------------------------------
(***************************************************************************)
(* Requests.  The host answers them before it learns that the link is gone. *)
(***************************************************************************)
Idle == host = "idle"

\* The entries that are not free.
InUse == Total([c \in Client |-> Len(queue[c])])

\* ble_gap_rx_conn_complete
Connect(c) == /\ Idle
              /\ c \notin connected
              /\ connected' = connected \cup {c}
              /\ link' = link \cup {c}
              /\ executed' = NotExecuted
              /\ UNCHANGED <<pool, queue, left, terminating, hsTimer, host, accepted>>

\* Mutant: the timer goes on as it is.
TimerAsItIs == hsTimer

\* ble_hs_timer_resched: the timer looks for the next timeout at once.
TimerAfterPrepare == 0

\* ble_att_svr_rx_prep_write, ble_att_svr_insert_prep_entry
PrepareWrite(c, e) ==
    /\ Idle
    /\ c \in connected
    /\ pool > 0
    /\ pool' = pool - 1
    /\ queue' = [queue EXCEPT ![c] = Inserted(@, e)]
    /\ left' = [left EXCEPT ![c] = Timeout]
    /\ hsTimer' = TimerAfterPrepare
    /\ accepted' = [accepted EXCEPT ![c] = @ (+) SetToBag({e})]
    /\ executed' = NotExecuted
    /\ UNCHANGED <<connVars, host>>

\* Mutant: the entry that has got no buffer is lost.
PoolWithoutEntry == pool - 1

\* The entry is given back when there is no buffer for its value.
PoolAfterFailure == pool

\* Out of entries, or of buffers: an error response.
PrepareFails(c) == /\ Idle
                   /\ c \in connected
                   /\ pool' = IF pool > 0 THEN PoolAfterFailure ELSE 0
                   /\ executed' = NotExecuted
                   /\ UNCHANGED <<queue, left, connVars, hsTimer, host, accepted>>

\* The entries of a connection are freed.
QueueFreed(c) == /\ pool' = pool + Len(queue[c])
                 /\ queue' = [queue EXCEPT ![c] = <<>>]
                 /\ left' = [left EXCEPT ![c] = 0]
                 /\ accepted' = [accepted EXCEPT ![c] = EmptyBag]

\* ble_att_svr_rx_exec_write
ExecuteWrite(c) ==
    /\ Idle
    /\ c \in connected
    /\ executed' = IF Valid(queue[c])
                   THEN [writes |-> Writes(queue[c]), error |-> Taken(queue[c]) # Handles(queue[c])]
                   ELSE [writes |-> <<>>, error |-> TRUE]
    /\ QueueFreed(c)
    /\ UNCHANGED <<connVars, hsTimer, host>>

\* There is no buffer to read the request in, or to answer it: an error response.
ExecuteFails(c) == /\ Idle
                   /\ c \in connected
                   /\ executed' = NotExecuted
                   /\ UNCHANGED <<pool, queue, left, connVars, hsTimer, host, accepted>>

\* The flags of the request say that nothing is to be written.
CancelWrite(c) == /\ Idle
                  /\ c \in connected
                  /\ QueueFreed(c)
                  /\ executed' = NotExecuted
                  /\ UNCHANGED <<connVars, hsTimer, host>>
-----------------------------------------------------------------------------
(***************************************************************************)
(* The end of a connection.                                                *)
(***************************************************************************)

\* The controller loses the link, or does what a Disconnect command has asked for.
LinkLost(c) == /\ c \in link
               /\ link' = link \ {c}
               /\ executed' = NotExecuted
               /\ UNCHANGED <<pool, queue, left, connected, terminating, hsTimer, host, accepted>>

\* Mutant: the next connection inherits the flags.
StillTerminating(c) == terminating

\* The flags are those of the connection, and freed with it.
TerminatingWithout(c) == terminating \ {c}

\* ble_gap_rx_disconn_complete, ble_gap_conn_broken, ble_hs_conn_free
ConnectionBroken(c) == /\ Idle
                       /\ c \in connected \ link
                       /\ QueueFreed(c)
                       /\ connected' = connected \ {c}
                       /\ terminating' = TerminatingWithout(c)
                       /\ executed' = NotExecuted
                       /\ UNCHANGED <<link, hsTimer, host>>

\* ble_hs_reset: every connection is broken, and the timer fires a little later.
Reset == /\ Idle
         /\ connected # {}
         /\ pool' = pool + InUse
         /\ queue' = [c \in Client |-> <<>>]
         /\ left' = [c \in Client |-> 0]
         /\ accepted' = [c \in Client |-> EmptyBag]
         /\ connected' = {}
         /\ terminating' = {}
         /\ link' = {}
         /\ hsTimer' = 0
         /\ executed' = NotExecuted
         /\ UNCHANGED host
-----------------------------------------------------------------------------
(***************************************************************************)
(* Timeouts.                                                               *)
(***************************************************************************)

\* The connections whose queue is timed, and those whose time is over.
Timed == {c \in connected \ terminating : queue[c] # <<>>}
Expired == {c \in Timed : left[c] = 0}

\* A tick is long: the host takes a timer that has expired before the next one.
Tick == /\ Idle
        /\ hsTimer # 0
        /\ hsTimer # Off \/ \E c \in Timed : left[c] > 0
        /\ left' = [c \in Client |-> IF left[c] > 0 THEN left[c] - 1 ELSE 0]
        /\ hsTimer' = IF hsTimer = Off THEN Off ELSE hsTimer - 1
        /\ executed' = NotExecuted
        /\ UNCHANGED <<pool, queue, connVars, host, accepted>>

\* ble_hs_timer_exp
TimerExp == /\ Idle
            /\ hsTimer = 0
            /\ hsTimer' = Off
            /\ host' = "timer"
            /\ executed' = NotExecuted
            /\ UNCHANGED <<pool, queue, left, connVars, accepted>>

\* One round of ble_hs_conn_timer: the connection is terminated, if the controller
\* still knows it.  The flag is set only then.
TerminateExpired(c) ==
    /\ host = "timer"
    /\ c \in Expired
    /\ terminating' = IF c \in link THEN terminating \cup {c} ELSE terminating
    /\ executed' = NotExecuted
    /\ UNCHANGED <<pool, queue, left, connected, link, hsTimer, host, accepted>>

\* The last round: the timer is scheduled for the next timeout.
TimerReturns == /\ host = "timer"
                /\ Expired = {}
                /\ host' = "idle"
                /\ hsTimer' = IF Timed = {} THEN Off ELSE Min({left[c] : c \in Timed})
                /\ executed' = NotExecuted
                /\ UNCHANGED <<pool, queue, left, connVars, accepted>>
-----------------------------------------------------------------------------
Request(c) == \/ \E e \in Entry : PrepareWrite(c, e)
              \/ PrepareFails(c)
              \/ ExecuteWrite(c) \/ ExecuteFails(c)
              \/ CancelWrite(c)

QWNext == \/ \E c \in Client : \/ Connect(c) \/ Request(c) \/ LinkLost(c)
                               \/ ConnectionBroken(c) \/ TerminateExpired(c)
          \/ Reset \/ Tick \/ TimerExp \/ TimerReturns

QWSpec == QWInit /\ [][QWNext]_writeVars

(***************************************************************************)
(* The host task takes its events in their order, so a disconnection is    *)
(* handled in the end although other events come between (SF); the         *)
(* controller ends a link it was told to end; time goes on (SF).           *)
(***************************************************************************)
QWFairness == /\ SF_writeVars(Tick) /\ WF_writeVars(TimerExp) /\ WF_writeVars(TimerReturns)
              /\ \A c \in Client : /\ WF_writeVars(TerminateExpired(c))
                                   /\ WF_writeVars(c \in terminating /\ LinkLost(c))
                                   /\ SF_writeVars(ConnectionBroken(c))

QWFairSpec == QWSpec /\ QWFairness
-----------------------------------------------------------------------------
(***************************************************************************)
(* Properties.                                                             *)
(***************************************************************************)

\* No entry of the pool (ble_att_svr_prep_entry_pool) is lost, whatever becomes of
\* the request, the connection or the host.
PoolIsConserved == pool + InUse = PoolSize

\* The pieces of an attribute cover the places 1 .. n once each.
Pieces(c, h) == {e \in BagToSet(accepted[c]) : e.handle = h}
At(S, k) == {e \in S : e.offset < k /\ k <= EndOf(e)}
Covers(c, h, n) == /\ \A e \in Pieces(c, h) : accepted[c][e] = 1 /\ EndOf(e) <= n
                   /\ \A k \in 1 .. n : Cardinality(At(Pieces(c, h), k)) = 1

\* The text that the pieces of an attribute make.
WholeText(c, h, v) == /\ Covers(c, h, Len(v))
                      /\ \A k \in DOMAIN v : \E e \in At(Pieces(c, h), k) : v[k] = e.text[k - e.offset]

\* What is written is what was accepted, if that covers every attribute it is about:
\* up to the first attribute that does not take its whole text, which is an error.
\* Otherwise nothing is.
WrittenWhole(c) ==
    LET handles == {e.handle : e \in BagToSet(accepted[c])}
        fits(h) == \E v \in Accepts[h] : WholeText(c, h, v)
        done == {h \in handles : \A g \in handles : g <= h => fits(g)}
    IN IF \A h \in handles : \E n \in 1 .. MaxLen : Covers(c, h, n)
       THEN /\ executed'.error <=> done # handles
            /\ Len(executed'.writes) = Cardinality(done)
            /\ \A h \in done : \E w \in ToSet(executed'.writes) :
                 w.handle = h /\ WholeText(c, h, w.text)
       ELSE executed' = [writes |-> <<>>, error |-> TRUE]

\* "Contents are valid; perform the writes" (ble_att_svr_prep_write): what an
\* execution writes is what the requests of this connection since the last one
\* were made of, in whatever order they came; when one attribute has a gap, an
\* overlap or too much, nothing at all is written.  When an attribute refuses its
\* value, those before it have been written whole, it and those after it are not
\* written, and the answer is an error.
WritesAreWhole == [][\A c \in Client : ExecuteWrite(c) => WrittenWhole(c)]_writeVars

\* A connection whose link is gone when its queue times out is terminated in vain,
\* again and again, as the host task that does so cannot take the disconnection.
Spins == host = "timer" /\ Expired \ link # {}

\* "If a connection has timed out, terminate it" (ble_hs_conn_timer): a client that
\* stops in the middle of a queued write, or vanishes, does not keep its entries from
\* the other clients, unless the timer spins.
QueuesEnd == \A c \in Client : queue[c] # <<>> ~> (queue[c] = <<>> \/ Spins)
=============================================================================
