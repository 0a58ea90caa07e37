---------------------------- MODULE SignerDevice ----------------------------
(***************************************************************************)
(* The signer at work: the BLE server of ESP5791.ino on NimBLE-Arduino.    *)
(*                                                                         *)
(* Two tasks run on the device.  The setup task starts the server, starts  *)
(* to advertise and then, in a DEBUG_SERIAL build, signs a test message.   *)
(* The host task handles what the radio delivers, one event after the      *)
(* other: connections, disconnections, reads, subscriptions and writes of  *)
(* a payload, whose callback signs it.  Both tasks sign with               *)
(* eth_signHashedMessage, which fills the three output characteristics one *)
(* by one.                                                                 *)
(*                                                                         *)
(* A signature and a hash are represented by the message they belong to.   *)
(* A client has one request under way at a time, as the protocol demands.  *)
(***************************************************************************)
EXTENDS Integers, FiniteSets

CONSTANTS Client,
          Message,         \* the payloads clients write
          TooLong,         \* those that do not fit into a characteristic
          TestMessage,     \* "ABC123"
          DefaultText,     \* what a characteristic holds when it is not in use
          None,
          MaxConnections,  \* NIMBLE_MAX_CONNECTIONS
          DebugSerial,     \* DEBUG_SERIAL
          ResetInStart,    \* whether the host can be reset in the middle of setup's start()
          MaxResets,       \* bound: how often the host is reset
          MaxWrites        \* bound: how often clients write

ASSUME MessageAssumption == /\ {TestMessage, DefaultText, None} \cap Message = {}
                            /\ None \notin {TestMessage, DefaultText}
                            /\ TooLong \subseteq Message
ASSUME ClientAssumption == None \notin Client
ASSUME BuildAssumption == DebugSerial \in BOOLEAN /\ ResetInStart \in BOOLEAN
ASSUME BoundAssumption == MaxConnections \in Nat /\ MaxResets \in Nat /\ MaxWrites \in Nat

Input == {"B001", "B002"}                            \* plaintext, hashed
Outputs == <<"C001", "C002", "C008">>                \* signature, hash, payload hash
Output == {Outputs[i] : i \in 1 .. 3}
Task == {"setup", "host"}

VARIABLES pc,           \* where setup() is
          synced,       \* NimBLEDevice::m_synced
          advertising,  \* the radio accepts a connection
          forever,      \* m_duration = 0: start() has come past its checks
          connecting,   \* the client whose connection the host task must handle next
          peers,        \* m_connectedPeersVec
          subscribers,  \* m_subscribedVec of each output
          inputs,       \* the values of B001 and B002
          outputs,      \* the values of C001, C002 and C008
          job,          \* what each task is signing, and how far it is
          link,         \* the clients the radio is connected to
          request,      \* the request each client waits for
          wrote,        \* history: what each client has written last
          seen,         \* history: what each client has received since
          resets, writes

radioVars == <<synced, advertising, forever, connecting, peers, subscribers>>
valueVars == <<inputs, outputs, job>>
clientVars == <<link, request, wrote, seen>>
boundVars == <<resets, writes>>
vars == <<pc, radioVars, valueVars, clientVars, boundVars>>

Value == Message \cup {TestMessage, DefaultText}
Request == [kind : {"write"}, char : Input, message : Message]
           \cup [kind : {"read", "subscribe"}, char : Output]

ASSUME RequestAssumption == None \notin Request

\* step 0: not signing.  1 .. 3: fill the outputs.  4 .. 6: notify.  7: answer.
Job == [message : Value \cup {None}, client : Client \cup {None},
        input : Input, step : 0 .. 7]
Idle == [message |-> None, client |-> None, input |-> "B001", step |-> 0]
HostIdle == job["host"].step = 0

Nothing == [o \in Output |-> None]

TypeOK == /\ pc \in {"init", "start", "advertise", "loop"}
          /\ synced \in BOOLEAN
          /\ advertising \in BOOLEAN
          /\ forever \in BOOLEAN
          /\ connecting \in Client \cup {None}
          /\ peers \subseteq Client
          /\ subscribers \in [Output -> SUBSET Client]
          /\ inputs \in [Input -> Value]
          /\ outputs \in [Output -> Value]
          /\ job \in [Task -> Job]
          /\ link \subseteq Client
          /\ request \in [Client -> Request \cup {None}]
          /\ wrote \in [Client -> Message \cup {None}]
          /\ seen \in [Client -> [Output -> Value \cup {None}]]
          /\ resets \in 0 .. MaxResets
          /\ writes \in 0 .. MaxWrites
          /\ advertising => synced /\ connecting = None

Init == /\ pc = "init"
        /\ synced = FALSE
        /\ advertising = FALSE
        /\ forever = FALSE
        /\ connecting = None
        /\ peers = {}
        /\ subscribers = [o \in Output |-> {}]
        /\ inputs = [i \in Input |-> DefaultText]
        /\ outputs = [o \in Output |-> DefaultText]
        /\ job = [t \in Task |-> Idle]
        /\ link = {}
        /\ request = [c \in Client |-> None]
        /\ wrote = [c \in Client |-> None]
        /\ seen = [c \in Client |-> Nothing]
        /\ resets = 0
        /\ writes = 0
-----------------------------------------------------------------------------
(***************************************************************************)
(* NimBLEAdvertising::start.  It fails when the host is not synced or all  *)
(* connections are in use, and does nothing when the host still believes   *)
(* that it advertises.  Only past these checks does it note the duration,  *)
(* which is what makes a later sync restart it.                            *)
(***************************************************************************)
\* Mutant: the sync state is not looked at.
MayStartUnsynced(inSync, inUse) == Cardinality(inUse) < MaxConnections

MayStart(inSync, inUse) == inSync /\ Cardinality(inUse) < MaxConnections

BelievesToAdvertise == advertising \/ connecting' # None

StartAdvertising(inSync, inUse) ==
    IF MayStart(inSync, inUse) /\ ~ BelievesToAdvertise
    THEN advertising' = TRUE /\ forever' = TRUE
    ELSE UNCHANGED <<advertising, forever>>

(***************************************************************************)
(* The setup task.                                                         *)
(***************************************************************************)
\* setupBleServer up to getAdvertising(); NimBLEDevice::init waits for the host.
CreateServer == /\ pc = "init"
                /\ synced
                /\ pc' = "start"
                /\ UNCHANGED <<radioVars, valueVars, clientVars, boundVars>>

\* What setup() does next, in a DEBUG_SERIAL build: the signature test.
AfterServer ==
    /\ pc' = "loop"
    /\ job' = IF DebugSerial
              THEN [job EXCEPT !["setup"] = [Idle EXCEPT !.message = TestMessage, !.step = 1]]
              ELSE job

\* pAdvertising->start(): its checks.  setup() does not look at its result.
StartServer ==
    /\ pc = "start"
    /\ UNCHANGED connecting
    /\ IF MayStart(synced, peers) /\ ~ BelievesToAdvertise
       THEN /\ pc' = "advertise"
            /\ forever' = TRUE
            /\ UNCHANGED job
       ELSE AfterServer /\ UNCHANGED forever
    /\ UNCHANGED <<synced, advertising, peers, subscribers, inputs, outputs, clientVars,
                   boundVars>>

\* pAdvertising->start(): ble_gap_adv_start.
AdvertiseServer ==
    /\ pc = "advertise"
    /\ AfterServer
    /\ UNCHANGED connecting
    /\ advertising' = (advertising \/ (MayStart(synced, peers) /\ ~ BelievesToAdvertise))
    /\ UNCHANGED <<synced, forever, peers, subscribers, inputs, outputs, clientVars, boundVars>>

\* Mutant: the hash of the payload is not stored.
WithoutPayloadHash(step) == IF step = 2 THEN 4 ELSE step + 1

OutputOf(step) == Outputs[step]
NextStep(step) == step + 1

\* eth_signHashedMessage: one setValue.
SetOutput(t) ==
    /\ job[t].step \in 1 .. 3
    /\ outputs' = [outputs EXCEPT ![OutputOf(job[t].step)] = job[t].message]
    /\ job' = IF t = "setup" /\ job[t].step = 3 THEN [job EXCEPT ![t] = Idle]
              ELSE [job EXCEPT ![t].step = NextStep(@)]
    /\ UNCHANGED <<pc, radioVars, inputs, clientVars, boundVars>>
-----------------------------------------------------------------------------
(***************************************************************************)
(* The host task.                                                          *)
(***************************************************************************)
\* Mutant: the advertising is not restarted.
SyncWithoutRestart == /\ ~ synced
                      /\ HostIdle
                      /\ synced' = TRUE
                      /\ UNCHANGED <<pc, advertising, forever, connecting, peers, subscribers, valueVars,
                                     clientVars, boundVars>>

\* NimBLEDevice::onSync, and NimBLEAdvertising::onHostSync once start() was called.
Sync == /\ ~ synced
        /\ HostIdle
        /\ synced' = TRUE
        /\ UNCHANGED connecting
        /\ IF forever THEN StartAdvertising(TRUE, peers) ELSE UNCHANGED <<advertising, forever>>
        /\ UNCHANGED <<pc, peers, subscribers, valueVars, clientVars, boundVars>>

\* The controller fails: every connection is broken, and NimBLEDevice::onReset
\* runs before the disconnect events could restart the advertising.
HostReset ==
    /\ synced
    /\ HostIdle
    /\ resets < MaxResets
    /\ ResetInStart \/ pc # "advertise"
    /\ resets' = resets + 1
    /\ synced' = FALSE
    /\ advertising' = FALSE
    /\ connecting' = None
    /\ peers' = {}
    /\ subscribers' = [o \in Output |-> {}]
    /\ link' = {}
    /\ request' = [c \in Client |-> None]
    /\ wrote' = [c \in Client |-> None]
    /\ seen' = [c \in Client |-> Nothing]
    /\ UNCHANGED <<pc, forever, valueVars, writes>>

\* Mutant: the server advertises on, as if for more clients.
HostConnectAdvertises ==
    /\ HostIdle
    /\ connecting # None
    /\ peers' = peers \cup {connecting}
    /\ connecting' = None
    /\ StartAdvertising(synced, peers')
    /\ UNCHANGED <<pc, synced, subscribers, valueVars, clientVars, boundVars>>

\* BLE_GAP_EVENT_CONNECT
HostConnect == /\ HostIdle
               /\ connecting # None
               /\ peers' = peers \cup {connecting}
               /\ connecting' = None
               /\ UNCHANGED <<pc, synced, advertising, forever, subscribers, valueVars, clientVars,
                              boundVars>>

\* BLE_GAP_EVENT_CONNECT with an error: resume advertising.
HostConnectFails ==
    /\ HostIdle
    /\ connecting # None
    /\ connecting' = None
    /\ StartAdvertising(synced, peers)
    /\ link' = link \ {connecting}
    /\ request' = [request EXCEPT ![connecting] = None]
    /\ wrote' = [wrote EXCEPT ![connecting] = None]
    /\ seen' = [seen EXCEPT ![connecting] = Nothing]
    /\ UNCHANGED <<pc, synced, peers, subscribers, valueVars, boundVars>>

\* BLE_GAP_EVENT_DISCONNECT, after the subscriptions of the peer were removed.
HostDisconnect(c) ==
    /\ HostIdle
    /\ c \in peers \ link
    /\ peers' = peers \ {c}
    /\ subscribers' = [o \in Output |-> subscribers[o] \ {c}]
    /\ request' = [request EXCEPT ![c] = None]
    /\ UNCHANGED connecting
    /\ StartAdvertising(synced, peers')
    /\ UNCHANGED <<pc, synced, valueVars, link, wrote, seen, boundVars>>

\* NimBLECharacteristic::handleGapEvent for a request of a connected peer.
Handles(c, kind) == HostIdle /\ c \in peers /\ request[c] # None /\ request[c].kind = kind

Received(s, c, o) ==
    IF c \in link /\ wrote[c] # None THEN [s EXCEPT ![c][o] = outputs[o]] ELSE s

HostRead(c) == /\ Handles(c, "read")
               /\ seen' = Received(seen, c, request[c].char)
               /\ request' = [request EXCEPT ![c] = None]
               /\ UNCHANGED <<pc, radioVars, valueVars, link, wrote, boundVars>>

HostSubscribe(c) ==
    /\ Handles(c, "subscribe")
    /\ subscribers' = [subscribers EXCEPT ![request[c].char] = @ \cup {c}]
    /\ request' = [request EXCEPT ![c] = None]
    /\ UNCHANGED <<pc, synced, advertising, forever, connecting, peers, valueVars, link, wrote,
                   seen, boundVars>>

\* The value is set and onWrite is called: it signs the value.
HostWrite(c) ==
    /\ Handles(c, "write")
    /\ request[c].message \notin TooLong
    /\ inputs' = [inputs EXCEPT ![request[c].char] = request[c].message]
    /\ job' = [job EXCEPT !["host"] = [message |-> request[c].message, client |-> c,
                                       input |-> request[c].char, step |-> 1]]
    /\ UNCHANGED <<pc, radioVars, outputs, clientVars, boundVars>>

\* A value that is too long is refused with an error.
HostRefuse(c) ==
    /\ Handles(c, "write")
    /\ request[c].message \in TooLong
    /\ request' = [request EXCEPT ![c] = None]
    /\ wrote' = [wrote EXCEPT ![c] = None]
    /\ seen' = [seen EXCEPT ![c] = Nothing]
    /\ UNCHANGED <<pc, radioVars, valueVars, link, boundVars>>

\* notify(): the current value, to the subscribers that are still connected.
Notify ==
    /\ job["host"].step \in 4 .. 6
    /\ LET o == OutputOf(job["host"].step - 3)
       IN seen' = [c \in Client |->
                      IF c \in subscribers[o] \cap peers THEN Received(seen, c, o)[c]
                      ELSE seen[c]]
    /\ job' = [job EXCEPT !["host"].step = @ + 1]
    /\ UNCHANGED <<pc, radioVars, inputs, outputs, link, request, wrote, boundVars>>

\* Mutants: the wrong characteristic is reset; a client that is gone is waited for.
FirstInput(j) == "B001"
AnswerConnectedOnly ==
    /\ job["host"].step = 7
    /\ job["host"].client \in link
    /\ inputs' = [inputs EXCEPT ![job["host"].input] = DefaultText]
    /\ request' = [request EXCEPT ![job["host"].client] = None]
    /\ job' = [job EXCEPT !["host"] = Idle]
    /\ UNCHANGED <<pc, radioVars, outputs, link, wrote, seen, boundVars>>

InputOf(j) == j.input

\* onWrite resets its payload characteristic and returns; the client is answered.
Answer ==
    /\ job["host"].step = 7
    /\ inputs' = [inputs EXCEPT ![InputOf(job["host"])] = DefaultText]
    /\ request' = [request EXCEPT ![job["host"].client] = None]
    /\ job' = [job EXCEPT !["host"] = Idle]
    /\ UNCHANGED <<pc, radioVars, outputs, link, wrote, seen, boundVars>>
-----------------------------------------------------------------------------
(***************************************************************************)
(* The clients and the radio.                                              *)
(***************************************************************************)
\* A client connects, and the controller stops advertising.
Connect(c) == /\ advertising
              /\ c \notin link \cup peers
              /\ link' = link \cup {c}
              /\ connecting' = c
              /\ advertising' = FALSE
              /\ UNCHANGED <<pc, synced, forever, peers, subscribers, valueVars, request, wrote,
                             seen, boundVars>>

\* A client sends a request.  What it had received belongs to its last write.
Send(c, r) ==
    /\ c \in link
    /\ request[c] = None
    /\ request' = [request EXCEPT ![c] = r]
    /\ IF r.kind = "write"
       THEN /\ writes < MaxWrites
            /\ writes' = writes + 1
            /\ wrote' = [wrote EXCEPT ![c] = r.message]
            /\ seen' = [seen EXCEPT ![c] = Nothing]
       ELSE UNCHANGED <<writes, wrote, seen>>
    /\ UNCHANGED <<pc, radioVars, valueVars, link, resets>>

\* A client disconnects or goes out of reach.  Its request may have arrived.
Drop(c) == /\ c \in link
           /\ link' = link \ {c}
           /\ \/ UNCHANGED request
              \/ request' = [request EXCEPT ![c] = None]
           /\ wrote' = [wrote EXCEPT ![c] = None]
           /\ seen' = [seen EXCEPT ![c] = Nothing]
           /\ UNCHANGED <<pc, radioVars, valueVars, boundVars>>

SetupTask == CreateServer \/ StartServer \/ AdvertiseServer \/ SetOutput("setup")

HostEvent(c) ==
    HostDisconnect(c) \/ HostRead(c) \/ HostSubscribe(c) \/ HostWrite(c) \/ HostRefuse(c)

HostTask == \/ Sync \/ HostConnect \/ HostConnectFails
            \/ SetOutput("host") \/ Notify \/ Answer
            \/ \E c \in Client : HostEvent(c)

Environment == \/ HostReset
               \/ \E c \in Client : Connect(c) \/ Drop(c) \/ \E r \in Request : Send(c, r)

Next == SetupTask \/ HostTask \/ Environment

Spec == Init /\ [][Next]_vars

\* Both tasks are scheduled, and the host task takes every event off its queue.
FairSpec == /\ Spec
            /\ WF_vars(SetupTask)
            /\ WF_vars(Sync \/ HostConnect \/ HostConnectFails)
            /\ WF_vars(SetOutput("host") \/ Notify \/ Answer)
            /\ \A c \in Client : WF_vars(HostEvent(c))
-----------------------------------------------------------------------------
(***************************************************************************)
(* Properties.                                                             *)
(***************************************************************************)

\* "only one device can be connected at a time" (README.md)
OneClientAtATime == Cardinality(link) <= 1

\* What a client reads or is notified of after it has written a message belongs
\* to that message, whoever was connected before and whatever they left behind.
AnswersMatchWrites ==
    \A c \in Client, o \in Output : wrote[c] # None => seen[c][o] \in {None, wrote[c]}

\* A payload can only be read back while it is being signed, even if its client
\* is gone before the callback returns.
PayloadsAreTransient ==
    \A i \in Input : inputs[i] # DefaultText =>
                        /\ ~ HostIdle
                        /\ job["host"].input = i
                        /\ job["host"].message = inputs[i]

\* start() was refused when setup() called it, and nobody calls it again.
NeverStarted == pc = "loop" /\ ~ forever

\* After every disconnection and every reset the signer can be found again, unless
\* the host was out of sync in the moment in which setup() called start().
CanBeFound == []<>(advertising \/ link # {} \/ NeverStarted)

\* A client that stays connected is answered.
RequestsAreAnswered ==
    \A c \in Client : (request[c] # None) ~> (request[c] = None)
=============================================================================
