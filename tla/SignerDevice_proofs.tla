------------------------ MODULE SignerDevice_proofs ------------------------
(***************************************************************************)
(* The signer, for any number of clients, messages and resets.             *)
(*                                                                         *)
(* First, one client at a time, provided that the host is not reset in the *)
(* middle of setup's start().  Nothing in the server refuses a second client: what *)
(* keeps it away is that the signer does not advertise while a client is   *)
(* connected, known to the host task or not.  Then types and the lifetime  *)
(* of a payload, which need no such assumption, and at last what a client  *)
(* receives, which rests on both.                                          *)
(***************************************************************************)
EXTENDS SignerDevice, FiniteSetTheorems, TLAPS

\* The clients that are connected, or that the host believes to be.
Occupants == peers \cup ({connecting} \ {None})

Silent == /\ ~ advertising
          /\ \E c \in Client : Occupants \subseteq {c}

IInv == /\ connecting \in Client \cup {None}
        /\ advertising \in BOOLEAN
        /\ link \subseteq Occupants
        /\ Occupants = {} \/ Silent
        /\ connecting # None => peers = {}
        /\ pc \in {"init", "start"} => ~ forever
        /\ pc = "advertise" => synced /\ forever
        /\ pc \in {"init", "start", "advertise"} \/ ~ forever \/ ~ synced
              => Occupants = {} /\ ~ advertising
        /\ synced \in BOOLEAN

LEMMA InitEstablishes == Init => IInv
BY DEF Init, IInv, Occupants

\* To start to advertise is safe when nobody is left and setup() has come to it.
LEMMA StartIsSafe ==
    ASSUME NEW inUse, StartAdvertising(synced', inUse), IInv,
           Occupants' = {}, link' = {}, connecting' = None, peers' = {},
           forever, pc' = pc, pc \notin {"init", "start", "advertise"}, synced' = TRUE
    PROVE  IInv'
BY DEF StartAdvertising, MayStart, BelievesToAdvertise, IInv, Occupants

LEMMA SetupPreserves == IInv /\ SetupTask => IInv'
<1> SUFFICES ASSUME IInv, SetupTask PROVE IInv'
  OBVIOUS
<1>1. CASE CreateServer
  BY <1>1 DEF CreateServer, IInv, Occupants, Silent, radioVars, clientVars
<1>2. CASE StartServer
  <2>1. Occupants' = {} /\ link' = {} /\ advertising' = FALSE
        /\ synced' = synced /\ synced \in BOOLEAN /\ connecting' = None /\ peers' = {}
    BY <1>2, ClientAssumption DEF StartServer, IInv, Occupants, clientVars
  <2>2. \/ pc' = "advertise" /\ synced /\ forever'
        \/ pc' = "loop" /\ forever' = forever
    BY <1>2 DEF StartServer, AfterServer, MayStart, IInv
  <2>3. QED BY <2>1, <2>2 DEF IInv
<1>3. CASE AdvertiseServer
  <2>1. /\ Occupants' = {} /\ link' = {} /\ advertising' \in BOOLEAN /\ synced /\ forever
        /\ connecting' = None /\ peers' = {} /\ synced' = synced /\ forever' = forever
        /\ synced \in BOOLEAN /\ pc' = "loop"
    BY <1>3, ClientAssumption DEF AdvertiseServer, AfterServer, IInv, Occupants, clientVars
  <2>2. QED BY <2>1 DEF IInv
<1>4. CASE SetOutput("setup")
  BY <1>4 DEF SetOutput, IInv, Occupants, Silent, radioVars, clientVars
<1>5. QED BY <1>1, <1>2, <1>3, <1>4 DEF SetupTask

LEMMA HostPreserves == IInv /\ HostTask => IInv'
<1> SUFFICES ASSUME IInv, HostTask PROVE IInv'
  OBVIOUS
<1> USE ClientAssumption DEF radioVars, clientVars, boundVars
<1>1. CASE Sync
  <2>1. /\ Occupants' = {} /\ link' = {} /\ connecting' = None /\ peers' = {} /\ synced' = TRUE
        /\ pc' = pc /\ pc # "advertise" /\ ~ advertising
    BY <1>1 DEF Sync, IInv, Occupants
  <2>2. CASE ~ forever
    BY <1>1, <2>1, <2>2 DEF Sync, IInv
  <2>3. CASE forever
    <3>1. pc \notin {"init", "start"}
      BY <2>3 DEF IInv
    <3>2. QED BY <1>1, <2>1, <2>3, <3>1, StartIsSafe DEF Sync
  <2>4. QED BY <2>2, <2>3
<1>2. CASE HostConnect
  <2>1. Occupants' = Occupants /\ peers' = {connecting} /\ connecting' = None
    BY <1>2 DEF HostConnect, IInv, Occupants
  <2>2. QED BY <1>2, <2>1 DEF HostConnect, IInv, Silent
<1>3. CASE HostConnectFails
  <2>1. peers = {} /\ synced = TRUE /\ forever /\ pc \notin {"init", "start", "advertise"}
        /\ link \subseteq {connecting}
    BY <1>3 DEF HostConnectFails, IInv, Occupants
  <2>2. Occupants' = {} /\ link' = {} /\ connecting' = None /\ peers' = {} /\ synced' = TRUE
        /\ pc' = pc
    BY <1>3, <2>1 DEF HostConnectFails, Occupants
  <2>3. QED BY <1>3, <2>1, <2>2, StartIsSafe DEF HostConnectFails
<1>4. ASSUME NEW c \in Client, HostEvent(c) PROVE IInv'
  <2>1. CASE HostDisconnect(c)
    <3>1. peers = {c} /\ connecting = None /\ link = {} /\ synced = TRUE /\ forever
          /\ pc \notin {"init", "start", "advertise"}
      BY <2>1 DEF HostDisconnect, IInv, Occupants, Silent
    <3>2. Occupants' = {} /\ link' = {} /\ connecting' = None /\ peers' = {} /\ synced' = TRUE
          /\ pc' = pc
      BY <2>1, <3>1 DEF HostDisconnect, Occupants
    <3>3. QED BY <2>1, <3>1, <3>2, StartIsSafe DEF HostDisconnect
  <2>2. CASE HostRead(c)
    BY <2>2 DEF HostRead, IInv, Occupants, Silent
  <2>3. CASE HostSubscribe(c)
    BY <2>3 DEF HostSubscribe, IInv, Occupants, Silent
  <2>4. CASE HostWrite(c)
    BY <2>4 DEF HostWrite, IInv, Occupants, Silent
  <2>5. CASE HostRefuse(c)
    BY <2>5 DEF HostRefuse, IInv, Occupants, Silent
  <2>6. QED BY <1>4, <2>1, <2>2, <2>3, <2>4, <2>5 DEF HostEvent
<1>5. CASE SetOutput("host") \/ Notify \/ Answer
  BY <1>5 DEF SetOutput, Notify, Answer, IInv, Occupants, Silent
<1>6. QED BY <1>1, <1>2, <1>3, <1>4, <1>5 DEF HostTask

LEMMA EnvironmentPreserves == ~ ResetInStart /\ IInv /\ Environment => IInv'
<1> SUFFICES ASSUME ~ ResetInStart, IInv, Environment PROVE IInv'
  OBVIOUS
<1> USE ClientAssumption DEF radioVars, clientVars, boundVars
<1>1. CASE HostReset
  BY <1>1 DEF HostReset, IInv, Occupants, Silent
<1>2. ASSUME NEW c \in Client, Connect(c) PROVE IInv'
  <2>1. Occupants = {} /\ connecting = None /\ synced = TRUE /\ forever
        /\ pc \notin {"init", "start", "advertise"} /\ link = {} /\ peers = {}
    BY <1>2 DEF Connect, IInv, Silent, Occupants
  <2>2. /\ link' = {c} /\ connecting' = c /\ peers' = {} /\ ~ advertising'
        /\ advertising' \in BOOLEAN /\ synced' = TRUE /\ pc' = pc /\ forever' = forever
    BY <1>2, <2>1 DEF Connect
  <2>3. Occupants' = {c}
    BY <2>2 DEF Occupants
  <2>4. QED BY <2>1, <2>2, <2>3 DEF IInv, Silent
<1>3. ASSUME NEW c \in Client, Drop(c) PROVE IInv'
  BY <1>3 DEF Drop, IInv, Occupants, Silent
<1>4. ASSUME NEW c \in Client, NEW r \in Request, Send(c, r) PROVE IInv'
  BY <1>4 DEF Send, IInv, Occupants, Silent
<1>5. QED BY <1>1, <1>2, <1>3, <1>4 DEF Environment

LEMMA InductiveInvariant ==
    ASSUME ~ ResetInStart
    PROVE  Spec => []IInv
<1>1. IInv /\ [Next]_vars => IInv'
  <2> SUFFICES ASSUME IInv, [Next]_vars PROVE IInv'
    OBVIOUS
  <2>1. CASE UNCHANGED vars
    BY <2>1 DEF vars, radioVars, clientVars, IInv, Occupants, Silent
  <2>2. CASE Next
    BY <2>2, SetupPreserves, HostPreserves, EnvironmentPreserves DEF Next
  <2>3. QED BY <2>1, <2>2
<1>2. QED BY <1>1, InitEstablishes, PTL DEF Spec

\* At most one client is connected at any time, although the server would accept
\* as many as NIMBLE_MAX_CONNECTIONS.
THEOREM OneClient ==
    ASSUME ~ ResetInStart
    PROVE  Spec => []OneClientAtATime
<1>1. IInv => OneClientAtATime
  <2> SUFFICES ASSUME IInv PROVE OneClientAtATime
    OBVIOUS
  <2>1. link = {} \/ \E c \in Client : link \in SUBSET {c}
    BY DEF IInv, Silent
  <2>2. \A c : IsFiniteSet({c}) /\ Cardinality({c}) = 1
    BY FS_Singleton
  <2>3. Cardinality({}) = 0
    BY FS_EmptySet
  <2>4. CASE link = {}
    BY <2>3, <2>4 DEF OneClientAtATime
  <2>5. ASSUME NEW c \in Client, link \in SUBSET {c} PROVE OneClientAtATime
    <3>1. link = {} \/ link = {c}
      BY <2>5
    <3>2. QED BY <2>2, <2>3, <3>1 DEF OneClientAtATime
  <2>6. QED BY <2>1, <2>4, <2>5
<1>2. QED BY <1>1, InductiveInvariant, PTL
-----------------------------------------------------------------------------
(***************************************************************************)
(* Type correctness, and the lifetime of a payload: for any build and any  *)
(* resets.  A task at a step of eth_signHashedMessage has a message.       *)
(***************************************************************************)
Busy == \A t \in Task : job[t].step # 0 => job[t].message \in Value

TypeInv == TypeOK /\ Busy

LEMMA IdleIsAJob == Idle \in Job /\ Idle.step = 0
BY DEF Idle, Job, Input

\* The setup task begins with the test message.
TestJob == [Idle EXCEPT !.message = TestMessage, !.step = 1]

LEMMA TestIsAJob == TestJob \in Job /\ TestJob.message \in Value
<1>1. TestMessage \in Value /\ 1 \in 0 .. 7
  BY DEF Value
<1>2. TestJob.message = TestMessage
  BY DEF TestJob, Idle
<1>3. TestJob \in Job
  BY <1>1, IdleIsAJob DEF TestJob, Job
<1>4. QED BY <1>1, <1>2, <1>3

LEMMA TypeInit == Init => TypeInv
<1> SUFFICES ASSUME Init PROVE TypeInv
  OBVIOUS
<1>1. DefaultText \in Value /\ 0 \in 0 .. MaxResets /\ 0 \in 0 .. MaxWrites
  BY BoundAssumption DEF Value
<1>2. job \in [Task -> Job] /\ \A t \in Task : job[t].step = 0
  BY IdleIsAJob DEF Init
<1>3. seen \in [Client -> [Output -> Value \cup {None}]]
  BY DEF Init, Nothing
<1>4. QED BY <1>1, <1>2, <1>3 DEF Init, TypeInv, TypeOK, Busy

\* The outputs are three characteristics.
LEMMA OutputsAreThree ==
    /\ \A i \in 1 .. 3 : OutputOf(i) \in Output
    /\ \A o \in Output : o = OutputOf(1) \/ o = OutputOf(2) \/ o = OutputOf(3)
<1>1. /\ OutputOf(1) = "C001" /\ OutputOf(2) = "C002" /\ OutputOf(3) = "C008"
  BY DEF OutputOf, Outputs
<1>2. \A i \in 1 .. 3 : i = 1 \/ i = 2 \/ i = 3
  OBVIOUS
<1>3. Output = {OutputOf(i) : i \in 1 .. 3}
  BY DEF Output, OutputOf
<1>4. QED BY <1>1, <1>2, <1>3

\* The jobs of the tasks, typed: one that is replaced, and one that goes on.
Jobs == job \in [Task -> Job] /\ Busy

LEMMA ReplaceJob ==
    ASSUME Jobs, NEW t \in Task, NEW j \in Job, j.step = 0 \/ j.message \in Value,
           job' = [job EXCEPT ![t] = j]
    PROVE  Jobs'
BY DEF Jobs, Busy

LEMMA StepJob ==
    ASSUME Jobs, NEW t \in Task, NEW s \in 0 .. 7, job[t].step # 0,
           job' = [job EXCEPT ![t].step = s]
    PROVE  Jobs'
<1>1. PICK m \in Value \cup {None}, c \in Client \cup {None}, i \in Input, k \in 0 .. 7 :
        job[t] = [message |-> m, client |-> c, input |-> i, step |-> k]
  BY DEF Jobs, Job
<1>2. m \in Value
  BY <1>1 DEF Jobs, Busy
<1> DEFINE j == [message |-> m, client |-> c, input |-> i, step |-> s]
<1>3. [job[t] EXCEPT !.step = s] = j
  BY <1>1
<1>4. j \in Job /\ j.message \in Value
  BY <1>2 DEF Job
<1> HIDE DEF j
<1>5. job' = [job EXCEPT ![t] = j]
  <2>1. job' = [job EXCEPT ![t] = [job[t] EXCEPT !.step = s]]
    OBVIOUS
  <2>2. QED BY <1>3, <2>1
<1>6. QED BY <1>4, <1>5, ReplaceJob

LEMMA StartIsTyped ==
    ASSUME TypeOK, NEW s, NEW inUse, StartAdvertising(s, inUse)
    PROVE  /\ advertising' \in BOOLEAN
           /\ forever' \in BOOLEAN
           /\ advertising' => advertising \/ (s /\ connecting' = None)
BY DEF StartAdvertising, MayStart, BelievesToAdvertise, TypeOK

LEMMA SetOutputTyped ==
    ASSUME TypeInv, NEW t \in Task, SetOutput(t)
    PROVE  Jobs' /\ outputs' \in [Output -> Value]
<1>1. job[t].step \in 1 .. 3 /\ job[t].message \in Value /\ Jobs
  BY DEF TypeInv, TypeOK, Busy, SetOutput, Jobs
<1>2. outputs' \in [Output -> Value]
  BY <1>1 DEF SetOutput, TypeInv, TypeOK
<1>3. ASSUME t = "setup" /\ job[t].step = 3 PROVE Jobs'
  <2>1. job' = [job EXCEPT ![t] = Idle]
    BY <1>3 DEF SetOutput
  <2>2. QED BY <1>1, <2>1, ReplaceJob, IdleIsAJob
<1>4. ASSUME ~ (t = "setup" /\ job[t].step = 3) PROVE Jobs'
  <2>1. job' = [job EXCEPT ![t].step = job[t].step + 1]
    BY <1>1, <1>4 DEF SetOutput, NextStep, Jobs
  <2>2. job[t].step + 1 \in 0 .. 7 /\ job[t].step # 0
    BY <1>1
  <2>3. QED BY <1>1, <2>1, <2>2, StepJob
<1>5. QED BY <1>2, <1>3, <1>4

LEMMA ReceivedTyped ==
    ASSUME TypeOK, NEW c \in Client, NEW o \in Output
    PROVE  Received(seen, c, o) \in [Client -> [Output -> Value \cup {None}]]
BY DEF TypeOK, Received

LEMMA SetupKeepsTypes == TypeInv /\ SetupTask => TypeInv'
<1> SUFFICES ASSUME TypeInv, SetupTask PROVE TypeInv'
  OBVIOUS
<1> USE DEF radioVars, valueVars, clientVars, boundVars
<1>1. CASE CreateServer
  BY <1>1 DEF CreateServer, TypeInv, TypeOK, Busy
<1>2. ASSUME AfterServer PROVE Jobs'
  <2>1. Jobs /\ "setup" \in Task
    BY DEF TypeInv, TypeOK, Jobs, Task
  <2>2. CASE DebugSerial
    BY <1>2, <2>1, <2>2, TestIsAJob, ReplaceJob DEF AfterServer, TestJob
  <2>3. CASE ~ DebugSerial
    BY <1>2, <2>1, <2>3 DEF AfterServer, Jobs, Busy
  <2>4. QED BY <2>2, <2>3
<1>3. CASE StartServer
  <2>1. Jobs'
    BY <1>2, <1>3 DEF StartServer, TypeInv, TypeOK, Jobs, Busy
  <2>2. pc' \in {"advertise", "loop"} /\ forever' \in BOOLEAN
    BY <1>3 DEF StartServer, AfterServer, TypeInv, TypeOK
  <2>3. QED BY <1>3, <2>1, <2>2 DEF StartServer, TypeInv, TypeOK, Jobs
<1>4. CASE AdvertiseServer
  <2>1. Jobs' /\ pc' = "loop"
    BY <1>2, <1>4 DEF AdvertiseServer, AfterServer
  <2>2. advertising' \in BOOLEAN /\ (advertising' => synced' /\ connecting' = None)
    BY <1>4 DEF AdvertiseServer, MayStart, BelievesToAdvertise, TypeInv, TypeOK
  <2>3. QED BY <1>4, <2>1, <2>2 DEF AdvertiseServer, TypeInv, TypeOK, Jobs
<1>5. CASE SetOutput("setup")
  <2>1. Jobs' /\ outputs' \in [Output -> Value]
    BY <1>5, SetOutputTyped DEF Task
  <2>2. QED BY <1>5, <2>1 DEF SetOutput, TypeInv, TypeOK, Jobs
<1>6. QED BY <1>1, <1>3, <1>4, <1>5 DEF SetupTask

LEMMA HostLinkKeepsTypes ==
    ASSUME TypeInv, Sync \/ HostConnect \/ HostConnectFails
    PROVE  TypeInv'
<1> USE DEF radioVars, valueVars, clientVars, boundVars
<1>1. CASE Sync
  <2>1. advertising' \in BOOLEAN /\ (advertising' => synced' /\ connecting' = None)
        /\ forever' \in BOOLEAN
    BY <1>1, StartIsTyped DEF Sync, TypeInv, TypeOK
  <2>2. QED BY <1>1, <2>1 DEF Sync, TypeInv, TypeOK, Busy
<1>2. CASE HostConnect
  BY <1>2 DEF HostConnect, TypeInv, TypeOK, Busy
<1>3. CASE HostConnectFails
  <2>1. advertising' \in BOOLEAN /\ (advertising' => synced' /\ connecting' = None)
        /\ forever' \in BOOLEAN
    BY <1>3, StartIsTyped DEF HostConnectFails, TypeInv, TypeOK
  <2>2. seen' \in [Client -> [Output -> Value \cup {None}]]
    BY <1>3 DEF HostConnectFails, Nothing, TypeInv, TypeOK
  <2>3. QED BY <1>3, <2>1, <2>2 DEF HostConnectFails, TypeInv, TypeOK, Busy
<1>4. QED BY <1>1, <1>2, <1>3

LEMMA HostEventKeepsTypes ==
    ASSUME TypeInv, NEW c \in Client, HostEvent(c)
    PROVE  TypeInv'
<1> USE DEF radioVars, valueVars, clientVars, boundVars
<1>1. CASE HostDisconnect(c)
  <2>1. advertising' \in BOOLEAN /\ (advertising' => synced' /\ connecting' = None)
        /\ forever' \in BOOLEAN
    BY <1>1, StartIsTyped DEF HostDisconnect, TypeInv, TypeOK
  <2>2. QED BY <1>1, <2>1 DEF HostDisconnect, TypeInv, TypeOK, Busy
<1>2. CASE HostRead(c)
  <2>1. request[c].char \in Output
    BY <1>2 DEF HostRead, Handles, Request, TypeInv, TypeOK
  <2>2. seen' \in [Client -> [Output -> Value \cup {None}]]
    BY <1>2, <2>1, ReceivedTyped DEF HostRead, TypeInv
  <2>3. QED BY <1>2, <2>2 DEF HostRead, TypeInv, TypeOK, Busy
<1>3. CASE HostSubscribe(c)
  <2>1. subscribers' \in [Output -> SUBSET Client]
    BY <1>3 DEF HostSubscribe, TypeInv, TypeOK
  <2>2. QED BY <1>3, <2>1 DEF HostSubscribe, TypeInv, TypeOK, Busy
<1>4. CASE HostWrite(c)
  <2>1. request[c].char \in Input /\ request[c].message \in Message
    BY <1>4 DEF HostWrite, Handles, Request, TypeInv, TypeOK
  <2>2. request[c].message \in Value
    BY <2>1 DEF Value
  <2>3. Jobs'
    <3> DEFINE j == [message |-> request[c].message, client |-> c,
                     input |-> request[c].char, step |-> 1]
    <3>1. j \in Job /\ j.message \in Value
      BY <2>1, <2>2 DEF Job
    <3>2. Jobs /\ "host" \in Task /\ job' = [job EXCEPT !["host"] = j]
      BY <1>4 DEF HostWrite, TypeInv, TypeOK, Jobs, Task
    <3> HIDE DEF j
    <3>3. QED BY <3>1, <3>2, ReplaceJob
  <2>4. inputs' \in [Input -> Value]
    BY <1>4, <2>1, <2>2 DEF HostWrite, TypeInv, TypeOK
  <2>5. QED BY <1>4, <2>3, <2>4 DEF HostWrite, TypeInv, TypeOK, Jobs
<1>5. CASE HostRefuse(c)
  <2>1. seen' \in [Client -> [Output -> Value \cup {None}]]
    BY <1>5 DEF HostRefuse, Nothing, TypeInv, TypeOK
  <2>2. QED BY <1>5, <2>1 DEF HostRefuse, TypeInv, TypeOK, Busy
<1>6. QED BY <1>1, <1>2, <1>3, <1>4, <1>5 DEF HostEvent

LEMMA HostJobKeepsTypes ==
    ASSUME TypeInv, SetOutput("host") \/ Notify \/ Answer
    PROVE  TypeInv'
<1> USE DEF radioVars, valueVars, clientVars, boundVars
<1>1. Jobs /\ "host" \in Task
  BY DEF TypeInv, TypeOK, Jobs, Task
<1>2. CASE SetOutput("host")
  <2>1. Jobs' /\ outputs' \in [Output -> Value]
    BY <1>1, <1>2, SetOutputTyped
  <2>2. QED BY <1>2, <2>1 DEF SetOutput, TypeInv, TypeOK, Jobs
<1>3. CASE Notify
  <2>1. job["host"].step \in 4 .. 6
    BY <1>3 DEF Notify
  <2>2. Jobs'
    <3>1. job' = [job EXCEPT !["host"].step = job["host"].step + 1]
      BY <1>1, <1>3 DEF Notify, Jobs
    <3>2. job["host"].step + 1 \in 0 .. 7 /\ job["host"].step # 0
      BY <2>1
    <3>3. QED BY <1>1, <3>1, <3>2, StepJob
  <2>3. PICK o \in Output :
          seen' = [c \in Client |-> IF c \in subscribers[o] \cap peers
                                     THEN Received(seen, c, o)[c] ELSE seen[c]]
    <3>1. OutputOf(job["host"].step - 3) \in Output
      BY <2>1, OutputsAreThree
    <3>2. QED BY <1>3, <3>1 DEF Notify
  <2>4. seen' \in [Client -> [Output -> Value \cup {None}]]
    BY <2>3, ReceivedTyped DEF TypeInv, TypeOK
  <2>5. QED BY <1>3, <2>2, <2>4 DEF Notify, TypeInv, TypeOK, Jobs
<1>4. CASE Answer
  <2>1. Jobs'
    BY <1>1, <1>4, IdleIsAJob, ReplaceJob DEF Answer
  <2>2. DefaultText \in Value
    BY DEF Value
  <2>3. inputs' \in [Input -> Value] /\ request' \in [Client -> Request \cup {None}]
    BY <1>4, <2>2 DEF Answer, TypeInv, TypeOK
  <2>4. QED BY <1>4, <2>1, <2>3 DEF Answer, TypeInv, TypeOK, Jobs
<1>5. QED BY <1>2, <1>3, <1>4

LEMMA EnvironmentKeepsTypes == TypeInv /\ Environment => TypeInv'
<1> SUFFICES ASSUME TypeInv, Environment PROVE TypeInv'
  OBVIOUS
<1> USE BoundAssumption DEF radioVars, valueVars, clientVars, boundVars
<1>0. Nothing \in [Output -> Value \cup {None}]
  BY DEF Nothing
<1>1. CASE HostReset
  <2>1. resets' \in 0 .. MaxResets
    BY <1>1 DEF HostReset, TypeInv, TypeOK
  <2>2. QED BY <1>0, <1>1, <2>1 DEF HostReset, TypeInv, TypeOK, Busy
<1>2. ASSUME NEW c \in Client, Connect(c) PROVE TypeInv'
  BY <1>2 DEF Connect, TypeInv, TypeOK, Busy
<1>3. ASSUME NEW c \in Client, Drop(c) PROVE TypeInv'
  BY <1>0, <1>3 DEF Drop, TypeInv, TypeOK, Busy
<1>4. ASSUME NEW c \in Client, NEW r \in Request, Send(c, r) PROVE TypeInv'
  <2>1. r.kind = "write" => r.message \in Message
    BY DEF Request
  <2>2. r.kind = "write" => writes' \in 0 .. MaxWrites
    BY <1>4 DEF Send, TypeInv, TypeOK
  <2>3. QED BY <1>0, <1>4, <2>1, <2>2 DEF Send, TypeInv, TypeOK, Busy
<1>5. QED BY <1>1, <1>2, <1>3, <1>4 DEF Environment

LEMMA TypeInvariant == Spec => []TypeInv
<1>1. TypeInv /\ [Next]_vars => TypeInv'
  <2> SUFFICES ASSUME TypeInv, [Next]_vars PROVE TypeInv'
    OBVIOUS
  <2>1. CASE UNCHANGED vars
    BY <2>1 DEF vars, radioVars, valueVars, clientVars, boundVars, TypeInv, TypeOK, Busy
  <2>2. CASE HostTask
    BY <2>2, HostLinkKeepsTypes, HostEventKeepsTypes, HostJobKeepsTypes DEF HostTask
  <2>3. QED BY <2>1, <2>2, SetupKeepsTypes, EnvironmentKeepsTypes DEF Next
<1>2. QED BY <1>1, TypeInit, PTL DEF Spec

\* The state is well formed, and an advertising host is synced and has no
\* connection to handle, in every build and whenever the host is reset.
THEOREM TypeCorrect == Spec => []TypeOK
BY TypeInvariant, PTL DEF TypeInv

-----------------------------------------------------------------------------
\* Where the inputs and the job of the host task change.
LEMMA InputsAndJob ==
    ASSUME TypeInv, Next
    PROVE  \/ UNCHANGED <<inputs, job>>
           \/ /\ UNCHANGED inputs
              /\ job'["host"] = job["host"]
           \/ /\ UNCHANGED inputs
              /\ ~ HostIdle /\ ~ HostIdle'
              /\ job'["host"] = [job["host"] EXCEPT !.step = job'["host"].step]
           \/ \E c \in Client : HostWrite(c)
           \/ Answer
<1> USE DEF radioVars, valueVars, clientVars, boundVars
<1>0. Task = {"setup", "host"} /\ job \in [Task -> Job] /\ \A t \in Task : job[t].step \in 0 .. 7
  BY DEF Task, TypeInv, TypeOK, Job
<1>1. CASE SetupTask
  BY <1>0, <1>1 DEF SetupTask, CreateServer, StartServer, AdvertiseServer, AfterServer, SetOutput
<1>2. CASE Sync \/ HostConnect \/ HostConnectFails \/ Environment
  BY <1>2 DEF Sync, HostConnect, HostConnectFails, Environment, HostReset, Connect, Drop, Send
<1>3. CASE SetOutput("host")
  <2>1. job["host"].step \in 1 .. 3 /\ job' = [job EXCEPT !["host"].step = job["host"].step + 1]
    BY <1>0, <1>3 DEF SetOutput, NextStep
  <2>2. /\ job'["host"] = [job["host"] EXCEPT !.step = job["host"].step + 1]
        /\ job'["host"].step = job["host"].step + 1
    BY <1>0, <2>1 DEF Job
  <2>3. QED BY <1>3, <2>1, <2>2 DEF SetOutput, HostIdle
<1>4. CASE Notify
  <2>1. job["host"].step \in 4 .. 6 /\ job' = [job EXCEPT !["host"].step = job["host"].step + 1]
    BY <1>0, <1>4 DEF Notify
  <2>2. /\ job'["host"] = [job["host"] EXCEPT !.step = job["host"].step + 1]
        /\ job'["host"].step = job["host"].step + 1
    BY <1>0, <2>1 DEF Job
  <2>3. QED BY <1>4, <2>1, <2>2 DEF Notify, HostIdle
<1>5. ASSUME NEW c \in Client, HostEvent(c), ~ HostWrite(c) PROVE UNCHANGED <<inputs, job>>
  BY <1>5 DEF HostEvent, HostDisconnect, HostRead, HostSubscribe, HostRefuse
<1>6. QED BY <1>1, <1>2, <1>3, <1>4, <1>5 DEF Next, HostTask

LEMMA PayloadsKept == TypeInv /\ PayloadsAreTransient /\ [Next]_vars => PayloadsAreTransient'
<1> SUFFICES ASSUME TypeInv, PayloadsAreTransient, [Next]_vars PROVE PayloadsAreTransient'
  OBVIOUS
<1>0. "host" \in Task /\ job \in [Task -> Job] /\ inputs \in [Input -> Value]
  BY DEF Task, TypeInv, TypeOK
<1>1. CASE UNCHANGED vars
  BY <1>1 DEF vars, valueVars, PayloadsAreTransient, HostIdle
<1>2. CASE UNCHANGED <<inputs, job>> \/ (UNCHANGED inputs /\ job'["host"] = job["host"])
  BY <1>2 DEF PayloadsAreTransient, HostIdle
<1>3. CASE /\ UNCHANGED inputs /\ ~ HostIdle /\ ~ HostIdle'
           /\ job'["host"] = [job["host"] EXCEPT !.step = job'["host"].step]
  <2>1. job'["host"].input = job["host"].input /\ job'["host"].message = job["host"].message
    BY <1>0, <1>3 DEF Job
  <2>2. QED BY <1>3, <2>1 DEF PayloadsAreTransient
<1>4. ASSUME NEW c \in Client, HostWrite(c) PROVE PayloadsAreTransient'
  <2>1. \A i \in Input : inputs[i] = DefaultText
    BY <1>4 DEF HostWrite, Handles, PayloadsAreTransient
  <2>2. /\ inputs' = [inputs EXCEPT ![request[c].char] = request[c].message]
        /\ job'["host"] = [message |-> request[c].message, client |-> c,
                           input |-> request[c].char, step |-> 1]
    BY <1>0, <1>4 DEF HostWrite
  <2>3. QED BY <1>0, <2>1, <2>2 DEF PayloadsAreTransient, HostIdle
<1>5. CASE Answer
  <2>1. inputs' = [inputs EXCEPT ![job["host"].input] = DefaultText]
    BY <1>5 DEF Answer, InputOf
  <2>2. \A i \in Input : inputs'[i] = DefaultText
    BY <1>0, <2>1 DEF PayloadsAreTransient
  <2>3. QED BY <2>2 DEF PayloadsAreTransient
<1>6. QED BY <1>1, <1>2, <1>3, <1>4, <1>5, InputsAndJob

\* Of a payload nothing is left in its characteristic when its callback has ended,
\* in every build and whenever connections or the host fail.
THEOREM PayloadsEnd == Spec => []PayloadsAreTransient
<1>1. Init => PayloadsAreTransient
  BY DEF Init, PayloadsAreTransient
<1>2. Spec => []TypeInv
  BY TypeInvariant
<1>3. QED BY <1>1, <1>2, PayloadsKept, PTL DEF Spec
-----------------------------------------------------------------------------
(***************************************************************************)
(* What a client receives, in a release build that is not reset during     *)
(* setup().  Since there is one client, the request that the host task     *)
(* works on is that of the client of the radio, or of one that is gone;    *)
(* whoever waits for no signature finds its own in the outputs.            *)
(***************************************************************************)
Writing(c) == request[c] # None /\ request[c].kind = "write"

HostJob == job["host"]

\* The host task signs for the only client, and as many outputs are filled as it has got to.
Signing == /\ HostJob.client \in Client /\ peers = {HostJob.client}
           /\ HostJob.client \in link =>
                 /\ Writing(HostJob.client)
                 /\ request[HostJob.client].message = HostJob.message
                 /\ \A k \in 1 .. 3 : k < HostJob.step => outputs[OutputOf(k)] = HostJob.message

Requests == /\ \A c \in Client : c \notin Occupants => request[c] = None
            /\ \A c \in Client : wrote[c] # None => c \in link
            /\ \A c \in link : Writing(c) => wrote[c] = request[c].message

Settled == \A c \in Client : wrote[c] # None /\ ~ Writing(c) => \A o \in Output : outputs[o] = wrote[c]

AInv == /\ job["setup"].step = 0
        /\ ~ HostIdle => Signing
        /\ Requests
        /\ Settled
        /\ AnswersMatchWrites

Inv == TypeInv /\ IInv /\ AInv

LEMMA AnswersInit == Init => AInv
BY IdleIsAJob DEF Init, AInv, HostIdle, Requests, Settled, AnswersMatchWrites, Task, Writing

\* While the host task signs, nobody else is connected.
LEMMA OnlyClient ==
    ASSUME Inv, ~ HostIdle
    PROVE  /\ connecting = None
           /\ Occupants = {HostJob.client}
           /\ link \subseteq {HostJob.client}
BY ClientAssumption DEF Inv, AInv, Signing, IInv, Occupants

\* A client that is connected while the host task signs is the one it signs for.
LEMMA SignedFor ==
    ASSUME Inv, ~ HostIdle, NEW c \in Client, wrote[c] # None
    PROVE  /\ c = HostJob.client /\ c \in link /\ Writing(c)
           /\ wrote[c] = HostJob.message
           /\ \A k \in 1 .. 3 : k < HostJob.step => outputs[OutputOf(k)] = HostJob.message
BY OnlyClient DEF Inv, AInv, Requests, Signing

-----------------------------------------------------------------------------
LEMMA SetupKeepsAnswers ==
    ASSUME ~ DebugSerial, Inv, SetupTask
    PROVE  AInv'
<1> USE DEF radioVars, valueVars, clientVars, boundVars
<1>1. UNCHANGED <<connecting, peers, request, wrote, seen, link, outputs, job>>
  BY DEF SetupTask, CreateServer, StartServer, AdvertiseServer, AfterServer, SetOutput, Inv, AInv
<1>2. QED BY <1>1 DEF Inv, AInv, HostIdle, Signing, HostJob, Writing, Requests, Occupants,
                      Settled, AnswersMatchWrites

LEMMA HostLinkKeepsAnswers ==
    ASSUME Inv, Sync \/ HostConnect \/ HostConnectFails
    PROVE  AInv'
<1> USE DEF radioVars, valueVars, clientVars, boundVars
<1>1. HostIdle /\ UNCHANGED <<outputs, job>> /\ HostIdle'
  BY DEF Sync, HostConnect, HostConnectFails, HostIdle
<1>2. CASE Sync \/ HostConnect
  <2>1. UNCHANGED <<request, wrote, seen, link>> /\ Occupants' = Occupants
    BY <1>2, ClientAssumption DEF Sync, HostConnect, Inv, IInv, Occupants
  <2>2. QED BY <1>1, <2>1 DEF Inv, AInv, Writing, Requests, Settled, AnswersMatchWrites
<1>3. CASE HostConnectFails
  <2>1. /\ connecting # None /\ connecting' = None /\ UNCHANGED peers /\ peers = {}
        /\ link' = link \ {connecting}
        /\ request' = [request EXCEPT ![connecting] = None]
        /\ wrote' = [wrote EXCEPT ![connecting] = None]
        /\ seen' = [seen EXCEPT ![connecting] = Nothing]
    BY <1>3 DEF HostConnectFails, Inv, IInv
  <2>2. Occupants = {connecting} /\ link' = {}
    BY <2>1 DEF Inv, IInv, Occupants
  <2>3. \A c \in Client : request'[c] = None /\ wrote'[c] = None
    BY <2>1, <2>2 DEF Inv, AInv, Requests, TypeInv, TypeOK
  <2>4. QED BY <1>1, <2>2, <2>3 DEF Inv, AInv, Writing, Requests, Settled, AnswersMatchWrites
<1>4. QED BY <1>2, <1>3

LEMMA DisconnectKeepsAnswers ==
    ASSUME Inv, NEW c \in Client, HostDisconnect(c)
    PROVE  AInv'
<1> USE DEF radioVars, valueVars, clientVars, boundVars
<1>1. /\ HostIdle /\ UNCHANGED <<outputs, job, link, wrote, seen, connecting>> /\ HostIdle'
      /\ c \in peers /\ c \notin link /\ peers' = peers \ {c}
      /\ request' = [request EXCEPT ![c] = None]
  BY DEF HostDisconnect, HostIdle
<1>2. connecting = None /\ Occupants = {c} /\ link = {}
  BY <1>1, ClientAssumption DEF Inv, IInv, Silent, Occupants
<1>3. \A d \in Client : request'[d] = None /\ wrote'[d] = None
  BY <1>1, <1>2 DEF Inv, AInv, Requests, TypeInv, TypeOK
<1>4. QED BY <1>1, <1>2, <1>3 DEF Inv, AInv, Writing, Requests, Settled, AnswersMatchWrites

LEMMA ReadKeepsAnswers ==
    ASSUME Inv, NEW c \in Client, HostRead(c) \/ HostSubscribe(c)
    PROVE  AInv'
<1> USE DEF radioVars, valueVars, clientVars, boundVars
<1>1. /\ HostIdle /\ UNCHANGED <<outputs, job, link, wrote, connecting, peers>> /\ HostIdle'
      /\ request[c] # None /\ ~ Writing(c)
      /\ request' = [request EXCEPT ![c] = None]
  BY DEF HostRead, HostSubscribe, Handles, HostIdle, Writing
<1>2. Requests' /\ Settled'
  BY <1>1 DEF Inv, AInv, Requests, Settled, Writing, Occupants, TypeInv, TypeOK
<1>3. AnswersMatchWrites'
  <2>1. CASE HostRead(c)
    <3>1. /\ request[c].char \in Output
          /\ seen' = Received(seen, c, request[c].char)
      BY <2>1 DEF HostRead, Handles, Inv, TypeInv, TypeOK, Request
    <3>2. wrote[c] # None => outputs[request[c].char] = wrote[c]
      BY <1>1, <3>1 DEF Inv, AInv, Settled
    <3>3. QED BY <1>1, <3>1, <3>2 DEF Received, Inv, AInv, AnswersMatchWrites, TypeInv, TypeOK
  <2>2. CASE HostSubscribe(c)
    BY <1>1, <2>2 DEF HostSubscribe, Inv, AInv, AnswersMatchWrites
  <2>3. QED BY <2>1, <2>2
<1>4. QED BY <1>1, <1>2, <1>3 DEF Inv, AInv

LEMMA WriteKeepsAnswers ==
    ASSUME Inv, NEW c \in Client, HostWrite(c)
    PROVE  AInv'
<1> USE DEF radioVars, valueVars, clientVars, boundVars
<1>1. /\ UNCHANGED <<outputs, link, wrote, seen, request, connecting, peers>>
      /\ c \in peers /\ Writing(c)
      /\ job' = [job EXCEPT !["host"] = [message |-> request[c].message, client |-> c,
                                        input |-> request[c].char, step |-> 1]]
  BY DEF HostWrite, Handles, Writing
<1>2. /\ HostJob'.client = c /\ HostJob'.message = request[c].message /\ HostJob'.step = 1
      /\ job'["setup"] = job["setup"]
  BY <1>1 DEF HostJob, Task, Inv, TypeInv, TypeOK
<1>3. peers = {c}
  BY <1>1 DEF Inv, IInv, Silent, Occupants
<1>4. Signing'
  BY <1>1, <1>2, <1>3 DEF Signing, Writing
<1>5. QED BY <1>1, <1>2, <1>4 DEF Inv, AInv, Requests, Settled, Writing, Occupants, AnswersMatchWrites

LEMMA RefuseKeepsAnswers ==
    ASSUME Inv, NEW c \in Client, HostRefuse(c)
    PROVE  AInv'
<1> USE DEF radioVars, valueVars, clientVars, boundVars
<1>1. /\ HostIdle /\ UNCHANGED <<outputs, job, link, connecting, peers>> /\ HostIdle'
      /\ request' = [request EXCEPT ![c] = None]
      /\ wrote' = [wrote EXCEPT ![c] = None]
      /\ seen' = [seen EXCEPT ![c] = Nothing]
  BY DEF HostRefuse, Handles, HostIdle
<1>2. /\ request'[c] = None /\ wrote'[c] = None
      /\ \A d \in Client \ {c} : request'[d] = request[d] /\ wrote'[d] = wrote[d] /\ seen'[d] = seen[d]
  BY <1>1 DEF Inv, TypeInv, TypeOK
<1>3. Requests' /\ Settled' /\ AnswersMatchWrites'
  BY <1>1, <1>2 DEF Inv, AInv, Requests, Settled, AnswersMatchWrites, Writing, Occupants
<1>4. QED BY <1>1, <1>3 DEF Inv, AInv

LEMMA SetOutputKeepsAnswers == ASSUME Inv, SetOutput("host") PROVE AInv'
<1> USE DEF radioVars, valueVars, clientVars, boundVars
<1>1. /\ UNCHANGED <<link, wrote, seen, request, connecting, peers>>
      /\ HostJob.step \in 1 .. 3
      /\ outputs' = [outputs EXCEPT ![OutputOf(HostJob.step)] = HostJob.message]
      /\ job' = [job EXCEPT !["host"].step = HostJob.step + 1]
  BY DEF SetOutput, HostJob, NextStep
<1>2. /\ HostJob'.client = HostJob.client /\ HostJob'.message = HostJob.message
      /\ HostJob'.step = HostJob.step + 1
      /\ job'["setup"] = job["setup"]
  BY <1>1 DEF HostJob, Task, Inv, TypeInv, TypeOK, Job
<1>3. ~ HostIdle
  BY <1>1 DEF HostIdle, HostJob
<1>4. OutputOf(HostJob.step) \in Output /\ outputs'[OutputOf(HostJob.step)] = HostJob.message
  BY <1>1, OutputsAreThree DEF Inv, TypeInv, TypeOK
<1>5. \A k \in 1 .. 3 : k < HostJob.step =>
        OutputOf(k) \in Output /\ (outputs[OutputOf(k)] = HostJob.message =>
                                  outputs'[OutputOf(k)] = HostJob.message)
  BY <1>1, OutputsAreThree DEF Inv, TypeInv, TypeOK
<1>6. ASSUME HostJob.client \in link, NEW k \in 1 .. 3, k < HostJob.step + 1
      PROVE  outputs'[OutputOf(k)] = HostJob.message
  <2>1. k = HostJob.step \/ k < HostJob.step
    BY <1>1, <1>6
  <2>2. QED BY <1>3, <1>4, <1>5, <1>6, <2>1 DEF Inv, AInv, Signing
<1>7. Signing'
  BY <1>1, <1>2, <1>3, <1>6 DEF Inv, AInv, Signing, Writing
<1>8. Settled'
  BY <1>1, <1>3, SignedFor DEF Settled, Writing
<1>9. QED BY <1>1, <1>2, <1>7, <1>8 DEF Inv, AInv, Requests, Writing, Occupants, AnswersMatchWrites

LEMMA NotifyKeepsAnswers == ASSUME Inv, Notify PROVE AInv'
<1> USE DEF radioVars, valueVars, clientVars, boundVars
<1>1. /\ UNCHANGED <<outputs, link, wrote, request, connecting, peers>>
      /\ HostJob.step \in 4 .. 6
      /\ job' = [job EXCEPT !["host"].step = HostJob.step + 1]
  BY DEF Notify, HostJob, Inv, TypeInv, TypeOK, Task
<1>2. /\ HostJob'.client = HostJob.client /\ HostJob'.message = HostJob.message
      /\ HostJob'.step = HostJob.step + 1
      /\ job'["setup"] = job["setup"]
  BY <1>1 DEF HostJob, Task, Inv, TypeInv, TypeOK, Job
<1>3. ~ HostIdle
  BY <1>1 DEF HostIdle, HostJob
<1>4. PICK o \in Output :
        seen' = [c \in Client |-> IF c \in subscribers[o] \cap peers
                                   THEN Received(seen, c, o)[c] ELSE seen[c]]
  <2>1. OutputOf(HostJob.step - 3) \in Output
    BY <1>1, OutputsAreThree
  <2>2. QED BY <2>1 DEF Notify, HostJob
<1>5. ASSUME NEW c \in Client, wrote[c] # None
      PROVE  outputs[o] = wrote[c]
  <2>1. \A k \in 1 .. 3 : outputs[OutputOf(k)] = HostJob.message
    BY <1>1, <1>3, <1>5, SignedFor
  <2>2. outputs[o] = HostJob.message
    BY <2>1, OutputsAreThree
  <2>3. QED BY <1>3, <1>5, <2>2, SignedFor
<1>6. AnswersMatchWrites'
  <2> SUFFICES ASSUME NEW c \in Client, NEW p \in Output, wrote[c] # None
               PROVE  seen'[c][p] \in {None, wrote[c]}
    BY <1>1 DEF AnswersMatchWrites
  <2>1. seen[c][p] \in {None, wrote[c]}
    BY DEF Inv, AInv, AnswersMatchWrites
  <2>2. Received(seen, c, o)[c][p] \in {None, wrote[c]}
    BY <1>5, <2>1 DEF Received, Inv, TypeInv, TypeOK
  <2>3. QED BY <1>4, <2>1, <2>2
<1>7. Signing'
  <2>1. \A k \in 1 .. 3 : k < HostJob.step + 1 => k < HostJob.step
    BY <1>1
  <2>2. QED BY <1>1, <1>2, <1>3, <2>1 DEF Inv, AInv, Signing, Writing
<1>8. QED BY <1>1, <1>2, <1>6, <1>7 DEF Inv, AInv, Requests, Settled, Writing, Occupants

LEMMA AnswerKeepsAnswers == ASSUME Inv, Answer PROVE AInv'
<1> USE DEF radioVars, valueVars, clientVars, boundVars
<1>1. /\ UNCHANGED <<outputs, link, wrote, seen, connecting, peers>>
      /\ HostJob.step = 7
      /\ request' = [request EXCEPT ![HostJob.client] = None]
      /\ job' = [job EXCEPT !["host"] = Idle]
  BY DEF Answer, HostJob
<1>2. ~ HostIdle /\ HostIdle' /\ job'["setup"] = job["setup"]
  BY <1>1, IdleIsAJob DEF HostIdle, HostJob, Task, Inv, TypeInv, TypeOK
<1>3. Requests'
  BY <1>1 DEF Inv, AInv, Requests, Writing, Occupants, TypeInv, TypeOK
<1>4. Settled'
  <2> SUFFICES ASSUME NEW c \in Client, wrote[c] # None, NEW o \in Output
               PROVE  outputs[o] = wrote[c]
    BY <1>1 DEF Settled
  <2>1. \A k \in 1 .. 3 : outputs[OutputOf(k)] = HostJob.message
    BY <1>1, <1>2, SignedFor
  <2>2. QED BY <1>2, <2>1, SignedFor, OutputsAreThree
<1>5. QED BY <1>1, <1>2, <1>3, <1>4 DEF Inv, AInv, AnswersMatchWrites

-----------------------------------------------------------------------------
LEMMA ResetKeepsAnswers == ASSUME Inv, HostReset PROVE AInv'
<1>1. /\ HostIdle /\ UNCHANGED <<outputs, job>>
      /\ \A c \in Client : request'[c] = None /\ wrote'[c] = None
      /\ link' = {}
  BY DEF HostReset, valueVars
<1>2. QED BY <1>1 DEF Inv, AInv, HostIdle, Writing, Requests, Settled, AnswersMatchWrites

LEMMA ConnectKeepsAnswers == ASSUME Inv, NEW c \in Client, Connect(c) PROVE AInv'
<1>1. /\ UNCHANGED <<outputs, job, wrote, seen, request, peers>>
      /\ advertising /\ c \notin link /\ link' = link \cup {c} /\ connecting' = c
  BY DEF Connect, valueVars
<1>2. Occupants = {} /\ peers = {}
  BY <1>1 DEF Inv, IInv, Silent, Occupants
<1>3. HostIdle /\ HostIdle'
  BY <1>1, <1>2, OnlyClient DEF HostIdle
<1>4. ~ Writing(c) /\ Occupants' = {c}
  BY <1>1, <1>2, ClientAssumption DEF Inv, AInv, Requests, Writing, Occupants
<1>5. Requests'
  BY <1>1, <1>2, <1>4 DEF Inv, AInv, Requests, Writing
<1>6. QED BY <1>1, <1>3, <1>5 DEF Inv, AInv, Settled, AnswersMatchWrites, Writing

LEMMA DropKeepsAnswers == ASSUME Inv, NEW c \in Client, Drop(c) PROVE AInv'
<1>1. /\ UNCHANGED <<outputs, job, peers, connecting>>
      /\ link' = link \ {c}
      /\ request' = request \/ request' = [request EXCEPT ![c] = None]
      /\ wrote' = [wrote EXCEPT ![c] = None]
      /\ seen' = [seen EXCEPT ![c] = Nothing]
  BY DEF Drop, valueVars, radioVars
<1>2. /\ wrote'[c] = None
      /\ request'[c] \in {None, request[c]}
      /\ \A d \in Client \ {c} : request'[d] = request[d] /\ wrote'[d] = wrote[d] /\ seen'[d] = seen[d]
  BY <1>1 DEF Inv, TypeInv, TypeOK
<1>3. Requests' /\ Settled' /\ AnswersMatchWrites'
  BY <1>1, <1>2 DEF Inv, AInv, Requests, Settled, AnswersMatchWrites, Writing, Occupants,
                    IInv, TypeInv, TypeOK
<1>4. ~ HostIdle => Signing'
  BY <1>1, <1>2 DEF Inv, AInv, Signing, HostJob, Writing
<1>5. QED BY <1>1, <1>3, <1>4 DEF Inv, AInv, HostIdle

LEMMA SendKeepsAnswers ==
    ASSUME Inv, NEW c \in Client, NEW r \in Request, Send(c, r)
    PROVE  AInv'
<1>1. /\ UNCHANGED <<outputs, job, peers, connecting, link>>
      /\ c \in link /\ request[c] = None
      /\ request' = [request EXCEPT ![c] = r]
      /\ IF r.kind = "write"
         THEN wrote' = [wrote EXCEPT ![c] = r.message] /\ seen' = [seen EXCEPT ![c] = Nothing]
         ELSE UNCHANGED <<wrote, seen>>
  BY DEF Send, valueVars, radioVars
<1>2. /\ request'[c] = r
      /\ \A d \in Client \ {c} : /\ request'[d] = request[d]
                                  /\ wrote'[d] = wrote[d] /\ seen'[d] = seen[d]
      /\ r.kind = "write" => wrote'[c] = r.message /\ seen'[c] = Nothing
      /\ r.kind # "write" => wrote'[c] = wrote[c] /\ seen'[c] = seen[c]
  BY <1>1 DEF Inv, TypeInv, TypeOK
<1>3. HostIdle /\ HostIdle'
  <2>1. c \notin link \/ HostIdle
    BY <1>1, OnlyClient DEF Inv, AInv, Signing, Writing
  <2>2. QED BY <1>1, <2>1 DEF HostIdle
<1>4. \A o \in Output : r.kind = "write" => seen'[c][o] = None
  BY <1>2 DEF Nothing
<1>5. c \in Occupants /\ ~ Writing(c)
  BY <1>1 DEF Inv, IInv, Writing
<1>6. Requests'
  <2>1. link \subseteq Client /\ Occupants' = Occupants
    BY <1>1 DEF Inv, TypeInv, TypeOK, Occupants
  <2>2. Writing(c)' => wrote'[c] = request'[c].message
    BY <1>2 DEF Writing
  <2>3. \A d \in link \ {c} : Writing(d)' => wrote'[d] = request'[d].message
    BY <1>2, <2>1 DEF Inv, AInv, Requests, Writing
  <2>4. \A d \in Client : d \notin Occupants => d # c /\ request'[d] = None
    BY <1>2, <1>5 DEF Inv, AInv, Requests
  <2>5. \A d \in Client : wrote'[d] # None => d \in link
    BY <1>1, <1>2 DEF Inv, AInv, Requests
  <2>6. QED BY <1>1, <2>1, <2>2, <2>3, <2>4, <2>5 DEF Requests
<1>7. Settled'
  <2>1. Writing(c)' <=> r # None /\ r.kind = "write"
    BY <1>2 DEF Writing
  <2>2. r # None
    BY RequestAssumption
  <2>3. \A d \in Client \ {c} : Writing(d)' <=> Writing(d)
    BY <1>2 DEF Writing
  <2>4. QED BY <1>1, <1>2, <1>5, <2>1, <2>2, <2>3 DEF Inv, AInv, Settled
<1>8. AnswersMatchWrites'
  BY <1>2, <1>4 DEF Inv, AInv, AnswersMatchWrites
<1>9. QED BY <1>1, <1>3, <1>6, <1>7, <1>8 DEF Inv, AInv

LEMMA AnswersKept ==
    ASSUME ~ DebugSerial
    PROVE  Inv /\ [Next]_vars => AInv'
<1> SUFFICES ASSUME Inv, [Next]_vars PROVE AInv'
  OBVIOUS
<1>1. CASE UNCHANGED vars
  BY <1>1 DEF vars, radioVars, valueVars, clientVars, Inv, AInv, HostIdle, Signing, HostJob,
              Writing, Requests, Occupants, Settled, AnswersMatchWrites
<1>2. CASE HostTask
  <2>1. ASSUME NEW c \in Client, HostEvent(c) PROVE AInv'
    BY <2>1, DisconnectKeepsAnswers, ReadKeepsAnswers, WriteKeepsAnswers, RefuseKeepsAnswers
       DEF HostEvent
  <2>2. QED BY <1>2, <2>1, HostLinkKeepsAnswers, SetOutputKeepsAnswers, NotifyKeepsAnswers,
               AnswerKeepsAnswers DEF HostTask
<1>3. CASE Environment
  BY <1>3, ResetKeepsAnswers, ConnectKeepsAnswers, DropKeepsAnswers, SendKeepsAnswers
     DEF Environment
<1>4. QED BY <1>1, <1>2, <1>3, SetupKeepsAnswers DEF Next

\* Whatever a client has received since its last write is the signature and the
\* hashes of that write, although all clients share the three outputs.
THEOREM AnswersCorrect ==
    ASSUME ~ DebugSerial, ~ ResetInStart
    PROVE  Spec => []AnswersMatchWrites
<1>1. Spec => []TypeInv /\ []IInv
  BY TypeInvariant, InductiveInvariant, PTL
<1>2. Inv /\ [Next]_vars => AInv'
  BY AnswersKept
<1>3. QED BY <1>1, <1>2, AnswersInit, PTL DEF Spec, Inv, AInv
=============================================================================
