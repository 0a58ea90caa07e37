--------------------------- MODULE SigningSession ---------------------------
(***************************************************************************)
(* The browser GUI while it talks to signers: the sign and scan flows of   *)
(* esp_controller.js on the EspBLE object of esp_ble.js.                   *)
(*                                                                         *)
(* A flow is an async function.  It runs from one await to the next, and   *)
(* between two awaits other flows run, that share ble.device with it and   *)
(* write to the same form.  Every awaited promise can be rejected, which   *)
(* ends the flow.                                                          *)
(*                                                                         *)
(* A signature is a record of its chip and of the message it signs, an     *)
(* account and a block.  Of the signer only its signature characteristic   *)
(* is kept: a write that is answered leaves there the signature of what    *)
(* was written (AnswersMatchWrites of SignerDevice).                       *)
(***************************************************************************)
EXTENDS Integers, FiniteSets

CONSTANTS Account, Device,
          Flow,       \* the async functions that can be under way at once
          OtherText,  \* what a characteristic holds that no flow of this page left there
          None,
          Overlap,    \* whether the user starts a flow while another one runs
          MaxBlock    \* bound: the last block number

ASSUME NoneAssumption == None \notin Device /\ None \notin Account
ASSUME OverlapAssumption == Overlap \in BOOLEAN
ASSUME MaxBlockAssumption == MaxBlock \in Nat

VARIABLES account,  \* the account that is selected in the wallet
          block,    \* the number of the latest block
          device,   \* ble.device
          linked,   \* the devices this page is connected to
          output,   \* the signature characteristic of each device
          flow,     \* the local variables of each flow and the await it is at
          form      \* #input-signature and #input-blockno, and whom they were made for

worldVars == <<account, block>>
vars == <<worldVars, device, linked, output, flow, form>>

SignatureOf(d, a, b) == [chip |-> d, to |-> a, block |-> b]
Signature == [chip : Device, to : Account, block : 0 .. MaxBlock]
Output == Signature \cup {OtherText}
Step == {"idle", "account", "block", "choose", "connect", "address", "write", "wait", "signature"}
FlowState == [step    : Step,
              kind    : {"sign", "scan"},
              account : Account \cup {None},
              block   : 0 .. MaxBlock,
              target  : Device \cup {None},   \* the device of the operation under way
              picked  : Device \cup {None}]   \* history: what the user picked for this flow

ASSUME OtherAssumption == OtherText \notin Signature

Stored == [signature : Output, block : 0 .. MaxBlock, account : Account]

Idle == [step |-> "idle", kind |-> "sign", account |-> None, block |-> 0,
         target |-> None, picked |-> None]

TypeOK == /\ account \in Account
          /\ block \in 0 .. MaxBlock
          /\ device \in Device \cup {None}
          /\ linked \subseteq Device
          /\ output \in [Device -> Output]
          /\ flow \in [Flow -> FlowState]
          /\ form \in Stored \cup {None}

Init == /\ account \in Account
        /\ block = 0
        /\ device = None
        /\ linked = {}
        /\ output = [d \in Device |-> OtherText]
        /\ flow = [f \in Flow |-> Idle]
        /\ form = None
-----------------------------------------------------------------------------
At(f, step) == flow[f].step = step

\* The operation a flow starts is one on the device that ble.device is by then.
Proceeds(f, step) == flow' = [flow EXCEPT ![f].step = step, ![f].target = device']

Ends(f) == flow' = [flow EXCEPT ![f] = Idle]

Click(f, kind) ==
    /\ At(f, "idle")
    /\ Overlap \/ \A g \in Flow : At(g, "idle")
    /\ flow' = [flow EXCEPT ![f] = [Idle EXCEPT !.kind = kind,
                                                !.step = IF kind = "sign" THEN "account"
                                                         ELSE "choose"]]
    /\ UNCHANGED <<worldVars, device, linked, output, form>>

\* eth.getAccount and eth.getBlock
GetAccount(f) == /\ At(f, "account")
                 /\ flow' = [flow EXCEPT ![f].step = "block", ![f].account = account]
                 /\ UNCHANGED <<worldVars, device, linked, output, form>>

GetBlock(f) == /\ At(f, "block")
               /\ flow' = [flow EXCEPT ![f].step = "choose", ![f].block = block]
               /\ UNCHANGED <<worldVars, device, linked, output, form>>

\* Mutant: a device that the page has got already stays.
DeviceStays(d) == IF device = None THEN d ELSE device

DeviceAfterPick(d) == d

\* requestDevices: the user picks a device.
Pick(f, d) == /\ At(f, "choose")
              /\ device' = DeviceAfterPick(d)
              /\ flow' = [flow EXCEPT ![f].step = "connect", ![f].target = device',
                                     ![f].picked = d]
              /\ UNCHANGED <<worldVars, linked, output, form>>

\* Mutant: nobody checks whether there is a device.
CancelUnchecked(f) == /\ At(f, "choose")
                      /\ UNCHANGED device
                      /\ Proceeds(f, "connect")
                      /\ UNCHANGED <<worldVars, linked, output, form>>

\* The chooser is cancelled.  The exception is swallowed, and connect() goes on
\* with the device of an earlier flow if there is one.
Cancel(f) == /\ At(f, "choose")
             /\ UNCHANGED device
             /\ IF device = None THEN Ends(f) ELSE Proceeds(f, "connect")
             /\ UNCHANGED <<worldVars, linked, output, form>>

\* gatt.connect()
Connect(f) == /\ At(f, "connect")
              /\ linked' = linked \cup {flow[f].target}
              /\ UNCHANGED device
              /\ Proceeds(f, "address")
              /\ UNCHANGED <<worldVars, output, form>>

\* An operation on a device answers only while the link is up.
Reaches(f) == flow[f].target \in linked

\* A scan ends with the address, and leaves the device connected.
ReadAddress(f) == /\ At(f, "address")
                  /\ Reaches(f)
                  /\ UNCHANGED device
                  /\ IF flow[f].kind = "scan" THEN Ends(f) ELSE Proceeds(f, "write")
                  /\ UNCHANGED <<worldVars, linked, output, form>>

\* Mutant: the message has the block of the wallet's latest answer.
LatestMessage(f) == SignatureOf(flow[f].target, flow[f].account, block)

\* The signature of the message the flow has put together.
SignatureOfMessage(f) == SignatureOf(flow[f].target, flow[f].account, flow[f].block)

\* ble.write: the signer has signed when the write is answered.
Write(f) == /\ At(f, "write")
            /\ Reaches(f)
            /\ output' = [output EXCEPT ![flow[f].target] = SignatureOfMessage(f)]
            /\ flow' = [flow EXCEPT ![f].step = "wait"]
            /\ UNCHANGED <<worldVars, device, linked, form>>

\* wait(200), and then ble.read looks at ble.device again.
Wait(f) == /\ At(f, "wait")
           /\ UNCHANGED device
           /\ Proceeds(f, "signature")
           /\ UNCHANGED <<worldVars, linked, output, form>>

\* Mutant: the device stays connected, as after a scan.
StillLinked == linked

\* ble.disconnect()
AfterDisconnect == linked \ {device}

\* The signature is read, the signer disconnected, and the pair is stored.
ReadSignature(f) ==
    /\ At(f, "signature")
    /\ Reaches(f)
    /\ linked' = AfterDisconnect
    /\ form' = [signature |-> output[flow[f].target],
                block     |-> flow[f].block,
                account   |-> flow[f].account]
    /\ Ends(f)
    /\ UNCHANGED <<worldVars, device, output>>

\* An awaited promise is rejected, or the wallet answers without an account or a block.
Fail(f) == /\ ~ At(f, "idle")
           /\ Ends(f)
           /\ UNCHANGED <<worldVars, device, linked, output, form>>
-----------------------------------------------------------------------------
(***************************************************************************)
(* The wallet, the radio and the other clients of a signer.                *)
(***************************************************************************)
NewBlock == /\ block < MaxBlock
            /\ block' = block + 1
            /\ UNCHANGED <<account, device, linked, output, flow, form>>

\* A page that does not listen yet goes on with the old account.
SwitchAccount(a) == /\ account' = a
                    /\ UNCHANGED <<block, device, linked, output, flow, form>>

\* changeCallback, or the user.  The browser may restore the form.
Reload == /\ device' = None
          /\ linked' = {}
          /\ flow' = [f \in Flow |-> Idle]
          /\ form' \in {form, None}
          /\ UNCHANGED <<worldVars, output>>

LoseLink(d) == /\ d \in linked
               /\ linked' = linked \ {d}
               /\ UNCHANGED <<worldVars, device, output, flow, form>>

\* Another client uses the signer, or it restarts.
UseElsewhere(d) == /\ d \notin linked
                   /\ output' = [output EXCEPT ![d] = OtherText]
                   /\ UNCHANGED <<worldVars, device, linked, flow, form>>

FlowStep(f) ==
    \/ \E kind \in {"sign", "scan"} : Click(f, kind)
    \/ GetAccount(f) \/ GetBlock(f)
    \/ \E d \in Device : Pick(f, d)
    \/ Cancel(f) \/ Connect(f) \/ ReadAddress(f)
    \/ Write(f) \/ Wait(f) \/ ReadSignature(f)
    \/ Fail(f)

Environment == \/ NewBlock
               \/ \E a \in Account : SwitchAccount(a)
               \/ Reload
               \/ \E d \in Device : LoseLink(d) \/ UseElsewhere(d)

Next == (\E f \in Flow : FlowStep(f)) \/ Environment

Spec == Init /\ [][Next]_vars
-----------------------------------------------------------------------------
(***************************************************************************)
(* Properties.                                                             *)
(***************************************************************************)

\* "note down the corresponding block number too (our GUI takes care of this for
\* you)" (README.md): the signature in the form is that of a message made of the
\* block in the form and of the account that was connected when it was made.
StoredPairMatches ==
    form # None => \E d \in Device : form.signature = SignatureOf(d, form.account, form.block)

\* A signer takes one client at a time, so whoever has got a signature frees the
\* signer that made it.
SignerIsReleased ==
    [][\A f \in Flow : ReadSignature(f) => form'.signature.chip \notin linked']_vars

\* "select a device you want to scan" (index.html): a flow talks to the device that
\* was picked for it.  Only after a cancelled chooser it goes on with the device of an
\* earlier flow.
UsesPickedDevice ==
    \A f \in Flow : flow[f].picked # None => flow[f].target = flow[f].picked
=============================================================================
