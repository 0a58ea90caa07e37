------------------------ MODULE ClaimSession_proofs ------------------------
(***************************************************************************)
(* If the user waits for a flow to end before starting another one, the    *)
(* signature and the block number the GUI stores belong together, for any  *)
(* number of accounts, devices and blocks, whatever is cancelled, lost,    *)
(* reloaded or switched in between.                                        *)
(*                                                                         *)
(* The invariant of the session says that from the chooser on the one flow *)
(* under way works on ble.device, and that after its write that device,    *)
(* while it is linked, holds the signature of its message.                 *)
(*                                                                         *)
(* The page with its wallet and its claim is a SigningSession, so what was *)
(* proved of the session holds of it.  From that follows what a claim can  *)
(* be refused for, for any accounts, devices, blocks and windows.          *)
(***************************************************************************)
EXTENDS ClaimSession, TLAPS

(***************************************************************************)
(* The session.                                                            *)
(***************************************************************************)
AfterChooser == {"connect", "address", "write", "wait", "signature"}

OneFlow == \A f, g \in Flow : ~ At(f, "idle") /\ ~ At(g, "idle") => f = g

\* A sign flow has an account from its second await on.
HasAccount(s) == s.kind = "sign" /\ s.step \notin {"idle", "account"} => s.account \in Account

OnDevice(s) == s.step \in AfterChooser => s.target = device /\ device \in Device

HasSigned(s) ==
    s.step \in {"wait", "signature"} /\ s.target \in linked =>
        output[s.target] = SignatureOf(s.target, s.account, s.block)

Signs(s) == s.step \in {"account", "block", "write", "wait", "signature"} => s.kind = "sign"

FlowOK(s) == HasAccount(s) /\ OnDevice(s) /\ HasSigned(s) /\ Signs(s)

IInv == /\ TypeOK
        /\ OneFlow
        /\ \A f \in Flow : FlowOK(flow[f])
        /\ StoredPairMatches

-----------------------------------------------------------------------------
LEMMA InitEstablishes == Init => IInv
BY NoneAssumption, MaxBlockAssumption
   DEF Init, IInv, TypeOK, OneFlow, FlowOK, HasAccount, OnDevice, HasSigned, Signs, At,
       StoredPairMatches, Idle, FlowState, Step, AfterChooser, Output

\* Every step of a flow: the others are idle, and idle flows are in order.
LEMMA OtherFlowsAreIdle ==
    ASSUME IInv, NEW f \in Flow, ~ At(f, "idle") \/ \A g \in Flow : At(g, "idle"),
           NEW s \in FlowState, flow' = [flow EXCEPT ![f] = s], FlowOK(s)'
    PROVE  OneFlow' /\ (\A g \in Flow : FlowOK(flow[g])') /\ flow' \in [Flow -> FlowState]
<1>1. flow \in [Flow -> FlowState] /\ OneFlow
  BY DEF IInv, TypeOK
<1>2. \A g \in Flow \ {f} : At(g, "idle")
  BY <1>1 DEF OneFlow
<1>3. \A g \in Flow \ {f} : flow'[g] = flow[g] /\ flow'[g].step = "idle"
  BY <1>1, <1>2 DEF At
<1>4. OneFlow'
  BY <1>3 DEF OneFlow, At
<1>5. flow'[f] = s /\ flow' \in [Flow -> FlowState]
  BY <1>1
<1>6. ASSUME NEW g \in Flow \ {f} PROVE FlowOK(flow[g])'
  BY <1>3, <1>6 DEF FlowOK, HasAccount, OnDevice, HasSigned, Signs, AfterChooser
<1>7. QED BY <1>4, <1>5, <1>6

\* A flow that has ended does not matter any more.
LEMMA EndingIsSafe ==
    ASSUME IInv, NEW f \in Flow, ~ At(f, "idle"), Ends(f)
    PROVE  OneFlow' /\ (\A g \in Flow : FlowOK(flow[g])') /\ flow' \in [Flow -> FlowState]
<1>1. Idle \in FlowState /\ Idle.step = "idle"
  BY MaxBlockAssumption DEF Idle, FlowState, Step
<1>2. FlowOK(Idle)'
  BY <1>1 DEF FlowOK, HasAccount, OnDevice, HasSigned, Signs, AfterChooser
<1>3. QED BY <1>1, <1>2, OtherFlowsAreIdle DEF Ends

\* A flow that goes on to another await.
LEMMA FlowGoesOn ==
    ASSUME IInv, NEW f \in Flow, ~ At(f, "idle") \/ \A g \in Flow : At(g, "idle"),
           NEW s, s \in FlowState, flow' = [flow EXCEPT ![f] = s],
           HasAccount(s), OnDevice(s)', HasSigned(s)', Signs(s),
           UNCHANGED <<account, block, form>>, device' \in Device \cup {None},
           linked' \subseteq Device, output' \in [Device -> Output]
    PROVE  IInv'
<1>1. FlowOK(s)'
  BY DEF FlowOK, HasAccount, Signs
<1>2. OneFlow' /\ (\A g \in Flow : FlowOK(flow[g])') /\ flow' \in [Flow -> FlowState]
  BY <1>1, OtherFlowsAreIdle
<1>3. TypeOK'
  BY <1>2 DEF IInv, TypeOK
<1>4. StoredPairMatches'
  BY DEF IInv, StoredPairMatches
<1>5. QED BY <1>2, <1>3, <1>4 DEF IInv

\* A flow that ends, whatever it has stored.
LEMMA FlowIsOver ==
    ASSUME IInv, NEW f \in Flow, ~ At(f, "idle"), Ends(f),
           UNCHANGED <<account, block, output>>, device' \in Device \cup {None},
           linked' \subseteq Device, form' \in Stored \cup {None}, StoredPairMatches'
    PROVE  IInv'
<1>1. OneFlow' /\ (\A g \in Flow : FlowOK(flow[g])') /\ flow' \in [Flow -> FlowState]
  BY EndingIsSafe
<1>2. TypeOK'
  BY <1>1 DEF IInv, TypeOK
<1>3. QED BY <1>1, <1>2 DEF IInv

LEMMA FlowStepPreserves ==
    ASSUME ~ Overlap, IInv, NEW f \in Flow, FlowStep(f)
    PROVE  IInv'
<1> USE DEF At, worldVars
<1>t. /\ account \in Account /\ block \in 0 .. MaxBlock /\ device \in Device \cup {None}
      /\ linked \subseteq Device /\ output \in [Device -> Output]
      /\ flow \in [Flow -> FlowState] /\ form \in Stored \cup {None}
  BY DEF IInv, TypeOK
<1>f. FlowOK(flow[f])
  BY DEF IInv
<1>n. flow[f] \in FlowState
  BY <1>t
<1>k. /\ flow[f].kind \in {"sign", "scan"}
      /\ flow[f].block \in 0 .. MaxBlock
      /\ flow[f].step \in AfterChooser => flow[f].target = device /\ device \in Device
  BY <1>n, <1>f DEF FlowState, FlowOK, OnDevice
<1>s. form' = form => StoredPairMatches'
  BY DEF IInv, StoredPairMatches
<1>1. ASSUME NEW kind \in {"sign", "scan"}, Click(f, kind) PROVE IInv'
  <2>1. PICK s : s = [Idle EXCEPT !.kind = kind,
                                  !.step = IF kind = "sign" THEN "account" ELSE "choose"]
    OBVIOUS
  <2>a. s = [step |-> IF kind = "sign" THEN "account" ELSE "choose", kind |-> kind,
             account |-> None, block |-> 0, target |-> None, picked |-> None]
    BY <2>1 DEF Idle
  <2>b. 0 \in 0 .. MaxBlock
    BY MaxBlockAssumption
  <2>2. s \in FlowState /\ s.kind = kind
        /\ s.step = IF kind = "sign" THEN "account" ELSE "choose"
    BY <2>a, <2>b DEF FlowState, Step
  <2>3. HasAccount(s) /\ OnDevice(s)' /\ HasSigned(s)' /\ Signs(s)
    BY <2>2 DEF HasAccount, OnDevice, HasSigned, Signs, AfterChooser
  <2>4. flow' = [flow EXCEPT ![f] = s] /\ \A g \in Flow : flow[g].step = "idle"
    BY <1>1, <2>1 DEF Click
  <2>5. UNCHANGED <<account, block, form, device, linked, output>>
    BY <1>1 DEF Click
  <2>6. QED BY <1>t, <2>2, <2>3, <2>4, <2>5, FlowGoesOn
<1>2. CASE GetAccount(f)
  <2>1. /\ flow[f].step # "idle"
        /\ UNCHANGED <<account, block, form>>
        /\ device' = device /\ linked' = linked /\ output' = output
        /\ flow' = [flow EXCEPT ![f].step = "block", ![f].account = account]
    BY <1>2, <1>t DEF GetAccount
  <2>2. PICK s : s = [flow[f] EXCEPT !.step = "block", !.account = account]
    OBVIOUS
  <2>3. /\ s \in FlowState
        /\ s.step = "block" /\ s.kind = flow[f].kind /\ s.account = account
        /\ s.block = flow[f].block /\ s.target = flow[f].target
    BY <2>2, <1>n, <1>t DEF FlowState, Step
  <2>4. flow' = [flow EXCEPT ![f] = s]
    BY <2>1, <2>2, <1>t
  <2>5. HasAccount(s) /\ OnDevice(s)' /\ HasSigned(s)' /\ Signs(s)
    BY <1>2, <2>1, <2>3, <1>t, <1>f DEF GetAccount, FlowOK, HasAccount, OnDevice, HasSigned,
                                Signs, AfterChooser
  <2>6. QED BY <2>1, <2>3, <2>4, <2>5, <1>t, FlowGoesOn
<1>3. CASE GetBlock(f)
  <2>1. /\ flow[f].step # "idle"
        /\ UNCHANGED <<account, block, form>>
        /\ device' = device /\ linked' = linked /\ output' = output
        /\ flow' = [flow EXCEPT ![f].step = "choose", ![f].block = block]
    BY <1>3, <1>t DEF GetBlock
  <2>2. PICK s : s = [flow[f] EXCEPT !.step = "choose", !.block = block]
    OBVIOUS
  <2>3. /\ s \in FlowState
        /\ s.step = "choose" /\ s.kind = flow[f].kind /\ s.account = flow[f].account
        /\ s.block = block /\ s.target = flow[f].target
    BY <2>2, <1>n, <1>t DEF FlowState, Step
  <2>4. flow' = [flow EXCEPT ![f] = s]
    BY <2>1, <2>2, <1>t
  <2>5. HasAccount(s) /\ OnDevice(s)' /\ HasSigned(s)' /\ Signs(s)
    BY <1>3, <2>1, <2>3, <1>t, <1>f DEF GetBlock, FlowOK, HasAccount, OnDevice, HasSigned,
                                Signs, AfterChooser
  <2>6. QED BY <2>1, <2>3, <2>4, <2>5, <1>t, FlowGoesOn
<1>4. ASSUME NEW d \in Device, Pick(f, d) PROVE IInv'
  <2>1. /\ flow[f].step # "idle"
        /\ UNCHANGED <<account, block, form>>
        /\ device' = d /\ linked' = linked /\ output' = output
        /\ flow' = [flow EXCEPT ![f].step = "connect", ![f].target = d, ![f].picked = d]
    BY <1>4, <1>t DEF Pick, DeviceAfterPick
  <2>2. PICK s : s = [flow[f] EXCEPT !.step = "connect", !.target = d, !.picked = d]
    OBVIOUS
  <2>3. /\ s \in FlowState
        /\ s.step = "connect" /\ s.kind = flow[f].kind /\ s.account = flow[f].account
        /\ s.block = flow[f].block /\ s.target = d
    BY <2>2, <1>n, <1>t DEF FlowState, Step
  <2>4. flow' = [flow EXCEPT ![f] = s]
    BY <2>1, <2>2, <1>t
  <2>5. HasAccount(s) /\ OnDevice(s)' /\ HasSigned(s)' /\ Signs(s)
    BY <1>4, <2>1, <2>3, <1>t, <1>f DEF Pick, FlowOK, HasAccount, OnDevice, HasSigned,
                                Signs, AfterChooser
  <2>6. QED BY <2>1, <2>3, <2>4, <2>5, <1>t, FlowGoesOn
<1>5. CASE Cancel(f) /\ device = None
  BY <1>5, <1>t, <1>s, FlowIsOver DEF Cancel
<1>6. CASE Cancel(f) /\ device # None
  <2>1. /\ flow[f].step # "idle"
        /\ UNCHANGED <<account, block, form>>
        /\ device' = device /\ linked' = linked /\ output' = output
        /\ flow' = [flow EXCEPT ![f].step = "connect", ![f].target = device]
    BY <1>6, <1>t DEF Cancel, Proceeds
  <2>2. PICK s : s = [flow[f] EXCEPT !.step = "connect", !.target = device]
    OBVIOUS
  <2>3. /\ s \in FlowState
        /\ s.step = "connect" /\ s.kind = flow[f].kind /\ s.account = flow[f].account
        /\ s.block = flow[f].block /\ s.target = device
    BY <2>2, <1>n, <1>t DEF FlowState, Step
  <2>4. flow' = [flow EXCEPT ![f] = s]
    BY <2>1, <2>2, <1>t
  <2>5. HasAccount(s) /\ OnDevice(s)' /\ HasSigned(s)' /\ Signs(s)
    BY <1>6, <2>1, <2>3, <1>t, <1>f DEF Cancel, Proceeds, FlowOK, HasAccount, OnDevice, HasSigned,
                                Signs, AfterChooser
  <2>6. QED BY <2>1, <2>3, <2>4, <2>5, <1>t, FlowGoesOn
<1>7. CASE Connect(f)
  <2>1. /\ flow[f].step # "idle"
        /\ UNCHANGED <<account, block, form>>
        /\ device' = device /\ linked' = linked \cup {flow[f].target} /\ output' = output
        /\ flow' = [flow EXCEPT ![f].step = "address", ![f].target = device]
    BY <1>7, <1>t DEF Connect, Proceeds
  <2>2. PICK s : s = [flow[f] EXCEPT !.step = "address", !.target = device]
    OBVIOUS
  <2>3. /\ s \in FlowState
        /\ s.step = "address" /\ s.kind = flow[f].kind /\ s.account = flow[f].account
        /\ s.block = flow[f].block /\ s.target = device
    BY <2>2, <1>n, <1>t DEF FlowState, Step
  <2>4. flow' = [flow EXCEPT ![f] = s]
    BY <2>1, <2>2, <1>t
  <2>5. HasAccount(s) /\ OnDevice(s)' /\ HasSigned(s)' /\ Signs(s)
    BY <1>7, <2>1, <2>3, <1>t, <1>f DEF Connect, Proceeds, FlowOK, HasAccount, OnDevice, HasSigned,
                                Signs, AfterChooser
  <2>6. linked' \subseteq Device
    BY <1>7, <2>1, <1>t, <1>k DEF Connect, AfterChooser
  <2>7. QED BY <2>6, <2>1, <2>3, <2>4, <2>5, <1>t, FlowGoesOn
<1>8. CASE ReadAddress(f) /\ flow[f].kind = "scan"
  BY <1>8, <1>t, <1>s, FlowIsOver DEF ReadAddress
<1>9. CASE ReadAddress(f) /\ flow[f].kind # "scan"
  <2>1. /\ flow[f].step # "idle"
        /\ UNCHANGED <<account, block, form>>
        /\ device' = device /\ linked' = linked /\ output' = output
        /\ flow' = [flow EXCEPT ![f].step = "write", ![f].target = device]
    BY <1>9, <1>t DEF ReadAddress, Proceeds
  <2>2. PICK s : s = [flow[f] EXCEPT !.step = "write", !.target = device]
    OBVIOUS
  <2>3. /\ s \in FlowState
        /\ s.step = "write" /\ s.kind = flow[f].kind /\ s.account = flow[f].account
        /\ s.block = flow[f].block /\ s.target = device
    BY <2>2, <1>n, <1>t DEF FlowState, Step
  <2>4. flow' = [flow EXCEPT ![f] = s]
    BY <2>1, <2>2, <1>t
  <2>5. HasAccount(s) /\ OnDevice(s)' /\ HasSigned(s)' /\ Signs(s)
    BY <1>9, <2>1, <2>3, <1>t, <1>f, <1>k DEF ReadAddress, Proceeds, FlowOK, HasAccount, OnDevice, HasSigned,
                                Signs, AfterChooser
  <2>6. QED BY <2>1, <2>3, <2>4, <2>5, <1>t, FlowGoesOn
<1>10. CASE Write(f)
  <2>1. /\ flow[f].step # "idle"
        /\ UNCHANGED <<account, block, form>>
        /\ device' = device /\ linked' = linked /\ output' = [output EXCEPT ![flow[f].target] = SignatureOfMessage(f)]
        /\ flow' = [flow EXCEPT ![f].step = "wait"]
    BY <1>10, <1>t DEF Write
  <2>2. PICK s : s = [flow[f] EXCEPT !.step = "wait"]
    OBVIOUS
  <2>3. /\ s \in FlowState
        /\ s.step = "wait" /\ s.kind = flow[f].kind /\ s.account = flow[f].account
        /\ s.block = flow[f].block /\ s.target = flow[f].target
    BY <2>2, <1>n, <1>t DEF FlowState, Step
  <2>4. flow' = [flow EXCEPT ![f] = s]
    BY <2>1, <2>2, <1>t
  <2>5. /\ flow[f].target \in Device /\ flow[f].account \in Account /\ flow[f].kind = "sign"
        /\ SignatureOfMessage(f) = SignatureOf(s.target, s.account, s.block)
    BY <1>10, <2>3, <1>f, <1>k DEF Write, FlowOK, HasAccount, Signs, AfterChooser,
                                  SignatureOfMessage
  <2>6. output' \in [Device -> Output] /\ output'[s.target] = SignatureOfMessage(f)
    BY <2>1, <2>3, <2>5, <1>t, <1>k DEF SignatureOf, Output, Signature
  <2>7. HasAccount(s) /\ OnDevice(s)' /\ HasSigned(s)' /\ Signs(s)
    BY <1>10, <2>1, <2>3, <2>5, <2>6, <1>k DEF Write, HasAccount, OnDevice, HasSigned, Signs,
                                               AfterChooser
  <2>8. QED BY <2>1, <2>3, <2>4, <2>6, <2>7, <1>t, FlowGoesOn
<1>11. CASE Wait(f)
  <2>1. /\ flow[f].step # "idle"
        /\ UNCHANGED <<account, block, form>>
        /\ device' = device /\ linked' = linked /\ output' = output
        /\ flow' = [flow EXCEPT ![f].step = "signature", ![f].target = device]
    BY <1>11, <1>t DEF Wait, Proceeds
  <2>2. PICK s : s = [flow[f] EXCEPT !.step = "signature", !.target = device]
    OBVIOUS
  <2>3. /\ s \in FlowState
        /\ s.step = "signature" /\ s.kind = flow[f].kind /\ s.account = flow[f].account
        /\ s.block = flow[f].block /\ s.target = device
    BY <2>2, <1>n, <1>t DEF FlowState, Step
  <2>4. flow' = [flow EXCEPT ![f] = s]
    BY <2>1, <2>2, <1>t
  <2>5. HasAccount(s) /\ OnDevice(s)' /\ HasSigned(s)' /\ Signs(s)
    BY <1>11, <2>1, <2>3, <1>t, <1>f DEF Wait, Proceeds, FlowOK, HasAccount, OnDevice, HasSigned,
                                Signs, AfterChooser
  <2>6. QED BY <2>1, <2>3, <2>4, <2>5, <1>t, FlowGoesOn
<1>12. CASE ReadSignature(f)
  <2>1. flow[f].target \in linked
    BY <1>12 DEF ReadSignature, Reaches
  <2>2. output[flow[f].target] = SignatureOf(flow[f].target, flow[f].account, flow[f].block)
    BY <1>12, <1>f, <2>1 DEF ReadSignature, FlowOK, HasSigned
  <2>3. flow[f].account \in Account /\ flow[f].block \in 0 .. MaxBlock
    BY <1>12, <1>n, <1>f DEF ReadSignature, FlowOK, HasAccount, Signs, FlowState
  <2>4. form' \in Stored /\ StoredPairMatches'
    BY <1>12, <1>t, <2>1, <2>2, <2>3 DEF ReadSignature, Stored, StoredPairMatches
  <2>5. QED BY <1>12, <1>t, <2>4, FlowIsOver DEF ReadSignature, AfterDisconnect
<1>13. CASE Fail(f)
  BY <1>13, <1>t, <1>s, FlowIsOver DEF Fail
<1>14. QED BY <1>1, <1>2, <1>3, <1>4, <1>5, <1>6, <1>7, <1>8, <1>9, <1>10, <1>11, <1>12, <1>13
           DEF FlowStep
-----------------------------------------------------------------------------
LEMMA EnvironmentPreserves ==
    ASSUME IInv, Environment
    PROVE  IInv'
<1>t. /\ account \in Account /\ block \in 0 .. MaxBlock /\ device \in Device \cup {None}
      /\ linked \subseteq Device /\ output \in [Device -> Output]
      /\ flow \in [Flow -> FlowState] /\ form \in Stored \cup {None}
      /\ OneFlow /\ \A f \in Flow : FlowOK(flow[f])
  BY DEF IInv, TypeOK
<1>s. form' \in {form, None} => StoredPairMatches' /\ form' \in Stored \cup {None}
  BY <1>t DEF IInv, StoredPairMatches
<1>1. CASE NewBlock
  <2>1. block' \in 0 .. MaxBlock /\ UNCHANGED <<account, device, linked, output, flow, form>>
    BY <1>1, <1>t, MaxBlockAssumption DEF NewBlock
  <2>2. OneFlow' /\ \A f \in Flow : FlowOK(flow[f])'
    BY <2>1, <1>t DEF OneFlow, At, FlowOK, HasAccount, OnDevice, HasSigned, Signs
  <2>3. TypeOK' /\ StoredPairMatches'
    BY <2>1, <1>t, <1>s DEF TypeOK
  <2>4. QED BY <2>2, <2>3 DEF IInv
<1>2. ASSUME NEW a \in Account, SwitchAccount(a) PROVE IInv'
  <2>1. account' = a /\ UNCHANGED <<block, device, linked, output, flow, form>>
    BY <1>2 DEF SwitchAccount
  <2>2. OneFlow' /\ \A f \in Flow : FlowOK(flow[f])'
    BY <2>1, <1>t DEF OneFlow, At, FlowOK, HasAccount, OnDevice, HasSigned, Signs
  <2>3. TypeOK' /\ StoredPairMatches'
    BY <2>1, <1>t, <1>s DEF TypeOK
  <2>4. QED BY <2>2, <2>3 DEF IInv
<1>3. CASE Reload
  <2>1. /\ UNCHANGED <<account, block, output>> /\ form' \in {form, None}
        /\ device' = None /\ linked' = {} /\ flow' = [f \in Flow |-> Idle]
    BY <1>3 DEF Reload, worldVars
  <2>2. Idle \in FlowState /\ Idle.step = "idle"
    BY MaxBlockAssumption DEF Idle, FlowState, Step
  <2>3. flow' \in [Flow -> FlowState] /\ \A f \in Flow : flow'[f].step = "idle"
    BY <2>1, <2>2
  <2>4. OneFlow' /\ \A f \in Flow : FlowOK(flow[f])'
    BY <2>3 DEF OneFlow, At, FlowOK, HasAccount, OnDevice, HasSigned, Signs, AfterChooser
  <2>5. TypeOK' /\ StoredPairMatches'
    BY <2>1, <2>3, <1>t, <1>s DEF TypeOK
  <2>6. QED BY <2>4, <2>5 DEF IInv
<1>4. ASSUME NEW d \in Device, LoseLink(d) PROVE IInv'
  <2>1. linked' = linked \ {d} /\ UNCHANGED <<account, block, device, output, flow, form>>
    BY <1>4 DEF LoseLink, worldVars
  <2>2. OneFlow' /\ \A f \in Flow : FlowOK(flow[f])'
    BY <2>1, <1>t DEF OneFlow, At, FlowOK, HasAccount, OnDevice, HasSigned, Signs
  <2>3. TypeOK' /\ StoredPairMatches'
    BY <2>1, <1>t, <1>s DEF TypeOK
  <2>4. QED BY <2>2, <2>3 DEF IInv
<1>5. ASSUME NEW d \in Device, UseElsewhere(d) PROVE IInv'
  <2>1. /\ d \notin linked /\ output' = [output EXCEPT ![d] = OtherText]
        /\ UNCHANGED <<account, block, device, linked, flow, form>>
    BY <1>5 DEF UseElsewhere, worldVars
  <2>2. output' \in [Device -> Output] /\ \A e \in linked : output'[e] = output[e]
    BY <2>1, <1>t DEF Output
  <2>3. OneFlow' /\ \A f \in Flow : FlowOK(flow[f])'
    BY <2>1, <2>2, <1>t DEF OneFlow, At, FlowOK, HasAccount, OnDevice, HasSigned, Signs
  <2>4. TypeOK' /\ StoredPairMatches'
    BY <2>1, <2>2, <1>t, <1>s DEF TypeOK
  <2>5. QED BY <2>3, <2>4 DEF IInv
<1>6. QED BY <1>1, <1>2, <1>3, <1>4, <1>5 DEF Environment

LEMMA StutteringPreserves ==
    ASSUME IInv, UNCHANGED vars
    PROVE  IInv'
BY DEF vars, worldVars, IInv, TypeOK, OneFlow, At, FlowOK, HasAccount, OnDevice, HasSigned,
       Signs, StoredPairMatches

LEMMA InductiveInvariant ==
    ASSUME ~ Overlap
    PROVE  Spec => []IInv
<1>1. Init => IInv
  BY InitEstablishes
<1>2. IInv /\ [Next]_vars => IInv'
  BY FlowStepPreserves, EnvironmentPreserves, StutteringPreserves DEF Next
<1>3. QED BY <1>1, <1>2, PTL DEF Spec

\* One flow at a time: the signature and the block number in the form belong together
\* (ReadSignature, esp_controller.js), whatever goes wrong in between.
THEOREM PairCorrect ==
    ASSUME ~ Overlap
    PROVE  Spec => []StoredPairMatches
<1>1. IInv => StoredPairMatches
  BY DEF IInv
<1>2. QED BY <1>1, InductiveInvariant, PTL

\* ReadSignature disconnects ble.device, and that is the chip of the signature it stores.
LEMMA ReadingReleases ==
    ASSUME IInv, NEW f \in Flow, ReadSignature(f)
    PROVE  form'.signature.chip \notin linked'
<1>1. FlowOK(flow[f]) /\ flow[f].step = "signature" /\ flow[f].target \in linked
  BY DEF IInv, ReadSignature, Reaches, At
<1>2. /\ flow[f].target = device
      /\ output[flow[f].target] = SignatureOf(flow[f].target, flow[f].account, flow[f].block)
  BY <1>1 DEF FlowOK, OnDevice, HasSigned, AfterChooser
<1>3. form'.signature.chip = device
  BY <1>2 DEF ReadSignature, SignatureOf
<1>4. QED BY <1>3 DEF ReadSignature, AfterDisconnect

\* One flow at a time: a signer whose signature was stored is free for the next client.
THEOREM ReleaseCorrect ==
    ASSUME ~ Overlap
    PROVE  Spec => SignerIsReleased
<1>1. IInv => \A f \in Flow : ReadSignature(f) => form'.signature.chip \notin linked'
  BY ReadingReleases
<1>2. QED BY <1>1, InductiveInvariant, PTL DEF SignerIsReleased

-----------------------------------------------------------------------------
(***************************************************************************)
(* What a step does to the device that was picked for a flow.              *)
(***************************************************************************)
Picked(s) == IF s.step \in AfterChooser THEN s.picked \in {None, s.target} ELSE s.picked = None

PickInv == \A f \in Flow : Picked(flow[f])

LEMMA FlowStepPicks ==
    ASSUME IInv, PickInv, NEW f \in Flow, FlowStep(f)
    PROVE  PickInv'
<1> USE DEF At
<1>t. flow \in [Flow -> FlowState]
  BY DEF IInv, TypeOK
<1>f. flow[f].step \in AfterChooser => flow[f].target = device
  BY DEF IInv, FlowOK, OnDevice
<1>p. Picked(flow[f]) /\ \A g \in Flow \ {f} : Picked(flow[g])
  BY DEF PickInv
<1>i. Picked(Idle)
  BY DEF Picked, Idle, AfterChooser
<1>e. ASSUME Ends(f) PROVE PickInv'
  BY <1>e, <1>i, <1>p, <1>t DEF Ends, PickInv, Picked
<1>1. ASSUME NEW kind \in {"sign", "scan"}, Click(f, kind) PROVE PickInv'
  <2>1. flow'[f].step \in {"account", "choose"} /\ flow'[f].picked = None
        /\ \A g \in Flow \ {f} : flow'[g] = flow[g]
    BY <1>1, <1>t DEF Click, Idle
  <2>2. QED BY <2>1, <1>p DEF PickInv, Picked, AfterChooser
<1>2. CASE GetAccount(f) \/ GetBlock(f)
  <2>1. flow[f].step \in {"account", "block"} /\ flow'[f].step \in {"block", "choose"}
        /\ flow'[f].picked = flow[f].picked /\ \A g \in Flow \ {f} : flow'[g] = flow[g]
    <3>1. CASE GetAccount(f)
      BY <3>1, <1>t DEF GetAccount, FlowState
    <3>2. CASE GetBlock(f)
      BY <3>2, <1>t DEF GetBlock, FlowState
    <3>3. QED BY <1>2, <3>1, <3>2
  <2>2. QED BY <2>1, <1>p DEF PickInv, Picked, AfterChooser
<1>3. ASSUME NEW d \in Device, Pick(f, d) PROVE PickInv'
  <2>1. flow'[f].step = "connect" /\ flow'[f].target = d /\ flow'[f].picked = d
        /\ \A g \in Flow \ {f} : flow'[g] = flow[g]
    BY <1>3, <1>t DEF Pick, DeviceAfterPick
  <2>2. QED BY <2>1, <1>p DEF PickInv, Picked, AfterChooser
<1>4. ASSUME NEW step \in AfterChooser, Proceeds(f, step), device' = device PROVE PickInv'
  <2>1. flow'[f].step = step /\ flow'[f].target = device /\ flow'[f].picked = flow[f].picked
        /\ \A g \in Flow \ {f} : flow'[g] = flow[g]
    BY <1>4, <1>t DEF Proceeds
  <2>2. flow[f].picked \in {None, device}
    BY <1>f, <1>p DEF Picked
  <2>3. QED BY <2>1, <2>2, <1>p DEF PickInv, Picked
<1>5. CASE Cancel(f) \/ Connect(f) \/ ReadAddress(f) \/ Wait(f)
  BY <1>4, <1>5, <1>e DEF Cancel, Connect, ReadAddress, Wait, AfterChooser
<1>6. CASE Write(f)
  <2>1. flow[f].step = "write" /\ flow'[f].step = "wait" /\ flow'[f].target = flow[f].target
        /\ flow'[f].picked = flow[f].picked /\ \A g \in Flow \ {f} : flow'[g] = flow[g]
    BY <1>6, <1>t DEF Write
  <2>2. QED BY <2>1, <1>p DEF PickInv, Picked, AfterChooser
<1>7. CASE ReadSignature(f) \/ Fail(f)
  BY <1>7, <1>e DEF ReadSignature, Fail
<1>8. QED BY <1>1, <1>2, <1>3, <1>5, <1>6, <1>7 DEF FlowStep

LEMMA PickInvariant ==
    ASSUME ~ Overlap
    PROVE  Spec => []PickInv
<1>1. Init => PickInv
  BY DEF Init, PickInv, Picked, Idle, AfterChooser
<1>2. IInv /\ PickInv /\ [Next]_vars => PickInv'
  <2> SUFFICES ASSUME IInv, PickInv, [Next]_vars PROVE PickInv'
    OBVIOUS
  <2>1. ASSUME NEW f \in Flow, FlowStep(f) PROVE PickInv'
    BY <2>1, FlowStepPicks
  <2>2. CASE Reload
    <3>1. \A f \in Flow : flow'[f] = Idle
      BY <2>2 DEF Reload
    <3>2. QED BY <3>1 DEF PickInv, Picked, Idle, AfterChooser
  <2>3. CASE flow' = flow
    BY <2>3 DEF PickInv
  <2>4. QED BY <2>1, <2>2, <2>3
         DEF Next, Environment, NewBlock, SwitchAccount, LoseLink, UseElsewhere, vars
<1>3. QED BY <1>1, <1>2, InductiveInvariant, PTL DEF Spec

\* One flow at a time: the page reads from, and writes to, the device that was picked for
\* it, unless its chooser was cancelled (EspBLE.requestDevices).
THEOREM PickCorrect ==
    ASSUME ~ Overlap
    PROVE  Spec => []UsesPickedDevice
<1>1. PickInv => UsesPickedDevice
  BY DEF PickInv, Picked, UsesPickedDevice
<1>2. QED BY <1>1, PickInvariant, PTL

-----------------------------------------------------------------------------
(***************************************************************************)
(* The page, its wallet and its claim.                                     *)
(***************************************************************************)
\* Every step of the page is one of the session, or leaves the session as it is.
LEMMA StepImplements == ClaimNext => [Next]_vars
<1> SUFFICES ASSUME ClaimNext PROVE [Next]_vars
  OBVIOUS
<1>1. CASE PageStep
  BY <1>1 DEF PageStep, ConnectWallet, PageReloads, ClickClaim, SendClaim, GiveUp,
              Next, Environment
<1>2. CASE ChainStep
  BY <1>2 DEF ChainStep, Accept, Refuse, Next, Environment
<1>3. CASE SessionStep
  BY <1>3 DEF SessionStep, Next, Environment
<1>4. CASE \E a \in Account : AccountChanges(a)
  BY <1>4 DEF AccountChanges, Next, Environment
<1>5. QED BY <1>1, <1>2, <1>3, <1>4 DEF ClaimNext

\* The wallet connection and the claim add nothing to what the flows can do.
THEOREM ClaimIsSession == ClaimSpec => Spec
<1>1. ClaimInit => Init
  BY DEF ClaimInit
<1>2. [ClaimNext]_claimVars => [Next]_vars
  BY StepImplements DEF claimVars
<1>3. QED BY <1>1, <1>2, PTL DEF ClaimSpec, Spec
-----------------------------------------------------------------------------
(***************************************************************************)
(* The pair that is claimed is one that was stored.                        *)
(***************************************************************************)
ClaimShape == \/ claim = NoClaim
              \/ claim \in [step : {"asked"}, pair : Stored, sender : {None}]
              \/ claim \in [step : {"sent"}, pair : Stored, sender : Account]

ClaimedPairMatches ==
    claim # NoClaim =>
        \E d \in Device : claim.pair.signature = SignatureOf(d, claim.pair.account, claim.pair.block)

CInv == /\ IInv
        /\ wallet \in {"off", "on"}
        /\ ClaimShape
        /\ ClaimedPairMatches

LEMMA ClaimInitEstablishes == ClaimInit => CInv
<1> SUFFICES ASSUME ClaimInit PROVE CInv
  OBVIOUS
<1>1. IInv /\ wallet = "off" /\ claim = NoClaim
  BY InitEstablishes DEF ClaimInit
<1>2. QED BY <1>1 DEF CInv, ClaimShape, ClaimedPairMatches

LEMMA SessionStepPreserves ==
    ASSUME ~ Overlap, CInv, SessionStep
    PROVE  CInv'
<1>1. IInv'
  BY StepImplements, FlowStepPreserves, EnvironmentPreserves
     DEF SessionStep, Environment, CInv
<1>2. UNCHANGED <<wallet, claim>>
  BY DEF SessionStep, pageVars
<1>3. QED BY <1>1, <1>2 DEF CInv, ClaimShape, ClaimedPairMatches

LEMMA PageStepPreserves ==
    ASSUME ~ Overlap, CInv, PageStep
    PROVE  CInv'
<1>1. IInv'
  BY EnvironmentPreserves, StutteringPreserves
     DEF PageStep, ConnectWallet, PageReloads, ClickClaim, SendClaim, GiveUp,
         Environment, CInv
<1>c. CInv
  OBVIOUS
<1>2. CASE ConnectWallet
  BY <1>1, <1>2, <1>c DEF ConnectWallet, CInv, ClaimShape, ClaimedPairMatches
<1>3. CASE PageReloads
  <2>1. wallet' = "off" /\ claim' = NoClaim
    BY <1>3 DEF PageReloads
  <2>2. QED BY <1>1, <2>1 DEF CInv, ClaimShape, ClaimedPairMatches
<1>4. CASE ClickClaim
  <2>1. /\ claim' = [step |-> "asked", pair |-> form, sender |-> None] /\ form # None
        /\ UNCHANGED wallet
    BY <1>4 DEF ClickClaim, PairToClaim, vars, worldVars
  <2>2. form \in Stored /\ StoredPairMatches
    BY <2>1, <1>c DEF CInv, IInv, TypeOK
  <2>3. ClaimShape' /\ ClaimedPairMatches'
    <3>1. claim'.pair = form /\ claim' \in [step : {"asked"}, pair : Stored, sender : {None}]
      BY <2>1, <2>2
    <3>2. \E d \in Device : form.signature = SignatureOf(d, form.account, form.block)
      BY <2>1, <2>2 DEF StoredPairMatches
    <3>3. QED BY <3>1, <3>2 DEF ClaimShape, ClaimedPairMatches
  <2>4. QED BY <1>1, <1>c, <2>1, <2>3 DEF CInv
<1>5. CASE SendClaim
  <2>1. /\ claim.step = "asked" /\ claim' = [claim EXCEPT !.step = "sent", !.sender = account]
        /\ UNCHANGED wallet
    BY <1>5 DEF SendClaim, vars, worldVars
  <2>2. claim \in [step : {"asked"}, pair : Stored, sender : {None}] /\ account \in Account
    BY <2>1, <1>c DEF CInv, ClaimShape, NoClaim, IInv, TypeOK
  <2>p. PICK p \in Stored : claim = [step |-> "asked", pair |-> p, sender |-> None]
    BY <2>2
  <2>s. claim' = [step |-> "sent", pair |-> p, sender |-> account]
    BY <2>1, <2>p
  <2>3. /\ claim' \in [step : {"sent"}, pair : Stored, sender : Account]
        /\ claim'.pair = claim.pair /\ claim # NoClaim
    BY <2>2, <2>p, <2>s DEF NoClaim
  <2>4. ClaimShape' /\ ClaimedPairMatches'
    BY <2>3, <1>c DEF CInv, ClaimShape, ClaimedPairMatches
  <2>5. QED BY <1>1, <1>c, <2>1, <2>4 DEF CInv
<1>6. CASE GiveUp
  BY <1>1, <1>6, <1>c DEF GiveUp, CInv, ClaimShape, ClaimedPairMatches
<1>7. QED BY <1>2, <1>3, <1>4, <1>5, <1>6 DEF PageStep

LEMMA OtherStepPreserves ==
    ASSUME ~ Overlap, CInv, ChainStep \/ \E a \in Account : AccountChanges(a)
    PROVE  CInv'
<1>1. IInv'
  BY EnvironmentPreserves, StutteringPreserves
     DEF ChainStep, Accept, Refuse, AccountChanges, Environment, CInv
<1>c. CInv
  OBVIOUS
<1>2. CASE ChainStep
  <2>1. claim' = NoClaim /\ UNCHANGED wallet
    BY <1>2 DEF ChainStep, Accept, Refuse, NewBlock, vars, worldVars
  <2>2. QED BY <1>1, <1>c, <2>1 DEF CInv, ClaimShape, ClaimedPairMatches
<1>3. CASE \E a \in Account : AccountChanges(a)
  <2>1. UNCHANGED <<wallet, claim>>
    BY <1>3 DEF AccountChanges, pageVars
  <2>2. QED BY <1>1, <1>c, <2>1 DEF CInv, ClaimShape, ClaimedPairMatches
<1>4. QED BY <1>2, <1>3

LEMMA ClaimInvariant ==
    ASSUME ~ Overlap
    PROVE  ClaimSpec => []CInv
<1>1. ClaimInit => CInv
  BY ClaimInitEstablishes
<1>2. ASSUME CInv, UNCHANGED claimVars PROVE CInv'
  <2>1. IInv'
    BY <1>2, StutteringPreserves DEF CInv, claimVars
  <2>2. QED BY <1>2, <2>1 DEF CInv, ClaimShape, ClaimedPairMatches, claimVars, pageVars
<1>3. CInv /\ [ClaimNext]_claimVars => CInv'
  BY <1>2, SessionStepPreserves, PageStepPreserves, OtherStepPreserves DEF ClaimNext
<1>4. QED BY <1>1, <1>3, PTL DEF ClaimSpec
-----------------------------------------------------------------------------
\* One flow at a time: the page and its claim are well typed.
THEOREM ClaimTypeCorrect ==
    ASSUME ~ Overlap
    PROVE  ClaimSpec => []ClaimTypeOK
<1>1. CInv => ClaimTypeOK
  BY DEF CInv, IInv, ClaimTypeOK, ClaimShape
<1>2. QED BY <1>1, ClaimInvariant, PTL

\* One flow at a time: the contract refuses the signature of a claim only for the age of
\* its block or for the sender (transferTokenWithChip, esp_eth.js).
THEOREM ClaimCorrect ==
    ASSUME ~ Overlap
    PROVE  ClaimSpec => RefusedForAReason
<1>1. ASSUME CInv, NEW n \in {block, block + 1}, Refuse(n), InTime(claim.pair.block, n)
      PROVE  claim.sender # claim.pair.account
  <2>1. claim # NoClaim /\ ~ Recognised(claim, n)
    BY <1>1 DEF Refuse, NoClaim
  <2>2. PICK d \in Device :
            claim.pair.signature = SignatureOf(d, claim.pair.account, claim.pair.block)
    BY <1>1, <2>1 DEF CInv, ClaimedPairMatches
  <2>3. claim.pair \in Stored
    BY <1>1, <2>1 DEF CInv, ClaimShape
  <2>4. claim.pair.block \in 0 .. MaxBlock /\ claim.pair.account \in Account
    BY <2>3 DEF Stored
  <2>5. claim.pair.signature \in Signature
    BY <2>2, <2>4 DEF SignatureOf, Signature
  <2>6. claim.pair.signature # OtherText
    BY <2>5, OtherAssumption
  <2>7. claim.pair.signature.to = claim.pair.account /\ claim.pair.signature.block = claim.pair.block
    BY <2>2 DEF SignatureOf
  <2>8. QED BY <1>1, <2>1, <2>6, <2>7 DEF Recognised
<1>2. CInv => \A n \in {block, block + 1} : Refuse(n) =>
                 ~ InTime(claim.pair.block, n) \/ claim.sender # claim.pair.account
  BY <1>1
<1>3. QED BY <1>2, ClaimInvariant, PTL DEF RefusedForAReason
=============================================================================
