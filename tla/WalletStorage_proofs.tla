------------------------ MODULE WalletStorage_proofs ------------------------
(***************************************************************************)
(* The flash holds a whole wallet whenever it has the boot flag, for every *)
(* number of keys and power failures and whichever commits fail; and the   *)
(* address that is shown belongs to the key that signs, and stays the same *)
(* unless the commit of the boot flag is lost.                             *)
(*                                                                         *)
(* The flash is always a copy the image had after some write, so what has  *)
(* to be known of the flash has to be known of the image after every       *)
(* single write.                                                           *)
(***************************************************************************)
EXTENDS WalletStorage, TLAPS

IsWhole(image) == image["boot"] = BootFlag => \E k \in Key : IsWalletOf(image, k)

\* What bootstrap has written so far belongs to the new key, and no boot flag
\* is left from before.
Unfinished == /\ ram["boot"] # BootFlag
              /\ \A i \in 1 .. next - 1 : ram[Order[i]] = key

IInv == /\ TypeOK
        /\ IsWhole(flash)
        /\ IsWhole(ram)
        /\ pc = "write" => Unfinished
        /\ pc \in {"server", "loop"} => ram["boot"] = BootFlag
        /\ pc = "loop" => served = ram["address"]

LEMMA Regions == Region = {"secret", "public", "address", "checksum", "boot"}
BY DEF Region, Order

LEMMA BlankIsWhole == Blank \in Image /\ IsWhole(Blank)
BY ContentAssumption, Regions DEF Blank, Image, Content, IsWhole

LEMMA InitEstablishes == Init => IInv
<1> SUFFICES ASSUME Init PROVE IInv
  OBVIOUS
<1>1. TypeOK
  <2>1. flash \in Image /\ ram \in Image
    BY BlankIsWhole DEF Init
  <2>2. losses \in 0 .. MaxLosses /\ next \in 1 .. 5
    BY MaxLossesAssumption DEF Init
  <2>3. QED BY <2>1, <2>2 DEF Init, TypeOK
<1>2. IsWhole(flash) /\ IsWhole(ram)
  BY BlankIsWhole DEF Init
<1>3. QED BY <1>1, <1>2 DEF Init, IInv

\* One writeStorage extends the unfinished wallet, and the last one finishes it.
LEMMA WriteKeeps == IInv /\ WriteStorage => IInv'
<1> SUFFICES ASSUME IInv, WriteStorage PROVE IInv'
  OBVIOUS
<1> DEFINE region == Order[next]
           value == IF region = "boot" THEN BootFlag ELSE key
<1>1. next \in 1 .. 5 /\ key \in Key /\ key \in Content /\ BootFlag \in Content
  BY DEF IInv, TypeOK, WriteStorage, Content
<1>2. region \in Region /\ (region = "boot" <=> next = 5)
  BY <1>1, Regions DEF Order
<1>3. \A r \in Region : ram'[r] = IF r = region THEN value ELSE ram[r]
  BY <1>2 DEF WriteStorage, Written, IInv, TypeOK, Image
<1>4. ram' \in Image
  BY <1>1, <1>2 DEF WriteStorage, Written, IInv, TypeOK, Image
<1>5. \A i \in 1 .. next : Order[i] # "boot" => ram'[Order[i]] = key
  <2>1. Unfinished
    BY DEF IInv, WriteStorage
  <2>2. \A i \in 1 .. next : Order[i] \in Region /\ (Order[i] = region <=> i = next)
    BY <1>1, Regions DEF Order
  <2>3. QED BY <1>1, <1>3, <2>1, <2>2 DEF Unfinished
<1>6. flash' \in {flash, ram'}
  BY DEF WriteStorage, Commit
<1>7. IsWhole(ram')
  <2>1. CASE next = 5
    <3>1. IsWalletOf(ram', key)
      BY <1>5, <2>1, Regions DEF IsWalletOf, Order
    <3>2. QED BY <1>1, <3>1 DEF IsWhole
  <2>2. CASE next # 5
    <3>1. ram'["boot"] # BootFlag
      BY <1>2, <1>3, <2>2, Regions DEF IInv, WriteStorage, Unfinished
    <3>2. QED BY <3>1 DEF IsWhole
  <2>3. QED BY <2>1, <2>2
<1>8. IsWhole(flash')
  BY <1>6, <1>7 DEF IInv
<1>9. TypeOK'
  <2>1. pc' \in {"server", "write"} /\ next' \in 1 .. 5 /\ key' \in Key \cup {None}
        /\ (pc' = "write" => key' \in Key)
    BY <1>1 DEF WriteStorage, KeyAfter
  <2>2. storageFailed' \in BOOLEAN
    BY DEF WriteStorage, IInv, TypeOK
  <2>3. QED BY <1>4, <1>6, <2>1, <2>2 DEF WriteStorage, IInv, TypeOK, historyVars
<1>10. pc' = "write" => Unfinished'
  <2> SUFFICES ASSUME pc' = "write" PROVE Unfinished'
    OBVIOUS
  <2>1. next # 5 /\ next' = next + 1 /\ key' = key
    BY <1>1 DEF WriteStorage, KeyAfter
  <2>2. ram'["boot"] # BootFlag
    BY <1>2, <1>3, <2>1, Regions DEF IInv, WriteStorage, Unfinished
  <2>3. \A i \in 1 .. next : Order[i] # "boot"
    BY <1>1, <2>1 DEF Order
  <2>4. QED BY <1>1, <1>5, <2>1, <2>2, <2>3 DEF Unfinished
<1>11. pc' = "server" => ram'["boot"] = BootFlag
  <2>1. pc' = "server" => next = 5
    BY <1>1 DEF WriteStorage
  <2>2. QED BY <1>2, <1>3, <2>1, Regions
<1>12. pc' # "loop"
  BY DEF WriteStorage
<1>13. QED BY <1>7, <1>8, <1>9, <1>10, <1>11, <1>12 DEF IInv

LEMMA NextPreserves == IInv /\ [Next]_vars => IInv'
<1> SUFFICES ASSUME IInv, [Next]_vars PROVE IInv'
  OBVIOUS
<1> USE ContentAssumption, Regions DEF historyVars, deviceVars
<1>1. CASE UNCHANGED vars
  BY <1>1 DEF vars, IInv, TypeOK, IsWhole, IsWalletOf, Unfinished
<1>2. CASE PowerOn
  BY <1>2 DEF PowerOn, IInv, TypeOK, IsWhole, IsWalletOf, Unfinished
<1>3. CASE ClearStorage
  <2>1. ram' = [r \in Region |-> Cleared] /\ flash' \in {flash, ram'}
    BY <1>3 DEF ClearStorage, Commit
  <2>2. ram' \in Image /\ IsWhole(ram')
    BY <2>1 DEF Image, Content, IsWhole
  <2>3. flash' \in Image /\ IsWhole(flash')
    BY <2>1, <2>2 DEF IInv, TypeOK
  <2>4. QED BY <1>3, <2>2, <2>3 DEF ClearStorage, IInv, TypeOK, IsWhole, IsWalletOf, Content
<1>4. CASE Bootstrap
  <2>1. CASE AlreadyGenerated /\ pc' = "server" /\ UNCHANGED <<key, next, used>>
    BY <1>4, <2>1 DEF Bootstrap, AlreadyGenerated, IInv, TypeOK, IsWhole, IsWalletOf
  <2>2. CASE ~ AlreadyGenerated /\ GenerateKey /\ next' = 1 /\ pc' = "write"
    BY <1>4, <2>2 DEF Bootstrap, AlreadyGenerated, GenerateKey, IInv, TypeOK, IsWhole,
                      IsWalletOf, Unfinished
  <2>3. QED BY <1>4, <2>1, <2>2 DEF Bootstrap
<1>5. CASE WriteStorage
  BY <1>5, WriteKeeps
<1>6. CASE SetupBleServer
  <2>1. ram["address"] \in Content
    BY DEF IInv, TypeOK, Image
  <2>2. QED BY <1>6, <2>1 DEF SetupBleServer, IInv, TypeOK, IsWhole, IsWalletOf
<1>7. CASE PowerLoss
  <2>1. IsWhole(ram)' /\ IsWhole(flash)'
    BY <1>7, BlankIsWhole DEF PowerLoss, IInv, IsWhole
  <2>2. losses' \in 0 .. MaxLosses
    BY <1>7, MaxLossesAssumption DEF PowerLoss, IInv, TypeOK
  <2>3. TypeOK'
    <3>1. ram' \in Image /\ flash' \in Image
      BY <1>7, BlankIsWhole DEF PowerLoss, IInv, TypeOK
    <3>2. next' \in 1 .. 5
      BY <1>7 DEF PowerLoss
    <3>3. QED BY <1>7, <2>2, <3>1, <3>2 DEF PowerLoss, IInv, TypeOK
  <2>4. QED BY <1>7, <2>1, <2>3 DEF PowerLoss, IInv
<1>8. CASE Reflash
  BY <1>8 DEF Reflash, IInv, TypeOK, IsWhole, IsWalletOf
<1>9. QED BY <1>1, <1>2, <1>3, <1>4, <1>5, <1>6, <1>7, <1>8 DEF Next, Setup

LEMMA InductiveInvariant == Spec => []IInv
BY InitEstablishes, NextPreserves, PTL DEF Spec

\* Every variable keeps its type, and bootstrap never writes a wiped key.
THEOREM TypeCorrect == Spec => []TypeOK
<1>1. IInv => TypeOK
  BY DEF IInv
<1>2. QED BY <1>1, InductiveInvariant, PTL

\* However often the power fails, and whichever commits are lost, the boot flag
\* is never in the flash without the whole wallet of one key.
THEOREM JournalCorrect == Spec => []FlashHoldsOneWallet
<1>1. IInv => FlashHoldsOneWallet
  BY DEF IInv, IsWhole, FlashHoldsOneWallet
<1>2. QED BY <1>1, InductiveInvariant, PTL

\* A signature of the device recovers to the address that the device shows.
THEOREM AddressCorrect == Spec => []ServedAddressSigns
<1>1. IInv => ServedAddressSigns
  BY Regions DEF IInv, IsWhole, ServedAddressSigns, IsWalletOf
<1>2. QED BY <1>1, InductiveInvariant, PTL
-----------------------------------------------------------------------------
(***************************************************************************)
(* The address is permanent.  An address that was shown is the one in the  *)
(* flash, under the boot flag; bootstrap only writes when no address was   *)
(* shown; and when it is over the image is what the flash holds.           *)
(***************************************************************************)
Served == \A a \in published : flash["boot"] = BootFlag /\ flash["address"] = a

PInv == /\ pc = "bootstrap" => ram = flash \/ (published = {} /\ ram["boot"] # BootFlag)
        /\ pc = "write" => journalLost \/ published = {}
        /\ pc \in {"server", "loop"} => journalLost \/ ram = flash
        /\ journalLost \/ Served

LEMMA InitIsPermanent == Init => PInv
BY DEF Init, PInv, Served

LEMMA StepIsPermanent == IInv /\ PInv /\ [Next]_vars => PInv'
<1> SUFFICES ASSUME IInv, PInv, [Next]_vars PROVE PInv'
  OBVIOUS
<1> USE DEF historyVars, deviceVars
<1>1. CASE UNCHANGED vars
  BY <1>1 DEF vars, PInv, Served
<1>2. CASE PowerOn
  BY <1>2 DEF PowerOn, PInv, Served
<1>3. CASE ClearStorage
  <2>1. ram'["boot"] # BootFlag
    BY <1>3, ContentAssumption, Regions DEF ClearStorage
  <2>2. QED BY <1>3, <2>1 DEF ClearStorage, PInv, Served
<1>4. CASE Bootstrap
  <2>1. CASE AlreadyGenerated /\ pc' = "server" /\ UNCHANGED <<key, next, used>>
    BY <1>4, <2>1 DEF Bootstrap, AlreadyGenerated, PInv, Served
  <2>2. CASE ~ AlreadyGenerated /\ GenerateKey /\ next' = 1 /\ pc' = "write"
    BY <1>4, <2>2 DEF Bootstrap, AlreadyGenerated, PInv, Served
  <2>3. QED BY <1>4, <2>1, <2>2 DEF Bootstrap
<1>5. CASE WriteStorage
  <2>1. /\ pc = "write" /\ UNCHANGED published
        /\ journalLost' = (journalLost \/ (next = 5 /\ flash' # ram'))
        /\ pc' = IF next = 5 THEN "server" ELSE "write"
    BY <1>5 DEF WriteStorage
  <2>2. journalLost \/ published = {}
    BY <2>1 DEF PInv
  <2>3. journalLost' \/ Served'
    BY <2>1, <2>2 DEF Served
  <2>4. pc' = "write" => journalLost' \/ published' = {}
    BY <2>1, <2>2
  <2>5. pc' = "server" => journalLost' \/ ram' = flash'
    BY <2>1
  <2>6. pc' \in {"server", "write"}
    BY <2>1
  <2>7. QED BY <2>3, <2>4, <2>5, <2>6 DEF PInv
<1>6. CASE SetupBleServer
  <2>1. journalLost \/ (ram = flash /\ Served)
    BY <1>6 DEF SetupBleServer, PInv
  <2>2. ram["boot"] = BootFlag
    BY <1>6 DEF SetupBleServer, IInv
  <2>3. QED BY <1>6, <2>1, <2>2 DEF SetupBleServer, PInv, Served
<1>7. CASE PowerLoss
  BY <1>7 DEF PowerLoss, PInv, Served
<1>8. CASE Reflash
  BY <1>8 DEF Reflash, PInv, Served
<1>9. QED BY <1>1, <1>2, <1>3, <1>4, <1>5, <1>6, <1>7, <1>8 DEF Next, Setup

\* However often the power fails and whichever other commits are lost: unless the
\* commit of the boot flag is, a signer shows one address until it is cleared.
THEOREM AddressStays == Spec => []AddressIsPermanent
<1>1. Init => IInv /\ PInv
  BY InitEstablishes, InitIsPermanent
<1>2. IInv /\ PInv /\ [Next]_vars => (IInv /\ PInv)'
  BY NextPreserves, StepIsPermanent
<1>3. IInv /\ PInv => AddressIsPermanent
  BY DEF PInv, Served, AddressIsPermanent
<1>4. QED BY <1>1, <1>2, <1>3, PTL DEF Spec
=============================================================================
