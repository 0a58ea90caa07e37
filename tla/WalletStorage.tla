--------------------------- MODULE WalletStorage ---------------------------
(***************************************************************************)
(* How the signer keeps its wallet: EEPROM.begin, clearStorage, bootstrap  *)
(* and writeStorage of ESP5791.ino, with the power failing between any two *)
(* steps.                                                                  *)
(*                                                                         *)
(* The EEPROM library keeps an image of the flash in RAM.  EEPROM.read and *)
(* EEPROM.write only touch the image; EEPROM.commit writes the whole image *)
(* to the flash, at once, or returns false, which the firmware ignores.    *)
(*                                                                         *)
(* The public key, the address and the checksum are computed from the      *)
(* private key, so each region of the storage is represented by the        *)
(* private key its content belongs to.                                     *)
(***************************************************************************)
EXTENDS Integers, Sequences

CONSTANTS Key,            \* the private keys the generator can return
          Erased,         \* the content of a flash that was never written
          Cleared,        \* the content that clearStorage leaves
          BootFlag,       \* 0xdeadbeef
          None,           \* no key, or no address
          MaxLosses       \* bound: how often the power fails

ASSUME ContentAssumption ==
    /\ BootFlag \notin Key \cup {Erased, Cleared, None}
    /\ {Erased, Cleared, None} \cap Key = {}
ASSUME MaxLossesAssumption == MaxLosses \in Nat

\* The regions, in the order in which bootstrap writes them.
Order == <<"secret", "public", "address", "checksum", "boot">>
Region == {Order[i] : i \in 1 .. 5}

VARIABLES flash,          \* the EEPROM blob
          ram,            \* its image
          pc,             \* where setup() is
          key,            \* the privateKey buffer of bootstrap
          next,           \* the region bootstrap writes next
          served,         \* the address that the BLE server shows
          resetBuild,     \* DEBUG_RESET of the firmware that is installed
          storageFailed,  \* writeStorage called crash()
          used,           \* history: the keys generated so far
          published,      \* history: the addresses shown since the last clearStorage
          journalLost,    \* history: a commit of the boot flag failed since then
          losses          \* history: how often the power failed

deviceVars == <<ram, pc, key, next, served>>
historyVars == <<used, published, journalLost, losses>>
vars == <<flash, deviceVars, resetBuild, storageFailed, historyVars>>

Content == Key \cup {Erased, Cleared, BootFlag}
Image == [Region -> Content]
Blank == [r \in Region |-> Erased]

TypeOK == /\ flash \in Image
          /\ ram \in Image
          /\ pc \in {"off", "clear", "bootstrap", "write", "server", "loop"}
          /\ key \in Key \cup {None}
          /\ next \in 1 .. 5
          /\ served \in Content \cup {None}
          /\ resetBuild \in BOOLEAN
          /\ storageFailed \in BOOLEAN
          /\ used \subseteq Key
          /\ published \subseteq Content
          /\ journalLost \in BOOLEAN
          /\ losses \in 0 .. MaxLosses
          /\ pc = "write" => key \in Key

Init == /\ flash = Blank
        /\ ram = Blank
        /\ pc = "off"
        /\ key = None
        /\ next = 1
        /\ served = None
        /\ resetBuild = FALSE
        /\ storageFailed = FALSE
        /\ used = {}
        /\ published = {}
        /\ journalLost = FALSE
        /\ losses = 0
-----------------------------------------------------------------------------
\* EEPROM.commit: the flash gets the image, or the commit fails.
Commit(image) == flash' = image \/ UNCHANGED flash

\* setup() up to EEPROM.begin.
PowerOn ==
    /\ pc = "off"
    /\ ram' = flash
    /\ pc' = IF resetBuild THEN "clear" ELSE "bootstrap"
    /\ UNCHANGED <<flash, key, next, served, resetBuild, storageFailed, historyVars>>

ClearStorage ==
    /\ pc = "clear"
    /\ ram' = [r \in Region |-> Cleared]
    /\ Commit(ram')
    /\ pc' = "bootstrap"
    /\ published' = {}
    /\ journalLost' = FALSE
    /\ UNCHANGED <<key, next, served, resetBuild, storageFailed, used, losses>>

\* Mutants: the flag is looked for in the wrong region; any key will do.
FlagInChecksum == ram["checksum"] = BootFlag
SomeKeyIsStored == ram["secret"] \in Key

AlreadyGenerated == ram["boot"] = BootFlag

\* Mutant: bootstrap will not overwrite the key of an unfinished bootstrap.
GenerateKeyOnce == /\ ram["secret"] \notin Key
                   /\ \E k \in Key \ used : key' = k /\ used' = used \cup {k}

\* No generator returns the same key twice.
GenerateKey == \E k \in Key \ used : key' = k /\ used' = used \cup {k}

\* bootstrap up to the first writeStorage, or its early return.
Bootstrap ==
    /\ pc = "bootstrap"
    /\ \/ AlreadyGenerated /\ pc' = "server" /\ UNCHANGED <<key, next, used>>
       \/ ~ AlreadyGenerated /\ GenerateKey /\ next' = 1 /\ pc' = "write"
    /\ UNCHANGED <<flash, ram, served, resetBuild, storageFailed, published, journalLost, losses>>

\* Mutant: the boot flag is written first.
FlagFirst(i) == IF i = 1 THEN "boot" ELSE Order[i - 1]

\* The region the i-th writeStorage of bootstrap writes.
Written(i) == Order[i]

\* Mutant: the key is wiped before it is written.
WipedFirst(i) == None

\* bootstrap wipes the private key when everything is written.
KeyAfter(i) == IF i = 5 THEN None ELSE key

\* writeStorage: write, commit, and compare with the image.
WriteStorage ==
    LET region == Written(next)
        value  == IF region = "boot" THEN BootFlag ELSE key
    IN /\ pc = "write"
       /\ ram' = [ram EXCEPT ![region] = value]
       /\ Commit(ram')
       /\ storageFailed' = (storageFailed \/ ram'[region] # value)
       /\ key' = KeyAfter(next)
       /\ IF next = 5 THEN pc' = "server" /\ UNCHANGED next
          ELSE next' = next + 1 /\ UNCHANGED pc
       /\ journalLost' = (journalLost \/ (next = 5 /\ flash' # ram'))
       /\ UNCHANGED <<served, resetBuild, used, published, losses>>

\* setupBleServer shows the address, and setup() ends.
SetupBleServer ==
    /\ pc = "server"
    /\ served' = ram["address"]
    /\ published' = published \cup {ram["address"]}
    /\ pc' = "loop"
    /\ UNCHANGED <<flash, ram, key, next, resetBuild, storageFailed, used, journalLost, losses>>

\* Whatever is in RAM is lost.
PowerLoss ==
    /\ pc # "off"
    /\ losses < MaxLosses
    /\ losses' = losses + 1
    /\ pc' = "off"
    /\ ram' = Blank
    /\ key' = None
    /\ next' = 1
    /\ served' = None
    /\ storageFailed' = FALSE
    /\ UNCHANGED <<flash, resetBuild, used, published, journalLost>>

\* "switch flag and re-flash to reset keys on boot"
Reflash ==
    /\ pc = "off"
    /\ resetBuild' = ~ resetBuild
    /\ UNCHANGED <<flash, deviceVars, storageFailed, historyVars>>

Setup == PowerOn \/ ClearStorage \/ Bootstrap \/ WriteStorage \/ SetupBleServer

Next == Setup \/ PowerLoss \/ Reflash

Spec == Init /\ [][Next]_vars

\* setup() runs on while there is power, and someone turns the device on again.
FairSpec == Spec /\ WF_vars(Setup)
-----------------------------------------------------------------------------
(***************************************************************************)
(* Properties.                                                             *)
(***************************************************************************)
IsWalletOf(image, k) == \A r \in Region \ {"boot"} : image[r] = k

\* "note: this is written last like a journal commit": whenever the power fails
\* and whichever commits fail, a flash with the boot flag holds one whole wallet.
FlashHoldsOneWallet == flash["boot"] = BootFlag => \E k \in Key : IsWalletOf(flash, k)

\* The address the signer shows is that of the key it signs with.
ServedAddressSigns == pc = "loop" => served \in Key /\ IsWalletOf(ram, served)

\* A device that has shown an address, to be seeded for a token, shows the same
\* address after every later restart, until a DEBUG_RESET build clears it.  The
\* only commit that may not fail for this is that of the boot flag: the commits
\* after a failed one write the whole image.
AddressIsPermanent == journalLost \/ \A a, b \in published : a = b

\* The signer comes up in the end, even if commits fail: crash() only reports.
ComesUp == <>[](pc = "loop")
=============================================================================
