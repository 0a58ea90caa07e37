# Verification of ESP5791

ESP5791 binds an NFT to a physical object. The object carries an ESP32 (the
*signer*) with a secp256k1 key of its own; a smart contract gives the token to
whoever presents a fresh signature of the chip over their account and a recent
block; a web page carries the messages between the signer and the chain.

This directory holds TLA+ models of those three parts and of the Bluetooth host
under the signer, the TLC configurations
that check them on small instances, and proofs that TLAPS checks for every value
of the constants. `PROJECT.json` lists the components, runs, mutants, source
lines, hazards and theorems in machine-readable form.

    tlc -config MCESP5791.cfg MCESP5791       # check one run
    tlapm ESP5791_proofs.tla                  # check one module's proofs

## 1. Inventory

| Component | Source | Model |
|---|---|---|
| PBT contract | `hardhat/contracts/PBT/ESP5791.sol`, `PBTSimpleCustom.sol`, `extensions/ERC721ReadOnlyCustom.sol` | `ESP5791`, abstractly `TokenLedger` |
| Token enumeration | `hardhat/contracts/extensions/ERC721EnumerableCustom.sol` | `ERC721Enumerable` |
| Collection views | `hardhat/contracts/extensions/ERC721Extended.sol` | `ERC721Extended` |
| General NFT contract | `hardhat/contracts/extensions/ERC721Full.sol` | `ERC721Full` |
| Wallet storage of the signer | `Arduino/ESP5791/ESP5791.ino` 52–136, 282–397 | `WalletStorage` |
| Signing and BLE server of the signer | `Arduino/ESP5791/ESP5791.ino` 209–279, 364–510; NimBLE-Arduino glue | `SignerDevice` |
| NimBLE host stack | `Arduino/libraries/NimBLE-Arduino/src/nimble/nimble/host/src`, `nimble/esp_port` | `HciHost`, `AclFlow`, `QueuedWrites` |
| Browser GUI | `client/lib/esp_controller.js`, `esp_ble.js`, `esp_eth.js` | `SigningSession`, `ClaimSession` |

All paths below are relative to `src/`.

### The contract

*State.* The owners and balances of OpenZeppelin's ERC721, the four mappings and
lists of `ERC721EnumerableCustom.sol`, and `_tokenDatas` (chip address to token).
*Operations.* `seedChipToTokenMapping` and `updateChips` for administrators,
`transferTokenWithChip` for everybody. `ERC721ReadOnlyCustom` makes every other
setter of ERC721 revert.
*Hard.* A safe transfer calls `onERC721Received` in the middle of the call; the
receiver may claim other tokens and may revert, and `PBTMint` is emitted only
after it. A signature expires with the age of a block, against two windows (the
contract's 250 and the 256 that `blockhash` reaches). A signature may be older
than the mapping of its chip.
*Correct if* the lists agree with the owners; a mint is announced once; and what
finished transactions do is what the token ledger of section 2 allows.

### The general NFT contract

*State.* The same storage and a royalty per token. *Operations.* `mint`,
`mintBatch`, `burn`, `transferFrom`, `safeTransferFrom`, `transferBatch`,
`setTokenRoyalty`, `getTokenIds`.
*Hard.* A receiver is called between the items of a batch and can move, burn or
mint what the next items are about; a late failure takes back everything.
*Correct if* the lists agree with the owners, tokens move only with the consent
of their owner, and the royalty dies with the token.

### The wallet of the signer

*State.* The flash, its image in RAM, the globals of `setup()`. *Operations.*
`bootstrap`, `clearStorage`, `writeStorage`.
*Hard.* The power fails between any two of the five writes; `EEPROM.commit` fails
and nobody looks at its result; the firmware is replaced by one with `DEBUG_RESET`.
*Correct if* a flash that claims to hold a wallet holds a whole one, the address
shown is that of the key in use, the address never changes once it was shown (it
is what a token is seeded with), and a device that is powered comes up.

### The BLE server of the signer

*State.* The radio (host synced, advertising, connected peers, subscriptions), the
values of the five characteristics, what each of the two tasks is signing.
*Operations.* `setupBleServer`, the two `onWrite` callbacks, `eth_signMessage`,
`eth_signHashedMessage`, and NimBLE-Arduino's event handlers.
*Hard.* `setup()` runs on in one task while the host task serves clients; clients
vanish in the middle of a request; the host is reset and synced again; only a few
handlers restart the advertising, and only once a `start()` has come past its checks.
*Correct if* a client gets the signature of its own message, only one client is
connected at a time, payloads do not stay readable, and the signer can be found
again after whatever happened.

### The Bluetooth host

*State.* The sync state, the reset that is due and its reason, the command under
way and its acknowledgement, what the host believes of the advertising; the credit
of the controller, the receive queue, the packets in reassembly, the count of freed
buffers; the pool of prepared writes, the queue of each connection and its timeout.
*Operations.* `ble_hs_hci_cmd_tx`, `ble_hs_reset`, `ble_hs_sync`, `ble_gap_adv_start`;
`ble_hci_rx_acl`, `ble_l2cap_rx`, `ble_hs_flow_acl_free`; the Prepare and Execute
Write requests, `ble_hs_conn_timer`.
*Hard.* Two tasks send commands to a controller that may not answer or refuse, and a
reset begins in the middle of either; the controller fills buffers by a count it gets
from the host, while links end; the pieces of a long write come in any order, and
their client may stop, vanish or never finish.
*Correct if* a task gets the acknowledgement of its own command, a startup ends with a
controller in a known state, the host knows whether it advertises and does so in the
end; every buffer is accounted for and reported; each attribute of a long write is
written whole or not at all and the client is told; and nobody uses up the pool.

### The GUI

*State.* `EspBLE.device`, the GATT links of the page, the local variables of each
async handler, the form, the wallet. *Operations.* sign, scan, claim, seed, connect a wallet.
*Hard.* Every operation is a chain of awaits between which other handlers run, the
chain grows, the account changes, the link breaks or the user cancels.
*Correct if* the signature in the form belongs to the block number in the form and to
the account it was asked for, a claim of it is refused only for its block or its
sender, the signer is released after it was used, and a handler talks to the device
that was picked for it.

### How they interact

The GUI writes a message (account, block hash) to a payload characteristic of the
signer and reads the signature (BLE requests: `SigningSession` to `SignerDevice`);
it sends the signature and the block number to the contract (a transaction:
`transferTokenWithChip`); the administrator seeds the address a signer shows
(`served` of `WalletStorage`, a chip of `ESP5791`). The models meet at these named
facts instead of being multiplied with each other:

- `SigningSession` takes from `SignerDevice` that the output after an answered
  write is the signature of what was written (`AnswersMatchWrites`) and that nobody
  else uses a signer the page is connected to (`OneClientAtATime`);
- `SignerDevice` treats the key as constant: `ServedAddressSigns` of
  `WalletStorage` says that the key in RAM is that of the address shown;
- `ClaimSession` goes on to the contract: its `Recognised` is the check of
  `_getChipAddressForChipSignature` on the pair the page has stored;
- `SignerDevice` takes from `HciHost` that a reset ends with a host that is synced
  and silent (`CleanBringup`) and starts to advertise (`FoundAgain`), and from
  `QueuedWrites` that a payload longer than a packet arrives whole (`WritesAreWhole`)
  or, if it does not fit, is refused (`TooLong`, `HostRefuse`).
  `AclFlow` takes from `OneClient` that there is one link at a time;
- `ESP5791` lets chips sign anything at any time, so it asks nothing of the GUI and
  of the firmware but that a signature stands for its signer and its message.

### What is not modelled

- *NimBLE host stack* beyond the three modules: what the host transmits
  (`ble_hs_hci_acl_tx_now`, `ble_hs_wakeup_tx`), the attribute table, pairing
  (`ble_sm*.c`), the GATT client, scanning, extended and periodic advertising, mesh.
  The firmware reads and writes five characteristics without pairing. The controller
  of `nimble/nimble/controller` and `nimble/nimble/drivers`, more than a third of all
  lines under `src/`, is not compiled for the ESP32, whose controller is a library
  of its vendor; so the share of the lines of `src/` that any model of this system can
  stand for is small.
- *Web3E and trezor-crypto*: vendored pure functions. A signature is represented by
  signer and message, a hash by what is hashed.
- *NimBLE-Arduino* beyond what the firmware calls: client role, security, scanning,
  indications, extended advertising.
- *`ESP5791Demo.sol`*: the contract for a test network, with setters open to everyone
  and a token number made of the chip's address, so that none of the promises
  above is made for it; *deployment tasks* (`hardhat/tasks`): one transaction each, no state.
- Of the GUI: the seed form. It keeps nothing but the text that the user sees and
  edits before it is sent in one transaction.
- Of `ERC721Full`: default royalty, approvals of single tokens, changes of roles
  and operators, `setBaseURI`.

## 2. Modules

    TokenLedger                what the PBT contract promises
        ^ implemented by
    ESP5791  ------ extends -----+
                                 +--> ERC721Enumerable    storage and lists
    ERC721Full --> ERC721Extended +
    ClaimSession --> SigningSession
    WalletStorage     SignerDevice     HciHost
    AclFlow ------+
                  +--> Totals          what is out of a pool, counted by its owners
    QueuedWrites -+
    MC<module>        constants and symmetry for TLC
    <module>_proofs   theorems; ClaimSession_proofs also holds those about SigningSession,
                      BufferPools_proofs those about AclFlow and QueuedWrites

### `ERC721Enumerable`: operators

No state of its own: a storage is a record (owners, balances, owned tokens and their
indices, all tokens and their indices). `Minted`, `Transferred` and `Burned` are
OpenZeppelin's `_mint`, `_transfer` and `_burn` with the `_beforeTokenTransfer`
hook of lines 62–87 inside, and the four private functions (94–160) with their swap
and pop. `Consistent` says that lists, indices, balances and owners agree. The
OpenZeppelin part is external: balances and owners change *after* the hook, which
the swap-and-pop depends on.

### `ESP5791`: the contract

| Code | Definition |
|---|---|
| `_seedChipToTokenMapping` PBTSimpleCustom 37–61 | `SeedChipToTokenMapping`, `Seeded` |
| `_updateChips` 63–85 | `UpdateChips`, `Replaced` |
| `_getChipAddress` 160–181 | `BlockIsValid`, `BlockHash`, `Recover` |
| `_getTokenData` 183–195 and `_transferTokenWithChip` ESP5791.sol 70–94 | `TransferTokenWithChip`, `EmitMint` |
| `onERC721Received` (any contract account) | `ReceiverReturns`, `ReceiverReverts`, nested `TransferTokenWithChip` |

A call that runs to its end without a receiver is one step. A call that calls a
receiver pushes a frame with the state its revert restores; the receiver may call
again; return and revert pop the frame. Block hashes are represented by block
numbers, and the 32 zero bytes of an unknown block by `ZeroHash` — chips may sign
those too, so a window of the contract larger than that of the EVM would show.
Administrators are externally owned accounts: they do not act inside a frame.
`transferTokenWithChip` of lines 134–144 fills in the `useSafeTransfer` argument,
so `safe` ranges over both values.

### `TokenLedger`: the abstract specification

Owners, the map from chips to tokens, signatures, the block number. `Claim` moves
tokens only to accounts that one of their chips has signed for within the window;
`Remap` gives a minted token no further chips. `ESP5791` implements it with
`owner` mapped to the owners that finished transactions have left (`CommittedOwners`:
what the outermost frame would restore): a step inside a transaction is a stutter
and the end of a transaction is one `Claim` of possibly several tokens.

### `ERC721Extended`, `ERC721Full`: the general contract

`Call` begins one of the four functions that can call a receiver, `ProcessItem`
goes through one item of its batch, `ItemReverts` takes the call back, `CallEnds`
ends it; `ReceiverReturns` and `ReceiverReverts` as above. A mint is an item that
comes from `Nobody`. `Burn` and `TransferFrom` call no receiver and are one step
each. The royalty is represented by the life (number of burns) of the token it was
set for. Two history variables: `burns`, and `named`, who has called for which token
in the transaction under way.

### `WalletStorage`: flash and bootstrap

One action for each step of `setup()` between which the power can fail: `PowerOn`
(to `EEPROM.begin`), `ClearStorage` (126–136), `Bootstrap` (to the first write, or
the early return), `WriteStorage` (once for each region, 335–357), `SetupBleServer`
(the address shown). `Commit` may fail each time; it is atomic since the EEPROM
library of the ESP32 keeps its image as one blob of the NVS (external). The public
key, the address and the checksum are functions of the private key, so a region is
represented by the key its content belongs to. `crash()` (83–87) returns, and so
nothing stops. The generator does not return a key twice.

### `SignerDevice`: the server at work

Two tasks. The setup task is `CreateServer`, `StartServer` (the checks of `start()` up to
the line that notes the duration), `AdvertiseServer` (the rest of it) and, with
`DEBUG_SERIAL`, three steps of `SetOutput("setup")` for the test message (line 395).
The host task handles one event at a time (`HostConnect`, `HostDisconnect`,
`HostRead`, `HostSubscribe`, `HostWrite`, `Sync`); a write starts the job of its
callback: three `SetOutput`, three `Notify`, then `Answer`, which clears the payload
(408–455). A payload that does not fit is refused (`HostRefuse`). `StartAdvertising` is
`NimBLEAdvertising::start` in the host task, where nothing comes between its lines; its
checks are `MayStart` and `BelievesToAdvertise`. `forever` is `m_duration = 0`: it is set
past these checks only, and `Sync` restarts the advertising only if it is. Clients
connect, send one request at a time and vanish with or without their request
arriving. `HostReset` breaks everything. A signature or a hash is represented by the
message it belongs to; `wrote` and `seen` are the histories of the clients.

### `SigningSession`: the page

A flow is one run of the sign handler (`esp_controller.js` 131–176) or of the scan
handler; its `step` is the await it is at: account, block, chooser, connection,
address, write, the 200 ms wait, the read. Each step reads `ble.device` when the
code does. Any await may be rejected (`Fail`); a chooser may be cancelled, which
`requestDevices` swallows (`Cancel`). `Overlap` says whether the user starts a flow
while another one is under way: nothing in the page prevents it. The user does not
edit the form by hand.

### `ClaimSession`: the wallet and the claim

Extends `SigningSession`; all its steps go on. `wallet` says whether
`connectWalletSuccess` has been there (`esp_controller.js` 38–66). The page listens to
`accountsChanged` only after `getNetwork` has answered, and `changeCallback` then reloads
it some time later; the model reloads it whenever it likes (`PageReloads`, also the
user), so that a page may go on with the old account for any time, or for good. The claim
handler reads the form at the click (`ClickClaim`), sends the transaction from
whatever account is selected when the wallet shows it (`SendClaim`), and the contract
checks it in the block it gets into (`Accept`) or in which its gas is
estimated (`Refuse`, lines 160–181 of `PBTSimpleCustom.sol`); `GiveUp` is every other end.

### `HciHost`: commands, resets and advertising

A place (`pc`) for each of the two tasks; a command is named by its place. A command
waits for the mutex (`SendCommand`), then for its acknowledgement (`ProcessAck`) or the
timeout (`Timeout`), as `ble_hs_hci_cmd_tx` does. `SendFails` is a host that is not synced,
or a transport that does not take the command (`esp_nimble_hci.c` 97–111): no reset
follows. `Answer` and `Refuse` are the controller together with `ble_hs_hci_rx_ack`; of
a refusal no reset follows either (`ble_hs_hci.c:335`). The host task resets (`ResetEvent`, `ClearState`,
`ForgetReason`), starts up (`AfterReset`, `Synchronized`, `StartupFails`) and tries again
(`TimerExp`); between `ble_gap_reset_state` and the lines after it the other task goes
on, which is why they are steps. `OnSync`, `AppInit`, `StartAdvertising`, `AfterData`,
`AdvStart`, `AfterParams` and `AfterEnable` are NimBLE-Arduino's restart of the
advertising and `ble_gap_adv_start`, which keeps the lock of the host during its commands.
The startup is two commands, HCI Reset and one for all that follow. `forever` is that of
`SignerDevice`. `unaware`, `overtaken` and `gaveUp` are history; see section 6.

### `AclFlow`: received data

`Receive` is the transport (`ble_hci_rx_acl`, `ble_mqueue_put`), `credit` and
`unreported` are the controller's side. The host task takes events in their order
(`evq`; an event that is queued is not queued again, `Put`): `FlowEvent`, `DataEvent`,
`Connected`, `Disconnected`; in a data event it empties the receive queue packet by
packet (`FirstFragment`, `NextFragment`, `DiscardUnconnected`). `Free` counts each
buffer in turn, since a count in the middle of a row may be the one that crosses the
threshold. A report is one command for each connection (`Report`), which clears the count of
the connection before it is sent; the first that fails ends the report (`ReportFails`),
and its buffers are in `unsent`. `ble_hs_flow_event_cb` then resets the host,
`ble_hs_flow_connection_broken` does not. Packets have no content but what reassembly looks at: whether they are
the first fragment and whether they complete the packet. A packet has at least one
fragment (`MaxFragments` is not 0): without that the count could not be explained.

### `QueuedWrites`: long writes

The list of `ble_att_svr_insert_prep_entry` and what `ble_att_svr_prep_validate`,
`_extract` and `_write` make of it, the shared pool, the timeout, and the loop of
`ble_hs_conn_timer` round by round (`TerminateExpired`, `TimerReturns`), between which
the controller may lose a link (`LinkLost`). Entries have real offsets and texts, as
the properties are about them. `Accepts` are the values an attribute takes: the two
payloads of the firmware take up to 256 bytes (`ESP5791.ino:481`, 486;
`NimBLECharacteristic.cpp:296`, 307) where the queue takes 512, and descriptors take their own
size. An execution writes the attributes before the first one that refuses (`Taken`),
and answers an error if there is one. `ExecuteFails` is a request that could not be read
or answered: the queue stays. `accepted` is history: the bag of what was accepted
since the last execution. `Before` are the entries a new one goes after, `InUse` are
those that are not in the pool; `Nth` orders the attributes that an execution writes
(`Handles`). The names of this specification begin with `QW` where
they would meet those of `AclFlow`: one module proves about both.

### `Totals`

`Total(f)` is what the numbers in a function add up to, as the number of its units:
the lists of all connections, or what all links have counted. It is not defined by
recursion, so that its lemmas can be proved.

## 3. Runs

| Run | Question | States |
|---|---|---|
| `contract` | Do lists, events and ownership stay right through claims, nested claims, reverts, re-mappings and expiring signatures, and is the ledger implemented? | 10,599 |
| `collection` | The same for batches, burns and royalties with receivers that interfere | 571,512 |
| `wallet` | Do flash, address and start-up survive power failures and lost commits at every point? | 186,248 |
| `device` | Release build: does each of two clients get its own answers, one at a time, through disconnections and resets? | 12,779 |
| `device_live` | Debug build, resets in the middle of `start()` too: do payloads vanish, is the signer found again, is each request answered, also those that are refused? | 109,289 |
| `session` | One flow at a time, and the claim: do signature and block match, is the signer released, is a claim refused only for a reason, through cancels, failures, lost links, reloads, account changes? | 394,296 |
| `writes` | Two clients, pieces in any order, stops, lost links, resets: is each attribute written whole or not at all, is the pool kept, do stopped writes end? | 95,541 |
| `hci` | Four faults in commands, their sending, refusals, answers and events: own acknowledgements, clean startups, advertising known and restored? | 33,823 |
| `acl` | Fragments of all kinds, links that end and begin, reports that fail: is each buffer accounted for and reported? | 664,074 |

and one for each disagreement between the code and what it says of itself
(section 6).

### Bounds, and why they are enough

- *contract*: an externally owned account and two contracts, so that receivers of two
  accounts nest; two chips and two tokens, so that chips replace each other, two
  chips name one token, and a removal moves the last element of a list; one or two
  pairs in a batch. Window 1, EVM window 2 and blocks up to 3: a block can be fresh, too
  old for the contract, and unknown to the EVM. Two signatures and two nested calls
  are what one claim inside another needs. `CHECK_DEADLOCK FALSE`, as the bounded
  chain stops.
- *collection*: an account with the minter role and a contract it operates for;
  two tokens, batches of one or two items, two nested calls, one burn of each token:
  enough for a receiver to move or burn the second item of the batch that called it,
  and for a token to live twice. No deadlock.
- *wallet*: three power failures put one each into the first bootstrap, the next
  one and a later start; four keys are one for every start. `CHECK_DEADLOCK
  FALSE`: a powered-off device that used up its keys may stop, and a device in its
  loop does nothing further here.
- *device*: two clients with three writes between them show one client's remains to
  the next; two messages tell their answers apart; two resets. Three connections are
  NimBLE's configuration. One more message is too long. `device_live` has one client, as
  liveness is checked without symmetry; what it can wait for is the device.
  `ResetInStart` is TRUE there only: with it a second client gets in (section 4).
  `CHECK_DEADLOCK FALSE`: a signer whose only `start()` was refused waits for nothing
  (section 6).
- *session*: two signers, two accounts, two block numbers and a window of one: a pair
  can be too new, in time, or too old. One flow at a time is the assumption of the
  run; a scan, a failed flow and a signing one follow each other in any order.
  `session_overlap` has two flows and three block numbers.
- *writes*: three entries shared by two clients: one client can use up the pool, or both
  together. The first attribute is at most two long and its pieces can be in order,
  swapped, doubled, overlapping, without a start, too short or too long; it takes one size only,
  and a second attribute, which comes after it in the order of handles, takes one octet
  at most: each can refuse what the list allows, alone or after the other was written. A timeout of two ticks lets a second queue
  begin while the first is timed.
- *hci*: four faults are a failed startup, one in its retry, and one in what each of
  the tasks does after it. `LateAcks` is FALSE: section 6 says what happens otherwise.
  `CHECK_DEADLOCK FALSE`: a host that advertises waits, and so does one that gave up.
- *acl*: three buffers with the threshold 1 have both ways to be reported, by
  count and by timer; packets of up to two fragments hold more buffers than the
  threshold leaves. Two handles, so that what is left of one link meets the next;
  the links may overlap, and then one more packet arrives (`MaxOverlap`), which is what it
  takes to reach `DiscardUnconnected`; a first packet of the second link, behind the
  data event of the first, is enough for that. `CHECK_DEADLOCK FALSE`: after a
  reset nothing follows here (`HciHost` goes on), and without links nothing has to happen.

Symmetry is used for accounts, chips, clients, messages, devices and flows that are
not told apart by any definition, and never in a run with a liveness property.

### Fairness

`WalletStorage!FairSpec`: weak fairness of the steps of `setup()`. They run on while
there is power, and somebody turns the device on again; power failures are bounded,
which is what "in the end" needs. `SignerDevice!FairSpec`: the two tasks are
scheduled by FreeRTOS and the host task takes every event off its queue: weak
fairness of the setup task, of sync and connection events, of the callback under
way, and of the events of each client. Nothing is assumed of clients, of resets or
of the radio.

`HciHost!FairSpec`: both tasks are scheduled and the two locks they share are handed
on in turn, so that a task whose step is possible again and again takes it (strong
fairness of their steps; FreeRTOS mutexes queue their waiters); the controller answers
what is not lost. Faults are bounded, which is what "in the end" needs.
`AclFlow!FairSpec`: the host task and the timer go on (weak fairness; each is the only
one to take its events). `QueuedWrites!FairSpec`: time goes on and the host task takes
its events in the order they come, so a disconnection is handled although other
events come between (strong fairness of both); the controller ends a link it was told
to end. Nothing is assumed of the clients. The other specifications state safety only.

### Mutants

Each property of a passing run has a mutant: a named alternative of one definition
(an age check off by one, an index that is not moved, the boot flag written first, a
missing restart of the advertising, …) with which TLC finds that property violated.
They stand in the modules next to the definitions they replace and are not used
by any specification.

## 4. Theorems

| Theorem | Says |
|---|---|
| `ESP5791_proofs!TypeCorrect` | shape of every reachable state |
| `ESP5791_proofs!EnumerationCorrect` | lists, indices, balances and owners agree, for any accounts, tokens, chips, receivers and depth of nesting |
| `ESP5791_proofs!AnnouncementCorrect` | every token in existence was announced once or is about to be by one pending call |
| `ESP5791_proofs!Implementation` | `ESP5791` implements `TokenLedger` |
| `ESP5791_proofs!ReachabilityCorrect` | replacing chips by new ones leaves no token without a chip |
| `ERC721Full_proofs!TypeCorrect`, `EnumerationCorrect`, `RoyaltyCorrect` | shape; consistent lists; no royalty outlives its token, for any accounts, roles, operators and depth of nesting |
| `ERC721Full_proofs!ConsentCorrect` | a finished transaction takes a token from its owner only if the owner or an operator of the owner called for it |
| `WalletStorage_proofs!TypeCorrect`, `JournalCorrect`, `AddressCorrect`, `AddressStays` | shape; a flash with the boot flag holds one whole wallet; the address shown is that of the key; it never changes unless the commit of the flag itself was lost |
| `SignerDevice_proofs!OneClient` | one client at a time, if the host is not reset in the middle of the `start()` of setup |
| `SignerDevice_proofs!TypeCorrect`, `PayloadsEnd` | shape; no payload outlives its callback, in every build and with any resets |
| `SignerDevice_proofs!AnswersCorrect` | a client receives the signature and hashes of its own last write, in a release build, under the same assumption |
| `ClaimSession_proofs!PairCorrect`, `ReleaseCorrect`, `PickCorrect` | stored pair, release of the signer and device of a flow, if flows do not overlap |
| `ClaimSession_proofs!ClaimIsSession` | the page with its claim implements `SigningSession`, so the theorems above hold of it |
| `ClaimSession_proofs!ClaimTypeCorrect`, `ClaimCorrect` | shape; a claim is refused only for its block or its sender |
| `HciHost_proofs!TypeCorrect` | shape, and at most one command more than the faults under way, with late answers too |
| `HciHost_proofs!OwnAckCorrect`, `CleanCorrect`, `BeliefCorrect` | own acknowledgements, clean startups, and a host that knows whether it advertises, for any number of faults, if the controller does not answer after the timeout |
| `HciHost_proofs!NotStrandedCorrect` | what `FoundAgain` rests on: a host that is out of step and idle has a timer, and when nothing is under way the signer advertises, with its data, unless its only `start()` was refused, one gave up where no reset follows, or the last reset was not announced |
| `BufferPools_proofs!FlowTypeCorrect`, `CreditsCorrect` | shape; every buffer the controller has filled is queued, held, counted, dropped or lost in a failed report, which resets the host unless another link was ending, for any pool, threshold, links and fragments |
| `BufferPools_proofs!NothingDroppedCorrect`, `CountCorrect` | while links do not overlap no packet is dropped; the counter of freed buffers is what the connections count and what a broken one has left |
| `BufferPools_proofs!WritesTypeCorrect`, `PoolCorrect` | shape; no entry of the pool of prepared writes is lost, for any clients, pieces, pool and timeout |
| `BufferPools_proofs!WritesCorrect` | an execution writes what was accepted, each place of each attribute once, up to the first attribute that refuses, and answers an error exactly when something was not written, for any clients, pieces, orders of requests and attributes |
| `BufferPools_proofs!TimerCorrect` | what `QueuesEnd` rests on: while the host task waits, its timer is running and not later than the timeout of any timed queue |

Bounds such as `MaxDepth` or `MaxBlock` are constants of the theorems too: they hold for
each of their values, and so for calls of every depth.

### The arguments

*Enumeration.* `ERC721Enumerable_proofs` shows that `Minted`, `Transferred` and
`Burned` take a consistent storage to a consistent one, by way of what each of them
does to each field of the storage (the `…Fields` lemmas); the case of a transfer is
that of the swap: the token that takes the place of the moved one keeps its owner and
gets the index that became free. A burn swaps twice, in the list of the owner and in
that of all tokens. Both contracts cite these lemmas.

*The contract.* `Consistent(nft)` alone is not inductive: a revert restores the
storage of a frame. `IInv` therefore says of every frame what holds of the
present state: its storage is consistent, and a count of announcements and of
minting frames *below* it that fits its owners. Return and revert pop the innermost
frame, for which just this was kept.

*The ledger.* `AuthInv` adds that, in a pending transaction, each token that has
already moved did so to an account one of its chips has signed for. Mapping,
signatures and block number are fixed while a frame is open, so entitlements stay
(`EntitlementsStay`) until the outermost call ends, when they make the step a
`Claim`. `ReplacedNeverAdds` and `SeededKeepsOthers` bound the chips of a token for
`Remap`.

*The general contract.* `IInv` of `ERC721Full_proofs` says `GoodState` (shape,
consistency, royalties of the present life only) of the storage and of what each
frame would restore. For consent, `Covered` says that any token which has left its
owner of before the transaction, now or in a state a frame would restore, was called
for by somebody who may take it, and that what a frame has still to go through was
named when its call began. Nothing is forgotten before the outermost call ends, so the
owners which that call commits are covered.

*The wallet.* `FlashHoldsOneWallet` is not inductive, as the flash takes whatever the
image holds. `IInv` says of both that a boot flag comes with one whole wallet, and of
the image that, while `bootstrap` writes, the flag is absent and the regions before
`next` belong to the new key. The flag is written last, and a commit writes the
whole image, so a commit that succeeds makes up for those that failed. `PInv` for
`AddressStays` adds that, unless the journal was lost, every address shown is the one
in the flash, under a boot flag, and that `bootstrap` writes only while none was shown.

*One client.* Nothing in the server refuses a second client. `IInv`: a linked client
is `connecting` or in `peers`; if there is any such client, there is just one and the
signer does not advertise; until `AdvertiseServer` there is none. `StartAdvertising`
is reached only where none is left. A reset between `init` and `start()` does no harm: no
sync restarts what was not started (`forever`). A reset in the middle of that `start()`
does: `m_duration` is noted already (`NimBLEAdvertising.cpp:421`), the sync starts the
advertising, a client connects, and `start()`, which has asked `ble_gap_adv_active`
before, starts it again (626). So the theorem has the hypothesis `~ ResetInStart`; without
it TLC finds two clients.

*Answers.* The three outputs are shared by all clients. `AInv` says that while the host
task signs, the one client is the one it signs for or is gone; in the first case that
client waits for the answer to this very write, and as many outputs hold its message
as the task has got to; and that all three hold the last message of a client that
waits for no write. Without `IInv` of *One client* another one could be connected meanwhile, and
with `DebugSerial` the setup task would write to the outputs as well.

*The page.* `IInv`: at most one flow is under way; if it waits or reads, its target is
`ble.device`, and the output of the target is the signature of the flow's message for as
long as the page is linked to it.

*The claim.* Every step of `ClaimSession` is one of `SigningSession` or leaves its
variables alone, which gives its invariants. For `ClaimCorrect` the pair
of a claim is one that was in the form, and `StoredPairMatches` makes its signature
that of its account and block: what `Recognised` compares besides the block's age
and the sender.

*Commands.* `OwnAck` alone is not inductive. `Channel` says that of commands and
acknowledgements under way there is at most one, of the task that holds the mutex; a
task that waits finds its command, or its acknowledgement, or neither, and only in the
last case can it time out if answers are not late. `Bringup` says which task
holds the lock of the host, and that once a reset has had it (`ClearState`), the setup
task cannot get a command out before the startup is over: the sync state refuses it.
With `Clean` the controller is as HCI Reset has left it from its acknowledgement on.
The types need none of this: `Traffic` bounds the commands under way by the faults, since
each command that is given up before its answer was a fault.

*Belief.* `active` and the controller differ while a task enables the advertising.
`Belief` says that such a task has set `active` before, that it goes on with "ok" only
when the controller advertises, and that its failure leaves a reset in the queue, or
met a host out of sync. It holds `ble_hs_mutex` meanwhile (`Bringup`), so no other task
enables, and no reset gets past `ClearState`.

*Being found.* That the signer advertises when nothing is under way needs a `Promise`:
from `onSync` to the next reset it advertises, a reset is queued, or a task is on its way
to the enabling; a command that fails on that way has queued a reset, or the failure is
noted in `gaveUp`; and until `forever` nothing was promised. `Known` says
when `onSync` restarts the advertising: `synced` was cleared by `onReset`, or the reset is
one of those it was not told of. For the data, `Calm` says that a reset which did not
overtake the setup task finds it before or after its `start()`, where it has to wait
for `onSync`, so what `dataSet` says was said since the last HCI Reset (`Loaded`).

*Received data.* `CreditsAreKept` by itself allows a link to come up with buffers of a
predecessor that had its handle. `Order` says what the event queue of the host holds of
each link: its connection, then data, then its end. `Buffers` says that each
buffer which is neither free nor with the controller is counted for just one link, and
nothing for connections the host does not have; with the lemmas about totals, one link's
buffers never exceed what the pool has given out (`LinkBound`), so a buffer is found
for each packet (`BufferFound`). `Alone` places the data event before the end of the
only link: its packets find the connection. `Sent` says that buffers are lost in a report
only if the host resets itself or links overlap: where a report fails at the end of the
only link, it is the ended link whose count is lost. `CountIsExplained` is inductive with these.

*Queued writes.* A list changes by one entry or is freed as a whole; `InUseReplaced`
says what that does to the total, and `InsertedFacts` that an insertion in the middle is
one entry more. `MinFacts` gives the type of the timer. `TimerInTime` is inductive once
it is known that the host has no entries of connections it does not have: every
request that starts a timeout schedules the timer anew, and a round of
`ble_hs_conn_timer` ends by setting it to the least of the times that are left.

*Long writes.* The invariant is `ListsHold`: the list of each connection is sorted and
holds what was accepted, and an entry that was accepted once is in it at one place
(`Listed`). `InsertedPlaces` says where the elements of a list go when one is inserted,
from which `InsertedSorted` and `InsertedListed` follow. A sorted list is valid iff
each attribute is covered without gap or overlap: `CoversValid` finds the neighbour of
an entry from the entry that covers the place before it, `ValidCovers` the entry of a
place as the first one that ends behind it. `ValueFacts` says that the concatenated texts
have each octet where the offset of its entry puts it. So the text that is compared with what
the attribute takes is the one that the pieces make, and the first refusal is the same. These are statements about all
lengths; they are shown by taking the least index at which they fail
(`LeastNumber`), which the definition of `FlattenSeq` as a recursive function permits.

### What TLAPS does not show here

Liveness (`ComesUp`, `CanBeFound`, `RequestsAreAnswered`, `FoundAgain`, `QueuesEnd`,
`FreedIsReported`) is model-checked on the instances above only: liveness under
fairness and `ENABLED` are beyond the prover. Of `FoundAgain` and `QueuesEnd` the invariants
they rest on are proved (`NotStrandedCorrect`, `TimerCorrect`), not that what is under way
ends. No module here uses `RECURSIVE` operators.

## 5. Assumptions

- Signatures cannot be forged and hashes do not collide (both are values).
- Administrators of the contracts are externally owned accounts; roles and
  operators of `ERC721Full` are fixed.
- `EEPROM.commit` takes the whole image or nothing.
- Keys do not repeat, and `eth_sign` does not fail (it fails only for a key outside
  the range of the curve; its result is ignored at `ESP5791.ino:266`).
- A BLE client has one request under way at a time, as ATT demands.
- There are finitely many connections (`Peer` of `AclFlow`, `Client` of `QueuedWrites`);
  NimBLE is configured for three.
- The pieces of a long write are not empty (`EntryAssumption`): an empty one would cover no
  place, and could come twice.
- The user does not edit the form of the GUI.

## 6. Where the code and its description differ

Each is a run that TLC ends with a counterexample.

- `collection_ranges` (`RangesAreReturned`): `getTokenIds(from, to)` writes to
  `[i]` of an array of `to - from + 1` elements and so reverts for every `from > 0`
  (`ERC721Extended.sol:54`).
- `device_debug` (`AnswersMatchWrites`): with `DEBUG_SERIAL`, which is 1 in the
  repository, the signature test at the end of `setup()` writes to the outputs that a
  client may be about to read (`ESP5791.ino:395`).
- `session_overlap` (`StoredPairMatches`): a second click while a flow is under way
  makes the first one store the signature of another message
  (`esp_controller.js:159`).

What the properties of the passing runs except, because the code does it:

- `UpdateKeepsTokensReachable` asks for new chips: a chip that replaces itself is
  left without its token by `updateChips`, and a new chip that has a token already
  loses that one (`PBTSimpleCustom.sol:83`).
- `AddressIsPermanent` excepts the loss of the last commit: `writeStorage` compares the
  image in RAM with what was just written to it and ignores what `commit` returned
  (`ESP5791.ino:115`).
- `UsesPickedDevice` speaks of flows for which a device was picked: after a cancelled
  chooser a flow goes on with the device of an earlier one (`esp_ble.js:54`).
- `SignerIsReleased` speaks of flows that succeed: one that fails after the connection
  leaves the signer connected (`esp_controller.js:173`).
- `RefusedForAReason` allows for another sender: the account may change before the listener
  is set (`esp_controller.js:65`), and the browser may restore a form after the reload.
- `CanBeFound` and `FoundAgain` except a signer whose only `start()` was refused
  (`NeverStarted`): if the host is out of sync when `setup()` calls it, it returns
  FALSE, at which nobody looks (`ESP5791.ino:509`), and `m_duration` stays what "prevent[s]
  auto start if host reset before started by app" (`NimBLEAdvertising.cpp:72`), so that no
  sync advertises until the next start of the device.
- `FoundAgain` excepts a `start()` that ended because the controller refused one of its
  commands (`ble_hs_hci.c:335`) or the transport did not take it (318): there is no reset, and
  nobody tries again (`gaveUp`).
- `WritesAreWhole` is about each attribute: when one refuses its value, those before it in the
  same request are written and their callbacks have run (`ble_att_svr.c:2236`), although the
  client gets an error. A list of 257 to 512 bytes for a payload of the signer is valid and refused.
- `CreditsAreKept` allows for a report that failed at the end of another link, whose
  buffers the controller never gets back (`ble_hs_flow.c:199`).
- `FoundAgain` excepts a reset for the reason 0 (`ble_hs.c:411`): `onReset` is not called,
  `onSync` takes the host for synced already, and nothing advertises. A response
  that is too short has that effect (`ble_hs_hci.c:339`), and so has a failure that is
  scheduled while another reset is under way. It also excepts the data of an
  advertising whose `start()` was overtaken by a reset.
- `OwnAck`, `CleanBringup` and `FoundAgain` do not hold with `LateAcks = TRUE`: a late
  acknowledgement leaves the semaphore up (`ble_hs_hci_rx_ack`), so that later
  commands find the one before theirs. `BeliefHolds` survives four faults, but not five:
  five commands that are given up and answered late, one of each kind, put the answers a whole
  cycle behind, every command finds an answer of its kind, and the reset of the last
  cycle ends the advertising after the host has seen it enabled.
- `QueuesEnd` excepts `Spins`: if the link is lost just before a queue times out,
  `ble_gap_terminate` fails, `BLE_HS_CONN_F_TERMINATING` is not set, and the loop of
  `ble_hs_conn_timer` finds the same connection again (`ble_hs_conn.c:580`), while the
  task that loops is the one that would take the disconnection.
- `CountIsExplained` allows for what `ble_hs_flow_connection_broken` has reported without
  taking it from `ble_hs_flow_num_completed_pkts` (`ble_hs_flow.c:27`); with that the count
  can exceed the pool, and the host resets itself for no fault of the controller.
- `NothingIsDropped` and the last part of `CountIsExplained` speak of links that do not overlap
  (`overlap = 0`). With two at a time a packet of the new connection can be handled, by a data
  event that was queued for the older one, before the event of the connection itself.

Seen while reading, without a run: re-seeding a chip whose token is already minted
leaves that token without a chip (`PBTSimpleCustom.sol:59` looks only at the new
token); the message of `setDefaultRoyalty` speaks of 10 % where the bound is 100 %
(`ERC721Full.sol:98`, 108); a second client can connect if the host is reset in the middle
of the `start()` of setup (section 4); a Disconnection Complete event with an error gives back the credits of
a connection that stays (`ble_hs_hci_evt.c:179`).

## 7. Plan

Done: the modules above, in the order contract, wallet, server, page, general
contract, claim, Bluetooth host.

1. *Extend.* The transmitting side of `AclFlow`: credits, partially sent packets and
   `ble_hs_wakeup_tx`. A composition of `WalletStorage` and `SignerDevice`: a signature that
   a client reads is one of the address that was shown, across restarts. Approvals of
   single tokens in `ERC721Full`.
2. *Prove.* Every safety property of the runs is proved, and what `FoundAgain` and
   `QueuesEnd` rest on; the same could be done for `ComesUp` and `RequestsAreAnswered`.
   Abstract specifications of `AclFlow` and `QueuedWrites` that they implement: an account
   of buffers for each link, a message that is written whole or not at all.
