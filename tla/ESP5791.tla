------------------------------ MODULE ESP5791 ------------------------------
(***************************************************************************)
(* The physical-backed-token contract: PBTSimpleCustom.sol and ESP5791.sol *)
(* over the token storage of ERC721Enumerable.  ERC721ReadOnlyCustom.sol   *)
(* makes every other function that could move a token revert, so that the  *)
(* actions below are all the ways its state can change.                    *)
(*                                                                         *)
(* A call of transferTokenWithChip is one step unless it uses the safe     *)
(* transfer and the caller is a contract: then the caller's                *)
(* onERC721Received runs in the middle of the call, and may call the       *)
(* contract again.  The calls that are waiting for their receiver are the  *)
(* frames of a call stack; each keeps the state its revert restores.  The  *)
(* administrators are externally owned accounts, so nothing they do        *)
(* happens while a frame is open.                                          *)
(*                                                                         *)
(* The hash of a block is represented by the number of the block, and the  *)
(* 32 zero bytes that blockhash() returns for an unknown block by          *)
(* ZeroHash.  A signature is a record of its signer and of the two parts   *)
(* of the message it signs.                                                *)
(***************************************************************************)
EXTENDS ERC721Enumerable, FiniteSets

CONSTANTS Chip,        \* the addresses of the chips
          Contract,    \* the accounts that have code
          NoToken,     \* stands for TokenData.set = false
          NoChip,      \* an address recovered from a signature of another message
          ZeroHash,    \* blockhash() of a block it does not know
          Window,      \* MAX_BLOCKHASH_WINDOW
          EvmWindow,   \* how many blocks back blockhash() reaches: 256
          MaxBlock,    \* bound: the last block number
          MaxSigned,   \* bound: how many signatures the chips make
          MaxDepth     \* bound: how deep receivers nest their calls

ASSUME ContractAssumption == Contract \subseteq Account
ASSUME ChipAssumption == IsFiniteSet(Chip) /\ NoChip \notin Chip
ASSUME NoTokenAssumption == NoToken \notin TokenId
ASSUME ZeroHashAssumption == ZeroHash \notin Nat
ASSUME WindowAssumption == /\ Window \in Nat
                           /\ EvmWindow \in Nat
                           /\ Window <= EvmWindow

VARIABLES nft,         \* the storage of the ERC721 base contracts
          tokenDatas,  \* _tokenDatas: the token each chip is mapped to
          mintEvents,  \* how many PBTMint events were emitted for each token
          frames,      \* the calls waiting for their receiver, outermost first
          signed,      \* the signatures the chips have made
          blockNumber  \* block.number

contractVars == <<nft, tokenDatas, mintEvents, frames>>
vars == <<nft, tokenDatas, mintEvents, frames, signed, blockNumber>>

Mapping == [Chip -> TokenId \cup {NoToken}]
Signature == [chip : Chip, to : Account, hash : Nat \cup {ZeroHash}]

IsFrame(f) == /\ f = [nft        |-> f.nft,
                      mintEvents |-> f.mintEvents,
                      token      |-> f.token,
                      minting    |-> f.minting]
              /\ IsStorage(f.nft)
              /\ f.mintEvents \in [TokenId -> Nat]
              /\ f.token \in TokenId
              /\ f.minting \in BOOLEAN

TypeOK == /\ IsStorage(nft)
          /\ tokenDatas \in Mapping
          /\ mintEvents \in [TokenId -> Nat]
          /\ frames \in Seq({frames[i] : i \in 1 .. Len(frames)})
          /\ \A i \in 1 .. Len(frames) : IsFrame(frames[i])
          /\ signed \subseteq Signature
          /\ blockNumber \in Nat

Init == /\ nft = EmptyStorage
        /\ tokenDatas = [c \in Chip |-> NoToken]
        /\ mintEvents = [t \in TokenId |-> 0]
        /\ frames = << >>
        /\ signed = {}
        /\ blockNumber = 1
-----------------------------------------------------------------------------
(***************************************************************************)
(* The chain and the chips.                                                *)
(***************************************************************************)
NewBlock == /\ frames = << >>
            /\ blockNumber < MaxBlock
            /\ blockNumber' = blockNumber + 1
            /\ UNCHANGED <<contractVars, signed>>

\* blockhash(b), as the EVM defines it.
BlockHash(b) == IF b < blockNumber /\ blockNumber - b <= EvmWindow THEN b ELSE ZeroHash

\* A chip signs what it is given: the hash of any block that was mined
\* already, or 32 zero bytes.
Sign(c, a, h) ==
    /\ frames = << >>
    /\ Cardinality(signed) < MaxSigned
    /\ signed' = signed \cup {[chip |-> c, to |-> a, hash |-> h]}
    /\ UNCHANGED <<contractVars, blockNumber>>
-----------------------------------------------------------------------------
(***************************************************************************)
(* The administrator's calls.  A call takes a batch of one or two pairs,   *)
(* processed in order, and has no effect if one of them reverts.           *)
(***************************************************************************)
\* Mutant: the chip address is stored as the token.
SeededFieldsSwapped(m, p) == [m EXCEPT ![p.chip] = p.chip]

\* _tokenDatas[chip] = TokenData(tokenId, chip, true)
Seeded(m, p) == [m EXCEPT ![p.chip] = p.token]

SeedChipToTokenMapping(batch) ==
    /\ frames = << >>
    /\ \A i \in DOMAIN batch : ~ Exists(nft, batch[i].token)
    /\ tokenDatas' = IF Len(batch) = 1 THEN Seeded(tokenDatas, batch[1])
                     ELSE Seeded(Seeded(tokenDatas, batch[1]), batch[2])
    /\ UNCHANGED <<nft, mintEvents, frames, signed, blockNumber>>

\* Mutant: the old chip is deleted before its token is looked up.
DeletedFirst(m, p) == LET rest == [m EXCEPT ![p.old] = NoToken]
                      IN [rest EXCEPT ![p.new] = rest[p.old]]

\* The new chip gets the token of the old one, and then the old one is deleted.
Replaced(m, p) == [[m EXCEPT ![p.new] = m[p.old]] EXCEPT ![p.old] = NoToken]

UpdateChips(batch) ==
    /\ frames = << >>
    /\ tokenDatas[batch[1].old] # NoToken
    /\ LET first == Replaced(tokenDatas, batch[1])
       IN IF Len(batch) = 1 THEN tokenDatas' = first
          ELSE /\ first[batch[2].old] # NoToken
               /\ tokenDatas' = Replaced(first, batch[2])
    /\ UNCHANGED <<nft, mintEvents, frames, signed, blockNumber>>
-----------------------------------------------------------------------------
(***************************************************************************)
(* transferTokenWithChip                                                   *)
(***************************************************************************)

\* ECDSA.recover: the signer, if the signature is one of this message.
Recover(sig, to, hash) == IF sig.to = to /\ sig.hash = hash THEN sig.chip ELSE NoChip

\* Mutant: >= for > in the age check.
BlockIsValidOffByOne(b) == b < blockNumber /\ blockNumber - b <= Window + 1

\* The block is in the past but not too far, or the call reverts.
BlockIsValid(b) == b < blockNumber /\ blockNumber - b <= Window

ChipForSignature(sender, sig, b) == Recover(sig, sender, BlockHash(b))

\* The storage after the token was minted for, or moved to, the caller.
Moved(sender, t) == IF Exists(nft, t) THEN Transferred(nft, sender, t)
                    ELSE Minted(nft, sender, t)

\* Mutant: PBTMint is emitted outside of the else branch.
EmitMintOnTransfers(minting, t) == mintEvents' = [mintEvents EXCEPT ![t] = @ + 1]

\* PBTMint is emitted last, after the receiver has returned.
EmitMint(minting, t) ==
    mintEvents' = IF minting THEN [mintEvents EXCEPT ![t] = @ + 1] ELSE mintEvents

TransferTokenWithChip(sender, sig, b, safe) ==
    LET chip == ChipForSignature(sender, sig, b)
        t    == tokenDatas[chip]
        calls == safe /\ sender \in Contract
    IN /\ frames # << >> => sender \in Contract
       /\ BlockIsValid(b)
       /\ chip \in Chip
       /\ t # NoToken
       /\ nft.owners[t] # sender
       /\ nft' = Moved(sender, t)
       /\ IF calls
          THEN /\ Len(frames) < MaxDepth
               /\ frames' = Append(frames, [nft        |-> nft,
                                            mintEvents |-> mintEvents,
                                            token      |-> t,
                                            minting    |-> ~ Exists(nft, t)])
               /\ UNCHANGED mintEvents
          ELSE /\ EmitMint(~ Exists(nft, t), t)
               /\ UNCHANGED frames
       /\ UNCHANGED <<tokenDatas, signed, blockNumber>>

Innermost == frames[Len(frames)]
CallerFrames == [i \in 1 .. Len(frames) - 1 |-> frames[i]]

\* onERC721Received returns its selector, and the call it interrupted ends.
ReceiverReturns ==
    /\ frames # << >>
    /\ frames' = CallerFrames
    /\ EmitMint(Innermost.minting, Innermost.token)
    /\ UNCHANGED <<nft, tokenDatas, signed, blockNumber>>

\* onERC721Received reverts or returns something else: so does the call it
\* interrupted, with the events.  The caller's frame goes on.
ReceiverReverts ==
    /\ frames # << >>
    /\ frames' = CallerFrames
    /\ nft' = Innermost.nft
    /\ mintEvents' = Innermost.mintEvents
    /\ UNCHANGED <<tokenDatas, signed, blockNumber>>
-----------------------------------------------------------------------------
Batches(P) == [1 .. 1 -> P] \cup [1 .. 2 -> P]
SeedPair == [chip : Chip, token : TokenId]
UpdatePair == [old : Chip, new : Chip]

Next ==
    \/ NewBlock
    \/ \E c \in Chip, a \in Account, h \in (0 .. blockNumber - 1) \cup {ZeroHash} : Sign(c, a, h)
    \/ \E batch \in Batches(SeedPair) : SeedChipToTokenMapping(batch)
    \/ \E batch \in Batches(UpdatePair) : UpdateChips(batch)
    \/ \E sender \in Account, sig \in signed, b \in 0 .. blockNumber, safe \in BOOLEAN :
           TransferTokenWithChip(sender, sig, b, safe)
    \/ ReceiverReturns
    \/ ReceiverReverts

Spec == Init /\ [][Next]_vars
-----------------------------------------------------------------------------
(***************************************************************************)
(* Properties.                                                             *)
(***************************************************************************)

\* Whatever receivers do in the middle of a call, and whatever is rolled back,
\* the lists the contract enumerates agree with the owners.
EnumerationIsConsistent == Consistent(nft)

\* Every token in existence was announced by exactly one PBTMint event, or is
\* about to be by exactly one of the calls under way; no other token was
\* (ESP5791.sol emits the event after the receiver has run).
MintingFrames(fs, n, t) == {i \in 1 .. n : fs[i].minting /\ fs[i].token = t}

MintIsAnnouncedOnce ==
    \A t \in TokenId :
        mintEvents[t] + Cardinality(MintingFrames(frames, Len(frames), t))
            = IF Exists(nft, t) THEN 1 ELSE 0

\* What an observer of finished transactions sees of the owners.
CommittedOwners == IF frames = << >> THEN nft.owners ELSE frames[1].nft.owners

\* The signatures that cover the hash of a block.
KnownSignatures == {[chip |-> s.chip, to |-> s.to, block |-> s.hash] :
                       s \in {u \in signed : u.hash # ZeroHash}}

\* The contract keeps the promise of the token ledger: finished transactions
\* only move tokens to accounts one of their chips has signed for within the
\* window, and a mapping change never gives a minted token more chips.
Ledger == INSTANCE TokenLedger WITH
              owner      <- CommittedOwners,
              tokenOf    <- tokenDatas,
              signatures <- KnownSignatures,
              block      <- blockNumber

ImplementsLedger == Ledger!Spec

\* "replace existing defective chips" (README.md): a token that had a chip before
\* updateChips has one after it, if the new chips are new: different ones that no
\* token is mapped to.  A chip replaced by itself would be deleted.
AreNew(batch) == /\ \A i \in DOMAIN batch : tokenDatas[batch[i].new] = NoToken
                 /\ \A i, j \in DOMAIN batch : batch[i].new = batch[j].new => i = j

UpdateKeepsTokensReachable ==
    [][\A batch \in Batches(UpdatePair) : UpdateChips(batch) /\ AreNew(batch) =>
          \A c \in Chip : tokenDatas[c] # NoToken =>
             \E d \in Chip : tokenDatas'[d] = tokenDatas[c]]_vars
=============================================================================
