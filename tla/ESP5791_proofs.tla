--------------------------- MODULE ESP5791_proofs ---------------------------
(***************************************************************************)
(* The contract keeps its state well formed, its enumeration consistent    *)
(* and its mint announcements exact, and it implements the token ledger,   *)
(* for every set of accounts, chips and tokens, every window and every     *)
(* depth of nested calls.                                                  *)
(***************************************************************************)
EXTENDS ESP5791, ERC721Enumerable_proofs, FiniteSetTheorems

(***************************************************************************)
(* The inductive invariant.  A frame keeps the state to return to, so what *)
(* holds of the current state has to hold of the state of every frame too, *)
(* with the calls that are outside of it as the calls under way.           *)
(***************************************************************************)
Announced(s, events, fs, n) ==
    \A t \in TokenId : events[t] + Cardinality(MintingFrames(fs, n, t))
                          = IF Exists(s, t) THEN 1 ELSE 0

FrameInv(fs, i) ==
    /\ Consistent(fs[i].nft)
    /\ fs[i].minting = ~ Exists(fs[i].nft, fs[i].token)
    /\ Announced(fs[i].nft, fs[i].mintEvents, fs, i - 1)

IInv == /\ TypeOK
        /\ EnumerationIsConsistent
        /\ MintIsAnnouncedOnce
        /\ \A i \in 1 .. Len(frames) : FrameInv(frames, i)

\* The calls under way can be counted, and one more frame adds one to the count
\* of the token it mints.
LEMMA MintingFramesCount ==
    ASSUME NEW fs, NEW n \in Nat, NEW t
    PROVE  /\ Cardinality(MintingFrames(fs, n, t)) \in Nat
           /\ Cardinality(MintingFrames(fs, 0, t)) = 0
           /\ fs[n + 1].minting /\ fs[n + 1].token = t
                => Cardinality(MintingFrames(fs, n + 1, t))
                     = Cardinality(MintingFrames(fs, n, t)) + 1
           /\ ~ (fs[n + 1].minting /\ fs[n + 1].token = t)
                => Cardinality(MintingFrames(fs, n + 1, t))
                     = Cardinality(MintingFrames(fs, n, t))
<1> DEFINE M == MintingFrames(fs, n, t)
<1>1. IsFiniteSet(M)
  <2>1. M \in SUBSET (1 .. n)
    BY DEF MintingFrames
  <2>2. IsFiniteSet(1 .. n)
    BY FS_Interval
  <2>3. QED BY <2>1, <2>2, FS_Subset
<1>2. Cardinality(M) \in Nat
  BY <1>1, FS_CardinalityType
<1>3. MintingFrames(fs, 0, t) = {}
  BY DEF MintingFrames
<1>4. ASSUME fs[n + 1].minting /\ fs[n + 1].token = t
      PROVE  Cardinality(MintingFrames(fs, n + 1, t)) = Cardinality(M) + 1
  <2>1. MintingFrames(fs, n + 1, t) = M \cup {n + 1}
    BY <1>4 DEF MintingFrames
  <2>2. n + 1 \notin M
    BY DEF MintingFrames
  <2>3. QED BY <1>1, <2>1, <2>2, FS_AddElement
<1>5. ASSUME ~ (fs[n + 1].minting /\ fs[n + 1].token = t)
      PROVE  MintingFrames(fs, n + 1, t) = M
  BY <1>5 DEF MintingFrames
<1>6. QED BY <1>2, <1>3, <1>4, <1>5, FS_EmptySet

\* Frames that stay where they are keep what holds of them.
LEMMA FrameInvCarries ==
    ASSUME NEW fs, NEW gs, NEW n \in Nat, \A i \in 1 .. n : gs[i] = fs[i]
    PROVE  \A i \in 1 .. n : FrameInv(fs, i) => FrameInv(gs, i)
<1>1. \A k \in 0 .. n : \A t : MintingFrames(gs, k, t) = MintingFrames(fs, k, t)
  BY DEF MintingFrames
<1>2. ASSUME NEW i \in 1 .. n, FrameInv(fs, i)
      PROVE  FrameInv(gs, i)
  <2>1. gs[i] = fs[i] /\ i - 1 \in 0 .. n
    OBVIOUS
  <2>2. \A t : MintingFrames(gs, i - 1, t) = MintingFrames(fs, i - 1, t)
    BY <1>1, <2>1
  <2>3. QED BY <1>2, <2>1, <2>2 DEF FrameInv, Announced
<1>3. QED BY <1>2

\* A mint or a transfer by chip gives the token to the caller, changes no other
\* owner and keeps the enumeration consistent.
LEMMA MovedIsConsistent ==
    ASSUME IsStorage(nft), Consistent(nft),
           NEW sender \in Account, NEW t \in TokenId, nft.owners[t] # sender,
           NEW m, m = Moved(sender, t)
    PROVE  /\ IsStorage(m)
           /\ Consistent(m)
           /\ \A u \in TokenId : m.owners[u] = IF u = t THEN sender ELSE nft.owners[u]
<1>1. CASE Exists(nft, t)
  <2>1. m = Transferred(nft, sender, t)
    BY <1>1 DEF Moved
  <2>2. IsStorage(m) /\ Consistent(m)
    BY <1>1, <2>1, TransferredIsConsistent
  <2>3. PICK from \in Account : nft.owners[t] = from /\ from # sender
    BY <1>1 DEF IsStorage, Exists
  <2>4. PICK index, moved : /\ index = nft.ownedTokensIndex[t]
                            /\ moved = nft.ownedTokens[from][nft.balances[from] - 1]
    OBVIOUS
  <2>5. TransferredFrom(nft, m, from, sender, t, index, moved)
    BY <2>1, <2>3, <2>4, TransferredFields
  <2>6. QED BY <2>2, <2>5 DEF TransferredFrom
<1>2. CASE ~ Exists(nft, t)
  <2>1. m = Minted(nft, sender, t)
    BY <1>2 DEF Moved
  <2>2. IsStorage(m) /\ Consistent(m)
    BY <1>2, <2>1, MintedIsConsistent
  <2>3. MintedFrom(nft, m, sender, t)
    BY <2>1, MintedFields
  <2>4. QED BY <2>2, <2>3 DEF MintedFrom, IsStorage
<1>3. QED BY <1>1, <1>2
-----------------------------------------------------------------------------
(***************************************************************************)
(* One lemma per action of the contract.                                   *)
(***************************************************************************)
LEMMA InitEstablishes == Init => IInv
<1> SUFFICES ASSUME Init PROVE IInv
  OBVIOUS
<1> USE DEF Init
<1>1. IsStorage(nft) /\ Consistent(nft)
  BY EmptyStorageIsConsistent
<1>2. Len(frames) = 0 /\ IsStack(frames)
  BY EmptySeq DEF IsStack
<1>3. TypeOK
  BY <1>1, <1>2 DEF TypeOK, Mapping, IsStack
<1>4. MintIsAnnouncedOnce
  <2> SUFFICES ASSUME NEW t \in TokenId
               PROVE  mintEvents[t] + Cardinality(MintingFrames(frames, Len(frames), t))
                         = IF Exists(nft, t) THEN 1 ELSE 0
    BY DEF MintIsAnnouncedOnce
  <2>1. Cardinality(MintingFrames(frames, 0, t)) = 0
    BY MintingFramesCount
  <2>2. ~ Exists(nft, t) /\ mintEvents[t] = 0
    BY DEF EmptyStorage, Exists
  <2>3. QED BY <2>1, <2>2, <1>2
<1>5. QED BY <1>1, <1>2, <1>3, <1>4 DEF IInv, EnumerationIsConsistent

\* A mapping change keeps the mapping well typed, and nothing else is touched.
LEMMA MappingChange ==
    ASSUME IInv, tokenDatas' \in Mapping,
           UNCHANGED <<nft, mintEvents, frames, signed, blockNumber>>
    PROVE  IInv'
<1>1. TypeOK'
  BY DEF IInv, TypeOK
<1>2. EnumerationIsConsistent' /\ MintIsAnnouncedOnce'
  BY DEF IInv, EnumerationIsConsistent, MintIsAnnouncedOnce
<1>3. QED BY <1>1, <1>2 DEF IInv

\* A batch has one or two pairs.
LEMMA BatchLength ==
    ASSUME NEW P, NEW batch \in Batches(P)
    PROVE  /\ batch[1] \in P
           /\ Len(batch) # 1 => batch[2] \in P
<1>1. CASE batch \in [1 .. 1 -> P]
  <2>1. Len(batch) = 1
    BY <1>1, FunctionIsSequence
  <2>2. QED BY <1>1, <2>1
<1>2. CASE batch \in [1 .. 2 -> P]
  BY <1>2
<1>3. QED BY <1>1, <1>2 DEF Batches

LEMMA SeedChipToTokenMappingStep ==
    ASSUME IInv, NEW batch \in Batches(SeedPair), SeedChipToTokenMapping(batch)
    PROVE  IInv'
<1>1. \A m \in Mapping : \A p \in SeedPair : Seeded(m, p) \in Mapping
  BY DEF Mapping, SeedPair, Seeded
<1>2. tokenDatas \in Mapping
  BY DEF IInv, TypeOK
<1>3. tokenDatas' \in Mapping
  BY <1>1, <1>2, BatchLength DEF SeedChipToTokenMapping
<1>4. QED BY <1>3, MappingChange DEF SeedChipToTokenMapping

LEMMA UpdateChipsStep ==
    ASSUME IInv, NEW batch \in Batches(UpdatePair), UpdateChips(batch)
    PROVE  IInv'
<1>1. \A m \in Mapping : \A p \in UpdatePair : Replaced(m, p) \in Mapping
  BY DEF Mapping, UpdatePair, Replaced
<1>2. tokenDatas \in Mapping
  BY DEF IInv, TypeOK
<1>3. tokenDatas' \in Mapping
  BY <1>1, <1>2, BatchLength DEF UpdateChips
<1>4. QED BY <1>3, MappingChange DEF UpdateChips

\* A new block, a new signature and a step of somebody else leave the contract alone.
LEMMA ContractUntouched ==
    ASSUME IInv, UNCHANGED contractVars,
           signed' \subseteq Signature, blockNumber' \in Nat
    PROVE  IInv'
<1>1. TypeOK'
  BY DEF IInv, TypeOK, contractVars
<1>2. EnumerationIsConsistent' /\ MintIsAnnouncedOnce'
  BY DEF IInv, EnumerationIsConsistent, MintIsAnnouncedOnce, contractVars
<1>3. QED BY <1>1, <1>2 DEF IInv, contractVars

\* PBTMint brings the count of a token that was being minted up to date.
LEMMA EmitMintCounts ==
    ASSUME NEW events \in [TokenId -> Nat], events = mintEvents,
           NEW minting \in BOOLEAN, NEW t \in TokenId, EmitMint(minting, t)
    PROVE  /\ mintEvents' \in [TokenId -> Nat]
           /\ \A u \in TokenId : mintEvents'[u] = IF minting /\ u = t
                                                  THEN mintEvents[u] + 1 ELSE mintEvents[u]
<1>1. CASE minting
  BY <1>1 DEF EmitMint
<1>2. CASE ~ minting
  BY <1>2 DEF EmitMint
<1>3. QED BY <1>1, <1>2

LEMMA ReceiverReturnsStep == ASSUME IInv, ReceiverReturns PROVE IInv'
<1> USE DEF ReceiverReturns
<1> DEFINE n == Len(frames)
<1>1. IsStack(frames)
  BY DEF IInv, TypeOK, IsStack
<1>2. /\ IsStack(frames')
      /\ n \in Nat \ {0}
      /\ Len(frames') = n - 1
      /\ \A i \in 1 .. n - 1 : frames'[i] = frames[i]
  BY <1>1, PoppedFrame DEF CallerFrames
<1>3. IsFrame(frames[n]) /\ FrameInv(frames, n)
  BY <1>2 DEF IInv, TypeOK
<1>4. /\ mintEvents' \in [TokenId -> Nat]
      /\ \A u \in TokenId : mintEvents'[u] = IF frames[n].minting /\ u = frames[n].token
                                             THEN mintEvents[u] + 1 ELSE mintEvents[u]
  BY <1>3, EmitMintCounts DEF Innermost, IsFrame, IInv, TypeOK
<1>5. TypeOK'
  <2>1. \A i \in 1 .. Len(frames') : IsFrame(frames[i]) /\ frames'[i] = frames[i]
    BY <1>2 DEF IInv, TypeOK
  <2>2. (\A i \in 1 .. Len(frames) : IsFrame(frames[i]))'
    BY <2>1 DEF IsFrame
  <2>3. QED BY <1>2, <1>4, <2>2 DEF IInv, TypeOK, IsStack
<1>6. EnumerationIsConsistent'
  BY DEF IInv, EnumerationIsConsistent
<1>7. MintIsAnnouncedOnce'
  <2> SUFFICES ASSUME NEW t \in TokenId
               PROVE  mintEvents'[t] + Cardinality(MintingFrames(frames', n - 1, t))
                         = IF Exists(nft, t) THEN 1 ELSE 0
    BY <1>2 DEF MintIsAnnouncedOnce, Exists
  <2>1. mintEvents[t] + Cardinality(MintingFrames(frames, n, t))
           = IF Exists(nft, t) THEN 1 ELSE 0
    BY DEF IInv, MintIsAnnouncedOnce
  <2>2. MintingFrames(frames', n - 1, t) = MintingFrames(frames, n - 1, t)
    BY <1>2 DEF MintingFrames
  <2>3. n = (n - 1) + 1 /\ n - 1 \in Nat
    BY <1>2
  <2>4. /\ Cardinality(MintingFrames(frames, n - 1, t)) \in Nat
        /\ frames[n].minting /\ frames[n].token = t
             => Cardinality(MintingFrames(frames, n, t))
                  = Cardinality(MintingFrames(frames, n - 1, t)) + 1
        /\ ~ (frames[n].minting /\ frames[n].token = t)
             => Cardinality(MintingFrames(frames, n, t))
                  = Cardinality(MintingFrames(frames, n - 1, t))
    BY <2>3, MintingFramesCount
  <2>5. mintEvents[t] \in Nat
    BY DEF IInv, TypeOK
  <2>6. QED BY <1>4, <2>1, <2>2, <2>4, <2>5
<1>8. \A i \in 1 .. n - 1 : FrameInv(frames', i)
  <2>1. \A i \in 1 .. n - 1 : FrameInv(frames, i)
    BY <1>2 DEF IInv
  <2>2. n - 1 \in Nat
    BY <1>2
  <2>3. QED BY <1>2, <2>1, <2>2, FrameInvCarries
<1>9. (\A i \in 1 .. Len(frames) : FrameInv(frames, i))'
  BY <1>2, <1>8 DEF FrameInv, Announced
<1>10. QED BY <1>5, <1>6, <1>7, <1>9 DEF IInv

LEMMA ReceiverRevertsStep == ASSUME IInv, ReceiverReverts PROVE IInv'
<1> USE DEF ReceiverReverts
<1> DEFINE n == Len(frames)
<1>1. IsStack(frames)
  BY DEF IInv, TypeOK, IsStack
<1>2. /\ IsStack(frames')
      /\ n \in Nat \ {0}
      /\ Len(frames') = n - 1
      /\ \A i \in 1 .. n - 1 : frames'[i] = frames[i]
  BY <1>1, PoppedFrame DEF CallerFrames
<1>3. IsFrame(frames[n]) /\ FrameInv(frames, n)
  BY <1>2 DEF IInv, TypeOK
<1>4. nft' = frames[n].nft /\ mintEvents' = frames[n].mintEvents
  BY DEF Innermost
<1>5. TypeOK'
  <2>1. \A i \in 1 .. Len(frames') : IsFrame(frames[i]) /\ frames'[i] = frames[i]
    BY <1>2 DEF IInv, TypeOK
  <2>2. (\A i \in 1 .. Len(frames) : IsFrame(frames[i]))'
    BY <2>1 DEF IsFrame
  <2>3. IsStorage(nft)' /\ mintEvents' \in [TokenId -> Nat]
    BY <1>3, <1>4 DEF IsFrame, IsStorage
  <2>4. QED BY <1>2, <2>2, <2>3 DEF IInv, TypeOK, IsStack
<1>6. EnumerationIsConsistent'
  <2>1. Consistent(nft')
    BY <1>3, <1>4 DEF FrameInv
  <2>2. QED BY <2>1 DEF EnumerationIsConsistent, Consistent, ListsAreCompact,
        ListsAreSound, ListsAreComplete, AllTokensIsSound, AllTokensIsComplete, Exists
<1>7. MintIsAnnouncedOnce'
  <2> SUFFICES ASSUME NEW t \in TokenId
               PROVE  mintEvents'[t] + Cardinality(MintingFrames(frames', n - 1, t))
                         = IF Exists(nft', t) THEN 1 ELSE 0
    BY <1>2 DEF MintIsAnnouncedOnce, Exists
  <2>1. MintingFrames(frames', n - 1, t) = MintingFrames(frames, n - 1, t)
    BY <1>2 DEF MintingFrames
  <2>2. QED BY <1>3, <1>4, <2>1 DEF FrameInv, Announced
<1>8. \A i \in 1 .. n - 1 : FrameInv(frames', i)
  <2>1. \A i \in 1 .. n - 1 : FrameInv(frames, i)
    BY <1>2 DEF IInv
  <2>2. n - 1 \in Nat
    BY <1>2
  <2>3. QED BY <1>2, <2>1, <2>2, FrameInvCarries
<1>9. (\A i \in 1 .. Len(frames) : FrameInv(frames, i))'
  BY <1>2, <1>8 DEF FrameInv, Announced
<1>10. QED BY <1>5, <1>6, <1>7, <1>9 DEF IInv

\* A claim without a call back, or the first half of one with a call back.
LEMMA TransferTokenWithChipStep ==
    ASSUME IInv, NEW sender \in Account, NEW sig, NEW b, NEW safe,
           TransferTokenWithChip(sender, sig, b, safe)
    PROVE  IInv'
<1> DEFINE n == Len(frames)
<1>1. PICK t \in TokenId :
         /\ nft.owners[t] # sender
         /\ nft' = Moved(sender, t)
         /\ \/ /\ frames' = Append(frames, [nft        |-> nft,
                                            mintEvents |-> mintEvents,
                                            token      |-> t,
                                            minting    |-> ~ Exists(nft, t)])
               /\ UNCHANGED mintEvents
            \/ /\ EmitMint(~ Exists(nft, t), t)
               /\ UNCHANGED frames
  BY DEF TransferTokenWithChip, IInv, TypeOK, Mapping
<1>2. UNCHANGED <<tokenDatas, signed, blockNumber>>
  BY DEF TransferTokenWithChip
<1>3. IsStorage(nft) /\ Consistent(nft)
  BY DEF IInv, TypeOK, EnumerationIsConsistent
<1>4. /\ IsStorage(nft')
      /\ Consistent(nft')
      /\ \A u \in TokenId : nft'.owners[u] = IF u = t THEN sender ELSE nft.owners[u]
  BY <1>1, <1>3, MovedIsConsistent
<1>5. \A u \in TokenId : Exists(nft', u) <=> u = t \/ Exists(nft, u)
  BY <1>4, AccountAssumption DEF Exists
<1>6. IsStorage(nft)' /\ EnumerationIsConsistent'
  BY <1>4 DEF IsStorage, EnumerationIsConsistent, Consistent, ListsAreCompact,
     ListsAreSound, ListsAreComplete, AllTokensIsSound, AllTokensIsComplete, Exists
<1>7. IsStack(frames) /\ n \in Nat
  BY LenProperties DEF IInv, TypeOK, IsStack
<1>8. \A i \in 1 .. n : IsFrame(frames[i]) /\ FrameInv(frames, i)
  BY DEF IInv, TypeOK
<1>9. \A u \in TokenId : /\ mintEvents[u] \in Nat
                         /\ mintEvents[u] + Cardinality(MintingFrames(frames, n, u))
                               = IF Exists(nft, u) THEN 1 ELSE 0
  BY DEF IInv, TypeOK, MintIsAnnouncedOnce
<1>10. CASE EmitMint(~ Exists(nft, t), t) /\ UNCHANGED frames
  <2>1. /\ mintEvents' \in [TokenId -> Nat]
        /\ \A u \in TokenId : mintEvents'[u] = IF ~ Exists(nft, t) /\ u = t
                                               THEN mintEvents[u] + 1 ELSE mintEvents[u]
    BY <1>10, EmitMintCounts DEF Exists, IInv, TypeOK
  <2>2. TypeOK'
    BY <1>2, <1>6, <1>10, <2>1 DEF IInv, TypeOK
  <2>3. MintIsAnnouncedOnce'
    <3> SUFFICES ASSUME NEW u \in TokenId
                 PROVE  mintEvents'[u] + Cardinality(MintingFrames(frames, n, u))
                           = IF Exists(nft', u) THEN 1 ELSE 0
      BY <1>10 DEF MintIsAnnouncedOnce, Exists
    <3>1. Cardinality(MintingFrames(frames, n, u)) \in Nat
      BY <1>7, MintingFramesCount
    <3>2. QED BY <3>1, <2>1, <1>5, <1>9
  <2>4. (\A i \in 1 .. Len(frames) : FrameInv(frames, i))'
    BY <1>8, <1>10 DEF FrameInv, Announced
  <2>5. QED BY <2>2, <2>3, <2>4, <1>6 DEF IInv
<1>11. CASE /\ frames' = Append(frames, [nft        |-> nft,
                                         mintEvents |-> mintEvents,
                                         token      |-> t,
                                         minting    |-> ~ Exists(nft, t)])
            /\ UNCHANGED mintEvents
  <2>1. PICK f : f = [nft        |-> nft,
                      mintEvents |-> mintEvents,
                      token      |-> t,
                      minting    |-> ~ Exists(nft, t)]
    OBVIOUS
  <2>2. /\ IsStack(frames')
        /\ Len(frames') = n + 1
        /\ \A i \in 1 .. n : frames'[i] = frames[i]
        /\ frames'[n + 1] = f
    <3>1. frames' = Append(frames, f)
      BY <1>11, <2>1
    <3>2. Pushed(frames, f, frames')
      BY <1>7, <3>1, PushedFrame
    <3>3. QED BY <3>2 DEF Pushed
  <2>3. /\ IsFrame(f)
        /\ f.nft = nft /\ f.mintEvents = mintEvents /\ f.token = t
        /\ f.minting = ~ Exists(nft, t)
    BY <1>3, <2>1 DEF IsFrame, Exists, IInv, TypeOK
  <2>4. TypeOK'
    <3>1. \A i \in 1 .. n + 1 : IsFrame(frames'[i])
      BY <1>7, <1>8, <2>2, <2>3
    <3>2. (\A i \in 1 .. Len(frames) : IsFrame(frames[i]))'
      BY <2>2, <3>1 DEF IsFrame, IsStorage
    <3>3. QED BY <1>2, <1>6, <1>11, <2>2, <3>2 DEF IInv, TypeOK, IsStack
  <2>5. \A u : MintingFrames(frames', n, u) = MintingFrames(frames, n, u)
    BY <2>2 DEF MintingFrames
  <2>6. MintIsAnnouncedOnce'
    <3> SUFFICES ASSUME NEW u \in TokenId
                 PROVE  mintEvents[u] + Cardinality(MintingFrames(frames', n + 1, u))
                           = IF Exists(nft', u) THEN 1 ELSE 0
      BY <1>11, <2>2 DEF MintIsAnnouncedOnce, Exists
    <3>1. /\ Cardinality(MintingFrames(frames', n, u)) \in Nat
          /\ frames'[n + 1].minting /\ frames'[n + 1].token = u
               => Cardinality(MintingFrames(frames', n + 1, u))
                    = Cardinality(MintingFrames(frames', n, u)) + 1
          /\ ~ (frames'[n + 1].minting /\ frames'[n + 1].token = u)
               => Cardinality(MintingFrames(frames', n + 1, u))
                    = Cardinality(MintingFrames(frames', n, u))
      BY <1>7, MintingFramesCount
    <3>2. frames'[n + 1].minting /\ frames'[n + 1].token = u <=> ~ Exists(nft, t) /\ t = u
      BY <2>2, <2>3
    <3>3. MintingFrames(frames', n, u) = MintingFrames(frames, n, u)
      BY <2>5, Zenon
    <3>4. QED BY <3>1, <3>2, <3>3, <1>5, <1>9
  <2>7. \A i \in 1 .. n : FrameInv(frames', i)
    BY <1>7, <1>8, <2>2, FrameInvCarries
  <2>8. FrameInv(frames', n + 1)
    <3>1. (n + 1) - 1 = n
      BY <1>7
    <3>2. Announced(nft, mintEvents, frames', n)
      BY <1>9, <2>5 DEF Announced
    <3>3. QED BY <1>3, <2>2, <2>3, <3>1, <3>2 DEF FrameInv
  <2>9. (\A i \in 1 .. Len(frames) : FrameInv(frames, i))'
    <3>1. \A i \in 1 .. n + 1 : FrameInv(frames', i)
      BY <1>7, <2>7, <2>8
    <3>2. QED BY <2>2, <3>1 DEF FrameInv, Announced
  <2>10. QED BY <2>4, <2>6, <2>9, <1>6 DEF IInv
<1>12. QED BY <1>1, <1>10, <1>11

\* A new block and a new signature leave the contract alone.
LEMMA ChainStep ==
    ASSUME IInv,
           \/ NewBlock
           \/ \E c \in Chip, a \in Account,
                 h \in (0 .. blockNumber - 1) \cup {ZeroHash} : Sign(c, a, h)
    PROVE  IInv'
<1>1. signed' \subseteq Signature /\ blockNumber' \in Nat
  <2>1. blockNumber \in Nat /\ signed \subseteq Signature
    BY DEF IInv, TypeOK
  <2>2. CASE NewBlock
    BY <2>1, <2>2 DEF NewBlock
  <2>3. CASE \E c \in Chip, a \in Account,
                h \in (0 .. blockNumber - 1) \cup {ZeroHash} : Sign(c, a, h)
    <3>1. PICK c \in Chip, a \in Account, h \in Nat \cup {ZeroHash} : Sign(c, a, h)
      BY <2>1, <2>3
    <3>2. QED BY <2>1, <3>1 DEF Sign, Signature
  <2>4. QED BY <2>2, <2>3
<1>2. UNCHANGED contractVars
  BY DEF NewBlock, Sign
<1>3. QED BY <1>1, <1>2, ContractUntouched

LEMMA NextPreserves == IInv /\ [Next]_vars => IInv'
<1> SUFFICES ASSUME IInv, [Next]_vars PROVE IInv'
  OBVIOUS
<1>1. CASE UNCHANGED vars
  <2>1. UNCHANGED contractVars /\ signed' = signed /\ blockNumber' = blockNumber
    BY <1>1 DEF vars, contractVars
  <2>2. QED BY <2>1, ContractUntouched DEF IInv, TypeOK
<1>2. CASE NewBlock \/ \E c \in Chip, a \in Account,
             h \in (0 .. blockNumber - 1) \cup {ZeroHash} : Sign(c, a, h)
  BY <1>2, ChainStep
<1>3. ASSUME NEW batch \in Batches(SeedPair), SeedChipToTokenMapping(batch)
      PROVE  IInv'
  BY <1>3, SeedChipToTokenMappingStep
<1>4. ASSUME NEW batch \in Batches(UpdatePair), UpdateChips(batch)
      PROVE  IInv'
  BY <1>4, UpdateChipsStep
<1>5. ASSUME NEW sender \in Account, NEW sig \in signed, NEW b \in 0 .. blockNumber,
             NEW safe \in BOOLEAN, TransferTokenWithChip(sender, sig, b, safe)
      PROVE  IInv'
  BY <1>5, TransferTokenWithChipStep
<1>6. CASE ReceiverReturns
  BY <1>6, ReceiverReturnsStep
<1>7. CASE ReceiverReverts
  BY <1>7, ReceiverRevertsStep
<1>8. QED BY <1>1, <1>2, <1>3, <1>4, <1>5, <1>6, <1>7 DEF Next
-----------------------------------------------------------------------------
(***************************************************************************)
(* What holds in every reachable state.                                    *)
(***************************************************************************)
LEMMA InductiveInvariant == Spec => []IInv
<1>1. Init => IInv
  BY InitEstablishes
<1>2. IInv /\ [Next]_vars => IInv'
  BY NextPreserves
<1>3. QED BY <1>1, <1>2, PTL DEF Spec

\* Every variable of the contract, and the state every open call would restore,
\* stays in its type.
THEOREM TypeCorrect == Spec => []TypeOK
<1>1. IInv => TypeOK
  BY DEF IInv
<1>2. QED BY <1>1, InductiveInvariant, PTL

\* After any sequence of mints, transfers, re-entrant claims and reverts, the
\* lists that tokensOfOwner and tokenByIndex read agree with the owners.
THEOREM EnumerationCorrect == Spec => []EnumerationIsConsistent
<1>1. IInv => EnumerationIsConsistent
  BY DEF IInv
<1>2. QED BY <1>1, InductiveInvariant, PTL

\* No token is announced twice by PBTMint or comes into being unannounced, even
\* when a receiver claims tokens in the middle of its own mint or reverts it.
THEOREM AnnouncementCorrect == Spec => []MintIsAnnouncedOnce
<1>1. IInv => MintIsAnnouncedOnce
  BY DEF IInv
<1>2. QED BY <1>1, InductiveInvariant, PTL
-----------------------------------------------------------------------------
(***************************************************************************)
(* The contract implements the token ledger: whatever receivers do while   *)
(* they are called back, an observer of finished transactions only sees    *)
(* tokens move to accounts that one of their chips has signed for within   *)
(* the window.                                                             *)
(*                                                                         *)
(* In the middle of a transaction the owners differ from the committed     *)
(* ones, and so may the owners a frame would restore.  Each difference is  *)
(* covered by a signature, and since no block, signature or mapping can    *)
(* change before the transaction ends, it still is when the outermost call *)
(* returns and the new owners are committed.                               *)
(***************************************************************************)
Authorized(owners) ==
    \A t \in TokenId : owners[t] # CommittedOwners[t]
                          => owners[t] \in Account /\ Ledger!Entitled(owners[t], t)

AuthInv == /\ IInv
           /\ Authorized(nft.owners)
           /\ \A i \in 1 .. Len(frames) : Authorized(frames[i].nft.owners)

\* A claim that passes every check of the contract is one the ledger allows.
LEMMA ClaimIsEntitled ==
    ASSUME IInv, NEW sender \in Account, NEW sig \in signed, NEW b \in 0 .. blockNumber,
           NEW safe, TransferTokenWithChip(sender, sig, b, safe)
    PROVE  \E t \in TokenId :
              /\ Ledger!Entitled(sender, t)
              /\ nft.owners[t] # sender
              /\ nft' = Moved(sender, t)
              /\ \/ /\ safe /\ sender \in Contract
                    /\ frames' = Append(frames, [nft        |-> nft,
                                                 mintEvents |-> mintEvents,
                                                 token      |-> t,
                                                 minting    |-> ~ Exists(nft, t)])
                 \/ UNCHANGED frames
<1> DEFINE chip == ChipForSignature(sender, sig, b)
           t    == tokenDatas[chip]
<1>1. blockNumber \in Nat /\ tokenDatas \in Mapping
  BY DEF IInv, TypeOK
<1>2. b \in Nat /\ b < blockNumber /\ blockNumber - b <= Window
  BY <1>1 DEF TransferTokenWithChip, BlockIsValid
<1>3. BlockHash(b) = b
  BY <1>1, <1>2, WindowAssumption DEF BlockHash
<1>4. chip \in Chip
  BY DEF TransferTokenWithChip
<1>5. sig.to = sender /\ sig.hash = b /\ chip = sig.chip
  BY <1>3, <1>4, ChipAssumption DEF ChipForSignature, Recover
<1>6. t \in TokenId
  BY <1>1, <1>4 DEF TransferTokenWithChip, Mapping
<1>7. [chip |-> sig.chip, to |-> sig.to, block |-> sig.hash] \in KnownSignatures
  BY <1>2, <1>5, ZeroHashAssumption DEF KnownSignatures
<1>8. Ledger!Entitled(sender, t)
  <2>1. blockNumber - b \in 1 .. Window
    BY <1>1, <1>2, WindowAssumption
  <2>2. QED BY <1>5, <1>7, <2>1 DEF Ledger!Entitled
<1>9. QED BY <1>6, <1>8 DEF TransferTokenWithChip

\* Within a transaction nothing changes that an entitlement depends on.
LEMMA EntitlementsStay ==
    ASSUME UNCHANGED <<tokenDatas, signed, blockNumber>>, NEW a, NEW t
    PROVE  Ledger!Entitled(a, t)' <=> Ledger!Entitled(a, t)
<1>1. KnownSignatures' = KnownSignatures
  BY DEF KnownSignatures
<1>2. QED BY <1>1 DEF Ledger!Entitled

\* Owners stay authorized while the transaction goes on.
LEMMA AuthorizationsStay ==
    ASSUME UNCHANGED <<tokenDatas, signed, blockNumber, CommittedOwners>>,
           NEW owners, Authorized(owners), NEW new, new = owners
    PROVE  \A t \in TokenId : new[t] # CommittedOwners'[t]
              => new[t] \in Account /\ Ledger!Entitled(new[t], t)'
<1> SUFFICES ASSUME NEW t \in TokenId, owners[t] # CommittedOwners[t]
             PROVE  owners[t] \in Account /\ Ledger!Entitled(owners[t], t)'
  OBVIOUS
<1>1. owners[t] \in Account /\ Ledger!Entitled(owners[t], t)
  BY DEF Authorized
<1>2. QED BY <1>1, EntitlementsStay

\* A step that leaves the owners an observer sees alone is invisible.
LEMMA InvisibleStep ==
    ASSUME UNCHANGED <<tokenDatas, signed, blockNumber, CommittedOwners>>
    PROVE  [Ledger!Next]_(Ledger!vars)
<1>1. KnownSignatures' = KnownSignatures
  BY DEF KnownSignatures
<1>2. QED BY <1>1 DEF Ledger!vars

\* A step that commits authorized owners is a claim.
LEMMA CommittingStep ==
    ASSUME UNCHANGED <<tokenDatas, signed, blockNumber>>,
           NEW owners \in [TokenId -> Account \cup {Nobody}],
           Authorized(owners), CommittedOwners' = owners
    PROVE  [Ledger!Next]_(Ledger!vars)
<1>1. KnownSignatures' = KnownSignatures
  BY DEF KnownSignatures
<1>2. Ledger!Claim
  BY <1>1 DEF Ledger!Claim, Authorized
<1>3. QED BY <1>2 DEF Ledger!Next

\* Between transactions every owner is committed.
LEMMA NothingPending == frames = << >> /\ IInv => AuthInv
<1> SUFFICES ASSUME frames = << >>, IInv PROVE AuthInv
  OBVIOUS
<1>1. Len(frames) = 0
  BY EmptySeq
<1>2. CommittedOwners = nft.owners
  BY DEF CommittedOwners
<1>3. QED BY <1>1, <1>2 DEF AuthInv, Authorized

LEMMA NothingPendingNext == frames' = << >> /\ IInv' => AuthInv'
<1>1. (frames = << >> /\ IInv => AuthInv)'
  BY NothingPending, PTL
<1>2. QED BY <1>1

\* A claim is committed at once, or its owners are authorized until it is.
LEMMA ClaimStep ==
    ASSUME AuthInv, IInv', NEW sender \in Account, NEW sig \in signed,
           NEW b \in 0 .. blockNumber, NEW safe,
           TransferTokenWithChip(sender, sig, b, safe)
    PROVE  AuthInv' /\ [Ledger!Next]_(Ledger!vars)
<1> DEFINE n == Len(frames)
<1>1. IInv
  BY DEF AuthInv
<1>2. PICK t \in TokenId :
        /\ Ledger!Entitled(sender, t)
        /\ nft.owners[t] # sender
        /\ nft' = Moved(sender, t)
        /\ \/ /\ safe /\ sender \in Contract
              /\ frames' = Append(frames, [nft        |-> nft,
                                           mintEvents |-> mintEvents,
                                           token      |-> t,
                                           minting    |-> ~ Exists(nft, t)])
           \/ UNCHANGED frames
  BY <1>1, ClaimIsEntitled
<1>3. UNCHANGED <<tokenDatas, signed, blockNumber>>
  BY DEF TransferTokenWithChip
<1>4. \A u \in TokenId : nft'.owners[u] = IF u = t THEN sender ELSE nft.owners[u]
  BY <1>1, <1>2, MovedIsConsistent DEF IInv, TypeOK, EnumerationIsConsistent
<1>5. Authorized(nft'.owners)
  BY <1>2, <1>4 DEF Authorized, AuthInv
<1>6. nft'.owners \in [TokenId -> Account \cup {Nobody}]
  BY DEF IInv, TypeOK, IsStorage
<1>7. IsStack(frames) /\ n \in Nat
  BY <1>1, LenProperties DEF IInv, TypeOK, IsStack
<1>8. CASE UNCHANGED frames /\ frames = << >>
  <2>1. AuthInv'
    BY <1>8, NothingPendingNext
  <2>2. CommittedOwners' = nft'.owners
    BY <1>8 DEF CommittedOwners
  <2>3. QED BY <2>1, <2>2, <1>3, <1>5, <1>6, CommittingStep
<1>9. CASE UNCHANGED frames /\ frames # << >>
  <2>1. CommittedOwners' = CommittedOwners
    BY <1>9 DEF CommittedOwners
  <2>2. Authorized(nft.owners)'
    BY <2>1, <1>3, <1>5, AuthorizationsStay DEF Authorized
  <2>3. \A i \in 1 .. n : Authorized(frames[i].nft.owners)'
    BY <2>1, <1>3, <1>9, AuthorizationsStay DEF Authorized, AuthInv
  <2>4. AuthInv'
    BY <2>2, <2>3, <1>9 DEF AuthInv
  <2>5. QED BY <2>1, <2>4, <1>3, InvisibleStep
<1>10. CASE frames' = Append(frames, [nft        |-> nft,
                                      mintEvents |-> mintEvents,
                                      token      |-> t,
                                      minting    |-> ~ Exists(nft, t)])
  <2>1. PICK f : f = [nft        |-> nft,
                      mintEvents |-> mintEvents,
                      token      |-> t,
                      minting    |-> ~ Exists(nft, t)]
    OBVIOUS
  <2>2. /\ Len(frames') = n + 1
        /\ \A i \in 1 .. n : frames'[i] = frames[i]
        /\ frames'[n + 1] = f
    <3>1. frames' = Append(frames, f)
      BY <1>10, <2>1
    <3>2. Pushed(frames, f, frames')
      BY <1>7, <3>1, PushedFrame
    <3>3. QED BY <3>2 DEF Pushed
  <2>3. f.nft = nft
    BY <2>1
  <2>4. CommittedOwners' = CommittedOwners
    <3>1. frames' # << >>
      BY <2>2, <1>7, EmptySeq
    <3>2. CASE frames = << >>
      <4>1. n = 0
        BY <3>2, EmptySeq
      <4>2. frames'[1].nft.owners = nft.owners
        BY <4>1, <2>2, <2>3
      <4>3. QED BY <3>1, <3>2, <4>2 DEF CommittedOwners
    <3>3. CASE frames # << >>
      <4>1. n # 0
        BY <3>3, <1>7, EmptySeq, Zenon DEF IsStack
      <4>2. frames'[1] = frames[1]
        BY <4>1, <1>7, <2>2
      <4>3. QED BY <3>1, <3>3, <4>2 DEF CommittedOwners
    <3>4. QED BY <3>2, <3>3
  <2>5. Authorized(nft.owners)'
    BY <2>4, <1>3, <1>5, AuthorizationsStay DEF Authorized
  <2>6. \A i \in 1 .. n + 1 : Authorized(frames'[i].nft.owners)
    BY <1>7, <2>2, <2>3 DEF AuthInv
  <2>7. \A i \in 1 .. n + 1 : Authorized(frames[i].nft.owners)'
    BY <2>4, <2>6, <1>3, AuthorizationsStay DEF Authorized
  <2>8. AuthInv'
    BY <2>2, <2>5, <2>7 DEF AuthInv
  <2>9. QED BY <2>4, <2>8, <1>3, InvisibleStep
<1>11. QED BY <1>2, <1>8, <1>9, <1>10

LEMMA EmptyStack == \A stack : IsStack(stack) /\ Len(stack) = 0 => stack = << >>
BY EmptySeq DEF IsStack

LEMMA ReturnStep ==
    ASSUME AuthInv, IInv', ReceiverReturns
    PROVE  AuthInv' /\ [Ledger!Next]_(Ledger!vars)
<1> USE DEF ReceiverReturns
<1> DEFINE n == Len(frames)
<1>1. /\ n \in Nat \ {0}
      /\ Len(frames') = n - 1
      /\ \A i \in 1 .. n - 1 : frames'[i] = frames[i]
  BY PoppedFrame DEF AuthInv, IInv, TypeOK, IsStack, CallerFrames
<1>2. Authorized(nft.owners) /\ nft.owners \in [TokenId -> Account \cup {Nobody}]
  BY DEF AuthInv, IInv, TypeOK, IsStorage
<1>3. CASE n = 1
  <2>1. frames' = << >>
    BY <1>1, <1>3, EmptyStack DEF IInv, TypeOK, IsStack
  <2>2. AuthInv'
    BY <2>1, NothingPendingNext
  <2>3. CommittedOwners' = nft.owners
    BY <2>1 DEF CommittedOwners
  <2>4. QED BY <2>2, <2>3, <1>2, CommittingStep
<1>4. CASE n # 1
  <2>1. frames' # << >> /\ frames'[1] = frames[1]
    BY <1>1, <1>4, EmptySeq
  <2>2. CommittedOwners' = CommittedOwners
    BY <2>1 DEF CommittedOwners
  <2>3. Authorized(nft.owners)'
    BY <1>2, <2>2, AuthorizationsStay DEF Authorized
  <2>4. \A i \in 1 .. n - 1 : Authorized(frames[i].nft.owners)'
    BY <1>1, <2>2, AuthorizationsStay DEF Authorized, AuthInv
  <2>5. AuthInv'
    BY <1>1, <2>3, <2>4 DEF AuthInv
  <2>6. QED BY <2>2, <2>5, InvisibleStep
<1>5. QED BY <1>3, <1>4

LEMMA RevertStep ==
    ASSUME AuthInv, IInv', ReceiverReverts
    PROVE  AuthInv' /\ [Ledger!Next]_(Ledger!vars)
<1> USE DEF ReceiverReverts
<1> DEFINE n == Len(frames)
<1>1. /\ n \in Nat \ {0}
      /\ Len(frames') = n - 1
      /\ \A i \in 1 .. n - 1 : frames'[i] = frames[i]
  BY PoppedFrame DEF AuthInv, IInv, TypeOK, IsStack, CallerFrames
<1>2. nft' = frames[n].nft
  BY DEF Innermost
<1>3. CASE n = 1
  <2>1. frames' = << >>
    BY <1>1, <1>3, EmptyStack DEF IInv, TypeOK, IsStack
  <2>2. AuthInv'
    BY <2>1, NothingPendingNext
  <2>3. CommittedOwners' = CommittedOwners
    BY <2>1, <1>2, <1>3 DEF CommittedOwners
  <2>4. QED BY <2>2, <2>3, InvisibleStep
<1>4. CASE n # 1
  <2>1. frames' # << >> /\ frames'[1] = frames[1]
    BY <1>1, <1>4, EmptySeq
  <2>2. CommittedOwners' = CommittedOwners
    BY <2>1 DEF CommittedOwners
  <2>3. Authorized(frames[n].nft.owners)
    BY <1>1 DEF AuthInv
  <2>4. Authorized(nft.owners)'
    BY <1>2, <2>2, <2>3, AuthorizationsStay DEF Authorized
  <2>5. \A i \in 1 .. n - 1 : Authorized(frames[i].nft.owners)'
    BY <1>1, <2>2, AuthorizationsStay DEF Authorized, AuthInv
  <2>6. AuthInv'
    BY <1>1, <2>4, <2>5 DEF AuthInv
  <2>7. QED BY <2>2, <2>6, InvisibleStep
<1>5. QED BY <1>3, <1>4

LEMMA NewBlockIsAllowed == NewBlock => Ledger!Next
<1> SUFFICES ASSUME NewBlock PROVE Ledger!Next
  OBVIOUS
<1>1. UNCHANGED <<CommittedOwners, tokenDatas, KnownSignatures>>
      /\ blockNumber' = blockNumber + 1
  BY DEF NewBlock, contractVars, CommittedOwners, KnownSignatures
<1>2. QED BY <1>1 DEF Ledger!Next, Ledger!NewBlock

\* A signature that covers no known block is invisible.
LEMMA SignIsAllowed ==
    ASSUME IInv, NEW c \in Chip, NEW a \in Account,
           NEW h \in (0 .. blockNumber - 1) \cup {ZeroHash}, Sign(c, a, h)
    PROVE  [Ledger!Next]_(Ledger!vars)
<1> DEFINE new == [chip |-> c, to |-> a, hash |-> h]
           known(sigs) == {u \in sigs : u.hash # ZeroHash}
           blockOf(s) == [chip |-> s.chip, to |-> s.to, block |-> s.hash]
<1>1. UNCHANGED <<CommittedOwners, tokenDatas, blockNumber>>
      /\ signed' = signed \cup {new}
  BY DEF Sign, contractVars, CommittedOwners
<1>2. CASE h = ZeroHash
  <2>1. KnownSignatures' = KnownSignatures
    BY <1>1, <1>2 DEF KnownSignatures
  <2>2. QED BY <1>1, <2>1 DEF Ledger!vars
<1>3. CASE h \in 0 .. blockNumber - 1
  <2>1. h # ZeroHash
    BY <1>3, ZeroHashAssumption DEF IInv, TypeOK
  <2>2. KnownSignatures' = KnownSignatures \cup {[chip |-> c, to |-> a, block |-> h]}
    <3>1. new.hash = h
      OBVIOUS
    <3>2. known(signed') = known(signed) \cup {new}
      <4> HIDE DEF new
      <4>1. QED BY <1>1, <2>1, <3>1
    <3>3. blockOf(new) = [chip |-> c, to |-> a, block |-> h]
      OBVIOUS
    <3>4. {blockOf(s) : s \in known(signed) \cup {new}}
            = {blockOf(s) : s \in known(signed)} \cup {blockOf(new)}
      <4> HIDE DEF new, known, blockOf
      <4>1. QED OBVIOUS
    <3>5. /\ KnownSignatures' = {blockOf(s) : s \in known(signed')}
          /\ KnownSignatures = {blockOf(s) : s \in known(signed)}
      BY DEF KnownSignatures
    <3> HIDE DEF new, known, blockOf
    <3>6. QED BY <3>2, <3>3, <3>4, <3>5
  <2>3. Ledger!Sign
    BY <1>1, <1>3, <2>2 DEF Ledger!Sign
  <2>4. QED BY <2>3 DEF Ledger!Next
<1>4. QED BY <1>2, <1>3

(***************************************************************************)
(* The administrator's mapping changes.                                    *)
(***************************************************************************)
Mapped(m, t) == {c \in Chip : m[c] = t}

LEMMA MappedIsFinite ==
    \A m, t : IsFiniteSet(Mapped(m, t)) /\ Cardinality(Mapped(m, t)) \in Nat
<1> TAKE m, t
<1>1. Mapped(m, t) \in SUBSET Chip
  BY DEF Mapped
<1>2. IsFiniteSet(Mapped(m, t))
  BY <1>1, ChipAssumption, FS_Subset
<1>3. QED BY <1>2, FS_CardinalityType

LEMMA SeededInMapping ==
    ASSUME NEW m \in Mapping, NEW p \in SeedPair
    PROVE  Seeded(m, p) \in Mapping
BY DEF Seeded, Mapping, SeedPair

LEMMA ReplacedInMapping ==
    ASSUME NEW m \in Mapping, NEW p \in UpdatePair
    PROVE  Replaced(m, p) \in Mapping
BY DEF Replaced, Mapping, UpdatePair

\* Seeding a chip for one token never adds a chip to another one.
LEMMA SeededKeepsOthers ==
    ASSUME NEW m \in Mapping, NEW p \in SeedPair, NEW t \in TokenId, p.token # t
    PROVE  Mapped(Seeded(m, p), t) \subseteq Mapped(m, t)
<1>1. p.chip \in Chip /\ p.token \in TokenId
  BY DEF SeedPair
<1>2. \A c \in Chip : Seeded(m, p)[c] = IF c = p.chip THEN p.token ELSE m[c]
  BY <1>1 DEF Seeded, Mapping
<1>3. QED BY <1>2 DEF Mapped

\* Replacing a mapped chip never adds a chip to a token: the token of the old
\* chip loses that chip before it gets the new one.
LEMMA ReplacedNeverAdds ==
    ASSUME NEW m \in Mapping, NEW p \in UpdatePair, m[p.old] # NoToken, NEW t \in TokenId
    PROVE  Cardinality(Mapped(Replaced(m, p), t)) <= Cardinality(Mapped(m, t))
<1> DEFINE before == Mapped(m, t)
           after  == Mapped(Replaced(m, p), t)
           old    == p.old
           new    == p.new
<1>1. old \in Chip /\ new \in Chip
  BY DEF UpdatePair
<1>3. \A c \in Chip : Replaced(m, p)[c] = IF c = old THEN NoToken
                                          ELSE IF c = new THEN m[old] ELSE m[c]
  BY <1>1 DEF Replaced, Mapping
<1>4. IsFiniteSet(before) /\ Cardinality(before) \in Nat /\ Cardinality(after) \in Nat
  BY MappedIsFinite
<1>5. CASE m[old] # t
  <2>1. after \in SUBSET before
    BY <1>3, <1>5, NoTokenAssumption DEF Mapped
  <2>2. QED BY <1>4, <2>1, FS_Subset
<1>6. CASE m[old] = t
  <2> DEFINE rest == before \ {old}
  <2>1. old \in before
    BY <1>1, <1>6 DEF Mapped
  <2>2. IsFiniteSet(rest) /\ Cardinality(rest) = Cardinality(before) - 1
    BY <1>4, <2>1, FS_RemoveElement
  <2>3. /\ IsFiniteSet(rest \cup {new})
        /\ Cardinality(rest \cup {new}) <= Cardinality(before)
    <3> HIDE DEF rest, before, new
    <3>1. Cardinality(rest) \in Nat
      BY <2>2, FS_CardinalityType
    <3>2. /\ IsFiniteSet(rest \cup {new})
          /\ Cardinality(rest \cup {new}) = IF new \in rest THEN Cardinality(rest)
                                            ELSE Cardinality(rest) + 1
      BY <2>2, FS_AddElement
    <3>3. QED BY <1>4, <2>2, <3>1, <3>2
  <2>4. after \in SUBSET (rest \cup {new})
    BY <1>3, NoTokenAssumption DEF Mapped
  <2>5. Cardinality(after) <= Cardinality(rest \cup {new})
    BY <2>3, <2>4, FS_Subset
  <2>6. Cardinality(rest \cup {new}) \in Nat
    BY <2>3, FS_CardinalityType
  <2>7. Cardinality(after) <= Cardinality(before)
    <3> HIDE DEF after, before, rest, new
    <3>1. QED BY <1>4, <2>3, <2>5, <2>6
  <2>8. QED BY <2>7
<1>7. QED BY <1>5, <1>6

\* The ledger counts with its own instance of FiniteSets.
LEMMA SameCardinality == \A S : Ledger!Cardinality(S) = Cardinality(S)
BY DEF Cardinality, Ledger!Cardinality

\* A mapping change that gives no token in circulation more chips is a remap.
LEMMA RemapStep ==
    ASSUME frames = << >>, UNCHANGED <<nft, frames, signed, blockNumber>>,
           tokenDatas' \in Mapping,
           \A t \in TokenId : Exists(nft, t) =>
              Cardinality(Mapped(tokenDatas', t)) <= Cardinality(Mapped(tokenDatas, t))
    PROVE  Ledger!Next
<1>1. UNCHANGED <<CommittedOwners, KnownSignatures, blockNumber>> /\ CommittedOwners = nft.owners
  BY DEF CommittedOwners, KnownSignatures
<1>2. \A t : Ledger!ChipsOf(t) = Mapped(tokenDatas, t)
             /\ Ledger!ChipsOf(t)' = Mapped(tokenDatas', t)
  BY DEF Ledger!ChipsOf, Mapped
<1>3. \A t \in TokenId : CommittedOwners[t] # Nobody =>
         Ledger!Cardinality(Ledger!ChipsOf(t)') <= Ledger!Cardinality(Ledger!ChipsOf(t))
  BY <1>1, <1>2, SameCardinality DEF Exists
<1>4. Ledger!Remap
  BY <1>1, <1>3 DEF Ledger!Remap, Mapping
<1>5. QED BY <1>4 DEF Ledger!Next

LEMMA SeedStep ==
    ASSUME IInv, NEW batch \in Batches(SeedPair), SeedChipToTokenMapping(batch)
    PROVE  Ledger!Next
<1> USE DEF SeedChipToTokenMapping
<1>1. tokenDatas \in Mapping
  BY DEF IInv, TypeOK
<1>2. \A i \in DOMAIN batch : batch[i] \in SeedPair
  BY DEF Batches
<1>3. PICK m \in Mapping :
         /\ tokenDatas' = m
         /\ \A t \in TokenId : Exists(nft, t) => Mapped(m, t) \subseteq Mapped(tokenDatas, t)
  <2>1. 1 \in DOMAIN batch /\ (Len(batch) # 1 => 2 \in DOMAIN batch)
    BY DEF Batches
  <2> DEFINE first == Seeded(tokenDatas, batch[1])
             second == Seeded(first, batch[2])
  <2>2. CASE Len(batch) = 1
    <3>1. first \in Mapping
      BY <1>1, <1>2, <2>1, SeededInMapping
    <3>2. \A t \in TokenId : Exists(nft, t) => Mapped(first, t) \subseteq Mapped(tokenDatas, t)
      BY <1>1, <1>2, <2>1, SeededKeepsOthers
    <3>3. QED BY <2>2, <3>1, <3>2
  <2>3. CASE Len(batch) # 1
    <3>1. first \in Mapping /\ second \in Mapping
      BY <1>1, <1>2, <2>1, <2>3, SeededInMapping
    <3>2. \A t \in TokenId : Exists(nft, t) => Mapped(first, t) \subseteq Mapped(tokenDatas, t)
      BY <1>1, <1>2, <2>1, SeededKeepsOthers
    <3>3. \A t \in TokenId : Exists(nft, t) => Mapped(second, t) \subseteq Mapped(first, t)
      BY <1>2, <2>1, <2>3, <3>1, SeededKeepsOthers
    <3>4. \A t \in TokenId : Exists(nft, t) => Mapped(second, t) \subseteq Mapped(tokenDatas, t)
      BY <3>2, <3>3
    <3>5. QED BY <2>3, <3>1, <3>4
  <2>4. QED BY <2>2, <2>3
<1>4. \A t \in TokenId : Exists(nft, t) =>
         Cardinality(Mapped(m, t)) <= Cardinality(Mapped(tokenDatas, t))
  BY <1>3, MappedIsFinite, FS_Subset
<1>5. QED BY <1>3, <1>4, RemapStep

LEMMA UpdateStep ==
    ASSUME IInv, NEW batch \in Batches(UpdatePair), UpdateChips(batch)
    PROVE  Ledger!Next
<1> USE DEF UpdateChips
<1> DEFINE first == Replaced(tokenDatas, batch[1])
           second == Replaced(first, batch[2])
<1>1. tokenDatas \in Mapping
  BY DEF IInv, TypeOK
<1>2. \A i \in DOMAIN batch : batch[i] \in UpdatePair
  BY DEF Batches
<1>3. 1 \in DOMAIN batch /\ (Len(batch) # 1 => 2 \in DOMAIN batch)
  BY DEF Batches
<1>4. /\ first \in Mapping
      /\ \A t \in TokenId :
            Cardinality(Mapped(first, t)) <= Cardinality(Mapped(tokenDatas, t))
  BY <1>1, <1>2, <1>3, ReplacedNeverAdds, ReplacedInMapping
<1>5. CASE Len(batch) = 1
  BY <1>4, <1>5, RemapStep
<1>6. CASE Len(batch) # 1
  <2>1. tokenDatas' = second /\ first[batch[2].old] # NoToken
    BY <1>6
  <2>2. /\ second \in Mapping
        /\ \A t \in TokenId :
              Cardinality(Mapped(second, t)) <= Cardinality(Mapped(first, t))
    BY <1>2, <1>3, <1>4, <1>6, <2>1, ReplacedNeverAdds, ReplacedInMapping
  <2>3. \A t \in TokenId :
           Cardinality(Mapped(second, t)) <= Cardinality(Mapped(tokenDatas, t))
    <3> TAKE t \in TokenId
    <3>1. /\ Cardinality(Mapped(tokenDatas, t)) \in Nat
          /\ Cardinality(Mapped(first, t)) \in Nat
          /\ Cardinality(Mapped(second, t)) \in Nat
      BY MappedIsFinite
    <3>2. /\ Cardinality(Mapped(second, t)) <= Cardinality(Mapped(first, t))
          /\ Cardinality(Mapped(first, t)) <= Cardinality(Mapped(tokenDatas, t))
      BY <1>4, <2>2
    <3> HIDE DEF first, second
    <3>3. QED BY <3>1, <3>2
  <2>4. QED BY <2>1, <2>2, <2>3, RemapStep
<1>7. QED BY <1>5, <1>6
-----------------------------------------------------------------------------
LEMMA InitIsAllowed == Init => Ledger!Init /\ AuthInv
<1> SUFFICES ASSUME Init PROVE Ledger!Init /\ AuthInv
  OBVIOUS
<1>1. IInv
  BY InitEstablishes
<1>2. frames = << >>
  BY DEF Init
<1>3. Ledger!Init
  BY DEF Init, Ledger!Init, CommittedOwners, KnownSignatures, EmptyStorage
<1>4. QED BY <1>1, <1>2, <1>3, NothingPending

\* Every step of the contract is a step of the ledger or leaves it alone.
LEMMA StepIsAllowed ==
    AuthInv /\ IInv' /\ [Next]_vars => AuthInv' /\ [Ledger!Next]_(Ledger!vars)
<1> SUFFICES ASSUME AuthInv, IInv', [Next]_vars
             PROVE  AuthInv' /\ [Ledger!Next]_(Ledger!vars)
  OBVIOUS
<1>1. IInv
  BY DEF AuthInv
<1>2. CASE UNCHANGED vars
  <2>1. UNCHANGED <<tokenDatas, signed, blockNumber, CommittedOwners, frames, nft>>
    BY <1>2 DEF vars, CommittedOwners
  <2>2. Authorized(nft.owners)'
    BY <2>1, AuthorizationsStay DEF Authorized, AuthInv
  <2>3. \A i \in 1 .. Len(frames) : Authorized(frames[i].nft.owners)'
    BY <2>1, AuthorizationsStay DEF Authorized, AuthInv
  <2>4. AuthInv'
    BY <2>1, <2>2, <2>3 DEF AuthInv
  <2>5. QED BY <2>1, <2>4, InvisibleStep
<1>3. CASE NewBlock
  <2>1. frames' = << >>
    BY <1>3 DEF NewBlock, contractVars
  <2>2. QED BY <1>1, <1>3, <2>1, NothingPendingNext, NewBlockIsAllowed
<1>4. ASSUME NEW c \in Chip, NEW a \in Account,
             NEW h \in (0 .. blockNumber - 1) \cup {ZeroHash}, Sign(c, a, h)
      PROVE  AuthInv' /\ [Ledger!Next]_(Ledger!vars)
  <2>1. frames' = << >>
    BY <1>4 DEF Sign, contractVars
  <2>2. QED BY <1>1, <1>4, <2>1, NothingPendingNext, SignIsAllowed
<1>5. ASSUME NEW batch \in Batches(SeedPair), SeedChipToTokenMapping(batch)
      PROVE  AuthInv' /\ [Ledger!Next]_(Ledger!vars)
  <2>1. frames' = << >>
    BY <1>5 DEF SeedChipToTokenMapping
  <2>2. QED BY <1>1, <1>5, <2>1, NothingPendingNext, SeedStep
<1>6. ASSUME NEW batch \in Batches(UpdatePair), UpdateChips(batch)
      PROVE  AuthInv' /\ [Ledger!Next]_(Ledger!vars)
  <2>1. frames' = << >>
    BY <1>6 DEF UpdateChips
  <2>2. QED BY <1>1, <1>6, <2>1, NothingPendingNext, UpdateStep
<1>7. ASSUME NEW sender \in Account, NEW sig \in signed, NEW b \in 0 .. blockNumber,
             NEW safe \in BOOLEAN, TransferTokenWithChip(sender, sig, b, safe)
      PROVE  AuthInv' /\ [Ledger!Next]_(Ledger!vars)
  BY <1>7, ClaimStep
<1>8. CASE ReceiverReturns
  BY <1>8, ReturnStep
<1>9. CASE ReceiverReverts
  BY <1>9, RevertStep
<1>10. QED BY <1>2, <1>3, <1>4, <1>5, <1>6, <1>7, <1>8, <1>9 DEF Next

\* The contract implements the ledger: its finished transactions only ever move
\* tokens to accounts one of their chips signed for within the window, however
\* receivers nest their calls or revert them, and the administrator never gives
\* a token in circulation more chips than it had.
THEOREM Implementation == Spec => ImplementsLedger
<1>1. Init => Ledger!Init /\ AuthInv
  BY InitIsAllowed
<1>2. AuthInv /\ IInv' /\ [Next]_vars => AuthInv' /\ [Ledger!Next]_(Ledger!vars)
  BY StepIsAllowed
<1>3. Spec => []IInv
  BY InductiveInvariant
<1>4. QED BY <1>1, <1>2, <1>3, PTL DEF Spec, ImplementsLedger, Ledger!Spec
-----------------------------------------------------------------------------
(***************************************************************************)
(* Replacing chips by new ones keeps every token reachable.                *)
(***************************************************************************)
Reachable(m, t) == \E d \in Chip : m[d] = t

LEMMA ReplacedReaches ==
    ASSUME NEW m \in Mapping, NEW p \in UpdatePair,
           m[p.old] # NoToken, m[p.new] = NoToken,
           NEW t, t # NoToken, Reachable(m, t)
    PROVE  Reachable(Replaced(m, p), t)
<1>1. p.old \in Chip /\ p.new \in Chip /\ p.old # p.new
  BY DEF UpdatePair
<1>2. \A c \in Chip : Replaced(m, p)[c] = IF c = p.old THEN NoToken
                                          ELSE IF c = p.new THEN m[p.old] ELSE m[c]
  BY <1>1 DEF Replaced, Mapping
<1>3. PICK c \in Chip : m[c] = t
  BY DEF Reachable
<1>4. CASE c = p.old
  BY <1>1, <1>2, <1>3, <1>4 DEF Reachable
<1>5. CASE c # p.old
  BY <1>2, <1>3, <1>5 DEF Reachable
<1>6. QED BY <1>4, <1>5

LEMMA UpdateChipsReaches ==
    ASSUME IInv, NEW batch \in Batches(UpdatePair), UpdateChips(batch), AreNew(batch),
           NEW t, t # NoToken, Reachable(tokenDatas, t)
    PROVE  Reachable(tokenDatas', t)
<1>1. tokenDatas \in Mapping
  BY DEF IInv, TypeOK
<1>2. PICK first : first = Replaced(tokenDatas, batch[1])
  OBVIOUS
<1>3. tokenDatas[batch[1].old] # NoToken
  BY DEF UpdateChips
<1>4. batch[1] \in UpdatePair /\ 1 \in DOMAIN batch
  BY DEF Batches
<1>5. tokenDatas[batch[1].new] = NoToken
  BY <1>4 DEF AreNew
<1>6. first \in Mapping /\ Reachable(first, t)
  BY <1>1, <1>2, <1>3, <1>4, <1>5, ReplacedReaches, ReplacedInMapping
<1>7. CASE batch \in [1 .. 1 -> UpdatePair]
  <2>1. Len(batch) = 1
    BY <1>7, FunctionIsSequence
  <2>2. tokenDatas' = first
    BY <1>2, <2>1 DEF UpdateChips
  <2>3. QED BY <1>6, <2>2
<1>8. CASE batch \in [1 .. 2 -> UpdatePair]
  <2>1. Len(batch) = 2
    BY <1>8, FunctionIsSequence
  <2>2. first[batch[2].old] # NoToken /\ tokenDatas' = Replaced(first, batch[2])
    BY <1>2, <2>1 DEF UpdateChips
  <2>3. batch[2] \in UpdatePair /\ DOMAIN batch = 1 .. 2
    BY <1>8
  <2>4. tokenDatas[batch[2].new] = NoToken /\ batch[2].new # batch[1].new
    BY <2>3 DEF AreNew
  <2>5. first[batch[2].new] = NoToken
    <3>1. batch[2].new \in Chip
      BY <2>3 DEF UpdatePair
    <3>2. QED BY <1>1, <1>2, <1>4, <2>4, <3>1 DEF Replaced, Mapping, UpdatePair
  <2>6. QED BY <1>6, <2>2, <2>3, <2>5, ReplacedReaches
<1>9. QED BY <1>7, <1>8 DEF Batches

\* However many chips one call replaces, and whatever happened before, no token loses
\* its last chip to a replacement by new chips.
THEOREM ReachabilityCorrect == Spec => UpdateKeepsTokensReachable
<1> DEFINE Keeps == \A batch \in Batches(UpdatePair) : UpdateChips(batch) /\ AreNew(batch) =>
                       \A c \in Chip : tokenDatas[c] # NoToken =>
                          \E d \in Chip : tokenDatas'[d] = tokenDatas[c]
<1>1. IInv => Keeps
  <2> SUFFICES ASSUME IInv, NEW batch \in Batches(UpdatePair), UpdateChips(batch),
                      AreNew(batch), NEW c \in Chip, tokenDatas[c] # NoToken
               PROVE  \E d \in Chip : tokenDatas'[d] = tokenDatas[c]
    OBVIOUS
  <2>1. Reachable(tokenDatas, tokenDatas[c])
    BY DEF Reachable
  <2>2. PICK t : t = tokenDatas[c]
    OBVIOUS
  <2>3. Reachable(tokenDatas', t)
    BY <2>1, <2>2, UpdateChipsReaches
  <2>4. QED BY <2>2, <2>3 DEF Reachable
<1>2. Spec => [][Keeps]_vars
  BY <1>1, InductiveInvariant, PTL DEF Spec
<1>3. QED BY <1>2 DEF UpdateKeepsTokensReachable
=============================================================================
