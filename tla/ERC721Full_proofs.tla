-------------------------- MODULE ERC721Full_proofs --------------------------
(***************************************************************************)
(* The general NFT contract keeps its enumeration consistent and its       *)
(* royalties with the tokens they were set for, and a finished transaction *)
(* only takes tokens with consent, for any accounts, roles, operators and  *)
(* tokens, whatever receivers do in the middle of a batch.                 *)
(***************************************************************************)
EXTENDS ERC721Full, ERC721Enumerable_proofs

(***************************************************************************)
(* The inductive invariant.  A frame keeps the state its revert restores,  *)
(* so what holds of the current state has to hold of the state of every    *)
(* frame too.                                                              *)
(***************************************************************************)
GoodState(n, r, b) == /\ IsStorage(n)
                      /\ Consistent(n)
                      /\ r \in [TokenId -> Nat \cup {NoRoyalty}]
                      /\ b \in [TokenId -> Nat]
                      /\ \A t \in TokenId : r[t] # NoRoyalty => r[t] = b[t]

IsFrame(f) == f = [sender |-> f.sender, items |-> f.items,
                   waiting |-> f.waiting, saved |-> f.saved]

GoodFrame(f) == /\ IsFrame(f)
                /\ f.sender \in Account
                /\ f.items \in Seq(Item)
                /\ f.waiting \in BOOLEAN
                /\ GoodState(f.saved.nft, f.saved.royalty, f.saved.burns)

IInv == /\ GoodState(nft, royalty, burns)
        /\ named \subseteq Account \X TokenId
        /\ IsStack(frames)
        /\ \A i \in 1 .. Len(frames) : GoodFrame(frames[i])
        /\ \A i \in 1 .. Len(frames) - 1 : frames[i].waiting
-----------------------------------------------------------------------------
(***************************************************************************)
(* What a step does to the call stack.                                     *)
(***************************************************************************)

\* Another field waiting in a frame.
LEMMA WaitingReplaced ==
    ASSUME NEW f, NEW w, IsFrame(f)
    PROVE  [f EXCEPT !.waiting = w] = [sender |-> f.sender, items |-> f.items,
                                       waiting |-> w, saved |-> f.saved]
<1>1. PICK a, q, v, s : a = f.sender /\ q = f.items /\ v = f.waiting /\ s = f.saved
  OBVIOUS
<1>2. f = [sender |-> a, items |-> q, waiting |-> v, saved |-> s]
  BY <1>1, Zenon DEF IsFrame
<1>3. [f EXCEPT !.waiting = w] = [sender |-> a, items |-> q, waiting |-> w, saved |-> s]
  BY <1>2
<1>4. QED BY <1>1, <1>3, Zenon

LEMMA ItemsReplaced ==
    ASSUME NEW f, NEW q, IsFrame(f), NEW g, g = [f EXCEPT !.items = q]
    PROVE  /\ IsFrame(g)
           /\ g.sender = f.sender /\ g.items = q
           /\ g.waiting = f.waiting /\ g.saved = f.saved
<1>1. PICK a, p, v, s : a = f.sender /\ p = f.items /\ v = f.waiting /\ s = f.saved
  OBVIOUS
<1>2. f = [sender |-> a, items |-> p, waiting |-> v, saved |-> s]
  BY <1>1, Zenon DEF IsFrame
<1>3. g = [sender |-> a, items |-> q, waiting |-> v, saved |-> s]
  BY <1>2
<1>4. g.sender = a /\ g.items = q /\ g.waiting = v /\ g.saved = s
  BY <1>3
<1>5. QED BY <1>1, <1>3, <1>4, Zenon DEF IsFrame

\* fs is the stack with another innermost frame.
Changed(stack, g, fs) == /\ IsStack(fs)
                         /\ Len(stack) \in Nat \ {0}
                         /\ Len(fs) = Len(stack)
                         /\ \A i \in 1 .. Len(stack) - 1 : fs[i] = stack[i]
                         /\ fs[Len(stack)] = g

LEMMA ChangedFrame ==
    ASSUME NEW stack, IsStack(stack), stack # << >>, NEW g,
           NEW fs, fs = [stack EXCEPT ![Len(stack)] = g]
    PROVE  Changed(stack, g, fs)
<1> DEFINE n == Len(stack)
<1>1. n \in Nat \ {0}
  BY EmptySeq, Zenon DEF IsStack
<1>2. stack = [i \in 1 .. n |-> stack[i]]
  BY LenProperties DEF IsStack
<1>3. fs = [i \in 1 .. n |-> IF i = n THEN g ELSE stack[i]]
  <2>1. PICK s : s = stack
    OBVIOUS
  <2>2. s = [i \in 1 .. n |-> stack[i]]
    BY <1>2, <2>1
  <2>3. [s EXCEPT ![n] = g] = [i \in 1 .. n |-> IF i = n THEN g ELSE stack[i]]
    BY <1>1, <2>2
  <2>4. QED BY <2>1, <2>3
<1>4. fs \in [1 .. n -> {fs[i] : i \in 1 .. n}]
  BY <1>3
<1>5. fs \in Seq({fs[i] : i \in 1 .. n}) /\ Len(fs) = n
  <2>1. PICK T : T = {fs[i] : i \in 1 .. n}
    OBVIOUS
  <2>2. PICK k \in Nat : k = n
    BY <1>1
  <2>3. fs \in [1 .. k -> T]
    BY <1>4, <2>1, <2>2
  <2>4. fs \in Seq(T) /\ Len(fs) = k
    BY <2>3, FunctionIsSequence
  <2>5. QED BY <2>1, <2>2, <2>4
<1>6. IsStack(fs)
  BY <1>5 DEF IsStack
<1>7. /\ \A i \in 1 .. n - 1 : fs[i] = stack[i]
      /\ fs[n] = g
  <2> HIDE DEF n
  <2>1. QED BY <1>1, <1>3
<1>8. QED BY <1>1, <1>5, <1>6, <1>7 DEF Changed

\* A good frame on top of the waiting ones.
LEMMA PushedIsGood ==
    ASSUME NEW stack, IsStack(stack), \A i \in 1 .. Len(stack) : GoodFrame(stack[i]),
           \A i \in 1 .. Len(stack) : stack[i].waiting,
           NEW f, GoodFrame(f), NEW fs, fs = Append(stack, f)
    PROVE  /\ IsStack(fs)
           /\ \A i \in 1 .. Len(fs) : GoodFrame(fs[i])
           /\ \A i \in 1 .. Len(fs) - 1 : fs[i].waiting
<1>1. Pushed(stack, f, fs)
  BY PushedFrame
<1>2. \A i \in 1 .. Len(fs) - 1 : i \in 1 .. Len(stack) /\ fs[i] = stack[i]
  BY <1>1 DEF Pushed
<1>3. \A i \in 1 .. Len(fs) : i \in 1 .. Len(fs) - 1 \/ i = Len(stack) + 1
  BY <1>1 DEF Pushed
<1>4. \A i \in 1 .. Len(fs) : GoodFrame(fs[i])
  BY <1>1, <1>2, <1>3 DEF Pushed
<1>5. QED BY <1>1, <1>2, <1>4 DEF Pushed

LEMMA ChangedIsGood ==
    ASSUME NEW stack, \A i \in 1 .. Len(stack) : GoodFrame(stack[i]),
           \A i \in 1 .. Len(stack) - 1 : stack[i].waiting,
           NEW g, GoodFrame(g), NEW fs, Changed(stack, g, fs)
    PROVE  /\ IsStack(fs)
           /\ \A i \in 1 .. Len(fs) : GoodFrame(fs[i])
           /\ \A i \in 1 .. Len(fs) - 1 : fs[i].waiting
<1>1. \A i \in 1 .. Len(fs) : i \in 1 .. Len(stack) - 1 \/ i = Len(stack)
  BY DEF Changed
<1>2. \A i \in 1 .. Len(stack) - 1 : i \in 1 .. Len(stack)
  BY DEF Changed
<1>3. \A i \in 1 .. Len(fs) : GoodFrame(fs[i])
  BY <1>1, <1>2 DEF Changed
<1>4. QED BY <1>3 DEF Changed

LEMMA PoppedIsGood ==
    ASSUME IInv, frames # << >>
    PROVE  /\ IsStack(CallerFrames)
           /\ \A i \in 1 .. Len(CallerFrames) : GoodFrame(CallerFrames[i])
           /\ \A i \in 1 .. Len(CallerFrames) - 1 : CallerFrames[i].waiting
           /\ Len(frames) \in 1 .. Len(frames)
           /\ GoodFrame(Innermost)
<1>1. PICK fs : fs = CallerFrames
  OBVIOUS
<1>2. /\ IsStack(fs)
      /\ Len(frames) \in Nat \ {0}
      /\ Len(fs) = Len(frames) - 1
      /\ \A i \in 1 .. Len(fs) : fs[i] = frames[i]
  BY <1>1, PoppedFrame DEF IInv, CallerFrames
<1>3. \A i \in 1 .. Len(fs) : i \in 1 .. Len(frames) /\ i \in 1 .. Len(frames) - 1
  BY <1>2
<1>4. \A i \in 1 .. Len(fs) - 1 : i \in 1 .. Len(fs)
  BY <1>2
<1>5. QED BY <1>1, <1>2, <1>3, <1>4 DEF IInv, Innermost
-----------------------------------------------------------------------------
(***************************************************************************)
(* What a step does to the tokens.                                         *)
(***************************************************************************)

\* m is n with t moved to another account, or to nobody.
GivenTo(n, m, t, to) == /\ IsStorage(m)
                        /\ Consistent(m)
                        /\ \A u \in TokenId : m.owners[u] = IF u = t THEN to ELSE n.owners[u]

LEMMA TransferGives ==
    ASSUME NEW n, IsStorage(n), Consistent(n), NEW t \in TokenId, Exists(n, t),
           NEW to \in Account, NEW m, m = Transferred(n, to, t)
    PROVE  GivenTo(n, m, t, to)
<1>1. CASE n.owners[t] = to
  <2>1. m = n
    BY <1>1, TransferredToOwner
  <2>2. QED BY <1>1, <2>1 DEF GivenTo
<1>2. CASE n.owners[t] # to
  <2>1. IsStorage(m) /\ Consistent(m)
    BY <1>2, TransferredIsConsistent
  <2>2. PICK from \in Account : n.owners[t] = from /\ from # to
    BY <1>2 DEF IsStorage, Exists
  <2>3. PICK index, moved : /\ index = n.ownedTokensIndex[t]
                            /\ moved = n.ownedTokens[from][n.balances[from] - 1]
    OBVIOUS
  <2>4. TransferredFrom(n, m, from, to, t, index, moved)
    BY <2>2, <2>3, TransferredFields
  <2>5. QED BY <2>1, <2>4 DEF TransferredFrom, GivenTo
<1>3. QED BY <1>1, <1>2

LEMMA MintGives ==
    ASSUME NEW n, IsStorage(n), Consistent(n), NEW t \in TokenId, ~ Exists(n, t),
           NEW to \in Account, NEW m, m = Minted(n, to, t)
    PROVE  GivenTo(n, m, t, to)
<1>1. IsStorage(m) /\ Consistent(m)
  BY MintedIsConsistent
<1>2. MintedFrom(n, m, to, t)
  BY MintedFields
<1>3. QED BY <1>1, <1>2 DEF MintedFrom, IsStorage, GivenTo

\* An item whose checks pass gives its token to its recipient.
LEMMA ItemGives ==
    ASSUME IsStorage(nft), Consistent(nft), NEW item \in Item, NEW sender,
           May(sender, item),
           NEW m, m = IF item.from = Nobody THEN Minted(nft, item.to, item.token)
                      ELSE Transferred(nft, item.to, item.token)
    PROVE  GivenTo(nft, m, item.token, item.to)
<1>1. item.to \in Account /\ item.token \in TokenId
  BY DEF Item
<1>2. CASE item.from = Nobody
  BY <1>1, <1>2, MintGives DEF May
<1>3. CASE item.from # Nobody
  BY <1>1, <1>3, TransferGives DEF May, IsApprovedOrOwner
<1>4. QED BY <1>2, <1>3
-----------------------------------------------------------------------------
(***************************************************************************)
(* One lemma per action, or for a few that are alike.                      *)
(***************************************************************************)
LEMMA GoodNext ==
    ASSUME GoodState(nft', royalty', burns'),
           named' \subseteq Account \X TokenId,
           IsStack(frames'),
           \A i \in 1 .. Len(frames') : GoodFrame(frames'[i]),
           \A i \in 1 .. Len(frames') - 1 : frames'[i].waiting
    PROVE  IInv'
BY DEF IInv, GoodState, GoodFrame, IsFrame, IsStack, IsStorage, Consistent, ListsAreCompact,
   ListsAreSound, ListsAreComplete, AllTokensIsSound, AllTokensIsComplete, Exists

\* A step that leaves the stack alone.
LEMMA SameFrames ==
    ASSUME IInv, UNCHANGED frames, GoodState(nft', royalty', burns'),
           named' \subseteq Account \X TokenId
    PROVE  IInv'
BY GoodNext DEF IInv

LEMMA InitEstablishes == Init => IInv
<1> SUFFICES ASSUME Init PROVE IInv
  OBVIOUS
<1>1. IsStorage(nft) /\ Consistent(nft)
  BY EmptyStorageIsConsistent DEF Init
<1>2. GoodState(nft, royalty, burns)
  BY <1>1 DEF GoodState, Init
<1>3. IsStack(frames) /\ Len(frames) = 0
  BY EmptySeq DEF Init, IsStack
<1>4. QED BY <1>2, <1>3 DEF IInv, Init

\* The history of a transaction consists of accounts and tokens.
LEMMA NamedType ==
    ASSUME IInv, NEW sender \in Account, NEW tokens \in SUBSET TokenId, Named(sender, tokens)
    PROVE  named' \subseteq Account \X TokenId
BY DEF IInv, Named

LEMMA TransferFromStep ==
    ASSUME IInv, NEW sender \in Account, NEW to \in Account, NEW t \in TokenId,
           TransferFrom(sender, to, t)
    PROVE  IInv' /\ GivenTo(nft, nft', t, to)
<1> USE DEF TransferFrom
<1>1. IsStorage(nft) /\ Consistent(nft) /\ Exists(nft, t)
  BY DEF IInv, GoodState, IsApprovedOrOwner
<1>2. GivenTo(nft, nft', t, to)
  BY <1>1, TransferGives
<1>3. GoodState(nft', royalty', burns')
  BY <1>2 DEF GivenTo, IInv, GoodState
<1>4. named' \subseteq Account \X TokenId
  BY NamedType
<1>5. QED BY <1>2, <1>3, <1>4, SameFrames

LEMMA BurnStep ==
    ASSUME IInv, NEW sender \in Account, NEW t \in TokenId, Burn(sender, t)
    PROVE  IInv' /\ GivenTo(nft, nft', t, Nobody)
<1> USE DEF Burn
<1>1. IsStorage(nft) /\ Consistent(nft) /\ Exists(nft, t)
  BY DEF IInv, GoodState, IsApprovedOrOwner
<1>2. GivenTo(nft, nft', t, Nobody)
  BY <1>1, BurnedIsConsistent DEF GivenTo
<1>3. /\ royalty' \in [TokenId -> Nat \cup {NoRoyalty}]
      /\ burns' \in [TokenId -> Nat]
      /\ \A u \in TokenId : royalty'[u] # NoRoyalty => royalty'[u] = burns'[u]
  BY DEF IInv, GoodState, RoyaltyAfterBurn
<1>4. GoodState(nft', royalty', burns')
  BY <1>2, <1>3 DEF GivenTo, GoodState
<1>5. named' \subseteq Account \X TokenId
  BY NamedType
<1>6. QED BY <1>2, <1>4, <1>5, SameFrames

LEMMA SetTokenRoyaltyStep ==
    ASSUME IInv, NEW t \in TokenId, SetTokenRoyalty(t)
    PROVE  IInv'
<1> USE DEF SetTokenRoyalty
<1>1. /\ royalty' \in [TokenId -> Nat \cup {NoRoyalty}]
      /\ \A u \in TokenId : royalty'[u] # NoRoyalty => royalty'[u] = burns[u]
  BY DEF IInv, GoodState
<1>2. GoodState(nft', royalty', burns')
  BY <1>1 DEF IInv, GoodState
<1>3. QED BY <1>2, SameFrames DEF IInv

\* Every frame under a call that may enter is waiting.
LEMMA EnteredFromWaiting ==
    ASSUME IInv, NEW sender, MayEnter(sender)
    PROVE  \A i \in 1 .. Len(frames) : frames[i].waiting
<1>1. Len(frames) \in Nat
  BY LenProperties DEF IInv, IsStack
<1> SUFFICES ASSUME NEW i \in 1 .. Len(frames) PROVE frames[i].waiting
  OBVIOUS
<1>2. frames # << >>
  BY <1>1, EmptySeq
<1>3. frames[Len(frames)].waiting
  BY <1>2 DEF MayEnter, Innermost
<1>4. i \in 1 .. Len(frames) - 1 \/ i = Len(frames)
  BY <1>1
<1>5. QED BY <1>3, <1>4 DEF IInv

\* The arguments of a call are a sequence of one item or two.
LEMMA BatchIsSequence ==
    ASSUME NEW items \in Batches
    PROVE  items \in Seq(Item) /\ Len(items) \in 1 .. 2 /\ DOMAIN items = 1 .. Len(items)
<1>1. PICK k \in 1 .. 2 : items \in [1 .. k -> Item]
  BY DEF Batches
<1>2. items \in Seq(Item) /\ Len(items) = k
  BY <1>1, FunctionIsSequence
<1>3. QED BY <1>1, <1>2

\* The frame a call adds.
LEMMA CallPushes ==
    ASSUME IInv, NEW sender \in Account, NEW items \in Batches, Call(sender, items)
    PROVE  \E f : /\ f.sender = sender /\ f.items = items /\ f.saved.nft = nft
                  /\ GoodFrame(f)
                  /\ frames' = Append(frames, f)
                  /\ Pushed(frames, f, frames')
<1>1. PICK f : f = [sender  |-> sender,
                    items   |-> items,
                    waiting |-> FALSE,
                    saved   |-> Storage]
  OBVIOUS
<1>2. /\ f.sender = sender /\ f.items = items /\ f.waiting = FALSE
      /\ f.saved.nft = nft /\ f.saved.royalty = royalty /\ f.saved.burns = burns
  BY <1>1 DEF Storage
<1>3. items \in Seq(Item)
  BY BatchIsSequence
<1>4. IsFrame(f)
  BY <1>1, <1>2, Zenon DEF IsFrame
<1>5. GoodFrame(f)
  BY <1>2, <1>3, <1>4, Zenon DEF GoodFrame, IInv
<1>6. frames' = Append(frames, f)
  BY <1>1 DEF Call
<1>7. Pushed(frames, f, frames')
  BY <1>6, PushedFrame DEF IInv
<1>8. QED BY <1>2, <1>5, <1>6, <1>7

LEMMA CallStep ==
    ASSUME IInv, NEW sender \in Account, NEW items \in Batches, Call(sender, items)
    PROVE  IInv'
<1>1. PICK f : GoodFrame(f) /\ frames' = Append(frames, f)
  BY CallPushes
<1>2. \A i \in 1 .. Len(frames) : frames[i].waiting
  BY EnteredFromWaiting DEF Call
<1>3. /\ IsStack(frames')
      /\ \A i \in 1 .. Len(frames') : GoodFrame(frames'[i])
      /\ \A i \in 1 .. Len(frames') - 1 : frames'[i].waiting
  BY <1>1, <1>2, PushedIsGood DEF IInv
<1>4. {items[i].token : i \in DOMAIN items} \in SUBSET TokenId
  <2>1. \A i \in DOMAIN items : items[i] \in Item
    BY BatchIsSequence
  <2>2. \A i \in DOMAIN items : items[i].token \in TokenId
    BY <2>1 DEF Item
  <2>3. QED BY <2>2
<1>5. named' \subseteq Account \X TokenId
  BY <1>4, NamedType DEF Call
<1>6. GoodState(nft', royalty', burns')
  BY DEF Call, IInv
<1>7. QED BY <1>3, <1>5, <1>6, GoodNext

\* The innermost frame of a call under way.
LEMMA InnermostIsGood ==
    ASSUME IInv, frames # << >>
    PROVE  Len(frames) \in Nat \ {0} /\ GoodFrame(Innermost)
<1>1. Len(frames) \in Nat \ {0}
  BY EmptySeq, Zenon DEF IInv, IsStack
<1>2. QED BY <1>1 DEF IInv, Innermost

LEMMA HeadIsItem ==
    ASSUME NEW q \in Seq(Item), q # << >>
    PROVE  /\ Head(q) \in Item
           /\ Tail(q) \in Seq(Item)
           /\ Head(q) = q[1]
           /\ Len(q) \in Nat \ {0}
           /\ Len(Tail(q)) = Len(q) - 1
           /\ \A i \in 1 .. Len(Tail(q)) : Tail(q)[i] = q[i + 1]
BY HeadTailProperties, EmptySeq

\* What ProcessItem leaves behind: the token with its recipient, and a frame that
\* has one item less to go through.
LEMMA ItemProcessed ==
    ASSUME IInv, ProcessItem
    PROVE  LET item == Head(Innermost.items)
           IN /\ item \in Item
              /\ May(Innermost.sender, item)
              /\ GivenTo(nft, nft', item.token, item.to)
              /\ \E g : /\ GoodFrame(g)
                       /\ g.sender = Innermost.sender
                       /\ g.items = Tail(Innermost.items)
                       /\ g.saved = Innermost.saved
                       /\ Changed(frames, g, frames')
<1> DEFINE item == Head(Innermost.items)
<1>1. frames # << >> /\ Innermost.items # << >> /\ May(Innermost.sender, item)
  BY DEF ProcessItem, Running
<1>2. GoodFrame(Innermost) /\ Len(frames) \in Nat \ {0}
  BY <1>1, InnermostIsGood
<1>3. item \in Item /\ Tail(Innermost.items) \in Seq(Item)
  BY <1>1, <1>2, HeadIsItem DEF GoodFrame
<1>4. GivenTo(nft, nft', item.token, item.to)
  <2>1. IsStorage(nft) /\ Consistent(nft)
    BY DEF IInv, GoodState
  <2>2. nft' = IF item.from = Nobody THEN Minted(nft, item.to, item.token)
               ELSE Transferred(nft, item.to, item.token)
    BY DEF ProcessItem
  <2> HIDE DEF item
  <2>3. QED BY <1>1, <1>3, <2>1, <2>2, ItemGives
<1>5. PICK f : f = Innermost
  OBVIOUS
<1>6. PICK w \in BOOLEAN : w = (item.to \in Contract)
  <2>1. CASE item.to \in Contract
    <3>1. (item.to \in Contract) = TRUE
      BY <2>1
    <3>2. QED BY <3>1, Zenon
  <2>2. CASE item.to \notin Contract
    <3>1. (item.to \in Contract) = FALSE
      BY <2>2
    <3>2. QED BY <3>1, Zenon
  <2>3. QED BY <2>1, <2>2
<1>7. PICK g : g = [sender |-> f.sender, items |-> Tail(f.items),
                    waiting |-> w, saved |-> f.saved]
  OBVIOUS
<1>8. frames' = [frames EXCEPT ![Len(frames)] = g]
  <2>1. PICK n \in Nat \ {0} : n = Len(frames)
    BY <1>2
  <2>2. PICK s : s = frames
    OBVIOUS
  <2>3. s = [i \in 1 .. n |-> s[i]]
    BY <2>1, <2>2, LenProperties DEF IInv, IsStack
  <2>4. s[n] = f /\ n \in DOMAIN s
    BY <1>5, <2>1, <2>2, <2>3 DEF Innermost
  <2>5. frames' = [[s EXCEPT ![n].items = Tail(@)] EXCEPT ![n].waiting = w]
    BY <1>6, <2>1, <2>2 DEF ProcessItem
  <2>6. PICK g1 : g1 = [f EXCEPT !.items = Tail(f.items)]
    OBVIOUS
  <2>7. IsFrame(f)
    BY <1>2, <1>5 DEF GoodFrame
  <2>8. /\ IsFrame(g1)
        /\ g1.sender = f.sender /\ g1.items = Tail(f.items) /\ g1.saved = f.saved
    <3>1. PICK q : q = Tail(f.items)
      OBVIOUS
    <3>2. g1 = [f EXCEPT !.items = q]
      BY <2>6, <3>1, Zenon
    <3>3. IsFrame(g1) /\ g1.sender = f.sender /\ g1.items = q /\ g1.saved = f.saved
      BY <2>7, <3>2, ItemsReplaced
    <3>4. QED BY <3>1, <3>3, Zenon
  <2>9. [g1 EXCEPT !.waiting = w] = g
    BY <1>7, <2>8, WaitingReplaced, Zenon
  <2>10. PICK s1 : s1 = [s EXCEPT ![n] = g1]
    OBVIOUS
  <2>11. [s EXCEPT ![n].items = Tail(@)] = s1
    BY <2>4, <2>6, <2>10
  <2>12. s1[n] = g1
    BY <2>4, <2>10
  <2>13. [s1 EXCEPT ![n].waiting = w] = [s1 EXCEPT ![n] = g]
    BY <2>9, <2>12
  <2>14. [s1 EXCEPT ![n] = g] = [s EXCEPT ![n] = g]
    BY <2>10
  <2>15. QED BY <2>1, <2>2, <2>5, <2>11, <2>13, <2>14
<1>9. GoodFrame(g) /\ g.sender = f.sender /\ g.items = Tail(f.items) /\ g.saved = f.saved
  <2>1. g.sender = f.sender /\ g.items = Tail(f.items) /\ g.saved = f.saved /\ g.waiting = w
    BY <1>7
  <2>2. IsFrame(g)
    BY <1>7, <2>1, Zenon DEF IsFrame
  <2>3. QED BY <1>2, <1>3, <1>5, <2>1, <2>2, Zenon DEF GoodFrame
<1>10. Changed(frames, g, frames')
  BY <1>1, <1>8, ChangedFrame DEF IInv
<1>11. QED BY <1>1, <1>3, <1>4, <1>5, <1>9, <1>10

LEMMA ProcessItemStep == ASSUME IInv, ProcessItem PROVE IInv'
<1>1. PICK g : GoodFrame(g) /\ Changed(frames, g, frames')
  BY ItemProcessed
<1>2. /\ IsStack(frames')
      /\ \A i \in 1 .. Len(frames') : GoodFrame(frames'[i])
      /\ \A i \in 1 .. Len(frames') - 1 : frames'[i].waiting
  BY <1>1, ChangedIsGood DEF IInv
<1>3. GoodState(nft', royalty', burns')
  BY ItemProcessed DEF ProcessItem, GivenTo, IInv, GoodState
<1>4. QED BY <1>2, <1>3, GoodNext DEF ProcessItem, IInv

LEMMA ReturnChanges ==
    ASSUME IInv, ReceiverReturns
    PROVE  \E g : /\ GoodFrame(g)
                  /\ g.sender = Innermost.sender
                  /\ g.items = Innermost.items
                  /\ g.saved = Innermost.saved
                  /\ Changed(frames, g, frames')
<1>1. frames # << >>
  BY DEF ReceiverReturns
<1>2. GoodFrame(Innermost) /\ Len(frames) \in Nat \ {0}
  BY <1>1, InnermostIsGood
<1>3. PICK f : f = Innermost
  OBVIOUS
<1>4. PICK g : g = [sender |-> f.sender, items |-> f.items,
                    waiting |-> FALSE, saved |-> f.saved]
  OBVIOUS
<1>5. frames' = [frames EXCEPT ![Len(frames)] = g]
  <2>1. PICK n \in Nat \ {0} : n = Len(frames)
    BY <1>2
  <2>2. PICK s : s = frames
    OBVIOUS
  <2>3. s = [i \in 1 .. n |-> s[i]]
    BY <2>1, <2>2, LenProperties DEF IInv, IsStack
  <2>4. s[n] = f /\ n \in DOMAIN s
    BY <1>3, <2>1, <2>2, <2>3 DEF Innermost
  <2>5. IsFrame(f)
    BY <1>2, <1>3 DEF GoodFrame
  <2>6. [f EXCEPT !.waiting = FALSE] = g
    BY <1>4, <2>5, WaitingReplaced, Zenon
  <2>7. [s EXCEPT ![n].waiting = FALSE] = [s EXCEPT ![n] = g]
    BY <2>4, <2>6
  <2>8. QED BY <2>1, <2>2, <2>7 DEF ReceiverReturns
<1>6. GoodFrame(g) /\ g.sender = f.sender /\ g.items = f.items /\ g.saved = f.saved
  <2>1. g.sender = f.sender /\ g.items = f.items /\ g.saved = f.saved /\ g.waiting = FALSE
    BY <1>4
  <2>2. IsFrame(g)
    BY <1>4, <2>1, Zenon DEF IsFrame
  <2>3. QED BY <1>2, <1>3, <2>1, <2>2, Zenon DEF GoodFrame
<1>7. Changed(frames, g, frames')
  BY <1>1, <1>5, ChangedFrame DEF IInv
<1>8. QED BY <1>3, <1>6, <1>7

LEMMA ReceiverReturnsStep == ASSUME IInv, ReceiverReturns PROVE IInv'
<1>1. PICK g : GoodFrame(g) /\ Changed(frames, g, frames')
  BY ReturnChanges
<1>2. /\ IsStack(frames')
      /\ \A i \in 1 .. Len(frames') : GoodFrame(frames'[i])
      /\ \A i \in 1 .. Len(frames') - 1 : frames'[i].waiting
  BY <1>1, ChangedIsGood DEF IInv
<1>3. GoodState(nft', royalty', burns')
  BY DEF ReceiverReturns, IInv
<1>4. QED BY <1>2, <1>3, GoodNext DEF ReceiverReturns, IInv

\* A call that reverts or ends.
LEMMA PopStep ==
    ASSUME IInv, frames # << >>, frames' = CallerFrames,
           named' = IF CallerFrames = << >> THEN {} ELSE named,
           \/ Reverts
           \/ UNCHANGED <<nft, royalty, burns>>
    PROVE  IInv'
<1>1. /\ IsStack(frames')
      /\ \A i \in 1 .. Len(frames') : GoodFrame(frames'[i])
      /\ \A i \in 1 .. Len(frames') - 1 : frames'[i].waiting
      /\ GoodFrame(Innermost)
  BY PoppedIsGood
<1>2. GoodState(nft', royalty', burns')
  BY <1>1 DEF Reverts, GoodFrame, IInv
<1>3. named' \subseteq Account \X TokenId
  BY DEF IInv
<1>4. QED BY <1>1, <1>2, <1>3, GoodNext

LEMMA NextPreserves == IInv /\ [Next]_vars => IInv'
<1> SUFFICES ASSUME IInv, [Next]_vars PROVE IInv'
  OBVIOUS
<1>1. ASSUME NEW sender \in Account, NEW to \in Account, NEW t \in TokenId,
             TransferFrom(sender, to, t)
      PROVE  IInv'
  BY <1>1, TransferFromStep
<1>2. ASSUME NEW sender \in Account, NEW t \in TokenId, Burn(sender, t)
      PROVE  IInv'
  BY <1>2, BurnStep
<1>3. ASSUME NEW sender \in Account, NEW items \in Batches, Call(sender, items)
      PROVE  IInv'
  BY <1>3, CallStep
<1>4. ASSUME NEW t \in TokenId, SetTokenRoyalty(t)
      PROVE  IInv'
  BY <1>4, SetTokenRoyaltyStep
<1>5. CASE ProcessItem
  BY <1>5, ProcessItemStep
<1>6. CASE ReceiverReturns
  BY <1>6, ReceiverReturnsStep
<1>7. CASE ItemReverts \/ ReceiverReverts
  BY <1>7, PopStep DEF ItemReverts, ReceiverReverts, Reverts, Running
<1>8. CASE CallEnds
  BY <1>8, PopStep DEF CallEnds, Running
<1>9. CASE UNCHANGED vars
  BY <1>9, SameFrames DEF vars, IInv
<1>10. QED BY <1>1, <1>2, <1>3, <1>4, <1>5, <1>6, <1>7, <1>8, <1>9 DEF Next
-----------------------------------------------------------------------------
(***************************************************************************)
(* What holds in every reachable state.                                    *)
(***************************************************************************)
LEMMA InductiveInvariant == Spec => []IInv
<1>1. Init => IInv
  BY InitEstablishes
<1>2. IInv /\ [Next]_vars => IInv'
  BY NextPreserves
<1>3. QED BY <1>1, <1>2, PTL DEF Spec

LEMMA InvariantImpliesType == IInv => TypeOK
<1> SUFFICES ASSUME IInv PROVE TypeOK
  OBVIOUS
<1>1. Storage.nft = nft /\ Storage.royalty = royalty /\ Storage.burns = burns
  BY DEF Storage
<1>2. IsContractState(Storage)
  BY <1>1, Zenon DEF IInv, GoodState, IsContractState
<1>3. \A i \in 1 .. Len(frames) : IsContractState(frames[i].saved)
  BY Zenon DEF IInv, GoodFrame, GoodState, IsContractState
<1>4. Len(frames) \in Nat
  BY LenProperties DEF IInv, IsStack
<1>5. \A i \in 1 .. Len(frames) : i < Len(frames) => frames[i].waiting
  BY <1>4 DEF IInv
<1>6. QED BY <1>2, <1>3, <1>5 DEF TypeOK, IInv, GoodFrame

\* The contract's variables and the state every call under way would restore stay in
\* their types, and every call but the innermost waits for a receiver.
THEOREM TypeCorrect == Spec => []TypeOK
BY InductiveInvariant, InvariantImpliesType, PTL

\* After any mixture of single calls, batches, receivers that call back, burns and
\* reverts, the lists that the views read agree with the owners.
THEOREM EnumerationCorrect == Spec => []EnumerationIsConsistent
<1>1. IInv => EnumerationIsConsistent
  BY DEF IInv, GoodState, EnumerationIsConsistent
<1>2. QED BY <1>1, InductiveInvariant, PTL

\* No token has the royalty of an earlier life, whatever is burned in the middle of
\* a batch and whatever a revert brings back.
THEOREM RoyaltyCorrect == Spec => []RoyaltyDiesWithToken
<1>1. IInv => RoyaltyDiesWithToken
  BY DEF IInv, GoodState, RoyaltyDiesWithToken
<1>2. QED BY <1>1, InductiveInvariant, PTL
-----------------------------------------------------------------------------
(***************************************************************************)
(* Consent.  In the middle of a transaction the owners differ from those   *)
(* before it, and so may the owners a revert would restore.  Whoever is    *)
(* named in the transaction stays named until it ends, and a call is named *)
(* for all of its items at once, before any of them moves: so each         *)
(* difference is covered when the outermost call ends.                     *)
(***************************************************************************)
MayTake(a, owner) == a = owner \/ <<owner, a>> \in Operator

Consented(owners, before, names) ==
    \A t \in TokenId : before[t] # Nobody /\ owners[t] # before[t] =>
        \E a \in Account : <<a, t>> \in names /\ MayTake(a, before[t])

ItemsNamed(f, names) == \A i \in 1 .. Len(f.items) : <<f.sender, f.items[i].token>> \in names

Covered(fs, owners, names) ==
    fs # << >> =>
        /\ Consented(owners, fs[1].saved.nft.owners, names)
        /\ \A i \in 1 .. Len(fs) :
              /\ Consented(fs[i].saved.nft.owners, fs[1].saved.nft.owners, names)
              /\ ItemsNamed(fs[i], names)

ConsentInv == IInv /\ Covered(frames, nft.owners, named)

\* What TokensMoveWithConsent says of a step.
MovesWithConsent ==
    \A t \in TokenId :
       LET owner == Committed.nft.owners[t]
       IN owner # Nobody /\ Committed'.nft.owners[t] # owner =>
             \E sender \in Account :
                 CallsFor(sender, t) /\ (sender = owner \/ <<owner, sender>> \in Operator)

LEMMA CoveredNext ==
    ASSUME IInv', Covered(frames', nft'.owners, named')
    PROVE  ConsentInv'
BY DEF ConsentInv, Covered, Consented, ItemsNamed, MayTake

LEMMA NamesGrow ==
    ASSUME NEW names, NEW more, names \subseteq more
    PROVE  /\ \A owners, before : Consented(owners, before, names)
                                     => Consented(owners, before, more)
           /\ \A f : ItemsNamed(f, names) => ItemsNamed(f, more)
BY DEF Consented, ItemsNamed

\* A token that somebody who may take it is named for is given away.
LEMMA GivenWithConsent ==
    ASSUME NEW n, NEW m, NEW t \in TokenId, NEW to, GivenTo(n, m, t, to),
           NEW before, NEW names, Consented(n.owners, before, names),
           NEW sender \in Account, <<sender, t>> \in names,
           n.owners[t] = Nobody \/ MayTake(sender, n.owners[t])
    PROVE  Consented(m.owners, before, names)
<1> SUFFICES ASSUME NEW u \in TokenId, before[u] # Nobody, m.owners[u] # before[u]
             PROVE  \E a \in Account : <<a, u>> \in names /\ MayTake(a, before[u])
  BY DEF Consented
<1>1. CASE n.owners[u] # before[u]
  BY <1>1 DEF Consented
<1>2. CASE n.owners[u] = before[u]
  <2>1. u = t
    BY <1>2 DEF GivenTo
  <2>2. QED BY <1>2, <2>1
<1>3. QED BY <1>1, <1>2

\* A step that an observer of finished transactions does not see.
LEMMA Unobserved == Committed'.nft.owners = Committed.nft.owners => MovesWithConsent
BY DEF MovesWithConsent

LEMMA CommittedFields ==
    /\ frames = << >> => Committed.nft = nft
    /\ frames # << >> => Committed.nft = frames[1].saved.nft
    /\ frames' = << >> => Committed'.nft = nft'
    /\ frames' # << >> => Committed'.nft = frames'[1].saved.nft
BY DEF Committed, Storage

\* A step in the middle of a transaction.
LEMMA InsideTransaction ==
    ASSUME frames # << >>, frames' # << >>, frames'[1].saved = frames[1].saved
    PROVE  MovesWithConsent
BY CommittedFields, Unobserved

\* A single call for one token, by an account that may take it.
LEMMA SingleCallStep ==
    ASSUME ConsentInv, IInv', UNCHANGED frames,
           NEW sender \in Account, NEW t \in TokenId, NEW to,
           IsApprovedOrOwner(sender, t), GivenTo(nft, nft', t, to),
           CallsFor(sender, t), Named(sender, {t})
    PROVE  ConsentInv' /\ MovesWithConsent
<1>1. MayTake(sender, nft.owners[t])
  BY DEF IsApprovedOrOwner, MayTake
<1>2. CASE frames = << >>
  <2>1. ConsentInv'
    BY <1>2, CoveredNext DEF Covered
  <2>2. Committed.nft = nft /\ Committed'.nft = nft'
    BY <1>2, CommittedFields
  <2>3. MovesWithConsent
    <3> SUFFICES ASSUME NEW u \in TokenId, nft.owners[u] # Nobody,
                        nft'.owners[u] # nft.owners[u]
                 PROVE  \E a \in Account : CallsFor(a, u) /\ MayTake(a, nft.owners[u])
      BY <2>2 DEF MovesWithConsent, MayTake
    <3>1. u = t
      BY DEF GivenTo
    <3>2. QED BY <1>1, <3>1
  <2>4. QED BY <2>1, <2>3
<1>3. CASE frames # << >>
  <2>1. named' = named \cup {<<sender, u>> : u \in {t}}
    BY <1>3 DEF Named
  <2>2. named \subseteq named' /\ <<sender, t>> \in named'
    BY <2>1
  <2>3. PICK before : before = frames[1].saved.nft.owners
    OBVIOUS
  <2>4. Consented(nft.owners, before, named')
    BY <1>3, <2>2, <2>3, NamesGrow DEF ConsentInv, Covered
  <2>5. Consented(nft'.owners, before, named')
    BY <1>1, <2>2, <2>4, GivenWithConsent
  <2>6. Covered(frames', nft'.owners, named')
    <3>1. \A i \in 1 .. Len(frames) : /\ Consented(frames[i].saved.nft.owners, before, named)
                                      /\ ItemsNamed(frames[i], named)
      BY <1>3, <2>3 DEF ConsentInv, Covered
    <3>2. \A i \in 1 .. Len(frames) : /\ Consented(frames[i].saved.nft.owners, before, named')
                                      /\ ItemsNamed(frames[i], named')
      BY <2>2, <3>1, NamesGrow
    <3>3. QED BY <2>3, <2>5, <3>2 DEF Covered
  <2>7. ConsentInv'
    BY <2>6, CoveredNext
  <2>8. QED BY <1>3, <2>7, InsideTransaction
<1>4. QED BY <1>2, <1>3

LEMMA CallConsent ==
    ASSUME ConsentInv, IInv', NEW sender \in Account, NEW items \in Batches,
           Call(sender, items)
    PROVE  ConsentInv' /\ MovesWithConsent
<1> DEFINE n == Len(frames)
<1>1. PICK f : /\ f.sender = sender /\ f.items = items /\ f.saved.nft = nft
               /\ Pushed(frames, f, frames')
  BY CallPushes DEF ConsentInv
<1>2. /\ n \in Nat
      /\ Len(frames') = n + 1
      /\ \A i \in 1 .. n : frames'[i] = frames[i]
      /\ frames'[n + 1] = f
  BY <1>1 DEF Pushed
<1>3. frames' # << >>
  BY <1>2, EmptySeq
<1>4. named' = named \cup {<<sender, t>> : t \in {items[i].token : i \in DOMAIN items}}
  BY <1>3 DEF Call, Named
<1>5. named \subseteq named' /\ ItemsNamed(f, named')
  <2>1. DOMAIN items = 1 .. Len(items)
    BY BatchIsSequence
  <2>2. \A i \in 1 .. Len(items) : <<sender, items[i].token>> \in named'
    BY <1>4, <2>1
  <2>3. QED BY <1>1, <1>4, <2>2 DEF ItemsNamed
<1>6. nft' = nft
  BY DEF Call
<1>7. \A i \in 1 .. n + 1 : i \in 1 .. n \/ i = n + 1
  BY <1>2
<1>8. CASE frames = << >>
  <2>1. n = 0
    BY <1>8, EmptySeq
  <2>2. frames'[1].saved.nft = nft
    BY <1>1, <1>2, <2>1
  <2>3. Consented(nft.owners, nft.owners, named')
    BY DEF Consented
  <2>4. Covered(frames', nft'.owners, named')
    BY <1>1, <1>2, <1>5, <1>6, <2>1, <2>2, <2>3 DEF Covered
  <2>5. Committed'.nft = Committed.nft
    BY <1>3, <1>8, <2>2, CommittedFields
  <2>6. QED BY <2>4, <2>5, CoveredNext, Unobserved
<1>9. CASE frames # << >>
  <2>1. n # 0
    BY <1>9, EmptySeq, Zenon DEF ConsentInv, IInv, IsStack
  <2>2. frames'[1] = frames[1]
    BY <1>2, <2>1
  <2>3. PICK before : before = frames[1].saved.nft.owners
    OBVIOUS
  <2>4. /\ Consented(nft.owners, before, named')
        /\ \A i \in 1 .. n : /\ Consented(frames[i].saved.nft.owners, before, named')
                              /\ ItemsNamed(frames[i], named')
    BY <1>5, <1>9, <2>3, NamesGrow DEF ConsentInv, Covered
  <2>5. \A i \in 1 .. n + 1 : /\ Consented(frames'[i].saved.nft.owners, before, named')
                               /\ ItemsNamed(frames'[i], named')
    BY <1>1, <1>2, <1>5, <1>7, <2>4
  <2>6. Covered(frames', nft'.owners, named')
    BY <1>2, <1>6, <2>2, <2>3, <2>4, <2>5 DEF Covered
  <2>7. QED BY <1>3, <1>9, <2>2, <2>6, CoveredNext, InsideTransaction
<1>10. QED BY <1>8, <1>9

\* A step of the innermost call that leaves it under way.
LEMMA ChangedCovers ==
    ASSUME ConsentInv, IInv', frames # << >>, UNCHANGED named, NEW g,
           Changed(frames, g, frames'), g.saved = Innermost.saved, ItemsNamed(g, named),
           Consented(nft'.owners, frames[1].saved.nft.owners, named)
    PROVE  ConsentInv' /\ MovesWithConsent
<1> DEFINE n == Len(frames)
<1>1. /\ n \in Nat \ {0}
      /\ Len(frames') = n
      /\ \A i \in 1 .. n - 1 : frames'[i] = frames[i]
      /\ frames'[n] = g
  BY DEF Changed
<1>2. frames' # << >>
  BY <1>1, EmptySeq
<1>3. \A i \in 1 .. n : frames'[i].saved = frames[i].saved /\ ItemsNamed(frames'[i], named)
  <2> SUFFICES ASSUME NEW i \in 1 .. n
               PROVE  frames'[i].saved = frames[i].saved /\ ItemsNamed(frames'[i], named)
    OBVIOUS
  <2>1. CASE i = n
    BY <1>1, <2>1 DEF Innermost
  <2>2. CASE i # n
    <3>1. frames'[i] = frames[i]
      BY <1>1, <2>2
    <3>2. QED BY <3>1 DEF ConsentInv, Covered
  <2>3. QED BY <2>1, <2>2
<1>4. frames'[1].saved = frames[1].saved
  BY <1>1, <1>3
<1>5. Covered(frames', nft'.owners, named')
  BY <1>1, <1>3, <1>4 DEF ConsentInv, Covered
<1>6. QED BY <1>2, <1>4, <1>5, CoveredNext, InsideTransaction

LEMMA ProcessItemConsent ==
    ASSUME ConsentInv, IInv', ProcessItem
    PROVE  ConsentInv' /\ MovesWithConsent
<1> DEFINE item == Head(Innermost.items)
           f    == Innermost
<1>1. IInv /\ frames # << >> /\ f.items # << >>
  BY DEF ConsentInv, ProcessItem, Running
<1>2. GoodFrame(f) /\ Len(frames) \in Nat \ {0}
  BY <1>1, InnermostIsGood
<1>3. /\ item \in Item
      /\ May(f.sender, item)
      /\ GivenTo(nft, nft', item.token, item.to)
  BY <1>1, ItemProcessed
<1>4. PICK g : /\ g.sender = f.sender
               /\ g.items = Tail(f.items)
               /\ g.saved = f.saved
               /\ Changed(frames, g, frames')
  BY <1>1, ItemProcessed
<1>5. ItemsNamed(f, named)
  BY <1>1, <1>2 DEF ConsentInv, Covered, Innermost
<1>6. f.items \in Seq(Item) /\ f.sender \in Account
  BY <1>2 DEF GoodFrame
<1>7. /\ item = f.items[1]
      /\ Len(f.items) \in Nat \ {0}
      /\ Len(Tail(f.items)) = Len(f.items) - 1
      /\ \A i \in 1 .. Len(Tail(f.items)) : Tail(f.items)[i] = f.items[i + 1]
  BY <1>1, <1>6, HeadIsItem
<1>8. <<f.sender, item.token>> \in named
  BY <1>5, <1>7 DEF ItemsNamed
<1>9. ItemsNamed(g, named)
  <2> SUFFICES ASSUME NEW i \in 1 .. Len(Tail(f.items))
               PROVE  <<f.sender, Tail(f.items)[i].token>> \in named
    BY <1>4 DEF ItemsNamed
  <2>1. i + 1 \in 1 .. Len(f.items) /\ Tail(f.items)[i] = f.items[i + 1]
    BY <1>7
  <2>2. QED BY <1>5, <2>1 DEF ItemsNamed
<1>10. item.token \in TokenId
  BY <1>3 DEF Item
<1>11. nft.owners[item.token] = Nobody \/ MayTake(f.sender, nft.owners[item.token])
  BY <1>3 DEF May, Exists, IsApprovedOrOwner, MayTake
<1>12. PICK before : before = frames[1].saved.nft.owners
  OBVIOUS
<1>13. Consented(nft.owners, before, named)
  BY <1>1, <1>12 DEF ConsentInv, Covered
<1>14. Consented(nft'.owners, before, named)
  <2> HIDE DEF item, f
  <2>1. QED BY <1>3, <1>6, <1>8, <1>10, <1>11, <1>13, GivenWithConsent
<1>15. UNCHANGED named
  BY DEF ProcessItem
<1>16. QED BY <1>1, <1>4, <1>9, <1>12, <1>14, <1>15, ChangedCovers

LEMMA ReceiverReturnsConsent ==
    ASSUME ConsentInv, IInv', ReceiverReturns
    PROVE  ConsentInv' /\ MovesWithConsent
<1>1. IInv /\ frames # << >> /\ UNCHANGED <<nft, named>>
  BY DEF ConsentInv, ReceiverReturns
<1>2. PICK g : /\ g.sender = Innermost.sender
               /\ g.items = Innermost.items
               /\ g.saved = Innermost.saved
               /\ Changed(frames, g, frames')
  BY <1>1, ReturnChanges
<1>3. ItemsNamed(Innermost, named)
  BY <1>1, InnermostIsGood DEF ConsentInv, Covered, Innermost
<1>4. ItemsNamed(g, named)
  BY <1>2, <1>3 DEF ItemsNamed
<1>5. Consented(nft'.owners, frames[1].saved.nft.owners, named)
  BY <1>1 DEF ConsentInv, Covered
<1>6. QED BY <1>1, <1>2, <1>4, <1>5, ChangedCovers

\* The end of a call commits the owners if it is the outermost one.
LEMMA PopConsent ==
    ASSUME ConsentInv, IInv', frames # << >>, frames' = CallerFrames,
           named' = IF CallerFrames = << >> THEN {} ELSE named,
           \/ nft' = nft
           \/ nft' = Innermost.saved.nft
    PROVE  ConsentInv' /\ MovesWithConsent
<1> DEFINE n == Len(frames)
<1>1. /\ n \in Nat \ {0}
      /\ IsStack(frames')
      /\ Len(frames') = n - 1
      /\ \A i \in 1 .. n - 1 : frames'[i] = frames[i]
  BY PoppedFrame DEF ConsentInv, IInv, CallerFrames
<1>2. PICK before : before = frames[1].saved.nft.owners
  OBVIOUS
<1>3. Consented(nft'.owners, before, named)
  BY <1>1, <1>2 DEF ConsentInv, Covered, Innermost
<1>4. CASE frames' = << >>
  <2>1. ConsentInv'
    BY <1>4, CoveredNext DEF Covered
  <2>2. Committed.nft.owners = before /\ Committed'.nft.owners = nft'.owners
    BY <1>2, <1>4, CommittedFields
  <2>3. MovesWithConsent
    BY <1>3, <2>2 DEF MovesWithConsent, Consented, MayTake, CallsFor
  <2>4. QED BY <2>1, <2>3
<1>5. CASE frames' # << >>
  <2>1. n - 1 # 0
    BY <1>1, <1>5, EmptySeq, Zenon DEF IsStack
  <2>2. frames'[1] = frames[1] /\ named' = named
    BY <1>1, <1>5, <2>1
  <2>3. Covered(frames', nft'.owners, named')
    <3>1. \A i \in 1 .. Len(frames') : i \in 1 .. n /\ frames'[i] = frames[i]
      BY <1>1
    <3>2. QED BY <1>2, <1>3, <2>2, <3>1 DEF ConsentInv, Covered
  <2>4. QED BY <1>5, <2>2, <2>3, CoveredNext, InsideTransaction
<1>6. QED BY <1>4, <1>5

\* A step that leaves the tokens and the calls alone.
LEMMA NothingMoves ==
    ASSUME ConsentInv, IInv', UNCHANGED <<nft, frames, named>>
    PROVE  ConsentInv' /\ MovesWithConsent
<1>1. ConsentInv'
  BY CoveredNext DEF ConsentInv
<1>2. Committed'.nft = Committed.nft
  BY CommittedFields
<1>3. QED BY <1>1, <1>2, Unobserved

LEMMA ConsentStep == ConsentInv /\ [Next]_vars => ConsentInv' /\ MovesWithConsent
<1> SUFFICES ASSUME ConsentInv, [Next]_vars PROVE ConsentInv' /\ MovesWithConsent
  OBVIOUS
<1>1. IInv /\ IInv'
  BY NextPreserves DEF ConsentInv
<1>2. ASSUME NEW sender \in Account, NEW to \in Account, NEW t \in TokenId,
             TransferFrom(sender, to, t)
      PROVE  ConsentInv' /\ MovesWithConsent
  <2>1. GivenTo(nft, nft', t, to)
    BY <1>1, <1>2, TransferFromStep
  <2>2. IsApprovedOrOwner(sender, t) /\ UNCHANGED frames /\ Named(sender, {t})
    BY <1>2 DEF TransferFrom
  <2>3. CallsFor(sender, t)
    BY <1>2 DEF CallsFor
  <2>4. QED BY <1>1, <2>1, <2>2, <2>3, SingleCallStep
<1>3. ASSUME NEW sender \in Account, NEW t \in TokenId, Burn(sender, t)
      PROVE  ConsentInv' /\ MovesWithConsent
  <2>1. GivenTo(nft, nft', t, Nobody)
    BY <1>1, <1>3, BurnStep
  <2>2. IsApprovedOrOwner(sender, t) /\ UNCHANGED frames /\ Named(sender, {t})
    BY <1>3 DEF Burn
  <2>3. CallsFor(sender, t)
    BY <1>3 DEF CallsFor
  <2>4. QED BY <1>1, <2>1, <2>2, <2>3, SingleCallStep
<1>4. ASSUME NEW sender \in Account, NEW items \in Batches, Call(sender, items)
      PROVE  ConsentInv' /\ MovesWithConsent
  BY <1>1, <1>4, CallConsent
<1>5. ASSUME NEW t \in TokenId, SetTokenRoyalty(t)
      PROVE  ConsentInv' /\ MovesWithConsent
  BY <1>1, <1>5, NothingMoves DEF SetTokenRoyalty
<1>6. CASE ProcessItem
  BY <1>1, <1>6, ProcessItemConsent
<1>7. CASE ReceiverReturns
  BY <1>1, <1>7, ReceiverReturnsConsent
<1>8. CASE ItemReverts \/ ReceiverReverts
  BY <1>1, <1>8, PopConsent DEF ItemReverts, ReceiverReverts, Reverts, Running
<1>9. CASE CallEnds
  BY <1>1, <1>9, PopConsent DEF CallEnds, Running
<1>10. CASE UNCHANGED vars
  BY <1>1, <1>10, NothingMoves DEF vars
<1>11. QED BY <1>2, <1>3, <1>4, <1>5, <1>6, <1>7, <1>8, <1>9, <1>10 DEF Next

LEMMA ConsentInitially == Init => ConsentInv
BY InitEstablishes DEF Init, ConsentInv, Covered

\* No finished transaction takes a token from an owner unless, in that transaction,
\* the owner or one of the owner's operators has called for that very token: not by
\* nesting batches in receivers, and not by reverting some of them.
THEOREM ConsentCorrect == Spec => TokensMoveWithConsent
<1>1. Init => ConsentInv
  BY ConsentInitially
<1>2. ConsentInv /\ [Next]_vars => ConsentInv' /\ MovesWithConsent
  BY ConsentStep
<1>3. Spec => [][MovesWithConsent]_vars
  BY <1>1, <1>2, PTL DEF Spec
<1>4. QED BY <1>3 DEF TokensMoveWithConsent, MovesWithConsent
=============================================================================
