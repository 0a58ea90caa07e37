----------------------- MODULE ERC721Enumerable_proofs -----------------------
(***************************************************************************)
(* The operations on the token storage keep its lists consistent with the  *)
(* owners, for any accounts and token ids.  The contracts that inherit the *)
(* storage cite MintedIsConsistent, TransferredIsConsistent and            *)
(* BurnedIsConsistent, and what the last section says of call stacks.      *)
(***************************************************************************)
EXTENDS ERC721Enumerable, SequenceTheorems, TLAPS

\* A function on 1 .. n is a sequence.
LEMMA FunctionIsSequence ==
    ASSUME NEW T, NEW n \in Nat, NEW f \in [1 .. n -> T]
    PROVE  f \in Seq(T) /\ Len(f) = n
<1>1. f \in Seq(T)
  BY SeqDef, Zenon
<1>2. Len(f) \in Nat /\ DOMAIN f = 1 .. Len(f) /\ DOMAIN f = 1 .. n
  BY <1>1, LenProperties
<1>3. Len(f) = n
  BY <1>2
<1>4. QED BY <1>1, <1>3

\* The empty storage of a contract that was just deployed is well formed and
\* consistent.
LEMMA EmptyStorageIsConsistent == IsStorage(EmptyStorage) /\ Consistent(EmptyStorage)
<1>1. IsStorage(EmptyStorage)
  BY DEF IsStorage, EmptyStorage
<1>2. Consistent(EmptyStorage)
  BY AccountAssumption DEF EmptyStorage, Consistent, ListsAreCompact, ListsAreSound,
     ListsAreComplete, AllTokensIsSound, AllTokensIsComplete, Exists
<1>3. QED BY <1>1, <1>2
-----------------------------------------------------------------------------
(***************************************************************************)
(* The record updates, field by field.                                     *)
(***************************************************************************)
Shaped(s) == s = [ owners           |-> s.owners,
                   balances         |-> s.balances,
                   ownedTokens      |-> s.ownedTokens,
                   ownedTokensIndex |-> s.ownedTokensIndex,
                   allTokens        |-> s.allTokens,
                   allTokensIndex   |-> s.allTokensIndex ]

\* Writing the list of one owner and the index of the owned tokens touches
\* nothing else.
LEMMA WithOwnerListsForm ==
    ASSUME NEW s, Shaped(s), NEW a, NEW list, NEW index
    PROVE  WithOwnerLists(s, a, list, index)
             = [ owners           |-> s.owners,
                 balances         |-> s.balances,
                 ownedTokens      |-> [s.ownedTokens EXCEPT ![a] = list],
                 ownedTokensIndex |-> index,
                 allTokens        |-> s.allTokens,
                 allTokensIndex   |-> s.allTokensIndex ]
<1>1. WithOwnerLists(s, a, list, index) = [[s EXCEPT !.ownedTokens[a] = list] EXCEPT !.ownedTokensIndex = index]
  BY Zenon DEF WithOwnerLists
<1>2. PICK m : m = [s EXCEPT !.ownedTokens[a] = list]
  OBVIOUS
<1>3. m = [ owners           |-> s.owners,
            balances         |-> s.balances,
            ownedTokens      |-> [s.ownedTokens EXCEPT ![a] = list],
            ownedTokensIndex |-> s.ownedTokensIndex,
            allTokens        |-> s.allTokens,
            allTokensIndex   |-> s.allTokensIndex ]
  BY <1>2, SMT DEF Shaped
<1>4. [m EXCEPT !.ownedTokensIndex = index]
        = [ owners           |-> s.owners,
            balances         |-> s.balances,
            ownedTokens      |-> [s.ownedTokens EXCEPT ![a] = list],
            ownedTokensIndex |-> index,
            allTokens        |-> s.allTokens,
            allTokensIndex   |-> s.allTokensIndex ]
  BY <1>3, SMT
<1>5. QED BY <1>1, <1>2, <1>4, Zenon

\* Writing the list of all tokens and its index touches nothing else.
LEMMA WithAllTokensForm ==
    ASSUME NEW s, Shaped(s), NEW list, NEW index
    PROVE  WithAllTokens(s, list, index)
             = [ owners           |-> s.owners,
                 balances         |-> s.balances,
                 ownedTokens      |-> s.ownedTokens,
                 ownedTokensIndex |-> s.ownedTokensIndex,
                 allTokens        |-> list,
                 allTokensIndex   |-> index ]
<1>1. WithAllTokens(s, list, index) = [[s EXCEPT !.allTokens = list] EXCEPT !.allTokensIndex = index]
  BY Zenon DEF WithAllTokens
<1>2. PICK m : m = [s EXCEPT !.allTokens = list]
  OBVIOUS
<1>3. m = [ owners           |-> s.owners,
            balances         |-> s.balances,
            ownedTokens      |-> s.ownedTokens,
            ownedTokensIndex |-> s.ownedTokensIndex,
            allTokens        |-> list,
            allTokensIndex   |-> s.allTokensIndex ]
  BY <1>2, SMT DEF Shaped
<1>4. [m EXCEPT !.allTokensIndex = index]
        = [ owners           |-> s.owners,
            balances         |-> s.balances,
            ownedTokens      |-> s.ownedTokens,
            ownedTokensIndex |-> s.ownedTokensIndex,
            allTokens        |-> list,
            allTokensIndex   |-> index ]
  BY <1>3, SMT
<1>5. QED BY <1>1, <1>2, <1>4, Zenon

\* Writing the owner of a token and the balances touches nothing else.
LEMMA WithOwnerForm ==
    ASSUME NEW s, Shaped(s), NEW t, NEW to, NEW balances
    PROVE  WithOwner(s, t, to, balances)
             = [ owners           |-> [s.owners EXCEPT ![t] = to],
                 balances         |-> balances,
                 ownedTokens      |-> s.ownedTokens,
                 ownedTokensIndex |-> s.ownedTokensIndex,
                 allTokens        |-> s.allTokens,
                 allTokensIndex   |-> s.allTokensIndex ]
<1>1. WithOwner(s, t, to, balances) = [[s EXCEPT !.balances = balances] EXCEPT !.owners[t] = to]
  BY Zenon DEF WithOwner
<1>2. PICK m : m = [s EXCEPT !.balances = balances]
  OBVIOUS
<1>3. m = [ owners           |-> s.owners,
            balances         |-> balances,
            ownedTokens      |-> s.ownedTokens,
            ownedTokensIndex |-> s.ownedTokensIndex,
            allTokens        |-> s.allTokens,
            allTokensIndex   |-> s.allTokensIndex ]
  BY <1>2, SMT DEF Shaped
<1>4. [m EXCEPT !.owners[t] = to]
        = [ owners           |-> [s.owners EXCEPT ![t] = to],
            balances         |-> balances,
            ownedTokens      |-> s.ownedTokens,
            ownedTokensIndex |-> s.ownedTokensIndex,
            allTokens        |-> s.allTokens,
            allTokensIndex   |-> s.allTokensIndex ]
  BY <1>3, SMT
<1>5. QED BY <1>1, <1>2, <1>4, Zenon
-----------------------------------------------------------------------------
(***************************************************************************)
(* The list functions, field by field.                                     *)
(***************************************************************************)

\* m is s with t appended to the list of its new owner.
OwnerAdded(s, m, to, t) ==
    /\ m.owners = s.owners
    /\ m.balances = s.balances
    /\ \A a \in Account : a # to => m.ownedTokens[a] = s.ownedTokens[a]
    /\ m.ownedTokens[to] =
         [i \in DOMAIN s.ownedTokens[to] \cup {s.balances[to]} |->
            IF i = s.balances[to] THEN t ELSE s.ownedTokens[to][i]]
    /\ m.ownedTokensIndex = [s.ownedTokensIndex EXCEPT ![t] = s.balances[to]]
    /\ m.allTokens = s.allTokens
    /\ m.allTokensIndex = s.allTokensIndex

\* _addTokenToOwnerEnumeration writes one slot and one index.
LEMMA AddOwnerFields ==
    ASSUME NEW s, IsStorage(s), NEW to \in Account, NEW t \in TokenId,
           NEW m, m = AddTokenToOwnerEnumeration(s, to, t)
    PROVE  IsStorage(m) /\ OwnerAdded(s, m, to, t)
<1> DEFINE new == [i \in DOMAIN s.ownedTokens[to] \cup {s.balances[to]} |->
                      IF i = s.balances[to] THEN t ELSE s.ownedTokens[to][i]]
           newIndex == [s.ownedTokensIndex EXCEPT ![t] = s.balances[to]]
<1>1. s.balances[to] \in Int /\ Shaped(s)
  BY DEF IsStorage, Shaped
<1>2. m = WithOwnerLists(s, to, new, newIndex)
  BY Zenon DEF AddTokenToOwnerEnumeration
<1>3. new = [i \in DOMAIN new |-> new[i]] /\ newIndex \in [TokenId -> Int]
  BY <1>1 DEF IsStorage
<1> HIDE DEF new, newIndex
<1>4. m = [ owners           |-> s.owners,
            balances         |-> s.balances,
            ownedTokens      |-> [s.ownedTokens EXCEPT ![to] = new],
            ownedTokensIndex |-> newIndex,
            allTokens        |-> s.allTokens,
            allTokensIndex   |-> s.allTokensIndex ]
  BY <1>1, <1>2, WithOwnerListsForm
<1>5. \A a \in Account : a # to => m.ownedTokens[a] = s.ownedTokens[a]
  BY <1>4 DEF IsStorage
<1>6. m.ownedTokens[to] = new
  BY <1>4 DEF IsStorage
<1>7. IsStorage(m)
  BY <1>3, <1>4 DEF IsStorage
<1>8. QED BY <1>4, <1>5, <1>6, <1>7 DEF new, newIndex, OwnerAdded

\* m is s with t appended to the list of all tokens.
AllAdded(s, m, t) ==
    /\ m.owners = s.owners
    /\ m.balances = s.balances
    /\ m.ownedTokens = s.ownedTokens
    /\ m.ownedTokensIndex = s.ownedTokensIndex
    /\ m.allTokens = Append(s.allTokens, t)
    /\ m.allTokensIndex = [s.allTokensIndex EXCEPT ![t] = Len(s.allTokens)]

\* _addTokenToAllTokensEnumeration appends to the list of all tokens.
LEMMA AddAllFields ==
    ASSUME NEW s, IsStorage(s), NEW t \in TokenId,
           NEW m, m = AddTokenToAllTokensEnumeration(s, t)
    PROVE  IsStorage(m) /\ AllAdded(s, m, t)
<1> DEFINE newIndex == [s.allTokensIndex EXCEPT ![t] = Len(s.allTokens)]
           newList  == Append(s.allTokens, t)
<1>1. Shaped(s)
  BY DEF IsStorage, Shaped
<1>2. m = WithAllTokens(s, newList, newIndex)
  BY Zenon DEF AddTokenToAllTokensEnumeration
<1>3. newIndex \in [TokenId -> Int] /\ newList \in Seq(TokenId)
  BY DEF IsStorage
<1> HIDE DEF newIndex, newList
<1>4. m = [ owners           |-> s.owners,
            balances         |-> s.balances,
            ownedTokens      |-> s.ownedTokens,
            ownedTokensIndex |-> s.ownedTokensIndex,
            allTokens        |-> newList,
            allTokensIndex   |-> newIndex ]
  BY <1>1, <1>2, WithAllTokensForm
<1>5. IsStorage(m)
  BY <1>3, <1>4 DEF IsStorage
<1>6. QED BY <1>4, <1>5 DEF newIndex, newList, AllAdded

\* m is s with t taken from slot index of its owner's list, where the token moved
\* of the last slot now is.
OwnerRemoved(s, m, from, t, last, index, moved) ==
    /\ last \in Nat /\ index \in 0 .. last /\ moved \in TokenId
    /\ m.owners = s.owners
    /\ m.balances = s.balances
    /\ \A a \in Account : a # from => m.ownedTokens[a] = s.ownedTokens[a]
    /\ m.ownedTokens[from] =
         [i \in 0 .. last - 1 |-> IF i = index THEN moved
                                  ELSE s.ownedTokens[from][i]]
    /\ m.ownedTokensIndex =
         [u \in TokenId |-> IF u = t THEN 0
                            ELSE IF u = moved THEN index
                            ELSE s.ownedTokensIndex[u]]
    /\ m.allTokens = s.allTokens
    /\ m.allTokensIndex = s.allTokensIndex

\* _removeTokenFromOwnerEnumeration moves the last token of the list into the
\* slot that becomes free, and deletes the last slot.
LEMMA RemoveOwnerFields ==
    ASSUME NEW s, IsStorage(s), Consistent(s),
           NEW from \in Account, NEW t \in TokenId, s.owners[t] = from,
           NEW last, last = s.balances[from] - 1,
           NEW index, index = s.ownedTokensIndex[t],
           NEW moved, moved = s.ownedTokens[from][last],
           NEW m, m = RemoveTokenFromOwnerEnumeration(s, from, t)
    PROVE  IsStorage(m) /\ OwnerRemoved(s, m, from, t, last, index, moved)
<1> DEFINE new   == [i \in 0 .. last - 1 |-> IF i = index THEN moved
                                             ELSE s.ownedTokens[from][i]]
           newIndex == [u \in TokenId |-> IF u = t THEN 0
                                          ELSE IF u = moved THEN index
                                          ELSE s.ownedTokensIndex[u]]
<1>1. Shaped(s)
  BY DEF IsStorage, Shaped
<1>2. /\ s.balances[from] \in Nat
      /\ DOMAIN s.ownedTokens[from] = 0 .. last
      /\ index \in 0 .. last
      /\ s.ownedTokens[from][index] = t
  BY DEF Consistent, ListsAreCompact, ListsAreComplete
<1>3. last \in Nat /\ moved \in TokenId /\ s.ownedTokensIndex[moved] = last
  BY <1>2 DEF Consistent, ListsAreSound
<1>4. LastOf(s, from) = moved
  BY <1>2, <1>3 DEF SlotOf, LastOf
<1>5. ListWithout(s, from, t) = new
  <2>1. (DOMAIN s.ownedTokens[from] \cup {index}) \ {last} = 0 .. last - 1
    BY <1>2, <1>3
  <2>2. QED BY <2>1, <1>4 DEF ListWithout
<1>6. IndexWithout(s, from, t) = newIndex
  <2>1. \A u \in TokenId : (u = moved /\ index # last) \/ u # moved \/ u = t
    BY <1>2, <1>3
  <2>2. QED BY <2>1, <1>4 DEF IndexWithout
<1>7. /\ newIndex \in [TokenId -> Int]
      /\ new = [i \in DOMAIN new |-> new[i]]
  BY <1>2, <1>3 DEF IsStorage
<1> HIDE DEF new, newIndex
<1>8. m = WithOwnerLists(s, from, new, newIndex)
  BY <1>5, <1>6 DEF RemoveTokenFromOwnerEnumeration
<1>9. m = [ owners           |-> s.owners,
            balances         |-> s.balances,
            ownedTokens      |-> [s.ownedTokens EXCEPT ![from] = new],
            ownedTokensIndex |-> newIndex,
            allTokens        |-> s.allTokens,
            allTokensIndex   |-> s.allTokensIndex ]
  BY <1>1, <1>8, WithOwnerListsForm
<1>10. \A a \in Account : a # from => m.ownedTokens[a] = s.ownedTokens[a]
  BY <1>9 DEF IsStorage
<1>11. m.ownedTokens[from] = new
  BY <1>9 DEF IsStorage
<1>12. IsStorage(m)
  BY <1>7, <1>9 DEF IsStorage
<1>13. m.owners = s.owners /\ m.balances = s.balances /\ m.ownedTokensIndex = newIndex
       /\ m.allTokens = s.allTokens /\ m.allTokensIndex = s.allTokensIndex
  BY <1>9
<1>14. QED BY <1>2, <1>3, <1>10, <1>11, <1>12, <1>13, Zenon
        DEF new, newIndex, OwnerRemoved
-----------------------------------------------------------------------------
(***************************************************************************)
(* The operations.                                                         *)
(***************************************************************************)

\* m is s with t minted.
MintedFrom(s, m, to, t) ==
    /\ m.owners = [s.owners EXCEPT ![t] = to]
    /\ m.balances = [s.balances EXCEPT ![to] = @ + 1]
    /\ \A a \in Account : a # to => m.ownedTokens[a] = s.ownedTokens[a]
    /\ m.ownedTokens[to] =
         [i \in DOMAIN s.ownedTokens[to] \cup {s.balances[to]} |->
            IF i = s.balances[to] THEN t ELSE s.ownedTokens[to][i]]
    /\ m.ownedTokensIndex = [s.ownedTokensIndex EXCEPT ![t] = s.balances[to]]
    /\ m.allTokens = Append(s.allTokens, t)
    /\ m.allTokensIndex = [s.allTokensIndex EXCEPT ![t] = Len(s.allTokens)]

\* _mint: one more token for the receiver, at the end of both lists.
LEMMA MintedFields ==
    ASSUME NEW s, IsStorage(s), NEW to \in Account, NEW t \in TokenId,
           NEW m, m = Minted(s, to, t)
    PROVE  IsStorage(m) /\ MintedFrom(s, m, to, t)
<1>0. to # Nobody
  BY AccountAssumption
<1>1. PICK s1 : s1 = AddTokenToAllTokensEnumeration(s, t)
  OBVIOUS
<1>2. PICK s2 : s2 = AddTokenToOwnerEnumeration(s1, to, t)
  OBVIOUS
<1>3. IsStorage(s1) /\ AllAdded(s, s1, t)
  BY <1>1, AddAllFields
<1>4. IsStorage(s2) /\ OwnerAdded(s1, s2, to, t)
  BY <1>2, <1>3, AddOwnerFields
<1>5. BeforeTokenTransfer(s, Nobody, to, t) = s2
  BY <1>0, <1>1, <1>2, Zenon DEF BeforeTokenTransfer
<1>6. m = WithOwner(s2, t, to, [s2.balances EXCEPT ![to] = @ + 1])
  BY <1>5, Zenon DEF Minted
<1>7. Shaped(s2)
  BY <1>4 DEF IsStorage, Shaped
<1>8. m = [ owners           |-> [s2.owners EXCEPT ![t] = to],
            balances         |-> [s2.balances EXCEPT ![to] = @ + 1],
            ownedTokens      |-> s2.ownedTokens,
            ownedTokensIndex |-> s2.ownedTokensIndex,
            allTokens        |-> s2.allTokens,
            allTokensIndex   |-> s2.allTokensIndex ]
  BY <1>6, <1>7, WithOwnerForm
<1>9. IsStorage(m)
  BY <1>4, <1>8 DEF IsStorage
<1>10. MintedFrom(s, m, to, t)
  BY <1>3, <1>4, <1>8 DEF MintedFrom, AllAdded, OwnerAdded
<1>11. QED BY <1>9, <1>10

\* Minting a token that does not exist keeps the storage well formed and consistent.
LEMMA MintedIsConsistent ==
    ASSUME NEW s, IsStorage(s), Consistent(s),
           NEW to \in Account, NEW t \in TokenId, ~ Exists(s, t),
           NEW m, m = Minted(s, to, t)
    PROVE  IsStorage(m) /\ Consistent(m)
<1>0. to # Nobody
  BY AccountAssumption
<1>1. IsStorage(m) /\ MintedFrom(s, m, to, t)
  BY MintedFields
<1>2. \A a \in Account : /\ s.balances[a] \in Nat
                         /\ DOMAIN s.ownedTokens[a] = 0 .. s.balances[a] - 1
  BY DEF Consistent, ListsAreCompact
<1>3. \A a \in Account : /\ a # to => /\ m.balances[a] = s.balances[a]
                                      /\ m.ownedTokens[a] = s.ownedTokens[a]
                         /\ a = to => /\ m.balances[a] = s.balances[a] + 1
                                      /\ DOMAIN m.ownedTokens[a] = 0 .. s.balances[a]
                                      /\ \A i \in 0 .. s.balances[a] :
                                           m.ownedTokens[a][i] =
                                             IF i = s.balances[a] THEN t
                                             ELSE s.ownedTokens[a][i]
  <2> TAKE a \in Account
  <2>1. m.balances[a] = IF a = to THEN s.balances[a] + 1 ELSE s.balances[a]
    BY <1>1 DEF IsStorage, MintedFrom
  <2>2. CASE a = to
    <3>1. m.ownedTokens[a] = [i \in (0 .. s.balances[a] - 1) \cup {s.balances[a]} |->
                                IF i = s.balances[a] THEN t ELSE s.ownedTokens[a][i]]
      BY <2>2, <1>1, <1>2 DEF MintedFrom
    <3>2. (0 .. s.balances[a] - 1) \cup {s.balances[a]} = 0 .. s.balances[a]
      BY <1>2
    <3>3. m.ownedTokens[a] = [i \in 0 .. s.balances[a] |->
                                IF i = s.balances[a] THEN t ELSE s.ownedTokens[a][i]]
      BY <3>1, <3>2
    <3>4. QED BY <2>1, <2>2, <3>3
  <2>3. CASE a # to
    BY <2>1, <2>3, <1>1 DEF MintedFrom
  <2>4. QED BY <2>2, <2>3
<1>4. \A u \in TokenId : /\ m.owners[u] = IF u = t THEN to ELSE s.owners[u]
                         /\ m.ownedTokensIndex[u] = IF u = t THEN s.balances[to]
                                                    ELSE s.ownedTokensIndex[u]
  BY <1>1 DEF IsStorage, MintedFrom
<1>5. ListsAreCompact(m)
  <2> SUFFICES ASSUME NEW a \in Account
               PROVE  /\ m.balances[a] \in Nat
                      /\ DOMAIN m.ownedTokens[a] = 0 .. m.balances[a] - 1
    BY DEF ListsAreCompact
  <2>1. CASE a = to
    BY <2>1, <1>2, <1>3
  <2>2. CASE a # to
    BY <2>2, <1>2, <1>3
  <2>3. QED BY <2>1, <2>2
<1>6. ListsAreSound(m)
  <2> SUFFICES ASSUME NEW a \in Account, NEW i \in 0 .. m.balances[a] - 1,
                      NEW u, u = m.ownedTokens[a][i]
               PROVE  u \in TokenId /\ m.owners[u] = a /\ m.ownedTokensIndex[u] = i
    BY DEF ListsAreSound
  <2>1. CASE a = to /\ i = s.balances[to]
    BY <2>1, <1>2, <1>3, <1>4
  <2>2. CASE ~ (a = to /\ i = s.balances[to])
    <3>1. i \in 0 .. s.balances[a] - 1 /\ u = s.ownedTokens[a][i]
      BY <2>2, <1>2, <1>3
    <3>2. u \in TokenId /\ s.owners[u] = a /\ s.ownedTokensIndex[u] = i
      BY <3>1 DEF Consistent, ListsAreSound
    <3>3. u # t
      BY <3>2, AccountAssumption DEF Exists
    <3>4. QED BY <3>2, <3>3, <1>4
  <2>3. QED BY <2>1, <2>2
<1>7. ListsAreComplete(m)
  <2> SUFFICES ASSUME NEW u \in TokenId, NEW a \in Account, m.owners[u] = a
               PROVE  /\ m.ownedTokensIndex[u] \in 0 .. m.balances[a] - 1
                      /\ m.ownedTokens[a][m.ownedTokensIndex[u]] = u
    BY DEF ListsAreComplete
  <2>1. CASE u = t
    BY <2>1, <1>2, <1>3, <1>4
  <2>2. CASE u # t
    <3>1. s.owners[u] = a /\ m.ownedTokensIndex[u] = s.ownedTokensIndex[u]
      BY <2>2, <1>4
    <3>2. /\ s.ownedTokensIndex[u] \in 0 .. s.balances[a] - 1
          /\ s.ownedTokens[a][s.ownedTokensIndex[u]] = u
      BY <3>1 DEF Consistent, ListsAreComplete
    <3>3. CASE a = to
      <4>1. \A i \in 0 .. s.balances[a] :
              m.ownedTokens[a][i] = IF i = s.balances[a] THEN t ELSE s.ownedTokens[a][i]
        BY <3>3, <1>3
      <4>2. s.balances[a] \in Nat /\ m.balances[a] = s.balances[a] + 1
        BY <3>3, <1>2, <1>3
      <4>3. QED BY <3>1, <3>2, <4>1, <4>2
    <3>4. CASE a # to
      BY <3>1, <3>2, <3>4, <1>2, <1>3
    <3>5. QED BY <3>3, <3>4
  <2>3. QED BY <2>1, <2>2
<1>8. /\ m.allTokens = Append(s.allTokens, t)
      /\ \A u \in TokenId : m.allTokensIndex[u] = IF u = t THEN Len(s.allTokens)
                                                  ELSE s.allTokensIndex[u]
      /\ s.allTokens \in Seq(TokenId)
  BY <1>1 DEF IsStorage, MintedFrom
<1>9. AllTokensIsSound(m)
  <2> SUFFICES ASSUME NEW i \in 1 .. Len(m.allTokens),
                      NEW u, u = m.allTokens[i]
               PROVE  m.owners[u] # Nobody /\ m.allTokensIndex[u] = i - 1
    BY DEF AllTokensIsSound, Exists
  <2>1. CASE i = Len(s.allTokens) + 1
    BY <2>1, <1>0, <1>4, <1>8
  <2>2. CASE i \in 1 .. Len(s.allTokens)
    <3>1. u = s.allTokens[i] /\ u \in TokenId
      BY <2>2, <1>8
    <3>2. s.owners[u] # Nobody /\ s.allTokensIndex[u] = i - 1
      BY <2>2, <3>1 DEF Consistent, AllTokensIsSound, Exists
    <3>3. u # t
      BY <3>2 DEF Exists
    <3>4. QED BY <3>1, <3>2, <3>3, <1>4, <1>8
  <2>3. QED BY <2>1, <2>2, <1>8
<1>10. AllTokensIsComplete(m)
  <2> SUFFICES ASSUME NEW u \in TokenId, m.owners[u] # Nobody
               PROVE  /\ m.allTokensIndex[u] \in 0 .. Len(m.allTokens) - 1
                      /\ m.allTokens[m.allTokensIndex[u] + 1] = u
    BY DEF AllTokensIsComplete, Exists
  <2>1. CASE u = t
    BY <2>1, <1>8
  <2>2. CASE u # t
    <3>1. /\ s.allTokensIndex[u] \in 0 .. Len(s.allTokens) - 1
          /\ s.allTokens[s.allTokensIndex[u] + 1] = u
      BY <2>2, <1>4 DEF Consistent, AllTokensIsComplete, Exists
    <3>2. QED BY <2>2, <3>1, <1>8
  <2>3. QED BY <2>1, <2>2
<1>11. QED BY <1>1, <1>5, <1>6, <1>7, <1>9, <1>10 DEF Consistent

\* m is s with t moved from one account to another.  index is the slot it leaves
\* and moved the token that fills it.
TransferredFrom(s, m, from, to, t, index, moved) ==
    /\ \A u \in TokenId : m.owners[u] = IF u = t THEN to ELSE s.owners[u]
    /\ \A a \in Account : m.balances[a] = IF a = to THEN s.balances[a] + 1
                                          ELSE IF a = from THEN s.balances[a] - 1
                                          ELSE s.balances[a]
    /\ \A a \in Account \ {from, to} : m.ownedTokens[a] = s.ownedTokens[a]
    /\ DOMAIN m.ownedTokens[to] = 0 .. s.balances[to]
    /\ \A i \in 0 .. s.balances[to] :
          m.ownedTokens[to][i] = IF i = s.balances[to] THEN t ELSE s.ownedTokens[to][i]
    /\ DOMAIN m.ownedTokens[from] = 0 .. s.balances[from] - 2
    /\ \A i \in 0 .. s.balances[from] - 2 :
          m.ownedTokens[from][i] = IF i = index THEN moved ELSE s.ownedTokens[from][i]
    /\ \A u \in TokenId : m.ownedTokensIndex[u] = IF u = t THEN s.balances[to]
                                                  ELSE IF u = moved THEN index
                                                  ELSE s.ownedTokensIndex[u]
    /\ m.allTokens = s.allTokens
    /\ m.allTokensIndex = s.allTokensIndex

\* _transfer between two different accounts: the token leaves the list of the
\* old owner and is appended to the list of the new one.
LEMMA TransferredFields ==
    ASSUME NEW s, IsStorage(s), Consistent(s),
           NEW from \in Account, NEW to \in Account, from # to,
           NEW t \in TokenId, s.owners[t] = from,
           NEW index, index = s.ownedTokensIndex[t],
           NEW moved, moved = s.ownedTokens[from][s.balances[from] - 1],
           NEW m, m = Transferred(s, to, t)
    PROVE  IsStorage(m) /\ TransferredFrom(s, m, from, to, t, index, moved)
<1>0. to # Nobody /\ from # Nobody
  BY AccountAssumption
<1>1. PICK last : last = s.balances[from] - 1
  OBVIOUS
<1>2. PICK s1 : s1 = RemoveTokenFromOwnerEnumeration(s, from, t)
  OBVIOUS
<1>3. PICK s2 : s2 = AddTokenToOwnerEnumeration(s1, to, t)
  OBVIOUS
<1>4. IsStorage(s1) /\ OwnerRemoved(s, s1, from, t, last, index, moved)
  BY <1>1, <1>2, RemoveOwnerFields
<1>5. IsStorage(s2) /\ OwnerAdded(s1, s2, to, t)
  BY <1>3, <1>4, AddOwnerFields
<1>6. BeforeTokenTransfer(s, from, to, t) = s2
  BY <1>0, <1>2, <1>3, Zenon DEF BeforeTokenTransfer
<1> DEFINE balances == [[s2.balances EXCEPT ![from] = @ - 1] EXCEPT ![to] = @ + 1]
<1>7. m = WithOwner(s2, t, to, balances)
  BY <1>6, Zenon DEF Transferred
<1>8. balances \in [Account -> Int]
  BY <1>5 DEF IsStorage
<1>9. Shaped(s2)
  BY <1>5 DEF IsStorage, Shaped
<1> HIDE DEF balances
<1>10. m = [ owners           |-> [s2.owners EXCEPT ![t] = to],
             balances         |-> balances,
             ownedTokens      |-> s2.ownedTokens,
             ownedTokensIndex |-> s2.ownedTokensIndex,
             allTokens        |-> s2.allTokens,
             allTokensIndex   |-> s2.allTokensIndex ]
  BY <1>7, <1>9, WithOwnerForm
<1>11. IsStorage(m)
  BY <1>5, <1>8, <1>10 DEF IsStorage
<1>12. s2.owners = s.owners /\ s2.balances = s.balances
       /\ s2.allTokens = s.allTokens /\ s2.allTokensIndex = s.allTokensIndex
  BY <1>4, <1>5 DEF OwnerAdded, OwnerRemoved
<1>13. \A u \in TokenId : m.owners[u] = IF u = t THEN to ELSE s.owners[u]
  BY <1>10, <1>12 DEF IsStorage
<1>14. \A a \in Account : m.balances[a] = IF a = to THEN s.balances[a] + 1
                                          ELSE IF a = from THEN s.balances[a] - 1
                                          ELSE s.balances[a]
  <2> TAKE a \in Account
  <2>1. s.balances \in [Account -> Int] /\ m.balances = balances
    BY <1>10 DEF IsStorage
  <2>2. balances = [[s.balances EXCEPT ![from] = s.balances[from] - 1]
                      EXCEPT ![to] = s.balances[to] + 1]
    BY <1>12, <2>1 DEF balances
  <2>3. QED BY <2>1, <2>2
<1>15. \A a \in Account : /\ s.balances[a] \in Nat
                          /\ DOMAIN s.ownedTokens[a] = 0 .. s.balances[a] - 1
  BY DEF Consistent, ListsAreCompact
<1>16. \A a \in Account \ {from, to} : m.ownedTokens[a] = s.ownedTokens[a]
  <2> TAKE a \in Account \ {from, to}
  <2>1. s1.ownedTokens[a] = s.ownedTokens[a]
    BY <1>4 DEF OwnerRemoved
  <2>2. s2.ownedTokens[a] = s1.ownedTokens[a]
    BY <1>5 DEF OwnerAdded
  <2>3. m.ownedTokens[a] = s2.ownedTokens[a]
    BY <1>10
  <2>4. QED BY <2>1, <2>2, <2>3
<1>17. /\ DOMAIN m.ownedTokens[to] = 0 .. s.balances[to]
       /\ \A i \in 0 .. s.balances[to] :
             m.ownedTokens[to][i] = IF i = s.balances[to] THEN t ELSE s.ownedTokens[to][i]
  <2>1. s1.ownedTokens[to] = s.ownedTokens[to] /\ s1.balances = s.balances
    BY <1>4 DEF OwnerRemoved
  <2>2. (0 .. s.balances[to] - 1) \cup {s.balances[to]} = 0 .. s.balances[to]
    BY <1>15
  <2>3. m.ownedTokens[to] = [i \in 0 .. s.balances[to] |->
                               IF i = s.balances[to] THEN t ELSE s.ownedTokens[to][i]]
    <3>1. m.ownedTokens[to] = s2.ownedTokens[to]
      BY <1>10
    <3>2. s2.ownedTokens[to] =
            [i \in DOMAIN s1.ownedTokens[to] \cup {s1.balances[to]} |->
               IF i = s1.balances[to] THEN t ELSE s1.ownedTokens[to][i]]
      BY <1>5 DEF OwnerAdded
    <3>3. s2.ownedTokens[to] =
            [i \in (0 .. s.balances[to] - 1) \cup {s.balances[to]} |->
               IF i = s.balances[to] THEN t ELSE s.ownedTokens[to][i]]
      BY <1>15, <2>1, <3>2
    <3>4. QED BY <2>2, <3>1, <3>3
  <2>4. QED BY <2>3
<1>18. /\ DOMAIN m.ownedTokens[from] = 0 .. s.balances[from] - 2
       /\ \A i \in 0 .. s.balances[from] - 2 :
             m.ownedTokens[from][i] = IF i = index THEN moved ELSE s.ownedTokens[from][i]
  <2>1. m.ownedTokens[from] = s1.ownedTokens[from]
    BY <1>5, <1>10 DEF OwnerAdded
  <2>2. last - 1 = s.balances[from] - 2
    BY <1>1, <1>15
  <2>3. m.ownedTokens[from] = [i \in 0 .. s.balances[from] - 2 |->
                                 IF i = index THEN moved ELSE s.ownedTokens[from][i]]
    BY <1>4, <2>1, <2>2 DEF OwnerRemoved
  <2>4. QED BY <2>3
<1>19. \A u \in TokenId : m.ownedTokensIndex[u] = IF u = t THEN s.balances[to]
                                                  ELSE IF u = moved THEN index
                                                  ELSE s.ownedTokensIndex[u]
  <2>1. m.ownedTokensIndex = [s1.ownedTokensIndex EXCEPT ![t] = s1.balances[to]]
        /\ s1.balances = s.balances
    BY <1>4, <1>5, <1>10 DEF OwnerAdded, OwnerRemoved
  <2>2. s1.ownedTokensIndex = [u \in TokenId |-> IF u = t THEN 0
                                                 ELSE IF u = moved THEN index
                                                 ELSE s.ownedTokensIndex[u]]
    BY <1>4 DEF OwnerRemoved
  <2>3. QED BY <2>1, <2>2
<1>20. m.allTokens = s.allTokens /\ m.allTokensIndex = s.allTokensIndex
  BY <1>10, <1>12
<1>21. QED
  BY <1>11, <1>13, <1>14, <1>16, <1>17, <1>18, <1>19, <1>20 DEF TransferredFrom

\* Moving a token to an account that may or may not own it already keeps the
\* storage well formed and consistent.
LEMMA TransferredIsConsistent ==
    ASSUME NEW s, IsStorage(s), Consistent(s),
           NEW to \in Account, NEW t \in TokenId, Exists(s, t), s.owners[t] # to,
           NEW m, m = Transferred(s, to, t)
    PROVE  IsStorage(m) /\ Consistent(m)
<1>1. PICK from \in Account : s.owners[t] = from /\ from # to
  BY DEF IsStorage, Exists
<1>2. PICK index : index = s.ownedTokensIndex[t]
  OBVIOUS
<1>3. PICK moved : moved = s.ownedTokens[from][s.balances[from] - 1]
  OBVIOUS
<1>4. IsStorage(m) /\ TransferredFrom(s, m, from, to, t, index, moved)
  BY <1>1, <1>2, <1>3, TransferredFields
<1>5. \A a \in Account : /\ s.balances[a] \in Nat
                         /\ DOMAIN s.ownedTokens[a] = 0 .. s.balances[a] - 1
  BY DEF Consistent, ListsAreCompact
<1>6. index \in 0 .. s.balances[from] - 1 /\ s.ownedTokens[from][index] = t
  BY <1>1, <1>2 DEF Consistent, ListsAreComplete
<1>7. /\ moved \in TokenId
      /\ s.owners[moved] = from
      /\ s.ownedTokensIndex[moved] = s.balances[from] - 1
  BY <1>3, <1>5, <1>6 DEF Consistent, ListsAreSound
<1>8. ListsAreCompact(m)
  <2> SUFFICES ASSUME NEW a \in Account
               PROVE  /\ m.balances[a] \in Nat
                      /\ DOMAIN m.ownedTokens[a] = 0 .. m.balances[a] - 1
    BY DEF ListsAreCompact
  <2>1. CASE a = to
    BY <2>1, <1>1, <1>4, <1>5 DEF TransferredFrom
  <2>2. CASE a = from
    <3>1. m.balances[a] = s.balances[from] - 1 /\ s.balances[from] \in Nat \ {0}
      BY <2>2, <1>1, <1>4, <1>5, <1>6 DEF TransferredFrom
    <3>2. DOMAIN m.ownedTokens[a] = 0 .. s.balances[from] - 2
      BY <2>2, <1>4 DEF TransferredFrom
    <3>3. QED BY <3>1, <3>2
  <2>3. CASE a \in Account \ {from, to}
    BY <2>3, <1>4, <1>5 DEF TransferredFrom
  <2>4. QED BY <2>1, <2>2, <2>3
<1>9. ListsAreSound(m)
  <2> SUFFICES ASSUME NEW a \in Account, NEW i \in 0 .. m.balances[a] - 1,
                      NEW u, u = m.ownedTokens[a][i]
               PROVE  u \in TokenId /\ m.owners[u] = a /\ m.ownedTokensIndex[u] = i
    BY DEF ListsAreSound
  <2>1. \A v \in TokenId : /\ m.owners[v] = IF v = t THEN to ELSE s.owners[v]
                           /\ m.ownedTokensIndex[v] = IF v = t THEN s.balances[to]
                                                      ELSE IF v = moved THEN index
                                                      ELSE s.ownedTokensIndex[v]
    BY <1>4 DEF TransferredFrom
  <2>2. \A b \in Account : \A j \in 0 .. s.balances[b] - 1 :
           /\ s.ownedTokens[b][j] \in TokenId
           /\ s.owners[s.ownedTokens[b][j]] = b
           /\ s.ownedTokensIndex[s.ownedTokens[b][j]] = j
    BY DEF Consistent, ListsAreSound
  <2>3. CASE a = to
    <3>1. i \in 0 .. s.balances[to]
          /\ u = IF i = s.balances[to] THEN t ELSE s.ownedTokens[to][i]
      BY <2>3, <1>4, <1>5 DEF TransferredFrom
    <3>2. CASE i = s.balances[to]
      BY <3>1, <3>2, <2>1, <2>3
    <3>3. CASE i # s.balances[to]
      <4>1. i \in 0 .. s.balances[to] - 1 /\ u = s.ownedTokens[to][i]
        BY <3>1, <3>3, <1>5
      <4>2. u \in TokenId /\ s.owners[u] = to /\ s.ownedTokensIndex[u] = i
        BY <4>1, <2>2
      <4>3. u # t /\ u # moved
        BY <4>2, <1>1, <1>7
      <4>4. QED BY <4>2, <4>3, <2>1, <2>3
    <3>4. QED BY <3>2, <3>3
  <2>4. CASE a = from
    <3>1. /\ i \in 0 .. s.balances[from] - 2
          /\ u = IF i = index THEN moved ELSE s.ownedTokens[from][i]
      <4>1. m.balances[from] = s.balances[from] - 1
        BY <1>1, <1>4 DEF TransferredFrom
      <4>2. i \in 0 .. s.balances[from] - 2
        BY <4>1, <2>4, <1>5
      <4>3. QED BY <4>2, <2>4, <1>4 DEF TransferredFrom
    <3>2. CASE i = index
      <4>1. u = moved /\ u # t
        BY <3>1, <3>2, <1>2, <1>5, <1>7
      <4>2. QED BY <4>1, <3>2, <2>1, <2>4, <1>7
    <3>3. CASE i # index
      <4>1. u = s.ownedTokens[from][i] /\ i \in 0 .. s.balances[from] - 1
        BY <3>1, <3>3, <1>5
      <4>2. u \in TokenId /\ s.owners[u] = from /\ s.ownedTokensIndex[u] = i
        BY <4>1, <2>2
      <4>3. u # t /\ u # moved
        BY <4>2, <3>1, <3>3, <1>2, <1>5, <1>7
      <4>4. QED BY <4>2, <4>3, <2>1, <2>4
    <3>4. QED BY <3>2, <3>3
  <2>5. CASE a \in Account \ {from, to}
    <3>1. i \in 0 .. s.balances[a] - 1 /\ u = s.ownedTokens[a][i]
      BY <2>5, <1>4 DEF TransferredFrom
    <3>2. u \in TokenId /\ s.owners[u] = a /\ s.ownedTokensIndex[u] = i
      BY <3>1, <2>2
    <3>3. u # t /\ u # moved
      BY <3>2, <2>5, <1>1, <1>7
    <3>4. QED BY <3>2, <3>3, <2>1
  <2>6. QED BY <2>3, <2>4, <2>5
<1>10. ListsAreComplete(m)
  <2> SUFFICES ASSUME NEW u \in TokenId, NEW a \in Account, m.owners[u] = a
               PROVE  /\ m.ownedTokensIndex[u] \in 0 .. m.balances[a] - 1
                      /\ m.ownedTokens[a][m.ownedTokensIndex[u]] = u
    BY DEF ListsAreComplete
  <2>1. /\ m.owners[u] = IF u = t THEN to ELSE s.owners[u]
        /\ m.ownedTokensIndex[u] = IF u = t THEN s.balances[to]
                                   ELSE IF u = moved THEN index
                                   ELSE s.ownedTokensIndex[u]
    BY <1>4 DEF TransferredFrom
  <2>2. \A b \in Account : s.owners[u] = b =>
           /\ s.ownedTokensIndex[u] \in 0 .. s.balances[b] - 1
           /\ s.ownedTokens[b][s.ownedTokensIndex[u]] = u
    BY DEF Consistent, ListsAreComplete
  <2>3. /\ m.balances[to] = s.balances[to] + 1
        /\ m.balances[from] = s.balances[from] - 1
        /\ \A i \in 0 .. s.balances[to] :
              m.ownedTokens[to][i] = IF i = s.balances[to] THEN t ELSE s.ownedTokens[to][i]
        /\ \A i \in 0 .. s.balances[from] - 2 :
              m.ownedTokens[from][i] = IF i = index THEN moved ELSE s.ownedTokens[from][i]
    BY <1>1, <1>4 DEF TransferredFrom
  <2>4. CASE u = t
    BY <2>1, <2>3, <2>4, <1>5
  <2>5. CASE u # t /\ a = to
    <3>1. u # moved /\ m.ownedTokensIndex[u] = s.ownedTokensIndex[u]
      BY <2>1, <2>5, <1>1, <1>7
    <3>2. s.owners[u] = to
      BY <2>1, <2>5
    <3>3. /\ s.ownedTokensIndex[u] \in 0 .. s.balances[to] - 1
          /\ s.ownedTokens[to][s.ownedTokensIndex[u]] = u
      BY <3>2, <2>2
    <3>4. s.balances[to] \in Nat
      BY <1>5
    <3>5. m.ownedTokens[to][s.ownedTokensIndex[u]] = u
      BY <3>3, <3>4, <2>3
    <3>6. QED BY <3>1, <3>3, <3>4, <3>5, <2>3, <2>5
  <2>6. CASE u # t /\ a = from
    <3>1. s.owners[u] = from
      BY <2>1, <2>6
    <3>2. CASE u = moved
      <4>1. index \in 0 .. s.balances[from] - 2
        BY <3>2, <2>6, <1>3, <1>5, <1>6
      <4>2. QED BY <4>1, <3>2, <2>1, <2>3, <2>6, <1>5
    <3>3. CASE u # moved
      <4>1. /\ s.ownedTokensIndex[u] \in 0 .. s.balances[from] - 1
            /\ s.ownedTokens[from][s.ownedTokensIndex[u]] = u
        BY <3>1, <2>2
      <4>2. s.ownedTokensIndex[u] # s.balances[from] - 1 /\ s.ownedTokensIndex[u] # index
        BY <4>1, <3>3, <2>6, <1>3, <1>6
      <4>3. s.ownedTokensIndex[u] \in 0 .. s.balances[from] - 2
        BY <4>1, <4>2, <1>5
      <4>4. m.ownedTokensIndex[u] = s.ownedTokensIndex[u]
        BY <3>3, <2>1, <2>6
      <4>5. m.ownedTokens[from][s.ownedTokensIndex[u]] = u
        BY <4>1, <4>2, <4>3, <2>3
      <4>6. s.balances[from] \in Nat
        BY <1>5
      <4>7. QED BY <4>3, <4>4, <4>5, <4>6, <2>3, <2>6
    <3>4. QED BY <3>2, <3>3
  <2>7. CASE u # t /\ a \in Account \ {from, to}
    <3>1. s.owners[u] = a /\ u # moved
      BY <2>1, <2>7, <1>7
    <3>2. m.balances[a] = s.balances[a] /\ m.ownedTokens[a] = s.ownedTokens[a]
      BY <2>7, <1>4 DEF TransferredFrom
    <3>3. QED BY <3>1, <3>2, <2>1, <2>2, <2>7
  <2>8. QED BY <2>4, <2>5, <2>6, <2>7
<1>11. \A u \in TokenId : Exists(m, u) <=> Exists(s, u)
  <2>1. to # Nobody
    BY AccountAssumption
  <2>2. QED BY <2>1, <1>4 DEF TransferredFrom, Exists
<1>12. m.allTokens = s.allTokens /\ m.allTokensIndex = s.allTokensIndex
  BY <1>4 DEF TransferredFrom
<1>13. AllTokensIsSound(m)
  <2> SUFFICES ASSUME NEW i \in 1 .. Len(s.allTokens)
               PROVE  /\ Exists(m, s.allTokens[i])
                      /\ s.allTokensIndex[s.allTokens[i]] = i - 1
    BY <1>12 DEF AllTokensIsSound
  <2>1. s.allTokens[i] \in TokenId
    BY DEF IsStorage
  <2>2. QED BY <2>1, <1>11 DEF Consistent, AllTokensIsSound
<1>14. AllTokensIsComplete(m)
  BY <1>11, <1>12 DEF Consistent, AllTokensIsComplete
<1>15. QED BY <1>4, <1>8, <1>9, <1>10, <1>13, <1>14 DEF Consistent
-----------------------------------------------------------------------------
(***************************************************************************)
(* Burns.                                                                  *)
(***************************************************************************)

\* m is s with t taken from its place in the list of all tokens, where the last one
\* of the list, filler, now is.
AllRemoved(s, m, t, place, filler) ==
    /\ m.owners = s.owners
    /\ m.balances = s.balances
    /\ m.ownedTokens = s.ownedTokens
    /\ m.ownedTokensIndex = s.ownedTokensIndex
    /\ Len(m.allTokens) = Len(s.allTokens) - 1
    /\ \A i \in 1 .. Len(s.allTokens) - 1 :
          m.allTokens[i] = IF i = place + 1 THEN filler ELSE s.allTokens[i]
    /\ \A u \in TokenId : m.allTokensIndex[u] = IF u = t THEN 0
                                                ELSE IF u = filler THEN place
                                                ELSE s.allTokensIndex[u]

\* _removeTokenFromAllTokensEnumeration moves the last token of the list into the
\* place that becomes free.
LEMMA RemoveAllFields ==
    ASSUME NEW s, IsStorage(s), NEW t \in TokenId,
           NEW place, place = s.allTokensIndex[t], place \in 0 .. Len(s.allTokens) - 1,
           NEW filler, filler = s.allTokens[Len(s.allTokens)],
           NEW m, m = RemoveTokenFromAllTokensEnumeration(s, t)
    PROVE  IsStorage(m) /\ AllRemoved(s, m, t, place, filler)
<1> DEFINE n == Len(s.allTokens)
           newList == [i \in 1 .. n - 1 |-> IF i = place + 1 THEN filler ELSE s.allTokens[i]]
           newIndex == [u \in TokenId |-> IF u = t THEN 0
                                          ELSE IF u = filler THEN place
                                          ELSE s.allTokensIndex[u]]
<1>1. Shaped(s) /\ s.allTokens \in Seq(TokenId) /\ s.allTokensIndex \in [TokenId -> Int]
  BY DEF IsStorage, Shaped
<1>2. n \in Nat \ {0} /\ n - 1 \in Nat /\ (n - 1) + 1 = n
  BY <1>1
<1>3. filler \in TokenId /\ \A i \in 1 .. n : s.allTokens[i] \in TokenId
  BY <1>1, <1>2
<1>4. newList \in [1 .. n - 1 -> TokenId]
  BY <1>2, <1>3
<1>5. newList \in Seq(TokenId) /\ Len(newList) = n - 1
  BY <1>2, <1>4, FunctionIsSequence
<1>6. newIndex \in [TokenId -> Int]
  BY <1>1
<1>7. m = WithAllTokens(s, newList, newIndex)
  BY <1>2, Zenon DEF RemoveTokenFromAllTokensEnumeration
<1>8. \A i \in 1 .. n - 1 : newList[i] = IF i = place + 1 THEN filler ELSE s.allTokens[i]
  OBVIOUS
<1>9. \A u \in TokenId : newIndex[u] = IF u = t THEN 0 ELSE IF u = filler THEN place
                                       ELSE s.allTokensIndex[u]
  OBVIOUS
<1> HIDE DEF newList, newIndex
<1>10. m = [ owners           |-> s.owners,
             balances         |-> s.balances,
             ownedTokens      |-> s.ownedTokens,
             ownedTokensIndex |-> s.ownedTokensIndex,
             allTokens        |-> newList,
             allTokensIndex   |-> newIndex ]
  BY <1>1, <1>7, WithAllTokensForm
<1>11. IsStorage(m)
  BY <1>5, <1>6, <1>10 DEF IsStorage
<1>12. QED BY <1>5, <1>8, <1>9, <1>10, <1>11 DEF AllRemoved

\* m is s with t burned.  index is the slot it leaves in the list of its owner and
\* moved the token that fills it, place and filler the same in the list of all tokens.
BurnedFrom(s, m, from, t, index, moved, place, filler) ==
    /\ \A u \in TokenId : m.owners[u] = IF u = t THEN Nobody ELSE s.owners[u]
    /\ \A a \in Account : m.balances[a] = IF a = from THEN s.balances[a] - 1 ELSE s.balances[a]
    /\ \A a \in Account \ {from} : m.ownedTokens[a] = s.ownedTokens[a]
    /\ DOMAIN m.ownedTokens[from] = 0 .. s.balances[from] - 2
    /\ \A i \in 0 .. s.balances[from] - 2 :
          m.ownedTokens[from][i] = IF i = index THEN moved ELSE s.ownedTokens[from][i]
    /\ \A u \in TokenId : m.ownedTokensIndex[u] = IF u = t THEN 0
                                                  ELSE IF u = moved THEN index
                                                  ELSE s.ownedTokensIndex[u]
    /\ Len(m.allTokens) = Len(s.allTokens) - 1
    /\ \A i \in 1 .. Len(s.allTokens) - 1 :
          m.allTokens[i] = IF i = place + 1 THEN filler ELSE s.allTokens[i]
    /\ \A u \in TokenId : m.allTokensIndex[u] = IF u = t THEN 0
                                                ELSE IF u = filler THEN place
                                                ELSE s.allTokensIndex[u]

\* _burn takes the token from both lists.
LEMMA BurnedFields ==
    ASSUME NEW s, IsStorage(s), Consistent(s),
           NEW from \in Account, NEW t \in TokenId, s.owners[t] = from,
           NEW index, index = s.ownedTokensIndex[t],
           NEW moved, moved = s.ownedTokens[from][s.balances[from] - 1],
           NEW place, place = s.allTokensIndex[t],
           NEW filler, filler = s.allTokens[Len(s.allTokens)],
           NEW m, m = Burned(s, t)
    PROVE  IsStorage(m) /\ BurnedFrom(s, m, from, t, index, moved, place, filler)
<1>0. from # Nobody
  BY AccountAssumption
<1>1. PICK last : last = s.balances[from] - 1
  OBVIOUS
<1>2. PICK s1 : s1 = RemoveTokenFromOwnerEnumeration(s, from, t)
  OBVIOUS
<1>3. PICK s2 : s2 = RemoveTokenFromAllTokensEnumeration(s1, t)
  OBVIOUS
<1>4. IsStorage(s1) /\ OwnerRemoved(s, s1, from, t, last, index, moved)
  BY <1>1, <1>2, RemoveOwnerFields
<1>5. s1.allTokens = s.allTokens /\ s1.allTokensIndex = s.allTokensIndex
  BY <1>4 DEF OwnerRemoved
<1>6. place \in 0 .. Len(s.allTokens) - 1
  BY <1>0 DEF Consistent, AllTokensIsComplete, Exists
<1>7. IsStorage(s2) /\ AllRemoved(s1, s2, t, place, filler)
  BY <1>3, <1>4, <1>5, <1>6, RemoveAllFields
<1>8. BeforeTokenTransfer(s, from, Nobody, t) = s2
  BY <1>0, <1>2, <1>3, Zenon DEF BeforeTokenTransfer
<1> DEFINE balances == [s2.balances EXCEPT ![from] = @ - 1]
<1>9. m = WithOwner(s2, t, Nobody, balances)
  BY <1>8, Zenon DEF Burned
<1>10. s2.owners = s.owners /\ s2.balances = s.balances
  BY <1>4, <1>7 DEF OwnerRemoved, AllRemoved
<1>11. /\ balances \in [Account -> Int]
       /\ \A a \in Account : balances[a] = IF a = from THEN s.balances[a] - 1 ELSE s.balances[a]
  BY <1>10 DEF IsStorage
<1>12. Shaped(s2)
  BY <1>7 DEF IsStorage, Shaped
<1> HIDE DEF balances
<1>13. m = [ owners           |-> [s2.owners EXCEPT ![t] = Nobody],
             balances         |-> balances,
             ownedTokens      |-> s2.ownedTokens,
             ownedTokensIndex |-> s2.ownedTokensIndex,
             allTokens        |-> s2.allTokens,
             allTokensIndex   |-> s2.allTokensIndex ]
  BY <1>9, <1>12, WithOwnerForm
<1>14. IsStorage(m)
  BY <1>7, <1>11, <1>13 DEF IsStorage
<1>15. /\ \A u \in TokenId : m.owners[u] = IF u = t THEN Nobody ELSE s.owners[u]
       /\ \A a \in Account : m.balances[a] = IF a = from THEN s.balances[a] - 1 ELSE s.balances[a]
  BY <1>10, <1>11, <1>13 DEF IsStorage
<1>16. \A a \in Account \ {from} : m.ownedTokens[a] = s.ownedTokens[a]
  <2>1. m.ownedTokens = s1.ownedTokens
    BY <1>7, <1>13 DEF AllRemoved
  <2>2. \A a \in Account : a # from => s1.ownedTokens[a] = s.ownedTokens[a]
    BY <1>4 DEF OwnerRemoved
  <2>3. QED BY <2>1, <2>2
<1>17. s.balances[from] \in Nat
  BY DEF Consistent, ListsAreCompact
<1>18. /\ DOMAIN m.ownedTokens[from] = 0 .. s.balances[from] - 2
       /\ \A i \in 0 .. s.balances[from] - 2 :
             m.ownedTokens[from][i] = IF i = index THEN moved ELSE s.ownedTokens[from][i]
  <2>1. m.ownedTokens[from] = s1.ownedTokens[from]
    BY <1>7, <1>13 DEF AllRemoved
  <2>2. last - 1 = s.balances[from] - 2
    BY <1>1, <1>17
  <2>3. m.ownedTokens[from] = [i \in 0 .. s.balances[from] - 2 |->
                                 IF i = index THEN moved ELSE s.ownedTokens[from][i]]
    BY <1>4, <2>1, <2>2 DEF OwnerRemoved
  <2>4. QED BY <2>3
<1>19. \A u \in TokenId : m.ownedTokensIndex[u] = IF u = t THEN 0
                                                  ELSE IF u = moved THEN index
                                                  ELSE s.ownedTokensIndex[u]
  <2>1. m.ownedTokensIndex = s1.ownedTokensIndex
    BY <1>7, <1>13 DEF AllRemoved
  <2>2. QED BY <1>4, <2>1 DEF OwnerRemoved
<1>20. /\ Len(m.allTokens) = Len(s.allTokens) - 1
       /\ \A i \in 1 .. Len(s.allTokens) - 1 :
             m.allTokens[i] = IF i = place + 1 THEN filler ELSE s.allTokens[i]
       /\ \A u \in TokenId : m.allTokensIndex[u] = IF u = t THEN 0
                                                   ELSE IF u = filler THEN place
                                                   ELSE s.allTokensIndex[u]
  BY <1>5, <1>7, <1>13 DEF AllRemoved
<1>21. QED BY <1>14, <1>15, <1>16, <1>18, <1>19, <1>20 DEF BurnedFrom
\* Burning an existing token keeps the storage well formed and consistent.
LEMMA BurnedIsConsistent ==
    ASSUME NEW s, IsStorage(s), Consistent(s), NEW t \in TokenId, Exists(s, t),
           NEW m, m = Burned(s, t)
    PROVE  /\ IsStorage(m) /\ Consistent(m)
           /\ \A u \in TokenId : m.owners[u] = IF u = t THEN Nobody ELSE s.owners[u]
<1>1. PICK from \in Account : s.owners[t] = from
  BY DEF IsStorage, Exists
<1>2. PICK index, place : index = s.ownedTokensIndex[t] /\ place = s.allTokensIndex[t]
  OBVIOUS
<1>3. PICK moved, filler : /\ moved = s.ownedTokens[from][s.balances[from] - 1]
                           /\ filler = s.allTokens[Len(s.allTokens)]
  OBVIOUS
<1>4. IsStorage(m) /\ BurnedFrom(s, m, from, t, index, moved, place, filler)
  BY <1>1, <1>2, <1>3, BurnedFields
<1>5. \A a \in Account : /\ s.balances[a] \in Nat
                         /\ DOMAIN s.ownedTokens[a] = 0 .. s.balances[a] - 1
  BY DEF Consistent, ListsAreCompact
<1>6. index \in 0 .. s.balances[from] - 1 /\ s.ownedTokens[from][index] = t
  BY <1>1, <1>2 DEF Consistent, ListsAreComplete
<1>7. /\ moved \in TokenId
      /\ s.owners[moved] = from
      /\ s.ownedTokensIndex[moved] = s.balances[from] - 1
  BY <1>3, <1>5, <1>6 DEF Consistent, ListsAreSound
<1>8. \A v \in TokenId : /\ m.owners[v] = IF v = t THEN Nobody ELSE s.owners[v]
                         /\ m.ownedTokensIndex[v] = IF v = t THEN 0
                                                    ELSE IF v = moved THEN index
                                                    ELSE s.ownedTokensIndex[v]
  BY <1>4 DEF BurnedFrom
<1>9. /\ m.balances[from] = s.balances[from] - 1 /\ s.balances[from] \in Nat \ {0}
      /\ DOMAIN m.ownedTokens[from] = 0 .. s.balances[from] - 2
      /\ \A i \in 0 .. s.balances[from] - 2 :
            m.ownedTokens[from][i] = IF i = index THEN moved ELSE s.ownedTokens[from][i]
      /\ \A a \in Account \ {from} : /\ m.balances[a] = s.balances[a]
                                     /\ m.ownedTokens[a] = s.ownedTokens[a]
  BY <1>1, <1>4, <1>5, <1>6 DEF BurnedFrom
<1>10. ListsAreCompact(m)
  <2> SUFFICES ASSUME NEW a \in Account
               PROVE  /\ m.balances[a] \in Nat
                      /\ DOMAIN m.ownedTokens[a] = 0 .. m.balances[a] - 1
    BY DEF ListsAreCompact
  <2>1. CASE a = from
    <3>1. (s.balances[from] - 1) - 1 = s.balances[from] - 2 /\ s.balances[from] - 1 \in Nat
      BY <1>9
    <3>2. QED BY <2>1, <3>1, <1>9
  <2>2. CASE a # from
    BY <2>2, <1>5, <1>9
  <2>3. QED BY <2>1, <2>2
<1>11. ListsAreSound(m)
  <2> SUFFICES ASSUME NEW a \in Account, NEW i \in 0 .. m.balances[a] - 1,
                      NEW u, u = m.ownedTokens[a][i]
               PROVE  u \in TokenId /\ m.owners[u] = a /\ m.ownedTokensIndex[u] = i
    BY DEF ListsAreSound
  <2>1. \A b \in Account : \A j \in 0 .. s.balances[b] - 1 :
           /\ s.ownedTokens[b][j] \in TokenId
           /\ s.owners[s.ownedTokens[b][j]] = b
           /\ s.ownedTokensIndex[s.ownedTokens[b][j]] = j
    BY DEF Consistent, ListsAreSound
  <2>2. CASE a = from
    <3>1. i \in 0 .. s.balances[from] - 2
      BY <2>2, <1>9
    <3>2. CASE i = index
      <4>1. u = moved /\ u # t
        BY <3>1, <3>2, <2>2, <1>2, <1>5, <1>7, <1>9
      <4>2. QED BY <4>1, <3>2, <2>2, <1>7, <1>8
    <3>3. CASE i # index
      <4>1. u = s.ownedTokens[from][i] /\ i \in 0 .. s.balances[from] - 1
        BY <3>1, <3>3, <2>2, <1>5, <1>9
      <4>2. u \in TokenId /\ s.owners[u] = from /\ s.ownedTokensIndex[u] = i
        BY <4>1, <2>1
      <4>3. u # t /\ u # moved
        BY <4>2, <3>1, <3>3, <1>2, <1>5, <1>7
      <4>4. QED BY <4>2, <4>3, <2>2, <1>8
    <3>4. QED BY <3>2, <3>3
  <2>3. CASE a # from
    <3>1. i \in 0 .. s.balances[a] - 1 /\ u = s.ownedTokens[a][i]
      BY <2>3, <1>9
    <3>2. u \in TokenId /\ s.owners[u] = a /\ s.ownedTokensIndex[u] = i
      BY <3>1, <2>1
    <3>3. u # t /\ u # moved
      BY <3>2, <2>3, <1>1, <1>7
    <3>4. QED BY <3>2, <3>3, <1>8
  <2>4. QED BY <2>2, <2>3
<1>12. ListsAreComplete(m)
  <2> SUFFICES ASSUME NEW u \in TokenId, NEW a \in Account, m.owners[u] = a
               PROVE  /\ m.ownedTokensIndex[u] \in 0 .. m.balances[a] - 1
                      /\ m.ownedTokens[a][m.ownedTokensIndex[u]] = u
    BY DEF ListsAreComplete
  <2>1. u # t /\ s.owners[u] = a
    BY AccountAssumption, <1>8
  <2>2. /\ s.ownedTokensIndex[u] \in 0 .. s.balances[a] - 1
        /\ s.ownedTokens[a][s.ownedTokensIndex[u]] = u
    BY <2>1 DEF Consistent, ListsAreComplete
  <2>3. CASE a # from
    <3>1. u # moved
      BY <2>1, <2>3, <1>7
    <3>2. QED BY <2>1, <2>2, <2>3, <3>1, <1>8, <1>9
  <2>4. CASE a = from /\ u = moved
    <3>1. index \in 0 .. s.balances[from] - 2
      BY <2>1, <2>4, <1>3, <1>5, <1>6
    <3>2. m.ownedTokensIndex[u] = index
      BY <2>1, <2>4, <1>8
    <3>3. QED BY <2>4, <3>1, <3>2, <1>9
  <2>5. CASE a = from /\ u # moved
    <3>1. s.ownedTokensIndex[u] # s.balances[from] - 1 /\ s.ownedTokensIndex[u] # index
      BY <2>1, <2>2, <2>5, <1>3, <1>6
    <3>2. s.ownedTokensIndex[u] \in 0 .. s.balances[from] - 2
      BY <2>2, <2>5, <3>1, <1>5
    <3>3. m.ownedTokensIndex[u] = s.ownedTokensIndex[u]
      BY <2>1, <2>5, <1>8
    <3>4. m.ownedTokens[from][s.ownedTokensIndex[u]] = u
      BY <2>2, <2>5, <3>1, <3>2, <1>9
    <3>5. QED BY <2>5, <3>2, <3>3, <3>4, <1>9
  <2>6. QED BY <2>3, <2>4, <2>5
<1>13. PICK n \in Nat \ {0} : n = Len(s.allTokens)
  <2>1. place \in 0 .. Len(s.allTokens) - 1 /\ Len(s.allTokens) \in Nat
    BY <1>2 DEF Consistent, AllTokensIsComplete, IsStorage
  <2>2. QED BY <2>1
<1>14. /\ place \in 0 .. n - 1
       /\ Len(m.allTokens) = n - 1
       /\ \A i \in 1 .. n - 1 : m.allTokens[i] = IF i = place + 1 THEN filler ELSE s.allTokens[i]
       /\ \A u \in TokenId : m.allTokensIndex[u] = IF u = t THEN 0
                                                   ELSE IF u = filler THEN place
                                                   ELSE s.allTokensIndex[u]
  BY <1>2, <1>4, <1>13 DEF BurnedFrom, Consistent, AllTokensIsComplete
<1>15. \A i \in 1 .. n : /\ s.allTokens[i] \in TokenId
                         /\ Exists(s, s.allTokens[i])
                         /\ s.allTokensIndex[s.allTokens[i]] = i - 1
  BY <1>13 DEF IsStorage, Consistent, AllTokensIsSound
<1>16. filler \in TokenId /\ Exists(s, filler) /\ s.allTokensIndex[filler] = n - 1
  BY <1>3, <1>13, <1>15
<1>17. AllTokensIsSound(m)
  <2> SUFFICES ASSUME NEW i \in 1 .. n - 1, NEW u, u = m.allTokens[i]
               PROVE  m.owners[u] # Nobody /\ m.allTokensIndex[u] = i - 1
    BY <1>14 DEF AllTokensIsSound, Exists
  <2>1. CASE i = place + 1
    <3>1. u = filler
      BY <2>1, <1>14
    <3>2. u # t
      BY <3>1, <2>1, <1>2, <1>14, <1>16
    <3>3. m.owners[u] # Nobody
      BY <3>1, <3>2, <1>8, <1>16 DEF Exists
    <3>4. m.allTokensIndex[u] = place
      BY <3>1, <3>2, <1>14, <1>16
    <3>5. QED BY <2>1, <3>3, <3>4, <1>14
  <2>2. CASE i # place + 1
    <3>1. u = s.allTokens[i] /\ i \in 1 .. n
      BY <2>2, <1>14
    <3>2. u \in TokenId /\ Exists(s, u) /\ s.allTokensIndex[u] = i - 1
      BY <3>1, <1>15
    <3>3. u # t /\ u # filler
      BY <3>2, <2>2, <1>2, <1>14, <1>16
    <3>4. QED BY <3>2, <3>3, <1>8, <1>14 DEF Exists
  <2>3. QED BY <2>1, <2>2
<1>18. AllTokensIsComplete(m)
  <2> SUFFICES ASSUME NEW u \in TokenId, m.owners[u] # Nobody
               PROVE  /\ m.allTokensIndex[u] \in 0 .. n - 2
                      /\ m.allTokens[m.allTokensIndex[u] + 1] = u
    <3>1. Len(m.allTokens) - 1 = n - 2
      BY <1>14
    <3>2. QED BY <3>1 DEF AllTokensIsComplete, Exists
  <2>1. u # t /\ Exists(s, u)
    BY <1>8 DEF Exists
  <2>2. s.allTokensIndex[u] \in 0 .. n - 1 /\ s.allTokens[s.allTokensIndex[u] + 1] = u
    BY <2>1, <1>13 DEF Consistent, AllTokensIsComplete
  <2>3. place \in 0 .. n - 1 /\ s.allTokens[place + 1] = t
    BY <1>2, <1>13 DEF Consistent, AllTokensIsComplete
  <2>4. CASE u = filler
    <3>1. place # n - 1
      BY <2>1, <2>3, <2>4, <1>3, <1>13
    <3>2. m.allTokensIndex[u] = place /\ place + 1 \in 1 .. n - 1
      BY <2>1, <2>3, <2>4, <3>1, <1>14
    <3>3. QED BY <2>4, <3>1, <3>2, <1>14
  <2>5. CASE u # filler
    <3>1. m.allTokensIndex[u] = s.allTokensIndex[u]
      BY <2>1, <2>5, <1>14
    <3>2. s.allTokensIndex[u] # n - 1 /\ s.allTokensIndex[u] # place
      BY <2>1, <2>2, <2>3, <2>5, <1>3, <1>13
    <3>3. s.allTokensIndex[u] + 1 \in 1 .. n - 1 /\ s.allTokensIndex[u] + 1 # place + 1
      BY <2>2, <2>3, <3>2
    <3>4. QED BY <2>2, <3>1, <3>2, <3>3, <1>14
  <2>6. QED BY <2>4, <2>5
<1>19. QED BY <1>4, <1>8, <1>10, <1>11, <1>12, <1>17, <1>18 DEF Consistent

\* A transfer to the owner itself changes nothing.
LEMMA TransferredToOwner ==
    ASSUME NEW s, IsStorage(s), NEW t \in TokenId, Exists(s, t),
           NEW m, m = Transferred(s, s.owners[t], t)
    PROVE  m = s
<1>1. PICK a \in Account : s.owners[t] = a
  BY DEF IsStorage, Exists
<1>2. a # Nobody
  BY AccountAssumption
<1>3. BeforeTokenTransfer(s, a, a, t) = s
  BY <1>2 DEF BeforeTokenTransfer
<1> DEFINE balances == [[s.balances EXCEPT ![a] = @ - 1] EXCEPT ![a] = @ + 1]
<1>4. m = WithOwner(s, t, a, balances)
  BY <1>1, <1>3, Zenon DEF Transferred
<1>5. balances = s.balances
  <2>1. s.balances \in [Account -> Int] /\ s.balances[a] \in Int
    BY DEF IsStorage
  <2>2. PICK b \in [Account -> Int] : b = s.balances
    BY <2>1
  <2>3. [[b EXCEPT ![a] = @ - 1] EXCEPT ![a] = @ + 1] = [b EXCEPT ![a] = (b[a] - 1) + 1]
    OBVIOUS
  <2>4. (b[a] - 1) + 1 = b[a]
    OBVIOUS
  <2>5. QED BY <2>2, <2>3, <2>4
<1>6. [s.owners EXCEPT ![t] = a] = s.owners
  BY <1>1 DEF IsStorage
<1> HIDE DEF balances
<1>7. Shaped(s)
  BY DEF IsStorage, Shaped
<1>8. WithOwner(s, t, a, balances)
        = [ owners           |-> [s.owners EXCEPT ![t] = a],
            balances         |-> balances,
            ownedTokens      |-> s.ownedTokens,
            ownedTokensIndex |-> s.ownedTokensIndex,
            allTokens        |-> s.allTokens,
            allTokensIndex   |-> s.allTokensIndex ]
  BY <1>7, WithOwnerForm
<1>9. QED BY <1>4, <1>5, <1>6, <1>7, <1>8, Zenon DEF Shaped
-----------------------------------------------------------------------------
(***************************************************************************)
(* Call stacks.                                                            *)
(***************************************************************************)
IsStack(fs) == fs \in Seq({fs[i] : i \in 1 .. Len(fs)})

Pushed(stack, f, fs) == /\ IsStack(fs)
                        /\ Len(stack) \in Nat
                        /\ Len(fs) = Len(stack) + 1
                        /\ \A i \in 1 .. Len(stack) : fs[i] = stack[i]
                        /\ fs[Len(stack) + 1] = f

\* Entering a receiver adds one frame at the end.
LEMMA PushedFrame ==
    ASSUME NEW stack, IsStack(stack), NEW f
    PROVE  Pushed(stack, f, Append(stack, f))
<1>0. PICK fs : fs = Append(stack, f)
  OBVIOUS
<1> DEFINE S == {stack[i] : i \in 1 .. Len(stack)} \cup {f}
<1>1. stack \in Seq(S)
  BY SeqMonotonic, Zenon DEF IsStack
<1>2. f \in S
  OBVIOUS
<1> HIDE DEF S
<1>3. Len(stack) \in Nat
  BY <1>1, LenProperties
<1>4. /\ fs \in Seq(S)
      /\ Len(fs) = Len(stack) + 1
      /\ \A i \in 1 .. Len(stack) : fs[i] = stack[i]
      /\ fs[Len(stack) + 1] = f
  BY <1>0, <1>1, <1>2
<1>5. IsStack(fs)
  <2>1. fs = [i \in 1 .. Len(fs) |-> fs[i]] /\ Len(fs) \in Nat
    BY <1>4, LenProperties
  <2>2. fs \in [1 .. Len(fs) -> {fs[i] : i \in 1 .. Len(fs)}]
    BY <2>1
  <2>3. QED BY <2>1, <2>2, FunctionIsSequence DEF IsStack
<1>6. QED BY <1>0, <1>3, <1>4, <1>5 DEF Pushed

\* Leaving a receiver removes the last frame.
LEMMA PoppedFrame ==
    ASSUME NEW stack, IsStack(stack), stack # << >>,
           NEW fs, fs = [i \in 1 .. Len(stack) - 1 |-> stack[i]]
    PROVE  /\ IsStack(fs)
           /\ Len(stack) \in Nat \ {0}
           /\ Len(fs) = Len(stack) - 1
           /\ \A i \in 1 .. Len(fs) : fs[i] = stack[i]
<1> DEFINE n == Len(stack) - 1
<1>1. Len(stack) \in Nat \ {0}
  BY EmptySeq, Zenon DEF IsStack
<1>2. n \in Nat
  BY <1>1
<1>3. fs \in [1 .. n -> {stack[i] : i \in 1 .. n}]
  OBVIOUS
<1>4. fs \in Seq({stack[i] : i \in 1 .. n})
  BY <1>2, <1>3, FunctionIsSequence
<1>5. Len(fs) \in Nat /\ DOMAIN fs = 1 .. Len(fs) /\ DOMAIN fs = 1 .. n
  BY <1>4, LenProperties
<1>6. Len(fs) = n
  BY <1>2, <1>5
<1>7. \A i \in 1 .. Len(fs) : fs[i] = stack[i]
  BY <1>6
<1>8. {fs[i] : i \in 1 .. Len(fs)} = {stack[i] : i \in 1 .. n}
  BY <1>6, <1>7
<1>9. QED BY <1>1, <1>4, <1>6, <1>7, <1>8 DEF IsStack
=============================================================================
