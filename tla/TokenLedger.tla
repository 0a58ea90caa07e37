---------------------------- MODULE TokenLedger ----------------------------
(***************************************************************************)
(* What a physical-backed-token contract promises to its users, without    *)
(* its storage, its call stack or its enumeration: a token belongs to      *)
(* nobody or to one account, and it changes hands only for an account that *)
(* a chip of the token has signed for not long ago.                        *)
(*                                                                         *)
(* Time is the number of the block being built.  A signature is kept with  *)
(* the number of the block whose hash it covers.                           *)
(***************************************************************************)
EXTENDS Integers, FiniteSets

CONSTANTS Account, TokenId, Chip,
          Nobody,      \* the owner of a token that was not minted
          NoToken,     \* the token of a chip that is not mapped
          Window       \* how many blocks a signature is good for

VARIABLES owner,       \* the owner of each token
          tokenOf,     \* the token each chip is mapped to
          signatures,  \* the signatures chips have made for a known block
          block        \* the number of the block being built

vars == <<owner, tokenOf, signatures, block>>

Signature == [chip : Chip, to : Account, block : Nat]

TypeOK == /\ owner \in [TokenId -> Account \cup {Nobody}]
          /\ tokenOf \in [Chip -> TokenId \cup {NoToken}]
          /\ signatures \subseteq Signature
          /\ block \in Nat

\* Some chip of t has signed for a, and the signature has not expired.
Entitled(a, t) == \E s \in signatures : /\ s.to = a
                                        /\ tokenOf[s.chip] = t
                                        /\ block - s.block \in 1 .. Window

Init == /\ owner = [t \in TokenId |-> Nobody]
        /\ tokenOf = [c \in Chip |-> NoToken]
        /\ signatures = {}
        /\ block = 1

\* One transaction may move several tokens: a receiver called back by the
\* contract can claim others.  It never takes a token back from circulation.
Claim ==
    /\ owner' \in [TokenId -> Account \cup {Nobody}]
    /\ \A t \in TokenId : owner'[t] # owner[t] => /\ owner'[t] \in Account
                                                  /\ Entitled(owner'[t], t)
    /\ UNCHANGED <<tokenOf, signatures, block>>

ChipsOf(t) == {c \in Chip : tokenOf[c] = t}

\* The administrator changes the mapping of chips to tokens.  A token in
\* circulation may change or lose its chips but never has more of them.
Remap ==
    /\ tokenOf' \in [Chip -> TokenId \cup {NoToken}]
    /\ \A t \in TokenId : owner[t] # Nobody =>
                             Cardinality(ChipsOf(t)') <= Cardinality(ChipsOf(t))
    /\ UNCHANGED <<owner, signatures, block>>

\* A chip signs for an account and a block that was already mined.
Sign == /\ \E c \in Chip, a \in Account, b \in 0 .. block - 1 :
              signatures' = signatures \cup {[chip |-> c, to |-> a, block |-> b]}
        /\ UNCHANGED <<owner, tokenOf, block>>

NewBlock == /\ block' = block + 1
            /\ UNCHANGED <<owner, tokenOf, signatures>>

Next == Claim \/ Remap \/ Sign \/ NewBlock

Spec == Init /\ [][Next]_vars
=============================================================================
