---------------------------- MODULE ClaimSession ----------------------------
(***************************************************************************)
(* The page of SigningSession with its wallet and its claim: the claim     *)
(* handler sends the stored pair in a transaction, which the contract      *)
(* checks in whatever block it gets into.  When the page hears of another  *)
(* account is left open: it may go on with the old one for any time.       *)
(*                                                                         *)
(* The claim button is disabled while its handler runs; the sign and scan  *)
(* buttons are not, so that their flows go on next to a claim.             *)
(***************************************************************************)
EXTENDS SigningSession

CONSTANT Window  \* getMaxBlockhashValidWindow

ASSUME WindowAssumption == Window \in Nat

VARIABLES wallet, \* whether the page has its wallet
          claim   \* what the claim handler works on

pageVars == <<wallet, claim>>
claimVars == <<vars, pageVars>>

NoClaim == [step |-> "idle", pair |-> None, sender |-> None]

ClaimTypeOK == /\ TypeOK
               /\ wallet \in {"off", "on"}
               /\ \/ claim = NoClaim
                  \/ claim \in [step : {"asked"}, pair : Stored, sender : {None}]
                  \/ claim \in [step : {"sent"}, pair : Stored, sender : Account]

ClaimInit == /\ Init
             /\ wallet = "off"
             /\ claim = NoClaim
-----------------------------------------------------------------------------
(***************************************************************************)
(* The wallet.                                                             *)
(***************************************************************************)

\* At load, or by a button: connectWalletSuccess.
ConnectWallet == /\ wallet = "off"
                 /\ wallet' = "on"
                 /\ UNCHANGED <<vars, claim>>

AccountChanges(a) == /\ a # account
                     /\ SwitchAccount(a)
                     /\ UNCHANGED pageVars

\* changeCallback, if the page listens and the event has reached it, or the user: a page
\* may go on with the old account for any time, or for good.
PageReloads == /\ Reload
               /\ wallet' = "off"
               /\ claim' = NoClaim
-----------------------------------------------------------------------------
(***************************************************************************)
(* The claim.                                                              *)
(***************************************************************************)

\* Mutant: the block of the claim is the latest one.
LatestPair == [form EXCEPT !.block = block]

PairToClaim == form

\* The form is read at once.  A wallet that is not connected ends the handler.
ClickClaim == /\ claim = NoClaim
              /\ form # None
              /\ wallet # "off"
              /\ claim' = [step |-> "asked", pair |-> PairToClaim, sender |-> None]
              /\ UNCHANGED <<vars, wallet>>

\* getSigner(): the transaction comes from the account that is selected by then.
SendClaim == /\ claim.step = "asked"
             /\ claim' = [claim EXCEPT !.step = "sent", !.sender = account]
             /\ UNCHANGED <<vars, wallet>>

InTime(b, n) == b < n /\ n - b <= Window

\* _getChipAddressForChipSignature in block n: the signature is one of the message
\* made of the sender and the hash of the block.
Recognised(c, n) == /\ InTime(c.pair.block, n)
                    /\ c.pair.signature # OtherText
                    /\ c.pair.signature.to = c.sender
                    /\ c.pair.signature.block = c.pair.block

\* The gas is estimated in the latest block or the next one, and the transaction
\* gets into a later one.
Refuse(n) == /\ claim.step = "sent"
             /\ n \in {block, block + 1}
             /\ ~ Recognised(claim, n)
             /\ claim' = NoClaim
             /\ UNCHANGED <<vars, wallet>>

Accept == /\ claim.step = "sent"
          /\ NewBlock
          /\ Recognised(claim, block')
          /\ claim' = NoClaim
          /\ UNCHANGED wallet

\* The user declines, a promise is rejected, or the contract has another reason: the
\* chip is not mapped, or the token belongs to the sender already.
GiveUp == /\ claim # NoClaim
          /\ claim' = NoClaim
          /\ UNCHANGED <<vars, wallet>>
-----------------------------------------------------------------------------
PageStep == ConnectWallet \/ PageReloads
            \/ ClickClaim \/ SendClaim \/ GiveUp

ChainStep == Accept \/ \E n \in {block, block + 1} : Refuse(n)

SessionStep == /\ \/ \E f \in Flow : FlowStep(f)
                  \/ NewBlock
                  \/ \E d \in Device : LoseLink(d) \/ UseElsewhere(d)
               /\ UNCHANGED pageVars

ClaimNext == PageStep \/ ChainStep \/ SessionStep
             \/ \E a \in Account : AccountChanges(a)

ClaimSpec == ClaimInit /\ [][ClaimNext]_claimVars
-----------------------------------------------------------------------------
(***************************************************************************)
(* Properties.                                                             *)
(***************************************************************************)

\* Whatever is cancelled, lost or reloaded, and whichever flows run next to it: a
\* signature that the page stored and claims is refused only before the next block,
\* or after the window, or when another account sends it.
RefusedForAReason ==
    [][\A n \in {block, block + 1} : Refuse(n) =>
          ~ InTime(claim.pair.block, n) \/ claim.sender # claim.pair.account]_claimVars
=============================================================================
