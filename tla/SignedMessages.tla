-------------------------- MODULE SignedMessages --------------------------
(***************************************************************************)
(* Acting for the holder of a staked token of the later implementations:   *)
(* allowances, which a spender uses with transferFrom, and messages signed *)
(* off the chain, which anybody may submit, as often as he likes, in any   *)
(* order and at any time: permit, delegateBySig and delegateByTypeBySig.   *)
(* All three kinds consume the one nonce of their owner.                   *)
(*                                                                         *)
(* A signature is modelled by what it achieves: a call is accepted as the  *)
(* message of its owner only with the very fields that were signed.  Every *)
(* message with a nonce of Nonces counts as signed; a holder who did not   *)
(* sign one is the behaviour in which nobody submits it.                   *)
(***************************************************************************)
EXTENDS StakedTokenV3

CONSTANTS Nonces,       \* of the messages that are signed
          Deadlines     \* until when they are valid

VARIABLES allowances,   \* of each owner for each spender
          nonces,       \* of each owner
          accepted,     \* history: the nonces of each owner's accepted messages
          granted,      \* history: what each owner agreed to have spent, a message once
          spent         \* history: what each spender moved of each owner's

mandateVars == <<allowances, nonces, accepted, granted, spent>>
signedVars == <<vars, mandateVars>>

SignedInit ==
  /\ Init
  /\ allowances = [o \in Users |-> [s \in Users |-> 0]]
  /\ nonces = [o \in Users |-> 0]
  /\ accepted = [o \in Users |-> <<>>]
  /\ granted = [o \in Users |-> [s \in Users |-> 0]]
  /\ spent = [o \in Users |-> [s \in Users |-> 0]]

----------------------------------------------------------------------------
(* Allowances. *)

Approve(owner, spender, amount) ==
  /\ allowances' = [allowances EXCEPT ![owner][spender] = amount]
  /\ granted' = [granted EXCEPT ![owner][spender] = @ + amount]
  /\ UNCHANGED <<vars, nonces, accepted, spent>>

(* A sum that does not fit uint256 reverts. *)
IncreaseAllowance(owner, spender, addedValue) ==
  /\ allowances[owner][spender] + addedValue <= MAX_UINT
  /\ allowances' = [allowances EXCEPT ![owner][spender] = @ + addedValue]
  /\ granted' = [granted EXCEPT ![owner][spender] = @ + addedValue]
  /\ UNCHANGED <<vars, nonces, accepted, spent>>

DecreaseAllowance(owner, spender, subtractedValue) ==
  /\ allowances[owner][spender] >= subtractedValue
  /\ allowances' = [allowances EXCEPT ![owner][spender] = @ - subtractedValue]
  /\ UNCHANGED <<vars, nonces, accepted, granted, spent>>

(* Mutant: the allowance charged is the one the other way round. *)
TransferFromSwapped(spender, from, to, amount) ==
  /\ Transfer(from, to, amount)
  /\ allowances[spender][from] >= amount
  /\ allowances' = [allowances EXCEPT ![spender][from] = @ - amount]
  /\ spent' = [spent EXCEPT ![from][spender] = @ + amount]
  /\ UNCHANGED <<nonces, accepted, granted>>

(* transferFrom: the transfer, with all it does to rewards, cooldowns and   *)
(* power, and then the allowance, or neither.                               *)
TransferFrom(spender, from, to, amount) ==
  /\ Transfer(from, to, amount)
  /\ allowances[from][spender] >= amount
  /\ allowances' = [allowances EXCEPT ![from][spender] = @ - amount]
  /\ spent' = [spent EXCEPT ![from][spender] = @ + amount]
  /\ UNCHANGED <<nonces, accepted, granted>>

----------------------------------------------------------------------------
(* Messages. *)

(* Mutant: only an outdated nonce is refused, and the counter is not moved. *)
ConsumeKeepsNonce(owner, nonce, deadline) ==
  /\ nonce >= nonces[owner]
  /\ now <= deadline
  /\ accepted' = [accepted EXCEPT ![owner] = Append(@, nonce)]
  /\ UNCHANGED nonces

(* Mutant: a nonce ahead of the counter is accepted and counted as one. *)
ConsumeAhead(owner, nonce, deadline) ==
  /\ nonce >= nonces[owner]
  /\ now <= deadline
  /\ nonces' = [nonces EXCEPT ![owner] = @ + 1]
  /\ accepted' = [accepted EXCEPT ![owner] = Append(@, nonce)]

(* What every message passes: the nonce of the moment, in time. *)
Consume(owner, nonce, deadline) ==
  /\ nonce = nonces[owner]
  /\ now <= deadline
  /\ nonces' = [nonces EXCEPT ![owner] = @ + 1]
  /\ accepted' = [accepted EXCEPT ![owner] = Append(@, nonce)]

Permit(owner, spender, value, nonce, deadline) ==
  /\ Consume(owner, nonce, deadline)
  /\ allowances' = [allowances EXCEPT ![owner][spender] = value]
  /\ granted' = IF \E i \in DOMAIN accepted[owner] : accepted[owner][i] = nonce
                THEN granted ELSE [granted EXCEPT ![owner][spender] = @ + value]
  /\ UNCHANGED <<vars, spent>>

DelegateByTypeBySig(signatory, delegatee, type, nonce, expiry) ==
  /\ Consume(signatory, nonce, expiry)
  /\ DelegateByType(signatory, delegatee, type)
  /\ UNCHANGED <<allowances, granted, spent>>

DelegateBySig(signatory, delegatee, nonce, expiry) ==
  /\ Consume(signatory, nonce, expiry)
  /\ Delegate(signatory, delegatee)
  /\ UNCHANGED <<allowances, granted, spent>>

SignedNext ==
  \/ Next /\ UNCHANGED mandateVars
  \/ \E owner, spender \in Users, amount \in Amounts \cup {0} :
       Approve(owner, spender, amount)
  \/ \E owner, spender \in Users, amount \in Amounts :
       \/ IncreaseAllowance(owner, spender, amount)
       \/ DecreaseAllowance(owner, spender, amount)
  \/ \E spender, from, to \in Users, amount \in Amounts :
       TransferFrom(spender, from, to, amount)
  \/ \E owner, other \in Users, nonce \in Nonces, deadline \in Deadlines :
       \/ \E value \in Amounts : Permit(owner, other, value, nonce, deadline)
       \/ \E type \in DelegationTypes :
            DelegateByTypeBySig(owner, other, type, nonce, deadline)
       \/ DelegateBySig(owner, other, nonce, deadline)

SignedSpec == SignedInit /\ [][SignedNext]_signedVars

----------------------------------------------------------------------------
(* Properties. *)

(* Whatever is resubmitted, submitted late or out of order, a spender never *)
(* moves more of somebody's stake than its owner agreed to over time, where *)
(* a signed permit counts once and a message with a nonce used by another   *)
(* message, of whichever kind, counts for nothing.                          *)
SpentWithinGrants ==
  \A owner, spender \in Users :
    spent[owner][spender] + allowances[owner][spender] <= granted[owner][spender]

(* The messages of an owner have effect in the order of their nonces, each  *)
(* at most once and none skipped, permits and delegations together: signing *)
(* another message with the nonce of an unused one cancels that for good.   *)
MessagesInOrder ==
  \A owner \in Users : \A i \in DOMAIN accepted[owner] : accepted[owner][i] = i - 1
============================================================================
