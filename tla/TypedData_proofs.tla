-------------------------- MODULE TypedData_proofs --------------------------
(***************************************************************************)
(* A signature takes effect once, for any users, tokens, chains, names and *)
(* bounds: its hash names the place and the nonce, and the token of that   *)
(* place has left the nonce behind.                                        *)
(* What was signed is recognised by the token it was signed for, and       *)
(* nothing but what was signed changes an allowance or a delegation.       *)
(***************************************************************************)
EXTENDS TypedData, TLAPS

(* The chain id and the address that a hash is for, and the nonce in it.   *)
PlaceOf(hash) == <<hash[1][3][2], hash[1][4][2]>>

NonceOf(hash) ==
  IF hash[2][1] = "Permit" THEN hash[3][4]
  ELSE IF hash[2][1] = "DelegateByType" THEN hash[3][3] ELSE hash[3][2]

LeftBehind(signature) ==
  /\ signature.signer \in Users /\ PlaceOf(signature.hash) \in Places
  /\ NonceOf(signature.hash) \in Nat
  /\ NonceOf(signature.hash) < nonces[PlaceOf(signature.hash)][signature.signer]

IInv ==
  /\ nonces \in [Places -> [Users -> Nat]]
  /\ accepted \in Seq(signatures)
  /\ \A i \in DOMAIN accepted : LeftBehind(accepted[i])
  /\ TakesEffectOnce

(* What the three calls have in common: the signature is for this place    *)
(* and the nonce of the moment, which is counted.                          *)
TakesEffect(place, owner, signature) ==
  /\ owner \in Users /\ signature.signer = owner
  /\ PlaceOf(signature.hash) = place
  /\ NonceOf(signature.hash) = nonces[place][owner]
  /\ accepted' = Append(accepted, signature)
  /\ nonces' = [nonces EXCEPT ![place][owner] = @ + 1]

LEMMA PermitTakesEffect ==
  ASSUME NEW place \in Places, NEW owner \in Users, NEW spender, NEW value, NEW deadline,
         NEW signature, Permit(place, owner, spender, value, deadline, signature)
  PROVE  TakesEffect(place, owner, signature)
<1> DEFINE digest == Digest(place, PERMIT_TYPEHASH,
                       <<owner, spender, value, nonces[place][owner], deadline>>)
<1>1. signature.hash = digest /\ signature.signer = owner
  BY TypedDataAssumption DEF Permit, PermitAccepts, Ecrecover
<1>2. PlaceOf(digest) = place /\ NonceOf(digest) = nonces[place][owner]
  BY TypedDataAssumption
  DEF Digest, PERMIT_TYPEHASH, DomainSeparator, EIP712Domain, PlaceOf, NonceOf
<1> QED BY <1>1, <1>2 DEF Permit, TakesEffect

LEMMA DelegateByTypeTakesEffect ==
  ASSUME NEW place \in Places, NEW delegatee, NEW type, NEW nonce, NEW expiry, NEW signature,
         DelegateByTypeBySig(place, delegatee, type, nonce, expiry, signature)
  PROVE  TakesEffect(place, signature.signer, signature)
<1> DEFINE digest == Digest(place, DELEGATE_BY_TYPE_TYPEHASH,
                            <<delegatee, type, nonce, expiry>>)
           signatory == ByTypeSignatory(place, delegatee, type, nonce, expiry, signature)
<1>1. signatory \in Users /\ nonce = nonces[place][signatory]
  BY DEF DelegateByTypeBySig
<1>2. signature.hash = digest /\ signature.signer = signatory
  BY <1>1, TypedDataAssumption DEF ByTypeSignatory, Ecrecover
<1>3. PlaceOf(digest) = place /\ NonceOf(digest) = nonce
  BY TypedDataAssumption
  DEF Digest, DELEGATE_BY_TYPE_TYPEHASH, DomainSeparator, EIP712Domain, PlaceOf, NonceOf
<1> QED BY <1>1, <1>2, <1>3 DEF DelegateByTypeBySig, TakesEffect

LEMMA DelegateTakesEffect ==
  ASSUME NEW place \in Places, NEW delegatee, NEW nonce, NEW expiry, NEW signature,
         DelegateBySig(place, delegatee, nonce, expiry, signature)
  PROVE  TakesEffect(place, signature.signer, signature)
<1> DEFINE digest == Digest(place, DELEGATE_TYPEHASH, <<delegatee, nonce, expiry>>)
           signatory == Signatory(place, delegatee, nonce, expiry, signature)
<1>1. signatory \in Users /\ nonce = nonces[place][signatory]
  BY DEF DelegateBySig
<1>2. signature.hash = digest /\ signature.signer = signatory
  BY <1>1, TypedDataAssumption DEF Signatory, Ecrecover
<1>3. PlaceOf(digest) = place /\ NonceOf(digest) = nonce
  BY TypedDataAssumption
  DEF Digest, DELEGATE_TYPEHASH, DomainSeparator, EIP712Domain, PlaceOf, NonceOf
<1> QED BY <1>1, <1>2, <1>3 DEF DelegateBySig, TakesEffect

(* The new signature was not accepted before, as its nonce was not yet     *)
(* left behind, and now is.                                                *)
LEMMA EffectKeepsInvariant ==
  ASSUME IInv, NEW place \in Places, NEW owner, NEW signature \in signatures,
         TakesEffect(place, owner, signature), UNCHANGED signatures
  PROVE  IInv'
<1> USE DEF TakesEffect
<1>1. nonces' \in [Places -> [Users -> Nat]] BY DEF IInv
<1>2. accepted' \in Seq(signatures') BY DEF IInv
<1>3. DOMAIN accepted = 1 .. Len(accepted) /\ DOMAIN accepted' = 1 .. Len(accepted) + 1
  BY DEF IInv
<1>4. accepted'[Len(accepted) + 1] = signature
      /\ \A i \in 1 .. Len(accepted) : accepted'[i] = accepted[i]
  BY DEF IInv
<1>5. nonces'[place][owner] = nonces[place][owner] + 1
      /\ \A p \in Places, u \in Users : nonces'[p][u] >= nonces[p][u]
  BY DEF IInv
<1>6. LeftBehind(signature)'
  BY <1>5 DEF IInv, LeftBehind
<1>7. \A s : LeftBehind(s) => LeftBehind(s)'
  <2> TAKE s
  <2> HAVE LeftBehind(s)
  <2>1. nonces[PlaceOf(s.hash)][s.signer] \in Nat
        /\ nonces'[PlaceOf(s.hash)][s.signer] \in Nat
    BY <1>1 DEF IInv, LeftBehind
  <2> QED BY <2>1, <1>5 DEF LeftBehind
<1>8. (\A i \in DOMAIN accepted : LeftBehind(accepted[i]))'
  BY <1>3, <1>4, <1>6, <1>7 DEF IInv
<1>9. \A i \in 1 .. Len(accepted) : accepted[i] # signature
  <2>1. ~LeftBehind(signature)
    <3>1. nonces[place][owner] \in Nat BY DEF IInv
    <3> QED BY <3>1 DEF LeftBehind
  <2> QED BY <2>1, <1>3 DEF IInv
<1>10. TakesEffectOnce'
  BY <1>3, <1>4, <1>9 DEF IInv, TakesEffectOnce
<1> QED BY <1>1, <1>2, <1>8, <1>10 DEF IInv

LEMMA Initially == Init => IInv
BY DEF Init, IInv, TakesEffectOnce

LEMMA SigningKeepsInvariant ==
  ASSUME IInv, signatures \subseteq signatures', UNCHANGED <<nonces, accepted>>
  PROVE  IInv'
<1>1. accepted' \in Seq(signatures') BY DEF IInv
<1> QED BY <1>1 DEF IInv, LeftBehind, TakesEffectOnce

LEMMA SubmittingKeepsInvariant ==
  ASSUME IInv, NEW place \in Places, NEW signature \in signatures, NEW deadline \in Deadlines,
         Submit(place, signature, deadline)
  PROVE  IInv'
<1>1. CASE \E owner, spender \in Users, value \in Values :
             Permit(place, owner, spender, value, deadline, signature)
  BY <1>1, PermitTakesEffect, EffectKeepsInvariant DEF Permit
<1>2. CASE \E delegatee \in Users, nonce \in 0 .. MaxNonce, type \in Types :
             DelegateByTypeBySig(place, delegatee, type, nonce, deadline, signature)
  BY <1>2, DelegateByTypeTakesEffect, EffectKeepsInvariant DEF DelegateByTypeBySig
<1>3. CASE \E delegatee \in Users, nonce \in 0 .. MaxNonce :
             DelegateBySig(place, delegatee, nonce, deadline, signature)
  BY <1>3, DelegateTakesEffect, EffectKeepsInvariant DEF DelegateBySig
<1> QED BY <1>1, <1>2, <1>3 DEF Submit

(* IInv is an inductive invariant. *)
THEOREM Inductive == Spec => []IInv
<1>1. IInv /\ [Next]_vars => IInv'
  <2> SUFFICES ASSUME IInv, [Next]_vars PROVE IInv' OBVIOUS
  <2>1. ASSUME NEW owner \in Users, NEW other \in Users, NEW place \in Places,
               NEW deadline \in Deadlines, SignAny(owner, place, other, deadline)
        PROVE  IInv'
    BY <2>1, SigningKeepsInvariant DEF SignAny, Sign, chain
  <2>2. ASSUME NEW place \in Places, NEW signature \in signatures, NEW deadline \in Deadlines,
               Submit(place, signature, deadline)
        PROVE  IInv'
    BY <2>2, SubmittingKeepsInvariant
  <2>3. CASE Tick
    BY <2>3, SigningKeepsInvariant DEF Tick, chain
  <2>4. CASE UNCHANGED vars
    BY <2>4, SigningKeepsInvariant DEF vars
  <2> QED BY <2>1, <2>2, <2>3, <2>4 DEF Next
<1> QED BY <1>1, Initially, PTL DEF Spec

(* A signature takes effect once: permit, delegateBySig and                *)
(* delegateByTypeBySig accept it neither again nor elsewhere.              *)
THEOREM EffectOnce == Spec => []TakesEffectOnce
<1>1. IInv => TakesEffectOnce BY DEF IInv
<1> QED BY <1>1, Inductive, PTL

----------------------------------------------------------------------------
(* Wallet and token write the same: the hash of typed data, type by type,  *)
(* is the digest of the token, provided it has the name that is signed.    *)

LEMMA ThreeValues ==
  ASSUME NEW a, NEW b, NEW c, NEW t, NEW m, DOMAIN t = 1 .. 3,
         m[t[1]] = a, m[t[2]] = b, m[t[3]] = c
  PROVE  [i \in DOMAIN t |-> m[t[i]]] = <<a, b, c>>
OBVIOUS

LEMMA ThreeTypes ==
  ASSUME NEW a, NEW b, NEW c
  PROVE  DOMAIN <<a, b, c>> = 1 .. 3
OBVIOUS

LEMMA FourValues ==
  ASSUME NEW a, NEW b, NEW c, NEW d, NEW t, NEW m, DOMAIN t = 1 .. 4,
         m[t[1]] = a, m[t[2]] = b, m[t[3]] = c, m[t[4]] = d
  PROVE  [i \in DOMAIN t |-> m[t[i]]] = <<a, b, c, d>>
OBVIOUS

LEMMA FourTypes ==
  ASSUME NEW a, NEW b, NEW c, NEW d
  PROVE  DOMAIN <<a, b, c, d>> = 1 .. 4
OBVIOUS

LEMMA FiveValues ==
  ASSUME NEW a, NEW b, NEW c, NEW d, NEW e, NEW t, NEW m, DOMAIN t = 1 .. 5,
         m[t[1]] = a, m[t[2]] = b, m[t[3]] = c, m[t[4]] = d, m[t[5]] = e
  PROVE  [i \in DOMAIN t |-> m[t[i]]] = <<a, b, c, d, e>>
OBVIOUS

LEMMA FiveTypes ==
  ASSUME NEW a, NEW b, NEW c, NEW d, NEW e
  PROVE  DOMAIN <<a, b, c, d, e>> = 1 .. 5
OBVIOUS

LEMMA DelegateValues ==
  ASSUME NEW delegatee, NEW nonce, NEW expiry, NEW data,
         data.types = <<"delegatee", "nonce", "expiry">>,
         data.message = [delegatee |-> delegatee, nonce |-> nonce, expiry |-> expiry]
  PROVE  [i \in DOMAIN data.types |-> data.message[data.types[i]]]
         = <<delegatee, nonce, expiry>>
<1>1. DOMAIN data.types = 1 .. 3 BY ThreeTypes
<1>2. data.message[data.types[1]] = delegatee OBVIOUS
<1>3. data.message[data.types[2]] = nonce OBVIOUS
<1>4. data.message[data.types[3]] = expiry OBVIOUS
<1> QED BY ONLY <1>1, <1>2, <1>3, <1>4, ThreeValues

LEMMA DelegateByTypeValues ==
  ASSUME NEW delegatee, NEW type, NEW nonce, NEW expiry, NEW data,
         data.types = <<"delegatee", "type", "nonce", "expiry">>,
         data.message = [delegatee |-> delegatee, type |-> type, nonce |-> nonce, expiry |-> expiry]
  PROVE  [i \in DOMAIN data.types |-> data.message[data.types[i]]]
         = <<delegatee, type, nonce, expiry>>
<1>1. DOMAIN data.types = 1 .. 4 BY FourTypes
<1>2. data.message[data.types[1]] = delegatee OBVIOUS
<1>3. data.message[data.types[2]] = type OBVIOUS
<1>4. data.message[data.types[3]] = nonce OBVIOUS
<1>5. data.message[data.types[4]] = expiry OBVIOUS
<1> QED BY ONLY <1>1, <1>2, <1>3, <1>4, <1>5, FourValues

LEMMA PermitValues ==
  ASSUME NEW owner, NEW spender, NEW value, NEW nonce, NEW deadline, NEW data,
         data.types = <<"owner", "spender", "value", "nonce", "deadline">>,
         data.message = [owner |-> owner, spender |-> spender, value |-> value, nonce |-> nonce, deadline |-> deadline]
  PROVE  [i \in DOMAIN data.types |-> data.message[data.types[i]]]
         = <<owner, spender, value, nonce, deadline>>
<1>1. DOMAIN data.types = 1 .. 5 BY FiveTypes
<1>2. data.message[data.types[1]] = owner OBVIOUS
<1>3. data.message[data.types[2]] = spender OBVIOUS
<1>4. data.message[data.types[3]] = value OBVIOUS
<1>5. data.message[data.types[4]] = nonce OBVIOUS
<1>6. data.message[data.types[5]] = deadline OBVIOUS
<1> QED BY ONLY <1>1, <1>2, <1>3, <1>4, <1>5, <1>6, FiveValues

(* What is signed for a permit is what the token hashes for it. *)
PermitAgrees(place, owner, spender, value, nonce, deadline) ==
  HashTypedData(BuildPermitParams(place[1], place[2], owner, spender, nonce, deadline, value))
  = Digest(place, PERMIT_TYPEHASH, <<owner, spender, value, nonce, deadline>>)

LEMMA PermitHash ==
  ASSUME NEW place \in Places, NameOf[place[2]] = "Staked Lay",
         NEW owner, NEW spender, NEW value, NEW nonce, NEW deadline
  PROVE  PermitAgrees(place, owner, spender, value, nonce, deadline)
<1> DEFINE data == BuildPermitParams(place[1], place[2], owner, spender, nonce, deadline, value)
<1>1. data.domain = DomainSeparator(place)
  BY DEF BuildPermitParams, WalletDomain, DomainSeparator
<1>2. <<data.primaryType, data.types>> = PERMIT_TYPEHASH
  BY DEF BuildPermitParams, PERMIT_TYPEHASH
<1>3. [i \in DOMAIN data.types |-> data.message[data.types[i]]]
      = <<owner, spender, value, nonce, deadline>>
  <2>1. data.types = <<"owner", "spender", "value", "nonce", "deadline">>
    BY DEF BuildPermitParams
  <2>2. data.message = [owner |-> owner, spender |-> spender, value |-> value, nonce |-> nonce, deadline |-> deadline]
    BY DEF BuildPermitParams
  <2> HIDE DEF data
  <2> QED BY ONLY <2>1, <2>2, PermitValues
<1> QED BY <1>1, <1>2, <1>3 DEF PermitAgrees, HashTypedData, Digest

(* And for a delegation by type. *)
DelegateByTypeAgrees(place, delegatee, type, nonce, expiry) ==
  HashTypedData(BuildDelegateByTypeParams(place[1], place[2], delegatee, type, nonce, expiry))
  = Digest(place, DELEGATE_BY_TYPE_TYPEHASH, <<delegatee, type, nonce, expiry>>)

LEMMA DelegateByTypeHash ==
  ASSUME NEW place \in Places, NameOf[place[2]] = "Staked Lay",
         NEW delegatee, NEW type, NEW nonce, NEW expiry
  PROVE  DelegateByTypeAgrees(place, delegatee, type, nonce, expiry)
<1> DEFINE data == BuildDelegateByTypeParams(place[1], place[2], delegatee, type, nonce, expiry)
<1>1. data.domain = DomainSeparator(place)
  BY DEF BuildDelegateByTypeParams, WalletDomain, DomainSeparator
<1>2. <<data.primaryType, data.types>> = DELEGATE_BY_TYPE_TYPEHASH
  BY DEF BuildDelegateByTypeParams, DELEGATE_BY_TYPE_TYPEHASH
<1>3. [i \in DOMAIN data.types |-> data.message[data.types[i]]]
      = <<delegatee, type, nonce, expiry>>
  <2>1. data.types = <<"delegatee", "type", "nonce", "expiry">>
    BY DEF BuildDelegateByTypeParams
  <2>2. data.message = [delegatee |-> delegatee, type |-> type, nonce |-> nonce, expiry |-> expiry]
    BY DEF BuildDelegateByTypeParams
  <2> HIDE DEF data
  <2> QED BY ONLY <2>1, <2>2, DelegateByTypeValues
<1> QED BY <1>1, <1>2, <1>3 DEF DelegateByTypeAgrees, HashTypedData, Digest

LEMMA DelegateHash ==
  ASSUME NEW place \in Places, NameOf[place[2]] = "Staked Lay",
         NEW delegatee, NEW nonce, NEW expiry
  PROVE  HashTypedData(BuildDelegateParams(place[1], place[2], delegatee, nonce, expiry))
         = Digest(place, DELEGATE_TYPEHASH, <<delegatee, nonce, expiry>>)
<1> DEFINE data == BuildDelegateParams(place[1], place[2], delegatee, nonce, expiry)
<1>1. data.domain = DomainSeparator(place)
  BY DEF BuildDelegateParams, WalletDomain, DomainSeparator
<1>2. <<data.primaryType, data.types>> = DELEGATE_TYPEHASH
  BY DEF BuildDelegateParams, DELEGATE_TYPEHASH
<1>3. [i \in DOMAIN data.types |-> data.message[data.types[i]]] = <<delegatee, nonce, expiry>>
  <2>1. data.types = <<"delegatee", "nonce", "expiry">>
    BY DEF BuildDelegateParams
  <2>2. data.message = [delegatee |-> delegatee, nonce |-> nonce, expiry |-> expiry]
    BY DEF BuildDelegateParams
  <2> HIDE DEF data
  <2> QED BY ONLY <2>1, <2>2, DelegateValues
<1> QED BY <1>1, <1>2, <1>3 DEF HashTypedData, Digest

----------------------------------------------------------------------------
(* Every signature is over the domain of the helpers; with the types, that *)
(* is all that is needed of the past.                                      *)

SInv ==
  \A s \in signatures :
    s = [signer |-> s.signer, hash |-> s.hash] /\ s.hash[1][1][2] = "Staked Lay"

AInv == TypeOK /\ SInv

LEMMA SignedUnderTheName ==
  ASSUME SInv, NEW place \in Places, NEW typehash, NEW values, NEW signature \in signatures,
         signature.hash = Digest(place, typehash, values)
  PROVE  /\ NameOf[place[2]] = "Staked Lay"
         /\ signature = [signer |-> signature.signer, hash |-> Digest(place, typehash, values)]
<1>1. Digest(place, typehash, values)[1][1][2] = NameOf[place[2]]
  BY DEF Digest, DomainSeparator, EIP712Domain
<1> QED BY <1>1 DEF SInv

LEMMA AcceptedWereSigned ==
  ASSUME accepted \in Seq(signatures), NEW signature \in signatures, UNCHANGED signatures,
         accepted' = Append(accepted, signature)
  PROVE  accepted' \in Seq(signatures')
OBVIOUS

LEMMA PermitWasSigned ==
  ASSUME AInv, NEW place \in Places, NEW owner \in Users, NEW spender \in Users, NEW value \in Values,
         NEW deadline \in Deadlines, NEW signature \in signatures,
         Permit(place, owner, spender, value, deadline, signature)
  PROVE  TypeOK' /\ ChangesWereSigned
<1> DEFINE values == <<owner, spender, value, nonces[place][owner], deadline>>
<1>1. /\ signature.hash = Digest(place, PERMIT_TYPEHASH, values)
      /\ signature.signer = owner /\ deadline \in InTime
  BY TypedDataAssumption DEF Permit, PermitAccepts, Ecrecover, InTime
<1>2. /\ NameOf[place[2]] = "Staked Lay"
      /\ signature = [signer |-> owner, hash |-> Digest(place, PERMIT_TYPEHASH, values)]
  BY <1>1, SignedUnderTheName DEF AInv
<1>3. Signed(owner, BuildPermitParams(place[1], place[2], owner, spender,
                                      nonces[place][owner], deadline, value))
  <2>1. NameOf[place[2]] = "Staked Lay" BY <1>2
  <2>2. PermitAgrees(place, owner, spender, value, nonces[place][owner], deadline)
    BY <2>1, PermitHash
  <2> QED BY <1>2, <2>2 DEF PermitAgrees, Signed, GetSignatureFromTypedData
<1>4. /\ allowances' = [allowances EXCEPT ![place][owner][spender] = value]
      /\ allowances \in [Places -> [Users -> [Users -> Values \union {0}]]]
      /\ UNCHANGED delegates
  BY DEF Permit, AInv, TypeOK
<1>5. allowances'[place][owner][spender] = value
      /\ \A p \in Places, o, s \in Users :
           allowances'[p][o][s] # allowances[p][o][s] => p = place /\ o = owner /\ s = spender
  BY <1>4
<1>6. AllowanceWasSigned(place, owner, spender)
  BY <1>1, <1>3, <1>5 DEF AllowanceWasSigned
<1>7. ChangesWereSigned
  BY <1>4, <1>5, <1>6 DEF ChangesWereSigned
<1>8. allowances' \in [Places -> [Users -> [Users -> Values \union {0}]]]
  BY <1>4
<1>9. nonces' \in [Places -> [Users -> Nat]]
  BY DEF Permit, AInv, TypeOK
<1>10. TypeOK'
  BY <1>4, <1>8, <1>9, AcceptedWereSigned DEF Permit, AInv, TypeOK
<1> QED BY <1>7, <1>10

LEMMA DelegateByTypeWasSigned ==
  ASSUME AInv, NEW place \in Places, NEW delegatee \in Users, NEW type \in Types, NEW nonce,
         NEW deadline \in Deadlines, NEW signature \in signatures,
         DelegateByTypeBySig(place, delegatee, type, nonce, deadline, signature)
  PROVE  TypeOK' /\ ChangesWereSigned
<1> DEFINE values == <<delegatee, type, nonce, deadline>>
           owner == ByTypeSignatory(place, delegatee, type, nonce, deadline, signature)
<1>1. owner \in Users /\ nonce = nonces[place][owner] /\ deadline \in InTime
  BY DEF DelegateByTypeBySig, InTime
<1>2. signature.hash = Digest(place, DELEGATE_BY_TYPE_TYPEHASH, values) /\ signature.signer = owner
  BY <1>1, TypedDataAssumption DEF ByTypeSignatory, Ecrecover
<1>3. /\ NameOf[place[2]] = "Staked Lay"
      /\ signature = [signer |-> owner, hash |-> Digest(place, DELEGATE_BY_TYPE_TYPEHASH, values)]
  BY <1>2, SignedUnderTheName DEF AInv
<1>4. Signed(owner, BuildDelegateByTypeParams(place[1], place[2], delegatee, type, nonce, deadline))
  <2>1. NameOf[place[2]] = "Staked Lay" BY <1>3
  <2>2. DelegateByTypeAgrees(place, delegatee, type, nonce, deadline)
    BY <2>1, DelegateByTypeHash
  <2> HIDE DEF owner
  <2> QED BY <1>3, <2>2 DEF DelegateByTypeAgrees, Signed, GetSignatureFromTypedData
<1>5. /\ delegates' = [delegates EXCEPT ![place][owner][type] = delegatee]
      /\ nonces' = [nonces EXCEPT ![place][owner] = @ + 1]
      /\ UNCHANGED <<signatures, allowances, now>> /\ accepted' = Append(accepted, signature)
  BY DEF DelegateByTypeBySig
<1> HIDE DEF owner
<1>6. delegates \in [Places -> [Users -> [Types -> Users]]] BY DEF AInv, TypeOK
<1>7. delegates'[place][owner][type] = delegatee
      /\ \A p \in Places, o \in Users, t \in Types :
           delegates'[p][o][t] # delegates[p][o][t] => p = place /\ o = owner /\ t = type
  BY <1>1, <1>5, <1>6
<1>8. DelegationWasSigned(place, owner, type)
  BY <1>1, <1>4, <1>7 DEF DelegationWasSigned
<1>9. ChangesWereSigned
  BY <1>5, <1>7, <1>8 DEF ChangesWereSigned
<1>10. delegates' \in [Places -> [Users -> [Types -> Users]]]
  BY <1>1, <1>5, <1>6
<1>11. nonces' \in [Places -> [Users -> Nat]]
  BY <1>1, <1>5 DEF AInv, TypeOK
<1>12. TypeOK'
  BY <1>5, <1>10, <1>11, AcceptedWereSigned DEF AInv, TypeOK
<1> QED BY <1>9, <1>12

LEMMA DelegateWasSigned ==
  ASSUME AInv, NEW place \in Places, NEW delegatee \in Users, NEW nonce,
         NEW deadline \in Deadlines, NEW signature \in signatures,
         DelegateBySig(place, delegatee, nonce, deadline, signature)
  PROVE  TypeOK' /\ ChangesWereSigned
<1> DEFINE values == <<delegatee, nonce, deadline>>
           owner == Signatory(place, delegatee, nonce, deadline, signature)
<1>1. owner \in Users /\ nonce = nonces[place][owner] /\ deadline \in InTime
  BY DEF DelegateBySig, InTime
<1>2. signature.hash = Digest(place, DELEGATE_TYPEHASH, values) /\ signature.signer = owner
  BY <1>1, TypedDataAssumption DEF Signatory, Ecrecover
<1>3. /\ NameOf[place[2]] = "Staked Lay"
      /\ signature = [signer |-> owner, hash |-> Digest(place, DELEGATE_TYPEHASH, values)]
  BY <1>2, SignedUnderTheName DEF AInv
<1>4. Signed(owner, BuildDelegateParams(place[1], place[2], delegatee, nonce, deadline))
  BY <1>3, DelegateHash DEF Signed, GetSignatureFromTypedData
<1>5. /\ delegates' = [delegates EXCEPT ![place][owner] = [t \in Types |-> delegatee]]
      /\ nonces' = [nonces EXCEPT ![place][owner] = @ + 1]
      /\ UNCHANGED <<signatures, allowances, now>> /\ accepted' = Append(accepted, signature)
  BY DEF DelegateBySig
<1> HIDE DEF owner
<1>6. delegates \in [Places -> [Users -> [Types -> Users]]] BY DEF AInv, TypeOK
<1>7. \A t \in Types : delegates'[place][owner][t] = delegatee
  BY <1>1, <1>5, <1>6
<1>8. \A p \in Places, o \in Users, t \in Types :
        delegates'[p][o][t] # delegates[p][o][t] => p = place /\ o = owner
  BY <1>1, <1>5, <1>6
<1>9. \A t \in Types : DelegationWasSigned(place, owner, t)
  BY <1>1, <1>4, <1>7 DEF DelegationWasSigned
<1>10. ChangesWereSigned
  BY <1>5, <1>8, <1>9 DEF ChangesWereSigned
<1>11. delegates' \in [Places -> [Users -> [Types -> Users]]]
  BY <1>1, <1>5, <1>6
<1>12. nonces' \in [Places -> [Users -> Nat]]
  BY <1>1, <1>5 DEF AInv, TypeOK
<1>13. TypeOK'
  BY <1>5, <1>11, <1>12, AcceptedWereSigned DEF AInv, TypeOK
<1> QED BY <1>10, <1>13

LEMMA SubmittedWasSigned ==
  ASSUME AInv, NEW place \in Places, NEW signature \in signatures, NEW deadline \in Deadlines,
         Submit(place, signature, deadline)
  PROVE  AInv' /\ ChangesWereSigned
<1>1. TypeOK' /\ ChangesWereSigned
  <2>1. CASE \E owner, spender \in Users, value \in Values :
               Permit(place, owner, spender, value, deadline, signature)
    BY <2>1, PermitWasSigned
  <2>2. CASE \E delegatee \in Users, nonce \in 0 .. MaxNonce, type \in Types :
               DelegateByTypeBySig(place, delegatee, type, nonce, deadline, signature)
    BY <2>2, DelegateByTypeWasSigned
  <2>3. CASE \E delegatee \in Users, nonce \in 0 .. MaxNonce :
               DelegateBySig(place, delegatee, nonce, deadline, signature)
    BY <2>3, DelegateWasSigned
  <2> QED BY <2>1, <2>2, <2>3 DEF Submit
<1>2. UNCHANGED signatures
  BY DEF Submit, Permit, DelegateByTypeBySig, DelegateBySig
<1> QED BY <1>1, <1>2 DEF AInv, SInv

LEMMA LargerSeq ==
  ASSUME NEW S, NEW T, S \subseteq T, NEW s \in Seq(S)
  PROVE  s \in Seq(T)
OBVIOUS

LEMMA SigningSigns ==
  ASSUME AInv, NEW owner, NEW data, data.domain[1][2] = "Staked Lay", Sign(owner, data)
  PROVE  AInv' /\ ChangesWereSigned
<1> DEFINE new == GetSignatureFromTypedData(owner, data)
<1>1. HashTypedData(data)[1][1][2] = "Staked Lay" BY DEF HashTypedData
<1>2. new = [signer |-> new.signer, hash |-> new.hash] /\ new.hash[1][1][2] = "Staked Lay"
  BY <1>1 DEF GetSignatureFromTypedData
<1> HIDE DEF new
<1>3. signatures' = signatures \union {new} /\ UNCHANGED <<chain, now, accepted>>
  BY DEF Sign, new
<1>4. SInv' BY <1>2, <1>3 DEF AInv, SInv
<1>5. TypeOK'
  <2>1. signatures \subseteq signatures' /\ accepted' = accepted BY <1>3
  <2>2. accepted \in Seq(signatures) BY DEF AInv, TypeOK
  <2>3. accepted' \in Seq(signatures') BY <2>1, <2>2, LargerSeq
  <2> QED BY <1>3, <2>3 DEF AInv, TypeOK, chain
<1>6. ChangesWereSigned BY <1>3 DEF ChangesWereSigned, chain
<1> QED BY <1>4, <1>5, <1>6 DEF AInv

LEMMA StepsWereSigned ==
  ASSUME AInv, [Next]_vars
  PROVE  AInv' /\ (ChangesWereSigned \/ UNCHANGED vars)
<1>1. ASSUME NEW owner \in Users, NEW other \in Users, NEW place \in Places,
             NEW deadline \in Deadlines, SignAny(owner, place, other, deadline)
      PROVE  AInv' /\ ChangesWereSigned
  <2>1. WalletDomain(place[1], place[2])[1][2] = "Staked Lay"
    BY DEF WalletDomain, EIP712Domain
  <2>2. ASSUME NEW value \in Values,
               Sign(owner, BuildPermitParams(place[1], place[2], owner, other,
                                             nonces[place][owner], deadline, value))
        PROVE  AInv' /\ ChangesWereSigned
    <3> DEFINE data == BuildPermitParams(place[1], place[2], owner, other,
                                         nonces[place][owner], deadline, value)
    <3>1. data.domain = WalletDomain(place[1], place[2]) BY DEF BuildPermitParams
    <3> HIDE DEF data
    <3>2. data.domain[1][2] = "Staked Lay" BY <3>1, <2>1
    <3> QED BY <3>2, <2>2, SigningSigns DEF data
  <2>3. ASSUME NEW type \in Types,
               Sign(owner, BuildDelegateByTypeParams(place[1], place[2], other, type,
                                                     nonces[place][owner], deadline))
        PROVE  AInv' /\ ChangesWereSigned
    <3> DEFINE data == BuildDelegateByTypeParams(place[1], place[2], other, type,
                                                 nonces[place][owner], deadline)
    <3>1. data.domain = WalletDomain(place[1], place[2]) BY DEF BuildDelegateByTypeParams
    <3> HIDE DEF data
    <3>2. data.domain[1][2] = "Staked Lay" BY <3>1, <2>1
    <3> QED BY <3>2, <2>3, SigningSigns DEF data
  <2>4. CASE Sign(owner, BuildDelegateParams(place[1], place[2], other,
                                             nonces[place][owner], deadline))
    <3> DEFINE data == BuildDelegateParams(place[1], place[2], other,
                                           nonces[place][owner], deadline)
    <3>1. data.domain = WalletDomain(place[1], place[2]) BY DEF BuildDelegateParams
    <3> HIDE DEF data
    <3>2. data.domain[1][2] = "Staked Lay" BY <3>1, <2>1
    <3> QED BY <3>2, <2>4, SigningSigns DEF data
  <2> QED BY <1>1, <2>2, <2>3, <2>4 DEF SignAny
<1>2. ASSUME NEW place \in Places, NEW signature \in signatures, NEW deadline \in Deadlines,
             Submit(place, signature, deadline)
      PROVE  AInv' /\ ChangesWereSigned
  BY <1>2, SubmittedWasSigned
<1>3. CASE Tick
  BY <1>3 DEF Tick, chain, AInv, SInv, TypeOK, ChangesWereSigned
<1>4. CASE UNCHANGED vars
  BY <1>4 DEF vars, AInv, SInv, TypeOK
<1> QED BY <1>1, <1>2, <1>3, <1>4 DEF Next

THEOREM AlwaysSigned == Spec => []AInv
<1>1. Init => AInv BY DEF Init, AInv, TypeOK, SInv
<1> QED BY <1>1, StepsWereSigned, PTL DEF Spec

(* The variables keep their types, and what took effect was signed.        *)
THEOREM TypeCorrect == Spec => []TypeOK
<1>1. AInv => TypeOK BY DEF AInv
<1> QED BY <1>1, AlwaysSigned, PTL

(* Allowances and delegations by signature change only to what their owner *)
(* signed, for that token, on that chain, in that kind of message.         *)
THEOREM SignedOnly == Spec => OnlyWhatWasSigned
<1>1. AInv /\ [Next]_vars => [ChangesWereSigned]_vars BY StepsWereSigned
<1> QED BY <1>1, AlwaysSigned, PTL DEF Spec, OnlyWhatWasSigned

(* What the wallet builds, the token recognises: the owner is recovered    *)
(* from every message signed for a token of the name the helpers know, by  *)
(* the call that it is meant for, whatever its fields.                     *)
THEOREM SignerRecognised == Spec => []RecognisesItsSigner
<1>1. ASSUME NEW place \in Places, NEW owner \in Users, NEW other \in Users,
             NEW n \in 0 .. MaxNonce, NEW d \in Deadlines, NameOf[place[2]] = "Staked Lay"
      PROVE  /\ n = nonces[place][owner] /\ now <= d => \A value \in Values :
                  PermitAccepts(place, owner, other, value, d, GetSignatureFromTypedData(owner,
                    BuildPermitParams(place[1], place[2], owner, other, n, d, value)))
             /\ \A type \in Types :
                  owner = ByTypeSignatory(place, other, type, n, d, GetSignatureFromTypedData(owner,
                    BuildDelegateByTypeParams(place[1], place[2], other, type, n, d)))
             /\ owner = Signatory(place, other, n, d, GetSignatureFromTypedData(owner,
                    BuildDelegateParams(place[1], place[2], other, n, d)))
  <2>1. ASSUME n = nonces[place][owner], now <= d, NEW value \in Values
        PROVE  PermitAccepts(place, owner, other, value, d, GetSignatureFromTypedData(owner,
                 BuildPermitParams(place[1], place[2], owner, other, n, d, value)))
    <3>1. PermitAgrees(place, owner, other, value, n, d)
      BY <1>1, PermitHash
    <3> QED BY <2>1, <3>1
            DEF PermitAgrees, PermitAccepts, Ecrecover, GetSignatureFromTypedData
  <2>2. ASSUME NEW type \in Types
        PROVE  owner = ByTypeSignatory(place, other, type, n, d, GetSignatureFromTypedData(owner,
                 BuildDelegateByTypeParams(place[1], place[2], other, type, n, d)))
    <3>1. DelegateByTypeAgrees(place, other, type, n, d)
      BY <1>1, DelegateByTypeHash
    <3> QED BY <3>1
            DEF DelegateByTypeAgrees, ByTypeSignatory, Ecrecover, GetSignatureFromTypedData
  <2>3. owner = Signatory(place, other, n, d, GetSignatureFromTypedData(owner,
                  BuildDelegateParams(place[1], place[2], other, n, d)))
    <3>1. HashTypedData(BuildDelegateParams(place[1], place[2], other, n, d))
          = Digest(place, DELEGATE_TYPEHASH, <<other, n, d>>)
      BY <1>1, DelegateHash
    <3> QED BY <3>1 DEF Signatory, Ecrecover, GetSignatureFromTypedData
  <2> QED BY <2>1, <2>2, <2>3
<1>2. RecognisesItsSigner
  BY <1>1 DEF RecognisesItsSigner
<1> QED BY <1>2, PTL

=============================================================================
