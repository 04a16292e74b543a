------------------------------ MODULE KmsSigner ------------------------------
(***************************************************************************)
(* lib/contracts/kms-signer.ts and signer.ts: the platform's account, whose*)
(* key is in an HSM.  The HSM answers an ECDSA signature in DER, with an s *)
(* that may be high and without the recovery bit; the account normalizes   *)
(* the one and finds the other by trying both.  The curve is a group of    *)
(* prime ORDER, a point written as its discrete logarithm and an address as*)
(* the key it belongs to; a point and its inverse have the same x.         *)
(***************************************************************************)
EXTENDS Naturals, SequencesExt

CONSTANTS
    SECP256K1_ORDER,
    Digests,          \* 32-byte hashes, as numbers below the order
    Callers,
    BYTE              \* the base of a byte, half of which has its top bit set

(* The order is an odd prime: every scalar has an inverse.                 *)
GroupAssumption ==
    /\ SECP256K1_ORDER \in Nat /\ SECP256K1_ORDER > 2 /\ SECP256K1_ORDER % 2 = 1
    /\ \A n \in 1 .. SECP256K1_ORDER - 1 :
         \E m \in 1 .. SECP256K1_ORDER - 1 : (n * m) % SECP256K1_ORDER = 1
    /\ Digests \subseteq Nat /\ BYTE \in Nat \ {0}

VARIABLES
    key,        \* the HSM's private key
    address,    \* _cachedAddress, 0 for none
    account,    \* _account: its address, 0 for none
    signing     \* [Callers -> a call under way, or what it returned]

own == << key, address, account, signing >>

Scalars == 1 .. SECP256K1_ORDER - 1
Resting == [ pc |-> "idle" ]

Mod(n)  == n % SECP256K1_ORDER
Neg(n)  == Mod(SECP256K1_ORDER - Mod(n))
Inv(n)  == CHOOSE m \in Scalars : Mod(n * m) = 1
XOf(k)  == IF k < Neg(k) THEN k ELSE Neg(k)

Init ==
    /\ key \in Scalars
    /\ address = 0 /\ account = 0
    /\ signing = [c \in Callers |-> Resting]
-----------------------------------------------------------------------------
(* DER: SEQUENCE { INTEGER r, INTEGER s }; an integer is as short as can be*)
(* and starts with a zero where its top bit would be set.                  *)

Bytes(n) == LET digits == IF n < BYTE THEN << n >> ELSE << n \div BYTE, n % BYTE >>
            IN  IF digits[1] * 2 >= BYTE THEN << 0 >> \o digits ELSE digits
Der(r, s) == LET body == << 2, Len(Bytes(r)) >> \o Bytes(r) \o << 2, Len(Bytes(s)) >> \o Bytes(s)
             IN  << 48, Len(body) >> \o body

ValueOf(bytes) == FoldLeft(LAMBDA n, b : n * BYTE + b, 0, bytes)

(* The bytes that are there: subarray reads past the end without a fault.  *)
subarray(der, from, n) == SubSeq(der, from, IF from + n - 1 > Len(der) THEN Len(der) ELSE from + n - 1)

NoDer == << >>
parseDerSignature(der) ==
    IF Len(der) < 8 \/ der[1] # 48 \/ der[3] # 2 THEN NoDer
    ELSE LET rLen == der[4]
             at   == 5 + rLen
         IN  IF at + 1 > Len(der) \/ der[at] # 2 THEN NoDer
             ELSE << ValueOf(subarray(der, 5, rLen)), ValueOf(subarray(der, at + 2, der[at + 1])) >>

(* Mutant: half of the signatures keep their high s. *)
normalizeSValue_Never(s) == s

normalizeSValue(s) == IF s > SECP256K1_ORDER \div 2 THEN SECP256K1_ORDER - s ELSE s

(* recoverAddress: v picks the point with x = r; there may be no signer.   *)
recoverAddress(e, r, s, v) ==
    IF r \notin Scalars \/ s \notin Scalars \/ XOf(r) # r THEN 0
    ELSE Mod(Inv(r) * (s * (IF v = 27 THEN r ELSE Neg(r)) + Neg(e)))

(* The v's under which the signature is the signer's: none is an error.    *)
derToEthSignature(e, der, signer) ==
    LET rs == parseDerSignature(der)
    IN  IF rs = NoDer THEN {}
        ELSE LET s == normalizeSValue(rs[2])
             IN  { [ r |-> rs[1], s |-> s, v |-> v ] :
                     v \in { w \in {27, 28} : recoverAddress(e, rs[1], s, w) = signer } }
-----------------------------------------------------------------------------
(* asymmetricSign: any k, and again until r and s are not zero.  What comes*)
(* back may be cut off.                                                    *)
Signatures(e) ==
    { << XOf(k), Mod(Inv(k) * (e + XOf(k) * key)) >> : k \in Scalars }
Answer(e) ==
    LET good == { Der(x[1], x[2]) : x \in { y \in Signatures(e) : y[2] # 0 } }
    IN  good \cup { Front(d) : d \in good }

To(c, f) == signing' = [signing EXCEPT ![c] = f]

(* getPlatformAccount, memoized. *)
getPlatformAccount(c, e) ==
    /\ signing[c].pc = "idle"
    /\ To(c, IF account # 0 THEN [ pc |-> "sign", hash |-> e, signer |-> account ]
             ELSE IF address # 0 THEN [ pc |-> "account", hash |-> e, signer |-> address ]
             ELSE [ pc |-> "getPublicKey", hash |-> e ])
    /\ UNCHANGED << key, address, account >>

(* The public key of the HSM, or a fault. *)
getEthAddressFromKms(c) ==
    /\ signing[c].pc = "getPublicKey"
    /\ \/ /\ address' = key
          /\ To(c, [ pc |-> "account", hash |-> signing[c].hash, signer |-> key ])
       \/ To(c, Resting) /\ UNCHANGED address
    /\ UNCHANGED << key, account >>

createKmsAccount(c) ==
    /\ signing[c].pc = "account"
    /\ account' = signing[c].signer
    /\ To(c, [signing[c] EXCEPT !.pc = "sign"])
    /\ UNCHANGED << key, address >>

(* signMessage, signTypedData and signTransaction differ in the hash.      *)
kmsSign(c) ==
    /\ signing[c].pc = "sign"
    /\ \E der \in Answer(signing[c].hash) :
         LET found == derToEthSignature(signing[c].hash, der, signing[c].signer)
         IN  IF found = {} THEN To(c, Resting)
             ELSE \E sig \in found :
                    To(c, [ pc |-> "signed", hash |-> signing[c].hash, signer |-> signing[c].signer,
                            sig |-> sig ])
    /\ UNCHANGED << key, address, account >>

kmsFails(c) ==
    /\ signing[c].pc \in {"sign", "signed"}
    /\ To(c, Resting)
    /\ UNCHANGED << key, address, account >>

(* The operator points the key path at another key; the caches stay.       *)
rotate(k) ==
    /\ key' = k
    /\ UNCHANGED << address, account, signing >>

(* A new instance starts with empty caches. *)
coldStart ==
    /\ address' = 0 /\ account' = 0
    /\ signing' = [c \in Callers |-> Resting]
    /\ UNCHANGED key

Next ==
    \/ \E c \in Callers, e \in Digests : getPlatformAccount(c, e)
    \/ \E c \in Callers : getEthAddressFromKms(c) \/ createKmsAccount(c) \/ kmsSign(c) \/ kmsFails(c)
    \/ \E k \in Scalars : rotate(k)
    \/ coldStart

Spec == Init /\ [][Next]_own
-----------------------------------------------------------------------------
(* ECDSA's own verification of a signature by the owner of a key. *)
Verifies(e, sig, signer) ==
    XOf(Mod(Inv(sig.s) * (e + sig.r * signer))) = sig.r

(* Whatever k the HSM drew, however its answer was cut and whichever key   *)
(* has taken the place of the cached one: a signature that is handed out   *)
(* verifies for the address the account claims, has the low s that the     *)
(* contract's ECDSA library insists on, and its v leads back to the signer.*)
SignaturesAreTheSigners ==
    \A c \in Callers : signing[c].pc = "signed" =>
        LET x == signing[c] IN
        /\ Verifies(x.hash, x.sig, x.signer)
        /\ 2 * x.sig.s < SECP256K1_ORDER
        /\ recoverAddress(x.hash, x.sig.r, x.sig.s, x.sig.v) = x.signer
=============================================================================
