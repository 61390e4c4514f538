-------------------------------- MODULE Codec --------------------------------
(***************************************************************************)
(* The byte-level parts of the EncryptionCodec: PKCS padding (src/pkcs.go) *)
(* and the key / IV derivation keyAndIV (src/generic.go).  The AES-CBC     *)
(* block transform itself is out of TLC's reach and is not modelled.      *)
(*                                                                         *)
(* These are pure functions.  The state is the input under test: a         *)
(* plaintext and a shared secret, each ranging over every sequence of      *)
(* small bytes up to a bound, and the properties compare the code's        *)
(* result with the reference definition stated in spec.md 4.2.            *)
(* The code's block and key size, 16, is the constant BlockSize / KeyLen. *)
(***************************************************************************)
EXTENDS Integers, Sequences
LOCAL INSTANCE SequencesExt

CONSTANTS
    Bytes,      \* byte values used in inputs (must cover 1..BlockSize)
    BlockSize,  \* the blockSize argument (16 in encryptEntry / decryptEntry)
    MaxLen,     \* longest plaintext checked
    KeyLen,     \* the 16 of keyAndIV
    SecretBytes \* byte values used in secrets

ASSUME /\ BlockSize \in Nat \ {0} /\ 1 .. BlockSize \subseteq Bytes
       /\ KeyLen \in Nat \ {0} /\ MaxLen \in Nat

Plains  == BoundedSeq(Bytes, MaxLen)
Secrets == UNION {[1 .. m -> SecretBytes] : m \in KeyLen - 1 .. KeyLen + 1}

VARIABLES plain, secret
vars == <<plain, secret>>

------------------------------------------------------------------------------
(* A variant of Padding that adds no block when the input is aligned.      *)
PaddingNoFullBlock(src, blockSize) ==
    LET padLen == (blockSize - (Len(src) % blockSize)) % blockSize
    IN  src \o [i \in 1 .. padLen |-> padLen]

(* Padding: padLen copies of the byte padLen, 1 <= padLen <= blockSize.   *)
Padding(src, blockSize) ==
    LET padLen == blockSize - (Len(src) % blockSize)
    IN  src \o [i \in 1 .. padLen |-> padLen]

(* Unpadding: src[srcLen-1] on an empty slice is an index-out-of-range    *)
(* panic; a pad length not below srcLen or above blockSize is             *)
(* ErrPaddingSize.                                                         *)
Unpadding(src, blockSize) ==
    LET srcLen == Len(src)
        paddingLen == src[srcLen]
    IN  IF srcLen = 0 THEN [err |-> "panic", out |-> <<>>]
        ELSE IF paddingLen >= srcLen \/ paddingLen > blockSize
             THEN [err |-> "paddingSize", out |-> <<>>]
             ELSE [err |-> "none", out |-> SubSeq(src, 1, srcLen - paddingLen)]

(* The swap loop of keyAndIV: for i from len/2-1 down to 0, swap IV[i] and *)
(* IV[len-1-i] (0-based indices).                                          *)
RECURSIVE SwapLoop(_, _)
SwapLoop(iv, i) ==
    IF i < 0 THEN iv
    ELSE LET opp == Len(iv) - 1 - i
         IN  SwapLoop([iv EXCEPT ![i + 1] = iv[opp + 1], ![opp + 1] = iv[i + 1]], i - 1)

(* A variant of keyAndIV whose loop starts one pair too late.              *)
KeyAndIVLateStart(s) ==
    IF Len(s) < KeyLen THEN [err |-> "short", key |-> <<>>, iv |-> <<>>]
    ELSE LET r == SwapLoop(SubSeq(s, 1, KeyLen), KeyLen \div 2 - 2)
         IN  [err |-> "none", key |-> r, iv |-> r]

(* keyAndIV: key = tmp[:16] and IV = tmp[:16] are one backing array, so   *)
(* reversing IV in place reverses key as well.                             *)
KeyAndIV(s) ==
    IF Len(s) < KeyLen THEN [err |-> "short", key |-> <<>>, iv |-> <<>>]
    ELSE LET r == SwapLoop(SubSeq(s, 1, KeyLen), KeyLen \div 2 - 1)
         IN  [err |-> "none", key |-> r, iv |-> r]

------------------------------------------------------------------------------
Init == plain = <<>> /\ secret = <<>>

NextPlain  == \E p \in Plains : plain' = p /\ UNCHANGED secret
NextSecret == \E s \in Secrets : secret' = s /\ UNCHANGED plain

Next == NextPlain \/ NextSecret

Spec == Init /\ [][Next]_vars

TypeOK == plain \in Plains /\ secret \in Secrets \cup {<<>>}

(* Decryption recovers what encryption padded (spec 4.2) for every input  *)
(* encryptEntry can be given: gob output is never empty.                   *)
UnpadInvertsPad ==
    Len(plain) > 0 =>
        Unpadding(Padding(plain, BlockSize), BlockSize) = [err |-> "none", out |-> plain]

(* The IV keyAndIV returns is the secret's first KeyLen bytes reversed,    *)
(* and a short secret is refused.                                          *)
IVIsReversedPrefix ==
    secret # <<>> =>
        IF Len(secret) < KeyLen THEN KeyAndIV(secret).err = "short"
        ELSE KeyAndIV(secret).iv = Reverse(SubSeq(secret, 1, KeyLen))

(* Spec 4.2: the cipher key is the secret's first KeyLen bytes as they are *)
(* (only the IV is reversed).                                              *)
KeyIsSecretPrefix ==
    (secret # <<>> /\ Len(secret) >= KeyLen) =>
        KeyAndIV(secret).key = SubSeq(secret, 1, KeyLen)

=============================================================================
