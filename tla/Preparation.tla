---------------------------- MODULE Preparation ----------------------------
(***************************************************************************)
(* What an owner prepares before anything is registered: the policy, the   *)
(* expiry, the padded bytes and, for an encrypted blob, the envelope its   *)
(* key is sealed in.  The client library (sdk/src/policy.mjs, prepare.mjs, *)
(* encryption.mjs) and the web page (ui/src/prime.ts, confidential.ts)     *)
(* each have their own code for it.                                        *)
(*                                                                         *)
(* A predicate says what is not refused, an operator of the same stem what *)
(* comes out.  A sealed box is the key it is sealed for and what is in it, *)
(* and a hash is what was hashed.  Names, metadata and the Clay codec are  *)
(* left out.                                                               *)
(***************************************************************************)
EXTENDS Integers

Public == 0
Private == 1
Confidential == 2
OwnerOnly == 0
SelectedWallets == 1
ComputeOnly == 2

Capacity == 2 * 1024 * 1024      \* two data chunks of a MiB
Overhead == 12 + 16              \* the nonce and the tag of AES-GCM
PageLifetime == 30 * 86400
Unset == -1

DirectScheme == "secp256k1-ecies-aes256gcm"
OfficialScheme == "flare-tee-ecies-aes128ctr-hmacsha256"

Seal(key, content) == [key |-> key, content |-> content]
-----------------------------------------------------------------------------
(* A mode or an access policy is given by its name or as a number; `value' *)
(* is what the name stands for, and a name in no list has no small value.  *)
NormalizesEnum(given) == given.value \in IF given.named THEN 0..2 ELSE 0..255

NormalizesPolicy(mode, access, sealed) ==
  /\ NormalizesEnum(mode) /\ NormalizesEnum(access)
  /\ sealed <=> mode.value # Public
  /\ access.value = ComputeOnly <=> mode.value = Confidential

NormalizedPolicy(mode, access) == [storageMode |-> mode.value, accessPolicy |-> access.value]

(* A duration, where one is given, is preferred; no expiry is 0.           *)
ResolvedExpiry(ask) == IF ask.seconds = Unset THEN ask.expiresAt ELSE ask.now + ask.seconds

ResolvesExpiry(ask) ==
  IF ask.seconds = Unset THEN ask.expiresAt = 0 \/ ask.expiresAt > ask.now
                         ELSE ask.seconds > 0

EncodesInput(size) == size \in 1..Capacity

PreparesBlob(ask, size) == ResolvesExpiry(ask) /\ EncodesInput(size)
-----------------------------------------------------------------------------
(* Variant: sealed under what a private file has by default.               *)
DefaultHeading(ask, policy) ==
  [ blob |-> ask.blob, owner |-> ask.owner,
    storageMode |-> Private, accessPolicy |-> OwnerOnly ]

(* What identifies the blob stands beside the box and in it.               *)
Heading(ask, policy) ==
  [ blob |-> ask.blob, owner |-> ask.owner,
    storageMode |-> policy.storageMode, accessPolicy |-> policy.accessPolicy ]

(* The envelope.                                                           *)
SealForFcc(ask, policy, scheme) ==
  LET heading == Heading(ask, policy) IN
  [ scheme |-> scheme, heading |-> heading, fileKeyCommitment |-> ask.fileKey,
    box |-> Seal(ask.fccKey, [heading |-> heading, fileKey |-> ask.fileKey]) ]

(* encryptBlob: the stored bytes are longer than the file.                 *)
CiphertextSize(size) == size + Overhead

PreparesEncryptedBlob(ask) ==
  /\ ask.size > 0
  /\ ask.mode.value # Public
  /\ NormalizesPolicy(ask.mode, ask.access, TRUE)
  /\ PreparesBlob(ask, CiphertextSize(ask.size))

EncryptedBlob(ask) ==
  LET policy == NormalizedPolicy(ask.mode, ask.access) IN
  [ blob |-> ask.blob, opaqueName |-> TRUE, size |-> CiphertextSize(ask.size),
    expiresAt |-> ResolvedExpiry(ask), policy |-> policy,
    envelope |-> SealForFcc(ask, policy, ask.scheme) ]

(* registerPaidBlob, as far as it refuses what was prepared.               *)
RegistersPaidBlob(prepared) ==
  LET number(value) == [named |-> FALSE, value |-> value] IN
  /\ prepared.expiresAt # 0
  /\ NormalizesPolicy(number(prepared.policy.storageMode),
                      number(prepared.policy.accessPolicy), TRUE)
  /\ prepared.policy.storageMode # Public => prepared.opaqueName
-----------------------------------------------------------------------------
(* The web page prepares one kind of encrypted blob.                       *)
PreparesBytes(size) == size > 0 /\ size <= Capacity

PreparesConfidentialFile(ask) ==
  ask.size > 0 /\ PreparesBytes(CiphertextSize(ask.size))

ConfidentialFile(ask) ==
  LET policy == [storageMode |-> Confidential, accessPolicy |-> ComputeOnly] IN
  [ blob |-> ask.blob, opaqueName |-> FALSE, size |-> CiphertextSize(ask.size),
    expiresAt |-> ask.now + PageLifetime, policy |-> policy,
    envelope |-> SealForFcc(ask, policy, OfficialScheme) ]
=============================================================================
