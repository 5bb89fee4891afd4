------------------------------ MODULE Enclaves ------------------------------
(***************************************************************************)
(* The two programs that may answer an instruction: the simulated enclave  *)
(* the tests run (fcc/src/handler.mjs, crypto.mjs) and the extension that  *)
(* is deployed (fcc/live/handlers.ts), written again for the other         *)
(* runtime; and the device that opens the answer                           *)
(* (sdk/src/encryption.mjs).                                               *)
(*                                                                         *)
(* A message is what the instruction sender packs: the request, the blob   *)
(* and its owner, the device or the computation, the envelope, and the     *)
(* commitments the contract vouches for.  An answer has status 1, its      *)
(* contents and, but for the package of the deployed one, a commitment to  *)
(* them; or it has status 0.                                               *)
(***************************************************************************)
EXTENDS Preparation, Sequences, FiniteSets

Records == INSTANCE SequencesExt

Failure == [status |-> 0]
Success(content) == [status |-> 1, content |-> content]
Committed(content) == [status |-> 1, content |-> content, responseCommitment |-> content]

ShortKey == "short key"   \* a file key that is not 32 bytes
Unserved == [key |-> ShortKey, plaintext |-> <<>>]   \* the gateway answers an error
-----------------------------------------------------------------------------
(* executeCompute.  A record's field is absent, not a number, or a number; *)
(* the plaintext is a sequence of them, or no list of records at all.      *)
Absent == -1
NotFinite == -2
NotRecords == <<-3>>

CountOf(records) == Cardinality({i \in DOMAIN records : records[i] # Absent})

SumOf(records) == Records!FoldLeft(LAMBDA total, value : total + value, 0, records)

Computes(plaintext, spec) ==
  \/ spec.operation = "sha256"
  \/ /\ spec.operation \in {"json_field_count", "json_field_sum"}
     /\ plaintext # NotRecords
     /\ spec.field
     /\ spec.operation = "json_field_sum" =>
          \A i \in DOMAIN plaintext : plaintext[i] \notin {Absent, NotFinite}

Computed(plaintext, spec) ==
  [ operation |-> spec.operation,
    result |-> CASE spec.operation = "sha256" -> plaintext
                 [] spec.operation = "json_field_count" -> <<CountOf(plaintext)>>
                 [] spec.operation = "json_field_sum" -> <<SumOf(plaintext)>> ]

(* decryptStoredCiphertext: the stored bytes carry a tag.                  *)
Decrypts(ciphertext, fileKey) == ciphertext.key = fileKey
-----------------------------------------------------------------------------
(* The simulated enclave.                                                  *)

(* The wrapping key comes from a field that only the direct scheme has.    *)
OpensKeyEnvelope(envelope, teeKey) ==
  /\ envelope.scheme = DirectScheme
  /\ envelope.box.key = teeKey
  /\ envelope.box.content.fileKey # ShortKey
  /\ envelope.fileKeyCommitment = envelope.box.content.fileKey

ValidEnvelopePayload(heading, m, storageMode, accessPolicy) ==
  heading = [ blob |-> m.blob, owner |-> m.owner,
              storageMode |-> storageMode, accessPolicy |-> accessPolicy ]

WrapFileKeyForDevice(fileKey, m) ==
  LET heading == [request |-> m.request, blob |-> m.blob, device |-> m.deviceCommitment]
  IN  [ heading |-> heading, fileKeyCommitment |-> fileKey,
        box |-> Seal(m.device, [heading |-> heading, fileKey |-> fileKey]) ]

SimulatedKeyRewrap(m, teeKey) ==
  LET content == m.envelope.box.content IN
  IF /\ m.envelopeCommitment = m.envelope
     /\ m.deviceCommitment = m.device
     /\ OpensKeyEnvelope(m.envelope, teeKey)
     /\ content.heading.accessPolicy \in {OwnerOnly, SelectedWallets}
     /\ ValidEnvelopePayload(content.heading, m, Private, content.heading.accessPolicy)
  THEN Committed(WrapFileKeyForDevice(content.fileKey, m))
  ELSE Failure

SimulatedCompute(m, teeKey) ==
  LET content == m.envelope.box.content IN
  IF /\ m.envelopeCommitment = m.envelope
     /\ OpensKeyEnvelope(m.envelope, teeKey)
     /\ ValidEnvelopePayload(content.heading, m, Confidential, ComputeOnly)
     /\ m.ciphertext # Unserved
     /\ m.inputCommitment = m.ciphertext
     /\ Decrypts(m.ciphertext, content.fileKey)
     /\ Computes(m.ciphertext.plaintext, m.spec)
  THEN Committed([ request |-> m.request, blob |-> m.blob,
                   computed |-> Computed(m.ciphertext.plaintext, m.spec) ])
  ELSE Failure
-----------------------------------------------------------------------------
(* The deployed extension: the node decrypts for it.                       *)

DecryptsWithTeeNode(envelope, teeKey) == envelope.box.key = teeKey

(* Variant: whose envelope it is is not looked at.                         *)
BoundToBlob(heading, m) == heading.blob = m.blob

BoundToBlobAndOwner(heading, m) == heading.blob = m.blob /\ heading.owner = m.owner

PrivatePolicies == {OwnerOnly, SelectedWallets}

ReleasesFileKey(envelope) ==
  /\ envelope.box.content.fileKey # ShortKey
  /\ envelope.fileKeyCommitment = envelope.box.content.fileKey

LiveDevicePackage(fileKey, device, request, blob, deviceCommitment) ==
  LET heading == [request |-> request, blob |-> blob, device |-> deviceCommitment]
      payload == [heading |-> heading, fileKey |-> fileKey]
  IN  [heading |-> heading, fileKeyCommitment |-> fileKey, box |-> Seal(device, payload)]

LiveKeyRewrap(m, teeKey) ==
  LET content == m.envelope.box.content IN
  IF /\ m.envelopeCommitment = m.envelope
     /\ m.deviceCommitment = m.device
     /\ m.envelope.scheme = OfficialScheme
     /\ DecryptsWithTeeNode(m.envelope, teeKey)
     /\ BoundToBlobAndOwner(content.heading, m)
     /\ content.heading.storageMode = Private
     /\ content.heading.accessPolicy \in PrivatePolicies
     /\ ReleasesFileKey(m.envelope)
  THEN Success(LiveDevicePackage(content.fileKey, m.device, m.request, m.blob,
                                 m.deviceCommitment))
  ELSE Failure

(* Its own executeCompute: one outcome per operation, none when it throws. *)
LiveOutcomes(plaintext, spec) ==
  LET fields == IF plaintext # NotRecords /\ spec.field THEN {plaintext} ELSE {}
      of(result) == [operation |-> spec.operation, result |-> result]
  IN  CASE spec.operation = "sha256" -> {of(plaintext)}
        [] spec.operation = "json_field_count" ->
             {of(<<Cardinality({i \in DOMAIN f : f[i] # Absent})>>) : f \in fields}
        [] spec.operation = "json_field_sum" ->
             {of(<<Records!FoldSeq(+, 0, f)>>) : f \in
                {f \in fields : \A i \in DOMAIN f : f[i] # Absent /\ f[i] # NotFinite}}
        [] OTHER -> {}

(* retrieveCiphertext: the gateway gives it out, or answers an error.      *)
Retrieves(m) == m.ciphertext # Unserved

LiveCompute(m, teeKey) ==
  LET content == m.envelope.box.content IN
  IF /\ m.envelopeCommitment = m.envelope
     /\ m.envelope.scheme = OfficialScheme
     /\ DecryptsWithTeeNode(m.envelope, teeKey)
     /\ BoundToBlobAndOwner(content.heading, m)
     /\ content.heading.storageMode = Confidential
     /\ content.heading.accessPolicy = ComputeOnly
     /\ ReleasesFileKey(m.envelope)
     /\ Retrieves(m)
     /\ m.inputCommitment = m.ciphertext
     /\ Decrypts(m.ciphertext, content.fileKey)
     /\ LiveOutcomes(m.ciphertext.plaintext, m.spec) # {}
  THEN Committed([ request |-> m.request, blob |-> m.blob,
                   computed |-> CHOOSE c \in LiveOutcomes(m.ciphertext.plaintext, m.spec) : TRUE ])
  ELSE Failure
-----------------------------------------------------------------------------
(* openDeviceKeyPackage, on the device that made the key pair `device'.    *)
OpensDeviceKeyPackage(package, device) ==
  /\ package.heading.device = device
  /\ package.box.key = device
  /\ package.box.content.heading = package.heading
  /\ package.box.content.fileKey # ShortKey
  /\ package.fileKeyCommitment = package.box.content.fileKey
=============================================================================
