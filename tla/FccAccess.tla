------------------------------ MODULE FccAccess ------------------------------
(***************************************************************************)
(* From an access intent to a result: the clients that open a private blob *)
(* or run a computation on a confidential one (sdk/src/client.mjs,         *)
(* ui/src/fcc.ts and the demonstration scripts), the gateway that hands    *)
(* out ciphertext, the instruction sender and the result verifier          *)
(* (contracts/src/fcc) and the enclave (fcc/src/handler.mjs).              *)
(*                                                                         *)
(* The sender asks the registry about an intent when it sends the          *)
(* instruction; the enclave answers later, in any order, and does not ask  *)
(* again; the intent is consumed later still, when somebody brings the     *)
(* signed answer to the verifier, or never.  Meanwhile wallets are         *)
(* selected and deselected and deadlines pass.                             *)
(*                                                                         *)
(* The sender and the verifier are set up (extension, machine).  Keys and  *)
(* ciphertext are not modelled: an envelope is what was sealed into it, a  *)
(* signature is the machine that made it.                                  *)
(***************************************************************************)
EXTENDS ConfidentialAccess, Sequences

CONSTANTS
  Owners,          \* wallets that register blobs
  SenderContract,  \* the PrimeServerInstructionSender, an access controller
  Machines,        \* TEE machines of the extension
  TeeId,           \* the one the verifier accepts
  Envelopes,       \* what an envelope may have sealed in it
  MaxInstructions  \* bound on instructions

ASSUME FccAssumption ==
  /\ Owners \subseteq Wallets /\ TeeId \in Machines
  /\ MaxInstructions \in Nat /\ Controllers = {SenderContract}
  /\ 0 \in Tenders

VARIABLES
  envelopes,     \* per blob, what its key envelope has sealed in it
  instructions,  \* requestIdByInstructionId, with the command and the machine
  results,       \* per instruction: "None", "Success" or "Failure"
  teeRegistered, \* whether the verifier's machine is still registered
  flows          \* what each wallet is doing

fccVars == <<envelopes, instructions, results, teeRegistered, flows>>
everything == <<allVars, fccVars>>

NoIntent == [purpose |-> "None"]
NoFlow == [step |-> "None", intent |-> NoIntent, instruction |-> 0]

Ids == DOMAIN instructions

FccInit ==
  /\ AccessInit
  /\ envelopes \in [Blobs -> Envelopes]
  /\ instructions = <<>> /\ results = <<>>
  /\ teeRegistered = TRUE
  /\ flows = [w \in Wallets |-> NoFlow]

Goes(w, step) == flows' = [flows EXCEPT ![w].step = step]
At(w, step) == flows[w].step = step
IntentOf(w) == flows[w].intent
-----------------------------------------------------------------------------
(* The instruction sender.                                                 *)

CommandFor(r) == IF r.purpose = "View" THEN "KEY_REWRAP" ELSE "CONFIDENTIAL_COMPUTE"
ModeFor(r) == IF r.purpose = "View" THEN "Private" ELSE "Confidential"

(* _usableRequest and the checks of both requests; the requester sends, and *)
(* its envelope and device key are the committed ones.                     *)
Sendable(r) ==
  /\ IsConfidentialAccessUsable(r)
  /\ blobPolicies[r.blob].storageMode = ModeFor(r)

(* _send: the registry of machines picks one of those that are there.      *)
SendInstruction(r, machine) ==
  /\ Sendable(r)
  /\ machine = TeeId => teeRegistered
  /\ instructions' =
       Append(instructions, [request |-> r, command |-> CommandFor(r), machine |-> machine,
                             entitled |-> IsAccessAuthorized(r.blob, r.requester)
                                            /\ r \notin consumed])
  /\ results' = Append(results, "None")
-----------------------------------------------------------------------------
(* The enclave.                                                            *)

(* Variant: the payload of the envelope is not compared.                   *)
AnyEnvelope(envelope, r, mode, policies) == TRUE

(* validateEnvelopePayload.                                                *)
EnvelopeFits(envelope, r, mode, policies) ==
  /\ envelope.blob = r.blob
  /\ envelope.owner = blobs[r.blob].owner
  /\ envelope.storageMode = mode
  /\ envelope.accessPolicy \in policies

(* processKeyRewrap: the policy is read from the envelope itself.          *)
ProcessKeyRewrap(r) ==
  EnvelopeFits(envelopes[r.blob], r, "Private", {"OwnerOnly", "SelectedWallets"})

(* processConfidentialCompute.                                             *)
ProcessConfidentialCompute(r) ==
  EnvelopeFits(envelopes[r.blob], r, "Confidential", {"ComputeOnly"})

(* The gateway's route for the enclave.                                    *)
CiphertextForEnclave(b) ==
  /\ blobs[b].exists
  /\ blobPolicies[b].storageMode = "Confidential"
  /\ blobPolicies[b].accessPolicy = "ComputeOnly"

(* handleAction: whatever goes wrong is a result with status 0.  The       *)
(* retrieval, the ciphertext's commitment or the computation may fail.     *)
HandleAction(i) ==
  LET instruction == instructions[i]
      r == instruction.request
      rewrap == instruction.command = "KEY_REWRAP"
      fine == IF rewrap THEN ProcessKeyRewrap(r)
              ELSE ProcessConfidentialCompute(r) /\ CiphertextForEnclave(r.blob)
  IN
  /\ results[i] = "None"
  /\ \E answer \in {"Success", "Failure"} :
       /\ answer = "Success" => fine
       /\ answer = "Failure" => ~fine \/ ~rewrap
       /\ results' = [results EXCEPT ![i] = answer]
  /\ UNCHANGED <<allVars, envelopes, instructions, teeRegistered, flows>>
-----------------------------------------------------------------------------
(* The result verifier.                                                    *)

(* Variant: the instruction need not be one for this intent.               *)
AnyRequest(i, r) == TRUE

InstructionMatches(i, r) == instructions[i].request = r

(* submitResult, whoever calls it: a success, signed by the one machine,   *)
(* which is still registered.                                              *)
SubmitResult(i, r) ==
  /\ i \in Ids
  /\ results[i] = "Success"
  /\ InstructionMatches(i, r)
  /\ teeRegistered
  /\ instructions[i].machine = TeeId
  /\ RecordConfidentialAccessResult(SenderContract, r)
-----------------------------------------------------------------------------
(* The clients.  A purpose fits the blob it is asked for.                  *)

PrepareConfidentialAccessRequest(w, b, device, deadline) ==
  LET purpose == IF blobPolicies[b].storageMode = "Private" THEN "View" ELSE "Compute" IN
  /\ flows[w].step \in {"None", "Done", "Failed"}
  /\ blobs[b].exists
  /\ confidentialAccessNonces[<<b, w>>] <= MaxNonce
  /\ deadline >= now
  /\ flows' = [flows EXCEPT ![w] =
       [step |-> "Authorize", instruction |-> 0,
        intent |-> [blob |-> b, requester |-> w, device |-> device,
                    nonce |-> confidentialAccessNonces[<<b, w>>],
                    deadline |-> deadline, purpose |-> purpose]]]
  /\ UNCHANGED <<allVars, envelopes, instructions, results, teeRegistered>>

(* Some other transaction may have used the nonce since it was read.       *)
Authorize(w) ==
  /\ At(w, "Authorize")
  /\ \/ /\ AuthorizeConfidentialAccess(IntentOf(w))
        /\ Goes(w, IF IntentOf(w).purpose = "View" THEN "Get" ELSE "Request")
     \/ /\ ~ENABLED AuthorizeConfidentialAccess(IntentOf(w))
        /\ Goes(w, "Failed")
        /\ UNCHANGED allVars
  /\ UNCHANGED <<envelopes, instructions, results, teeRegistered>>

(* The gateway lets an owner have its ciphertext, and reads the access     *)
(* request of any other wallet.                                            *)
Get(w) ==
  LET r == IntentOf(w) IN
  /\ At(w, "Get")
  /\ Goes(w, IF blobs[r.blob].owner = w THEN "Request"
             ELSE IF /\ blobPolicies[r.blob].accessPolicy = "SelectedWallets"
                     /\ r \in confidentialAccessRequests /\ r \notin consumed
                  THEN "Check" ELSE "Failed")
  /\ UNCHANGED <<allVars, envelopes, instructions, results, teeRegistered>>

(* Then it asks whether the request is usable.                             *)
CheckUsable(w) ==
  /\ At(w, "Check")
  /\ Goes(w, IF IsConfidentialAccessUsable(IntentOf(w)) THEN "Request" ELSE "Failed")
  /\ UNCHANGED <<allVars, envelopes, instructions, results, teeRegistered>>

Request(w) ==
  LET r == IntentOf(w) IN
  /\ At(w, "Request")
  /\ Len(instructions) < MaxInstructions
  /\ \/ /\ \E machine \in Machines : SendInstruction(r, machine)
        /\ flows' = [flows EXCEPT ![w].step = "Wait",
                                  ![w].instruction = Len(instructions) + 1]
     \/ /\ ~Sendable(r)
        /\ Goes(w, "Failed")
        /\ UNCHANGED <<instructions, results>>
  /\ UNCHANGED <<allVars, envelopes, teeRegistered>>

(* A pending result is answered with status 202, which passes for success  *)
(* in the client and in the web page: they take the body for the result    *)
(* and give up.  The script that asks the proxy itself goes on waiting.    *)
Waits(w) == IntentOf(w).purpose = "View"

WaitForFccActionResult(w) ==
  LET result == results[flows[w].instruction] IN
  /\ At(w, "Wait")
  /\ result = "None" => ~Waits(w)
  /\ Goes(w, IF result = "Success" THEN "Submit" ELSE "Failed")
  /\ UNCHANGED <<allVars, envelopes, instructions, results, teeRegistered>>

(* Variant: the receipt's status is not looked at.                         *)
DoneAnyway == "Done"
AfterRevert == "Failed"

Submit(w) ==
  LET i == flows[w].instruction IN
  /\ At(w, "Submit")
  /\ \/ SubmitResult(i, IntentOf(w)) /\ Goes(w, "Done")
     \/ /\ ~ENABLED SubmitResult(i, IntentOf(w))
        /\ Goes(w, AfterRevert)
        /\ UNCHANGED allVars
  /\ UNCHANGED <<envelopes, instructions, results, teeRegistered>>

ClientSteps ==
  \E w \in Wallets :
    \/ \E b \in Blobs, device \in Devices, deadline \in Timestamps :
         PrepareConfidentialAccessRequest(w, b, device, deadline)
    \/ Authorize(w) \/ Get(w) \/ CheckUsable(w) \/ Request(w)
    \/ WaitForFccActionResult(w) \/ Submit(w)
-----------------------------------------------------------------------------
(* Anybody may bring an intent that was signed, or a signed result, early, *)
(* late or again.                                                          *)
SignedIntents ==
  confidentialAccessRequests
    \cup {IntentOf(w) : w \in {v \in Wallets : flows[v].intent # NoIntent}}

OthersSubmit ==
  /\ \/ \E r \in SignedIntents : AuthorizeConfidentialAccess(r)
     \/ \E i \in Ids, r \in confidentialAccessRequests : SubmitResult(i, r)
  /\ UNCHANGED fccVars

MachineLeaves ==
  /\ teeRegistered /\ teeRegistered' = FALSE
  /\ UNCHANGED <<allVars, envelopes, instructions, results, flows>>

(* The rest of the registry, as far as intents depend on it.               *)
RegistrySteps ==
  /\ \/ /\ \/ \E a \in Owners, b \in Blobs, e \in Timestamps, policy \in Policies,
                 size \in Sizes : CreateBlobPaid(a, b, NoName, MaxShards, e, policy, size, 0)
           \/ \E b \in Blobs, a \in Owners : RefundPaidBlob(a, b)
           \/ \E t \in Timestamps : Tick(t)
        /\ UNCHANGED accessVars
     \/ \E allowed \in BOOLEAN : SetConfidentialAccessController(SenderContract, allowed)
     \/ \E a \in Owners, b \in Blobs, w \in Wallets \ Owners, allowed \in BOOLEAN :
          SetBlobWalletAccess(a, b, w, allowed)
  /\ UNCHANGED fccVars

FccNext ==
  \/ ClientSteps \/ OthersSubmit \/ RegistrySteps
  \/ \E i \in Ids : HandleAction(i)
  \/ MachineLeaves

FccSpec == FccInit /\ [][FccNext]_everything
-----------------------------------------------------------------------------
(***************************************************************************)
(* Properties.                                                             *)
(***************************************************************************)

(* An intent is consumed only by the answer of the verifier's machine to   *)
(* an instruction that was sent for this very intent, however answers are  *)
(* exchanged, brought late or brought twice (submitResult).                *)
ConsumedHasResult ==
  \A r \in consumed :
    \E i \in Ids : /\ instructions[i].request = r /\ instructions[i].machine = TeeId
                   /\ results[i] = "Success"

(* What the enclave gives out is opened from an envelope its owner sealed  *)
(* for this blob and this use, to a wallet that was entitled when the      *)
(* instruction was sent, with an intent not consumed until then.  It may   *)
(* have been deselected since, and the intent need never be consumed       *)
(* (PrimeServerInstructionSender.sol, 163-171; handler.mjs, 71-105).       *)
ReleasedIsEntitled ==
  \A i \in Ids : results[i] = "Success" =>
    LET r == instructions[i].request
        envelope == envelopes[r.blob] IN
    /\ instructions[i].entitled
    /\ envelope.blob = r.blob /\ envelope.owner = blobs[r.blob].owner
    /\ envelope.storageMode = blobPolicies[r.blob].storageMode

(* A client that reports a finished access has its own intent consumed     *)
(* (confidentialCompute, registerAndCompute: the receipts are looked at).  *)
DoneIsConsumed ==
  \A w \in Wallets : At(w, "Done") => IntentOf(w) \in consumed
=============================================================================
