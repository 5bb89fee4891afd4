----------------------------- MODULE FccProofs ------------------------------
(***************************************************************************)
(* Proofs about the way from an intent to a result: clients, gateway,      *)
(* instruction sender, enclave and verifier never do more to the contract  *)
(* than its own specification allows, and what they hand out and report is *)
(* backed by it.                                                           *)
(***************************************************************************)
EXTENDS FccAccess, AccessProofs

Steps == {"None", "Authorize", "Get", "Check", "Request", "Wait", "Submit", "Done", "Failed"}
Instructions ==
  [ request : Intents, command : {"KEY_REWRAP", "CONFIDENTIAL_COMPUTE"},
    machine : Machines, entitled : BOOLEAN ]

(* A wallet that is doing something has signed an intent.                  *)
FlowsTyped ==
  /\ flows \in [Wallets -> [step : Steps, intent : Intents \cup {NoIntent}, instruction : Nat]]
  /\ \A w \in Wallets : ~At(w, "None") => IntentOf(w) \in Intents

InstructionsTyped ==
  /\ instructions \in Seq(Instructions)
  /\ results \in Seq({"None", "Success", "Failure"})
  /\ Len(results) = Len(instructions)

(* An instruction was sent to an entitled wallet, for a use that fits the  *)
(* blob, and a success opened an envelope that fits both.                  *)
Sound(i) ==
  LET x == instructions[i]
      r == x.request
      envelope == envelopes[r.blob] IN
  /\ x.entitled /\ x.command = CommandFor(r)
  /\ blobs[r.blob].exists /\ blobPolicies[r.blob].storageMode = ModeFor(r)
  /\ results[i] = "Success" =>
       /\ envelope.blob = r.blob /\ envelope.owner = blobs[r.blob].owner
       /\ envelope.storageMode = ModeFor(r)

InstructionsSound == \A i \in Ids : Sound(i)

FccInv ==
  /\ FlowsTyped /\ InstructionsTyped /\ InstructionsSound
  /\ ConsumedHasResult /\ DoneIsConsumed
-----------------------------------------------------------------------------
(* What a client does to the contract.                                     *)
LEMMA AuthorizeIsAccess ==
  ASSUME FlowsTyped, NEW w \in Wallets, Authorize(w)
  PROVE  \/ IntentOf(w) \in Intents /\ AuthorizeConfidentialAccess(IntentOf(w))
         \/ UNCHANGED allVars
BY DEF Authorize, FlowsTyped, At

LEMMA SubmitResultIsAccess ==
  ASSUME AccessTyped, NEW i, NEW r, SubmitResult(i, r)
  PROVE  /\ r \in Intents
         /\ RecordConfidentialAccessResult(SenderContract, r)
         /\ SenderContract \in Controllers
BY FccAssumption DEF SubmitResult, RecordConfidentialAccessResult,
                     IsConfidentialAccessUsable, AccessTyped

LEMMA ClientStepIsAccess ==
  ASSUME FlowsTyped, AccessTyped, ClientSteps
  PROVE  [AccessNext]_allVars
<1>1. PICK w \in Wallets :
        \/ \E b \in Blobs, device \in Devices, deadline \in Timestamps :
             PrepareConfidentialAccessRequest(w, b, device, deadline)
        \/ Authorize(w) \/ Get(w) \/ CheckUsable(w) \/ Request(w)
        \/ WaitForFccActionResult(w) \/ Submit(w)
  BY DEF ClientSteps
<1>2. CASE \/ \E b \in Blobs, device \in Devices, deadline \in Timestamps :
                PrepareConfidentialAccessRequest(w, b, device, deadline)
           \/ Get(w) \/ CheckUsable(w) \/ Request(w) \/ WaitForFccActionResult(w)
  BY <1>2 DEF PrepareConfidentialAccessRequest, Get, CheckUsable, Request,
              WaitForFccActionResult
<1>3. CASE Authorize(w)
  BY <1>3, AuthorizeIsAccess DEF AccessNext, IntentNext
<1>4. CASE Submit(w)
  <2>1. CASE UNCHANGED allVars
    BY <2>1
  <2>2. CASE SubmitResult(flows[w].instruction, IntentOf(w))
    BY <2>2, SubmitResultIsAccess DEF AccessNext, IntentNext
  <2> QED
    BY <1>4, <2>1, <2>2 DEF Submit
<1> QED
  BY <1>1, <1>2, <1>3, <1>4

LEMMA OthersAreAccess ==
  ASSUME FlowsTyped, AccessTyped, OthersSubmit
  PROVE  [AccessNext]_allVars
<1>1. CASE \E r \in SignedIntents : AuthorizeConfidentialAccess(r)
  <2>1. PICK r \in SignedIntents : AuthorizeConfidentialAccess(r)
    BY <1>1
  <2>2. r \in Intents
    BY <2>1 DEF SignedIntents, AccessTyped, FlowsTyped, IntentOf
  <2> QED
    BY <2>1, <2>2 DEF AccessNext, IntentNext
<1>2. CASE \E i \in Ids, r \in confidentialAccessRequests : SubmitResult(i, r)
  BY <1>2, SubmitResultIsAccess DEF AccessNext, IntentNext
<1> QED
  BY <1>1, <1>2 DEF OthersSubmit

LEMMA RegistryStepIsAccess ==
  ASSUME RegistrySteps
  PROVE  [AccessNext]_allVars
<1>1. Owners \subseteq Wallets /\ Owners \subseteq Accounts /\ 0 \in Tenders
  BY FccAssumption, AccessAssumption
<1>2. ASSUME NEW a \in Owners, NEW b \in Blobs, NEW e \in Timestamps, NEW policy \in Policies,
             NEW size \in Sizes,
             CreateBlobPaid(a, b, NoName, MaxShards, e, policy, size, 0), UNCHANGED accessVars
      PROVE  AccessNext
  <2>1. NoName \in NameChoices /\ MaxShards \in ShardCounts /\ e \in Expiries
    BY BoundsAssumption DEF NameChoices, ShardCounts, Expiries
  <2>2. RegistrationNext
    BY <1>1, <1>2, <2>1 DEF RegistrationNext
  <2> QED
    BY <1>2, <2>2 DEF AccessNext, RegistryNext, Next
<1>3. ASSUME NEW a \in Owners, NEW b \in Blobs, RefundPaidBlob(a, b), UNCHANGED accessVars
      PROVE  AccessNext
  BY <1>1, <1>3 DEF AccessNext, RegistryNext, Next, ControllerNext
<1>4. ASSUME NEW t \in Timestamps, Tick(t), UNCHANGED accessVars
      PROVE  AccessNext
  BY <1>4 DEF AccessNext, RegistryNext, Next
<1>5. ASSUME NEW allowed \in BOOLEAN, SetConfidentialAccessController(SenderContract, allowed)
      PROVE  AccessNext
  BY <1>5, FccAssumption DEF AccessNext, GrantNext
<1>6. ASSUME NEW a \in Owners, NEW b \in Blobs, NEW w \in Wallets \ Owners,
             NEW allowed \in BOOLEAN, SetBlobWalletAccess(a, b, w, allowed)
      PROVE  AccessNext
  BY <1>1, <1>6 DEF AccessNext, GrantNext
<1> QED
  BY <1>2, <1>3, <1>4, <1>5, <1>6 DEF RegistrySteps

(* Whatever happens outside of it, the contract makes a step of its own    *)
(* specification or none.                                                  *)
LEMMA FccStepIsAccess ==
  ASSUME FlowsTyped, AccessTyped, [FccNext]_everything
  PROVE  [AccessNext]_allVars
<1>1. CASE MachineLeaves \/ (\E i \in Ids : HandleAction(i)) \/ UNCHANGED everything
  BY <1>1 DEF MachineLeaves, HandleAction, everything
<1> QED
  BY <1>1, ClientStepIsAccess, OthersAreAccess, RegistryStepIsAccess DEF FccNext
-----------------------------------------------------------------------------
(* What a step does to flows, instructions and results.                    *)
LEMMA FlowsTypedStep ==
  ASSUME FlowsTyped, AccessTyped, InstructionsTyped, [FccNext]_everything
  PROVE  FlowsTyped'
<1>1. ASSUME UNCHANGED flows PROVE FlowsTyped'
  BY <1>1 DEF FlowsTyped, At, IntentOf
<1>2. ASSUME NEW w \in Wallets, ~At(w, "None"), NEW step \in Steps \ {"None"}, Goes(w, step)
      PROVE  FlowsTyped'
  <2>1. flows'[w] = [flows[w] EXCEPT !.step = step]
        /\ \A v \in Wallets \ {w} : flows'[v] = flows[v]
    BY <1>2 DEF FlowsTyped, Goes
  <2>2. flows' \in [Wallets -> [step : Steps, intent : Intents \cup {NoIntent},
                                instruction : Nat]]
    BY <1>2 DEF FlowsTyped, Goes
  <2> QED
    BY <1>2, <2>1, <2>2 DEF FlowsTyped, At, IntentOf
<1>3. ASSUME NEW w \in Wallets, NEW b \in Blobs, NEW device \in Devices,
             NEW deadline \in Timestamps,
             PrepareConfidentialAccessRequest(w, b, device, deadline)
      PROVE  FlowsTyped'
  <2> DEFINE nonce == confidentialAccessNonces[<<b, w>>]
             purpose == IF blobPolicies[b].storageMode = "Private" THEN "View" ELSE "Compute"
             intent == [blob |-> b, requester |-> w, device |-> device, nonce |-> nonce,
                        deadline |-> deadline, purpose |-> purpose]
  <2>1. nonce \in 0..MaxNonce
    BY <1>3, AccessAssumption DEF PrepareConfidentialAccessRequest, AccessTyped, Pairs
  <2>2. purpose \in Purposes
    BY DEF Purposes
  <2>3. intent \in Intents
    BY <2>1, <2>2 DEF Intents
  <2>4. flows' = [flows EXCEPT ![w] =
                    [step |-> "Authorize", instruction |-> 0, intent |-> intent]]
    BY <1>3 DEF PrepareConfidentialAccessRequest
  <2> HIDE DEF intent
  <2>5. [step |-> "Authorize", instruction |-> 0, intent |-> intent]
          \in [step : Steps, intent : Intents \cup {NoIntent}, instruction : Nat]
    BY <2>3 DEF Steps
  <2> QED
    BY <2>3, <2>4, <2>5 DEF FlowsTyped, At, IntentOf
<1>4. ASSUME NEW w \in Wallets,
             Authorize(w) \/ Get(w) \/ CheckUsable(w) \/ WaitForFccActionResult(w) \/ Submit(w)
      PROVE  FlowsTyped'
  <2>1. ~At(w, "None") /\ \E step \in Steps \ {"None"} : Goes(w, step)
    BY <1>4 DEF Authorize, Get, CheckUsable, WaitForFccActionResult, Submit, At, Steps,
                AfterRevert
  <2> QED
    BY <1>2, <2>1
<1>5. ASSUME NEW w \in Wallets, Request(w) PROVE FlowsTyped'
  <2>1. CASE Goes(w, "Failed")
    BY <1>2, <1>5, <2>1 DEF Request, At, Steps
  <2>2. CASE flows' = [flows EXCEPT ![w].step = "Wait",
                                    ![w].instruction = Len(instructions) + 1]
    <3>1. Len(instructions) + 1 \in Nat
      BY DEF InstructionsTyped
    <3>2. IntentOf(w) \in Intents
      BY <1>5 DEF Request, FlowsTyped, At
    <3>3. flows'[w] = [flows[w] EXCEPT !.step = "Wait",
                                       !.instruction = Len(instructions) + 1]
          /\ \A v \in Wallets \ {w} : flows'[v] = flows[v]
      BY <2>2 DEF FlowsTyped
    <3>4. flows' \in [Wallets -> [step : Steps, intent : Intents \cup {NoIntent},
                                  instruction : Nat]]
      <4> DEFINE Flow == [step : Steps, intent : Intents \cup {NoIntent}, instruction : Nat]
      <4>1. flows \in [Wallets -> Flow]
        BY DEF FlowsTyped
      <4>2. [flows[w] EXCEPT !.step = "Wait", !.instruction = Len(instructions) + 1] \in Flow
        BY <3>1, <4>1 DEF Steps
      <4>3. flows' = [flows EXCEPT ![w] =
              [flows[w] EXCEPT !.step = "Wait", !.instruction = Len(instructions) + 1]]
        BY <2>2, <4>1
      <4> HIDE DEF Flow
      <4>4. flows' \in [Wallets -> Flow]
        BY <4>1, <4>2, <4>3
      <4> QED
        BY <4>4 DEF Flow
    <3>5. ASSUME NEW v \in Wallets, ~At(v, "None")' PROVE IntentOf(v)' \in Intents
      <4>1. CASE v = w
        BY <3>2, <3>3, <4>1 DEF IntentOf, FlowsTyped
      <4>2. CASE v # w
        BY <3>3, <3>5, <4>2 DEF FlowsTyped, At, IntentOf
      <4> QED
        BY <4>1, <4>2
    <3> QED
      BY <3>4, <3>5 DEF FlowsTyped
  <2> QED
    BY <1>5, <2>1, <2>2 DEF Request
<1>6. CASE OthersSubmit \/ RegistrySteps \/ MachineLeaves \/ (\E i \in Ids : HandleAction(i))
           \/ UNCHANGED everything
  BY <1>1, <1>6 DEF OthersSubmit, RegistrySteps, MachineLeaves, HandleAction, everything,
                    fccVars
<1> QED
  BY <1>3, <1>4, <1>5, <1>6 DEF FccNext, ClientSteps

(* Instructions are only added, and a result is given once.                *)
LEMMA InstructionSteps ==
  ASSUME [FccNext]_everything
  PROVE  \/ UNCHANGED <<instructions, results>>
         \/ \E w \in Wallets, machine \in Machines :
              At(w, "Request") /\ SendInstruction(IntentOf(w), machine) /\ UNCHANGED allVars
         \/ \E i \in Ids : HandleAction(i)
BY DEF FccNext, ClientSteps, PrepareConfidentialAccessRequest, Authorize, Get, CheckUsable,
       Request, WaitForFccActionResult, Submit, OthersSubmit, RegistrySteps, MachineLeaves,
       everything, fccVars

(* What sending an instruction adds to the two sequences.                  *)
LEMMA Sending ==
  ASSUME AccessTyped, InstructionsTyped, NEW r \in Intents, NEW machine \in Machines,
         SendInstruction(r, machine)
  PROVE  LET n == Len(instructions) IN
         /\ InstructionsTyped' /\ n \in Nat
         /\ Ids = 1..n /\ Ids' = 1..(n + 1)
         /\ \A i \in 1..n : instructions'[i] = instructions[i] /\ results'[i] = results[i]
         /\ instructions'[n + 1].request = r /\ instructions'[n + 1].entitled
         /\ instructions'[n + 1].command = CommandFor(r)
         /\ results'[n + 1] = "None"
<1> DEFINE x == [request |-> r, command |-> CommandFor(r), machine |-> machine,
                 entitled |-> IsAccessAuthorized(r.blob, r.requester) /\ r \notin consumed]
<1>1. instructions' = Append(instructions, x) /\ results' = Append(results, "None")
  BY DEF SendInstruction
<1>2. x.entitled
  BY DEF SendInstruction, Sendable, IsConfidentialAccessUsable
<1>3. x \in Instructions
  BY DEF Instructions, CommandFor
<1>4. x.request = r /\ x.command = CommandFor(r)
  OBVIOUS
<1> HIDE DEF x
<1>5. Ids = 1..Len(instructions) /\ Len(instructions) \in Nat
  BY DEF InstructionsTyped, Ids
<1>6. InstructionsTyped'
  BY <1>1, <1>3 DEF InstructionsTyped
<1>7. Ids' = 1..(Len(instructions) + 1)
  BY <1>1, <1>3 DEF InstructionsTyped, Ids
<1>8. /\ \A i \in 1..Len(instructions) :
           instructions'[i] = instructions[i] /\ results'[i] = results[i]
      /\ instructions'[Len(instructions) + 1] = x
      /\ results'[Len(instructions) + 1] = "None"
  BY <1>1, <1>3 DEF InstructionsTyped
<1> QED
  BY <1>2, <1>4, <1>5, <1>6, <1>7, <1>8

LEMMA Handling ==
  ASSUME InstructionsTyped, NEW i \in Ids, HandleAction(i)
  PROVE  /\ InstructionsTyped' /\ instructions' = instructions /\ Ids' = Ids
         /\ results[i] = "None"
         /\ \A j \in Ids \ {i} : results'[j] = results[j]
<1>1. PICK answer \in {"Success", "Failure"} : results' = [results EXCEPT ![i] = answer]
  BY DEF HandleAction
<1>2. instructions' = instructions /\ results[i] = "None"
  BY DEF HandleAction
<1>3. i \in 1..Len(results)
  BY DEF InstructionsTyped, Ids
<1> QED
  BY <1>1, <1>2, <1>3 DEF InstructionsTyped, Ids

(* A blob an instruction is about keeps its owner and its mode.            *)
LEMMA BlobsKept ==
  ASSUME Typed, [AccessNext]_allVars, NEW b \in Blobs, blobs[b].exists
  PROVE  /\ blobs'[b].exists /\ blobs'[b].owner = blobs[b].owner
         /\ blobPolicies'[b] = blobPolicies[b]
BY RegistryStep, OwnersKept, RecordsKept DEF OwnerKept, BlobKept

LEMMA InstructionsStep ==
  ASSUME Typed, AccessTyped, FlowsTyped, InstructionsTyped, InstructionsSound,
         [FccNext]_everything
  PROVE  InstructionsTyped' /\ InstructionsSound'
<1>1. envelopes' = envelopes
  BY DEF FccNext, ClientSteps, PrepareConfidentialAccessRequest, Authorize, Get, CheckUsable,
         Request, WaitForFccActionResult, Submit, OthersSubmit, RegistrySteps, MachineLeaves,
         HandleAction, everything, fccVars
<1>2. \A i \in Ids : instructions[i].request \in Intents /\ instructions[i].request.blob \in Blobs
  <2>1. \A i \in Ids : instructions[i] \in Instructions
    BY DEF InstructionsTyped, Ids
  <2> QED
    BY <2>1 DEF Instructions, Intents
<1>3. ASSUME NEW i \in Ids, instructions'[i] = instructions[i], results'[i] = results[i]
      PROVE  Sound(i)'
  <2> DEFINE b == instructions[i].request.blob
  <2>1. /\ blobs'[b].exists /\ blobs'[b].owner = blobs[b].owner
        /\ blobPolicies'[b] = blobPolicies[b]
    BY <1>2, FccStepIsAccess, BlobsKept DEF InstructionsSound, Sound
  <2> QED
    BY <1>1, <1>3, <2>1 DEF InstructionsSound, Sound
<1>4. CASE UNCHANGED <<instructions, results>>
  <2>1. InstructionsTyped' /\ Ids' = Ids
    BY <1>4 DEF InstructionsTyped, Ids
  <2> QED
    BY <1>3, <1>4, <2>1 DEF InstructionsSound
<1>5. ASSUME NEW w \in Wallets, NEW machine \in Machines, At(w, "Request"),
             SendInstruction(IntentOf(w), machine), UNCHANGED allVars
      PROVE  InstructionsTyped' /\ InstructionsSound'
  <2> DEFINE r == IntentOf(w)
             n == Len(instructions)
  <2>1. r \in Intents
    BY <1>5 DEF FlowsTyped, At
  <2>2. /\ InstructionsTyped' /\ n \in Nat
        /\ Ids = 1..n /\ Ids' = 1..(n + 1)
        /\ \A i \in 1..n : instructions'[i] = instructions[i] /\ results'[i] = results[i]
        /\ instructions'[n + 1].request = r /\ instructions'[n + 1].entitled
        /\ instructions'[n + 1].command = CommandFor(r)
        /\ results'[n + 1] = "None"
    BY <1>5, <2>1, Sending
  <2>3. blobs[r.blob].exists /\ blobPolicies[r.blob].storageMode = ModeFor(r)
    BY <1>5 DEF SendInstruction, Sendable, IsConfidentialAccessUsable, BlobServable
  <2> HIDE DEF n, r
  <2>4. blobs' = blobs /\ blobPolicies' = blobPolicies
    BY <1>5 DEF allVars, vars
  <2>5. ASSUME NEW i \in Ids' PROVE Sound(i)'
    <3>1. i = n + 1 \/ i \in Ids
      BY <2>2, <2>5
    <3>2. CASE i = n + 1
      BY <2>2, <2>3, <2>4, <3>2 DEF Sound
    <3>3. CASE i \in Ids
      BY <1>3, <2>2, <3>3
    <3> QED
      BY <3>1, <3>2, <3>3
  <2> QED
    BY <2>2, <2>5 DEF InstructionsSound
<1>6. ASSUME NEW i \in Ids, HandleAction(i)
      PROVE  InstructionsTyped' /\ InstructionsSound'
  <2>1. /\ InstructionsTyped' /\ instructions' = instructions /\ Ids' = Ids
        /\ \A j \in Ids \ {i} : results'[j] = results[j]
    BY <1>6, Handling
  <2>2. blobs' = blobs /\ blobPolicies' = blobPolicies
    BY <1>6 DEF HandleAction, allVars, vars
  <2>3. Sound(i)
    BY DEF InstructionsSound
  <2>4. results'[i] = "Success" =>
          LET r == instructions[i].request IN
          IF r.purpose = "View" THEN ProcessKeyRewrap(r) ELSE ProcessConfidentialCompute(r)
    <3>1. CASE results'[i] = "Success"
      <4>1. PICK answer \in {"Success", "Failure"} :
              /\ results' = [results EXCEPT ![i] = answer]
              /\ answer = "Success" =>
                   IF instructions[i].command = "KEY_REWRAP"
                   THEN ProcessKeyRewrap(instructions[i].request)
                   ELSE /\ ProcessConfidentialCompute(instructions[i].request)
                        /\ CiphertextForEnclave(instructions[i].request.blob)
        BY <1>6 DEF HandleAction
      <4>2. answer = "Success"
        BY <3>1, <4>1 DEF InstructionsTyped, Ids
      <4> QED
        BY <2>3, <4>1, <4>2 DEF Sound, CommandFor
    <3> QED
      BY <3>1
  <2>5. Sound(i)'
    BY <1>1, <2>1, <2>2, <2>3, <2>4
       DEF Sound, ProcessKeyRewrap, ProcessConfidentialCompute, EnvelopeFits, ModeFor
  <2> QED
    BY <1>3, <2>1, <2>5 DEF InstructionsSound
<1> QED
  BY <1>4, <1>5, <1>6, InstructionSteps

(* A result that is there stays.                                           *)
LEMMA SuccessesStay ==
  ASSUME AccessTyped, FlowsTyped, InstructionsTyped, [FccNext]_everything,
         NEW i \in Ids, results[i] = "Success"
  PROVE  i \in Ids' /\ instructions'[i] = instructions[i] /\ results'[i] = "Success"
<1>1. CASE UNCHANGED <<instructions, results>>
  BY <1>1 DEF Ids
<1>2. ASSUME NEW w \in Wallets, NEW machine \in Machines, At(w, "Request"),
             SendInstruction(IntentOf(w), machine)
      PROVE  i \in Ids' /\ instructions'[i] = instructions[i] /\ results'[i] = "Success"
  <2>1. IntentOf(w) \in Intents
    BY <1>2 DEF FlowsTyped, At
  <2> QED
    BY <1>2, <2>1, Sending
<1>3. ASSUME NEW j \in Ids, HandleAction(j)
      PROVE  i \in Ids' /\ instructions'[i] = instructions[i] /\ results'[i] = "Success"
  BY <1>3, Handling
<1> QED
  BY <1>1, <1>2, <1>3, InstructionSteps

(* An intent is consumed by a result for it.                               *)
LEMMA ConsumingSteps ==
  ASSUME [FccNext]_everything, NEW r \in consumed' \ consumed
  PROVE  \E i : SubmitResult(i, r)
<1>1. ASSUME NEW i, NEW q, SubmitResult(i, q) PROVE SubmitResult(i, r)
  BY <1>1 DEF SubmitResult, RecordConfidentialAccessResult
<1>2. CASE ClientSteps
  <2>1. PICK w \in Wallets : Submit(w) /\ consumed' # consumed
    BY <1>2 DEF ClientSteps, PrepareConfidentialAccessRequest, Authorize, Get, CheckUsable,
                Request, WaitForFccActionResult, allVars, accessVars, intentVars,
                AuthorizeConfidentialAccess
  <2> QED
    BY <1>1, <2>1 DEF Submit, allVars, accessVars, intentVars
<1>3. CASE OthersSubmit
  BY <1>1, <1>3 DEF OthersSubmit, AuthorizeConfidentialAccess
<1> QED
  BY <1>2, <1>3 DEF FccNext, RegistrySteps, MachineLeaves, HandleAction, everything, allVars,
                    accessVars, intentVars, SetConfidentialAccessController,
                    SetBlobWalletAccess

LEMMA ConsumedStep ==
  ASSUME AccessTyped, FlowsTyped, InstructionsTyped, ConsumedHasResult, [FccNext]_everything
  PROVE  ConsumedHasResult'
<1> SUFFICES ASSUME NEW r \in consumed'
             PROVE  \E i \in Ids' : /\ instructions'[i].request = r
                                    /\ instructions'[i].machine = TeeId
                                    /\ results'[i] = "Success"
  BY DEF ConsumedHasResult
<1>1. \E i \in Ids : /\ instructions[i].request = r /\ instructions[i].machine = TeeId
                     /\ results[i] = "Success"
  <2>1. CASE r \in consumed
    BY <2>1 DEF ConsumedHasResult
  <2>2. CASE r \notin consumed
    BY <2>2, ConsumingSteps DEF SubmitResult, InstructionMatches
  <2> QED
    BY <2>1, <2>2
<1> QED
  BY <1>1, SuccessesStay

(* A consumed intent stays consumed: its nonce is past.                    *)
LEMMA ConsumedStays ==
  ASSUME AInv, [AccessNext]_allVars
  PROVE  consumed \subseteq consumed'
<1>1. ASSUME NEW r \in Intents, AuthorizeConfidentialAccess(r)
      PROVE  consumed \subseteq consumed'
  <2>1. r.nonce = confidentialAccessNonces[PairOf(r)] /\ r.nonce \in Nat
    BY <1>1, AccessAssumption DEF AuthorizeConfidentialAccess, NonceIsNext, Intents
  <2>2. r \notin confidentialAccessRequests
    BY <2>1 DEF AInv, NonceIdentifiesIntent
  <2>3. r \notin consumed
    BY <2>2 DEF AInv, AccessTyped
  <2> QED
    BY <1>1, <2>3 DEF AuthorizeConfidentialAccess
<1> QED
  BY <1>1 DEF AccessNext, RegistryNext, GrantNext, IntentNext, SetConfidentialAccessController,
              SetBlobWalletAccess, RecordConfidentialAccessResult, allVars, accessVars,
              intentVars

LEMMA DoneStep ==
  ASSUME AInv, FlowsTyped, DoneIsConsumed, [FccNext]_everything
  PROVE  DoneIsConsumed'
<1> SUFFICES ASSUME NEW v \in Wallets, At(v, "Done")' PROVE IntentOf(v)' \in consumed'
  BY DEF DoneIsConsumed
<1>1. consumed \subseteq consumed'
  BY FccStepIsAccess, ConsumedStays DEF AInv
<1>2. CASE flows'[v] = flows[v]
  BY <1>1, <1>2 DEF DoneIsConsumed, At, IntentOf
<1>3. ASSUME NEW w \in Wallets, Submit(w), flows'[v] # flows[v]
      PROVE  IntentOf(v)' \in consumed'
  <2>1. v = w /\ flows'[w].step = "Done" /\ flows'[w].intent = flows[w].intent
    BY <1>3 DEF Submit, Goes, FlowsTyped, At
  <2>2. SubmitResult(flows[w].instruction, IntentOf(w))
    BY <1>3, <2>1 DEF Submit, Goes, AfterRevert, FlowsTyped
  <2> QED
    BY <2>1, <2>2 DEF SubmitResult, RecordConfidentialAccessResult, IntentOf
<1>4. ASSUME NEW w \in Wallets,
             \/ \E b \in Blobs, device \in Devices, deadline \in Timestamps :
                  PrepareConfidentialAccessRequest(w, b, device, deadline)
             \/ Authorize(w) \/ Get(w) \/ CheckUsable(w) \/ Request(w)
             \/ WaitForFccActionResult(w)
      PROVE  flows'[v] = flows[v]
  <2>1. CASE \E b \in Blobs, device \in Devices, deadline \in Timestamps :
               PrepareConfidentialAccessRequest(w, b, device, deadline)
    <3>1. flows'[w].step = "Authorize" /\ \A u \in Wallets \ {w} : flows'[u] = flows[u]
      BY <2>1 DEF PrepareConfidentialAccessRequest, FlowsTyped
    <3> QED
      BY <3>1 DEF At
  <2>2. CASE Request(w)
    <3>1. flows'[w].step \in {"Wait", "Failed"} /\ \A u \in Wallets \ {w} : flows'[u] = flows[u]
      BY <2>2 DEF Request, Goes, FlowsTyped
    <3> QED
      BY <3>1 DEF At
  <2>3. CASE Authorize(w) \/ Get(w) \/ CheckUsable(w) \/ WaitForFccActionResult(w)
    <3>1. PICK step \in Steps \ {"Done"} : Goes(w, step)
      BY <2>3 DEF Authorize, Get, CheckUsable, WaitForFccActionResult, Steps
    <3>2. flows'[w].step = step /\ \A u \in Wallets \ {w} : flows'[u] = flows[u]
      BY <3>1 DEF Goes, FlowsTyped
    <3> QED
      BY <3>2 DEF At
  <2> QED
    BY <1>4, <2>1, <2>2, <2>3
<1>5. CASE OthersSubmit \/ RegistrySteps \/ MachineLeaves \/ (\E i \in Ids : HandleAction(i))
           \/ UNCHANGED everything
  <2>1. flows' = flows
    BY <1>5 DEF OthersSubmit, RegistrySteps, MachineLeaves, HandleAction, everything, fccVars
  <2> QED
    BY <1>2, <2>1
<1> QED
  BY <1>2, <1>3, <1>4, <1>5 DEF FccNext, ClientSteps
-----------------------------------------------------------------------------
(* The inductive invariant of the whole, over that of the contract.        *)
LEMMA FccInvariance == FccSpec => [](IInv /\ AInv /\ FccInv)
<1>1. FccInit => IInv /\ AInv /\ FccInv
  <2> SUFFICES ASSUME FccInit PROVE IInv /\ AInv /\ FccInv
    OBVIOUS
  <2>1. IInv /\ AInv
    BY InitIInv, AccessStart DEF FccInit, AccessInit
  <2>2. FlowsTyped
    BY DEF FccInit, NoFlow, FlowsTyped, At, Steps
  <2>3. InstructionsTyped /\ InstructionsSound
    BY DEF FccInit, InstructionsTyped, InstructionsSound, Ids
  <2>4. ConsumedHasResult /\ DoneIsConsumed
    BY DEF FccInit, AccessInit, NoFlow, ConsumedHasResult, DoneIsConsumed, At
  <2> QED
    BY <2>1, <2>2, <2>3, <2>4 DEF FccInv
<1>2. IInv /\ AInv /\ FccInv /\ [FccNext]_everything => (IInv /\ AInv /\ FccInv)'
  <2> SUFFICES ASSUME IInv, AInv, FccInv, [FccNext]_everything
               PROVE  (IInv /\ AInv /\ FccInv)'
    OBVIOUS
  <2>1. Typed /\ AccessTyped /\ FlowsTyped /\ InstructionsTyped
    BY DEF IInv, AInv, FccInv
  <2>2. [AccessNext]_allVars
    BY <2>1, FccStepIsAccess
  <2>3. IInv' /\ AInv'
    BY <2>2, RegistryStep, NextIInv, AccessInductive
  <2>4. FlowsTyped' /\ InstructionsTyped' /\ InstructionsSound'
    BY <2>1, FlowsTypedStep, InstructionsStep DEF FccInv
  <2>5. ConsumedHasResult' /\ DoneIsConsumed'
    BY <2>1, ConsumedStep, DoneStep DEF FccInv
  <2> QED
    BY <2>3, <2>4, <2>5 DEF FccInv
<1> QED
  BY <1>1, <1>2, PTL DEF FccSpec

(* Clients, gateway, sender, enclave and verifier together implement the   *)
(* contract's specification, so that what is proved of the contract, the   *)
(* one-time use of intents among it, holds of the whole.                   *)
THEOREM AccessUndisturbed == FccSpec => AccessSpec
<1>1. FccInit => AccessInit
  BY DEF FccInit
<1>2. IInv /\ AInv /\ FccInv /\ [FccNext]_everything => [AccessNext]_allVars
  BY FccStepIsAccess DEF AInv, FccInv
<1> QED
  BY <1>1, <1>2, FccInvariance, PTL DEF FccSpec, AccessSpec

(* An intent is consumed only by the accepted machine's answer to an       *)
(* instruction for this intent, for any number of wallets, instructions    *)
(* and machines (PrimeServerResultVerifier.sol, submitResult).             *)
THEOREM ResultsConsume == FccSpec => []ConsumedHasResult
BY FccInvariance, PTL DEF FccInv

(* A client that reports a finished access has its intent consumed.        *)
THEOREM FinishedIsConsumed == FccSpec => []DoneIsConsumed
BY FccInvariance, PTL DEF FccInv

(* What the enclave gives out was opened from an envelope sealed for this  *)
(* blob and use by its owner, for an instruction an entitled wallet sent   *)
(* (PrimeServerInstructionSender.sol; handler.mjs).                        *)
THEOREM EntitledRelease == FccSpec => []ReleasedIsEntitled
<1>1. FccInv => ReleasedIsEntitled
  BY DEF FccInv, InstructionsSound, Sound, ReleasedIsEntitled
<1> QED
  BY <1>1, FccInvariance, PTL
=============================================================================
