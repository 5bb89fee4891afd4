------------------------------ MODULE Gateway ------------------------------
(***************************************************************************)
(* The gateway (rpc/src/server.mjs) at work between the storage providers, *)
(* the registry contract and its own object index: registered uploads      *)
(* (PUT), operator uploads (POST) and rebuilds, several at a time, each a  *)
(* sequence of remote calls that may fail, be refused or be cut off by a   *)
(* crash.                                                                  *)
(*                                                                         *)
(* A contract call (flare-registry.mjs, write) is estimated first, which   *)
(* refuses what would revert, then sent and awaited.  The receipt's status *)
(* is not looked at, so a transaction that reverts when it is mined passes *)
(* for a success; and a transaction sent before its request was cut off    *)
(* may still be mined.                                                     *)
(*                                                                         *)
(* Bytes and signatures are left out: the shards of a blob are the ones    *)
(* its commitment names, and a provider that answers signs what it stored. *)
(* getBlob makes several reads; they are taken as one, since what they     *)
(* return only ever moves on.  Every operator of the contract is a         *)
(* configured provider.                                                    *)
(***************************************************************************)
EXTENDS PrimeServerRegistry, Sequences

CONSTANTS
  Owners,       \* wallets that register blobs
  ProviderList, \* the operators of the configured providers, in order
  DataShards,   \* k of the erasure code; n is the number of providers
  Requests,     \* requests served at a time
  MaxFaults,    \* bound on failing calls and crashes
  MaxLosses,    \* bound on lost shards
  MaxOwnerCalls \* bound on the calls owners make past the gateway

ASSUME GatewayAssumption ==
  /\ Owners \subseteq Accounts \ {Admin}
  /\ ProviderList \in Seq(Operators)
  /\ \A o \in Operators : \E s \in Shards : ProviderList[s + 1] = o
  /\ DataShards \in 1..Len(ProviderList)
  /\ Len(ProviderList) = MaxShards
  /\ 0 \in Tenders
  /\ MaxFaults \in Nat /\ MaxLosses \in Nat /\ MaxOwnerCalls \in Nat

VARIABLES
  registered,  \* how many providers the server has registered since it started
  requests,
  files,       \* per blob, the <<provider, shard>> pairs that are stored
  lost,        \* and the ones stored and lost
  index,       \* the object index, per owner and name
  indexFile,   \* the index in its file
  jobs,        \* the recovery job of each blob; "queued" is also when there is none
  faults,      \* failing calls and crashes so far
  ownerCalls,  \* calls owners made past the gateway so far
  cut,         \* history: blobs an upload finalized but did not see to the end
  interrupted, \* history: blobs a rebuild left between start and record
  byOwner      \* history: the calls of owners, each with its blob

fileVars == <<files, lost>>
storeVars == <<index, indexFile, jobs>>
ownerVars == <<ownerCalls, byOwner>>
historyVars == <<cut, interrupted, ownerVars>>
gatewayVars == <<registered, requests, fileVars, storeVars, faults, historyVars>>

NumProviders == Len(ProviderList)
NoObject == [blob |-> NoBlob, reported |-> {}]

Idle ==
  [ kind |-> "None", blob |-> NoBlob, step |-> "None", shard |-> 0,
    provider |-> NoProvider,
    placed |-> [s \in Shards |-> NoProvider], \* the placement it last read
    acked |-> {},     \* the shards acknowledged by their provider at that time
    missing |-> {},   \* the shards it found missing
    claims |-> {},    \* the providers it has yet to settle
    reported |-> {},  \* the shards it reports as settled
    last |-> FALSE,   \* the read after a rebuild
    sent |-> FALSE ]  \* its transaction is sent and not mined

GatewayInit ==
  /\ Init
  /\ \A t \in Timestamps : now <= t
  /\ registered = 0
  /\ requests = [r \in Requests |-> Idle]
  /\ files = [b \in Blobs |-> {}] /\ lost = files
  /\ index = [a \in Accounts |-> [n \in Names |-> NoObject]]
  /\ indexFile = index
  /\ jobs = [b \in Blobs |-> "queued"]
  /\ faults = 0 /\ cut = {} /\ interrupted = {}
  /\ ownerCalls = 0 /\ byOwner = {}
-----------------------------------------------------------------------------
(* The start of the server registers every provider, in order, before it   *)
(* listens; one that is registered already is only looked up.              *)
Serving == registered = NumProviders

NextOperator == ProviderList[registered + 1]

(* Variant: a provider registered earlier is an error, as in the memory    *)
(* registry.                                                               *)
RefusedWhenKnown(operator) == FALSE

KnownIsFine(operator) == providerIdByOperator[operator] # NoProvider

RegisterConfigured ==
  /\ ~Serving
  /\ \/ RegisterProvider(NextOperator)
     \/ KnownIsFine(NextOperator) /\ UNCHANGED vars
  /\ registered' = registered + 1
  /\ UNCHANGED <<requests, fileVars, storeVars, faults, historyVars>>

(* The id of the provider the code pairs with shard s.                     *)
Configured(s) == providerIdByOperator[ProviderList[s + 1]]

-----------------------------------------------------------------------------
(* What a request does next.                                               *)

OnShard(q, s) ==
  LET placed == q.placed[s] # NoProvider IN
  [q EXCEPT !.shard = s,
            !.provider = IF placed THEN q.placed[s] ELSE Configured(s),
            !.step = IF placed THEN "Store" ELSE "Assign"]

(* The placement read before is not looked at any more.                    *)
Forgets(q) ==
  [q EXCEPT !.shard = 0, !.provider = NoProvider, !.placed = Idle.placed, !.acked = {}]

(* Variant: the blob is put into the index before it is finalized.         *)
StoredIsEnough(q) ==
  IF q.shard + 1 < NumProviders THEN OnShard(q, q.shard + 1)
  ELSE Forgets([q EXCEPT !.step = IF q.kind = "Put" THEN "Index" ELSE "Finalize"])

AfterShard(q) ==
  IF q.shard + 1 < NumProviders THEN OnShard(q, q.shard + 1)
  ELSE Forgets([q EXCEPT !.step = "Finalize"])

(* Variant: an acknowledgement is asked for before the shard is stored.    *)
AcknowledgesFirst(q) == [q EXCEPT !.step = "Acknowledge"]

AfterAssign(q) == [q EXCEPT !.step = "Store"]

(* An acknowledgement that was there when the placement was read is only   *)
(* compared.                                                               *)
AfterStore(q) ==
  IF q.step = "Restore" THEN [q EXCEPT !.step = "Reacknowledge"]
  ELSE IF q.shard \in q.acked THEN AfterShard(q)
  ELSE [q EXCEPT !.step = "Acknowledge"]

LeastShard(S) == CHOOSE s \in S : \A t \in S : s <= t

ShardsAt(q, p) == {s \in Shards : q.placed[s] = p}

(* settleProviderClaims goes by provider in the order of their first shard. *)
OnClaims(q) ==
  IF q.claims = {} THEN Forgets([q EXCEPT !.step = "Index"])
  ELSE [q EXCEPT !.step = "Claim",
                 !.provider = q.placed[LeastShard({s \in Shards : q.placed[s] \in q.claims})]]

(* Variant: one settled provider stands for all of them.                   *)
FirstClaimForAll(q) == OnClaims([q EXCEPT !.claims = {}, !.reported = Shards])

AfterClaim(q) ==
  OnClaims([q EXCEPT !.claims = @ \ {q.provider},
                     !.reported = @ \cup ShardsAt(q, q.provider)])

OnRebuild(q) ==
  IF q.missing = {} THEN [q EXCEPT !.step = "Read", !.last = TRUE]
  ELSE LET s == LeastShard(q.missing) IN
       [q EXCEPT !.step = "Start", !.shard = s, !.provider = q.placed[s]]

(* Variant: the rebuilt shard is not recorded.                             *)
NeverRecorded(q) == OnRebuild([q EXCEPT !.missing = @ \ {q.shard}])

AfterReacknowledge(q) == [q EXCEPT !.step = "Record"]

AfterTx(q) ==
  [ CASE q.step = "Create" -> [q EXCEPT !.step = "Place"]
      [] q.step = "Assign" -> AfterAssign(q)
      [] q.step = "Acknowledge" -> AfterShard(q)
      [] q.step = "Finalize" -> [q EXCEPT !.step = "Reread"]
      [] q.step = "Claim" -> AfterClaim(q)
      [] q.step = "Start" -> [q EXCEPT !.step = "Reassign"]
      [] q.step = "Reassign" -> [q EXCEPT !.step = "Restore"]
      [] q.step = "Reacknowledge" -> AfterReacknowledge(q)
      [] q.step = "Record" -> OnRebuild([q EXCEPT !.missing = @ \ {q.shard}])
    EXCEPT !.sent = FALSE ]

(* The call to the contract each step makes, with the wallet it is sent by. *)
Tx(q) ==
  LET b == q.blob
      s == q.shard
      p == q.provider
      operator == providers[p].operator
  IN \/ q.step = "Create" /\ CreateOperatorBlob(Admin, b, NoName, NumProviders, NoExpiry)
     \/ q.step = "Assign" /\ AssignShard(Admin, b, s, p)
     \/ q.step \in {"Acknowledge", "Reacknowledge"} /\ AcknowledgeShard(operator, b, s)
     \/ q.step = "Finalize" /\ FinalizeBlob(Admin, b)
     \/ q.step = "Claim" /\ ClaimProviderSettlement(operator, b, ShardsAt(q, p))
     \/ q.step = "Start" /\ p # NoProvider /\ StartRecovery(Admin, b, s)
     \/ q.step = "Reassign" /\ ReassignShard(Admin, b, s, p)
     \/ q.step = "Record" /\ RecordRebuiltShard(Admin, b, s, p)

(* Whether that call goes through as the chain stands: what an estimate    *)
(* finds out, and what decides whether a transaction reverts.              *)
Passes(q) ==
  LET b == q.blob
      s == q.shard
      p == q.provider
      operator == providers[p].operator
  IN \/ /\ q.step = "Create" /\ OnlyCoordinator(Admin)
        /\ MayCreateRecord(Admin, b, NoName, NumProviders, NoExpiry)
     \/ q.step = "Assign" /\ MayAssignShard(Admin, b, s, p)
     \/ q.step \in {"Acknowledge", "Reacknowledge"} /\ MayAcknowledgeShard(operator, b, s)
     \/ q.step = "Finalize" /\ MayFinalizeBlob(Admin, b)
     \/ q.step = "Claim" /\ MayClaimSettlement(operator, b, ShardsAt(q, p))
     \/ q.step = "Start" /\ p # NoProvider /\ MayStartRecovery(Admin, b, s)
     \/ q.step = "Reassign" /\ MayReassignShard(Admin, b, s, p)
     \/ q.step = "Record" /\ MayRecordRebuiltShard(Admin, b, s, p)

TxSteps == {"Create", "Assign", "Acknowledge", "Finalize", "Claim", "Start",
            "Reassign", "Reacknowledge", "Record"}

Live(q) == q.kind \notin {"None", "Orphan"}

(* Which slot a new request takes tells nothing.                           *)
Free(r) ==
  requests[r] = Idle /\ r = CHOOSE t \in Requests : requests[t] = Idle

Takes(r, q) == requests' = [requests EXCEPT ![r] = q]

(* A request that is answered, or cut off, leaves nothing but the          *)
(* transaction it may have sent.                                           *)
Rest(q) == IF q.sent THEN [q EXCEPT !.kind = "Orphan"] ELSE Idle

(* The contract knows the blob as final, the index may not get to.         *)
PastFinalize(q) ==
  /\ q.kind = "Put"
  /\ q.step \in {"Reread", "Claim", "Index"} \/ (q.step = "Finalize" /\ q.sent)

(* A recovery was opened and not yet recorded.                             *)
PastStart(q) ==
  \/ q.step \in {"Reassign", "Restore", "Reacknowledge", "Record"}
  \/ q.step = "Start" /\ q.sent

Ends(R) ==
  /\ requests' = [r \in Requests |-> IF r \in R THEN Rest(requests[r]) ELSE requests[r]]
  /\ cut' = cut \cup {requests[r].blob : r \in {t \in R : PastFinalize(requests[t])}}
  /\ interrupted' =
       interrupted \cup {requests[r].blob : r \in {t \in R : PastStart(requests[t])}}
  /\ UNCHANGED ownerVars

(* The coordinator puts down how a rebuild went: the job of one that       *)
(* failed is queued again.                                                 *)
JobEnds(r, status) ==
  jobs' = IF requests[r].kind = "Rebuild"
          THEN [jobs EXCEPT ![requests[r].blob] = status] ELSE jobs
-----------------------------------------------------------------------------
(* Transactions.                                                           *)

Submit(r) ==
  LET q == requests[r] IN
  /\ Live(q) /\ q.step \in TxSteps /\ ~q.sent
  /\ Passes(q)
  /\ Takes(r, [q EXCEPT !.sent = TRUE])
  /\ UNCHANGED <<vars, registered, fileVars, storeVars, faults, historyVars>>

(* The estimate says that the call would revert.                           *)
Refuse(r) ==
  LET q == requests[r] IN
  /\ Live(q) /\ q.step \in TxSteps /\ ~q.sent
  /\ ~Passes(q)
  /\ Ends({r}) /\ JobEnds(r, "queued")
  /\ UNCHANGED <<vars, registered, fileVars, index, indexFile, faults>>

Mine(r) ==
  LET q == requests[r] IN
  /\ q.sent
  /\ Tx(q)
  /\ Takes(r, IF Live(q) THEN AfterTx(q) ELSE Idle)
  /\ UNCHANGED <<registered, fileVars, storeVars, faults, historyVars>>

(* Mined, but reverted: the request goes on as after a success.            *)
Revert(r) ==
  LET q == requests[r] IN
  /\ q.sent
  /\ ~Passes(q)
  /\ Takes(r, IF Live(q) THEN AfterTx(q) ELSE Idle)
  /\ UNCHANGED <<vars, registered, fileVars, storeVars, faults, historyVars>>
-----------------------------------------------------------------------------
(* Uploads.                                                                *)

NotExpired(b) == blobs[b].expiresAt = NoExpiry \/ now < blobs[b].expiresAt

(* assertRegistrationMatchesRequest, for headers as the SDK sets them.     *)
Registrable(b) ==
  /\ blobs[b].origin = "User"
  /\ blobs[b].status = "Pending"
  /\ NotExpired(b)
  /\ blobPayments[b].status \in {"None", "Escrowed"}

(* PUT of a name that has no object: an object that expired keeps its name *)
(* (410), any other one is a conflict (409).                               *)
BeginPut(r, a, n, b) ==
  /\ Serving /\ Free(r)
  /\ index[a][n] = NoObject
  /\ blobs[b].exists /\ blobs[b].owner = a /\ blobNames[b] = n
  /\ Registrable(b)
  /\ Takes(r, [Idle EXCEPT !.kind = "Put", !.blob = b, !.step = "Place"])
  /\ UNCHANGED <<vars, registered, fileVars, storeVars, faults, historyVars>>

(* The checks of uploadRegisteredBlob on the registration read before the  *)
(* body: the age once more, and the shape of the erasure code.             *)
Encodable(b) == NotExpired(b) /\ blobs[b].totalShards = NumProviders

(* POST: a blob of the operator, under a fresh random id.                  *)
BeginPost(r, b) ==
  /\ Serving /\ Free(r)
  /\ ~blobs[b].exists
  /\ \A t \in Requests : requests[t].blob # b
  /\ Takes(r, [Idle EXCEPT !.kind = "Post", !.blob = b, !.step = "Create"])
  /\ UNCHANGED <<vars, registered, fileVars, storeVars, faults, historyVars>>

AcksRead(b) == {s \in Shards : <<placement[b][s], s>> \in acknowledgements[b]}

(* placeEncodedBlob reads the placement and the acknowledgements once.     *)
Place(r) ==
  LET q == requests[r]
      read == [q EXCEPT !.placed = placement[q.blob], !.acked = AcksRead(q.blob)]
  IN
  /\ q.step = "Place"
  /\ IF q.kind = "Put" => Encodable(q.blob)
     THEN Takes(r, OnShard(read, 0)) /\ UNCHANGED historyVars
     ELSE Ends({r})
  /\ UNCHANGED <<vars, registered, fileVars, storeVars, faults>>

(* uploadShard; a provider that has the shard answers the same.            *)
Store(r) ==
  LET q == requests[r] IN
  /\ q.step \in {"Store", "Restore"}
  /\ files' = [files EXCEPT ![q.blob] = @ \cup {<<q.provider, q.shard>>}]
  /\ Takes(r, AfterStore(q))
  /\ UNCHANGED <<vars, registered, storeVars, faults, historyVars, lost>>

(* The state read after finalizeBlob tells whether there is something to   *)
(* claim.                                                                  *)
Reread(r) ==
  LET q == requests[r]
      b == q.blob
      open == blobPayments[b].status \in {"Claimable", "PartiallySettled"}
      read == [q EXCEPT !.placed = placement[b],
                        !.claims = IF open THEN {placement[b][s] : s \in ShardsOf(b)} ELSE {}]
  IN
  /\ q.step = "Reread"
  /\ Takes(r, OnClaims(read))
  /\ UNCHANGED <<vars, registered, fileVars, storeVars, faults, historyVars>>

(* putObject, the end of a PUT.  A POST has no object.                     *)
Index(r) ==
  LET q == requests[r]
      b == q.blob
      object == [blob |-> b, reported |-> q.reported]
  IN
  /\ q.step = "Index"
  /\ Takes(r, Idle)
  /\ IF q.kind = "Put"
     THEN /\ index' = [index EXCEPT ![blobs[b].owner][blobNames[b]] = object]
          /\ indexFile' = index'
     ELSE UNCHANGED <<index, indexFile>>
  /\ UNCHANGED <<vars, registered, fileVars, jobs, faults, historyVars>>
-----------------------------------------------------------------------------
(* Rebuild.                                                                *)

(* readBlob: the placement first, then shard by shard.                     *)
OnRead(q) ==
  [q EXCEPT !.step = "Fetch", !.shard = 0, !.missing = {}, !.provider = NoProvider,
            !.placed = placement[q.blob], !.acked = AcksRead(q.blob)]

(* A job that says it is running although its process is gone.             *)
LeftRunning(b) ==
  /\ jobs[b] = "running"
  /\ \A r \in Requests : requests[r].blob = b => requests[r].kind # "Rebuild"

(* recoverBlob.  A job that succeeded is answered as it was, and a running *)
(* one only waited for, also when its process is gone; the worker of some  *)
(* other queued job may take it, once its lease ran out.  A lease that     *)
(* runs out on a worker still at it is RecoveryQueue's subject.            *)
BeginRebuild(r, b) ==
  /\ Serving /\ Free(r)
  /\ blobs[b].exists
  /\ jobs[b] = "queued" \/ (LeftRunning(b) /\ \E c \in Blobs \ {b} : jobs[c] = "queued")
  /\ jobs' = [jobs EXCEPT ![b] = "running"]
  /\ Takes(r, OnRead([Idle EXCEPT !.kind = "Rebuild", !.blob = b]))
  /\ UNCHANGED <<vars, registered, fileVars, index, indexFile, faults, historyVars>>

ReadAgain(r) ==
  LET q == requests[r] IN
  /\ q.step = "Read"
  /\ Takes(r, OnRead(q))
  /\ UNCHANGED <<vars, registered, fileVars, storeVars, faults, historyVars>>

(* Variant: what was acknowledged is not fetched.                          *)
TrustsAcks(q) == q.shard \in q.acked

Fetchable(q) ==
  /\ q.shard \in q.acked
  /\ <<q.placed[q.shard], q.shard>> \in files[q.blob]

(* What comes after the last shard: too few of them, or a rebuild that     *)
(* leaves some missing, is an error.                                       *)
Enough(q, missing) == NumProviders - Cardinality(missing) >= DataShards

AfterFetch(r, missing) ==
  LET q == [requests[r] EXCEPT !.missing = missing] IN
  IF q.shard + 1 < blobs[q.blob].totalShards
  THEN Takes(r, [q EXCEPT !.shard = @ + 1]) /\ UNCHANGED <<jobs, historyVars>>
  ELSE IF Enough(q, missing) /\ missing # {} /\ ~q.last
       THEN Takes(r, OnRebuild([q EXCEPT !.acked = {}])) /\ UNCHANGED <<jobs, historyVars>>
       ELSE Ends({r}) /\ JobEnds(r, IF missing = {} THEN "succeeded" ELSE "queued")

Fetch(r) ==
  LET q == requests[r] IN
  /\ q.step = "Fetch"
  /\ AfterFetch(r, IF Fetchable(q) THEN q.missing ELSE q.missing \cup {q.shard})
  /\ UNCHANGED <<vars, registered, fileVars, index, indexFile, faults>>
-----------------------------------------------------------------------------
(* Faults.                                                                 *)

Faulty == faults < MaxFaults /\ faults' = faults + 1

(* A fetch that fails makes the shard pass for missing.                    *)
FetchFails(r) ==
  LET q == requests[r] IN
  /\ q.step = "Fetch"
  /\ Faulty
  /\ AfterFetch(r, q.missing \cup {q.shard})
  /\ UNCHANGED <<vars, registered, fileVars, index, indexFile>>

(* Any other call that fails ends its request; a transaction that was sent *)
(* may be mined all the same.                                              *)
CallFails(r) ==
  LET q == requests[r] IN
  /\ Live(q) /\ q.step \notin {"Fetch", "Index"}
  /\ Faulty
  /\ Ends({r}) /\ JobEnds(r, "queued")
  /\ UNCHANGED <<vars, registered, fileVars, index, indexFile>>

(* A write that fails leaves the object in the memory of the store, with   *)
(* or without the file.                                                    *)
IndexFails(r) ==
  LET q == requests[r]
      b == q.blob
      object == [blob |-> b, reported |-> q.reported]
  IN
  /\ q.step = "Index" /\ q.kind = "Put"
  /\ Faulty
  /\ index' = [index EXCEPT ![blobs[b].owner][blobNames[b]] = object]
  /\ indexFile' \in {index', indexFile}
  /\ Ends({r})
  /\ UNCHANGED <<vars, registered, fileVars, jobs>>

(* The process ends and starts again, with the index of the file.  A job   *)
(* that was running still says so.                                         *)
Crash ==
  /\ Faulty
  /\ registered' = 0
  /\ Ends({r \in Requests : Live(requests[r])})
  /\ index' = indexFile
  /\ UNCHANGED <<vars, fileVars, indexFile, jobs>>

(* A provider loses a shard, data and metadata.                            *)
LoseShard(b, pair) ==
  /\ pair \in files[b]
  /\ Cardinality(lost[b]) < MaxLosses
  /\ files' = [files EXCEPT ![b] = @ \ {pair}]
  /\ lost' = [lost EXCEPT ![b] = @ \cup {pair}]
  /\ UNCHANGED <<vars, registered, requests, storeVars, faults, historyVars>>
-----------------------------------------------------------------------------
(* The wallets of the owners, and the clock.  An id taken for a POST is no *)
(* one else's: it is a hash of fresh random bytes.                         *)
OwnerRegisters ==
  /\ \E a \in Owners, b \in Blobs, n \in Names, e \in Timestamps :
       \E policy \in Policies, size \in Sizes :
         /\ \A r \in Requests : requests[r].blob # b
         /\ CreateBlobPaid(a, b, n, NumProviders, e, policy, size, 0)
  /\ UNCHANGED gatewayVars

(* What the contract lets the owner of a blob call as well as the          *)
(* coordinator, at any time and past the gateway.                          *)
OwnerCalls(call, a, b) ==
  \/ call = "Finalize" /\ FinalizeBlob(a, b)
  \/ call = "Refund" /\ RefundPaidBlob(a, b)
  \/ \E s \in Shards :
       \/ call = "Start" /\ StartRecovery(a, b, s)
       \/ \E p \in ProviderIds :
            \/ call = "Assign" /\ AssignShard(a, b, s, p)
            \/ call = "Reassign" /\ ReassignShard(a, b, s, p)
            \/ call = "Record" /\ RecordRebuiltShard(a, b, s, p)

OwnerIntervenes ==
  /\ ownerCalls < MaxOwnerCalls /\ ownerCalls' = ownerCalls + 1
  /\ \E a \in Owners, b \in Blobs :
       \E call \in {"Assign", "Finalize", "Refund", "Start", "Reassign", "Record"} :
         OwnerCalls(call, a, b) /\ byOwner' = byOwner \cup {<<call, b>>}
  /\ UNCHANGED <<registered, requests, fileVars, storeVars, faults, cut, interrupted>>

(* Later than the first block after the expiry, time changes nothing more. *)
Passing ==
  /\ \E b \in Blobs : blobs[b].status = "Pending" /\ blobs[b].expiresAt >= now
  /\ \E t \in Timestamps : Tick(t)
  /\ UNCHANGED gatewayVars

OwnerSteps == OwnerRegisters \/ OwnerIntervenes \/ Passing

FaultSteps ==
  \/ \E r \in Requests : FetchFails(r) \/ CallFails(r) \/ IndexFails(r)
  \/ Crash
  \/ \E b \in Blobs : \E pair \in files[b] : LoseShard(b, pair)

Clients ==
  \E r \in Requests, b \in Blobs :
    \/ \E a \in Owners, n \in Names : BeginPut(r, a, n, b)
    \/ BeginPost(r, b)
    \/ BeginRebuild(r, b)

RequestStep(r) ==
  \/ Submit(r) \/ Refuse(r) \/ Mine(r) \/ Revert(r)
  \/ Place(r) \/ Store(r) \/ Reread(r) \/ Index(r)
  \/ ReadAgain(r) \/ Fetch(r)

GatewayNext ==
  \/ RegisterConfigured
  \/ \E r \in Requests : RequestStep(r)
  \/ Clients \/ OwnerSteps \/ FaultSteps

(* The event loop takes every request further, transactions are mined, the *)
(* container restarts the process (deploy/aws/bootstrap.sh), and a client  *)
(* asks again for an upload or a rebuild as long as it has not succeeded;  *)
(* for which of the queued blobs a rebuild is begun is not up to it.       *)
Fairness ==
  /\ WF_<<vars, gatewayVars>>(RegisterConfigured)
  /\ \A r \in Requests : WF_<<vars, gatewayVars>>(RequestStep(r))
  /\ \A b \in Blobs : SF_<<vars, gatewayVars>>(\E r \in Requests, a \in Owners, n \in Names :
                                                  BeginPut(r, a, n, b))
  /\ SF_<<vars, gatewayVars>>(\E r \in Requests, b \in Blobs : BeginRebuild(r, b))

GatewaySpec == GatewayInit /\ [][GatewayNext]_<<vars, gatewayVars>> /\ Fairness
-----------------------------------------------------------------------------
(***************************************************************************)
(* Properties.                                                             *)
(***************************************************************************)

(* No provider is on record for a shard it was not given: through          *)
(* concurrent uploads and rebuilds of one blob, transactions mined late    *)
(* and restarts, an acknowledgement on chain has the file behind it        *)
(* (server.mjs, 703-729 and 660-670).                                      *)
AcksAreBacked == \A b \in Blobs : acknowledgements[b] \subseteq files[b] \cup lost[b]

(* What the index lists, in memory or in its file, is a blob of that owner *)
(* and name which the contract has finalized, although a PUT may have      *)
(* taken a reverted finalization for a success (server.mjs, 739-754 and    *)
(* 462; flare-registry.mjs, 166-178).                                      *)
IndexedIsFinal ==
  \A a \in Accounts, n \in Names :
    \A b \in {index[a][n].blob, indexFile[a][n].blob} \ {NoBlob} :
      /\ blobs[b].owner = a /\ blobNames[b] = n
      /\ blobs[b].status # "Pending"
      /\ \A s \in ShardsOf(b) : \E p \in ProviderIds : <<p, s>> \in acknowledgements[b]

(* The settlements an upload reports were paid, by its own claim or, when  *)
(* that was reverted, by the one that came first (settleProviderClaims).   *)
(* A rebuild that opens a recovery between the estimate and the block      *)
(* breaks this: the reverted claim passes for a success.  Only a blob that *)
(* was never in recovery is still Active.                                  *)
ReportedIsSettled ==
  \A a \in Accounts, n \in Names :
    LET b == index[a][n].blob IN
    b # NoBlob /\ blobs[b].status = "Active" =>
      index[a][n].reported \subseteq providerSettlementClaimed[b]

(* The owner opened a recovery himself, or gave a shard under recovery to  *)
(* another provider than the rebuild is going to record.                   *)
OwnerRecovers(b) == <<"Start", b>> \in byOwner \/ <<"Reassign", b>> \in byOwner

(* A blob is in recovery only while a rebuild is between startRecovery and *)
(* recordRebuiltShard, or one was cut off there, or its owner takes a hand *)
(* in its recovery: then no later rebuild closes it, since startRecovery   *)
(* refuses (server.mjs, 658-673; lines 888-920 of the contract).           *)
RecoveringHasRebuild ==
  \A b \in Blobs : blobs[b].status = "Recovering" =>
    \/ \E r \in Requests : requests[r].blob = b /\ PastStart(requests[r])
    \/ b \in interrupted
    \/ OwnerRecovers(b)

Indexed(b) == \E a \in Accounts, n \in Names : index[a][n].blob = b

(* A registered blob whose owner keeps uploading ends up in the index,     *)
(* through failing calls, crashes, uploads that overtake one another, and  *)
(* shards the owner assigns to providers of his own choice, unless it      *)
(* expires, or it was finalized and not indexed, by an upload that was cut *)
(* off there or by the owner himself: every later upload answers 409       *)
(* (server.mjs, 171 and 739-741).                                          *)
UploadsFinish ==
  \A b \in Blobs :
    (blobs[b].exists /\ Registrable(b))
      ~> (Indexed(b) \/ ~NotExpired(b) \/ b \in cut \/ <<"Finalize", b>> \in byOwner)

Intact(b) == \A s \in ShardsOf(b) : <<placement[b][s], s>> \in files[b]
Readable(b) ==
  Cardinality({s \in ShardsOf(b) : <<placement[b][s], s>> \in files[b]}) >= DataShards

(* A shard that is lost before the blob's recovery job ran, or whose       *)
(* rebuild failed, is back in the end as long as enough others are left    *)
(* and rebuilds are asked for, unless a crash left the job running, a      *)
(* rebuild was cut off before the record, or the owner took a hand in a    *)
(* recovery (rebuildBlob).  One lost after the job succeeded is not: the   *)
(* job is final.  A provider that lost the data of a shard and not its     *)
(* metadata is left out: ShardStore shows that it answers every upload     *)
(* from the metadata and never has the shard again.                        *)
LostIsRebuilt ==
  \A b \in Blobs :
    (blobs[b].status \in {"Active", "Rebuilt"} /\ ~Intact(b) /\ jobs[b] = "queued")
      ~> \/ Intact(b) \/ ~Readable(b) \/ LeftRunning(b)
         \/ b \in interrupted \/ OwnerRecovers(b)
=============================================================================
