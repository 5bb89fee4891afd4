--------------------------- MODULE MemoryRegistry ---------------------------
(***************************************************************************)
(* The registry the tests and the local demo run against                   *)
(* (rpc/src/memory-registry.mjs), beside the contract it stands for.  One  *)
(* caller makes every call on both: PrimeServerRegistry's variables are    *)
(* the contract, `memory' is the substitute, and either may refuse.        *)
(*                                                                         *)
(* The substitute has no payments, takes no sender and keeps its provider  *)
(* ids from the caller.  Where it is known to accept more than the         *)
(* contract, the caller does not go: a shard index beyond the blob's       *)
(* shards, a registration without shards, with an expiry that has passed   *)
(* or in a coordinator's name, and the finalization of a blob that is not  *)
(* Pending.  Its copy of the access checks is left out.                    *)
(***************************************************************************)
EXTENDS PrimeServerRegistry

VARIABLE memory

NoRecord == [exists |-> FALSE]

MemoryInit ==
  memory = [ providers |-> {}, names |-> {}, blobs |-> [b \in Blobs |-> NoRecord] ]

Accepted(guard, after) == memory' = IF guard THEN after ELSE memory

Known(b) == memory.blobs[b].exists

With(b, record) == [memory EXCEPT !.blobs[b] = record]

(* Map.set, on a map from shards to providers.                             *)
Placed(map, s, p) == [t \in DOMAIN map \cup {s} |-> IF t = s THEN p ELSE map[t]]
-----------------------------------------------------------------------------
(* The methods, each with the arguments the server passes.                 *)

MemoryRegisterProvider(p) ==
  Accepted(p \notin memory.providers, [memory EXCEPT !.providers = @ \cup {p}])

NewRecord(owner, totalShards, expiresAt, origin, name) ==
  [ exists |-> TRUE, owner |-> owner, totalShards |-> totalShards,
    expiresAt |-> expiresAt, origin |-> origin, name |-> name, status |-> "Pending",
    placement |-> [s \in {} |-> NoProvider], acknowledgements |-> {} ]

MemoryCreateBlob(owner, b, totalShards, expiresAt, origin) ==
  Accepted(~Known(b), With(b, NewRecord(owner, totalShards, expiresAt, origin, NoName)))

MemoryCreateBlobNamed(owner, b, name, totalShards, expiresAt, origin) ==
  Accepted(/\ <<owner, name>> \notin memory.names
           /\ ~Known(b),
           [With(b, NewRecord(owner, totalShards, expiresAt, origin, name))
              EXCEPT !.names = @ \cup {<<owner, name>>}])

(* createBlob and createBlobNamed, and the operator's two of the same.     *)
MemoryRegister(owner, b, name, totalShards, expiresAt, origin) ==
  IF name = NoName THEN MemoryCreateBlob(owner, b, totalShards, expiresAt, origin)
  ELSE MemoryCreateBlobNamed(owner, b, name, totalShards, expiresAt, origin)

MemoryAssignShard(b, s, p) ==
  LET blob == memory.blobs[b] IN
  Accepted(/\ Known(b)
           /\ blob.status = "Pending"
           /\ p \in memory.providers
           /\ s \notin DOMAIN blob.placement,
           With(b, [blob EXCEPT !.placement = Placed(@, s, p)]))

(* Variant: a shard has one acknowledgement, the latest.                   *)
LatestOnly(acks, p, s) == {a \in acks : a[2] # s} \cup {<<p, s>>}

(* The map's keys are provider and shard.                                  *)
AcksWith(acks, p, s) == acks \cup {<<p, s>>}

MemoryAcknowledgeShard(b, s, p) ==
  LET blob == memory.blobs[b] IN
  Accepted(/\ Known(b)
           /\ blob.status \in {"Pending", "Recovering"}
           /\ s \in DOMAIN blob.placement /\ blob.placement[s] = p
           /\ p \in memory.providers,
           With(b, [blob EXCEPT !.acknowledgements = AcksWith(@, p, s)]))

MemoryFinalizeBlob(b) ==
  LET blob == memory.blobs[b] IN
  Accepted(Known(b) /\ Cardinality(blob.acknowledgements) = blob.totalShards,
           With(b, [blob EXCEPT !.status = "Active"]))

MemoryStartRecovery(b, s) ==
  LET blob == memory.blobs[b] IN
  Accepted(/\ Known(b)
           /\ blob.status \in {"Active", "Rebuilt"}
           /\ s \in DOMAIN blob.placement,
           With(b, [blob EXCEPT !.status = "Recovering"]))

MemoryReassignShard(b, s, p) ==
  LET blob == memory.blobs[b] IN
  Accepted(Known(b) /\ blob.status = "Recovering" /\ p \in memory.providers,
           With(b, [blob EXCEPT !.placement = Placed(@, s, p)]))

MemoryRecordRebuiltShard(b, s, p) ==
  LET blob == memory.blobs[b] IN
  Accepted(/\ Known(b)
           /\ blob.status = "Recovering"
           /\ s \in DOMAIN blob.placement /\ blob.placement[s] = p,
           With(b, [blob EXCEPT !.status = "Rebuilt"]))
-----------------------------------------------------------------------------
(* What a caller is shown of a blob.                                       *)
MemoryGetBlob(b) ==
  LET blob == memory.blobs[b] IN
  IF ~Known(b) THEN NoRecord
  ELSE [ exists |-> TRUE, owner |-> blob.owner, totalShards |-> blob.totalShards,
         expiresAt |-> blob.expiresAt, origin |-> blob.origin, name |-> blob.name,
         status |-> blob.status, placement |-> blob.placement,
         acknowledgements |-> blob.acknowledgements ]

(* getBlob of flare-registry.mjs.  It reads shard by shard: a shard no one *)
(* has yet is with provider 0, and of the acknowledgements only the one of *)
(* the provider that has the shard now is asked for.                       *)
ChainGetBlob(b) ==
  IF ~blobs[b].exists THEN NoRecord
  ELSE [ exists |-> TRUE, owner |-> blobs[b].owner,
         totalShards |-> blobs[b].totalShards, expiresAt |-> blobs[b].expiresAt,
         origin |-> blobs[b].origin, name |-> blobNames[b],
         status |-> blobs[b].status,
         acknowledgementCount |-> blobs[b].acknowledgementCount,
         placement |-> [s \in ShardsOf(b) |-> placement[b][s]],
         acknowledgements |->
           {ack \in acknowledgements[b] : \E s \in ShardsOf(b) : ack = <<placement[b][s], s>>} ]
-----------------------------------------------------------------------------
(* Every call goes to both; a call the contract refuses reverts.           *)
OnChain(may, call) == call \/ (~may /\ UNCHANGED vars)

CallProvider(sender) ==
  LET known == providerIdByOperator[sender] IN
  /\ MemoryRegisterProvider(IF known = NoProvider THEN nextProviderId ELSE known)
  /\ OnChain(MayRegisterProvider(sender), RegisterProvider(sender))

CallRegister(b, name, n, e) ==
  /\ e = NoExpiry \/ e > now
  /\ \/ \E owner \in Accounts \ coordinators :
          /\ MemoryRegister(owner, b, name, n, e, "User")
          /\ OnChain(MayCreateRecord(owner, b, name, n, e), CreateBlob(owner, b, name, n, e))
     \/ /\ MemoryRegister(Admin, b, name, n, e, "Operator")
        /\ OnChain(MayCreateRecord(Admin, b, name, n, e),
                   CreateOperatorBlob(Admin, b, name, n, e))

CallShard(b, s, p) ==
  /\ s \in ShardsOf(b)
  /\ \/ /\ MemoryAssignShard(b, s, p)
        /\ OnChain(MayAssignShard(Admin, b, s, p), AssignShard(Admin, b, s, p))
     \/ /\ MemoryReassignShard(b, s, p)
        /\ OnChain(MayReassignShard(Admin, b, s, p), ReassignShard(Admin, b, s, p))
     \/ /\ MemoryRecordRebuiltShard(b, s, p)
        /\ OnChain(MayRecordRebuiltShard(Admin, b, s, p), RecordRebuiltShard(Admin, b, s, p))
     \/ /\ MemoryAcknowledgeShard(b, s, p)
        /\ \E sender \in Operators :
             /\ providerIdByOperator[sender] = p
             /\ OnChain(MayAcknowledgeShard(sender, b, s), AcknowledgeShard(sender, b, s))

CallBlob(b) ==
  \/ /\ blobs[b].status = "Pending"
     /\ MemoryFinalizeBlob(b)
     /\ OnChain(MayFinalizeBlob(Admin, b), FinalizeBlob(Admin, b))
  \/ \E s \in ShardsOf(b) :
       /\ MemoryStartRecovery(b, s)
       /\ OnChain(MayStartRecovery(Admin, b, s), StartRecovery(Admin, b, s))

MemoryNext ==
  \/ \E sender \in Operators : CallProvider(sender)
  \/ \E b \in Blobs, name \in NameChoices, n \in ShardCounts, e \in Expiries :
       CallRegister(b, name, n, e)
  \/ \E b \in Blobs, s \in Shards, p \in ProviderIds : CallShard(b, s, p)
  \/ \E b \in Blobs : CallBlob(b)
=============================================================================
