----------------------------- MODULE ShardProofs -----------------------------
(***************************************************************************)
(* Proofs about a storage provider: one key signs all acknowledgements,    *)
(* and what was acknowledged is served.                                    *)
(***************************************************************************)
EXTENDS ShardStore, FiniteSetTheorems, TLAPS

Busy == Writing \cup {"ReadMeta", "Reply"}

WellTyped ==
  /\ process \in {"Down", "Booting", "Up"}
  /\ identity \in Int /\ signer \in Int /\ keysMade \in Nat
  /\ data \in [Keys -> Contents \cup {NoFile, Torn}]
  /\ tmp \in [Keys -> Contents \cup {NoFile, Torn}]
  /\ meta \in [Keys -> Contents \cup {NoFile, Torn}]
  /\ pc \in [Requests -> Busy \cup {"Idle", "GetMeta", "GetData"}]
  /\ key \in [Requests -> Keys]
  /\ content \in [Requests -> Contents \cup {NoFile}]
  /\ fd \in [Requests -> {"None", "Tmp", "Data", "Gone"}]
  /\ acked \in [Keys -> SUBSET Contents]
  /\ \A r \in Requests : pc[r] \in Busy => content[r] \in Contents
  /\ \A r \in Requests : pc[r] # "Idle" => process = "Up"

(* The values files, handles and requests take; what is being written is a *)
(* content, and only a process that is up has requests.                    *)
LEMMA WellTypedInvariant == Spec => []WellTyped
<1>1. Init => WellTyped
  <2>1. (CHOOSE k \in Keys : TRUE) \in Keys
    BY SomeKey
  <2> QED
    BY <2>1 DEF Init, WellTyped, NoIdentity, Busy, Writing
<1>2. WellTyped /\ [Next]_vars => WellTyped'
  <2> SUFFICES ASSUME WellTyped, [Next]_vars PROVE WellTyped'
    OBVIOUS
  <2> USE DEF Busy, Writing
  <2>1. CASE Boot
    BY <2>1 DEF WellTyped, Boot, LoadIdentity, GenerateIdentity, SaveIdentity, TornIdentity,
                requestVars, historyVars, faultVars
  <2>2. ASSUME NEW r \in Requests, NEW k \in Keys, Get(r, k)
        PROVE  WellTyped'
    BY <2>2 DEF WellTyped, Get, identityVars, historyVars, faultVars
  <2>3. ASSUME NEW r \in Requests, NEW k \in Keys, NEW c \in Contents, Put(r, k, c)
        PROVE  WellTyped'
    BY <2>3 DEF WellTyped, Put, identityVars, historyVars, faultVars
  <2>4. ASSUME NEW r \in Requests, ReadExisting(r)
        PROVE  WellTyped'
    BY <2>4 DEF WellTyped, ReadExisting, Acknowledges, Finish, identityVars, faultVars
  <2>5. ASSUME NEW r \in Requests, OpenTmp(r)
        PROVE  WellTyped'
    BY <2>5 DEF WellTyped, OpenTmp, identityVars, historyVars, faultVars
  <2>6. ASSUME NEW r \in Requests, Write(r)
        PROVE  WellTyped'
    <3>1. AfterWrite(r, {q \in Writers(key[r]) : fd[q] = fd[r]}) \subseteq Contents \cup {Torn}
      BY <2>6 DEF WellTyped, Write, AfterWrite
    <3> QED
      BY <2>6, <3>1 DEF WellTyped, Write, identityVars, historyVars, faultVars
  <2>7. ASSUME NEW r \in Requests, Install(r)
        PROVE  WellTyped'
    BY <2>7 DEF WellTyped, Install, FollowRename, Finish, identityVars, historyVars, faultVars
  <2>8. ASSUME NEW r \in Requests, OpenMeta(r)
        PROVE  WellTyped'
    BY <2>8 DEF WellTyped, OpenMeta, identityVars, historyVars, faultVars
  <2>9. ASSUME NEW r \in Requests, WriteMeta(r)
        PROVE  WellTyped'
    <3>1. AfterWrite(r, {q \in Writers(key[r]) : pc[q] = "WriteMeta"})
            \subseteq Contents \cup {Torn}
      BY <2>9 DEF WellTyped, WriteMeta, AfterWrite
    <3> QED
      BY <2>9, <3>1 DEF WellTyped, WriteMeta, identityVars, historyVars, faultVars
  <2>10. ASSUME NEW r \in Requests, Reply(r)
         PROVE  WellTyped'
    BY <2>10 DEF WellTyped, Reply, Acknowledges, Finish, identityVars, faultVars
  <2>11. ASSUME NEW r \in Requests, GetMeta(r)
         PROVE  WellTyped'
    BY <2>11 DEF WellTyped, GetMeta, Finish, identityVars, historyVars, faultVars
  <2>12. ASSUME NEW r \in Requests, GetData(r)
         PROVE  WellTyped'
    BY <2>12 DEF WellTyped, GetData, Finish, identityVars, historyVars, faultVars
  <2>13. CASE Kill
    BY <2>13 DEF WellTyped, Kill
  <2>14. ASSUME NEW k \in Keys, LoseShard(k)
         PROVE  WellTyped'
    BY <2>14 DEF WellTyped, LoseShard, identityVars, requestVars
  <2>15. CASE UNCHANGED vars
    BY <2>15 DEF WellTyped, vars, identityVars, requestVars, historyVars, faultVars
  <2> QED
    BY <2>1, <2>2, <2>3, <2>4, <2>5, <2>6, <2>7, <2>8, <2>9, <2>10, <2>11, <2>12, <2>13,
       <2>14, <2>15 DEF Next, Serve
<1> QED
  BY <1>1, <1>2, PTL DEF Spec
-----------------------------------------------------------------------------
(* The identity.  Once its file is written it stays, a process that serves *)
(* has it, and nothing is signed before.                                   *)
SignedByIdentity ==
  /\ process = "Up" => signer = identity /\ identity > 0
  /\ process = "Booting" => identity = TornIdentity /\ signer > 0
  /\ \A x \in ackKeys : x = identity /\ identity > 0

(* Whatever the starts of the process, it signs with the key in its file   *)
(* (identity.mjs, load).                                                   *)
LEMMA SignedByIdentityInvariant == Spec => []SignedByIdentity
<1>1. Init => SignedByIdentity
  BY DEF Init, SignedByIdentity
<1>2. WellTyped /\ SignedByIdentity /\ [Next]_vars => SignedByIdentity'
  <2> SUFFICES ASSUME WellTyped, SignedByIdentity, [Next]_vars PROVE SignedByIdentity'
    OBVIOUS
  <2>1. CASE Boot
    BY <2>1 DEF WellTyped, SignedByIdentity, Boot, LoadIdentity, GenerateIdentity,
                SaveIdentity, NoIdentity, TornIdentity, historyVars
  <2>2. ASSUME NEW r \in Requests, Acknowledges(r), pc[r] # "Idle", UNCHANGED identityVars
        PROVE  SignedByIdentity'
    BY <2>2 DEF WellTyped, SignedByIdentity, Acknowledges, identityVars
  <2>3. ASSUME UNCHANGED identityVars, UNCHANGED ackKeys
        PROVE  SignedByIdentity'
    BY <2>3 DEF SignedByIdentity, identityVars
  <2>4. CASE Kill
    BY <2>4 DEF SignedByIdentity, Kill
  <2>5. ASSUME NEW r \in Requests, ReadExisting(r)
        PROVE  SignedByIdentity'
    BY <2>5, <2>2, <2>3 DEF ReadExisting
  <2>6. ASSUME NEW r \in Requests, Reply(r)
        PROVE  SignedByIdentity'
    BY <2>6, <2>2 DEF Reply
  <2>7. ASSUME NEW r \in Requests,
               \/ \E k \in Keys : Get(r, k) \/ \E c \in Contents : Put(r, k, c)
               \/ OpenTmp(r) \/ Write(r) \/ Install(r) \/ OpenMeta(r) \/ WriteMeta(r)
               \/ GetMeta(r) \/ GetData(r)
        PROVE  SignedByIdentity'
    BY <2>7, <2>3 DEF Get, Put, OpenTmp, Write, Install, OpenMeta, WriteMeta, GetMeta, GetData,
                      historyVars
  <2>8. ASSUME NEW k \in Keys, LoseShard(k)
        PROVE  SignedByIdentity'
    BY <2>8, <2>3 DEF LoseShard
  <2>9. CASE UNCHANGED vars
    BY <2>9, <2>3 DEF vars, historyVars
  <2> QED
    BY <2>1, <2>4, <2>5, <2>6, <2>7, <2>8, <2>9 DEF Next, Serve
<1> QED
  BY <1>1, <1>2, WellTypedInvariant, PTL DEF Spec

(* All acknowledgements a provider ever gives are signed by one key, for   *)
(* any number of starts, kills and requests (identity.mjs, load).          *)
THEOREM SignsWithOneKey == Spec => []OneSigningKey
<1>1. SignedByIdentity => OneSigningKey
  <2> SUFFICES ASSUME SignedByIdentity PROVE Cardinality(ackKeys) <= 1
    BY DEF OneSigningKey
  <2>1. ackKeys \subseteq {identity}
    BY DEF SignedByIdentity
  <2>2. IsFiniteSet({identity}) /\ Cardinality({identity}) = 1
    BY FS_Singleton
  <2>3. IsFiniteSet(ackKeys) /\ Cardinality(ackKeys) <= Cardinality({identity})
    BY <2>1, <2>2, FS_Subset
  <2> QED
    BY <2>2, <2>3
<1> QED
  BY <1>1, SignedByIdentityInvariant, PTL
-----------------------------------------------------------------------------
(* What the files of a shard hold while it is being written.  A file with  *)
(* pieces of a body is one some writer is still going to complete.         *)
Replying(k) == {q \in Requests : pc[q] = "Reply" /\ key[q] = k}

DataIs(k, c) ==
  \/ data[k] = c
  \/ data[k] = Torn /\ \E q \in Writers(k) : pc[q] = "Write" /\ fd[q] = "Data"

MetaIs(k, c) ==
  \/ meta[k] = c
  \/ meta[k] = Torn /\ \E q \in Writers(k) : pc[q] = "WriteMeta"

(* A content that is acknowledged, is about to be, or would be if it were  *)
(* sent again.                                                             *)
Known(k, c) ==
  \/ c \in acked[k]
  \/ \E q \in Replying(k) : content[q] = c
  \/ meta[k] = c

SameContent(k) == \A q1, q2 \in Writers(k) : content[q1] = content[q2]

TmpHasWriter(k) ==
  tmp[k] # NoFile =>
    \/ tmp[k] = Torn /\ \E q \in Writers(k) : pc[q] = "Write" /\ fd[q] = "Tmp"
    \/ \E q \in Writers(k) : pc[q] = "Install" /\ tmp[k] = content[q]

DataBeforeMeta(k) ==
  \A q \in Writers(k) : pc[q] \in {"OpenMeta", "WriteMeta"} => DataIs(k, content[q])

KnownIsKept(k) ==
  \A c \in Contents : Known(k, c) =>
    /\ \A q \in Writers(k) : content[q] = c
    /\ MetaIs(k, c) /\ DataIs(k, c)

MetaIsAcked(k) ==
  Writers(k) # {} /\ meta[k] \in Contents => acked[k] # {} \/ Replying(k) # {}

Consistent(k) ==
  /\ SameContent(k) /\ TmpHasWriter(k) /\ DataBeforeMeta(k)
  /\ KnownIsKept(k) /\ MetaIsAcked(k)

ShardsConsistent == \A k \in Keys \ (mixed \cup cut) : Consistent(k)

Active(q, k) == pc[q] \in Writing \cup {"Reply"} /\ key[q] = k

(* A step that leaves the files of a shard and the requests that write it  *)
(* alone keeps what is said of it.                                         *)
LEMMA UntouchedShard ==
  ASSUME NEW k \in Keys, Consistent(k),
         data'[k] = data[k], tmp'[k] = tmp[k], meta'[k] = meta[k], acked'[k] = acked[k],
         \A q \in Requests : Active(q, k)' <=> Active(q, k),
         \A q \in Requests : Active(q, k) =>
           pc'[q] = pc[q] /\ content'[q] = content[q] /\ fd'[q] = fd[q]
  PROVE  Consistent(k)'
<1>1. Writers(k)' = Writers(k) /\ Replying(k)' = Replying(k)
  BY DEF Writers, Replying, Active, Writing
<1>2. \A q \in Writers(k) \cup Replying(k) :
        pc'[q] = pc[q] /\ content'[q] = content[q] /\ fd'[q] = fd[q]
  BY DEF Writers, Replying, Active
<1>3. \A c : /\ DataIs(k, c)' <=> DataIs(k, c)
             /\ MetaIs(k, c)' <=> MetaIs(k, c)
             /\ Known(k, c)' <=> Known(k, c)
  BY <1>1, <1>2 DEF DataIs, MetaIs, Known
<1>4. SameContent(k)'
  BY <1>1, <1>2 DEF Consistent, SameContent
<1>5. TmpHasWriter(k)'
  BY <1>1, <1>2 DEF Consistent, TmpHasWriter
<1>6. DataBeforeMeta(k)'
  BY <1>1, <1>2, <1>3 DEF Consistent, DataBeforeMeta
<1>7. KnownIsKept(k)'
  BY <1>1, <1>2, <1>3 DEF Consistent, KnownIsKept
<1>8. MetaIsAcked(k)'
  BY <1>1, <1>2 DEF Consistent, MetaIsAcked
<1> QED
  BY <1>4, <1>5, <1>6, <1>7, <1>8 DEF Consistent

(* One lemma per step of a PUT of the shard.  What it needs beyond the     *)
(* types is only what is said of that shard.                               *)
LEMMA ReadExistingKeepsShard ==
  ASSUME WellTyped, NEW r \in Requests, NEW k \in Keys \ mixed', key[r] = k, Consistent(k),
         ReadExisting(r)
  PROVE  Consistent(k)'
<1> USE DEF Writing
<1>0. Writers(k) \subseteq Requests /\ Replying(k) \subseteq Requests
  BY DEF Writers, Replying
<1>1. r \notin Writers(k) /\ r \notin Replying(k) /\ content[r] \in Contents
  BY DEF ReadExisting, Writers, Replying, WellTyped, Busy
<1>2. UNCHANGED <<data, tmp, meta, key, content, fd>>
  BY DEF ReadExisting
<1>3. CASE pc'[r] = "Idle" /\ acked' = acked
  <2>1. \A q \in Requests : Active(q, k)' <=> Active(q, k)
    BY <1>3, <1>2 DEF ReadExisting, Finish, Acknowledges, Active, WellTyped
  <2>2. \A q \in Requests : Active(q, k) => pc'[q] = pc[q]
    BY <1>3 DEF ReadExisting, Finish, Acknowledges, Active, WellTyped
  <2> QED
    BY <1>2, <1>3, <2>1, <2>2, UntouchedShard
<1>4. CASE AlreadyStored(r) /\ Acknowledges(r)
  <2>1. Writers(k)' = Writers(k) /\ Replying(k)' = Replying(k)
    BY <1>1, <1>2, <1>4 DEF Acknowledges, Finish, Writers, Replying, WellTyped
  <2>2. \A q \in Writers(k) : pc'[q] = pc[q]
    BY <1>1, <1>4 DEF Acknowledges, Finish, Writers, WellTyped
  <2>3. Known(k, content[r])
    BY <1>4 DEF AlreadyStored, Known
  <2>4. acked'[k] = acked[k] \cup {content[r]}
    BY <1>4 DEF Acknowledges, WellTyped
  <2>5. \A c : /\ Known(k, c)' => Known(k, c)
               /\ DataIs(k, c) => DataIs(k, c)'
               /\ MetaIs(k, c) => MetaIs(k, c)'
    BY <1>2, <2>1, <2>2, <2>3, <2>4 DEF Known, DataIs, MetaIs
  <2> QED
    BY <1>2, <2>1, <2>2, <2>4, <2>5
       DEF Consistent, SameContent, TmpHasWriter, DataBeforeMeta, KnownIsKept, MetaIsAcked
<1>5. CASE meta[k] = NoFile /\ pc' = [pc EXCEPT ![r] = "OpenTmp"] /\ acked' = acked
  <2>1. Writers(k)' = Writers(k) \cup {r} /\ Replying(k)' = Replying(k)
    BY <1>1, <1>2, <1>5 DEF Writers, Replying, WellTyped
  <2>2. /\ pc'[r] = "OpenTmp"
        /\ \A q \in Requests \ {r} : pc'[q] = pc[q]
    BY <1>5 DEF WellTyped
  <2>3. \A q \in Writers(k) : content[q] = content[r]
    BY <1>5, ContentsAreData DEF ReadExisting, AlreadyStored, Finish, Acknowledges, WellTyped
  <2>4. \A c \in Contents : ~Known(k, c)
    BY <1>5, ContentsAreData DEF Consistent, KnownIsKept, MetaIs, NoFile, Torn
  <2>5. \A c : /\ Known(k, c)' <=> Known(k, c)
               /\ DataIs(k, c) => DataIs(k, c)'
    BY <1>1, <1>2, <1>5, <2>1, <2>2 DEF Known, DataIs
  <2>6. SameContent(k)' /\ TmpHasWriter(k)' /\ DataBeforeMeta(k)'
    BY <1>0, <1>1, <1>2, <2>1, <2>2, <2>3, <2>5
       DEF Consistent, SameContent, TmpHasWriter, DataBeforeMeta
  <2>7. KnownIsKept(k)' /\ MetaIsAcked(k)'
    BY <1>2, <1>5, <2>4, <2>5, ContentsAreData DEF KnownIsKept, MetaIsAcked
  <2> QED
    BY <2>6, <2>7 DEF Consistent
<1> QED
  BY <1>1, <1>3, <1>4, <1>5 DEF ReadExisting, Finish, WellTyped

LEMMA OpenTmpKeepsShard ==
  ASSUME WellTyped, NEW r \in Requests, NEW k \in Keys, key[r] = k, Consistent(k), OpenTmp(r)
  PROVE  Consistent(k)'
<1> USE DEF Writing
<1>0. Writers(k) \subseteq Requests /\ Replying(k) \subseteq Requests
  BY DEF Writers, Replying
<1>1. UNCHANGED <<data, meta, key, content, acked>>
  BY DEF OpenTmp, historyVars
<1>2. r \in Writers(k) /\ Writers(k)' = Writers(k) /\ Replying(k)' = Replying(k)
  BY <1>1 DEF OpenTmp, Writers, Replying, WellTyped
<1>3. /\ pc'[r] = "Write" /\ fd'[r] = "Tmp" /\ tmp'[k] = Torn
      /\ \A q \in Requests \ {r} : pc'[q] = pc[q] /\ fd'[q] = fd[q]
  BY DEF OpenTmp, WellTyped
<1>4. pc[r] = "OpenTmp"
  BY DEF OpenTmp
<1>5. \A c : /\ Known(k, c)' <=> Known(k, c)
             /\ DataIs(k, c) => DataIs(k, c)'
             /\ MetaIs(k, c) => MetaIs(k, c)'
  BY <1>0, <1>1, <1>2, <1>3, <1>4 DEF Known, DataIs, MetaIs
<1>6. TmpHasWriter(k)'
  BY <1>2, <1>3 DEF TmpHasWriter
<1> QED
  BY <1>0, <1>1, <1>2, <1>3, <1>5, <1>6
     DEF Consistent, SameContent, DataBeforeMeta, KnownIsKept, MetaIsAcked

LEMMA WriteKeepsShard ==
  ASSUME WellTyped, NEW r \in Requests, NEW k \in Keys, key[r] = k, Consistent(k), Write(r)
  PROVE  Consistent(k)'
<1> USE DEF Writing
<1>0. Writers(k) \subseteq Requests /\ Replying(k) \subseteq Requests
  BY DEF Writers, Replying
<1>1. UNCHANGED <<meta, key, content, fd, acked>> /\ pc[r] = "Write"
  BY DEF Write, historyVars
<1>2. r \in Writers(k) /\ Writers(k)' = Writers(k) /\ Replying(k)' = Replying(k)
  BY <1>1 DEF Write, Writers, Replying, WellTyped
<1>3. pc'[r] = "Install" /\ \A q \in Requests \ {r} : pc'[q] = pc[q]
  BY DEF Write, WellTyped
<1>4. AfterWrite(r, {q \in Writers(k) : fd[q] = fd[r]}) = {content[r]}
  BY <1>2 DEF AfterWrite, Consistent, SameContent
<1>5. /\ tmp'[k] = IF fd[r] = "Tmp" THEN content[r] ELSE tmp[k]
      /\ data'[k] = IF fd[r] = "Data" THEN content[r] ELSE data[k]
  BY <1>4 DEF Write, WellTyped
<1>6. \A q \in Writers(k) : content[q] = content[r]
  BY <1>2 DEF Consistent, SameContent
<1>7. DataIs(k, content[r]) => DataIs(k, content[r])'
  BY <1>0, <1>1, <1>2, <1>3, <1>5 DEF DataIs
<1>8. \A c : /\ Known(k, c)' <=> Known(k, c)
             /\ MetaIs(k, c) => MetaIs(k, c)'
  BY <1>0, <1>1, <1>2, <1>3 DEF Known, MetaIs
<1>9. SameContent(k)' /\ MetaIsAcked(k)'
  BY <1>1, <1>2 DEF Consistent, SameContent, MetaIsAcked
<1>10. TmpHasWriter(k)'
  BY <1>0, <1>1, <1>2, <1>3, <1>5 DEF Consistent, TmpHasWriter
<1>11. DataBeforeMeta(k)'
  BY <1>0, <1>1, <1>2, <1>3, <1>6, <1>7 DEF Consistent, DataBeforeMeta
<1>12. KnownIsKept(k)'
  BY <1>1, <1>2, <1>6, <1>7, <1>8 DEF Consistent, KnownIsKept
<1> QED
  BY <1>9, <1>10, <1>11, <1>12 DEF Consistent

LEMMA InstallKeepsShard ==
  ASSUME WellTyped, NEW r \in Requests, NEW k \in Keys, key[r] = k, Consistent(k), Install(r)
  PROVE  Consistent(k)'
<1> USE DEF Writing
<1>0. Writers(k) \subseteq Requests /\ Replying(k) \subseteq Requests
  BY DEF Writers, Replying
<1>1. UNCHANGED <<meta, key, content, acked>> /\ pc[r] = "Install"
  BY DEF Install, historyVars
<1>2. r \in Writers(k) /\ Replying(k)' = Replying(k)
  BY <1>1 DEF Install, Finish, Writers, Replying, WellTyped
<1>3. \A q \in Requests \ {r} : pc'[q] = pc[q]
  BY DEF Install, Finish, WellTyped
<1>4. \A q \in Writers(k) : content[q] = content[r]
  BY <1>2 DEF Consistent, SameContent
<1>5. Writers(k)' \subseteq Writers(k) /\ Writers(k) \ {r} \subseteq Writers(k)'
  BY <1>1, <1>2, <1>3 DEF Writers
<1>6. \A c : /\ Known(k, c)' <=> Known(k, c)
             /\ MetaIs(k, c) => MetaIs(k, c)'
  BY <1>0, <1>1, <1>2, <1>3, <1>5 DEF Known, MetaIs
<1>7. SameContent(k)' /\ MetaIsAcked(k)'
  BY <1>1, <1>2, <1>5 DEF Consistent, SameContent, MetaIsAcked
<1>8. CASE tmp[k] # NoFile /\ pc'[r] = "OpenMeta"
  <2>1. /\ data'[k] = tmp[k] /\ tmp'[k] = NoFile
        /\ \A q \in Writers(k) : fd[q] = "Tmp" => fd'[q] = "Data"
    BY <1>1, <1>8 DEF Install, Finish, FollowRename, WellTyped, Writers
  <2>2. DataIs(k, content[r])'
    BY <1>0, <1>1, <1>3, <1>4, <1>5, <1>8, <2>1 DEF Consistent, TmpHasWriter, DataIs
  <2>3. TmpHasWriter(k)' /\ DataBeforeMeta(k)'
    BY <1>1, <1>4, <1>5, <2>1, <2>2 DEF TmpHasWriter, DataBeforeMeta
  <2>4. KnownIsKept(k)'
    BY <1>1, <1>2, <1>4, <1>5, <1>6, <2>2 DEF Consistent, KnownIsKept
  <2> QED
    BY <1>7, <2>3, <2>4 DEF Consistent
<1>9. CASE tmp[k] = NoFile /\ pc'[r] = "Idle" /\ UNCHANGED <<data, tmp, fd>>
  <2>1. \A c : DataIs(k, c) => DataIs(k, c)'
    BY <1>0, <1>1, <1>3, <1>5, <1>9 DEF DataIs
  <2>2. r \notin Writers(k)'
    BY <1>9 DEF Writers
  <2>3. TmpHasWriter(k)' /\ DataBeforeMeta(k)'
    BY <1>0, <1>1, <1>3, <1>5, <1>9, <2>1, <2>2 DEF Consistent, TmpHasWriter, DataBeforeMeta
  <2>4. KnownIsKept(k)'
    BY <1>1, <1>5, <1>6, <2>1 DEF Consistent, KnownIsKept
  <2> QED
    BY <1>7, <2>3, <2>4 DEF Consistent
<1> QED
  BY <1>8, <1>9 DEF Install, Finish, WellTyped

LEMMA OpenMetaKeepsShard ==
  ASSUME WellTyped, NEW r \in Requests, NEW k \in Keys, key[r] = k, Consistent(k), OpenMeta(r)
  PROVE  Consistent(k)'
<1> USE DEF Writing
<1>0. Writers(k) \subseteq Requests /\ Replying(k) \subseteq Requests
  BY DEF Writers, Replying
<1>1. UNCHANGED <<data, tmp, key, content, fd, acked>> /\ pc[r] = "OpenMeta"
  BY DEF OpenMeta, historyVars
<1>2. r \in Writers(k) /\ Writers(k)' = Writers(k) /\ Replying(k)' = Replying(k)
  BY <1>1 DEF OpenMeta, Writers, Replying, WellTyped
<1>3. /\ pc'[r] = "WriteMeta" /\ meta'[k] = Torn
      /\ \A q \in Requests \ {r} : pc'[q] = pc[q]
  BY DEF OpenMeta, WellTyped
<1>4. \A c : DataIs(k, c)' <=> DataIs(k, c)
  BY <1>0, <1>1, <1>2, <1>3 DEF DataIs
<1>5. \A c : MetaIs(k, c)'
  BY <1>2, <1>3 DEF MetaIs
<1>6. \A c \in Contents : Known(k, c)' => Known(k, c)
  BY <1>1, <1>2, <1>3, ContentsAreData DEF Known
<1>7. SameContent(k)' /\ TmpHasWriter(k)'
  BY <1>0, <1>1, <1>2, <1>3 DEF Consistent, SameContent, TmpHasWriter
<1>8. DataBeforeMeta(k)'
  BY <1>0, <1>1, <1>2, <1>3, <1>4 DEF Consistent, DataBeforeMeta
<1>9. KnownIsKept(k)' /\ MetaIsAcked(k)'
  BY <1>1, <1>2, <1>3, <1>4, <1>5, <1>6, ContentsAreData
     DEF Consistent, KnownIsKept, MetaIsAcked
<1> QED
  BY <1>7, <1>8, <1>9 DEF Consistent

LEMMA WriteMetaKeepsShard ==
  ASSUME WellTyped, NEW r \in Requests, NEW k \in Keys, key[r] = k, Consistent(k), WriteMeta(r)
  PROVE  Consistent(k)'
<1> USE DEF Writing
<1>0. Writers(k) \subseteq Requests /\ Replying(k) \subseteq Requests
  BY DEF Writers, Replying
<1>1. UNCHANGED <<data, tmp, key, content, fd, acked>> /\ pc[r] = "WriteMeta"
  BY DEF WriteMeta, historyVars
<1>2. r \in Writers(k) /\ content[r] \in Contents
  BY <1>1 DEF Writers, WellTyped, Busy
<1>3. pc'[r] = "Reply" /\ \A q \in Requests \ {r} : pc'[q] = pc[q]
  BY DEF WriteMeta, WellTyped
<1>4. Writers(k)' = Writers(k) \ {r} /\ Replying(k)' = Replying(k) \cup {r}
  BY <1>1, <1>3 DEF Writers, Replying
<1>5. \A q \in Writers(k) : content[q] = content[r]
  BY <1>2 DEF Consistent, SameContent
<1>6. AfterWrite(r, {q \in Writers(k) : pc[q] = "WriteMeta"}) = {content[r]}
  BY <1>5 DEF AfterWrite
<1>7. meta'[k] = content[r]
  BY <1>6 DEF WriteMeta, WellTyped
<1>8. DataIs(k, content[r])
  BY <1>1, <1>2 DEF Consistent, DataBeforeMeta
<1>9. \A c : DataIs(k, c) => DataIs(k, c)'
  BY <1>0, <1>1, <1>3, <1>4 DEF DataIs
<1>10. \A c \in Contents : Known(k, c)' => c = content[r]
  BY <1>1, <1>2, <1>3, <1>4, <1>7 DEF Consistent, KnownIsKept, Known
<1>11. SameContent(k)' /\ MetaIsAcked(k)'
  BY <1>1, <1>4, <1>5 DEF SameContent, MetaIsAcked
<1>12. TmpHasWriter(k)' /\ DataBeforeMeta(k)'
  BY <1>0, <1>1, <1>3, <1>4, <1>9 DEF Consistent, TmpHasWriter, DataBeforeMeta
<1>13. KnownIsKept(k)'
  BY <1>1, <1>4, <1>5, <1>7, <1>8, <1>9, <1>10 DEF KnownIsKept, MetaIs
<1> QED
  BY <1>11, <1>12, <1>13 DEF Consistent

LEMMA ReplyKeepsShard ==
  ASSUME WellTyped, NEW r \in Requests, NEW k \in Keys, key[r] = k, Consistent(k), Reply(r)
  PROVE  Consistent(k)'
<1> USE DEF Writing
<1>0. Writers(k) \subseteq Requests /\ Replying(k) \subseteq Requests
  BY DEF Writers, Replying
<1>1. UNCHANGED <<data, tmp, meta, key, content, fd>> /\ pc[r] = "Reply"
  BY DEF Reply
<1>2. /\ pc'[r] = "Idle" /\ acked'[k] = acked[k] \cup {content[r]}
      /\ \A q \in Requests \ {r} : pc'[q] = pc[q]
  BY DEF Reply, Acknowledges, Finish, WellTyped
<1>3. /\ r \in Replying(k) /\ r \notin Writers(k)
      /\ Writers(k)' = Writers(k) /\ Replying(k)' = Replying(k) \ {r}
  BY <1>1, <1>2 DEF Writers, Replying
<1>4. \A c : /\ Known(k, c)' => Known(k, c)
             /\ DataIs(k, c) => DataIs(k, c)'
             /\ MetaIs(k, c) => MetaIs(k, c)'
  BY <1>0, <1>1, <1>2, <1>3 DEF Known, DataIs, MetaIs
<1>5. \A q \in Writers(k) : pc'[q] = pc[q]
  BY <1>2, <1>3 DEF Writers
<1>6. SameContent(k)' /\ TmpHasWriter(k)' /\ DataBeforeMeta(k)'
  BY <1>1, <1>3, <1>4, <1>5 DEF Consistent, SameContent, TmpHasWriter, DataBeforeMeta
<1>7. KnownIsKept(k)' /\ MetaIsAcked(k)'
  BY <1>1, <1>2, <1>3, <1>4 DEF Consistent, KnownIsKept, MetaIsAcked
<1> QED
  BY <1>6, <1>7 DEF Consistent

(* A kill takes the writers away.  A shard that was known had none, or it  *)
(* is one of those a repeated write of which was cut.                      *)
LEMMA KillKeepsShard ==
  ASSUME WellTyped, NEW k \in Keys \ cut', Consistent(k), Kill
  PROVE  Consistent(k)'
<1> USE DEF Writing
<1>1. UNCHANGED <<data, meta, acked>> /\ tmp'[k] = NoFile
  BY DEF Kill
<1>2. Writers(k)' = {} /\ Replying(k)' = {}
  BY DEF Kill, Writers, Replying
<1>3. Writers(k) # {} => acked[k] = {} /\ Replying(k) = {}
  BY DEF Kill, Writers, Replying
<1>4. ASSUME NEW c \in Contents, Known(k, c)'
      PROVE  meta[k] = c /\ data[k] = c
  <2>1. c \in acked[k] \/ meta[k] = c
    BY <1>1, <1>2, <1>4 DEF Known
  <2>2. Writers(k) = {}
    BY <1>3, <2>1 DEF Consistent, MetaIsAcked
  <2>3. MetaIs(k, c) /\ DataIs(k, c)
    BY <2>1 DEF Consistent, KnownIsKept, Known
  <2> QED
    BY <2>2, <2>3 DEF MetaIs, DataIs
<1>5. KnownIsKept(k)'
  BY <1>1, <1>2, <1>4 DEF KnownIsKept, MetaIs, DataIs
<1> QED
  BY <1>1, <1>2, <1>5
     DEF Consistent, SameContent, TmpHasWriter, DataBeforeMeta, MetaIsAcked

LEMMA LoseShardKeepsShard ==
  ASSUME WellTyped, NEW k \in Keys, NEW l \in Keys, Consistent(k), LoseShard(l)
  PROVE  Consistent(k)'
<1> USE DEF Writing
<1>1. UNCHANGED <<tmp, pc, key, content, fd>>
  BY DEF LoseShard, requestVars
<1>2. CASE l # k
  <2>1. data'[k] = data[k] /\ meta'[k] = meta[k] /\ acked'[k] = acked[k]
    BY <1>2 DEF LoseShard, WellTyped
  <2> QED
    BY <1>1, <2>1, UntouchedShard DEF Active
<1>3. CASE l = k
  <2>1. Writers(k) = {} /\ Writers(k)' = {} /\ Replying(k)' = {}
    BY <1>1, <1>3 DEF LoseShard, InFlight, Writers, Replying
  <2>2. meta'[k] = NoFile /\ acked'[k] = {}
    BY <1>3 DEF LoseShard, WellTyped
  <2>3. \A c \in Contents : ~Known(k, c)'
    BY <2>1, <2>2, ContentsAreData DEF Known
  <2> QED
    BY <1>1, <2>1, <2>3
       DEF Consistent, SameContent, TmpHasWriter, DataBeforeMeta, KnownIsKept, MetaIsAcked
<1> QED
  BY <1>2, <1>3

(* The inductive invariant of the writes of putShard, for every shard two  *)
(* contents of which were never written at once and no repeated write of   *)
(* which was killed.                                                       *)
LEMMA ShardsConsistentInvariant == Spec => []ShardsConsistent
<1>1. Init => ShardsConsistent
  <2> SUFFICES ASSUME Init, NEW k \in Keys PROVE Consistent(k)
    BY DEF ShardsConsistent
  <2>1. Writers(k) = {} /\ Replying(k) = {}
    BY DEF Init, Writers, Replying, Writing
  <2>2. \A c \in Contents : ~Known(k, c)
    BY <2>1, ContentsAreData DEF Init, Known
  <2> QED
    BY <2>1, <2>2 DEF Init, Consistent, SameContent, TmpHasWriter, DataBeforeMeta,
                      KnownIsKept, MetaIsAcked
<1>2. WellTyped /\ WellTyped' /\ ShardsConsistent /\ [Next]_vars => ShardsConsistent'
  <2> SUFFICES ASSUME WellTyped, WellTyped', ShardsConsistent, [Next]_vars,
                      NEW k \in Keys \ (mixed' \cup cut')
               PROVE  Consistent(k)'
    BY DEF ShardsConsistent
  <2>1. mixed \subseteq mixed' /\ cut \subseteq cut'
    BY DEF Next, Serve, vars, Boot, Get, Put, ReadExisting, OpenTmp, Write, Install, OpenMeta,
           WriteMeta, Reply, GetMeta, GetData, Kill, LoseShard, historyVars
  <2>2. Consistent(k)
    BY <2>1 DEF ShardsConsistent
  <2>3. ASSUME NEW r \in Requests, ~Active(r, k), ~Active(r, k)',
               data'[k] = data[k], tmp'[k] = tmp[k], meta'[k] = meta[k],
               acked'[k] = acked[k],
               \A q \in Requests \ {r} :
                 pc'[q] = pc[q] /\ key'[q] = key[q] /\ content'[q] = content[q]
                   /\ (key[q] = k => fd'[q] = fd[q])
        PROVE  Consistent(k)'
    BY <2>2, <2>3, UntouchedShard DEF Active
  <2>4. CASE Boot \/ UNCHANGED vars
    BY <2>2, <2>4, UntouchedShard DEF Active, Boot, vars, requestVars, historyVars
  <2>5. ASSUME NEW r \in Requests, NEW l \in Keys,
               Get(r, l) \/ \E c \in Contents : Put(r, l, c)
        PROVE  Consistent(k)'
    <3>1. ~Active(r, k) /\ ~Active(r, k)'
      BY <2>5 DEF Active, Get, Put, Writing, WellTyped
    <3> QED
      BY <2>3, <2>5, <3>1 DEF Get, Put, WellTyped, historyVars
  <2>6. ASSUME NEW r \in Requests, GetMeta(r) \/ GetData(r)
        PROVE  Consistent(k)'
    <3>1. ~Active(r, k) /\ ~Active(r, k)'
      BY <2>6 DEF Active, GetMeta, GetData, Finish, Writing, WellTyped
    <3> QED
      BY <2>3, <2>6, <3>1 DEF GetMeta, GetData, Finish, WellTyped, historyVars
  <2>7. ASSUME NEW r \in Requests, key[r] # k,
               \/ ReadExisting(r) \/ OpenTmp(r) \/ Write(r) \/ Install(r) \/ OpenMeta(r)
               \/ WriteMeta(r) \/ Reply(r)
        PROVE  Consistent(k)'
    <3>1. key' = key /\ content' = content
      BY <2>7 DEF ReadExisting, OpenTmp, Write, Install, OpenMeta, WriteMeta, Reply
    <3>2. ~Active(r, k) /\ ~Active(r, k)'
      BY <2>7, <3>1 DEF Active
    <3>3. \A q \in Requests \ {r} : pc'[q] = pc[q] /\ (key[q] = k => fd'[q] = fd[q])
      BY <2>7 DEF WellTyped, ReadExisting, OpenTmp, Write, Install, OpenMeta, WriteMeta,
                  Reply, Finish, Acknowledges, FollowRename
    <3>4. data'[k] = data[k] /\ tmp'[k] = tmp[k] /\ meta'[k] = meta[k]
      <4>1. data \in [Keys -> Contents \cup {NoFile, Torn}]
            /\ tmp \in [Keys -> Contents \cup {NoFile, Torn}]
            /\ meta \in [Keys -> Contents \cup {NoFile, Torn}]
        BY DEF WellTyped
      <4>2. CASE ReadExisting(r) \/ OpenTmp(r) \/ Reply(r)
        BY <2>7, <4>1, <4>2 DEF ReadExisting, OpenTmp, Reply
      <4>3. CASE Write(r)
        BY <2>7, <4>1, <4>3 DEF Write
      <4>4. CASE Install(r)
        BY <2>7, <4>1, <4>4 DEF Install
      <4>5. CASE OpenMeta(r) \/ WriteMeta(r)
        BY <2>7, <4>1, <4>5 DEF OpenMeta, WriteMeta
      <4> QED
        BY <2>7, <4>2, <4>3, <4>4, <4>5
    <3>5. acked'[k] = acked[k]
      BY <2>7 DEF WellTyped, ReadExisting, OpenTmp, Write, Install, OpenMeta, WriteMeta,
                  Reply, Acknowledges, historyVars
    <3> QED
      BY <2>3, <3>1, <3>2, <3>3, <3>4, <3>5
  <2>8. ASSUME NEW r \in Requests, key[r] = k, ReadExisting(r)
        PROVE  Consistent(k)'
    BY <2>2, <2>8, ReadExistingKeepsShard
  <2>9. ASSUME NEW r \in Requests, key[r] = k, OpenTmp(r)
        PROVE  Consistent(k)'
    BY <2>2, <2>9, OpenTmpKeepsShard
  <2>10. ASSUME NEW r \in Requests, key[r] = k, Write(r)
        PROVE  Consistent(k)'
    BY <2>2, <2>10, WriteKeepsShard
  <2>11. ASSUME NEW r \in Requests, key[r] = k, Install(r)
        PROVE  Consistent(k)'
    BY <2>2, <2>11, InstallKeepsShard
  <2>12. ASSUME NEW r \in Requests, key[r] = k, OpenMeta(r)
        PROVE  Consistent(k)'
    BY <2>2, <2>12, OpenMetaKeepsShard
  <2>13. ASSUME NEW r \in Requests, key[r] = k, WriteMeta(r)
        PROVE  Consistent(k)'
    BY <2>2, <2>13, WriteMetaKeepsShard
  <2>14. ASSUME NEW r \in Requests, key[r] = k, Reply(r)
        PROVE  Consistent(k)'
    BY <2>2, <2>14, ReplyKeepsShard
  <2>15. CASE Kill
    BY <2>2, <2>15, KillKeepsShard
  <2>16. ASSUME NEW l \in Keys, LoseShard(l)
         PROVE  Consistent(k)'
    BY <2>2, <2>16, LoseShardKeepsShard
  <2> QED
    BY <2>4, <2>5, <2>6, <2>7, <2>8, <2>9, <2>10, <2>11, <2>12, <2>13, <2>14, <2>15, <2>16
       DEF Next, Serve
<1> QED
  BY <1>1, <1>2, WellTypedInvariant, PTL DEF Spec

(* For any number of shards, contents, requests and kills: what a provider *)
(* acknowledged it serves, unless two contents of the shard were written   *)
(* at once or a second write of it was killed (storage.mjs, putShard).     *)
THEOREM ServesWhatItAcknowledged == Spec => []AckedIsServed
<1>1. WellTyped /\ ShardsConsistent => AckedIsServed
  <2> SUFFICES ASSUME WellTyped, ShardsConsistent, NEW k \in Keys \ (mixed \cup cut),
                      Writers(k) = {}, NEW c \in acked[k]
               PROVE  meta[k] = c /\ data[k] = c
    BY DEF AckedIsServed
  <2>1. c \in Contents /\ Known(k, c)
    BY DEF WellTyped, Known
  <2>2. MetaIs(k, c) /\ DataIs(k, c)
    BY <2>1 DEF ShardsConsistent, Consistent, KnownIsKept
  <2> QED
    BY <2>2 DEF MetaIs, DataIs
<1> QED
  BY <1>1, WellTypedInvariant, ShardsConsistentInvariant, PTL
=============================================================================
