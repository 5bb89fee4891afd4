----------------------------- MODULE ShardStore -----------------------------
(***************************************************************************)
(* One storage provider (provider/src): the files it keeps per shard, its  *)
(* signing identity, and the PUT and GET requests it serves.  A request    *)
(* runs until its next await; between two of its steps other requests run  *)
(* and the process may be killed.  What is on disk survives the process,   *)
(* also half written.                                                      *)
(*                                                                         *)
(* The commitment and the size of a body are functions of its bytes, so a  *)
(* content stands for its commitment and its metadata as well.             *)
(***************************************************************************)
EXTENDS Integers, FiniteSets

CONSTANTS
  Keys,        \* pairs of blob id and shard index
  Contents,    \* shard bytes clients send
  Requests,    \* requests the process serves at a time
  MaxKills,    \* bound on kills of the process
  MaxLosses    \* bound on shard files removed behind the process's back

ASSUME BoundsAreNat == MaxKills \in Nat /\ MaxLosses \in Nat
ASSUME SomeKey == Keys # {}

(* A file that is not there, and one whose content is cut off: empty,      *)
(* partly written, or a mixture of two writes.                             *)
NoFile == "NoFile"
Torn == "Torn"
Answers == {"None", "Stored", "Conflict", "NotFound", "Error", "Bytes",
            "Corrupt"}

ASSUME ContentsAreData == Contents \cap {NoFile, Torn} = {}

(* Likewise for the identity, whose keys are numbered.                     *)
NoIdentity == 0
TornIdentity == -1

VARIABLES
  process,   \* "Down", "Booting" or "Up"
  identity,  \* identity.json: the number of its key, none, or torn
  signer,    \* the key in memory, 0 when there is none
  keysMade,  \* keys generated so far
  data,      \* per key, <key>.shard
  tmp,       \* per key, <key>.shard.<pid>.tmp
  meta,      \* per key, <key>.json
  pc,        \* where a request awaits
  key,       \* the shard it is about
  content,   \* the body of a PUT; what a GET read from the metadata
  fd,        \* the file a PUT's handle points to, whatever it is called by now
  answer,    \* the answer of the last request
  acked,     \* history: per key, the contents acknowledged
  ackKeys,   \* history: keys acknowledgements were signed with
  mixed,     \* history: keys two contents of which were being written together
  cut,       \* history: keys a repeated or doubled write of which was killed
  kills,     \* kills so far
  losses     \* lost files so far

identityVars == <<process, identity, signer, keysMade>>
requestVars == <<pc, key, content, fd, answer>>
historyVars == <<acked, ackKeys, mixed, cut>>
faultVars == <<kills, losses>>
vars == <<identityVars, data, tmp, meta, requestVars, historyVars, faultVars>>

Init ==
  /\ process = "Down" /\ identity = NoIdentity /\ signer = 0 /\ keysMade = 0
  /\ data = [k \in Keys |-> NoFile]
  /\ tmp = [k \in Keys |-> NoFile]
  /\ meta = [k \in Keys |-> NoFile]
  /\ pc = [r \in Requests |-> "Idle"]
  /\ key = [r \in Requests |-> CHOOSE k \in Keys : TRUE]
  /\ content = [r \in Requests |-> NoFile]
  /\ fd = [r \in Requests |-> "None"]
  /\ answer = [r \in Requests |-> "None"]
  /\ acked = [k \in Keys |-> {}]
  /\ ackKeys = {} /\ mixed = {} /\ cut = {}
  /\ kills = 0 /\ losses = 0
-----------------------------------------------------------------------------
(* The identity.  A file that cannot be read or parsed stops the start.    *)

LoadIdentity ==
  /\ process = "Down" /\ identity > 0
  /\ process' = "Up" /\ signer' = identity
  /\ UNCHANGED <<identity, keysMade>>

GenerateIdentity ==
  /\ process = "Down" /\ identity = NoIdentity
  /\ process' = "Booting" /\ identity' = TornIdentity
  /\ signer' = keysMade + 1 /\ keysMade' = keysMade + 1

(* Variant: the key is used before it is in the file.                      *)
SaveIdentityLater ==
  /\ process = "Booting"
  /\ process' = "Up" /\ identity' = NoIdentity
  /\ UNCHANGED <<signer, keysMade>>

SaveIdentity ==
  /\ process = "Booting"
  /\ process' = "Up" /\ identity' = signer
  /\ UNCHANGED <<signer, keysMade>>

Boot ==
  /\ LoadIdentity \/ GenerateIdentity \/ SaveIdentity
  /\ UNCHANGED <<data, tmp, meta, requestVars, historyVars, faultVars>>
-----------------------------------------------------------------------------
(* PUT.                                                                    *)

Writing == {"OpenTmp", "Write", "Install", "OpenMeta", "WriteMeta"}
Writers(k) == {r \in Requests : pc[r] \in Writing /\ key[r] = k}

Finish(r, what) ==
  /\ pc' = [pc EXCEPT ![r] = "Idle"]
  /\ answer' = [answer EXCEPT ![r] = what]

(* The shard is acknowledged, under the commitment in the answer, by a     *)
(* signature.                                                              *)
Acknowledges(r) ==
  /\ Finish(r, "Stored")
  /\ acked' = [acked EXCEPT ![key[r]] = @ \cup {content[r]}]
  /\ ackKeys' = ackKeys \cup {signer}

Put(r, k, c) ==
  /\ process = "Up" /\ pc[r] = "Idle"
  /\ pc' = [pc EXCEPT ![r] = "ReadMeta"]
  /\ key' = [key EXCEPT ![r] = k]
  /\ content' = [content EXCEPT ![r] = c]
  /\ fd' = [fd EXCEPT ![r] = "None"]
  /\ answer' = [answer EXCEPT ![r] = "None"]
  /\ UNCHANGED <<identityVars, data, tmp, meta, historyVars, faultVars>>

(* Metadata that is there decides: the same content was stored before,     *)
(* another one conflicts, and anything unreadable is an error.             *)
AlreadyStored(r) == meta[key[r]] = content[r]

ReadExisting(r) ==
  LET k == key[r] IN
  /\ pc[r] = "ReadMeta"
  /\ \/ /\ AlreadyStored(r)
        /\ Acknowledges(r)
        /\ UNCHANGED mixed
     \/ /\ meta[k] \in Contents /\ ~AlreadyStored(r)
        /\ Finish(r, "Conflict")
        /\ UNCHANGED <<acked, ackKeys, mixed>>
     \/ /\ meta[k] = Torn
        /\ Finish(r, "Error")
        /\ UNCHANGED <<acked, ackKeys, mixed>>
     \/ /\ meta[k] = NoFile
        /\ pc' = [pc EXCEPT ![r] = "OpenTmp"]
        /\ mixed' = IF \E q \in Writers(k) : content[q] # content[r]
                    THEN mixed \cup {k} ELSE mixed
        /\ UNCHANGED <<answer, acked, ackKeys>>
  /\ UNCHANGED <<identityVars, data, tmp, meta, key, content, fd, cut, faultVars>>

(* Variant: the metadata goes first and the bytes follow.                  *)
OpenMetaEarly(r) ==
  /\ pc[r] = "OpenTmp"
  /\ meta' = [meta EXCEPT ![key[r]] = content[r]]
  /\ tmp' = [tmp EXCEPT ![key[r]] = Torn]
  /\ fd' = [fd EXCEPT ![r] = "Tmp"]
  /\ pc' = [pc EXCEPT ![r] = "Write"]
  /\ UNCHANGED <<identityVars, data, key, content, answer, historyVars, faultVars>>
(* Opening truncates.  Two writers of a shard open the same file, since    *)
(* its name has nothing of the request.                                    *)
OpenTmp(r) ==
  /\ pc[r] = "OpenTmp"
  /\ tmp' = [tmp EXCEPT ![key[r]] = Torn]
  /\ fd' = [fd EXCEPT ![r] = "Tmp"]
  /\ pc' = [pc EXCEPT ![r] = "Write"]
  /\ UNCHANGED <<identityVars, data, meta, key, content, answer, historyVars,
                 faultVars>>

(* What is in a file after r wrote its body while others may be writing to *)
(* it: the body, or pieces of both.                                        *)
AfterWrite(r, others) ==
  {content[r]} \cup
    IF \E q \in others \ {r} : content[q] # content[r] THEN {Torn} ELSE {}

Write(r) ==
  LET k == key[r]
      others == {q \in Writers(k) : fd[q] = fd[r]} IN
  /\ pc[r] = "Write"
  /\ \E f \in AfterWrite(r, others) :
       /\ tmp' = IF fd[r] = "Tmp" THEN [tmp EXCEPT ![k] = f] ELSE tmp
       /\ data' = IF fd[r] = "Data" THEN [data EXCEPT ![k] = f] ELSE data
  /\ pc' = [pc EXCEPT ![r] = "Install"]
  /\ UNCHANGED <<identityVars, meta, key, content, fd, answer, historyVars, faultVars>>

(* The handle of whoever still writes to the renamed file follows it.      *)
FollowRename(k) ==
  [q \in Requests |->
     IF key[q] # k THEN fd[q]
     ELSE IF fd[q] = "Tmp" THEN "Data"
     ELSE IF fd[q] = "Data" THEN "Gone" ELSE fd[q]]

(* fsync and rename; a file another writer has renamed meanwhile is "not   *)
(* found", which the server answers as if the shard were.                  *)
Install(r) ==
  LET k == key[r] IN
  /\ pc[r] = "Install"
  /\ \/ /\ tmp[k] # NoFile
        /\ data' = [data EXCEPT ![k] = tmp[k]]
        /\ tmp' = [tmp EXCEPT ![k] = NoFile]
        /\ fd' = FollowRename(k)
        /\ pc' = [pc EXCEPT ![r] = "OpenMeta"]
        /\ UNCHANGED answer
     \/ /\ tmp[k] = NoFile
        /\ Finish(r, "NotFound")
        /\ UNCHANGED <<data, tmp, fd>>
  /\ UNCHANGED <<identityVars, meta, key, content, historyVars, faultVars>>

(* The metadata is written in place.                                       *)
OpenMeta(r) ==
  /\ pc[r] = "OpenMeta"
  /\ meta' = [meta EXCEPT ![key[r]] = Torn]
  /\ pc' = [pc EXCEPT ![r] = "WriteMeta"]
  /\ UNCHANGED <<identityVars, data, tmp, key, content, fd, answer, historyVars,
                 faultVars>>

WriteMeta(r) ==
  LET k == key[r]
      others == {q \in Writers(k) : pc[q] = "WriteMeta"} IN
  /\ pc[r] = "WriteMeta"
  /\ \E f \in AfterWrite(r, others) : meta' = [meta EXCEPT ![k] = f]
  /\ pc' = [pc EXCEPT ![r] = "Reply"]
  /\ UNCHANGED <<identityVars, data, tmp, key, content, fd, answer, historyVars,
                 faultVars>>

Reply(r) ==
  /\ pc[r] = "Reply"
  /\ Acknowledges(r)
  /\ UNCHANGED <<identityVars, data, tmp, meta, key, content, fd, mixed, cut,
                 faultVars>>
-----------------------------------------------------------------------------
(* GET: the metadata gives the size, then the bytes are read.              *)

Get(r, k) ==
  /\ process = "Up" /\ pc[r] = "Idle"
  /\ pc' = [pc EXCEPT ![r] = "GetMeta"]
  /\ key' = [key EXCEPT ![r] = k]
  /\ content' = [content EXCEPT ![r] = NoFile]
  /\ fd' = [fd EXCEPT ![r] = "None"]
  /\ answer' = [answer EXCEPT ![r] = "None"]
  /\ UNCHANGED <<identityVars, data, tmp, meta, historyVars, faultVars>>

GetMeta(r) ==
  LET m == meta[key[r]] IN
  /\ pc[r] = "GetMeta"
  /\ \/ /\ m \in Contents
        /\ content' = [content EXCEPT ![r] = m]
        /\ pc' = [pc EXCEPT ![r] = "GetData"]
        /\ UNCHANGED answer
     \/ /\ m = NoFile /\ Finish(r, "NotFound") /\ UNCHANGED content
     \/ /\ m = Torn /\ Finish(r, "Error") /\ UNCHANGED content
  /\ UNCHANGED <<identityVars, data, tmp, meta, key, fd, historyVars, faultVars>>

(* The answer carries the commitment read before and the bytes read now;   *)
(* a client that compares them finds them corrupt or not.                  *)
GetData(r) ==
  LET d == data[key[r]] IN
  /\ pc[r] = "GetData"
  /\ Finish(r, IF d = NoFile THEN "NotFound"
               ELSE IF d = content[r] THEN "Bytes" ELSE "Corrupt")
  /\ UNCHANGED <<identityVars, data, tmp, meta, key, content, fd, historyVars,
                 faultVars>>
-----------------------------------------------------------------------------
(* Faults.                                                                 *)

InFlight(k) == \E r \in Requests : pc[r] # "Idle" /\ key[r] = k

(* The process dies: its requests end without an answer, the files stay    *)
(* as they are, and a temporary file of this process id is never used      *)
(* again.                                                                  *)
Kill ==
  /\ process # "Down" /\ kills < MaxKills
  /\ kills' = kills + 1
  /\ process' = "Down" /\ signer' = 0
  /\ pc' = [r \in Requests |-> "Idle"]
  /\ answer' = [r \in Requests |-> "None"]
  /\ fd' = [r \in Requests |-> "None"]
  /\ tmp' = [k \in Keys |-> NoFile]
  /\ cut' = cut \cup
       {k \in Keys : \E r \in Writers(k) :
          \/ acked[k] # {}
          \/ \E q \in Requests \ {r} : key[q] = k /\ pc[q] \in Writing \cup {"Reply"}}
  /\ UNCHANGED <<identity, keysMade, data, meta, key, content, acked, ackKeys, mixed,
                 losses>>

(* A disk fault or an operator removes a shard with its metadata.          *)
LoseShard(k) ==
  /\ losses < MaxLosses /\ meta[k] # NoFile /\ ~InFlight(k)
  /\ losses' = losses + 1
  /\ data' = [data EXCEPT ![k] = NoFile]
  /\ meta' = [meta EXCEPT ![k] = NoFile]
  /\ acked' = [acked EXCEPT ![k] = {}]
  /\ UNCHANGED <<identityVars, tmp, requestVars, ackKeys, mixed, cut, kills>>

Serve(r) ==
  \/ ReadExisting(r) \/ OpenTmp(r) \/ Write(r) \/ Install(r)
  \/ OpenMeta(r) \/ WriteMeta(r) \/ Reply(r) \/ GetMeta(r) \/ GetData(r)

Next ==
  \/ Boot
  \/ \E r \in Requests :
       \/ \E k \in Keys : Get(r, k) \/ \E c \in Contents : Put(r, k, c)
       \/ Serve(r)
  \/ Kill
  \/ \E k \in Keys : LoseShard(k)

Spec == Init /\ [][Next]_vars
-----------------------------------------------------------------------------
(* What was acknowledged is served: once no PUT of the shard is under way, *)
(* data and metadata are both there and are what was acknowledged, across  *)
(* any kill of the process.  The code ensures it unless two contents of a  *)
(* shard were being written at once, or a kill hit a second writer of it   *)
(* (storage.mjs, putShard; SLICES.md: "A provider can restart without      *)
(* losing its stored shard").                                              *)
AckedIsServed ==
  \A k \in Keys \ (mixed \cup cut) :
    Writers(k) = {} =>
      \A c \in acked[k] : meta[k] = c /\ data[k] = c

(* All acknowledgements of a provider are signed by one key, the one it    *)
(* was registered with, however its starts were interrupted                *)
(* (identity.mjs, load and signPayload).                                   *)
OneSigningKey == Cardinality(ackKeys) <= 1
=============================================================================
