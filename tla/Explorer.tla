------------------------------ MODULE Explorer ------------------------------
(***************************************************************************)
(* The page that shows the registry (ui/src/explorer.ts) while the         *)
(* registry moves on.  It learns which blobs and providers there are from  *)
(* the contract's events, which an indexing service answers in either of   *)
(* two ways, and then reads each blob from the contract.                   *)
(*                                                                         *)
(* Every transaction is a block of its own.  `log' is the events mined so  *)
(* far, the ones the page takes blobs, names and providers from; `load' is *)
(* the load in progress and `view' what the last one showed.  A blob's     *)
(* shards and policy, the feed of events and the cache are left out.       *)
(***************************************************************************)
EXTENDS PrimeServerRegistry, Sequences

Logs == INSTANCE SequencesExt

CONSTANTS
  DeploymentBlock,  \* VITE_REGISTRY_DEPLOYMENT_BLOCK, or NoBlock
  Window,           \* the blocks looked back when it is not configured: 75 000
  PageSize,         \* the most events the service puts on a page
  MaxHeight         \* bound on the chain

NoBlock == -1

ASSUME ExplorerAssumption ==
  /\ DeploymentBlock \in Nat \cup {NoBlock}
  /\ Window \in Nat
  /\ PageSize \in Nat \ {0}
  /\ MaxHeight \in Nat

Unnamed == "Unnamed blob"

VARIABLES height, log, load, view

explorerVars == <<height, log, load, view>>

Idle == [stage |-> "idle"]

ExplorerInit == height = 0 /\ log = <<>> /\ load = Idle /\ view = Idle
-----------------------------------------------------------------------------
(* The chain.  A transaction's events follow one another.                  *)
Mines(events) ==
  /\ height < MaxHeight
  /\ height' = height + 1
  /\ log' = log \o events
  /\ UNCHANGED <<load, view>>

ChainMoves ==
  \/ \E sender \in Operators :
       \/ /\ RegisterProvider(sender)
          /\ Mines(<<[ event |-> "ProviderRegistered", block |-> height + 1,
                       provider |-> nextProviderId ]>>)
       \/ \E p \in ProviderIds, active \in BOOLEAN :
            /\ SetProviderStatus(sender, p, active)
            /\ Mines(<<[ event |-> "ProviderStatusChanged", block |-> height + 1,
                         provider |-> p, active |-> active ]>>)
  \/ \E sender \in Accounts, b \in Blobs, name \in NameChoices :
       LET created == [ event |-> "BlobCreated", block |-> height + 1, blob |-> b,
                        owner |-> sender ]
           named == [ event |-> "BlobNamed", block |-> height + 1, blob |-> b,
                      owner |-> sender, name |-> name ]
       IN  /\ CreateBlob(sender, b, name, 1, NoExpiry)
           /\ Mines(IF name = NoName THEN <<created>> ELSE <<created, named>>)
-----------------------------------------------------------------------------
(* One load.  Nothing is carried over from a load to the next, so a        *)
(* behaviour has one that ends.                                            *)

FromBlock(latest) ==
  IF DeploymentBlock # NoBlock THEN DeploymentBlock
  ELSE IF latest > Window THEN latest - Window ELSE 0

Begin ==
  /\ load.stage = "idle" /\ view.stage = "idle"
  /\ load' = [ stage |-> "events", latest |-> height, from |-> FromBlock(height),
               logs |-> <<>>, page |-> 0 ]
  /\ UNCHANGED <<height, log, view, vars>>

(* The older interface: one answer, oldest first, as far as the service    *)
(* has indexed.  Events come in the order of their blocks, so an answer is *)
(* a stretch of them: what is left of it when those outside are cut off.   *)
Legacy(indexed) ==
  LET older == {i \in DOMAIN log : log[i].block < load.from}
      newer == {i \in DOMAIN log : log[i].block > indexed}
  IN  /\ load.stage = "events" /\ load.page = 0
      /\ indexed \in load.from..load.latest
      /\ load' = [ stage |-> "fold", latest |-> load.latest, from |-> load.from,
                   ordered |-> TRUE,
                   logs |-> SubSeq(log, Cardinality(older) + 1,
                                   Len(log) - Cardinality(newer)) ]
      /\ UNCHANGED <<height, log, view, vars>>

(* Variant: the first block is taken for one too many.                     *)
BeforeSecond(block, from) == block <= from

TooOld(block, from) == block < from

(* Its fallback: pages, newest first, the first from the last event        *)
(* indexed, which may be short of the node's latest block or past it, and  *)
(* each other from where the one before ended; `page' is the first event   *)
(* of the page before, 0 meaning that none was asked for.                  *)
Page(indexed) ==
  LET last == IF load.page = 0
              THEN Cardinality({i \in DOMAIN log : log[i].block <= indexed})
              ELSE load.page - 1
      first == IF last > PageSize THEN last - PageSize + 1 ELSE 1
      older == {i \in first..last : TooOld(log[i].block, load.from)}
      newer == {i \in first..last : log[i].block > load.latest}
      kept == SubSeq(log, first + Cardinality(older), last - Cardinality(newer))
      over == first = 1 \/ older # {}
      logs == load.logs \o Logs!Reverse(kept)
  IN  /\ load.stage = "events"
      /\ load' = IF over
                 THEN [ stage |-> "fold", latest |-> load.latest, from |-> load.from,
                        ordered |-> FALSE, logs |-> logs ]
                 ELSE [load EXCEPT !.logs = logs, !.page = first]
      /\ UNCHANGED <<height, log, view, vars>>

(* What one event does to the blobs and providers found so far.            *)
Put(map, key, value) == [k \in DOMAIN map \cup {key} |-> IF k = key THEN value ELSE map[k]]

Learns(found, e) ==
  CASE e.event = "BlobCreated" ->
         [found EXCEPT !.blobs = Put(@, e.blob, [owner |-> e.owner, name |-> Unnamed])]
    [] e.event = "BlobNamed" ->
         [found EXCEPT !.blobs = Put(@, e.blob, [owner |-> e.owner, name |-> e.name])]
    [] e.event = "ProviderRegistered" ->
         [found EXCEPT !.providers = Put(@, e.provider, TRUE)]
    [] e.event = "ProviderStatusChanged" ->
         IF e.provider \in DOMAIN found.providers
         THEN [found EXCEPT !.providers[e.provider] = e.active] ELSE found

Nothing == [blobs |-> [b \in {} |-> Unnamed], providers |-> [p \in {} |-> TRUE]]

Fold ==
  LET found == Logs!FoldLeft(Learns, Nothing, load.logs) IN
  /\ load.stage = "fold"
  /\ load' = [ stage |-> "read", latest |-> load.latest, from |-> load.from,
               ordered |-> load.ordered, found |-> found,
               indexed |-> Logs!Max({0} \cup {load.logs[i].block : i \in DOMAIN load.logs}),
               unread |-> DOMAIN found.blobs, failed |-> {}, shown |-> {} ]
  /\ UNCHANGED <<height, log, view, vars>>

(* A blob is read at a time of its own.  One whose record cannot be read   *)
(* is left out; one whose name cannot be, or has none, goes by what the    *)
(* events called it.                                                       *)
ReadBlob(b, nameRead) ==
  LET meta == load.found.blobs[b]
      name == IF nameRead /\ blobNames[b] # NoName THEN blobNames[b] ELSE meta.name
  IN  /\ load.stage = "read" /\ b \in load.unread
      /\ load' = [load EXCEPT !.unread = @ \ {b},
                    !.shown = @ \cup {[ blob |-> b, name |-> name,
                                        owner |-> blobs[b].owner,
                                        nameRead |-> nameRead ]}]
      /\ UNCHANGED <<height, log, view, vars>>

ReadFails(b) ==
  /\ load.stage = "read" /\ b \in load.unread
  /\ load' = [load EXCEPT !.unread = @ \ {b}, !.failed = @ \cup {b}]
  /\ UNCHANGED <<height, log, view, vars>>

Show ==
  /\ load.stage = "read" /\ load.unread = {}
  /\ view' = [ stage |-> "shown", latest |-> load.latest, from |-> load.from,
               indexed |-> load.indexed, ordered |-> load.ordered,
               blobs |-> load.shown, failed |-> load.failed,
               providers |-> load.found.providers ]
  /\ load' = Idle
  /\ UNCHANGED <<height, log, vars>>

(* The service or the node answers an error: what was shown stays.         *)
LoadFails ==
  /\ load.stage = "events"
  /\ load' = Idle
  /\ UNCHANGED <<height, log, view, vars>>

ExplorerNext ==
  \/ ChainMoves
  \/ Begin
  \/ \E indexed \in 0..height : Legacy(indexed) \/ Page(indexed)
  \/ Fold
  \/ \E b \in Blobs : ReadFails(b) \/ \E nameRead \in BOOLEAN : ReadBlob(b, nameRead)
  \/ Show
  \/ LoadFails
=============================================================================
