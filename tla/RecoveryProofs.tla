--------------------------- MODULE RecoveryProofs ---------------------------
(***************************************************************************)
(* Proofs about RecoveryQueue, for any number of blobs, requests, crashes  *)
(* and failed writes: the file is never behind on what it calls finished,  *)
(* answers are durable while writes succeed, and a lease excludes other    *)
(* workers until one of them outlives it.                                  *)
(***************************************************************************)
EXTENDS RecoveryQueue, FiniteSetTheorems, TLAPS

Done(job) == job.status = "succeeded"
HeldOrDone(job) == Done(job) \/ (job.status = "running" /\ job.lease = "held")

OwnResults(jobs) ==
  \A b \in Blobs : Done(jobs[b]) => jobs[b].result \in Results /\ jobs[b].result.blob = b

KeepsDone(jobs, new) == \A b \in Blobs : Done(jobs[b]) => new[b] = jobs[b]
KeepsHeld(jobs, new) == \A b \in Blobs : HeldOrDone(jobs[b]) => new[b] = jobs[b]

(* What every mutator of the store respects.                               *)
Steady(jobs, new) ==
  new \in [Blobs -> Jobs] /\ KeepsDone(jobs, new) /\ OwnResults(new)

(* The file against the memory.                                            *)
FileSound ==
  /\ writeFailures = 0 => disk = mem
  /\ KeepsDone(disk, mem)
  /\ OwnResults(mem)

WorkersHold ==
  \A b \in Blobs \ overrun : \A t \in Requests : Working(t, b) => HeldOrDone(mem[b])

FoundIsOwn ==
  \A t \in Requests : pc[t] = "complete" =>
    found[t] \in Results /\ found[t].blob = working[t]

IInv ==
  TypeOK /\ FileSound /\ WorkersHold /\ FoundIsOwn /\ AloneUntilOverrun /\ DurableAnswers
-----------------------------------------------------------------------------
(***************************************************************************)
(* The mutators.                                                           *)
(***************************************************************************)

LEMMA NoJobTyped == NoJob \in Jobs /\ ~HeldOrDone(NoJob)
BY DEF NoJob, Jobs, HeldOrDone, Done

LEMMA OrderTyped ==
  ASSUME NEW jobs
  PROVE  Cardinality({c \in Blobs : jobs[c].status # "none"}) + 1 \in Nat
<1>1. IsFiniteSet({c \in Blobs : jobs[c].status # "none"})
  BY FS_Subset, QueueAssumption
<1> QED BY <1>1, FS_CardinalityType

LEMMA EnqueuedSteady ==
  ASSUME NEW jobs \in [Blobs -> Jobs], NEW b \in Blobs, OwnResults(jobs)
  PROVE  Steady(jobs, Enqueued(jobs, b)) /\ KeepsHeld(jobs, Enqueued(jobs, b))
<1>1. CASE ~Enqueues(jobs[b])
  BY <1>1 DEF Enqueued, Steady, KeepsDone, KeepsHeld
<1>2. CASE Enqueues(jobs[b])
  <2> DEFINE order == Cardinality({c \in Blobs : jobs[c].status # "none"}) + 1
             job == [NoJob EXCEPT !.status = "queued", !.created = order]
  <2>1. job \in Jobs /\ job.status = "queued"
    BY OrderTyped, NoJobTyped DEF NoJob, Jobs
  <2>2. Enqueued(jobs, b) = [jobs EXCEPT ![b] = job]
    BY <1>2 DEF Enqueued
  <2>3. ~HeldOrDone(jobs[b])
    BY <1>2 DEF Enqueues, HeldOrDone, Done
  <2> HIDE DEF job
  <2>4. ~HeldOrDone(job)
    BY <2>1 DEF HeldOrDone, Done
  <2> QED BY <2>1, <2>2, <2>3, <2>4
          DEF Steady, KeepsDone, KeepsHeld, OwnResults, HeldOrDone
<1> QED BY <1>1, <1>2

LEMMA RequeuedSteady ==
  ASSUME NEW jobs \in [Blobs -> Jobs], OwnResults(jobs)
  PROVE  Steady(jobs, Requeued(jobs)) /\ KeepsHeld(jobs, Requeued(jobs))
<1>1. ASSUME NEW c \in Blobs
      PROVE  /\ Requeued(jobs)[c] \in Jobs
             /\ HeldOrDone(jobs[c]) => Requeued(jobs)[c] = jobs[c]
             /\ Done(Requeued(jobs)[c]) => Requeued(jobs)[c] = jobs[c]
  BY DEF Requeued, Jobs, HeldOrDone, Done
<1>2. Requeued(jobs) \in [Blobs -> Jobs]
  BY <1>1 DEF Requeued
<1> QED BY <1>1, <1>2 DEF Steady, KeepsDone, KeepsHeld, OwnResults, HeldOrDone

LEMMA ClaimedSteady ==
  ASSUME NEW jobs \in [Blobs -> Jobs], NEW b \in Blobs, OwnResults(jobs),
         jobs[b].status = "queued"
  PROVE  /\ Steady(jobs, Claimed(jobs, b)) /\ KeepsHeld(jobs, Claimed(jobs, b))
         /\ HeldOrDone(Claimed(jobs, b)[b])
<1> DEFINE job == [jobs[b] EXCEPT !.status = "running", !.lease = "held"]
<1>1. job \in Jobs /\ job.status = "running" /\ job.lease = "held"
  BY DEF Jobs
<1>2. Claimed(jobs, b) = [jobs EXCEPT ![b] = job]
  BY DEF Claimed
<1>3. ~HeldOrDone(jobs[b])
  BY DEF HeldOrDone, Done
<1> HIDE DEF job
<1> QED BY <1>1, <1>2, <1>3 DEF Steady, KeepsDone, KeepsHeld, OwnResults, HeldOrDone, Done

LEMMA CompletedSteady ==
  ASSUME NEW jobs \in [Blobs -> Jobs], NEW b \in Blobs, NEW r \in Results,
         r.blob = b, OwnResults(jobs)
  PROVE  /\ Steady(jobs, Completed(jobs, b, r))
         /\ Done(Completed(jobs, b, r)[b])
         /\ \A c \in Blobs \ {b} : Completed(jobs, b, r)[c] = jobs[c]
<1>1. CASE jobs[b].status = "succeeded"
  BY <1>1 DEF Completed, Steady, KeepsDone, Done
<1>2. CASE jobs[b].status # "succeeded"
  <2> DEFINE job == [jobs[b] EXCEPT !.status = "succeeded", !.lease = "none", !.result = r]
  <2>1. job \in Jobs /\ job.status = "succeeded" /\ job.result = r
    BY DEF Jobs
  <2>2. Completed(jobs, b, r) = [jobs EXCEPT ![b] = job]
    BY <1>2 DEF Completed
  <2> HIDE DEF job
  <2> QED BY <1>2, <2>1, <2>2 DEF Steady, KeepsDone, OwnResults, Done
<1> QED BY <1>1, <1>2

LEMMA FailedSteady ==
  ASSUME NEW jobs \in [Blobs -> Jobs], NEW b \in Blobs, OwnResults(jobs)
  PROVE  /\ Steady(jobs, Failed(jobs, b))
         /\ \A c \in Blobs \ {b} : Failed(jobs, b)[c] = jobs[c]
<1>1. CASE jobs[b].status = "succeeded"
  BY <1>1 DEF Failed, Steady, KeepsDone, Done
<1>2. CASE jobs[b].status # "succeeded"
  <2> DEFINE job == [jobs[b] EXCEPT !.status = "queued", !.lease = "none"]
  <2>1. job \in Jobs /\ job.status = "queued"
    BY DEF Jobs
  <2>2. Failed(jobs, b) = [jobs EXCEPT ![b] = job]
    BY <1>2 DEF Failed
  <2> HIDE DEF job
  <2> QED BY <1>2, <2>1, <2>2 DEF Steady, KeepsDone, OwnResults, Done
<1> QED BY <1>1, <1>2
-----------------------------------------------------------------------------
(***************************************************************************)
(* What a step may do to the store, to the workers and to the answers.     *)
(***************************************************************************)

LEMMA StoreWritten ==
  ASSUME TypeOK, FileSound, NEW new, Steady(mem, new), Saved(new) \/ NotSaved(new)
  PROVE  /\ FileSound' /\ FinishedIsFinalStep
         /\ mem' = new /\ mem' \in [Blobs -> Jobs] /\ disk' \in [Blobs -> Jobs]
         /\ writeFailures' \in Nat /\ (writeFailures' = 0 => writeFailures = 0)
<1>1. /\ mem' = new /\ (disk' = disk \/ disk' = new)
      /\ writeFailures' \in Nat /\ (writeFailures' = 0 => writeFailures = 0 /\ disk' = new)
  BY DEF Saved, NotSaved, TypeOK
<1>2. \A b \in Blobs : Done(disk[b]) => new[b] = disk[b]
  BY DEF FileSound, KeepsDone, Steady
<1> QED BY <1>1, <1>2 DEF FileSound, FinishedIsFinalStep, Steady, KeepsDone, Done, TypeOK

LEMMA StoreUntouched ==
  ASSUME TypeOK, FileSound, UNCHANGED jobVars
  PROVE  /\ FileSound' /\ FinishedIsFinalStep /\ KeepsHeld(mem, mem')
         /\ mem' \in [Blobs -> Jobs] /\ disk' \in [Blobs -> Jobs]
         /\ writeFailures' \in Nat /\ (writeFailures' = 0 => writeFailures = 0)
BY DEF jobVars, FileSound, FinishedIsFinalStep, OwnResults, KeepsDone, KeepsHeld, Done, TypeOK

LEMMA NoNewWorker ==
  ASSUME TypeOK, WorkersHold, AloneUntilOverrun, KeepsHeld(mem, mem'), overrun' = overrun,
         \A t \in Requests, b \in Blobs : Working(t, b)' => Working(t, b)
  PROVE  WorkersHold' /\ AloneUntilOverrun'
<1>1. WorkersHold'
  BY DEF WorkersHold, KeepsHeld
<1>2. AloneUntilOverrun'
  BY DEF AloneUntilOverrun
<1> QED BY <1>1, <1>2

(* The only worker of a blob is done with it, and leaves other jobs alone. *)
LEMMA WorkerLeaves ==
  ASSUME TypeOK, WorkersHold, AloneUntilOverrun, overrun' = overrun,
         NEW t \in Requests, NEW b \in Blobs, Working(t, b),
         \A c \in Blobs \ {b} : mem'[c] = mem[c],
         \A s \in Requests, c \in Blobs : Working(s, c)' => Working(s, c),
         Working(t, b)' => HeldOrDone(mem'[b])
  PROVE  WorkersHold' /\ AloneUntilOverrun'
<1>1. ASSUME NEW c \in Blobs \ overrun', NEW s \in Requests, Working(s, c)'
      PROVE  HeldOrDone(mem'[c])
  <2>1. Working(s, c)
    BY <1>1
  <2>2. CASE c # b
    BY <1>1, <2>1, <2>2 DEF WorkersHold
  <2>3. CASE c = b
    <3>1. s = t
      BY <1>1, <2>1, <2>3 DEF AloneUntilOverrun
    <3> QED BY <1>1, <2>3, <3>1
  <2> QED BY <2>2, <2>3
<1>2. WorkersHold'
  BY <1>1 DEF WorkersHold
<1>3. AloneUntilOverrun'
  BY DEF AloneUntilOverrun
<1> QED BY <1>2, <1>3

LEMMA AnswersHeld ==
  ASSUME DurableAnswers, FileSound', FinishedIsFinalStep, TypeOK',
         writeFailures' = 0 => writeFailures = 0,
         \A t \in Requests : answer'[t] \in Results =>
           answer'[t] = answer[t] \/ Done(mem'[answer'[t].blob])
  PROVE  DurableAnswers'
<1> SUFFICES ASSUME writeFailures' = 0, NEW t \in Requests, answer'[t] \in Results
             PROVE  disk'[answer'[t].blob].status = "succeeded"
  BY DEF DurableAnswers
<1>1. answer'[t].blob \in Blobs
  BY DEF Results
<1>2. CASE answer'[t] = answer[t]
  BY <1>1, <1>2 DEF DurableAnswers, FinishedIsFinalStep
<1>3. CASE Done(mem'[answer'[t].blob])
  BY <1>3 DEF FileSound, Done
<1> QED BY <1>2, <1>3

LEMMA GoesTyped ==
  ASSUME TypeOK, NEW t \in Requests, NEW place \in Places, Goes(t, place)
  PROVE  /\ pc' \in [Requests -> Places]
         /\ answer' \in [Requests -> Results \cup {NoResult, Failure}]
         /\ pc'[t] = place /\ answer' = answer
         /\ \A s \in Requests \ {t} : pc'[s] = pc[s]
BY DEF Goes, TypeOK

LEMMA AnswersTyped ==
  ASSUME TypeOK, NEW t \in Requests, NEW r \in Results \cup {Failure}, Answers(t, r)
  PROVE  /\ pc' \in [Requests -> Places]
         /\ answer' \in [Requests -> Results \cup {NoResult, Failure}]
         /\ pc'[t] = "idle" /\ answer'[t] = r
         /\ \A s \in Requests \ {t} : pc'[s] = pc[s] /\ answer'[s] = answer[s]
BY DEF Answers, TypeOK, Places
-----------------------------------------------------------------------------
(***************************************************************************)
(* The steps.                                                              *)
(***************************************************************************)

LEMMA InitSound == Init => IInv
<1> SUFFICES ASSUME Init PROVE IInv
  OBVIOUS
<1>1. mem \in [Blobs -> Jobs] /\ \A b \in Blobs : ~HeldOrDone(mem[b])
  BY NoJobTyped DEF Init
<1>2. TypeOK
  BY <1>1, QueueAssumption DEF Init, TypeOK, Places
<1>3. FileSound
  BY <1>1 DEF Init, FileSound, KeepsDone, OwnResults, HeldOrDone
<1>4. WorkersHold /\ FoundIsOwn /\ AloneUntilOverrun
  BY DEF Init, WorkersHold, FoundIsOwn, AloneUntilOverrun, Working
<1>5. DurableAnswers
  BY ResultAssumption DEF Init, DurableAnswers
<1> QED BY <1>2, <1>3, <1>4, <1>5 DEF IInv

LEMMA AskSound ==
  ASSUME IInv, NEW t \in Requests, NEW b \in Blobs, Ask(t, b)
  PROVE  IInv' /\ FinishedIsFinalStep
<1>0. TypeOK /\ FileSound /\ WorkersHold /\ FoundIsOwn /\ AloneUntilOverrun /\ DurableAnswers
  BY DEF IInv
<1>1. FileSound' /\ FinishedIsFinalStep /\ KeepsHeld(mem, mem')
      /\ mem' \in [Blobs -> Jobs] /\ disk' \in [Blobs -> Jobs]
      /\ writeFailures' \in Nat /\ (writeFailures' = 0 => writeFailures = 0)
  BY <1>0, StoreUntouched DEF Ask
<1>2. TypeOK'
  BY <1>0, <1>1 DEF Ask, TypeOK, Places, worldVars
<1>3. \A s \in Requests, c \in Blobs : Working(s, c)' => Working(s, c)
  BY <1>0 DEF Ask, Working, TypeOK
<1>4. WorkersHold' /\ AloneUntilOverrun'
  BY <1>0, <1>1, <1>3, NoNewWorker DEF Ask
<1>5. FoundIsOwn'
  BY <1>0 DEF Ask, FoundIsOwn, TypeOK
<1>6. \A s \in Requests : answer'[s] \in Results => answer'[s] = answer[s]
  BY <1>0, ResultAssumption DEF Ask, TypeOK
<1>7. DurableAnswers'
  BY <1>0, <1>1, <1>2, <1>6, AnswersHeld
<1> QED BY <1>1, <1>2, <1>4, <1>5, <1>7 DEF IInv

(* Steps that read the store only: look, poll and giving up.               *)
LEMMA ReadSound ==
  ASSUME IInv, NEW t \in Requests, Look(t) \/ Poll(t) \/ GiveUp(t)
  PROVE  IInv' /\ FinishedIsFinalStep
<1>0. TypeOK /\ FileSound /\ WorkersHold /\ FoundIsOwn /\ AloneUntilOverrun /\ DurableAnswers
  BY DEF IInv
<1>1. UNCHANGED <<jobVars, worldVars, asked, working, found, overrun, crashes>>
  BY DEF Look, Poll, GiveUp
<1>2. FileSound' /\ FinishedIsFinalStep /\ KeepsHeld(mem, mem')
      /\ mem' \in [Blobs -> Jobs] /\ disk' \in [Blobs -> Jobs]
      /\ writeFailures' \in Nat /\ (writeFailures' = 0 => writeFailures = 0)
  BY <1>0, <1>1, StoreUntouched
<1>3. PICK r \in Results \cup {Failure} :
        /\ Answers(t, r) \/ Goes(t, "enqueue") \/ Goes(t, "claim")
        /\ r \in Results => Done(mem[r.blob])
  <2>1. asked[t] \in Blobs
    BY <1>0 DEF TypeOK
  <2>2. mem[asked[t]].status = "succeeded" =>
          mem[asked[t]].result \in Results /\ Done(mem[mem[asked[t]].result.blob])
    BY <1>0, <2>1 DEF FileSound, OwnResults, Done
  <2>3. CASE Look(t) \/ Poll(t)
    BY <2>2, <2>3, ResultAssumption DEF Look, Poll
  <2>4. CASE GiveUp(t)
    BY <2>4, ResultAssumption DEF GiveUp
  <2> QED BY <2>3, <2>4
<1>4. /\ pc' \in [Requests -> Places]
      /\ answer' \in [Requests -> Results \cup {NoResult, Failure}]
      /\ pc'[t] \in {"idle", "enqueue", "claim"}
      /\ \A s \in Requests \ {t} : pc'[s] = pc[s] /\ answer'[s] = answer[s]
      /\ answer'[t] = answer[t] \/ answer'[t] = r
  BY <1>0, <1>3, GoesTyped, AnswersTyped DEF Places
<1>5. TypeOK'
  BY <1>0, <1>1, <1>2, <1>4 DEF TypeOK, worldVars
<1>6. \A s \in Requests, c \in Blobs : Working(s, c)' => Working(s, c)
  BY <1>1, <1>4 DEF Working
<1>7. WorkersHold' /\ AloneUntilOverrun'
  BY <1>0, <1>1, <1>2, <1>6, NoNewWorker
<1>8. FoundIsOwn'
  BY <1>0, <1>1, <1>4 DEF FoundIsOwn
<1>9. DurableAnswers'
  <2>1. mem' = mem
    BY <1>1 DEF jobVars
  <2> QED BY <1>0, <1>2, <1>3, <1>4, <1>5, <2>1, AnswersHeld
<1> QED BY <1>2, <1>5, <1>7, <1>8, <1>9 DEF IInv

(* Steps that write the store and start or end no work: to enqueue, and to *)
(* find nothing to claim.                                                  *)
LEMMA WriteSound ==
  ASSUME IInv, NEW t \in Requests, Enqueue(t) \/ ClaimNothing(t)
  PROVE  IInv' /\ FinishedIsFinalStep
<1>0. TypeOK /\ FileSound /\ WorkersHold /\ FoundIsOwn /\ AloneUntilOverrun /\ DurableAnswers
  BY DEF IInv
<1>1. /\ UNCHANGED <<worldVars, asked, working, found, overrun, crashes>>
      /\ pc[t] \in {"enqueue", "claim"}
  BY DEF Enqueue, ClaimNothing
<1>2. PICK new : /\ Steady(mem, new) /\ KeepsHeld(mem, new)
                 /\ Saved(new) \/ NotSaved(new)
                 /\ Goes(t, "claim") \/ Goes(t, "poll") \/ Answers(t, Failure)
  <2>1. CASE Enqueue(t)
    <3>1. Steady(mem, Enqueued(mem, asked[t])) /\ KeepsHeld(mem, Enqueued(mem, asked[t]))
      BY <1>0, EnqueuedSteady DEF TypeOK, FileSound
    <3>2. \/ Saved(Enqueued(mem, asked[t])) /\ (Goes(t, "claim") \/ Goes(t, "poll"))
          \/ NotSaved(Enqueued(mem, asked[t])) /\ Answers(t, Failure)
      BY <2>1 DEF Enqueue
    <3> QED BY <3>1, <3>2
  <2>2. CASE ClaimNothing(t)
    <3>1. Steady(mem, Requeued(mem)) /\ KeepsHeld(mem, Requeued(mem))
      BY <1>0, RequeuedSteady DEF TypeOK, FileSound
    <3>2. \/ Saved(Requeued(mem)) /\ Goes(t, "poll")
          \/ NotSaved(Requeued(mem)) /\ Answers(t, Failure)
      BY <2>2 DEF ClaimNothing
    <3> QED BY <3>1, <3>2
  <2> QED BY <2>1, <2>2
<1>3. /\ FileSound' /\ FinishedIsFinalStep /\ KeepsHeld(mem, mem')
      /\ mem' \in [Blobs -> Jobs] /\ disk' \in [Blobs -> Jobs]
      /\ writeFailures' \in Nat /\ (writeFailures' = 0 => writeFailures = 0)
  BY <1>0, <1>2, StoreWritten
<1>4. /\ pc' \in [Requests -> Places]
      /\ answer' \in [Requests -> Results \cup {NoResult, Failure}]
      /\ pc'[t] \in {"idle", "claim", "poll"}
      /\ \A s \in Requests \ {t} : pc'[s] = pc[s] /\ answer'[s] = answer[s]
      /\ answer'[t] = answer[t] \/ answer'[t] = Failure
  BY <1>0, <1>2, GoesTyped, AnswersTyped DEF Places
<1>5. TypeOK'
  BY <1>0, <1>1, <1>3, <1>4 DEF TypeOK, worldVars
<1>6. \A s \in Requests, c \in Blobs : Working(s, c)' => Working(s, c)
  BY <1>1, <1>4 DEF Working
<1>7. WorkersHold' /\ AloneUntilOverrun'
  BY <1>0, <1>1, <1>3, <1>6, NoNewWorker
<1>8. FoundIsOwn'
  BY <1>0, <1>1, <1>4 DEF FoundIsOwn
<1>9. DurableAnswers'
  BY <1>0, <1>3, <1>4, <1>5, ResultAssumption, AnswersHeld
<1> QED BY <1>3, <1>5, <1>7, <1>8, <1>9 DEF IInv

LEMMA ClaimSound ==
  ASSUME IInv, NEW t \in Requests, NEW b \in Blobs, Claim(t, b)
  PROVE  IInv' /\ FinishedIsFinalStep
<1>0. TypeOK /\ FileSound /\ WorkersHold /\ FoundIsOwn /\ AloneUntilOverrun /\ DurableAnswers
  BY DEF IInv
<1> DEFINE ready == Requeued(mem)
           new == Claimed(ready, b)
<1>1. Steady(mem, ready) /\ KeepsHeld(mem, ready)
  BY <1>0, RequeuedSteady DEF TypeOK, FileSound
<1>2. ready[b].status = "queued" /\ ~HeldOrDone(mem[b])
  <2>1. ready[b].status = "queued"
    BY DEF Claim, IsOldestQueued
  <2> QED BY <1>1, <2>1 DEF KeepsHeld, HeldOrDone, Done
<1>3. /\ Steady(ready, new) /\ KeepsHeld(ready, new) /\ HeldOrDone(new[b])
  BY <1>1, <1>2, ClaimedSteady DEF Steady
<1>4. /\ UNCHANGED <<worldVars, asked, found, overrun, crashes>>
      /\ pc[t] = "claim" /\ (Saved(new) \/ NotSaved(new))
      /\ \/ working' = [working EXCEPT ![t] = b] /\ Goes(t, "recover")
         \/ UNCHANGED working /\ Answers(t, Failure)
  BY DEF Claim
<1> HIDE DEF ready, new
<1>5. Steady(mem, new) /\ KeepsHeld(mem, new)
  BY <1>1, <1>3 DEF Steady, KeepsDone, KeepsHeld, HeldOrDone
<1>6. /\ FileSound' /\ FinishedIsFinalStep /\ mem' = new
      /\ mem' \in [Blobs -> Jobs] /\ disk' \in [Blobs -> Jobs]
      /\ writeFailures' \in Nat /\ (writeFailures' = 0 => writeFailures = 0)
  BY <1>0, <1>4, <1>5, StoreWritten
<1>7. /\ pc' \in [Requests -> Places]
      /\ answer' \in [Requests -> Results \cup {NoResult, Failure}]
      /\ pc'[t] \in {"idle", "recover"}
      /\ pc'[t] = "recover" => working' = [working EXCEPT ![t] = b]
      /\ pc'[t] = "idle" => working' = working
      /\ \A s \in Requests \ {t} : pc'[s] = pc[s] /\ answer'[s] = answer[s]
      /\ answer'[t] = answer[t] \/ answer'[t] = Failure
  BY <1>0, <1>4, GoesTyped, AnswersTyped DEF Places
<1>8. working' \in [Requests -> Blobs]
      /\ \A s \in Requests \ {t} : working'[s] = working[s]
  BY <1>0, <1>7 DEF TypeOK
<1>9. TypeOK'
  BY <1>0, <1>4, <1>6, <1>7, <1>8 DEF TypeOK, worldVars
<1>10. \A s \in Requests, c \in Blobs :
         Working(s, c)' => (s = t /\ c = b) \/ (s # t /\ Working(s, c))
  BY <1>0, <1>7, <1>8 DEF Working, TypeOK
<1>11. b \notin overrun => \A s \in Requests : ~Working(s, b)
  BY <1>0, <1>2 DEF WorkersHold
<1>12. WorkersHold'
  BY <1>0, <1>3, <1>4, <1>5, <1>6, <1>10 DEF WorkersHold, KeepsHeld
<1>13. AloneUntilOverrun'
  BY <1>0, <1>4, <1>10, <1>11 DEF AloneUntilOverrun
<1>14. FoundIsOwn'
  BY <1>0, <1>4, <1>7, <1>8 DEF FoundIsOwn
<1>15. DurableAnswers'
  BY <1>0, <1>6, <1>7, <1>9, ResultAssumption, AnswersHeld
<1> QED BY <1>6, <1>9, <1>12, <1>13, <1>14, <1>15 DEF IInv

LEMMA RebuildSound ==
  ASSUME IInv, NEW t \in Requests, Rebuild(t) \/ RebuildFails(t)
  PROVE  IInv' /\ FinishedIsFinalStep
<1>0. TypeOK /\ FileSound /\ WorkersHold /\ FoundIsOwn /\ AloneUntilOverrun /\ DurableAnswers
  BY DEF IInv
<1>1. UNCHANGED <<jobVars, losses, asked, working, overrun, crashes>> /\ pc[t] = "recover"
  BY DEF Rebuild, RebuildFails
<1>2. FileSound' /\ FinishedIsFinalStep /\ KeepsHeld(mem, mem')
      /\ mem' \in [Blobs -> Jobs] /\ disk' \in [Blobs -> Jobs]
      /\ writeFailures' \in Nat /\ (writeFailures' = 0 => writeFailures = 0)
  BY <1>0, <1>1, StoreUntouched
<1>3. /\ pc' \in [Requests -> Places]
      /\ answer' = answer
      /\ pc'[t] \in {"complete", "fail"}
      /\ \A s \in Requests \ {t} : pc'[s] = pc[s]
  BY <1>0, GoesTyped DEF Rebuild, RebuildFails, Places
<1>4. /\ found' \in [Requests -> Results \cup {NoResult}]
      /\ \A s \in Requests \ {t} : found'[s] = found[s]
      /\ pc'[t] = "complete" => found'[t] \in Results /\ found'[t].blob = working[t]
  <2>1. CASE Rebuild(t)
    <3> DEFINE r == [blob |-> working[t], rebuilt |-> working[t] \in missing]
    <3>1. r \in Results /\ r.blob = working[t]
      BY <1>0 DEF TypeOK, Results
    <3>2. found' = [found EXCEPT ![t] = r]
      BY <2>1 DEF Rebuild
    <3> HIDE DEF r
    <3> QED BY <1>0, <3>1, <3>2 DEF TypeOK
  <2>2. CASE RebuildFails(t)
    BY <1>0, <2>2 DEF RebuildFails, Goes, TypeOK
  <2> QED BY <2>1, <2>2
<1>5. /\ missing' \subseteq Blobs /\ failures' \in Nat
  BY <1>0 DEF Rebuild, RebuildFails, TypeOK
<1>6. TypeOK'
  BY <1>0, <1>1, <1>2, <1>3, <1>4, <1>5 DEF TypeOK
<1>7. \A s \in Requests, c \in Blobs : Working(s, c)' => Working(s, c)
  BY <1>1, <1>3 DEF Working
<1>8. WorkersHold' /\ AloneUntilOverrun'
  BY <1>0, <1>1, <1>2, <1>7, NoNewWorker
<1>9. FoundIsOwn'
  BY <1>0, <1>1, <1>3, <1>4 DEF FoundIsOwn
<1>10. DurableAnswers'
  BY <1>0, <1>2, <1>3, <1>6, AnswersHeld
<1> QED BY <1>2, <1>6, <1>8, <1>9, <1>10 DEF IInv

(* Steps by which a worker ends its job, or turns from success to failure. *)
LEMMA EndSound ==
  ASSUME IInv, NEW t \in Requests, Complete(t) \/ Fail(t)
  PROVE  IInv' /\ FinishedIsFinalStep
<1>0. TypeOK /\ FileSound /\ WorkersHold /\ FoundIsOwn /\ AloneUntilOverrun /\ DurableAnswers
  BY DEF IInv
<1>b. PICK b \in Blobs : b = working[t]
  BY <1>0 DEF TypeOK
<1>1. /\ UNCHANGED <<worldVars, asked, working, found, overrun, crashes>>
      /\ pc[t] \in {"complete", "fail"} /\ Working(t, b)
  BY <1>b DEF Complete, Fail, Working
<1>2. PICK new, r :
        /\ r \in Results \cup {Failure}
        /\ Steady(mem, new) /\ (Saved(new) \/ NotSaved(new))
        /\ \A c \in Blobs \ {b} : new[c] = mem[c]
        /\ Answers(t, r) \/ (Goes(t, "fail") /\ HeldOrDone(new[b]))
        /\ r \in Results => Done(new[r.blob])
  <2>1. CASE Complete(t)
    <3>1. found[t] \in Results /\ found[t].blob = b
      BY <1>0, <1>b, <2>1 DEF Complete, FoundIsOwn
    <3> DEFINE jobs == Completed(mem, b, found[t])
    <3>2. Steady(mem, jobs) /\ Done(jobs[b]) /\ \A c \in Blobs \ {b} : jobs[c] = mem[c]
      BY <1>0, <1>1, <3>1, CompletedSteady DEF TypeOK, FileSound
    <3>3. \/ Saved(jobs) /\ Answers(t, found[t])
          \/ NotSaved(jobs) /\ Goes(t, "fail")
      BY <1>b, <2>1 DEF Complete
    <3> HIDE DEF jobs
    <3> QED BY <3>1, <3>2, <3>3 DEF HeldOrDone
  <2>2. CASE Fail(t)
    <3> DEFINE jobs == Failed(mem, b)
    <3>1. Steady(mem, jobs) /\ \A c \in Blobs \ {b} : jobs[c] = mem[c]
      BY <1>0, <1>1, FailedSteady DEF TypeOK, FileSound
    <3>2. (Saved(jobs) \/ NotSaved(jobs)) /\ Answers(t, Failure)
      BY <1>b, <2>2 DEF Fail
    <3> HIDE DEF jobs
    <3> QED BY <3>1, <3>2, ResultAssumption
  <2> QED BY <2>1, <2>2
<1>3. /\ FileSound' /\ FinishedIsFinalStep /\ mem' = new
      /\ mem' \in [Blobs -> Jobs] /\ disk' \in [Blobs -> Jobs]
      /\ writeFailures' \in Nat /\ (writeFailures' = 0 => writeFailures = 0)
  BY <1>0, <1>2, StoreWritten
<1>4. /\ pc' \in [Requests -> Places]
      /\ answer' \in [Requests -> Results \cup {NoResult, Failure}]
      /\ pc'[t] \in {"idle", "fail"}
      /\ pc'[t] = "fail" => HeldOrDone(new[b])
      /\ \A s \in Requests \ {t} : pc'[s] = pc[s] /\ answer'[s] = answer[s]
      /\ answer'[t] = answer[t] \/ answer'[t] = r
  BY <1>0, <1>2, GoesTyped, AnswersTyped DEF Places
<1>5. TypeOK'
  BY <1>0, <1>1, <1>3, <1>4 DEF TypeOK, worldVars
<1>6. \A s \in Requests, c \in Blobs : Working(s, c)' => Working(s, c)
  BY <1>1, <1>4 DEF Working
<1>7. Working(t, b)' => HeldOrDone(mem'[b])
  BY <1>3, <1>4 DEF Working
<1>8. WorkersHold' /\ AloneUntilOverrun'
  BY <1>0, <1>1, <1>2, <1>3, <1>6, <1>7, WorkerLeaves
<1>9. FoundIsOwn'
  BY <1>0, <1>1, <1>4 DEF FoundIsOwn
<1>10. DurableAnswers'
  BY <1>0, <1>2, <1>3, <1>4, <1>5, AnswersHeld
<1> QED BY <1>3, <1>5, <1>8, <1>9, <1>10 DEF IInv

LEMMA LeaseOverTyped ==
  ASSUME NEW jobs \in [Blobs -> Jobs], NEW b \in Blobs
  PROVE  /\ LeaseOver(jobs, b) \in [Blobs -> Jobs]
         /\ \A c \in Blobs : Done(jobs[c]) \/ c # b => LeaseOver(jobs, b)[c] = jobs[c]
         /\ \A c \in Blobs : Done(LeaseOver(jobs, b)[c]) => Done(jobs[c])
<1>1. CASE jobs[b].status # "running"
  BY <1>1 DEF LeaseOver
<1>2. CASE jobs[b].status = "running"
  <2> DEFINE job == [jobs[b] EXCEPT !.lease = "expired"]
  <2>1. job \in Jobs /\ job.status = "running"
    BY <1>2 DEF Jobs
  <2>2. LeaseOver(jobs, b) = [jobs EXCEPT ![b] = job]
    BY <1>2 DEF LeaseOver
  <2> HIDE DEF job
  <2> QED BY <1>2, <2>1, <2>2 DEF Done
<1> QED BY <1>1, <1>2

LEMMA ExpireSound ==
  ASSUME IInv, NEW b \in Blobs, ExpireLease(b)
  PROVE  IInv' /\ FinishedIsFinalStep
<1>0. TypeOK /\ FileSound /\ WorkersHold /\ FoundIsOwn /\ AloneUntilOverrun /\ DurableAnswers
  BY DEF IInv
<1>1. /\ mem' = LeaseOver(mem, b) /\ disk' = LeaseOver(disk, b)
      /\ UNCHANGED <<writeFailures, worldVars, requestVars, crashes>>
      /\ overrun' = IF \E t \in Requests : Working(t, b) THEN overrun \cup {b} ELSE overrun
  BY DEF ExpireLease
<1>2. /\ mem' \in [Blobs -> Jobs] /\ disk' \in [Blobs -> Jobs]
      /\ \A c \in Blobs : Done(mem[c]) \/ c # b => mem'[c] = mem[c]
      /\ \A c \in Blobs : Done(disk[c]) \/ c # b => disk'[c] = disk[c]
      /\ \A c \in Blobs : Done(mem'[c]) => Done(mem[c])
      /\ \A c \in Blobs : Done(disk'[c]) => Done(disk[c])
  BY <1>0, <1>1, LeaseOverTyped DEF TypeOK
<1>3. FileSound'
  BY <1>0, <1>1, <1>2 DEF FileSound, KeepsDone, OwnResults
<1>4. FinishedIsFinalStep
  BY <1>2 DEF FinishedIsFinalStep, Done
<1>5. TypeOK'
  BY <1>0, <1>1, <1>2 DEF TypeOK, worldVars, requestVars
<1>6. \A t \in Requests, c \in Blobs : Working(t, c)' <=> Working(t, c)
  BY <1>1 DEF Working, requestVars
<1>7. WorkersHold'
  <2> SUFFICES ASSUME NEW c \in Blobs \ overrun', NEW t \in Requests, Working(t, c)
               PROVE  HeldOrDone(mem'[c])
    BY <1>6 DEF WorkersHold
  <2>1. c # b /\ c \notin overrun
    BY <1>1
  <2> QED BY <1>0, <1>2, <2>1 DEF WorkersHold
<1>8. AloneUntilOverrun'
  BY <1>0, <1>1, <1>6 DEF AloneUntilOverrun
<1>9. FoundIsOwn'
  BY <1>0, <1>1 DEF FoundIsOwn, requestVars
<1>10. DurableAnswers'
  BY <1>0, <1>1, <1>3, <1>4, <1>5, AnswersHeld DEF requestVars
<1> QED BY <1>3, <1>4, <1>5, <1>7, <1>8, <1>9, <1>10 DEF IInv

LEMMA LoseSound ==
  ASSUME IInv, NEW b \in Blobs, Lose(b)
  PROVE  IInv' /\ FinishedIsFinalStep
<1>0. TypeOK /\ FileSound /\ WorkersHold /\ FoundIsOwn /\ AloneUntilOverrun /\ DurableAnswers
  BY DEF IInv
<1>1. UNCHANGED <<jobVars, failures, requestVars, overrun, crashes>>
      /\ missing' \subseteq Blobs /\ losses' \in Nat
  BY <1>0 DEF Lose, TypeOK
<1>2. FileSound' /\ FinishedIsFinalStep /\ KeepsHeld(mem, mem')
      /\ mem' \in [Blobs -> Jobs] /\ disk' \in [Blobs -> Jobs]
      /\ writeFailures' \in Nat /\ (writeFailures' = 0 => writeFailures = 0)
  BY <1>0, <1>1, StoreUntouched
<1>3. TypeOK'
  BY <1>0, <1>1, <1>2 DEF TypeOK, requestVars
<1>4. WorkersHold' /\ AloneUntilOverrun'
  BY <1>0, <1>1, <1>2, NoNewWorker DEF Working, requestVars
<1>5. FoundIsOwn'
  BY <1>0, <1>1 DEF FoundIsOwn, requestVars
<1>6. DurableAnswers'
  BY <1>0, <1>1, <1>2, <1>3, AnswersHeld DEF requestVars
<1> QED BY <1>2, <1>3, <1>4, <1>5, <1>6 DEF IInv

LEMMA CrashSound ==
  ASSUME IInv, Crash
  PROVE  IInv' /\ FinishedIsFinalStep
<1>0. TypeOK /\ FileSound /\ WorkersHold /\ FoundIsOwn /\ AloneUntilOverrun /\ DurableAnswers
  BY DEF IInv
<1>1. TypeOK'
  BY <1>0 DEF Crash, TypeOK, Places, worldVars
<1>2. FileSound' /\ FinishedIsFinalStep
  BY <1>0 DEF Crash, FileSound, KeepsDone, OwnResults, FinishedIsFinalStep
<1>3. WorkersHold' /\ FoundIsOwn' /\ AloneUntilOverrun'
  BY DEF Crash, WorkersHold, FoundIsOwn, AloneUntilOverrun, Working
<1>4. \A t \in Requests : answer'[t] \in Results => answer'[t] = answer[t]
  BY ResultAssumption DEF Crash
<1>5. DurableAnswers'
  BY <1>0, <1>1, <1>2, <1>4, AnswersHeld DEF Crash
<1> QED BY <1>1, <1>2, <1>3, <1>5 DEF IInv

LEMMA StepSound ==
  ASSUME IInv, [Next]_vars
  PROVE  IInv' /\ FinishedIsFinalStep
<1>1. CASE UNCHANGED vars
  BY <1>1 DEF vars, jobVars, worldVars, requestVars, IInv, TypeOK, FileSound, KeepsDone,
              OwnResults, WorkersHold, FoundIsOwn, AloneUntilOverrun, DurableAnswers,
              Working, FinishedIsFinalStep
<1>2. ASSUME NEW t \in Requests, Works(t) PROVE IInv' /\ FinishedIsFinalStep
  BY <1>2, ReadSound, WriteSound, ClaimSound, RebuildSound, EndSound DEF Works
<1>3. ASSUME NEW t \in Requests, GiveUp(t) PROVE IInv' /\ FinishedIsFinalStep
  BY <1>3, ReadSound
<1> QED BY <1>1, <1>2, <1>3, AskSound, ExpireSound, LoseSound, CrashSound DEF Next
-----------------------------------------------------------------------------
(***************************************************************************)
(* The theorems.                                                           *)
(***************************************************************************)

(* The inductive invariant holds in every reachable state.                 *)
THEOREM Invariance == Spec => []IInv
<1>1. Init => IInv
  BY InitSound
<1>2. IInv /\ [Next]_vars => IInv'
  BY StepSound
<1> QED BY <1>1, <1>2, PTL DEF Spec

(* Every variable has its type; no job is ever given up.                   *)
THEOREM TypeCorrect == Spec => []TypeOK
<1>1. IInv => TypeOK
  BY DEF IInv
<1> QED BY <1>1, Invariance, PTL

(* One worker per blob until a lease is outlived: claimRecovery,           *)
(* enqueueRecovery and failRecovery together.                              *)
THEOREM LeaseExcludes == Spec => []AloneUntilOverrun
<1>1. IInv => AloneUntilOverrun
  BY DEF IInv
<1> QED BY <1>1, Invariance, PTL

(* A result that was answered is in the file, while every write succeeds.  *)
THEOREM AnswersDurable == Spec => []DurableAnswers
<1>1. IInv => DurableAnswers
  BY DEF IInv
<1> QED BY <1>1, Invariance, PTL

(* A job completed in the file keeps its first result for ever.            *)
THEOREM FinishedStays == Spec => FinishedIsFinal
<1>1. IInv /\ [Next]_vars => [FinishedIsFinalStep]_vars
  BY StepSound
<1> QED BY <1>1, Invariance, PTL DEF Spec, FinishedIsFinal
=============================================================================
