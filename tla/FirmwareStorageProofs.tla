----------------------- MODULE FirmwareStorageProofs -----------------------
(***************************************************************************)
(* Proofs about FirmwareStorage, for any number of names, uploads, jobs    *)
(* and crashes.  Uploads and jobs write the same files, so the properties  *)
(* of both are proved together, from the two invariants that the module    *)
(* names after them.                                                       *)
(***************************************************************************)
EXTENDS FirmwareStorage, TLAPS

\* The fields of a request that is under way.
LEMMA UploadFields ==
    ASSUME TypeOK, NEW u \in Uploads, upload[u] # Idle
    PROVE  /\ upload[u].version \in Versions
           /\ upload[u].content \in Contents
           /\ upload[u].phase \in {"checked", "opened", "written"}
           /\ upload[u] = [phase |-> upload[u].phase, version |-> upload[u].version,
                           content |-> upload[u].content]
BY DEF TypeOK, Upload

\* Only a request that is under way is at one of the phases of a write.
LEMMA PhaseIsBusy ==
    ASSUME TypeOK, NEW u \in Uploads, upload[u].phase # "idle"
    PROVE  upload[u] # Idle
BY DEF Idle

\* What a request becomes when it goes to another phase.
LEMMA NextPhase ==
    ASSUME TypeOK, NEW u \in Uploads, upload[u] # Idle,
           NEW phase \in {"checked", "opened", "written"}
    PROVE  /\ [upload[u] EXCEPT !.phase = phase] =
                 [phase |-> phase, version |-> upload[u].version,
                  content |-> upload[u].content]
           /\ [upload[u] EXCEPT !.phase = phase] \in Upload
           /\ [upload[u] EXCEPT !.phase = phase] # Idle
<1>1. [upload[u] EXCEPT !.phase = phase] =
          [phase |-> phase, version |-> upload[u].version, content |-> upload[u].content]
  BY DEF TypeOK, Upload
<1>2. QED
  BY <1>1, UploadFields DEF Upload, Idle

-----------------------------------------------------------------------------

LEMMA TypeInit == Init => TypeOK
BY BoundAssumption DEF Init, TypeOK, Upload, NotContents, Task

\* A write leaves some content or another in the file, the right one if the
\* file was just truncated, and touches no other file.
LEMMA WriteEffect ==
    ASSUME TypeOK, NEW v \in Versions, NEW content \in Contents \cup Devices,
           Writes(v, content)
    PROVE  /\ file' \in [Versions -> Contents \cup Devices \cup NotContents]
           /\ file[v] = Empty => file'[v] = content
           /\ \A x \in Versions \ {v} : file'[x] = file[x]
BY DEF Writes, TypeOK, NotContents

LEMMA TypeStep == TypeOK /\ [Next]_vars => TypeOK'
<1> SUFFICES ASSUME TypeOK, [Next]_vars PROVE TypeOK'
  OBVIOUS
<1>1. ASSUME NEW u \in Uploads, CheckVersion(u) PROVE TypeOK'
  BY <1>1 DEF CheckVersion, TypeOK, Upload, jobs
<1>2. ASSUME NEW u \in Uploads, OpenFile(u) PROVE TypeOK'
  <2>1. upload[u] # Idle
    BY <1>2, PhaseIsBusy DEF OpenFile, At
  <2>2. upload' \in [Uploads -> Upload]
    BY <1>2, <2>1, NextPhase DEF OpenFile, TypeOK
  <2>3. QED
    BY <1>2, <2>1, <2>2, UploadFields DEF OpenFile, TypeOK, NotContents, jobs
<1>3. ASSUME NEW u \in Uploads, WriteFile(u) PROVE TypeOK'
  <2>1. upload[u] # Idle
    BY <1>3, PhaseIsBusy DEF WriteFile, At
  <2>2. upload' \in [Uploads -> Upload]
    BY <1>3, <2>1, NextPhase DEF WriteFile, TypeOK
  <2>3. QED
    BY <1>3, <2>1, <2>2, UploadFields, WriteEffect DEF WriteFile, TypeOK, jobs
<1>4. ASSUME NEW u \in Uploads, CommitRelease(u) PROVE TypeOK'
  <2>1. upload[u] # Idle
    BY <1>4, PhaseIsBusy DEF CommitRelease, At
  <2>2. QED
    BY <1>4, <2>1, UploadFields DEF CommitRelease, TypeOK, Upload, jobs
<1>5. ASSUME NEW d \in Devices, StartJob(d) \/ DeleteDevice(d) \/ Runs(d)
      PROVE  TypeOK'
  <2>0. d \in Versions
    BY NamesAssumption
  <2>1. CASE CopyDone(d)
    BY <2>0, <2>1, WriteEffect DEF CopyDone, Proceeds, TypeOK, JobStatus, InProgress, Task
  <2>2. CASE StartJob(d) \/ DeleteDevice(d)
    BY <2>0, <2>2 DEF StartJob, DeleteDevice, TypeOK, JobStatus, InProgress, Task, store
  <2>3. CASE RunJob(d) \/ Render(d) \/ Compile(d) \/ FailJob(d) \/ PublishImage(d)
    BY <2>0, <2>3 DEF RunJob, Render, Compile, FailJob, PublishImage, Proceeds, TypeOK,
         JobStatus, InProgress, Task, NotContents
  <2>4. QED
    BY <1>5, <2>1, <2>2, <2>3 DEF Runs
<1>6. CASE Crash
  BY <1>6, BoundAssumption DEF Crash, TypeOK, Upload, Task
<1>7. CASE UNCHANGED vars
  BY <1>7 DEF vars, store, jobs, TypeOK
<1>8. QED
  BY <1>1, <1>2, <1>3, <1>4, <1>5, <1>6, <1>7 DEF Next, Saves

\* Every variable keeps its type.
THEOREM TypeCorrect == Spec => []TypeOK
<1>1. QED
  BY TypeInit, TypeStep, PTL DEF Spec

-----------------------------------------------------------------------------
(* Files and what is said of them.                                         *)

StoreInv == UncontestedIsAlone /\ JobIsAlone /\ CatalogueMatchesFile /\ ReadyHasImage

LEMMA StoreInit == Init => StoreInv
BY ContentsAssumption
   DEF Init, StoreInv, UncontestedIsAlone, JobIsAlone, CatalogueMatchesFile, ReadyHasImage,
       Uploading

\* What the invariant says of a name that is not contested.
LEMMA Alone ==
    ASSUME StoreInv, NEW u \in Uploads, NEW v \in Versions \ contested, Uploading(u, v)
    PROVE  /\ release[v] = Missing /\ release[v] \notin Contents
           /\ v \in Devices => job[v] = "none" /\ task[v] = "none"
           /\ \A w \in Uploads : Uploading(w, v) => w = u
           /\ At(u, "opened") => file[v] = Empty
           /\ At(u, "written") => file[v] = upload[u].content
BY ContentsAssumption DEF StoreInv, UncontestedIsAlone, JobIsAlone, NotContents

LEMMA CheckStep ==
    ASSUME TypeOK, StoreInv, NEW u \in Uploads, CheckVersion(u)
    PROVE  StoreInv'
<1>1. PICK v \in Versions, c \in Contents :
        /\ release[v] = Missing
        /\ upload' = [upload EXCEPT ![u] =
               [phase |-> "checked", version |-> v, content |-> c]]
        /\ contested' = IF Shared(v) THEN contested \cup {v} ELSE contested
  BY DEF CheckVersion
<1>2. /\ upload[u] = Idle /\ UNCHANGED <<release, file, job, task>>
      /\ contested \subseteq contested'
      /\ upload'[u] = [phase |-> "checked", version |-> v, content |-> c]
      /\ \A w \in Uploads \ {u} : upload'[w] = upload[w]
  BY <1>1 DEF CheckVersion, TypeOK, jobs
<1>3. \A w \in Uploads \ {u}, x \in Versions : Uploading(w, x)' <=> Uploading(w, x)
  BY <1>2 DEF Uploading
<1>4. /\ \A x \in Versions : Uploading(u, x)' => x = v
      /\ At(u, "checked")' /\ ~At(u, "opened")' /\ ~At(u, "written")'
  BY <1>2 DEF Uploading, At
<1>5. v \notin contested' =>
          /\ \A w \in Uploads : ~Uploading(w, v)
          /\ v \in Devices => job[v] = "none"
  BY <1>1 DEF Shared
<1>6. UncontestedIsAlone'
  BY <1>1, <1>2, <1>3, <1>4, <1>5 DEF StoreInv, UncontestedIsAlone, At
<1>7. QED
  BY <1>2, <1>6 DEF StoreInv, JobIsAlone, CatalogueMatchesFile, ReadyHasImage

\* OpenFile and WriteFile change one file, the one of a name that is contested
\* or that nobody else uses.
LEMMA FileStep ==
    ASSUME TypeOK, StoreInv, NEW u \in Uploads, OpenFile(u) \/ WriteFile(u)
    PROVE  StoreInv'
<1>1. upload[u] # Idle
  BY PhaseIsBusy DEF OpenFile, WriteFile, At
<1> DEFINE v == upload[u].version
<1>2. /\ v \in Versions /\ Uploading(u, v) /\ upload[u].content \in Contents
      /\ UNCHANGED <<release, contested, job, task>>
  BY <1>1, UploadFields DEF OpenFile, WriteFile, Uploading, jobs
<1>3. \A x \in Versions \ {v} : file'[x] = file[x]
  BY <1>2, WriteEffect DEF OpenFile, WriteFile, TypeOK
<1>4. /\ upload'[u].version = v /\ upload'[u].content = upload[u].content
      /\ upload'[u] # Idle
      /\ \A w \in Uploads \ {u} : upload'[w] = upload[w]
  <2>1. PICK phase \in {"checked", "opened", "written"} :
          upload' = [upload EXCEPT ![u].phase = phase]
    BY DEF OpenFile, WriteFile
  <2>2. upload'[u] = [upload[u] EXCEPT !.phase = phase]
    BY <2>1 DEF TypeOK
  <2>3. \A w \in Uploads \ {u} : upload'[w] = upload[w]
    BY <2>1 DEF TypeOK
  <2>4. QED
    BY <1>1, <2>2, <2>3, NextPhase
<1>5. \A w \in Uploads, x \in Versions : Uploading(w, x)' <=> Uploading(w, x)
  BY <1>1, <1>4 DEF Uploading
<1>6. v \notin contested =>
        /\ At(u, "opened")' => file'[v] = Empty
        /\ At(u, "written")' => file'[v] = upload[u].content
  <2>1. CASE OpenFile(u)
    <3>1. upload'[u].phase = "opened"
      BY <1>1, <2>1, NextPhase DEF OpenFile, TypeOK
    <3>2. file'[v] = Empty
      BY <1>2, <2>1 DEF OpenFile, TypeOK
    <3>3. QED
      BY <3>1, <3>2 DEF At
  <2>2. CASE WriteFile(u)
    <3>1. v \notin contested => file[v] = Empty
      BY <1>2, <2>2, Alone DEF WriteFile
    <3>2. upload'[u].phase = "written"
      BY <1>1, <2>2, NextPhase DEF WriteFile, TypeOK
    <3>3. QED
      BY <1>2, <2>2, <3>1, <3>2, WriteEffect DEF WriteFile, At
  <2>3. QED
    BY <2>1, <2>2
<1>7. UncontestedIsAlone'
  <2> SUFFICES ASSUME NEW w \in Uploads, NEW x \in Versions \ contested, Uploading(w, x)
               PROVE  /\ release[x] = Missing
                      /\ x \in Devices => job[x] = "none"
                      /\ \A y \in Uploads : Uploading(y, x) => y = w
                      /\ At(w, "opened")' => file'[x] = Empty
                      /\ At(w, "written")' => file'[x] = upload'[w].content
    BY <1>2, <1>5 DEF UncontestedIsAlone
  <2>1. CASE w = u
    <3>1. x = v
      BY <2>1 DEF Uploading
    <3>2. QED
      BY <1>4, <1>6, <2>1, <3>1, Alone
  <2>2. CASE w # u
    <3>1. x # v /\ upload'[w] = upload[w] /\ file'[x] = file[x]
      BY <1>2, <1>3, <1>4, <2>2, Alone
    <3>2. QED
      BY <3>1, Alone DEF At
  <2>3. QED
    BY <2>1, <2>2
<1>8. v \notin contested => /\ release[v] \notin Contents
                            /\ v \in Devices => job[v] = "none" /\ task[v] = "none"
  BY <1>2, Alone
<1>9. JobIsAlone' /\ ReadyHasImage'
  BY <1>2, <1>3, <1>8, NamesAssumption DEF StoreInv, JobIsAlone, ReadyHasImage
<1>10. CatalogueMatchesFile'
  BY <1>2, <1>3, <1>8 DEF StoreInv, CatalogueMatchesFile
<1>11. QED
  BY <1>7, <1>9, <1>10 DEF StoreInv

LEMMA CommitStep ==
    ASSUME TypeOK, StoreInv, NEW u \in Uploads, CommitRelease(u)
    PROVE  StoreInv'
<1>1. upload[u] # Idle
  BY PhaseIsBusy DEF CommitRelease, At
<1> DEFINE v == upload[u].version
<1>2. /\ v \in Versions /\ Uploading(u, v) /\ At(u, "written")
      /\ UNCHANGED <<file, contested, job, task>>
      /\ release[v] = Missing => release'[v] = upload[u].content
      /\ \A x \in Versions \ {v} : release'[x] = release[x]
      /\ upload'[u] = Idle
      /\ \A w \in Uploads \ {u} : upload'[w] = upload[w]
  BY <1>1, UploadFields DEF CommitRelease, TypeOK, Uploading, jobs
<1>3. /\ \A w \in Uploads \ {u}, x \in Versions : Uploading(w, x)' <=> Uploading(w, x)
      /\ \A x \in Versions : ~Uploading(u, x)'
  BY <1>2 DEF Uploading
<1>4. v \notin contested =>
        /\ \A w \in Uploads \ {u} : ~Uploading(w, v)
        /\ v \in Devices => job[v] = "none" /\ task[v] = "none"
        /\ release[v] = Missing /\ file[v] = upload[u].content
  BY <1>2, Alone
<1>5. UncontestedIsAlone'
  BY <1>2, <1>3, <1>4 DEF StoreInv, UncontestedIsAlone, At
<1>6. JobIsAlone' /\ ReadyHasImage'
  BY <1>2, <1>4, NamesAssumption DEF StoreInv, JobIsAlone, ReadyHasImage
<1>7. CatalogueMatchesFile'
  BY <1>2, <1>4 DEF StoreInv, CatalogueMatchesFile
<1>8. QED
  BY <1>5, <1>6, <1>7 DEF StoreInv

LEMMA StartStep ==
    ASSUME TypeOK, StoreInv, NEW d \in Devices, StartJob(d)
    PROVE  StoreInv'
<1>1. /\ UNCHANGED <<release, file, upload>>
      /\ contested \subseteq contested'
      /\ d \notin contested' => /\ release[d] = Missing
                                /\ \A u \in Uploads : ~Uploading(u, d)
  BY DEF StartJob
<1>2. /\ job'[d] = "pending" /\ task'[d] = "queued"
      /\ \A e \in Devices \ {d} : job'[e] = job[e] /\ task'[e] = task[e]
  BY DEF StartJob, TypeOK
<1>3. \A u \in Uploads, v \in Versions : Uploading(u, v)' <=> Uploading(u, v)
  BY <1>1 DEF Uploading
<1>4. UncontestedIsAlone'
  BY <1>1, <1>2, <1>3 DEF StoreInv, UncontestedIsAlone, At
<1>5. JobIsAlone' /\ ReadyHasImage'
  BY <1>1, <1>2 DEF StoreInv, JobIsAlone, ReadyHasImage
<1>6. CatalogueMatchesFile'
  BY <1>1 DEF StoreInv, CatalogueMatchesFile
<1>7. QED
  BY <1>4, <1>5, <1>6 DEF StoreInv

\* A step of a job: it changes no file but its own, and that only while the
\* name is contested or nobody uploads it.
LEMMA RunsStep ==
    ASSUME TypeOK, StoreInv, NEW d \in Devices, Runs(d)
    PROVE  StoreInv'
<1>0. d \in Versions
  BY NamesAssumption
<1>1. /\ UNCHANGED <<release, upload, contested>>
      /\ \A e \in Devices \ {d} : job'[e] = job[e] /\ task'[e] = task[e]
      /\ task[d] # "none" /\ job'[d] # "none"
  BY DEF Runs, RunJob, Render, Compile, FailJob, CopyDone, PublishImage, Proceeds, TypeOK
<1>2. \A x \in Versions \ {d} : file'[x] = file[x]
  BY <1>0, WriteEffect
     DEF Runs, RunJob, Render, Compile, FailJob, CopyDone, PublishImage, Proceeds, TypeOK
<1>3. job[d] # "none" /\ job[d] # "ready"
  BY <1>1 DEF StoreInv, JobIsAlone
<1>4. \A u \in Uploads, v \in Versions : Uploading(u, v)' <=> Uploading(u, v)
  BY <1>1 DEF Uploading
<1>5. d \notin contested => /\ release[d] = Missing /\ release[d] \notin Contents
                            /\ \A u \in Uploads : ~Uploading(u, d)
  BY <1>0, <1>3, Alone, ContentsAssumption DEF StoreInv, JobIsAlone, NotContents
<1>6. UncontestedIsAlone'
  BY <1>1, <1>2, <1>3, <1>4, <1>5 DEF StoreInv, UncontestedIsAlone, At
<1>7. /\ job'[d] = "ready" => task'[d] = "none" /\ (d \notin contested => file'[d] = d)
      /\ d \notin contested => /\ task'[d] = "copy" => file'[d] = Empty
                               /\ task'[d] = "publish" => file'[d] = d
  <2>1. CASE RunJob(d) \/ Render(d) \/ FailJob(d)
    BY <2>1 DEF RunJob, Render, FailJob, Proceeds, TypeOK
  <2>2. CASE Compile(d)
    BY <1>0, <2>2 DEF Compile, Proceeds, TypeOK
  <2>3. CASE CopyDone(d)
    <3>1. /\ job'[d] = "compiling" /\ task'[d] = "publish" /\ task[d] = "copy"
      BY <2>3 DEF CopyDone, Proceeds, TypeOK
    <3>2. d \notin contested => file[d] = Empty
      BY <3>1 DEF StoreInv, JobIsAlone
    <3>3. d \notin contested => file'[d] = d
      BY <1>0, <2>3, <3>2, WriteEffect DEF CopyDone
    <3>4. QED
      BY <3>1, <3>3
  <2>4. CASE PublishImage(d)
    BY <2>4 DEF PublishImage, Proceeds, TypeOK, StoreInv, JobIsAlone
  <2>5. QED
    BY <2>1, <2>2, <2>3, <2>4 DEF Runs
<1>8. JobIsAlone' /\ ReadyHasImage'
  <2>1. \A e \in Devices \ {d} :
          job'[e] = job[e] /\ task'[e] = task[e] /\ file'[e] = file[e]
    BY <1>1, <1>2, NamesAssumption
  <2>2. ReadyHasImage'
    BY <1>1, <1>7, <2>1 DEF StoreInv, ReadyHasImage
  <2>3. \A e \in Devices \ {d} :
          /\ task'[e] # "none" => job'[e] # "none"
          /\ job'[e] = "ready" => task'[e] = "none"
          /\ e \notin contested' =>
               /\ job'[e] # "none" => release'[e] = Missing
               /\ task'[e] = "copy" => file'[e] = Empty
               /\ task'[e] = "publish" => file'[e] = e
    BY <1>1, <2>1 DEF StoreInv, JobIsAlone
  <2>4. /\ task'[d] # "none" => job'[d] # "none"
        /\ job'[d] = "ready" => task'[d] = "none"
        /\ d \notin contested' =>
             /\ job'[d] # "none" => release'[d] = Missing
             /\ task'[d] = "copy" => file'[d] = Empty
             /\ task'[d] = "publish" => file'[d] = d
    BY <1>1, <1>5, <1>7
  <2>5. JobIsAlone'
    BY <2>3, <2>4 DEF JobIsAlone
  <2>6. QED
    BY <2>2, <2>5
<1>9. CatalogueMatchesFile'
  BY <1>1, <1>2, <1>5 DEF StoreInv, CatalogueMatchesFile
<1>10. QED
  BY <1>6, <1>8, <1>9 DEF StoreInv

LEMMA StoreStep == TypeOK /\ StoreInv /\ [Next]_vars => StoreInv'
<1> SUFFICES ASSUME TypeOK, StoreInv, [Next]_vars PROVE StoreInv'
  OBVIOUS
<1>1. CASE Crash
  <2>1. /\ UNCHANGED <<release, file, contested, job>>
        /\ \A d \in Devices : task'[d] = "none"
        /\ \A u \in Uploads, v \in Versions : ~Uploading(u, v)'
    BY <1>1 DEF Crash, Uploading
  <2>2. QED
    BY <2>1 DEF StoreInv, UncontestedIsAlone, JobIsAlone, CatalogueMatchesFile, ReadyHasImage
<1>2. CASE UNCHANGED <<store, job, task>>
  BY <1>2 DEF store, StoreInv, UncontestedIsAlone, JobIsAlone, CatalogueMatchesFile,
       ReadyHasImage, Uploading, At
<1>3. ASSUME NEW d \in Devices, DeleteDevice(d) PROVE UNCHANGED <<store, job, task>>
  BY <1>3 DEF DeleteDevice
<1>4. QED
  BY <1>1, <1>2, <1>3, CheckStep, FileStep, CommitStep, StartStep, RunsStep
     DEF Next, Saves, vars, jobs

\* The file of every version with one writer is the one whose checksum
\* upload_firmware stored, whatever crashes left half written before and
\* whatever other releases and jobs write meanwhile.
THEOREM CatalogueIsRight == Spec => []CatalogueMatchesFile
<1>1. QED
  BY TypeInit, TypeStep, StoreInit, StoreStep, PTL DEF Spec, StoreInv

\* A job that is ready (ProvisioningService._run) has its whole image on disk,
\* through failures, crashes, uploads under other names and the deletion of its
\* device.
THEOREM ReadyIsComplete == Spec => []ReadyHasImage
<1>1. QED
  BY TypeInit, TypeStep, StoreInit, StoreStep, PTL DEF Spec, StoreInv

=============================================================================
