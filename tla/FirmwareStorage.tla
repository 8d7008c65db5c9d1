-------------------------- MODULE FirmwareStorage --------------------------
(***************************************************************************)
(* What is kept under FIRMWARE_STORAGE_PATH and the two tables that speak  *)
(* of it: uploaded releases (api/firmware.py, services/firmware.py), which *)
(* boards download from /firmware/<version>/firmware.bin, and the images   *)
(* compiled for new boards (services/provisioning.py), which the installer *)
(* downloads from /devices/<device_id>/firmware.bin.                       *)
(*                                                                         *)
(* Both kinds are the file <name>/firmware.bin, where a name is a version, *)
(* which may be any text, or a device id.  A file and a row are written by *)
(* separate steps with no lock around them, and the process can die        *)
(* between any two.                                                        *)
(***************************************************************************)
EXTENDS Naturals

CONSTANTS
    Versions,     \* names of releases: any text, so device ids too
    Seeded,       \* the releases seed.py lists without a file: 1.0.0
    Contents,     \* binaries somebody uploads
    Uploads,      \* upload requests being served at one time
    Devices,      \* device ids start_job generates; one job each
    MaxCrashes,   \* bound: deaths of the process
    Missing,      \* no file, no row
    Placeholder,  \* stands for the content of which seed.py's checksum would be
    Empty,        \* a file that was truncated and is not yet written
    Damaged       \* bytes of two writers

NotContents == {Missing, Empty, Damaged}
ASSUME ContentsAssumption == Contents \cap (NotContents \cup {Placeholder}) = {}
ASSUME FilesAssumption ==
    /\ Missing # Empty /\ Missing # Damaged /\ Empty # Damaged
    /\ Missing # Placeholder
ASSUME NamesAssumption == Devices \subseteq Versions /\ Seeded \subseteq Versions
ASSUME BoundAssumption == MaxCrashes \in Nat

VARIABLES
    release,     \* firmware_versions: the content whose checksum is stored
    file,        \* <version or device id>/firmware.bin
    upload,      \* upload_firmware requests
    contested,   \* history: names with two writers (see Shared)
    job,         \* provision_jobs.status, per device id
    task,        \* the background task of each job
    row,         \* device ids that have a row in devices
    crashes

store == <<release, file, upload, contested>>
jobs == <<job, task, row>>
vars == <<store, jobs, crashes>>

Idle == [phase |-> "idle"]
Upload == {Idle} \cup [phase : {"checked", "opened", "written"},
                       version : Versions, content : Contents]
InProgress == {"pending", "rendering", "compiling"}
JobStatus == InProgress \cup {"ready", "failed"}
Task == {"none", "queued", "render", "compile", "copy", "publish"}

-----------------------------------------------------------------------------
(* upload_firmware and FirmwareService.upload.                             *)

Uploading(u, v) == upload[u] # Idle /\ upload[u].version = v
At(u, phase) == upload[u].phase = phase

\* Another upload of v is under way, or v is the id of a device with a job.
Shared(v) ==
    \/ \E w \in Uploads : Uploading(w, v)
    \/ v \in Devices /\ job[v] # "none"

\* A handle writes from offset zero: over what another writer left since the
\* file was truncated, the tail of a longer content stays.
Writes(v, content) ==
    \E bytes \in {content, Damaged} :
        /\ file[v] = Empty => bytes = content
        /\ file' = [file EXCEPT ![v] = bytes]

\* Mutant of CheckVersion: the SELECT is left out.
CheckNothing(u) ==
    /\ upload[u] = Idle
    /\ \E v \in Versions, c \in Contents :
         /\ upload' = [upload EXCEPT ![u] =
                [phase |-> "checked", version |-> v, content |-> c]]
         /\ contested' = IF Shared(v) THEN contested \cup {v} ELSE contested
    /\ UNCHANGED <<release, file, jobs, crashes>>

\* No such version yet, and the file is not empty.
CheckVersion(u) ==
    /\ upload[u] = Idle
    /\ \E v \in Versions, c \in Contents :
         /\ release[v] = Missing
         /\ upload' = [upload EXCEPT ![u] =
                [phase |-> "checked", version |-> v, content |-> c]]
         /\ contested' = IF Shared(v) THEN contested \cup {v} ELSE contested
    /\ UNCHANGED <<release, file, jobs, crashes>>

\* aiofiles.open(..., "wb") truncates what is there.
OpenFile(u) ==
    /\ At(u, "checked")
    /\ file' = [file EXCEPT ![upload[u].version] = Empty]
    /\ upload' = [upload EXCEPT ![u].phase = "opened"]
    /\ UNCHANGED <<release, contested, jobs, crashes>>

WriteFile(u) ==
    /\ At(u, "opened")
    /\ Writes(upload[u].version, upload[u].content)
    /\ upload' = [upload EXCEPT ![u].phase = "written"]
    /\ UNCHANGED <<release, contested, jobs, crashes>>

\* The INSERT: uq_firmware_versions_version makes the second one a 409.  The
\* audit entry follows.
CommitRelease(u) ==
    /\ At(u, "written")
    /\ release' = [release EXCEPT ![upload[u].version] =
                      IF @ = Missing THEN upload[u].content ELSE @]
    /\ upload' = [upload EXCEPT ![u] = Idle]
    /\ UNCHANGED <<file, contested, jobs, crashes>>

-----------------------------------------------------------------------------
(* ProvisioningService: start_job by the request, _run in the background.  *)

StartJob(d) ==
    /\ job[d] = "none"
    /\ job' = [job EXCEPT ![d] = "pending"]
    /\ row' = row \cup {d}
    /\ task' = [task EXCEPT ![d] = "queued"]
    /\ contested' = IF release[d] # Missing \/ \E u \in Uploads : Uploading(u, d)
                      THEN contested \cup {d} ELSE contested
    /\ UNCHANGED <<release, file, upload, crashes>>

\* api/devices.py; provision_jobs.device_id is no foreign key.
DeleteDevice(d) ==
    /\ d \in row
    /\ row' = row \ {d}
    /\ UNCHANGED <<store, job, task, crashes>>

\* The task goes from one await to the next, having set the status.
Proceeds(d, from, to, status) ==
    /\ task[d] = from
    /\ task' = [task EXCEPT ![d] = to]
    /\ job' = [job EXCEPT ![d] = status]
    /\ UNCHANGED <<release, upload, contested, row, crashes>>

RunJob(d) ==
    /\ IF d \in row THEN Proceeds(d, "queued", "render", "rendering")
                    ELSE Proceeds(d, "queued", "none", "failed")
    /\ UNCHANGED file

Render(d) ==
    /\ Proceeds(d, "render", "compile", "compiling")
    /\ UNCHANGED file

\* Mutant of FailJob: the exception ends the task and is only logged.
FailJobSilently(d) ==
    /\ task[d] \in {"render", "compile", "copy"}
    /\ Proceeds(d, task[d], "none", job[d])
    /\ UNCHANGED file

\* Mutant of FailJob: a status the column's comment does not know.
FailJobAsError(d) ==
    /\ task[d] \in {"render", "compile", "copy"}
    /\ Proceeds(d, task[d], "none", "error")
    /\ UNCHANGED file

\* No template, a compile error, no firmware.bin, a full disk: whatever is
\* raised ends in _fail.
FailJob(d) ==
    /\ task[d] \in {"render", "compile", "copy"}
    /\ Proceeds(d, task[d], "none", "failed")
    /\ UNCHANGED file

\* Mutant of Compile: the job is ready before the binary is copied.
CompileReady(d) ==
    /\ Proceeds(d, "compile", "copy", "ready")
    /\ file' = [file EXCEPT ![d] = Empty]

\* docker run ... compile succeeded; shutil.copy2 truncates the
\* target.
Compile(d) ==
    /\ Proceeds(d, "compile", "copy", "compiling")
    /\ file' = [file EXCEPT ![d] = Empty]

\* The image of d is called d.
CopyDone(d) ==
    /\ Proceeds(d, "copy", "publish", "compiling")
    /\ Writes(d, d)

PublishImage(d) ==
    /\ Proceeds(d, "publish", "none", "ready")
    /\ UNCHANGED file

-----------------------------------------------------------------------------

\* The process dies.  Requests and background tasks are gone and nothing
\* takes them up again when it is started anew (lifespan).
Crash ==
    /\ crashes < MaxCrashes
    /\ crashes' = crashes + 1
    /\ upload' = [u \in Uploads |-> Idle]
    /\ task' = [d \in Devices |-> "none"]
    /\ UNCHANGED <<release, file, contested, job, row>>

\* After seed.py: its release is listed, with a checksum of nothing.
Init ==
    /\ release = [v \in Versions |-> IF v \in Seeded THEN Placeholder ELSE Missing]
    /\ file = [v \in Versions |-> Missing]
    /\ upload = [u \in Uploads |-> Idle]
    /\ contested = {}
    /\ job = [d \in Devices |-> "none"]
    /\ task = [d \in Devices |-> "none"]
    /\ row = {}
    /\ crashes = 0

Saves(u) == OpenFile(u) \/ WriteFile(u) \/ CommitRelease(u)
Runs(d) ==
    RunJob(d) \/ Render(d) \/ Compile(d) \/ FailJob(d) \/ CopyDone(d) \/ PublishImage(d)

Next ==
    \/ \E u \in Uploads : CheckVersion(u) \/ Saves(u)
    \/ \E d \in Devices : StartJob(d) \/ DeleteDevice(d) \/ Runs(d)
    \/ Crash

\* The event loop goes on with every task, and every compiler run ends.
Fairness ==
    /\ \A u \in Uploads : WF_vars(Saves(u))
    /\ \A d \in Devices : WF_vars(Runs(d))

Spec == Init /\ [][Next]_vars
FairSpec == Spec /\ Fairness

-----------------------------------------------------------------------------

TypeOK ==
    /\ release \in [Versions -> Contents \cup {Missing, Placeholder}]
    /\ file \in [Versions -> Contents \cup Devices \cup NotContents]
    /\ upload \in [Uploads -> Upload]
    /\ contested \subseteq Versions
    /\ job \in [Devices -> JobStatus \cup {"none"}]
    /\ task \in [Devices -> Task]
    /\ row \subseteq Devices
    /\ crashes \in 0 .. MaxCrashes

\* The file a board downloads is the one whose checksum upload_firmware
\* stored, whatever died half way in earlier attempts to upload that version,
\* whatever is compiled and uploaded next to it.  Two kinds of release are
\* excepted: a name with two writers, as both pass the check of upload_firmware
\* (or never look, when one is a job) and write one file, and only the row is
\* protected; and the release seed.py lists, of which there is no file.
CatalogueMatchesFile ==
    \A v \in Versions \ contested : release[v] \in Contents => file[v] = release[v]

\* A job that is ready has its whole image on disk (ProvisioningService._run),
\* also when an earlier process died in the middle of the copy, the device
\* row was deleted meanwhile or releases are uploaded, unless a release has the
\* device id for its version.
ReadyHasImage == \A d \in Devices \ contested : job[d] = "ready" => file[d] = d

\* What makes the two inductive: an upload nobody else interferes with is alone
\* on its file, before the row is there,
UncontestedIsAlone ==
    \A u \in Uploads, v \in Versions \ contested :
        Uploading(u, v) =>
            /\ release[v] = Missing
            /\ v \in Devices => job[v] = "none"
            /\ \A w \in Uploads : Uploading(w, v) => w = u
            /\ At(u, "opened") => file[v] = Empty
            /\ At(u, "written") => file[v] = upload[u].content

\* ... and so is a job.
JobIsAlone ==
    \A d \in Devices :
        /\ task[d] # "none" => job[d] # "none"
        /\ job[d] = "ready" => task[d] = "none"
        /\ d \notin contested =>
             /\ job[d] # "none" => release[d] = Missing
             /\ task[d] = "copy" => file[d] = Empty
             /\ task[d] = "publish" => file[d] = d

\* Every job this process runs comes to ready or failed, whatever raises on
\* the way, unless the process dies: nothing resumes or fails the jobs of an
\* earlier process.
JobSettles ==
    \A d \in Devices, n \in 0 .. MaxCrashes :
        task[d] # "none" /\ crashes = n
            ~> job[d] \in {"ready", "failed"} \/ crashes > n

=============================================================================
