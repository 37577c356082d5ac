------------------------------ MODULE Upgrade ------------------------------
(***************************************************************************)
(* `nft-okboy upgrade` and `nft-okboy backup`: the database snapshot with  *)
(* its retention, the staged binary, the copy kept as <exe>.bak, the swap, *)
(* the probe, the restart, the health check and the way back.              *)
(*                                                                         *)
(* Files have POSIX semantics: a rename takes a file, and those writing to *)
(* it, to its new name; a write to a file that was replaced or removed     *)
(* reaches no name.  A run is one process and may be killed between any    *)
(* two steps.                                                              *)
(***************************************************************************)
EXTENDS Naturals, Integers, FiniteSets

CONSTANTS
    Runs,         \* invocations of the program that may be in progress at once
    Keep,         \* backup_keep
    MaxRelease,   \* bound: releases ever published
    MaxSnapshots  \* bound: snapshots begun

ASSUME UpgradeAssumption == /\ Keep \in Nat
                            /\ MaxRelease \in Nat \ {0}
                            /\ MaxSnapshots \in Nat

VARIABLES
    quality,  \* what each release is like on this host
    latest,   \* the newest published release
    file,     \* the content behind each name, 0 for no file
    svc,      \* the release the service runs, 0 while it is down or crash-looping
    run,      \* the processes
    snap,     \* snapshots by timestamp
    stamps,   \* timestamps used, in order: the host's clock is not set back
    saved,    \* history: a backup has been reported written
    unchecked, \* history: the installed binary's health check was cut short or skipped
    unrestored \* history: the rename that takes back a failed binary failed itself

releases == <<quality, latest>>
snapshots == <<snap, stamps, saved>>
verdicts == <<unchecked, unrestored>>
vars == <<releases, file, svc, run, snapshots, verdicts>>

-----------------------------------------------------------------------------
Release == 1..MaxRelease
Names == {"exe", "bak", "tmp"}

\* Bytes that are no release: a write not finished, a download that is not
\* what GitHub published.
Junk == -1

NoRun == [pc |-> "idle", want |-> 0, from |-> 0, buf |-> 0, open |-> "none", stamp |-> 0]

\* Steps between the swap and the verdict on the new binary, and those at which
\* the deferred removal of the staged file is pending.
Deciding == {"probe", "restart", "health"}
Staged == {"copy", "copying", "swap", "revive"} \cup Deciding

At(u, pc) == run[u].pc = pc
Go(u, pc) == run' = [run EXCEPT ![u].pc = pc]
Return(u) == run' = [run EXCEPT ![u] = NoRun]

\* execve: a whole binary that no process has open for writing.
Executable == file["exe"] \in Release /\ \A u \in Runs : run[u].open # "exe"
Runnable == Executable /\ quality[file["exe"]] # "broken"
Serves == IF Executable /\ quality[file["exe"]] = "good" THEN file["exe"] ELSE 0

\* os.Rename, and os.Remove as a rename to "gone": the file a is b from now on,
\* for those who have it open too, and the former b has no name.
Disk == [file |-> file, run |-> run]
Rename(d, a, b) ==
    [file |-> [n \in Names |-> IF n = b THEN d.file[a] ELSE IF n = a THEN 0 ELSE d.file[n]],
     run  |-> [u \in Runs |-> [d.run[u] EXCEPT !.open = IF @ = a THEN b
                                                        ELSE IF @ = b THEN "gone" ELSE @]]]
Become(d) == file' = d.file /\ run' = d.run

\* The process returns: the deferred os.Remove takes whatever is at tmp.
Stop(u, d) ==
    LET e == IF run[u].pc \in Staged THEN Rename(d, "tmp", "gone") ELSE d
    IN  Become([e EXCEPT !.run[u] = NoRun])

\* os.WriteFile opens or creates the file and truncates it, ...
OpenFile(u, n, buf, pc) ==
    /\ file' = [file EXCEPT ![n] = Junk]
    /\ run' = [run EXCEPT ![u].open = n, ![u].buf = buf, ![u].pc = pc]

\* ... and writes what it holds.
WriteOpen(u, pc) ==
    /\ file' = [n \in Names |-> IF n = run[u].open THEN run[u].buf ELSE file[n]]
    /\ run' = [run EXCEPT ![u].open = "none", ![u].buf = 0, ![u].pc = pc]

-----------------------------------------------------------------------------
(* CmdBackup *)

\* `backup`, or the backup that `upgrade` takes first: the file is created
\* empty before it is filled.
CreateSnapshot(u) ==
    /\ At(u, "backup")
    /\ stamps < MaxSnapshots
    /\ stamps' = stamps + 1
    /\ snap' = [snap EXCEPT ![stamps'] = "empty"]
    /\ run' = [run EXCEPT ![u].pc = "vacuum", ![u].stamp = stamps']
    /\ UNCHANGED <<releases, file, svc, saved, verdicts>>

\* The upgrade goes on whether or not its backup succeeded.
AfterBackup(u) == IF run[u].want = 0 THEN Return(u)
                  ELSE run' = [run EXCEPT ![u].pc = "download", ![u].stamp = 0]

VacuumInto(u) ==
    /\ At(u, "vacuum")
    /\ snap' = [snap EXCEPT ![run[u].stamp] = "full"]
    /\ saved' = TRUE
    /\ Go(u, "prune")
    /\ UNCHANGED <<releases, file, svc, stamps, verdicts>>

\* Variant: retention is enforced after a failed snapshot too.
BackupFailsPrunes(u) ==
    /\ At(u, "backup") \/ At(u, "vacuum")
    /\ Go(u, "prune")
    /\ UNCHANGED <<releases, file, svc, snapshots, verdicts>>

\* The directory, the file or the snapshot cannot be written, or the snapshot not
\* read back for its checksum; what is there stays.
BackupFails(u) ==
    /\ \/ At(u, "backup") /\ UNCHANGED snap
       \/ At(u, "vacuum") /\ snap' \in {snap, [snap EXCEPT ![run[u].stamp] = "full"]}
    /\ AfterBackup(u)
    /\ UNCHANGED <<releases, file, svc, stamps, saved, verdicts>>

Snapshots == {s \in DOMAIN snap : snap[s] # "none"}

pruneBackups(u) ==
    /\ At(u, "prune")
    /\ snap' = [s \in DOMAIN snap |->
                  IF Keep > 0 /\ Cardinality({t \in Snapshots : t >= s}) > Keep
                  THEN "none" ELSE snap[s]]
    /\ AfterBackup(u)
    /\ UNCHANGED <<releases, file, svc, stamps, saved, verdicts>>

-----------------------------------------------------------------------------
(* CmdUpgrade *)

BeginBackup(u) ==
    /\ run[u] = NoRun
    /\ Runnable
    /\ stamps < MaxSnapshots
    /\ Go(u, "backup")
    /\ UNCHANGED <<releases, file, svc, snapshots, verdicts>>

\* The target is resolved and its checksum known: the latest release, if it is
\* not the program's own version, or any published one pinned by --version.
BeginUpgrade(u, want, backup) ==
    /\ run[u] = NoRun
    /\ Runnable
    /\ want \in 1..latest
    /\ backup => stamps < MaxSnapshots
    /\ run' = [run EXCEPT ![u].want = want, ![u].from = file["exe"],
                          ![u].pc = IF backup THEN "backup" ELSE "download"]
    /\ UNCHANGED <<releases, file, svc, snapshots, verdicts>>

checkDigest(u, bytes) == bytes = run[u].want

\* ghDownload, from GitHub or a mirror that may serve anything; checkDigest.
Download(u, bytes) ==
    /\ At(u, "download")
    /\ checkDigest(u, bytes)
    /\ run' = [run EXCEPT ![u].buf = bytes, ![u].pc = "stage"]
    /\ UNCHANGED <<releases, file, svc, snapshots, verdicts>>

DownloadFails(u) ==
    /\ At(u, "download")
    /\ Stop(u, Disk)
    /\ UNCHANGED <<releases, svc, snapshots, verdicts>>

Stage(u) ==
    /\ At(u, "stage")
    /\ OpenFile(u, "tmp", run[u].buf, "staging")
    /\ UNCHANGED <<releases, svc, snapshots, verdicts>>

StageWritten(u) ==
    /\ At(u, "staging")
    /\ WriteOpen(u, "copy")
    /\ UNCHANGED <<releases, svc, snapshots, verdicts>>

\* Variant: the binary is moved aside instead of copied.
CopyToBakMoves(u) ==
    /\ At(u, "copy")
    /\ Become([Rename(Disk, "exe", "bak") EXCEPT !.run[u].pc = "swap"])
    /\ UNCHANGED <<releases, svc, snapshots, verdicts>>

\* Variant: a copy that is there already is kept.
CopyToBakOnce(u) ==
    /\ At(u, "copy")
    /\ \/ file["bak"] = 0 /\ OpenFile(u, "bak", file["exe"], "copying")
       \/ file["bak"] # 0 /\ Go(u, "swap") /\ UNCHANGED file
    /\ UNCHANGED <<releases, svc, snapshots, verdicts>>

\* copyFile reads all of exe, then writes bak.
CopyToBak(u) ==
    /\ At(u, "copy")
    /\ OpenFile(u, "bak", file["exe"], "copying")
    /\ UNCHANGED <<releases, svc, snapshots, verdicts>>

BakWritten(u) ==
    /\ At(u, "copying")
    /\ WriteOpen(u, "swap")
    /\ UNCHANGED <<releases, svc, snapshots, verdicts>>

\* A write fails, the staged file is gone or cannot be renamed.
StepFails(u) ==
    /\ run[u].pc \in {"stage", "staging", "copy", "copying", "swap"}
    /\ Stop(u, Disk)
    /\ UNCHANGED <<releases, svc, snapshots, verdicts>>

Swap(u) ==
    /\ At(u, "swap")
    /\ file["tmp"] # 0
    /\ Become([Rename(Disk, "tmp", "exe") EXCEPT !.run[u].pc = "probe"])
    /\ UNCHANGED <<releases, svc, snapshots, verdicts>>

\* `exe --version` runs.
Probe(u) ==
    /\ At(u, "probe")
    /\ Runnable
    /\ Go(u, "restart")
    /\ UNCHANGED <<releases, file, svc, snapshots, verdicts>>

\* Variant: the way back is forgotten.
RestoredNot == Disk

\* os.Rename(bak, exe)
Restored == Rename(Disk, "bak", "exe")

\* The files are d after the attempt to take the binary back.  The rename may
\* fail, whatever the cause, and its error is ignored.
TakenBack(d) ==
    \/ file["bak"] # 0 /\ d = Restored /\ UNCHANGED unrestored
    \/ d = Disk /\ unrestored' = TRUE

\* It may fail for reasons other than the binary: no memory, no process.
ProbeFails(u) ==
    /\ At(u, "probe")
    /\ \E d \in {Restored, Disk} : TakenBack(d) /\ Stop(u, d)
    /\ UNCHANGED <<releases, svc, snapshots, unchecked>>

restartService(u) ==
    /\ At(u, "restart")
    /\ svc' = Serves
    /\ Go(u, "health")
    /\ UNCHANGED <<releases, file, snapshots, verdicts>>

\* --no-restart, or systemctl fails: the new binary stays, unverified.
NoRestart(u) ==
    /\ At(u, "restart")
    /\ Stop(u, Disk)
    /\ unchecked' = TRUE
    /\ UNCHANGED <<releases, svc, snapshots, unrestored>>

\* Variant: the first "active" reading counts.
serviceHealthyAtOnce == TRUE

\* No automatic restart during the settling time, and active at its end.
serviceHealthy == svc # 0

Healthy(u) ==
    /\ At(u, "health")
    /\ serviceHealthy
    /\ Stop(u, Disk)
    /\ unchecked' = FALSE /\ unrestored' = FALSE
    /\ UNCHANGED <<releases, svc, snapshots>>

\* The check may fail for other reasons too: the service was restarted in the
\* meantime, or systemctl did not answer.
RollBack(u) ==
    /\ At(u, "health")
    /\ \E d \in {Restored, Disk} : TakenBack(d) /\ Become([d EXCEPT !.run[u].pc = "revive"])
    /\ UNCHANGED <<releases, svc, snapshots, unchecked>>

\* The last restart, whose failure is ignored.
Revive(u) ==
    /\ At(u, "revive")
    /\ svc' \in {Serves, svc}
    /\ Stop(u, Disk)
    /\ UNCHANGED <<releases, snapshots, verdicts>>

-----------------------------------------------------------------------------
(* Surroundings *)

\* The process is killed; nothing deferred runs.
Crash(u) ==
    /\ run[u] # NoRun
    /\ Return(u)
    /\ unchecked' = (unchecked \/ run[u].pc \in Deciding)
    /\ UNCHANGED <<releases, file, svc, snapshots, unrestored>>

\* The service ends, or the host boots, and systemd starts what is installed
\* (Restart=on-failure); a crash loop is this step again and again.
Respawn ==
    /\ svc' = Serves
    /\ UNCHANGED <<releases, file, run, snapshots, verdicts>>

Publish ==
    /\ latest < MaxRelease
    /\ latest' = latest + 1
    /\ UNCHANGED <<quality, file, svc, run, snapshots, verdicts>>

\* The first release is installed and works.
Init ==
    /\ quality \in {q \in [Release -> {"good", "crashes", "broken"}] : q[1] = "good"}
    /\ latest = 1
    /\ file = [n \in Names |-> IF n = "exe" THEN 1 ELSE 0]
    /\ svc = 1
    /\ run = [u \in Runs |-> NoRun]
    /\ snap = [s \in 1..MaxSnapshots |-> "none"]
    /\ stamps = 0 /\ saved = FALSE /\ unchecked = FALSE /\ unrestored = FALSE

Invoke(u) ==
    \/ BeginBackup(u)
    \/ \E want \in Release, backup \in BOOLEAN : BeginUpgrade(u, want, backup)

Step(u) ==
    \/ CreateSnapshot(u) \/ VacuumInto(u) \/ BackupFails(u) \/ pruneBackups(u)
    \/ \E bytes \in Release \cup {Junk} : Download(u, bytes)
    \/ DownloadFails(u) \/ Stage(u) \/ StageWritten(u) \/ CopyToBak(u) \/ BakWritten(u)
    \/ StepFails(u) \/ Swap(u) \/ Probe(u) \/ ProbeFails(u)
    \/ restartService(u) \/ NoRestart(u) \/ Healthy(u) \/ RollBack(u) \/ Revive(u)

Next ==
    \/ \E u \in Runs : Invoke(u) \/ Step(u) \/ Crash(u)
    \/ Respawn \/ Publish

Spec == Init /\ [][Next]_vars

\* A run waits for `exe --version` as long as it takes, and every other wait of
\* it ends: downloads and the database have timeouts, and systemd answers.
\* systemd starts a failed service again every RestartSec=5 seconds, so it tries
\* while a good binary is in place however often upgrades come.
FairSpec ==
    /\ Spec
    /\ \A u \in Runs : WF_vars(Step(u) /\ ~At(u, "probe"))
    /\ SF_vars(Respawn /\ Serves # 0)

-----------------------------------------------------------------------------
(* Properties *)

\* "atomically swap the running binary": whatever is interrupted, the installed
\* file is there and is, whole, a release GitHub published.
ExeIsRelease == file["exe"] \in 1..latest

\* "health-check the new binary and roll back on failure": unless a check was
\* skipped or its process killed, or the rename back failed, a host outside an
\* upgrade's last steps has a binary installed that brings the service up.
InstalledWorks ==
    ~unchecked /\ ~unrestored /\ (\A u \in Runs : run[u].pc \notin Deciding)
        => quality[file["exe"]] = "good"

\* pruneBackups "keep[s] the newest": file of failed snapshots count too, and
\* still, once a backup was reported written there is always one that is good.
SnapshotKept == saved => \E s \in Snapshots : snap[s] = "full"

\* The binary a run goes back to is the one it was started from; if the rename
\* fails, which the code does not notice, that one is still whole as .bak.
RollbackRestores ==
    [][\A u \in Runs : RollBack(u) \/ ProbeFails(u) =>
          \/ file'["exe"] = run[u].from
          \/ unrestored' /\ file'["exe"] = file["exe"] /\ file'["bak"] = run[u].from]_vars

\* An upgrade to a release that crashes on start takes the service down only for
\* a while, even if the last restart fails, unless its process is killed, its
\* rename back fails or its probe never returns.
OutageEnds ==
    svc = 0 ~> \/ svc # 0 \/ unchecked \/ unrestored
               \/ \E u \in Runs : []At(u, "probe")
=============================================================================
