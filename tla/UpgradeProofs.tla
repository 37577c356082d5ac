--------------------------- MODULE UpgradeProofs ---------------------------
(***************************************************************************)
(* On a host that runs one upgrade at a time: whatever fails or is killed, *)
(* the installed binary is a whole release, a rolled back run has put its  *)
(* own predecessor back or kept it whole as <exe>.bak, and a binary whose  *)
(* check ran to its end, and whose way back was not barred, works.         *)
(***************************************************************************)
EXTENDS Upgrade, FiniteSetTheorems, TLAPS

OneRun == \A u, v \in Runs : u = v

Pcs == {"idle", "backup", "vacuum", "prune", "download", "stage", "staging"} \cup Staged

RunType == [pc : Pcs, want : Release \cup {0}, from : Release \cup {0},
            buf : Release \cup {Junk, 0}, open : Names \cup {"none", "gone"},
            stamp : 0..MaxSnapshots]

Types ==
    /\ quality \in [Release -> {"good", "crashes", "broken"}]
    /\ latest \in Release
    /\ file \in [Names -> Release \cup {Junk, 0}]
    /\ run \in [Runs -> RunType]
    /\ svc \in Release \cup {0}
    /\ stamps \in 0..MaxSnapshots
    /\ unchecked \in BOOLEAN /\ unrestored \in BOOLEAN

\* Nothing excuses the installed binary.
Trusted == ~unchecked /\ ~unrestored

Good(r) == r \in Release /\ quality[r] = "good"

\* What run u has made sure of at its present step.
Progress(u) ==
    /\ At(u, "idle") => run[u] = NoRun
    /\ run[u].want \in 0..latest
    /\ run[u].pc \in {"download", "stage", "staging"} \cup Staged => run[u].want \in 1..latest
    /\ run[u].pc \in {"stage", "staging"} => run[u].buf = run[u].want
    /\ run[u].pc \in {"copy", "copying", "swap"} => file["tmp"] = run[u].want
    /\ At(u, "staging") => run[u].open = "tmp"
    /\ At(u, "copying") => run[u].open = "bak" /\ run[u].buf = run[u].from
    /\ run[u].open # "none" => run[u].pc \in {"staging", "copying"}
    /\ run[u].want # 0 /\ run[u].pc \notin Deciding \cup {"idle", "revive"}
        => run[u].from = file["exe"]
    /\ run[u].pc \in {"swap"} \cup Deciding => file["bak"] = run[u].from /\ run[u].from \in 1..latest

\* The verdict that is pending, or was given.
Verdict(u) ==
    /\ Trusted /\ run[u].pc \notin Deciding => Good(file["exe"])
    /\ Trusted /\ run[u].pc \in Deciding => Good(run[u].from)
    /\ At(u, "health") => svc \in {0, file["exe"]}

Inv ==
    /\ Types
    /\ ExeIsRelease
    /\ svc # 0 => Good(svc)
    /\ Trusted /\ Runs = {} => Good(file["exe"])
    /\ \A u \in Runs : Progress(u) /\ Verdict(u)

-----------------------------------------------------------------------------
(* Facts about files and processes *)

\* No file is open: a rename changes names and no process.
LEMMA RenameOnly ==
    ASSUME Types, NEW a \in Names, NEW b \in Names \cup {"gone"}, a # b,
           \A v \in Runs : run[v].open = "none"
    PROVE  /\ Rename(Disk, a, b).run = run
           /\ Rename(Disk, a, b).file \in [Names -> Release \cup {Junk, 0}]
           /\ \A n \in Names : Rename(Disk, a, b).file[n] =
                 IF n = b THEN file[a] ELSE IF n = a THEN 0 ELSE file[n]
<1>1. \A v \in Runs : [run[v] EXCEPT !.open = IF @ = a THEN b ELSE IF @ = b THEN "gone" ELSE @] = run[v]
  BY DEF Types, RunType, Names
<1>2. Rename(Disk, a, b).run = run
  BY <1>1 DEF Rename, Disk, Types
<1>3. Rename(Disk, a, b).file = [n \in Names |-> IF n = b THEN file[a] ELSE IF n = a THEN 0 ELSE file[n]]
  BY DEF Rename, Disk
<1>. QED
  BY <1>2, <1>3 DEF Types

\* A process that returns with the files of d leaves them but for tmp.
LEMMA StopLeaves ==
    ASSUME OneRun, NEW u \in Runs, NEW d, d.file \in [Names -> Release \cup {Junk, 0}],
           d = [file |-> d.file, run |-> d.run], d.run \in [Runs -> RunType],
           Stop(u, d)
    PROVE  /\ run' = [v \in Runs |-> NoRun]
           /\ file' \in [Names -> Release \cup {Junk, 0}]
           /\ file'["exe"] = d.file["exe"] /\ file'["bak"] = d.file["bak"]
<1>1. CASE run[u].pc \in Staged
  <2>. DEFINE e == Rename(d, "tmp", "gone")
  <2>1. /\ e.file = [n \in Names |-> IF n = "gone" THEN d.file["tmp"] ELSE IF n = "tmp" THEN 0 ELSE d.file[n]]
        /\ e.run = [v \in Runs |-> [d.run[v] EXCEPT !.open = IF @ = "tmp" THEN "gone"
                                                           ELSE IF @ = "gone" THEN "gone" ELSE @]]
        /\ e = [file |-> e.file, run |-> e.run]
    BY DEF Rename
  <2>2. file' = e.file /\ run' = [e.run EXCEPT ![u] = NoRun]
    BY <1>1, <2>1 DEF Stop, Become
  <2>. QED
    BY <2>1, <2>2 DEF OneRun, Names
<1>2. CASE run[u].pc \notin Staged
  <2>1. file' = d.file /\ run' = [d.run EXCEPT ![u] = NoRun]
    BY <1>2 DEF Stop, Become
  <2>. QED
    BY <2>1 DEF OneRun, Names
<1>. QED
  BY <1>1, <1>2

\* After a return only the installed binary and the verdict on it matter.
LEMMA ReturnKeeps ==
    ASSUME Inv, OneRun, NEW u \in Runs,
           run' = [v \in Runs |-> NoRun],
           file' \in [Names -> Release \cup {Junk, 0}],
           UNCHANGED <<quality, latest, stamps>>,
           svc' \in Release \cup {0}, svc' # 0 => Good(svc'),
           unchecked' \in BOOLEAN, unrestored' \in BOOLEAN,
           file'["exe"] \in 1..latest,
           Trusted' => Good(file'["exe"])
    PROVE  Inv'
<1>1. NoRun \in RunType
  BY UpgradeAssumption DEF NoRun, RunType, Pcs, Staged, Deciding, Names
<1>2. Types'
  BY <1>1 DEF Inv, Types
<1>3. ASSUME NEW v \in Runs PROVE (Progress(v) /\ Verdict(v))'
  <2>1. run'[v] = NoRun
    OBVIOUS
  <2>. QED
    BY <2>1 DEF Inv, Types, Release, Progress, Verdict, Trusted, Good, At, NoRun, Staged, Deciding
<1>. QED
  BY <1>2, <1>3 DEF Inv, ExeIsRelease, Good

\* The files as they are qualify for StopLeaves.
LEMMA DiskIsTyped ==
    ASSUME Inv
    PROVE  /\ Disk.file = file /\ Disk.run = run
           /\ Disk = [file |-> Disk.file, run |-> Disk.run]
  BY DEF Disk

\* What one run says of itself holds of all runs.
LEMMA OneSuffices ==
    ASSUME OneRun, NEW u \in Runs, Types', ExeIsRelease', (svc # 0 => Good(svc))',
           Progress(u)', Verdict(u)'
    PROVE  Inv'
<1>1. \A v \in Runs : (Progress(v) /\ Verdict(v))'
  <2>. SUFFICES ASSUME NEW v \in Runs PROVE (Progress(v) /\ Verdict(v))'
    OBVIOUS
  <2>1. v = u
    BY DEF OneRun
  <2>. QED
    BY <2>1
<1>. QED
  BY <1>1 DEF Inv

-----------------------------------------------------------------------------
(* The steps of a run *)

\* A step that writes one record: its type and its promises are enough.
LEMMA RecordStep ==
    ASSUME Inv, OneRun, NEW u \in Runs, NEW r \in RunType, run' = [run EXCEPT ![u] = r],
           UNCHANGED <<quality, latest, svc, unchecked, unrestored>>,
           stamps' \in 0..MaxSnapshots,
           file' \in [Names -> Release \cup {Junk, 0}],
           Progress(u)', Verdict(u)', ExeIsRelease'
    PROVE  Inv'
<1>1. Types'
  BY DEF Inv, Types
<1>2. (svc # 0 => Good(svc))'
  BY DEF Inv, Good
<1>. QED
  BY <1>1, <1>2, OneSuffices

\* Backups change no binary.
LEMMA BackupStep ==
    ASSUME Inv, OneRun, NEW u \in Runs,
           BeginBackup(u) \/ CreateSnapshot(u) \/ VacuumInto(u) \/ BackupFails(u) \/ pruneBackups(u)
    PROVE  Inv'
<1>. DEFINE r == run[u]
<1>0. /\ r \in RunType /\ run \in [Runs -> RunType] /\ stamps \in 0..MaxSnapshots
      /\ file \in [Names -> Release \cup {Junk, 0}]
      /\ Progress(u) /\ Verdict(u) /\ ExeIsRelease
  BY DEF Inv, Types
<1>1. CASE \/ BeginBackup(u) \/ CreateSnapshot(u) \/ VacuumInto(u)
           \/ (BackupFails(u) \/ pruneBackups(u)) /\ r.want # 0
  <2>. DEFINE q == [r EXCEPT !.pc = run'[u].pc, !.stamp = run'[u].stamp]
  <2>1. /\ UNCHANGED <<quality, latest, file, svc, unchecked, unrestored>> /\ stamps' \in 0..MaxSnapshots
        /\ q \in RunType /\ run' = [run EXCEPT ![u] = q]
        /\ r.pc \in {"idle", "backup", "vacuum", "prune"}
        /\ q.pc \in {"backup", "vacuum", "prune", "download"}
        /\ q.pc = "download" => r.want # 0
        /\ r.pc = "idle" => q.pc = "backup" /\ r.want = 0
    <3>1. CASE BeginBackup(u)
      <4>1. run' = [run EXCEPT ![u].pc = "backup"] /\ r = NoRun
        BY <3>1 DEF BeginBackup, Go
      <4>2. UNCHANGED <<quality, latest, file, svc, unchecked, unrestored, stamps>>
        BY <3>1 DEF BeginBackup, releases, verdicts, snapshots
      <4>3. run'[u] = [r EXCEPT !.pc = "backup"] /\ r.stamp = 0 /\ r.want = 0 /\ r.pc = "idle"
        BY <1>0, <4>1 DEF RunType, NoRun
      <4>. QED
        BY <1>0, <4>1, <4>2, <4>3 DEF RunType, Pcs
    <3>2. CASE CreateSnapshot(u)
      <4>1. run' = [run EXCEPT ![u].pc = "vacuum", ![u].stamp = stamps'] /\ r.pc = "backup"
        BY <3>2 DEF CreateSnapshot, At
      <4>2. UNCHANGED <<quality, latest, file, svc, unchecked, unrestored>> /\ stamps' \in 0..MaxSnapshots
        BY <1>0, <3>2, UpgradeAssumption DEF CreateSnapshot, releases, verdicts
      <4>. QED
        BY <1>0, <4>1, <4>2 DEF RunType, Pcs
    <3>3. CASE VacuumInto(u)
      <4>1. run' = [run EXCEPT ![u].pc = "prune"] /\ r.pc = "vacuum"
        BY <3>3 DEF VacuumInto, At, Go
      <4>2. UNCHANGED <<quality, latest, file, svc, unchecked, unrestored, stamps>>
        BY <3>3 DEF VacuumInto, releases, verdicts
      <4>. QED
        BY <1>0, <4>1, <4>2 DEF RunType, Pcs
    <3>4. CASE (BackupFails(u) \/ pruneBackups(u)) /\ r.want # 0
      <4>1. /\ run' = [run EXCEPT ![u].pc = "download", ![u].stamp = 0]
            /\ r.pc \in {"backup", "vacuum", "prune"} /\ r.want # 0
        BY <3>4 DEF BackupFails, pruneBackups, AfterBackup, At
      <4>2. UNCHANGED <<quality, latest, file, svc, unchecked, unrestored, stamps>>
        BY <3>4 DEF BackupFails, pruneBackups, releases, verdicts, snapshots
      <4>3. run'[u] = [r EXCEPT !.pc = "download", !.stamp = 0]
        BY <1>0, <4>1 DEF RunType
      <4>4. q = run'[u] /\ run' = [run EXCEPT ![u] = q]
        BY <1>0, <4>1, <4>3 DEF RunType
      <4>5. q \in RunType
        <5>1. 0 \in 0..MaxSnapshots /\ "download" \in Pcs
          BY UpgradeAssumption DEF Pcs
        <5>2. [r EXCEPT !.pc = "download", !.stamp = 0] \in RunType
          BY <1>0, <5>1 DEF RunType
        <5>. QED
          BY <4>3, <4>4, <5>2
      <4>. QED
        BY <1>0, <4>1, <4>2, <4>3, <4>4, <4>5 DEF RunType
    <3>. QED
      BY <1>1, <3>1, <3>2, <3>3, <3>4
  <2>2. run'[u] = q /\ q.want = r.want /\ q.from = r.from /\ q.buf = r.buf /\ q.open = r.open
    BY <1>0, <2>1 DEF RunType
  <2>3. Progress(u)'
    <3>1. r.want \in 0..latest /\ (r.want # 0 => r.want \in 1..latest)
      BY <1>0 DEF Progress, RunType, Release
    <3>2. r.open = "none" /\ (r.want # 0 => r.from = file["exe"])
      BY <1>0, <2>1 DEF Progress, Deciding
    <3>. QED
      BY <2>1, <2>2, <3>1, <3>2 DEF Progress, At, Staged, Deciding
  <2>4. Verdict(u)' /\ ExeIsRelease'
    BY <1>0, <2>1, <2>2 DEF Verdict, Trusted, ExeIsRelease, Good, At, Deciding
  <2>. QED
    BY <1>0, <2>1, <2>3, <2>4, RecordStep
<1>2. CASE (BackupFails(u) \/ pruneBackups(u)) /\ r.want = 0
  <2>1. /\ UNCHANGED <<quality, latest, file, svc, unchecked, unrestored, stamps>>
        /\ r.pc \in {"backup", "vacuum", "prune"}
        /\ run' = [run EXCEPT ![u] = NoRun]
    BY <1>2 DEF BackupFails, pruneBackups, AfterBackup, Return, At, releases, verdicts, snapshots
  <2>2. run' = [v \in Runs |-> NoRun]
    BY <1>0, <2>1 DEF OneRun
  <2>3. /\ Trusted => Good(file["exe"])
        /\ file["exe"] \in 1..latest
        /\ svc \in Release \cup {0} /\ (svc # 0 => Good(svc)) /\ unchecked \in BOOLEAN /\ unrestored \in BOOLEAN
    BY <1>0, <2>1 DEF Verdict, Trusted, Deciding, Inv, Types, ExeIsRelease
  <2>. QED
    BY <1>0, <2>1, <2>2, <2>3, ReturnKeeps DEF Good, Trusted
<1>. QED
  BY <1>1, <1>2

\* Up to the swap the installed binary stays and its successor is staged whole.
LEMMA StagingStep ==
    ASSUME Inv, OneRun, NEW u \in Runs,
           \/ \E want \in Release, backup \in BOOLEAN : BeginUpgrade(u, want, backup)
           \/ \E bytes \in Release \cup {Junk} : Download(u, bytes)
           \/ Stage(u) \/ StageWritten(u) \/ CopyToBak(u) \/ BakWritten(u)
    PROVE  Inv'
<1>. DEFINE r == run[u]
<1>0. /\ r \in RunType /\ run \in [Runs -> RunType] /\ stamps \in 0..MaxSnapshots
      /\ file \in [Names -> Release \cup {Junk, 0}] /\ latest \in Release
      /\ Progress(u) /\ Verdict(u) /\ ExeIsRelease
  BY DEF Inv, Types
<1>1. ASSUME NEW want \in Release, NEW backup \in BOOLEAN, BeginUpgrade(u, want, backup) PROVE Inv'
  <2>. DEFINE q == [r EXCEPT !.want = want, !.from = file["exe"],
                             !.pc = IF backup THEN "backup" ELSE "download"]
  <2>1. /\ run' = [run EXCEPT ![u] = q] /\ r = NoRun /\ want \in 1..latest
        /\ UNCHANGED <<quality, latest, file, svc, stamps, unchecked, unrestored>>
        /\ file["exe"] \in Release
    BY <1>0, <1>1 DEF BeginUpgrade, Runnable, Executable, releases, verdicts, snapshots, RunType
  <2>2. q \in RunType /\ run'[u] = q
    BY <1>0, <2>1 DEF RunType, Pcs
  <2>3. Progress(u)' /\ Verdict(u)' /\ ExeIsRelease'
    BY <1>0, <2>1, <2>2 DEF Progress, Verdict, Trusted, ExeIsRelease, Good, At, NoRun, Staged, Deciding
  <2>. QED
    BY <1>0, <2>1, <2>2, <2>3, RecordStep
<1>2. ASSUME NEW bytes \in Release \cup {Junk}, Download(u, bytes) PROVE Inv'
  <2>. DEFINE q == [r EXCEPT !.buf = bytes, !.pc = "stage"]
  <2>1. /\ run' = [run EXCEPT ![u] = q] /\ r.pc = "download" /\ bytes = r.want
        /\ UNCHANGED <<quality, latest, file, svc, stamps, unchecked, unrestored>>
    BY <1>0, <1>2 DEF Download, checkDigest, At, releases, verdicts, snapshots, RunType
  <2>2. q \in RunType /\ run'[u] = q
    BY <1>0, <2>1 DEF RunType, Pcs
  <2>3. Progress(u)' /\ Verdict(u)' /\ ExeIsRelease'
    BY <1>0, <2>1, <2>2 DEF Progress, Verdict, Trusted, ExeIsRelease, Good, At, Staged, Deciding, RunType
  <2>. QED
    BY <1>0, <2>1, <2>2, <2>3, RecordStep
<1>3. CASE Stage(u)
  <2>. DEFINE q == [r EXCEPT !.open = "tmp", !.buf = r.buf, !.pc = "staging"]
  <2>1. /\ run' = [run EXCEPT ![u] = q] /\ r.pc = "stage"
        /\ file' = [file EXCEPT !["tmp"] = Junk]
        /\ UNCHANGED <<quality, latest, svc, stamps, unchecked, unrestored>>
    BY <1>0, <1>3 DEF Stage, OpenFile, At, releases, verdicts, snapshots, RunType
  <2>2. q \in RunType /\ run'[u] = q /\ file' \in [Names -> Release \cup {Junk, 0}]
    BY <1>0, <2>1 DEF RunType, Pcs, Staged, Names
  <2>3. Progress(u)' /\ Verdict(u)' /\ ExeIsRelease'
    BY <1>0, <2>1, <2>2
       DEF Progress, Verdict, Trusted, ExeIsRelease, Good, At, Staged, Deciding, RunType, Names, Release
  <2>. QED
    BY <1>0, <2>1, <2>2, <2>3, RecordStep
<1>4. CASE StageWritten(u)
  <2>. DEFINE q == [r EXCEPT !.open = "none", !.buf = 0, !.pc = "copy"]
  <2>1. /\ run' = [run EXCEPT ![u] = q] /\ r.pc = "staging"
        /\ file' = [n \in Names |-> IF n = r.open THEN r.buf ELSE file[n]]
        /\ UNCHANGED <<quality, latest, svc, stamps, unchecked, unrestored>>
    BY <1>0, <1>4 DEF StageWritten, WriteOpen, At, releases, verdicts, snapshots, RunType
  <2>2. q \in RunType /\ run'[u] = q /\ file' \in [Names -> Release \cup {Junk, 0}]
    BY <1>0, <2>1 DEF RunType, Pcs, Staged, Names
  <2>3. Progress(u)' /\ Verdict(u)' /\ ExeIsRelease'
    BY <1>0, <2>1, <2>2
       DEF Progress, Verdict, Trusted, ExeIsRelease, Good, At, Staged, Deciding, RunType, Names, Release
  <2>. QED
    BY <1>0, <2>1, <2>2, <2>3, RecordStep
<1>5. CASE CopyToBak(u)
  <2>. DEFINE q == [r EXCEPT !.open = "bak", !.buf = file["exe"], !.pc = "copying"]
  <2>1. /\ run' = [run EXCEPT ![u] = q] /\ r.pc = "copy"
        /\ file' = [file EXCEPT !["bak"] = Junk]
        /\ UNCHANGED <<quality, latest, svc, stamps, unchecked, unrestored>>
    BY <1>0, <1>5 DEF CopyToBak, OpenFile, At, releases, verdicts, snapshots, RunType
  <2>2. q \in RunType /\ run'[u] = q /\ file' \in [Names -> Release \cup {Junk, 0}]
    BY <1>0, <2>1 DEF RunType, Pcs, Staged, Names
  <2>3. Progress(u)' /\ Verdict(u)' /\ ExeIsRelease'
    BY <1>0, <2>1, <2>2
       DEF Progress, Verdict, Trusted, ExeIsRelease, Good, At, Staged, Deciding, RunType, Names, Release
  <2>. QED
    BY <1>0, <2>1, <2>2, <2>3, RecordStep
<1>6. CASE BakWritten(u)
  <2>. DEFINE q == [r EXCEPT !.open = "none", !.buf = 0, !.pc = "swap"]
  <2>1. /\ run' = [run EXCEPT ![u] = q] /\ r.pc = "copying"
        /\ file' = [n \in Names |-> IF n = r.open THEN r.buf ELSE file[n]]
        /\ UNCHANGED <<quality, latest, svc, stamps, unchecked, unrestored>>
    BY <1>0, <1>6 DEF BakWritten, WriteOpen, At, releases, verdicts, snapshots, RunType
  <2>2. q \in RunType /\ run'[u] = q /\ file' \in [Names -> Release \cup {Junk, 0}]
    BY <1>0, <2>1 DEF RunType, Pcs, Staged, Names
  <2>3. Progress(u)' /\ Verdict(u)' /\ ExeIsRelease'
    BY <1>0, <2>1, <2>2
       DEF Progress, Verdict, Trusted, ExeIsRelease, Good, At, Staged, Deciding, RunType, Names, Release
  <2>. QED
    BY <1>0, <2>1, <2>2, <2>3, RecordStep
<1>. QED
  BY <1>1, <1>2, <1>3, <1>4, <1>5, <1>6

\* A run that ends without a swap, or with the verdict that its binary serves.
LEMMA EndingStep ==
    ASSUME Inv, OneRun, NEW u \in Runs,
           DownloadFails(u) \/ StepFails(u) \/ NoRestart(u) \/ Healthy(u) \/ Crash(u)
    PROVE  Inv'
<1>1. /\ run' = [v \in Runs |-> NoRun]
      /\ file' \in [Names -> Release \cup {Junk, 0}]
      /\ file'["exe"] = file["exe"]
  <2>1. CASE Crash(u)
    BY <2>1 DEF Crash, Return, OneRun, Inv, Types
  <2>2. CASE ~Crash(u)
    <3>1. Stop(u, Disk)
      BY <2>2 DEF DownloadFails, StepFails, NoRestart, Healthy
    <3>. QED
      BY <3>1, DiskIsTyped, StopLeaves DEF Inv, Types
  <2>. QED
    BY <2>1, <2>2
<1>2. UNCHANGED <<quality, latest, stamps, svc>> /\ unchecked' \in BOOLEAN /\ unrestored' \in BOOLEAN
  BY DEF DownloadFails, StepFails, NoRestart, Healthy, Crash, releases, verdicts, snapshots, Inv, Types
<1>3. Trusted' => Good(file["exe"])
  <2>1. CASE Healthy(u)
    <3>1. svc # 0 /\ At(u, "health")
      BY <2>1 DEF Healthy, serviceHealthy
    <3>. QED
      BY <3>1 DEF Inv, Verdict, Trusted
  <2>2. CASE NoRestart(u)
    BY <2>2 DEF NoRestart, Trusted
  <2>3. CASE Crash(u)
    BY <2>3 DEF Crash, Inv, Verdict, Trusted
  <2>4. CASE DownloadFails(u) \/ StepFails(u)
    <3>1. run[u].pc \notin Deciding /\ UNCHANGED <<unchecked, unrestored>>
      BY <2>4 DEF DownloadFails, StepFails, verdicts, At, Deciding
    <3>. QED
      BY <3>1 DEF Inv, Verdict, Trusted
  <2>. QED
    BY <2>1, <2>2, <2>3, <2>4
<1>4. file["exe"] \in 1..latest /\ svc \in Release \cup {0} /\ (svc # 0 => Good(svc))
  BY DEF Inv, ExeIsRelease, Types
<1>. QED
  BY <1>1, <1>2, <1>3, <1>4, ReturnKeeps DEF Good, Trusted

\* The swap: the run's own predecessor is the copy.
LEMMA SwapStep ==
    ASSUME Inv, OneRun, NEW u \in Runs, Swap(u)
    PROVE  Inv'
<1>1. \A v \in Runs : run[v].open = "none" /\ v = u
  BY DEF Swap, Inv, Progress, At, OneRun
<1>2. /\ run' = [run EXCEPT ![u].pc = "probe"]
      /\ file' \in [Names -> Release \cup {Junk, 0}]
      /\ file'["exe"] = file["tmp"] /\ file'["bak"] = file["bak"]
  BY <1>1, RenameOnly DEF Swap, Become, Inv, Names, Rename, Disk
<1>3. UNCHANGED <<quality, latest, svc, stamps, unchecked, unrestored>> /\ run[u].pc = "swap"
  BY DEF Swap, releases, verdicts, snapshots, At
<1>4. Types' /\ run'[u] = [run[u] EXCEPT !.pc = "probe"]
  BY <1>2, <1>3 DEF Inv, Types, RunType, Pcs, Staged, Deciding
<1>5. Progress(u)' /\ Verdict(u)' /\ ExeIsRelease' /\ (svc # 0 => Good(svc))'
  BY <1>1, <1>2, <1>3, <1>4, UpgradeAssumption
     DEF Inv, Types, ExeIsRelease, Progress, Verdict, Trusted, Good, Staged, Deciding, Release, At
<1>. QED
  BY <1>4, <1>5, OneSuffices

\* The probe and the restart touch no file.
LEMMA ProbeStep ==
    ASSUME Inv, OneRun, NEW u \in Runs, Probe(u) \/ restartService(u)
    PROVE  Inv'
<1>1. \E pc \in {"restart", "health"} : run' = [run EXCEPT ![u].pc = pc] /\ run[u].pc \in Deciding
                                        /\ (pc = "health" => svc' = Serves)
  BY DEF Probe, restartService, Go, At, Deciding
<1>2. PICK pc \in {"restart", "health"} :
        /\ run' = [run EXCEPT ![u].pc = pc] /\ run[u].pc \in Deciding
        /\ pc = "health" => svc' = Serves
  BY <1>1
<1>3. UNCHANGED <<quality, latest, file, stamps, unchecked, unrestored>> /\ svc' \in {svc, Serves}
  BY DEF Probe, restartService, releases, verdicts, snapshots
<1>4. svc' \in Release \cup {0} /\ (svc' # 0 => Good(svc')) /\ Serves \in {0, file["exe"]}
  BY <1>3 DEF Inv, Types, Serves, Executable, Good
<1>5. run'[u] = [run[u] EXCEPT !.pc = pc] /\ run[u] \in RunType
  BY <1>2 DEF Inv, Types
<1>6. run'[u] \in RunType
  BY <1>5 DEF RunType, Pcs, Staged, Deciding
<1>7. Types'
  BY <1>2, <1>3, <1>4, <1>5, <1>6 DEF Inv, Types
<1>8. ExeIsRelease' /\ (svc # 0 => Good(svc))'
  BY <1>3, <1>4 DEF Inv, ExeIsRelease, Good
<1>9. Progress(u)'
  BY <1>2, <1>3, <1>5 DEF Inv, Progress, Staged, Deciding, At, RunType
<1>10. Verdict(u)'
  BY <1>2, <1>3, <1>4, <1>5 DEF Inv, Verdict, Trusted, Good, Deciding, At, RunType
<1>. QED
  BY <1>7, <1>8, <1>9, <1>10, OneSuffices

\* What the way back leaves installed: the run's predecessor, or, if the rename
\* fails, what there was, with the predecessor still in the copy.
LEMMA TakenBackIs ==
    ASSUME Inv, OneRun, NEW u \in Runs, run[u].pc \in {"probe", "health"},
           NEW d \in {Restored, Disk}, TakenBack(d)
    PROVE  /\ d.run = run
           /\ d = [file |-> d.file, run |-> d.run]
           /\ d.file \in [Names -> Release \cup {Junk, 0}]
           /\ unrestored' \in BOOLEAN
           /\ \/ d.file["exe"] = run[u].from /\ unrestored' = unrestored
              \/ d.file = file /\ unrestored' = TRUE
<1>1. /\ file["bak"] = run[u].from /\ run[u].from \in 1..latest
      /\ \A v \in Runs : run[v].open = "none"
  BY DEF Inv, Progress, Deciding, OneRun
<1>2. CASE d = Restored /\ UNCHANGED unrestored
  BY <1>1, <1>2, RenameOnly DEF Inv, Types, Names, Rename, Restored
<1>3. CASE d = Disk /\ unrestored' = TRUE
  BY <1>3, DiskIsTyped DEF Inv, Types
<1>. QED
  BY <1>2, <1>3 DEF TakenBack

\* The way back.
LEMMA RollbackStep ==
    ASSUME Inv, OneRun, NEW u \in Runs, ProbeFails(u) \/ RollBack(u) \/ Revive(u)
    PROVE  /\ Inv'
           /\ ProbeFails(u) \/ RollBack(u) =>
                \/ file'["exe"] = run[u].from
                \/ unrestored' /\ file'["exe"] = file["exe"] /\ file'["bak"] = run[u].from
<1>0. run[u].pc \in Deciding => file["bak"] = run[u].from
  BY DEF Inv, Progress
<1>1. CASE ProbeFails(u)
  <2>1. run[u].pc = "probe"
    BY <1>1 DEF ProbeFails, At
  <2>2. PICK d \in {Restored, Disk} : TakenBack(d) /\ Stop(u, d)
    BY <1>1 DEF ProbeFails
  <2>3. /\ d.run = run
        /\ d = [file |-> d.file, run |-> d.run]
        /\ d.file \in [Names -> Release \cup {Junk, 0}]
        /\ unrestored' \in BOOLEAN
        /\ \/ d.file["exe"] = run[u].from /\ unrestored' = unrestored
           \/ d.file = file /\ unrestored' = TRUE
    BY <2>1, <2>2, TakenBackIs
  <2>4. /\ run' = [v \in Runs |-> NoRun]
        /\ file' \in [Names -> Release \cup {Junk, 0}]
        /\ file'["exe"] = d.file["exe"] /\ file'["bak"] = d.file["bak"]
    BY <2>2, <2>3, StopLeaves DEF Inv, Types
  <2>5. UNCHANGED <<quality, latest, svc, stamps, unchecked>>
    BY <1>1 DEF ProbeFails, releases, snapshots
  <2>6. /\ run[u].from \in 1..latest /\ (Trusted => Good(run[u].from))
        /\ file["exe"] \in 1..latest
    BY <2>1 DEF Inv, Progress, Verdict, Trusted, Deciding, ExeIsRelease
  <2>7. svc \in Release \cup {0} /\ (svc # 0 => Good(svc)) /\ unchecked \in BOOLEAN
    BY DEF Inv, Types
  <2>8. file'["exe"] \in 1..latest /\ (Trusted' => Good(file'["exe"]))
    BY <2>3, <2>4, <2>5, <2>6 DEF Trusted
  <2>9. Inv'
    BY <2>3, <2>4, <2>5, <2>7, <2>8, ReturnKeeps DEF Good, Trusted
  <2>. QED
    BY <1>0, <2>1, <2>3, <2>4, <2>9 DEF Deciding
<1>2. CASE RollBack(u)
  <2>1. run[u].pc = "health"
    BY <1>2 DEF RollBack, At
  <2>2. PICK d \in {Restored, Disk} : TakenBack(d) /\ Become([d EXCEPT !.run[u].pc = "revive"])
    BY <1>2 DEF RollBack
  <2>3. /\ d.run = run
        /\ d = [file |-> d.file, run |-> d.run]
        /\ d.file \in [Names -> Release \cup {Junk, 0}]
        /\ unrestored' \in BOOLEAN
        /\ \/ d.file["exe"] = run[u].from /\ unrestored' = unrestored
           \/ d.file = file /\ unrestored' = TRUE
    BY <2>1, <2>2, TakenBackIs
  <2>4. run' = [run EXCEPT ![u].pc = "revive"] /\ file' = d.file
    BY <2>2, <2>3 DEF Become
  <2>5. UNCHANGED <<quality, latest, svc, stamps, unchecked>>
    BY <1>2 DEF RollBack, releases, snapshots
  <2>6. Types' /\ run'[u] = [run[u] EXCEPT !.pc = "revive"]
    BY <2>3, <2>4, <2>5 DEF Inv, Types, RunType, Pcs, Staged, Deciding
  <2>7. /\ run[u].from \in 1..latest /\ (Trusted => Good(run[u].from))
        /\ file["exe"] \in 1..latest
    BY <2>1 DEF Inv, Progress, Verdict, Trusted, Deciding, ExeIsRelease
  <2>8. file'["exe"] \in 1..latest /\ (Trusted' => Good(file'["exe"]))
    BY <2>3, <2>4, <2>5, <2>7 DEF Trusted, Good
  <2>9. ExeIsRelease' /\ (svc # 0 => Good(svc))'
    BY <2>5, <2>8 DEF Inv, ExeIsRelease, Good
  <2>10. Verdict(u)'
    BY <2>1, <2>5, <2>6, <2>8 DEF Verdict, Trusted, Good, Deciding, At
  <2>11. Progress(u)'
    BY <2>1, <2>5, <2>6 DEF Inv, Types, Progress, Staged, Deciding, Release, At, RunType
  <2>12. Inv'
    BY <2>6, <2>9, <2>10, <2>11, OneSuffices
  <2>. QED
    BY <1>0, <2>1, <2>3, <2>4, <2>12 DEF Deciding
<1>3. CASE Revive(u)
  <2>1. run[u].pc = "revive" /\ Stop(u, Disk)
    BY <1>3 DEF Revive, At
  <2>2. /\ run' = [v \in Runs |-> NoRun]
        /\ file' \in [Names -> Release \cup {Junk, 0}]
        /\ file'["exe"] = file["exe"]
    BY <2>1, DiskIsTyped, StopLeaves DEF Inv, Types
  <2>3. UNCHANGED <<quality, latest, stamps, unchecked, unrestored>> /\ svc' \in {Serves, svc}
    BY <1>3 DEF Revive, releases, verdicts, snapshots
  <2>4. svc' \in Release \cup {0} /\ (svc' # 0 => Good(svc'))
    BY <2>3 DEF Inv, Types, Serves, Executable, Good
  <2>5. file["exe"] \in 1..latest /\ (Trusted => Good(file["exe"])) /\ unchecked \in BOOLEAN /\ unrestored \in BOOLEAN
    BY <2>1 DEF Inv, Types, ExeIsRelease, Verdict, Trusted, Deciding
  <2>6. Inv'
    BY <2>2, <2>3, <2>4, <2>5, ReturnKeeps DEF Good, Trusted
  <2>. QED
    BY <2>1, <2>6 DEF ProbeFails, RollBack, At
<1>. QED
  BY <1>1, <1>2, <1>3

\* systemd and the publisher.
LEMMA OutsideStep ==
    ASSUME Inv, Respawn \/ Publish
    PROVE  Inv'
<1>1. CASE Respawn
  <2>1. UNCHANGED <<quality, latest, file, run, stamps, unchecked, unrestored>> /\ svc' = Serves
    BY <1>1 DEF Respawn, releases, verdicts, snapshots
  <2>2. svc' \in Release \cup {0} /\ (svc' # 0 => Good(svc')) /\ svc' \in {0, file["exe"]}
    BY <2>1 DEF Inv, Types, Serves, Executable, Good
  <2>3. Types' /\ ExeIsRelease' /\ (svc # 0 => Good(svc))'
    BY <2>1, <2>2 DEF Inv, Types, ExeIsRelease, Good
  <2>4. \A u \in Runs : (Progress(u) /\ Verdict(u))'
    BY <2>1, <2>2 DEF Inv, Progress, Verdict, Trusted, At, Good
  <2>. QED
    BY <2>1, <2>3, <2>4 DEF Inv, Good, Trusted
<1>2. CASE Publish
  <2>1. /\ UNCHANGED <<quality, file, svc, run, stamps, unchecked, unrestored>>
        /\ latest' = latest + 1 /\ latest' \in Release /\ latest \in Release
    BY <1>2, UpgradeAssumption DEF Publish, snapshots, verdicts, Inv, Types, Release
  <2>2. \A i : (i \in 0..latest => i \in 0..latest') /\ (i \in 1..latest => i \in 1..latest')
    BY <2>1 DEF Release
  <2>3. Types' /\ ExeIsRelease' /\ (svc # 0 => Good(svc))'
    BY <2>1, <2>2 DEF Inv, Types, ExeIsRelease, Good
  <2>4. \A u \in Runs : (Progress(u) /\ Verdict(u))'
    BY <2>1, <2>2 DEF Inv, Progress, Verdict, Trusted, At, Good
  <2>. QED
    BY <2>1, <2>3, <2>4 DEF Inv, Good, Trusted
<1>. QED
  BY <1>1, <1>2

\* The installer leaves a good release and no process.
LEMMA InitInv ==
    ASSUME Init
    PROVE  Inv
<1>1. NoRun \in RunType
  BY UpgradeAssumption DEF NoRun, RunType, Pcs, Staged, Deciding, Names
<1>2. 1 \in Release /\ 1 \in 1..1
  BY UpgradeAssumption DEF Release
<1>3. Types /\ Good(file["exe"]) /\ ExeIsRelease /\ (svc # 0 => Good(svc))
  <2>1. file["exe"] = 1 /\ quality[1] = "good" /\ svc = 1 /\ latest = 1
    BY DEF Init, Names
  <2>2. Types
    <3>1. 0 \in 0..MaxSnapshots
      BY UpgradeAssumption
    <3>2. quality \in [Release -> {"good", "crashes", "broken"}] /\ unchecked = FALSE /\ unrestored = FALSE /\ stamps = 0
      BY DEF Init
    <3>3. file \in [Names -> Release \cup {Junk, 0}] /\ run \in [Runs -> RunType]
      BY <1>1, <1>2 DEF Init
    <3>. QED
      BY <1>2, <2>1, <3>1, <3>2, <3>3 DEF Types
  <2>. QED
    BY <1>2, <2>1, <2>2 DEF Good, ExeIsRelease
<1>4. ASSUME NEW u \in Runs PROVE Progress(u) /\ Verdict(u)
  <2>1. run[u] = NoRun /\ latest = 1 /\ unchecked = FALSE /\ unrestored = FALSE
    BY DEF Init
  <2>. QED
    BY <1>3, <2>1 DEF Progress, Verdict, Trusted, At, NoRun, Staged, Deciding
<1>. QED
  BY <1>3, <1>4 DEF Inv

\* Every step keeps the invariant, and a roll-back does what it can.
LEMMA NextInv ==
    ASSUME Inv, OneRun, [Next]_vars
    PROVE  /\ Inv'
           /\ \A u \in Runs : RollBack(u) \/ ProbeFails(u) =>
                \/ file'["exe"] = run[u].from
                \/ unrestored' /\ file'["exe"] = file["exe"] /\ file'["bak"] = run[u].from
<1>1. \A u \in Runs : RollBack(u) \/ ProbeFails(u) =>
                \/ file'["exe"] = run[u].from
                \/ unrestored' /\ file'["exe"] = file["exe"] /\ file'["bak"] = run[u].from
  BY RollbackStep
<1>2. ASSUME NEW u \in Runs, Invoke(u) \/ Step(u) \/ Crash(u) PROVE Inv'
  BY <1>2, BackupStep, StagingStep, EndingStep, SwapStep, ProbeStep, RollbackStep DEF Invoke, Step
<1>3. CASE Respawn \/ Publish
  BY <1>1, <1>3, OutsideStep
<1>4. CASE UNCHANGED vars
  <2>1. UNCHANGED <<quality, latest, file, svc, run, stamps, unchecked, unrestored>>
    BY <1>4 DEF vars, releases, verdicts, snapshots
  <2>. QED
    BY <1>1, <2>1 DEF Inv, Types, ExeIsRelease, Progress, Verdict, Trusted, Good, At
<1>. QED
  BY <1>1, <1>2, <1>3, <1>4 DEF Next

-----------------------------------------------------------------------------
(* Theorems *)

\* Every variable of an upgrade has its type: no file holds anything but a
\* release or bytes that are none, and the service runs a release or is down.
THEOREM TypesHold ==
    ASSUME OneRun
    PROVE  Spec => []Types
<1>1. Inv => Types
  BY DEF Inv
<1>2. Inv /\ [Next]_vars => Inv'
  BY NextInv
<1>. QED
  BY <1>1, <1>2, InitInv, PTL DEF Spec

\* On a host with one upgrade at a time the installed file is always a whole,
\* published release, whatever step of CmdUpgrade fails or is killed.
THEOREM InstalledIsWhole ==
    ASSUME OneRun
    PROVE  Spec => []ExeIsRelease
<1>1. Inv => ExeIsRelease
  BY DEF Inv
<1>2. Inv /\ [Next]_vars => Inv'
  BY NextInv
<1>. QED
  BY <1>1, <1>2, InitInv, PTL DEF Spec

\* And unless its health check was cut short or skipped, or the rename back after
\* a failed check failed itself, it serves (CmdUpgrade's health check).
THEOREM InstalledServes ==
    ASSUME OneRun
    PROVE  Spec => []InstalledWorks
<1>1. Inv => InstalledWorks
  <2>. SUFFICES ASSUME Inv, ~unchecked, ~unrestored, \A u \in Runs : run[u].pc \notin Deciding
                PROVE  quality[file["exe"]] = "good"
    BY DEF InstalledWorks
  <2>1. CASE Runs = {}
    BY <2>1 DEF Inv, Good, Trusted
  <2>2. CASE Runs # {}
    BY <2>2 DEF Inv, Verdict, Trusted, Good
  <2>. QED
    BY <2>1, <2>2
<1>2. Inv /\ [Next]_vars => Inv'
  BY NextInv
<1>. QED
  BY <1>1, <1>2, InitInv, PTL DEF Spec

\* A run that rolls back installs the very release it was started from; if that
\* rename fails, what is installed stays and the copy still holds that release.
THEOREM RollbackIsExact ==
    ASSUME OneRun
    PROVE  Spec => RollbackRestores
<1>1. Inv /\ [Next]_vars => Inv'
  BY NextInv
<1>2. Inv /\ [Next]_vars
        => [\A u \in Runs : RollBack(u) \/ ProbeFails(u) =>
              \/ file'["exe"] = run[u].from
              \/ unrestored' /\ file'["exe"] = file["exe"] /\ file'["bak"] = run[u].from]_vars
  BY NextInv
<1>. QED
  BY <1>1, <1>2, InitInv, PTL DEF Spec, RollbackRestores

-----------------------------------------------------------------------------
(* Snapshots *)

\* A process that is about to fill or to prune works on the newest snapshot.
Busy(u) == run[u].pc \in {"vacuum", "prune"}

SnapInv ==
    /\ snap \in [1..MaxSnapshots -> {"none", "empty", "full"}]
    /\ \A s \in 1..MaxSnapshots : s > stamps => snap[s] = "none"
    /\ \A u \in Runs : Busy(u) => stamps > 0 /\ run[u].stamp = stamps
    /\ \A u \in Runs : At(u, "prune") => snap[stamps] = "full"
    /\ saved => \E s \in 1..MaxSnapshots : snap[s] = "full"

\* A step that leaves the snapshots alone and starts no work on one.
LEMMA SnapsKept ==
    ASSUME SnapInv, UNCHANGED snapshots,
           \A v \in Runs : ~Busy(v)' \/ run'[v] = run[v]
    PROVE  SnapInv'
<1>1. \A v \in Runs : Busy(v)' => Busy(v) /\ run'[v] = run[v]
  BY DEF Busy
<1>2. \A v \in Runs : At(v, "prune")' => At(v, "prune")
  BY DEF Busy, At
<1>. QED
  BY <1>1, <1>2 DEF SnapInv, snapshots

\* The backup's own steps: only a snapshot that was just filled is followed by a
\* prune, which keeps at least that one.
LEMMA SnapBackup ==
    ASSUME Inv, SnapInv, OneRun, NEW u \in Runs,
           CreateSnapshot(u) \/ VacuumInto(u) \/ BackupFails(u) \/ pruneBackups(u)
    PROVE  SnapInv'
<1>0. /\ run[u] \in RunType /\ run \in [Runs -> RunType] /\ stamps \in 0..MaxSnapshots
      /\ MaxSnapshots \in Nat /\ Keep \in Nat /\ \A v \in Runs : v = u
  BY UpgradeAssumption DEF Inv, Types, OneRun
<1>1. CASE CreateSnapshot(u)
  <2>1. /\ stamps < MaxSnapshots /\ stamps' = stamps + 1 /\ saved' = saved
        /\ snap' = [snap EXCEPT ![stamps + 1] = "empty"]
        /\ run' = [run EXCEPT ![u].pc = "vacuum", ![u].stamp = stamps + 1]
    BY <1>1 DEF CreateSnapshot
  <2>2. run'[u].pc = "vacuum" /\ run'[u].stamp = stamps'
    BY <1>0, <2>1 DEF RunType
  <2>3. stamps + 1 \in 1..MaxSnapshots /\ snap[stamps + 1] = "none"
    BY <1>0, <2>1 DEF SnapInv
  <2>4. \A s \in 1..MaxSnapshots : snap[s] = "full" => snap'[s] = "full"
    BY <2>1, <2>3 DEF SnapInv
  <2>5. /\ snap' \in [1..MaxSnapshots -> {"none", "empty", "full"}]
        /\ \A s \in 1..MaxSnapshots : s > stamps' => snap'[s] = "none"
    BY <1>0, <2>1, <2>3 DEF SnapInv
  <2>. QED
    BY <1>0, <2>1, <2>2, <2>4, <2>5 DEF SnapInv, Busy, At
<1>2. CASE VacuumInto(u)
  <2>1. /\ stamps' = stamps /\ saved' = TRUE /\ run[u].pc = "vacuum"
        /\ snap' = [snap EXCEPT ![run[u].stamp] = "full"]
        /\ run' = [run EXCEPT ![u].pc = "prune"]
    BY <1>2 DEF VacuumInto, At, Go
  <2>2. run[u].stamp = stamps /\ stamps \in 1..MaxSnapshots
    BY <1>0, <2>1 DEF SnapInv, Busy
  <2>3. run'[u].pc = "prune" /\ run'[u].stamp = stamps
    BY <1>0, <2>1, <2>2 DEF RunType
  <2>4. /\ snap' \in [1..MaxSnapshots -> {"none", "empty", "full"}] /\ snap'[stamps] = "full"
        /\ \A s \in 1..MaxSnapshots : s > stamps => snap'[s] = "none"
    BY <2>1, <2>2 DEF SnapInv
  <2>. QED
    BY <1>0, <2>1, <2>2, <2>3, <2>4 DEF SnapInv, Busy, At
<1>3. ASSUME AfterBackup(u), run[u].pc # "idle" PROVE run'[u].pc \in {"idle", "download"}
  BY <1>0, <1>3 DEF AfterBackup, Return, NoRun, RunType
<1>4. CASE BackupFails(u)
  <2>1. /\ stamps' = stamps /\ saved' = saved /\ AfterBackup(u) /\ run[u].pc # "idle"
        /\ \/ snap' = snap
           \/ run[u].pc = "vacuum" /\ snap' = [snap EXCEPT ![run[u].stamp] = "full"]
    BY <1>4 DEF BackupFails, At
  <2>2. ~Busy(u)' /\ ~At(u, "prune")'
    BY <1>3, <2>1 DEF Busy, At
  <2>3. run[u].pc = "vacuum" => run[u].stamp = stamps /\ stamps \in 1..MaxSnapshots
    BY <1>0 DEF SnapInv, Busy
  <2>4. /\ snap' \in [1..MaxSnapshots -> {"none", "empty", "full"}]
        /\ \A s \in 1..MaxSnapshots : s > stamps => snap'[s] = "none"
        /\ \A s \in 1..MaxSnapshots : snap[s] = "full" => snap'[s] = "full"
    <3>1. CASE snap' = snap
      BY <2>1, <3>1 DEF SnapInv
    <3>2. CASE stamps \in 1..MaxSnapshots /\ snap' = [snap EXCEPT ![stamps] = "full"]
      BY <1>0, <3>2 DEF SnapInv
    <3>. QED
      BY <2>1, <2>3, <3>1, <3>2
  <2>. QED
    BY <1>0, <2>1, <2>2, <2>4 DEF SnapInv
<1>5. CASE pruneBackups(u)
  <2>1. /\ stamps' = stamps /\ saved' = saved /\ AfterBackup(u) /\ run[u].pc = "prune"
        /\ snap' = [s \in 1..MaxSnapshots |->
                      IF Keep > 0 /\ Cardinality({t \in Snapshots : t >= s}) > Keep
                      THEN "none" ELSE snap[s]]
    BY <1>5 DEF pruneBackups, At, SnapInv
  <2>2. ~Busy(u)' /\ ~At(u, "prune")'
    BY <1>3, <2>1 DEF Busy, At
  <2>3. snap[stamps] = "full" /\ stamps \in 1..MaxSnapshots
    BY <1>0, <2>1 DEF SnapInv, Busy, At
  <2>4. {t \in Snapshots : t >= stamps} = {stamps}
    BY <1>0, <2>3 DEF SnapInv, Snapshots
  <2>5. Cardinality({t \in Snapshots : t >= stamps}) = 1
    BY <2>4, FS_Singleton
  <2>6. snap'[stamps] = "full"
    BY <1>0, <2>1, <2>3, <2>5
  <2>7. /\ snap' \in [1..MaxSnapshots -> {"none", "empty", "full"}]
        /\ \A s \in 1..MaxSnapshots : s > stamps => snap'[s] = "none"
    BY <2>1 DEF SnapInv
  <2>. QED
    BY <1>0, <2>1, <2>2, <2>3, <2>6, <2>7 DEF SnapInv
<1>. QED
  BY <1>1, <1>2, <1>4, <1>5

\* An upgrade's own steps, and a crash at any of them, begin nothing of the kind.
LEMMA SnapOther ==
    ASSUME Inv, SnapInv, OneRun, NEW u \in Runs,
           \/ Invoke(u) \/ Crash(u)
           \/ \E bytes \in Release \cup {Junk} : Download(u, bytes)
           \/ DownloadFails(u) \/ Stage(u) \/ StageWritten(u) \/ CopyToBak(u) \/ BakWritten(u)
           \/ StepFails(u) \/ Swap(u) \/ Probe(u) \/ ProbeFails(u)
           \/ restartService(u) \/ NoRestart(u) \/ Healthy(u) \/ RollBack(u) \/ Revive(u)
    PROVE  SnapInv'
<1>0. /\ run[u] \in RunType /\ run \in [Runs -> RunType] /\ \A v \in Runs : v = u
  BY DEF Inv, Types, OneRun
<1>1. UNCHANGED snapshots
  BY DEF Invoke, BeginBackup, BeginUpgrade, Crash, Download, DownloadFails, Stage, StageWritten,
         CopyToBak, BakWritten, StepFails, Swap, Probe, ProbeFails, restartService, NoRestart,
         Healthy, RollBack, Revive
<1>2. ~Busy(u)'
  <2>1. CASE Invoke(u) \/ Crash(u) \/ \E bytes \in Release \cup {Junk} : Download(u, bytes)
    <3>1. run'[u].pc \in {"backup", "download", "stage", "idle"}
      <4>1. CASE BeginBackup(u)
        BY <1>0, <4>1 DEF BeginBackup, Go, RunType
      <4>2. ASSUME NEW want \in Release, NEW backup \in BOOLEAN, BeginUpgrade(u, want, backup)
            PROVE  run'[u].pc \in {"backup", "download"}
        BY <1>0, <4>2 DEF BeginUpgrade, RunType
      <4>3. CASE Crash(u)
        BY <1>0, <4>3 DEF Crash, Return, NoRun
      <4>4. ASSUME NEW bytes \in Release \cup {Junk}, Download(u, bytes) PROVE run'[u].pc = "stage"
        BY <1>0, <4>4 DEF Download, RunType
      <4>. QED
        BY <2>1, <4>1, <4>2, <4>3, <4>4 DEF Invoke
    <3>. QED
      BY <3>1 DEF Busy
  <2>2. CASE Stage(u) \/ StageWritten(u) \/ CopyToBak(u) \/ BakWritten(u)
    BY <1>0, <2>2 DEF Stage, StageWritten, CopyToBak, BakWritten, OpenFile, WriteOpen, Busy, RunType
  <2>3. CASE Probe(u) \/ restartService(u)
    BY <1>0, <2>3 DEF Probe, restartService, Go, Busy, RunType
  <2>4. CASE DownloadFails(u) \/ StepFails(u) \/ NoRestart(u) \/ Healthy(u) \/ Revive(u)
    <3>1. Stop(u, Disk)
      BY <2>4 DEF DownloadFails, StepFails, NoRestart, Healthy, Revive
    <3>2. run' = [v \in Runs |-> NoRun]
      BY <3>1, DiskIsTyped, StopLeaves DEF Inv, Types
    <3>. QED
      BY <3>2 DEF Busy, NoRun
  <2>5. CASE ProbeFails(u)
    <3>1. run[u].pc = "probe"
      BY <2>5 DEF ProbeFails, At
    <3>2. PICK d \in {Restored, Disk} : TakenBack(d) /\ Stop(u, d)
      BY <2>5 DEF ProbeFails
    <3>3. /\ d.run = run /\ d = [file |-> d.file, run |-> d.run]
          /\ d.file \in [Names -> Release \cup {Junk, 0}]
      BY <3>1, <3>2, TakenBackIs
    <3>4. run' = [v \in Runs |-> NoRun]
      BY <3>2, <3>3, StopLeaves DEF Inv, Types
    <3>. QED
      BY <3>4 DEF Busy, NoRun
  <2>6. CASE RollBack(u)
    <3>1. run[u].pc = "health"
      BY <2>6 DEF RollBack, At
    <3>2. PICK d \in {Restored, Disk} : TakenBack(d) /\ Become([d EXCEPT !.run[u].pc = "revive"])
      BY <2>6 DEF RollBack
    <3>3. d.run = run /\ d = [file |-> d.file, run |-> d.run]
      BY <3>1, <3>2, TakenBackIs
    <3>4. run' = [run EXCEPT ![u].pc = "revive"]
      BY <3>2, <3>3 DEF Become
    <3>. QED
      BY <1>0, <3>4 DEF Busy, RunType
  <2>7. CASE Swap(u)
    <3>1. \A v \in Runs : run[v].open = "none" /\ v = u
      BY <2>7 DEF Swap, Inv, Progress, At, OneRun
    <3>2. run' = [run EXCEPT ![u].pc = "probe"]
      BY <2>7, <3>1, RenameOnly DEF Swap, Become, Inv, Names, Rename, Disk
    <3>. QED
      BY <1>0, <3>2 DEF Busy, RunType
  <2>. QED
    BY <2>1, <2>2, <2>3, <2>4, <2>5, <2>6, <2>7
<1>. QED
  BY <1>0, <1>1, <1>2, SnapsKept

LEMMA SnapStep ==
    ASSUME Inv, SnapInv, OneRun, [Next]_vars
    PROVE  SnapInv'
<1>1. ASSUME NEW u \in Runs, Invoke(u) \/ Step(u) \/ Crash(u) PROVE SnapInv'
  BY <1>1, SnapBackup, SnapOther DEF Step
<1>2. CASE Respawn \/ Publish \/ UNCHANGED vars
  <2>1. UNCHANGED snapshots /\ run' = run
    BY <1>2 DEF Respawn, Publish, vars
  <2>. QED
    BY <2>1, SnapsKept
<1>. QED
  BY <1>1, <1>2 DEF Next

\* For any backup_keep, failed snapshots counted as they are, and whatever is
\* killed in between: once a backup was reported written, a good one is on disk.
THEOREM BackupIsKept ==
    ASSUME OneRun
    PROVE  Spec => []SnapshotKept
<1>1. Init => SnapInv
  BY UpgradeAssumption DEF Init, SnapInv, Busy, At, NoRun
<1>2. SnapInv => SnapshotKept
  BY DEF SnapInv, SnapshotKept, Snapshots
<1>3. Inv /\ SnapInv /\ [Next]_vars => Inv' /\ SnapInv'
  BY NextInv, SnapStep
<1>. QED
  BY <1>1, <1>2, <1>3, InitInv, PTL DEF Spec
=============================================================================
