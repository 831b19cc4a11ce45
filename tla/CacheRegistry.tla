--------------------------- MODULE CacheRegistry ---------------------------
(***************************************************************************)
(* The threads of the desktop application that share the download cache:   *)
(* the stock, AI and sound-effect importers (cloud.rs, ai_media.rs,        *)
(* sfx.rs), the template installer (templates.rs), the quota thread        *)
(* (wire_settings.rs), the cache registry's clear and relocate             *)
(* (cache_registry/registry.rs, relocate.rs over cutlass-storage/ops.rs)   *)
(* and the preview worker whose project and saved drafts refer to files.   *)
(*                                                                         *)
(* Locks, outermost first: the registry's gate (one registry operation at  *)
(* a time, so the registry is one thread here), the shared storage layout  *)
(* (SharedStorageLayout, a readers-writer lock whose waiting writer holds  *)
(* back new readers), the project maintenance lease (atomic here: module   *)
(* WorkerRpc shows what it does), the cache's leases and maintenance.      *)
(***************************************************************************)
EXTENDS DownloadCache, Sequences

CONSTANTS
  Importer,   \* workers that import what they download
  Checked,    \* the importers that verify a checksum (sfx.rs)
  Installer,  \* workers that install templates
  Settings,   \* the threads Settings starts for a new quota
  Registry,   \* the registry operation in progress
  Lease,      \* the lease request in the worker's queue
  Undo,       \* whether the user undoes changes made before a project lease
  MaxInbox    \* bound: imports waiting for the preview worker

ASSUME ThreadsAssumption ==
  /\ Key = Importer \cup Installer
  /\ Thread = Key \cup Settings \cup {Registry}
  /\ Registry \notin Key \cup Settings
  /\ Checked \subseteq Importer
  /\ Lease \notin Path
  /\ Undo \in BOOLEAN

VARIABLES
  layout,     \* the download path of the published storage layout
  readers,    \* threads that hold a StorageLayoutLease
  writing,    \* the layout's write lock is held, by a transition
  settings,   \* storage.paths.download in the configuration file
  pc,         \* the step each thread is at
  fetched,    \* the worker downloaded it (it was not there already)
  snapshot,   \* the references in the quota thread's copy of the project
  dest,       \* where a relocation goes
  copied,     \* it copies, because the directories are on two devices
  live,       \* cache paths the open project refers to
  saved,      \* cache paths a saved draft refers to
  past,       \* cache paths an undo or redo would bring back
  inbox,      \* imports and lease requests on the way to the preview worker
  paused      \* the preview worker waits for the end of a lease

locks == <<layout, readers, writing, settings>>
threads == <<pc, fetched, snapshot, dest, copied>>
project == <<live, saved, past, inbox, paused>>
vars == <<cache, locks, threads, project>>

References == live \cup saved

Init ==
  /\ root \in Root /\ layout = root /\ settings = root
  /\ protected = {} /\ blocked = FALSE /\ leases = {} /\ maintenance = NoThread
  /\ victims = {} /\ files = {} /\ readers = {} /\ writing = FALSE
  /\ pc = [t \in Thread |-> "idle"]
  /\ fetched = [k \in Key |-> FALSE]
  /\ snapshot = {} /\ dest = root /\ copied = FALSE
  /\ live = {} /\ saved = {} /\ past = {} /\ inbox = <<>> /\ paused = FALSE

-----------------------------------------------------------------------------
(* Steps of a thread. *)

At(t, step) == pc[t] = step
Goto(t, step) == pc' = [pc EXCEPT ![t] = step]

Moves(t, from, to) ==
  /\ At(t, from) /\ Goto(t, to)
  /\ UNCHANGED <<fetched, snapshot, dest, copied>>

(* A transition that waits for the write lock holds back new readers. *)
CanRead == ~writing /\ ~At(Registry, "write")

(* Where a worker goes when it is done with the cache. *)
Rest(t) == IF t \in Installer THEN "unpin" ELSE "idle"

-----------------------------------------------------------------------------
(* Importers and installers. *)

PinLayout(t) ==
  /\ t \in Installer
  /\ CanRead
  /\ readers' = readers \cup {t}
  /\ Moves(t, "idle", "pinned")
  /\ UNCHANGED <<cache, layout, writing, settings, project>>

\* A fault: the lease of the layout is not returned.
UnpinLayoutLater(t) ==
  /\ Moves(t, "unpin", "idle")
  /\ UNCHANGED <<cache, locks, project>>

UnpinLayout(t) ==
  /\ readers' = readers \ {t}
  /\ Moves(t, "unpin", "idle")
  /\ UNCHANGED <<cache, layout, writing, settings, project>>

(* DownloadCache::lease; the path is resolved under it. *)
TakeLease(k) ==
  /\ At(k, IF k \in Installer THEN "pinned" ELSE "idle")
  /\ BeginAccess(k, <<root, k>>)
  /\ Goto(k, "leased")
  /\ UNCHANGED <<fetched, snapshot, dest, copied, locks, project>>

(* A sound effect whose checksum does not match is deleted first. *)
Look(k) ==
  \/ /\ Leased(k) \subseteq files
     /\ Moves(k, "leased", "fetched")
     /\ UNCHANGED <<cache, locks, project>>
  \/ /\ k \in Checked \/ Leased(k) \cap files = {}
     /\ Moves(k, "leased", "download")
     /\ SetFiles(files \ Leased(k))
     /\ UNCHANGED <<locks, project>>

(* download_to writes a sibling and renames it, or leaves nothing. *)
Download(k) ==
  /\ At(k, "download")
  /\ \/ /\ SetFiles(files \cup Leased(k))
        /\ fetched' = [fetched EXCEPT ![k] = TRUE]
        /\ Goto(k, "fetched")
     \/ /\ FinishAccess(k)
        /\ Goto(k, Rest(k))
        /\ UNCHANGED fetched
  /\ UNCHANGED <<snapshot, dest, copied, locks, project>>

\* A fault: the file is handed over unprotected.
HandOverOnly(k) ==
  /\ k \in Importer
  /\ Len(SelectSeq(inbox, LAMBDA m : m # Lease)) < MaxInbox
  /\ Moves(k, "fetched", "sent")
  /\ \E p \in Leased(k) : inbox' = Append(inbox, p)
  /\ UNCHANGED <<cache, locks, live, saved, past, paused>>

(* protect_path, then the message to the worker; the lease is still held,  *)
(* so that nobody can tell the two apart.                                  *)
HandOver(k) ==
  /\ k \in Importer
  /\ Len(SelectSeq(inbox, LAMBDA m : m # Lease)) < MaxInbox
  /\ Moves(k, "fetched", "sent")
  /\ Protect(Leased(k))
  /\ \E p \in Leased(k) : inbox' = Append(inbox, p)
  /\ UNCHANGED <<locks, live, saved, past, paused>>

(* The lease ends; a quota check follows a download. *)
DropLease(k) ==
  /\ At(k, IF k \in Importer THEN "sent" ELSE "fetched")
  /\ Goto(k, IF fetched[k] THEN "enforce" ELSE Rest(k))
  /\ fetched' = [fetched EXCEPT ![k] = FALSE]
  /\ FinishAccess(k)
  /\ UNCHANGED <<snapshot, dest, copied, locks, project>>

-----------------------------------------------------------------------------
(* enforce_quota, by any thread but the registry. *)

(* The flag is looked at before the wait, and again after it. *)
Acquire(t) ==
  /\ \/ Moves(t, "enforce", Rest(t)) /\ (blocked \/ ~Quiescent) /\ UNCHANGED cache
     \/ Moves(t, "enforce", "list") /\ ~blocked /\ BeginMaintenance(t)
  /\ UNCHANGED <<locks, project>>

List(t) ==
  /\ \/ blocked /\ Moves(t, "list", Rest(t)) /\ EndMaintenance
     \/ ~blocked /\ Moves(t, "list", "evict") /\ ListVictims
  /\ UNCHANGED <<locks, project>>

(* A file that cannot be removed is skipped. *)
Evict(t) ==
  /\ Moves(t, "evict", Rest(t))
  /\ \E gone \in SUBSET victims :
       Cardinality(gone) <= OverQuota /\ RemoveListed(gone)
  /\ UNCHANGED <<locks, project>>

(* The quota was changed: protect what the open project refers to first. *)
SnapshotProject(t) ==
  /\ ~paused
  /\ At(t, "idle") /\ Goto(t, "protect")
  /\ snapshot' = live
  /\ UNCHANGED <<fetched, dest, copied, cache, locks, project>>

ProtectSnapshot(t) ==
  /\ At(t, "protect") /\ Goto(t, "enforce")
  /\ Protect(snapshot)
  /\ snapshot' = {}
  /\ UNCHANGED <<fetched, dest, copied, locks, project>>

-----------------------------------------------------------------------------
(* CacheRegistry::clear of the downloads. *)

StartClear ==
  /\ CanRead
  /\ readers' = readers \cup {Registry}
  /\ Moves(Registry, "idle", "block")
  /\ UNCHANGED <<cache, layout, writing, settings, project>>

RequestLease == inbox' = Append(inbox, Lease) /\ UNCHANGED <<live, saved, past, paused>>

BlockForClear ==
  /\ Moves(Registry, "block", "clear: lease")
  /\ Block
  /\ RequestLease
  /\ UNCHANGED locks

(* Cancelled, or the worker did not answer in time. *)
AbandonLease ==
  /\ \/ Moves(Registry, "clear: lease", "clear: unpin")
     \/ Moves(Registry, "move: lease", "unlock")
  /\ \E i \in DOMAIN inbox :
       /\ inbox[i] = Lease
       /\ inbox' = SubSeq(inbox, 1, i - 1) \o SubSeq(inbox, i + 1, Len(inbox))
  /\ UNCHANGED <<cache, locks, live, saved, past, paused>>

(* A complete inventory protects what it found; cancellation and an        *)
(* incomplete one leave the cache blocked.                                 *)
ProtectForClear ==
  /\ \/ Moves(Registry, "clear: inventory", "clear: acquire") /\ ProtectAndAllow(References)
     \/ Moves(Registry, "clear: inventory", "clear: resume") /\ UNCHANGED cache
  /\ UNCHANGED <<locks, project>>

CancelClear ==
  /\ Moves(Registry, "clear: acquire", "clear: resume")
  /\ Block
  /\ UNCHANGED <<locks, project>>

AcquireForClear ==
  /\ \/ Moves(Registry, "clear: acquire", "clear") /\ BeginClear(Registry)
     \/ Moves(Registry, "clear: acquire", "clear: resume") /\ ~Quiescent /\ UNCHANGED cache
  /\ UNCHANGED <<locks, project>>

(* An I/O error ends it early. *)
Clear ==
  /\ Moves(Registry, "clear", "clear: resume")
  /\ \E gone \in SUBSET victims : RemoveListed(gone)
  /\ UNCHANGED <<locks, project>>

ResumeAfterClear ==
  /\ Moves(Registry, "clear: resume", "clear: unpin")
  /\ paused' = FALSE
  /\ UNCHANGED <<cache, locks, live, saved, past, inbox>>

FinishClear ==
  /\ Moves(Registry, "clear: unpin", "idle")
  /\ readers' = readers \ {Registry}
  /\ UNCHANGED <<cache, layout, writing, settings, project>>

-----------------------------------------------------------------------------
(* CacheRegistry::relocate of the downloads. *)

Occupied(r) == files \cap Under(r) # {}

StartMove ==
  /\ At(Registry, "idle") /\ Goto(Registry, "write")
  /\ \E r \in Root \ {layout} : ~Occupied(r) /\ dest' = r
  /\ UNCHANGED <<fetched, snapshot, copied, cache, locks, project>>

LockLayout ==
  /\ readers = {}
  /\ Moves(Registry, "write", "move: lease")
  /\ writing' = TRUE
  /\ RequestLease
  /\ UNCHANGED <<cache, layout, readers, settings>>

(* Refused when incomplete, or when a project refers to the cache. *)
CheckReferences ==
  /\ \/ Moves(Registry, "move: inventory", "switch") /\ References \cap Under(layout) = {}
     \/ Moves(Registry, "move: inventory", "unlock")
  /\ UNCHANGED <<cache, locks, project>>

(* relocate_with_strategy: one rename, or a copy that is renamed into place. *)
MoveFiles ==
  /\ At(Registry, "switch")
  /\ \/ /\ ~Occupied(dest)
        /\ \E copy \in BOOLEAN :
             /\ copied' = copy
             /\ BeginSwitch(Registry,
                  (IF copy THEN files ELSE files \ Under(root))
                    \cup Remap(files \cap Under(root), dest))
        /\ Goto(Registry, "persist")
     \/ Goto(Registry, "unlock") /\ UNCHANGED <<cache, copied>>
  /\ UNCHANGED <<fetched, snapshot, dest, locks, project>>

SaveSettings ==
  /\ Moves(Registry, "persist", "commit")
  /\ settings' = dest
  /\ UNCHANGED <<cache, layout, readers, writing, project>>

(* The settings were not saved: undo the move, unless that fails too. *)
RollBack ==
  /\ Moves(Registry, "persist", "unlock")
  /\ \/ CancelSwitch(IF copied THEN files \ Under(dest)
                      ELSE (files \ Under(dest)) \cup Remap(files \cap Under(dest), root))
     \/ \E left \in SUBSET (files \cap Under(dest)) :
          /\ copied \/ left = files \cap Under(dest)
          /\ CancelSwitch((files \ Under(dest)) \cup left)
  /\ UNCHANGED <<locks, project>>

(* After a copy the old files go, as far as they can be removed. *)
Commit ==
  /\ Moves(Registry, "commit", "publish")
  /\ \E left \in SUBSET (files \cap Under(root)) :
       (copied \/ left = {}) /\ SwitchRoot(dest, (files \ Under(root)) \cup left)
  /\ UNCHANGED <<locks, project>>

Publish ==
  /\ Moves(Registry, "publish", "resume")
  /\ layout' = dest
  /\ writing' = FALSE
  /\ UNCHANGED <<cache, readers, settings, project>>

UnlockLayout ==
  /\ Moves(Registry, "unlock", "resume")
  /\ writing' = FALSE
  /\ UNCHANGED <<cache, layout, readers, settings, project>>

ResumeAfterMove ==
  /\ At(Registry, "resume") /\ Goto(Registry, "idle")
  /\ paused' = FALSE
  /\ dest' = layout /\ copied' = FALSE
  /\ UNCHANGED <<fetched, snapshot>>
  /\ UNCHANGED <<cache, locks, live, saved, past, inbox>>

-----------------------------------------------------------------------------
(* The preview worker, between leases. *)

(* An import of a file that is gone fails. *)
HandleImport ==
  /\ ~paused
  /\ inbox # <<>> /\ Head(inbox) # Lease
  /\ inbox' = Tail(inbox)
  /\ live' = IF Head(inbox) \in files THEN live \cup {Head(inbox)} ELSE live
  /\ UNCHANGED <<saved, past, paused, cache, locks, threads>>

Grant ==
  /\ ~paused
  /\ inbox # <<>> /\ Head(inbox) = Lease
  /\ inbox' = Tail(inbox)
  /\ paused' = TRUE
  /\ past' = IF Undo THEN past ELSE {}
  /\ \/ Moves(Registry, "clear: lease", "clear: inventory")
     \/ Moves(Registry, "move: lease", "move: inventory")
  /\ UNCHANGED <<live, saved, cache, locks>>

(* RemoveMedia, or the undo of an import. *)
RemoveMedia(p) ==
  /\ ~paused
  /\ p \in live
  /\ live' = live \ {p}
  /\ past' = past \cup {p}
  /\ UNCHANGED <<saved, inbox, paused, cache, locks, threads>>

(* Undo of RemoveMedia, or redo of an import: the file is not looked at. *)
RestoreMedia(p) ==
  /\ ~paused
  /\ p \in past
  /\ live' = live \cup {p}
  /\ past' = past \ {p}
  /\ UNCHANGED <<saved, inbox, paused, cache, locks, threads>>

Save ==
  /\ ~paused
  /\ saved' = live
  /\ UNCHANGED <<live, past, inbox, paused, cache, locks, threads>>

(* The draft is opened again, with an empty history. *)
Reopen ==
  /\ ~paused
  /\ live' = saved /\ past' = {}
  /\ UNCHANGED <<saved, inbox, paused, cache, locks, threads>>

(* The process ends and starts again: files, drafts and settings remain.   *)
(* Startup protects what the saved drafts refer to; when it cannot read    *)
(* all of them the cache stays blocked.                                    *)
Restart ==
  /\ root' = settings /\ layout' = settings
  /\ \E complete \in BOOLEAN :
       /\ protected' = IF complete THEN saved \cap Under(settings) ELSE {}
       /\ blocked' = ~complete
  /\ leases' = {} /\ maintenance' = NoThread /\ victims' = {}
  /\ readers' = {} /\ writing' = FALSE
  /\ pc' = [t \in Thread |-> "idle"]
  /\ fetched' = [k \in Key |-> FALSE]
  /\ snapshot' = {} /\ dest' = settings /\ copied' = FALSE
  /\ live' = saved /\ past' = {} /\ inbox' = <<>> /\ paused' = FALSE
  /\ UNCHANGED <<files, settings, saved>>

-----------------------------------------------------------------------------
Enforce(t) == Acquire(t) \/ List(t) \/ Evict(t)

Work(k) ==
  \/ Look(k) \/ Download(k) \/ HandOver(k)
  \/ DropLease(k) \/ Enforce(k) \/ UnpinLayout(k)

ClearDownloads ==
  \/ BlockForClear \/ ProtectForClear \/ CancelClear
  \/ AcquireForClear \/ Clear \/ ResumeAfterClear \/ FinishClear

Relocate ==
  \/ LockLayout \/ CheckReferences \/ MoveFiles
  \/ SaveSettings \/ RollBack \/ Commit \/ Publish
  \/ UnlockLayout \/ ResumeAfterMove

Operate == ClearDownloads \/ Relocate \/ AbandonLease

Edit == Save \/ Reopen \/ \E p \in Path : RemoveMedia(p) \/ RestoreMedia(p)

Next ==
  \/ \E k \in Key : PinLayout(k) \/ TakeLease(k) \/ Work(k)
  \/ \E t \in Settings : SnapshotProject(t) \/ ProtectSnapshot(t) \/ Enforce(t)
  \/ StartClear \/ StartMove \/ Operate
  \/ HandleImport \/ Grant \/ Edit
  \/ Restart

Spec == Init /\ [][Next]_vars

(***************************************************************************)
(* Every thread goes on when it can, and a thread that waits for a lease   *)
(* of the cache, woken by each end of maintenance, gets the mutex at last. *)
(* Downloads and filesystem work end.  Nothing makes a thread start.       *)
(***************************************************************************)
FairSpec ==
  /\ Spec
  /\ \A k \in Key : WF_vars(Work(k))
  /\ \A k \in Installer : SF_vars(TakeLease(k))
  /\ \A t \in Settings : WF_vars(ProtectSnapshot(t) \/ Enforce(t))
  /\ WF_vars(Operate) /\ WF_vars(HandleImport) /\ WF_vars(Grant)
-----------------------------------------------------------------------------
Step ==
  {"idle", "pinned", "leased", "download", "fetched", "sent", "enforce", "list",
   "evict", "protect", "unpin", "block", "clear: lease", "clear: inventory",
   "clear: acquire", "clear", "clear: resume", "clear: unpin", "write",
   "move: lease", "move: inventory", "switch", "persist", "commit", "publish",
   "unlock", "resume"}

(* Types. *)
TypeOK ==
  /\ root \in Root /\ layout \in Root /\ settings \in Root /\ dest \in Root
  /\ protected \subseteq Path /\ victims \subseteq Path /\ files \subseteq Path
  /\ blocked \in BOOLEAN /\ writing \in BOOLEAN /\ copied \in BOOLEAN
  /\ paused \in BOOLEAN
  /\ leases \subseteq Key \X Path /\ readers \subseteq Thread
  /\ maintenance \in Thread \cup {NoThread}
  /\ pc \in [Thread -> Step]
  /\ fetched \in [Key -> BOOLEAN]
  /\ snapshot \subseteq Path
  /\ live \subseteq Path /\ saved \subseteq Path /\ past \subseteq Path
  /\ inbox \in Seq(Path \cup {Lease})

(* A worker that has fetched its file finds it where its lease says, under *)
(* the root the cache has now, until it lets go of the lease.              *)
LeasedFileStays ==
  \A k \in Key :
    pc[k] \in {"fetched", "sent"} =>
      /\ Leased(k) # {}
      /\ Leased(k) \subseteq files \cap Under(root)

(* Outside a relocation the cache, the published layout and the settings a *)
(* restart would read name one directory; the protected paths are in it.   *)
RootsAgree ==
  /\ ~writing => root = layout /\ root = settings
  /\ protected \subseteq Under(root)

(* Eviction, clearing and relocation never take away a file that the open  *)
(* project or a saved draft refers to at that moment.                      *)
MaintenanceSparesReferences ==
  [][maintenance # NoThread => References \cap files \subseteq files']_vars

(* No thread waits for ever: neither for the layout, nor for the lease of  *)
(* the project, nor for the cache.                                         *)
EveryThreadReturns ==
  \A t \in Thread : pc[t] # "idle" ~> pc[t] = "idle"

(* What the open project refers to is there. *)
ReferencesKept == live \subseteq files
=============================================================================
