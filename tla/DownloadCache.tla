--------------------------- MODULE DownloadCache ---------------------------
(***************************************************************************)
(* The quota-managed download cache of cutlass-cloud (cache.rs): a root    *)
(* directory, the paths in it that projects reference, leases for readers  *)
(* and writers, and the maintenance that excludes them.                    *)
(*                                                                         *)
(* A path is a root and a key.  The operations below are the cache's       *)
(* methods cut at their waits; a thread that uses the cache adds its own   *)
(* program counter to them (module CacheRegistry).  Sizes are counted in   *)
(* files, and the order of eviction (by modification time) is left open.   *)
(***************************************************************************)
EXTENDS Naturals, FiniteSets

CONSTANTS
  Key,       \* the cache keys, one per worker that downloads
  Root,      \* the directories the cache may live in
  Thread,    \* the threads that use the cache
  NoThread,  \* nobody
  Quota      \* the byte budget, in files

ASSUME CacheAssumption == NoThread \notin Thread /\ Quota \in Nat

VARIABLES
  root,         \* DownloadCache.root
  protected,    \* protected_paths
  blocked,      \* destructive_operations_blocked
  leases,       \* the DownloadCacheLeases: a thread and its path each
  maintenance,  \* activity.maintenance, as the thread that holds it
  victims,      \* the files the running eviction or clear has listed
  files         \* the complete files on disk

cache == <<root, protected, blocked, leases, maintenance, victims, files>>

Path == Root \X Key
Under(r) == {r} \X Key
Remap(paths, r) == {<<r, path[2]>> : path \in paths}

Leased(t) == {l[2] : l \in {m \in leases : m[1] = t}}

-----------------------------------------------------------------------------
(* lease: wait while maintenance runs.  Returned by its Drop. *)
BeginAccess(t, path) ==
  /\ maintenance = NoThread
  /\ leases' = leases \cup {<<t, path>>}
  /\ UNCHANGED <<root, protected, blocked, maintenance, victims, files>>

FinishAccess(t) ==
  /\ leases' = {l \in leases : l[1] # t}
  /\ UNCHANGED <<root, protected, blocked, maintenance, victims, files>>

(* protect_path, for every path given: those outside the root are refused. *)
Protect(paths) ==
  /\ protected' = protected \cup (paths \cap Under(root))
  /\ UNCHANGED <<root, blocked, leases, maintenance, victims, files>>

(* A complete inventory: protect what it found, then allow again. *)
ProtectAndAllow(paths) ==
  /\ protected' = protected \cup (paths \cap Under(root))
  /\ blocked' = FALSE
  /\ UNCHANGED <<root, leases, maintenance, victims, files>>

(* block_destructive_operations. *)
Block ==
  /\ blocked' = TRUE
  /\ UNCHANGED <<root, protected, leases, maintenance, victims, files>>

\* A fault: maintenance waits for other maintenance only.
QuiescentAnyway == maintenance = NoThread

(* begin_maintenance waits for every lease and for other maintenance. *)
Quiescent == maintenance = NoThread /\ leases = {}

BeginMaintenance(t) ==
  /\ Quiescent
  /\ maintenance' = t
  /\ UNCHANGED <<root, protected, blocked, leases, victims, files>>

EndMaintenance ==
  /\ maintenance' = NoThread
  /\ UNCHANGED <<root, protected, blocked, leases, victims, files>>

(* enforce_quota and clear copy the protected set and list the others. *)
Unprotected == (files \cap Under(root)) \ protected

ListVictims ==
  /\ victims' = Unprotected
  /\ UNCHANGED <<root, protected, blocked, leases, maintenance, files>>

(* clear has looked at the flag before: only the registry sets it. *)
BeginClear(t) ==
  /\ Quiescent
  /\ maintenance' = t
  /\ victims' = Unprotected
  /\ UNCHANGED <<root, protected, blocked, leases, files>>

(* Remove some of the files listed.  Maintenance ends. *)
RemoveListed(gone) ==
  /\ files' = files \ gone
  /\ victims' = {}
  /\ maintenance' = NoThread
  /\ UNCHANGED <<root, protected, blocked, leases>>

(* How many files eviction removes at most: until the rest is in budget. *)
OverQuota == IF Cardinality(victims) > Quota THEN Cardinality(victims) - Quota ELSE 0

(* A file appears, or goes, under a lease. *)
SetFiles(present) ==
  /\ files' = present
  /\ UNCHANGED <<root, protected, blocked, leases, maintenance, victims>>

(* switch_root runs the relocation's callback under maintenance ... *)
BeginSwitch(t, present) ==
  /\ Quiescent /\ ~blocked
  /\ maintenance' = t
  /\ files' = present
  /\ UNCHANGED <<root, protected, blocked, leases, victims>>

(* ... which may fail and leave the root as it was, *)
CancelSwitch(present) ==
  /\ files' = present
  /\ maintenance' = NoThread
  /\ UNCHANGED <<root, protected, blocked, leases, victims>>

\* A fault: the protected paths stay under the old root.
SwitchRootOnly(to, present) ==
  /\ root' = to
  /\ files' = present
  /\ maintenance' = NoThread
  /\ UNCHANGED <<protected, blocked, leases, victims>>

(* or else the root and the remapped paths are published in one step. *)
SwitchRoot(to, present) ==
  /\ root' = to
  /\ protected' = Remap(protected, to)
  /\ files' = present
  /\ maintenance' = NoThread
  /\ UNCHANGED <<blocked, leases, victims>>
=============================================================================
