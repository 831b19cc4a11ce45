---------------------------- MODULE CacheProofs ----------------------------
(***************************************************************************)
(* Theorems about CacheRegistry, for any set of workers, quota threads and *)
(* directories, any quota and any number of imports on their way.          *)
(*                                                                         *)
(* A file is removed by four kinds of step of different threads, each      *)
(* under its own lock, and is kept for three reasons: a lease, a protected *)
(* path, or its being outside the cache.  The invariant has two layers.    *)
(* The first says who holds what: the published directories, the leases    *)
(* and the maintenance, by the step each thread is at.  The second follows *)
(* a reference from the hand-over of a file, through the inbox, into the   *)
(* project, its history and its drafts.                                    *)
(***************************************************************************)
EXTENDS CacheRegistry, SequenceTheorems, TLAPS

-----------------------------------------------------------------------------
(* Who holds what *)

(* The registry holds the layout's write lock. *)
Moving ==
  {"move: lease", "move: inventory", "switch", "persist", "commit", "publish", "unlock"}

(* A worker holds a lease. *)
Working == {"leased", "download", "fetched", "sent"}

(* A thread holds the maintenance. *)
Owning == {"list", "evict", "clear", "persist", "commit"}

RootInv ==
  /\ writing <=> pc[Registry] \in Moving
  /\ layout = root \/ pc[Registry] = "publish"
  /\ settings = IF pc[Registry] \in {"commit", "publish"} THEN dest ELSE root
  /\ pc[Registry] = "publish" => root = dest
  /\ pc[Registry] \in {"write", "move: lease", "move: inventory", "switch", "persist", "commit"}
       => dest # root
  /\ protected \subseteq Under(root)

LeaseInv ==
  /\ \A l \in leases : l[2] = <<root, l[1]>> /\ pc[l[1]] \in Working
  /\ \A k \in Key : pc[k] \in Working => <<k, <<root, k>>>> \in leases
  /\ \A k \in Key : pc[k] \in {"fetched", "sent"} => <<root, k>> \in files

MaintInv ==
  /\ maintenance # NoThread => leases = {}
  /\ \A t \in Thread : pc[t] \in Owning => maintenance = t
  /\ victims # {} => maintenance \in Thread /\ pc[maintenance] \in {"evict", "clear"}

HoldInv == TypeOK /\ RootInv /\ LeaseInv /\ MaintInv

-----------------------------------------------------------------------------
(* Where references go *)

(* What the project, its drafts or its history mention. *)
Mentioned == live \cup saved \cup past

(* What is listed for removal is wanted by nobody. *)
VictimInv ==
  /\ victims \subseteq Under(root) \ Mentioned
  /\ \A i \in DOMAIN inbox : inbox[i] \notin victims

(* What is on its way to the project is protected; what was sent after a   *)
(* lease request is in the directory that the lease may move.              *)
InboxInv ==
  /\ \A i \in DOMAIN inbox : inbox[i] \in Under(root) => inbox[i] \in protected
  /\ \A i \in DOMAIN inbox : inbox[i] = Lease =>
       /\ pc[Registry] \in {"clear: lease", "move: lease"}
       /\ \A j \in DOMAIN inbox : j > i => inbox[j] \in Under(root)
  /\ pc[Registry] \in {"move: inventory", "switch", "persist", "commit"} =>
       \A i \in DOMAIN inbox : inbox[i] \in Under(root)

(* The registry works under a lease of the project. *)
Granted ==
  {"clear: inventory", "clear: acquire", "move: inventory", "switch", "persist", "commit"}

RefInv ==
  /\ Mentioned \cap Under(root) \subseteq protected \/ blocked
  /\ Mentioned \ Under(root) \subseteq files
  /\ pc[Registry] \in Granted => paused /\ past = {}
  /\ pc[Registry] \in {"switch", "persist", "commit"} => References \cap Under(root) = {}
  /\ pc[Registry] \in {"persist", "commit"} => References \cap Under(dest) = {}
  /\ pc[Registry] = "clear: acquire" => ~blocked

ReferenceInv == VictimInv /\ InboxInv /\ RefInv

-----------------------------------------------------------------------------
(* Threads and paths *)

LEMMA Threads ==
  /\ Registry \in Thread
  /\ \A t \in Key \cup Settings : t \in Thread /\ t # Registry
  /\ NoThread \notin Thread
  BY ThreadsAssumption, CacheAssumption

LEMMA PcMoves ==
  ASSUME TypeOK, NEW t \in Thread, NEW step \in Step, Goto(t, step)
  PROVE  /\ pc' \in [Thread -> Step] /\ pc'[t] = step
         /\ \A u \in Thread : u # t => pc'[u] = pc[u]
  BY DEF TypeOK, Goto

LEMMA PathsUnder ==
  ASSUME NEW r \in Root, NEW s \in Root
  PROVE  /\ Under(r) \subseteq Path
         /\ \A k \in Key : <<r, k>> \in Under(r)
         /\ r # s => Under(r) \cap Under(s) = {}
         /\ \A S \in SUBSET Path : Remap(S, r) \subseteq Under(r)
  BY DEF Under, Path, Remap

LEMMA LeaseOf ==
  ASSUME HoldInv, NEW k \in Key
  PROVE  /\ pc[k] \in Working => Leased(k) = {<<root, k>>}
         /\ pc[k] \notin Working => Leased(k) = {}
         /\ \A l \in leases : l[1] = k => l = <<k, <<root, k>>>>
         /\ Leased(k) \subseteq Under(root)
<1>1. \A l \in leases : l \in Key \X Path
  BY DEF HoldInv, TypeOK
<1>2. \A l \in leases : l[1] = k => l = <<k, <<root, k>>>>
  BY <1>1 DEF HoldInv, LeaseInv
<1>3. pc[k] \in Working => Leased(k) = {<<root, k>>}
  BY <1>2 DEF HoldInv, LeaseInv, Leased
<1>4. pc[k] \notin Working => Leased(k) = {}
  BY <1>2 DEF HoldInv, LeaseInv, Leased
<1>5. <<root, k>> \in Under(root)
  BY DEF Under
<1>6. QED
  BY <1>2, <1>3, <1>4, <1>5

-----------------------------------------------------------------------------
(* The workers keep the first layer *)

(***************************************************************************)
(* A worker or a quota check moves on: the registry stays where it is, and *)
(* so the directories agree as before.                                     *)
(***************************************************************************)
LEMMA RegistryRests ==
  ASSUME HoldInv, NEW t \in Key \cup Settings, NEW step \in Step, Goto(t, step),
         UNCHANGED <<root, locks, dest>> \/ UNCHANGED <<root, layout, settings, writing, dest>>,
         protected' \subseteq Under(root)
  PROVE  RootInv'
<1>1. pc'[Registry] = pc[Registry]
  BY Threads, PcMoves DEF HoldInv
<1>2. UNCHANGED <<root, layout, settings, writing, dest>>
  BY DEF locks
<1>3. protected' \subseteq Under(root')
  BY <1>2
<1>4. QED
  BY <1>1, <1>2, <1>3 DEF HoldInv, RootInv

(* A thread moves on that holds neither lease nor maintenance. *)
LEMMA HoldersRest ==
  ASSUME HoldInv, NEW t \in Thread, NEW step \in Step, Goto(t, step),
         pc[t] \notin Working \cup Owning, step \notin Working \cup Owning,
         UNCHANGED <<root, files, leases, maintenance, victims>>
  PROVE  LeaseInv' /\ MaintInv'
<1>1. pc'[t] = step /\ \A u \in Thread : u # t => pc'[u] = pc[u]
  BY PcMoves DEF HoldInv
<1>2. Key \subseteq Thread /\ \A l \in leases : l[1] \in Thread
  BY Threads DEF HoldInv, TypeOK
<1>3. LeaseInv'
  BY <1>1, <1>2 DEF HoldInv, LeaseInv, Working
<1>4. MaintInv'
  BY <1>1 DEF HoldInv, MaintInv, Owning
<1>5. QED
  BY <1>3, <1>4

LEMMA PinLayoutHolds ==
  ASSUME HoldInv, NEW k \in Key, PinLayout(k) \/ UnpinLayout(k) PROVE HoldInv'
<1>1. PICK step \in {"pinned", "idle"} :
        Goto(k, step) /\ pc[k] \in {"idle", "unpin"} /\ readers' \subseteq readers \cup {k}
  BY DEF PinLayout, UnpinLayout, Moves, At
<1>2. UNCHANGED <<cache, layout, writing, settings, project, fetched, snapshot, dest, copied>>
  BY DEF PinLayout, UnpinLayout, Moves
<1>3. TypeOK'
  BY <1>1, <1>2, PcMoves, Threads DEF HoldInv, TypeOK, Step, cache, project
<1>4. RootInv'
  BY <1>1, <1>2, RegistryRests DEF HoldInv, RootInv, Step, cache
<1>5. LeaseInv' /\ MaintInv'
  BY <1>1, <1>2, HoldersRest, Threads DEF Step, Working, Owning, cache
<1>6. QED
  BY <1>3, <1>4, <1>5 DEF HoldInv

LEMMA TakeLeaseHolds ==
  ASSUME HoldInv, NEW k \in Key, TakeLease(k) PROVE HoldInv'
<1>1. /\ Goto(k, "leased") /\ pc[k] \in {"pinned", "idle"}
      /\ maintenance = NoThread /\ leases' = leases \cup {<<k, <<root, k>>>>}
      /\ UNCHANGED <<root, protected, blocked, maintenance, victims, files>>
      /\ UNCHANGED <<fetched, snapshot, dest, copied, locks, project>>
  BY DEF TakeLease, BeginAccess, At
<1>2. /\ pc' \in [Thread -> Step] /\ pc'[k] = "leased"
      /\ \A u \in Thread : u # k => pc'[u] = pc[u]
  BY <1>1, PcMoves, Threads DEF HoldInv, Step
<1>3. TypeOK'
  BY <1>1, <1>2 DEF HoldInv, TypeOK, locks, project, Path
<1>4. RootInv'
  BY <1>1, RegistryRests DEF HoldInv, RootInv, Step
<1>5. LeaseInv'
  <2>1. \A l \in leases' : l[1] \in Thread /\ (l \in leases \/ l = <<k, <<root, k>>>>)
    BY <1>1, Threads DEF HoldInv, TypeOK
  <2>2. \A l \in leases' : l[2] = <<root', l[1]>> /\ pc'[l[1]] \in Working
    BY <1>1, <1>2, <2>1 DEF HoldInv, LeaseInv, Working
  <2>3. QED
    BY <1>1, <1>2, <2>2, Threads DEF HoldInv, LeaseInv, Working
<1>6. MaintInv'
  BY <1>1, <1>2, Threads DEF HoldInv, MaintInv, Owning
<1>7. QED
  BY <1>3, <1>4, <1>5, <1>6 DEF HoldInv

(* A worker that holds a lease keeps it; only its own file changes. *)
LEMMA LeaseKept ==
  ASSUME HoldInv, NEW k \in Key, NEW step \in Working, Goto(k, step), pc[k] \in Working,
         UNCHANGED <<root, leases, maintenance, victims>>,
         files' \ Leased(k) = files \ Leased(k),
         step \in {"fetched", "sent"} => Leased(k) \subseteq files'
  PROVE  LeaseInv' /\ MaintInv'
<1>1. step \in Step
  BY DEF Working, Step
<1>2. pc'[k] = step /\ \A u \in Thread : u # k => pc'[u] = pc[u]
  BY <1>1, PcMoves, Threads DEF HoldInv
<1>3. Leased(k) = {<<root, k>>}
  BY LeaseOf
<1>4. \A j \in Key : j # k => <<root, j>> # <<root, k>>
  OBVIOUS
<1>5. \A l \in leases : l[1] \in Thread
  BY Threads DEF HoldInv, TypeOK
<1>6. LeaseInv'
  <2>1. \A j \in Key : pc'[j] \in {"fetched", "sent"} => <<root, j>> \in files'
    BY <1>2, <1>3, <1>4, Threads DEF HoldInv, LeaseInv
  <2>2. QED
    BY <1>2, <1>5, <2>1, Threads DEF HoldInv, LeaseInv
<1>7. MaintInv'
  BY <1>2 DEF HoldInv, MaintInv, Owning, Working
<1>8. QED
  BY <1>6, <1>7

LEMMA LookHolds ==
  ASSUME HoldInv, NEW k \in Key, Look(k) PROVE HoldInv'
<1>1. PICK step \in {"fetched", "download"} :
        /\ Goto(k, step) /\ pc[k] = "leased"
        /\ files' = files \ Leased(k) \/ (files' = files /\ Leased(k) \subseteq files)
        /\ step = "fetched" => files' = files /\ Leased(k) \subseteq files
  BY DEF Look, Moves, At, SetFiles, cache
<1>2. /\ UNCHANGED <<root, protected, blocked, leases, maintenance, victims>>
      /\ UNCHANGED <<fetched, snapshot, dest, copied, locks, project>>
  BY DEF Look, Moves, SetFiles, cache
<1>3. TypeOK'
  BY <1>1, <1>2, PcMoves, Threads DEF HoldInv, TypeOK, Step, locks, project
<1>4. RootInv'
  BY <1>1, <1>2, RegistryRests DEF HoldInv, RootInv, Step
<1>5. LeaseInv' /\ MaintInv'
  BY <1>1, <1>2, LeaseKept DEF Working
<1>6. QED
  BY <1>3, <1>4, <1>5 DEF HoldInv

LEMMA HandOverHolds ==
  ASSUME HoldInv, NEW k \in Key, HandOver(k) PROVE HoldInv'
<1>1. /\ Goto(k, "sent") /\ pc[k] = "fetched"
      /\ protected' = protected \cup (Leased(k) \cap Under(root))
      /\ \E p \in Leased(k) : inbox' = Append(inbox, p)
      /\ UNCHANGED <<root, blocked, leases, maintenance, victims, files>>
      /\ UNCHANGED <<fetched, snapshot, dest, copied, locks, live, saved, past, paused>>
  BY DEF HandOver, Moves, At, Protect
<1>2. Leased(k) = {<<root, k>>} /\ <<root, k>> \in Path /\ <<root, k>> \in files
  BY <1>1, LeaseOf DEF HoldInv, TypeOK, LeaseInv, Working, Path
<1>3. inbox' \in Seq(Path \cup {Lease})
  <2>1. PICK p \in Path \cup {Lease} : inbox' = Append(inbox, p)
    BY <1>1, <1>2
  <2>2. inbox \in Seq(Path \cup {Lease})
    BY DEF HoldInv, TypeOK
  <2>3. QED
    BY <2>1, <2>2, AppendProperties
<1>4. TypeOK'
  BY <1>1, <1>2, <1>3, PcMoves, Threads DEF HoldInv, TypeOK, Step, locks
<1>5. RootInv'
  BY <1>1, RegistryRests DEF HoldInv, RootInv, Step
<1>6. LeaseInv' /\ MaintInv'
  BY <1>1, <1>2, LeaseKept DEF Working
<1>7. QED
  BY <1>4, <1>5, <1>6 DEF HoldInv

(* A worker gives its lease back. *)
LEMMA LeaseGivenBack ==
  ASSUME HoldInv, NEW k \in Key, NEW step \in Step, Goto(k, step), pc[k] \in Working,
         step \notin Working \cup Owning, FinishAccess(k)
  PROVE  LeaseInv' /\ MaintInv' /\ leases' \subseteq Key \X Path
<1>1. pc'[k] = step /\ \A u \in Thread : u # k => pc'[u] = pc[u]
  BY PcMoves, Threads DEF HoldInv
<1>2. \A l \in leases' : l \in leases /\ l[1] # k /\ l[1] \in Thread
  BY Threads DEF FinishAccess, HoldInv, TypeOK
<1>3. \A j \in Key : j # k /\ <<j, <<root, j>>>> \in leases => <<j, <<root, j>>>> \in leases'
  BY DEF FinishAccess
<1>4. LeaseInv'
  <2>1. root' = root /\ files' = files
    BY DEF FinishAccess
  <2>2. \A l \in leases' : l[2] = <<root', l[1]>> /\ pc'[l[1]] \in Working
    BY <1>1, <1>2, <2>1 DEF HoldInv, LeaseInv
  <2>3. \A j \in Key : pc'[j] \in Working => j # k /\ pc[j] \in Working
    BY <1>1, Threads
  <2>4. \A j \in Key : pc'[j] \in Working => <<j, <<root', j>>>> \in leases'
    BY <1>3, <2>1, <2>3 DEF HoldInv, LeaseInv
  <2>5. \A j \in Key : pc'[j] \in {"fetched", "sent"} => <<root', j>> \in files'
    BY <1>1, <2>1, <2>3, Threads DEF HoldInv, LeaseInv, Working
  <2>6. QED
    BY <2>2, <2>4, <2>5 DEF LeaseInv
<1>5. MaintInv'
  BY <1>1, <1>2 DEF FinishAccess, HoldInv, MaintInv, Owning, Working
<1>6. QED
  BY <1>2, <1>4, <1>5 DEF HoldInv, TypeOK

LEMMA DownloadHolds ==
  ASSUME HoldInv, NEW k \in Key, Download(k) PROVE HoldInv'
<1>1. /\ pc[k] = "download"
      /\ UNCHANGED <<snapshot, dest, copied, locks, project>>
  BY DEF Download, At
<1>2. CASE /\ SetFiles(files \cup Leased(k)) /\ Goto(k, "fetched")
           /\ fetched' = [fetched EXCEPT ![k] = TRUE]
  <2>1. Leased(k) \subseteq Path
    BY LeaseOf, PathsUnder DEF HoldInv, TypeOK
  <2>2. TypeOK'
    BY <1>1, <1>2, <2>1, PcMoves, Threads DEF HoldInv, TypeOK, Step, SetFiles, locks, project
  <2>3. RootInv'
    BY <1>1, <1>2, RegistryRests DEF HoldInv, RootInv, Step, SetFiles
  <2>4. LeaseInv' /\ MaintInv'
    BY <1>1, <1>2, LeaseKept DEF Working, SetFiles
  <2>5. QED
    BY <2>2, <2>3, <2>4 DEF HoldInv
<1>3. CASE FinishAccess(k) /\ Goto(k, Rest(k)) /\ UNCHANGED fetched
  <2>1. Rest(k) \in {"idle", "unpin"}
    BY DEF Rest
  <2>2. LeaseInv' /\ MaintInv' /\ leases' \subseteq Key \X Path
    BY <1>1, <1>3, <2>1, LeaseGivenBack DEF Step, Working, Owning
  <2>3. TypeOK'
    BY <1>1, <1>3, <2>1, <2>2, PcMoves, Threads
       DEF HoldInv, TypeOK, Step, FinishAccess, locks, project
  <2>4. RootInv'
    BY <1>1, <1>3, <2>1, RegistryRests DEF HoldInv, RootInv, Step, FinishAccess
  <2>5. QED
    BY <2>2, <2>3, <2>4 DEF HoldInv
<1>4. QED
  BY <1>2, <1>3 DEF Download

LEMMA DropLeaseHolds ==
  ASSUME HoldInv, NEW k \in Key, DropLease(k) PROVE HoldInv'
<1>1. PICK step \in {"enforce", "idle", "unpin"} : Goto(k, step)
  BY DEF DropLease, Rest
<1>2. /\ pc[k] \in {"sent", "fetched"} /\ FinishAccess(k)
      /\ fetched' = [fetched EXCEPT ![k] = FALSE]
      /\ UNCHANGED <<snapshot, dest, copied, locks, project>>
  BY DEF DropLease, At
<1>3. LeaseInv' /\ MaintInv' /\ leases' \subseteq Key \X Path
  BY <1>1, <1>2, LeaseGivenBack DEF Step, Working, Owning
<1>4. TypeOK'
  BY <1>1, <1>2, <1>3, PcMoves, Threads
     DEF HoldInv, TypeOK, Step, FinishAccess, locks, project
<1>5. RootInv'
  BY <1>1, <1>2, RegistryRests DEF HoldInv, RootInv, Step, FinishAccess
<1>6. QED
  BY <1>3, <1>4, <1>5 DEF HoldInv

-----------------------------------------------------------------------------
(* The quota checks keep the first layer *)

(* A thread takes the maintenance: nobody holds a lease. *)
LEMMA MaintenanceTaken ==
  ASSUME HoldInv, NEW t \in Thread, NEW step \in Owning, Goto(t, step),
         pc[t] \notin Working \cup Owning, Quiescent, maintenance' = t,
         UNCHANGED <<root, leases>>,
         victims' # {} => step \in {"evict", "clear"}
  PROVE  LeaseInv' /\ MaintInv'
<1>1. step \in Step /\ step \notin Working
  BY DEF Owning, Step, Working
<1>2. pc'[t] = step /\ \A u \in Thread : u # t => pc'[u] = pc[u]
  BY <1>1, PcMoves DEF HoldInv
<1>3. \A u \in Thread : pc[u] \notin Owning
  BY Threads DEF Quiescent, HoldInv, MaintInv
<1>4. LeaseInv'
  BY <1>1, <1>2, Threads DEF Quiescent, HoldInv, LeaseInv, Working
<1>5. MaintInv'
  BY <1>2, <1>3 DEF Quiescent, MaintInv
<1>6. QED
  BY <1>4, <1>5

(* A thread that has the maintenance gives it back, or goes on with it. *)
LEMMA MaintenanceKept ==
  ASSUME HoldInv, NEW t \in Thread, NEW step \in Step, Goto(t, step),
         pc[t] \in Owning, step \notin Working, UNCHANGED leases,
         \/ step \in Owning /\ maintenance' = maintenance
         \/ step \notin Owning /\ maintenance' = NoThread,
         victims' # {} => step \in {"evict", "clear"}
  PROVE  LeaseInv' /\ MaintInv'
<1>1. pc'[t] = step /\ \A u \in Thread : u # t => pc'[u] = pc[u]
  BY PcMoves DEF HoldInv
<1>2. /\ maintenance = t /\ leases = {} /\ t # NoThread
      /\ \A u \in Thread : pc[u] \in Owning => u = t
  BY Threads DEF HoldInv, MaintInv
<1>3. \A k \in Key : pc[k] \notin Working
  BY <1>2 DEF HoldInv, LeaseInv
<1>4. LeaseInv'
  BY <1>1, <1>2, <1>3, Threads DEF LeaseInv, Working
<1>5. MaintInv'
  BY <1>1, <1>2 DEF MaintInv, Owning
<1>6. QED
  BY <1>4, <1>5

LEMMA AcquireHolds ==
  ASSUME HoldInv, NEW t \in Key \cup Settings, Acquire(t) PROVE HoldInv'
<1>1. /\ pc[t] = "enforce" /\ UNCHANGED <<fetched, snapshot, dest, copied, locks, project>>
      /\ Rest(t) \in {"idle", "unpin"} /\ t \in Thread
  BY Threads DEF Acquire, Moves, At, Rest
<1>2. CASE Goto(t, Rest(t)) /\ UNCHANGED cache
  <2>1. TypeOK'
    BY <1>1, <1>2, PcMoves DEF HoldInv, TypeOK, Step, cache, locks, project
  <2>2. RootInv'
    BY <1>1, <1>2, RegistryRests DEF HoldInv, RootInv, Step, cache
  <2>3. LeaseInv' /\ MaintInv'
    BY <1>1, <1>2, HoldersRest DEF Step, Working, Owning, cache
  <2>4. QED
    BY <2>1, <2>2, <2>3 DEF HoldInv
<1>3. CASE Goto(t, "list") /\ BeginMaintenance(t)
  <2>1. TypeOK'
    BY <1>1, <1>3, PcMoves DEF HoldInv, TypeOK, Step, BeginMaintenance, locks, project
  <2>2. RootInv'
    BY <1>1, <1>3, RegistryRests DEF HoldInv, RootInv, Step, BeginMaintenance
  <2>3. victims' = {}
    BY <1>3, Threads DEF BeginMaintenance, Quiescent, HoldInv, MaintInv
  <2>4. LeaseInv' /\ MaintInv'
    BY <1>1, <1>3, <2>3, MaintenanceTaken DEF BeginMaintenance, Working, Owning
  <2>5. QED
    BY <2>1, <2>2, <2>4 DEF HoldInv
<1>4. QED
  BY <1>2, <1>3 DEF Acquire, Moves

LEMMA ListHolds ==
  ASSUME HoldInv, NEW t \in Key \cup Settings, List(t) PROVE HoldInv'
<1>1. /\ pc[t] = "list" /\ UNCHANGED <<fetched, snapshot, dest, copied, locks, project>>
      /\ Rest(t) \in {"idle", "unpin"} /\ t \in Thread
  BY Threads DEF List, Moves, At, Rest
<1>2. maintenance = t /\ victims = {}
  BY <1>1 DEF HoldInv, MaintInv, Owning
<1>3. CASE Goto(t, Rest(t)) /\ EndMaintenance
  <2>1. TypeOK'
    BY <1>1, <1>3, PcMoves DEF HoldInv, TypeOK, Step, EndMaintenance, locks, project
  <2>2. RootInv'
    BY <1>1, <1>3, RegistryRests DEF HoldInv, RootInv, Step, EndMaintenance
  <2>3. LeaseInv' /\ MaintInv'
    BY <1>1, <1>2, <1>3, MaintenanceKept DEF EndMaintenance, Step, Working, Owning
  <2>4. QED
    BY <2>1, <2>2, <2>3 DEF HoldInv
<1>4. CASE Goto(t, "evict") /\ ListVictims
  <2>1. TypeOK'
    BY <1>1, <1>4, PcMoves DEF HoldInv, TypeOK, Step, ListVictims, Unprotected, locks, project
  <2>2. RootInv'
    BY <1>1, <1>4, RegistryRests DEF HoldInv, RootInv, Step, ListVictims
  <2>3. LeaseInv' /\ MaintInv'
    BY <1>1, <1>4, MaintenanceKept DEF ListVictims, Step, Working, Owning
  <2>4. QED
    BY <2>1, <2>2, <2>3 DEF HoldInv
<1>5. QED
  BY <1>3, <1>4 DEF List, Moves

LEMMA EvictHolds ==
  ASSUME HoldInv, NEW t \in Key \cup Settings, Evict(t) PROVE HoldInv'
<1>1. /\ pc[t] = "evict" /\ UNCHANGED <<fetched, snapshot, dest, copied, locks, project>>
      /\ Rest(t) \in {"idle", "unpin"} /\ t \in Thread /\ Goto(t, Rest(t))
  BY Threads DEF Evict, Moves, At, Rest
<1>2. /\ files' \subseteq files /\ victims' = {} /\ maintenance' = NoThread
      /\ UNCHANGED <<root, protected, blocked, leases>>
  BY DEF Evict, RemoveListed
<1>3. TypeOK'
  BY <1>1, <1>2, PcMoves DEF HoldInv, TypeOK, Step, locks, project
<1>4. RootInv'
  BY <1>1, <1>2, RegistryRests DEF HoldInv, RootInv, Step
<1>5. LeaseInv' /\ MaintInv'
  BY <1>1, <1>2, MaintenanceKept DEF Step, Working, Owning
<1>6. QED
  BY <1>3, <1>4, <1>5 DEF HoldInv

LEMMA QuotaCheckHolds ==
  ASSUME HoldInv, NEW t \in Settings, SnapshotProject(t) \/ ProtectSnapshot(t) PROVE HoldInv'
<1>1. PICK step \in {"protect", "enforce"} : Goto(t, step) /\ pc[t] \in {"idle", "protect"}
  BY DEF SnapshotProject, ProtectSnapshot, At
<1>2. /\ snapshot' \in {live, {}}
      /\ protected' \subseteq protected \cup (snapshot \cap Under(root))
      /\ UNCHANGED <<root, blocked, leases, maintenance, victims, files>>
      /\ UNCHANGED <<fetched, dest, copied, locks, project>>
  BY DEF SnapshotProject, ProtectSnapshot, Protect, cache
<1>3. TypeOK'
  BY <1>1, <1>2, PcMoves, Threads DEF HoldInv, TypeOK, Step, locks, project
<1>4. RootInv'
  BY <1>1, <1>2, RegistryRests DEF HoldInv, RootInv, Step
<1>5. LeaseInv' /\ MaintInv'
  BY <1>1, <1>2, HoldersRest, Threads DEF Step, Working, Owning
<1>6. QED
  BY <1>3, <1>4, <1>5 DEF HoldInv

-----------------------------------------------------------------------------
(* The registry keeps the first layer *)

LEMMA RegistryMoves ==
  ASSUME HoldInv, NEW step \in Step, Goto(Registry, step)
  PROVE  /\ pc' \in [Thread -> Step] /\ pc'[Registry] = step
         /\ \A u \in Thread : u # Registry => pc'[u] = pc[u]
  BY PcMoves, Threads DEF HoldInv

(* The steps of a clear between its waits. *)
Clearing ==
  {"idle", "block", "clear: lease", "clear: inventory", "clear: acquire", "clear: resume",
   "clear: unpin"}

LEMMA ClearStepsHold ==
  ASSUME HoldInv,
         \/ StartClear \/ BlockForClear \/ ProtectForClear
         \/ CancelClear \/ ResumeAfterClear \/ FinishClear
  PROVE  HoldInv'
<1>1. PICK step \in Clearing : Goto(Registry, step) /\ pc[Registry] \in Clearing
  BY DEF StartClear, BlockForClear, ProtectForClear, CancelClear, ResumeAfterClear, FinishClear,
         Moves, At, Clearing
<1>2. /\ UNCHANGED <<root, leases, maintenance, victims, files, layout, writing, settings>>
      /\ UNCHANGED <<fetched, snapshot, dest, copied, live, saved, past>>
  BY DEF StartClear, BlockForClear, ProtectForClear, CancelClear, ResumeAfterClear, FinishClear,
         Moves, Block, ProtectAndAllow, RequestLease, cache, locks, project
<1>3. readers' \subseteq readers \cup {Registry} /\ blocked' \in {blocked, TRUE, FALSE}
  BY DEF StartClear, BlockForClear, ProtectForClear, CancelClear, ResumeAfterClear, FinishClear,
         Block, ProtectAndAllow, cache, locks
<1>4. protected' \subseteq protected \cup Under(root)
  BY DEF StartClear, BlockForClear, ProtectForClear, CancelClear, ResumeAfterClear, FinishClear,
         Block, ProtectAndAllow, cache
<1>5. inbox' \in {inbox, Append(inbox, Lease)} /\ paused' \in {paused, FALSE}
  BY DEF StartClear, BlockForClear, ProtectForClear, CancelClear, ResumeAfterClear, FinishClear,
         RequestLease, project
<1>6. step \in Step /\ step \notin Working \cup Owning /\ pc[Registry] \notin Working \cup Owning
  BY <1>1 DEF Clearing, Step, Working, Owning
<1>7. inbox' \in Seq(Path \cup {Lease})
  BY <1>5, AppendProperties DEF HoldInv, TypeOK
<1>8. TypeOK'
  <2>1. pc' \in [Thread -> Step]
    BY <1>1, <1>6, RegistryMoves
  <2>2. Under(root) \subseteq Path
    BY PathsUnder DEF HoldInv, TypeOK
  <2>3. protected' \subseteq Path /\ readers' \subseteq Thread
    BY <1>3, <1>4, <2>2, Threads DEF HoldInv, TypeOK
  <2>4. blocked' \in BOOLEAN /\ paused' \in BOOLEAN
    BY <1>3, <1>5 DEF HoldInv, TypeOK
  <2>5. QED
    BY <1>2, <1>7, <2>1, <2>3, <2>4 DEF HoldInv, TypeOK
<1>9. RootInv'
  BY <1>1, <1>2, <1>4, <1>6, RegistryMoves DEF HoldInv, RootInv, Clearing, Moving
<1>10. LeaseInv' /\ MaintInv'
  BY <1>1, <1>2, <1>6, HoldersRest, Threads
<1>11. QED
  BY <1>8, <1>9, <1>10 DEF HoldInv

LEMMA AcquireForClearHolds ==
  ASSUME HoldInv, AcquireForClear PROVE HoldInv'
<1>1. /\ pc[Registry] = "clear: acquire"
      /\ UNCHANGED <<fetched, snapshot, dest, copied, locks, project>>
  BY DEF AcquireForClear, Moves, At
<1>2. CASE Goto(Registry, "clear") /\ BeginClear(Registry)
  <2>1. /\ pc' \in [Thread -> Step] /\ pc'[Registry] = "clear"
    BY <1>2, RegistryMoves DEF Step
  <2>2. TypeOK'
    BY <1>1, <1>2, <2>1, Threads
       DEF HoldInv, TypeOK, BeginClear, Unprotected, locks, project
  <2>3. RootInv'
    BY <1>1, <1>2, <2>1 DEF HoldInv, RootInv, BeginClear, Moving, locks
  <2>4. LeaseInv' /\ MaintInv'
    BY <1>1, <1>2, MaintenanceTaken, Threads DEF BeginClear, Working, Owning
  <2>5. QED
    BY <2>2, <2>3, <2>4 DEF HoldInv
<1>3. CASE Goto(Registry, "clear: resume") /\ UNCHANGED cache
  <2>1. /\ pc' \in [Thread -> Step] /\ pc'[Registry] = "clear: resume"
    BY <1>3, RegistryMoves DEF Step
  <2>2. TypeOK'
    BY <1>1, <1>3, <2>1 DEF HoldInv, TypeOK, cache, locks, project
  <2>3. RootInv'
    BY <1>1, <1>3, <2>1 DEF HoldInv, RootInv, Moving, cache, locks
  <2>4. LeaseInv' /\ MaintInv'
    BY <1>1, <1>3, HoldersRest, Threads DEF Step, Working, Owning, cache
  <2>5. QED
    BY <2>2, <2>3, <2>4 DEF HoldInv
<1>4. QED
  BY <1>2, <1>3 DEF AcquireForClear, Moves

LEMMA ClearHolds ==
  ASSUME HoldInv, Clear PROVE HoldInv'
<1>1. /\ pc[Registry] = "clear" /\ Goto(Registry, "clear: resume")
      /\ UNCHANGED <<fetched, snapshot, dest, copied, locks, project>>
  BY DEF Clear, Moves, At
<1>2. /\ files' \subseteq files /\ victims' = {} /\ maintenance' = NoThread
      /\ UNCHANGED <<root, protected, blocked, leases>>
  BY DEF Clear, RemoveListed
<1>3. /\ pc' \in [Thread -> Step] /\ pc'[Registry] = "clear: resume"
  BY <1>1, RegistryMoves DEF Step
<1>4. TypeOK'
  BY <1>1, <1>2, <1>3 DEF HoldInv, TypeOK, locks, project
<1>5. RootInv'
  BY <1>1, <1>2, <1>3 DEF HoldInv, RootInv, Moving, locks
<1>6. LeaseInv' /\ MaintInv'
  BY <1>1, <1>2, MaintenanceKept, Threads DEF Step, Working, Owning
<1>7. QED
  BY <1>4, <1>5, <1>6 DEF HoldInv

(* A request is withdrawn from the inbox. *)
Without(q, i) == SubSeq(q, 1, i - 1) \o SubSeq(q, i + 1, Len(q))

LEMMA RequestWithdrawn ==
  ASSUME NEW S, NEW q \in Seq(S), NEW i \in DOMAIN q, NEW r, r = Without(q, i)
  PROVE  /\ r \in Seq(S)
         /\ DOMAIN r = 1 .. Len(q) - 1
         /\ \A j \in DOMAIN r : r[j] = IF j < i THEN q[j] ELSE q[j + 1]
<1>1. i \in 1 .. Len(q) /\ Len(q) \in Nat /\ \A j \in 1 .. Len(q) : q[j] \in S
  OBVIOUS
<1>2. PICK a : a = SubSeq(q, 1, i - 1)
  OBVIOUS
<1>3. PICK b : b = SubSeq(q, i + 1, Len(q))
  OBVIOUS
<1>4. a \in Seq(S) /\ Len(a) = i - 1 /\ \A j \in 1 .. i - 1 : a[j] = q[j]
  <2>1. \A j \in 1 .. i - 1 : q[j] \in S
    BY <1>1
  <2>2. 1 \in Int /\ i - 1 \in Int
    BY <1>1
  <2>3. /\ a \in Seq(S) /\ Len(a) = IF 1 <= i - 1 THEN i - 1 - 1 + 1 ELSE 0
        /\ \A j \in 1 .. i - 1 - 1 + 1 : a[j] = q[1 + j - 1]
    BY <1>2, <2>1, <2>2, SubSeqProperties
  <2>4. QED
    BY <1>1, <2>3
<1>5. b \in Seq(S) /\ Len(b) = Len(q) - i /\ \A j \in 1 .. Len(q) - i : b[j] = q[i + j]
  <2>1. \A j \in i + 1 .. Len(q) : q[j] \in S
    BY <1>1
  <2>2. i + 1 \in Int /\ Len(q) \in Int
    BY <1>1
  <2>3. /\ b \in Seq(S) /\ Len(b) = IF i + 1 <= Len(q) THEN Len(q) - (i + 1) + 1 ELSE 0
        /\ \A j \in 1 .. Len(q) - (i + 1) + 1 : b[j] = q[i + 1 + j - 1]
    BY <1>3, <2>1, <2>2, SubSeqProperties
  <2>4. ASSUME NEW j \in 1 .. Len(q) - i PROVE b[j] = q[i + j]
    <3>1. j \in 1 .. Len(q) - (i + 1) + 1 /\ i + 1 + j - 1 = i + j
      BY <1>1
    <3>2. QED
      BY <2>3, <3>1
  <2>5. Len(b) = Len(q) - i
    BY <1>1, <2>3
  <2>6. QED
    BY <2>3, <2>4, <2>5
<1>6. r = a \o b /\ a \in Seq(S) /\ b \in Seq(S)
  BY <1>2, <1>3, <1>4, <1>5 DEF Without
<1>7. /\ r \in Seq(S) /\ Len(r) = Len(a) + Len(b)
      /\ \A j \in 1 .. Len(a) + Len(b) : r[j] = IF j <= Len(a) THEN a[j] ELSE b[j - Len(a)]
  BY <1>6, ConcatProperties
<1>8. DOMAIN r = 1 .. Len(q) - 1
  BY <1>1, <1>4, <1>5, <1>7
<1>9. ASSUME NEW j \in 1 .. Len(q) - 1 PROVE r[j] = IF j < i THEN q[j] ELSE q[j + 1]
  <2>1. j \in 1 .. Len(a) + Len(b) /\ j \in Int /\ i \in Int /\ Len(a) = i - 1
    BY <1>1, <1>4, <1>5
  <2>2. r[j] = IF j <= Len(a) THEN a[j] ELSE b[j - Len(a)]
    BY <1>7, <2>1
  <2>3. CASE j < i
    <3>1. j <= Len(a) /\ j \in 1 .. i - 1
      BY <2>1, <2>3
    <3>2. QED
      BY <1>4, <2>2, <2>3, <3>1
  <2>4. CASE ~(j < i)
    <3>1. /\ ~(j <= Len(a)) /\ j - Len(a) \in 1 .. Len(q) - i
          /\ i + (j - Len(a)) = j + 1
      <4>1. PICK n \in Int, m \in Int : n = Len(q) /\ m = Len(a)
        BY <1>1, <2>1
      <4>2. j <= n - 1 /\ m = i - 1
        BY <2>1, <4>1
      <4>3. ~(j <= m) /\ j - m >= 1 /\ j - m <= n - i /\ i + (j - m) = j + 1
        BY <2>1, <2>4, <4>1, <4>2
      <4>4. QED
        BY <2>1, <4>1, <4>3
    <3>2. b[j - Len(a)] = q[j + 1]
      BY <1>5, <3>1
    <3>3. QED
      BY <2>2, <2>4, <3>1, <3>2
  <2>5. QED
    BY <2>3, <2>4
<1>10. QED
  BY <1>7, <1>8, <1>9

LEMMA AbandonLeaseHolds ==
  ASSUME HoldInv, AbandonLease PROVE HoldInv'
<1>1. /\ \/ pc[Registry] = "clear: lease" /\ Goto(Registry, "clear: unpin")
         \/ pc[Registry] = "move: lease" /\ Goto(Registry, "unlock")
      /\ UNCHANGED <<fetched, snapshot, dest, copied, cache, locks, live, saved, past, paused>>
  BY DEF AbandonLease, Moves, At
<1>2. PICK step \in {"clear: unpin", "unlock"} : Goto(Registry, step)
  BY <1>1
<1>3. pc' \in [Thread -> Step] /\ pc'[Registry] = step
  BY <1>2, RegistryMoves DEF Step
<1>4. inbox' \in Seq(Path \cup {Lease})
  <2>1. inbox \in Seq(Path \cup {Lease})
    BY DEF HoldInv, TypeOK
  <2>2. QED
    BY <2>1, RequestWithdrawn DEF AbandonLease, Without
<1>5. TypeOK'
  BY <1>1, <1>3, <1>4 DEF HoldInv, TypeOK, cache, locks
<1>6. RootInv'
  <2>1. \/ pc[Registry] = "clear: lease" /\ pc'[Registry] = "clear: unpin"
        \/ pc[Registry] = "move: lease" /\ pc'[Registry] = "unlock"
    BY <1>1, RegistryMoves DEF Step
  <2>2. QED
    BY <1>1, <2>1 DEF HoldInv, RootInv, Moving, cache, locks
<1>7. LeaseInv' /\ MaintInv'
  BY <1>1, <1>2, HoldersRest, Threads DEF Step, Working, Owning, cache
<1>8. QED
  BY <1>5, <1>6, <1>7 DEF HoldInv

LEMMA GrantHolds ==
  ASSUME HoldInv, Grant PROVE HoldInv'
<1>1. /\ \/ pc[Registry] = "clear: lease" /\ Goto(Registry, "clear: inventory")
         \/ pc[Registry] = "move: lease" /\ Goto(Registry, "move: inventory")
      /\ UNCHANGED <<fetched, snapshot, dest, copied, cache, locks, live, saved>>
  BY DEF Grant, Moves, At
<1>2. PICK step \in {"clear: inventory", "move: inventory"} : Goto(Registry, step)
  BY <1>1
<1>3. pc' \in [Thread -> Step] /\ pc'[Registry] = step
  BY <1>2, RegistryMoves DEF Step
<1>4. inbox' \in Seq(Path \cup {Lease}) /\ paused' = TRUE /\ past' \in {past, {}}
  BY HeadTailProperties DEF Grant, HoldInv, TypeOK
<1>5. TypeOK'
  BY <1>1, <1>3, <1>4 DEF HoldInv, TypeOK, cache, locks
<1>6. RootInv'
  <2>1. \/ pc[Registry] = "clear: lease" /\ pc'[Registry] = "clear: inventory"
        \/ pc[Registry] = "move: lease" /\ pc'[Registry] = "move: inventory"
    BY <1>1, RegistryMoves DEF Step
  <2>2. QED
    BY <1>1, <2>1 DEF HoldInv, RootInv, Moving, cache, locks
<1>7. LeaseInv' /\ MaintInv'
  BY <1>1, <1>2, HoldersRest, Threads DEF Step, Working, Owning, cache
<1>8. QED
  BY <1>5, <1>6, <1>7 DEF HoldInv

(* A relocation before it moves anything, and after. *)
LEMMA RelocateHolds ==
  ASSUME HoldInv,
         \/ StartMove \/ LockLayout \/ CheckReferences
         \/ Publish \/ UnlockLayout \/ ResumeAfterMove
  PROVE  HoldInv'
<1>1. PICK step \in {"write", "move: lease", "switch", "unlock", "resume", "idle"} :
        /\ Goto(Registry, step)
        /\ pc[Registry] \in {"idle", "write", "move: inventory", "publish", "unlock", "resume"}
  BY DEF StartMove, LockLayout, CheckReferences, Publish, UnlockLayout, ResumeAfterMove, Moves, At
<1>2. /\ pc' \in [Thread -> Step] /\ pc'[Registry] = step
      /\ step \in Step /\ step \notin Working \cup Owning /\ pc[Registry] \notin Working \cup Owning
  BY <1>1, RegistryMoves DEF Step, Working, Owning
<1>3. /\ UNCHANGED <<cache, settings, readers, fetched, snapshot, live, saved, past>>
      /\ layout' \in {layout, dest} /\ dest' \in Root \cup {dest, layout}
      /\ writing' \in BOOLEAN \cup {writing} /\ copied' \in {copied, FALSE}
      /\ paused' \in {paused, FALSE} /\ inbox' \in {inbox, Append(inbox, Lease)}
  BY DEF StartMove, LockLayout, CheckReferences, Publish, UnlockLayout, ResumeAfterMove, Moves,
         RequestLease, cache, locks, project
<1>4. TypeOK'
  <2>1. inbox \in Seq(Path \cup {Lease})
    BY DEF HoldInv, TypeOK
  <2>2. Append(inbox, Lease) \in Seq(Path \cup {Lease})
    BY <2>1, AppendProperties
  <2>3. inbox' \in Seq(Path \cup {Lease})
    BY <1>3, <2>1, <2>2
  <2>4. QED
    BY <1>2, <1>3, <2>3 DEF HoldInv, TypeOK, cache
<1>5. RootInv'
  <2>1. UNCHANGED <<root, protected, settings>>
    BY <1>3 DEF cache
  <2>2. protected' \subseteq Under(root')
    BY <2>1 DEF HoldInv, RootInv
  <2>3. CASE StartMove
    <3>1. /\ pc[Registry] = "idle" /\ pc'[Registry] = "write"
          /\ dest' # layout /\ UNCHANGED <<layout, writing>>
      BY <2>3, RegistryMoves DEF StartMove, At, Step, locks
    <3>2. QED
      BY <2>1, <2>2, <3>1 DEF HoldInv, RootInv, Moving
  <2>4. CASE LockLayout
    <3>1. /\ pc[Registry] = "write" /\ pc'[Registry] = "move: lease"
          /\ writing' = TRUE /\ UNCHANGED <<layout, dest>>
      BY <2>4, RegistryMoves DEF LockLayout, Moves, At, Step
    <3>2. QED
      BY <2>1, <2>2, <3>1 DEF HoldInv, RootInv, Moving
  <2>5. CASE CheckReferences
    <3>1. /\ pc[Registry] = "move: inventory" /\ pc'[Registry] \in {"switch", "unlock"}
          /\ UNCHANGED <<layout, dest, writing>>
      BY <2>5, RegistryMoves DEF CheckReferences, Moves, At, Step, locks
    <3>2. QED
      BY <2>1, <2>2, <3>1 DEF HoldInv, RootInv, Moving
  <2>6. CASE Publish
    <3>1. /\ pc[Registry] = "publish" /\ pc'[Registry] = "resume"
          /\ writing' = FALSE /\ layout' = dest /\ dest' = dest
      BY <2>6, RegistryMoves DEF Publish, Moves, At, Step
    <3>2. QED
      BY <2>1, <2>2, <3>1 DEF HoldInv, RootInv, Moving
  <2>7. CASE UnlockLayout
    <3>1. /\ pc[Registry] = "unlock" /\ pc'[Registry] = "resume"
          /\ writing' = FALSE /\ UNCHANGED <<layout, dest>>
      BY <2>7, RegistryMoves DEF UnlockLayout, Moves, At, Step
    <3>2. QED
      BY <2>1, <2>2, <3>1 DEF HoldInv, RootInv, Moving
  <2>8. CASE ResumeAfterMove
    <3>1. /\ pc[Registry] = "resume" /\ pc'[Registry] = "idle" /\ UNCHANGED <<layout, writing>>
      BY <2>8, RegistryMoves DEF ResumeAfterMove, At, Step, locks
    <3>2. QED
      BY <2>1, <2>2, <3>1 DEF HoldInv, RootInv, Moving
  <2>9. QED
    BY <2>3, <2>4, <2>5, <2>6, <2>7, <2>8
<1>6. LeaseInv' /\ MaintInv'
  BY <1>1, <1>2, <1>3, HoldersRest, Threads DEF cache
<1>7. QED
  BY <1>4, <1>5, <1>6 DEF HoldInv

LEMMA MoveFilesHolds ==
  ASSUME HoldInv, MoveFiles PROVE HoldInv'
<1>1. /\ pc[Registry] = "switch"
      /\ UNCHANGED <<fetched, snapshot, dest, locks, project>>
  BY DEF MoveFiles, At
<1>2. CASE Goto(Registry, "unlock") /\ UNCHANGED <<cache, copied>>
  <2>1. pc' \in [Thread -> Step] /\ pc'[Registry] = "unlock"
    BY <1>2, RegistryMoves DEF Step
  <2>2. TypeOK'
    BY <1>1, <1>2, <2>1 DEF HoldInv, TypeOK, cache, locks, project
  <2>3. RootInv'
    BY <1>1, <1>2, <2>1 DEF HoldInv, RootInv, Moving, cache, locks
  <2>4. LeaseInv' /\ MaintInv'
    BY <1>1, <1>2, HoldersRest, Threads DEF Step, Working, Owning, cache
  <2>5. QED
    BY <2>2, <2>3, <2>4 DEF HoldInv
<1>3. ASSUME NEW copy \in BOOLEAN, copied' = copy, Goto(Registry, "persist"),
             BeginSwitch(Registry, (IF copy THEN files ELSE files \ Under(root))
                                     \cup Remap(files \cap Under(root), dest))
      PROVE  HoldInv'
  <2>1. pc' \in [Thread -> Step] /\ pc'[Registry] = "persist"
    BY <1>3, RegistryMoves DEF Step
  <2>2. files' \subseteq Path
    BY <1>3, PathsUnder DEF BeginSwitch, HoldInv, TypeOK
  <2>3. TypeOK'
    BY <1>1, <1>3, <2>1, <2>2, Threads DEF HoldInv, TypeOK, BeginSwitch, locks, project
  <2>4. RootInv'
    BY <1>1, <1>3, <2>1 DEF HoldInv, RootInv, Moving, BeginSwitch, locks
  <2>5. victims' = {}
    BY <1>3, Threads DEF BeginSwitch, Quiescent, HoldInv, MaintInv
  <2>6. LeaseInv' /\ MaintInv'
    BY <1>1, <1>3, <2>5, MaintenanceTaken, Threads DEF BeginSwitch, Working, Owning
  <2>7. QED
    BY <2>3, <2>4, <2>6 DEF HoldInv
<1>4. QED
  BY <1>2, <1>3 DEF MoveFiles

(* A relocation holds the maintenance, and nothing is listed for removal. *)
LEMMA MoverAlone ==
  ASSUME HoldInv, pc[Registry] \in {"persist", "commit"}
  PROVE  maintenance = Registry /\ leases = {} /\ victims = {}
  BY Threads DEF HoldInv, MaintInv, Owning

LEMMA SaveSettingsHolds ==
  ASSUME HoldInv, SaveSettings PROVE HoldInv'
<1>1. /\ pc[Registry] = "persist" /\ Goto(Registry, "commit") /\ settings' = dest
      /\ UNCHANGED <<fetched, snapshot, dest, copied, cache, layout, readers, writing, project>>
  BY DEF SaveSettings, Moves, At
<1>2. pc' \in [Thread -> Step] /\ pc'[Registry] = "commit"
  BY <1>1, RegistryMoves DEF Step
<1>3. TypeOK'
  BY <1>1, <1>2 DEF HoldInv, TypeOK, cache, project
<1>4. RootInv'
  BY <1>1, <1>2 DEF HoldInv, RootInv, Moving, cache
<1>5. LeaseInv' /\ MaintInv'
  BY <1>1, MoverAlone, MaintenanceKept, Threads DEF Step, Working, Owning, cache
<1>6. QED
  BY <1>3, <1>4, <1>5 DEF HoldInv

LEMMA RollBackHolds ==
  ASSUME HoldInv, RollBack PROVE HoldInv'
<1>1. /\ pc[Registry] = "persist" /\ Goto(Registry, "unlock")
      /\ UNCHANGED <<fetched, snapshot, dest, copied, locks, project>>
  BY DEF RollBack, Moves, At
<1>2. /\ maintenance' = NoThread /\ UNCHANGED <<root, protected, blocked, leases, victims>>
      /\ files' \subseteq files \cup Remap(files \cap Under(dest), root)
  BY DEF RollBack, CancelSwitch
<1>3. pc' \in [Thread -> Step] /\ pc'[Registry] = "unlock"
  BY <1>1, RegistryMoves DEF Step
<1>4. files' \subseteq Path
  BY <1>2, PathsUnder DEF HoldInv, TypeOK
<1>5. TypeOK'
  BY <1>1, <1>2, <1>3, <1>4 DEF HoldInv, TypeOK, locks, project
<1>6. RootInv'
  BY <1>1, <1>2, <1>3 DEF HoldInv, RootInv, Moving, locks
<1>7. LeaseInv' /\ MaintInv'
  BY <1>1, <1>2, MoverAlone, MaintenanceKept, Threads DEF Step, Working, Owning
<1>8. QED
  BY <1>5, <1>6, <1>7 DEF HoldInv

LEMMA CommitHolds ==
  ASSUME HoldInv, Commit PROVE HoldInv'
<1>1. /\ pc[Registry] = "commit" /\ Goto(Registry, "publish")
      /\ UNCHANGED <<fetched, snapshot, dest, copied, locks, project>>
  BY DEF Commit, Moves, At
<1>2. /\ root' = dest /\ protected' = Remap(protected, dest)
      /\ maintenance' = NoThread /\ UNCHANGED <<blocked, leases, victims>>
      /\ files' \subseteq files
  BY DEF Commit, SwitchRoot
<1>3. pc' \in [Thread -> Step] /\ pc'[Registry] = "publish"
  BY <1>1, RegistryMoves DEF Step
<1>4. protected' \subseteq Under(dest) /\ Under(dest) \subseteq Path
  BY <1>2, PathsUnder DEF HoldInv, TypeOK
<1>5. TypeOK'
  BY <1>1, <1>2, <1>3, <1>4 DEF HoldInv, TypeOK, locks, project
<1>6. RootInv'
  BY <1>1, <1>2, <1>3, <1>4 DEF HoldInv, RootInv, Moving, locks
<1>7. LeaseInv' /\ MaintInv'
  BY <1>1, <1>2, MoverAlone, MaintenanceKept, Threads DEF Step, Working, Owning
<1>8. QED
  BY <1>5, <1>6, <1>7 DEF HoldInv

-----------------------------------------------------------------------------
(* The project and a restart keep the first layer *)

LEMMA ProjectHolds ==
  ASSUME HoldInv, HandleImport \/ Edit PROVE HoldInv'
<1>1. UNCHANGED <<cache, locks, threads>>
  BY DEF HandleImport, Edit, Save, Reopen, RemoveMedia, RestoreMedia
<1>2. inbox' \in Seq(Path \cup {Lease}) /\ paused' = paused
  BY HeadTailProperties
     DEF HandleImport, Edit, Save, Reopen, RemoveMedia, RestoreMedia, HoldInv, TypeOK
<1>3. live' \subseteq Path /\ saved' \subseteq Path /\ past' \subseteq Path
  BY DEF HandleImport, Edit, Save, Reopen, RemoveMedia, RestoreMedia, HoldInv, TypeOK
<1>4. TypeOK'
  BY <1>1, <1>2, <1>3 DEF HoldInv, TypeOK, cache, locks, threads
<1>5. RootInv' /\ LeaseInv' /\ MaintInv'
  BY <1>1 DEF HoldInv, RootInv, LeaseInv, MaintInv, cache, locks, threads
<1>6. QED
  BY <1>4, <1>5 DEF HoldInv

LEMMA RestartHolds ==
  ASSUME HoldInv, Restart PROVE HoldInv'
<1>1. /\ pc' \in [Thread -> Step]
      /\ \A t \in Thread : pc'[t] = "idle"
  BY DEF Restart, Step
<1>2. blocked' \in BOOLEAN /\ protected' \subseteq saved \cap Under(settings)
  BY DEF Restart
<1>3. TypeOK'
  BY <1>1, <1>2, EmptySeq DEF Restart, HoldInv, TypeOK
<1>4. RootInv'
  BY <1>1, <1>2, Threads DEF Restart, RootInv, Moving
<1>5. LeaseInv' /\ MaintInv'
  BY <1>1, Threads DEF Restart, LeaseInv, MaintInv, Working, Owning
<1>6. QED
  BY <1>3, <1>4, <1>5 DEF HoldInv

-----------------------------------------------------------------------------
(* The first layer is invariant *)

LEMMA InitHolds == Init => HoldInv
<1> SUFFICES ASSUME Init PROVE HoldInv
  OBVIOUS
<1>1. pc \in [Thread -> Step] /\ \A t \in Thread : pc[t] = "idle"
  BY DEF Init, Step
<1>2. TypeOK
  BY <1>1, EmptySeq DEF Init, TypeOK
<1>3. RootInv /\ LeaseInv /\ MaintInv
  BY <1>1, Threads DEF Init, RootInv, Moving, LeaseInv, MaintInv, Working, Owning
<1>4. QED
  BY <1>2, <1>3 DEF HoldInv

LEMMA StepHolds == HoldInv /\ [Next]_vars => HoldInv'
<1> SUFFICES ASSUME HoldInv, [Next]_vars PROVE HoldInv'
  OBVIOUS
<1>1. ASSUME NEW k \in Key, PinLayout(k) \/ TakeLease(k) \/ Work(k) PROVE HoldInv'
  BY <1>1, PinLayoutHolds, TakeLeaseHolds, LookHolds, DownloadHolds, HandOverHolds,
     DropLeaseHolds, AcquireHolds, ListHolds, EvictHolds DEF Work, Enforce
<1>2. ASSUME NEW t \in Settings, SnapshotProject(t) \/ ProtectSnapshot(t) \/ Enforce(t)
      PROVE  HoldInv'
  BY <1>2, QuotaCheckHolds, AcquireHolds, ListHolds, EvictHolds DEF Enforce
<1>3. CASE StartClear \/ ClearDownloads
  BY <1>3, ClearStepsHold, AcquireForClearHolds, ClearHolds DEF ClearDownloads
<1>4. CASE StartMove \/ Relocate
  BY <1>4, RelocateHolds, MoveFilesHolds, SaveSettingsHolds, RollBackHolds, CommitHolds
     DEF Relocate
<1>5. CASE UNCHANGED vars
  BY <1>5 DEF vars, cache, locks, threads, project, HoldInv, TypeOK, RootInv, LeaseInv, MaintInv
<1>6. QED
  BY <1>1, <1>2, <1>3, <1>4, <1>5, AbandonLeaseHolds, GrantHolds, ProjectHolds, RestartHolds
     DEF Next, Operate

LEMMA HoldAlways == Spec => []HoldInv
  BY InitHolds, StepHolds, PTL DEF Spec

-----------------------------------------------------------------------------
(* References: steps that leave them alone *)

Requested == {"clear: lease", "move: lease"}

(* A message is sent. *)
LEMMA Appended ==
  ASSUME NEW S, NEW q \in Seq(S), NEW e \in S, NEW r, r = Append(q, e)
  PROVE  /\ \A j \in DOMAIN r : \/ j \in DOMAIN q /\ r[j] = q[j]
                                \/ j = Len(q) + 1 /\ r[j] = e
         /\ \A j \in DOMAIN q : j \in Nat /\ j < Len(q) + 1
         /\ \A j \in DOMAIN r : j \in Nat
  BY AppendProperties

(* The first message is taken. *)
LEMMA HeadTaken ==
  ASSUME NEW S, NEW q \in Seq(S), q # << >>, NEW r, r = Tail(q)
  PROVE  /\ 1 \in DOMAIN q /\ Head(q) = q[1]
         /\ \A j \in DOMAIN r : j + 1 \in DOMAIN q /\ r[j] = q[j + 1] /\ j \in Nat \ {0}
  OBVIOUS

(* A message is taken back. *)
LEMMA OthersRemain ==
  ASSUME NEW S, NEW q \in Seq(S), NEW i \in DOMAIN q, NEW r, r = Without(q, i)
  PROVE  \A j \in DOMAIN r : \E m \in DOMAIN q : m # i /\ r[j] = q[m]
<1>1. /\ DOMAIN r = 1 .. Len(q) - 1
      /\ \A j \in DOMAIN r : r[j] = IF j < i THEN q[j] ELSE q[j + 1]
  BY RequestWithdrawn
<1>2. Len(q) \in Nat /\ DOMAIN q = 1 .. Len(q) /\ i \in 1 .. Len(q)
  BY LenProperties
<1>3. ASSUME NEW j \in 1 .. Len(q) - 1
      PROVE  \E m \in 1 .. Len(q) : m # i /\ r[j] = q[m]
  <2>1. CASE j < i
    BY <1>1, <1>2, <2>1
  <2>2. CASE ~(j < i)
    <3>1. j + 1 \in 1 .. Len(q) /\ j + 1 # i
      BY <1>2, <2>2
    <3>2. QED
      BY <1>1, <2>2, <3>1
  <2>3. QED
    BY <2>1, <2>2
<1>4. QED
  BY <1>1, <1>2, <1>3

(***************************************************************************)
(* Not the registry's step: what is protected stays so, and what is        *)
(* mentioned outside the cache stays where it is.                          *)
(***************************************************************************)
LEMMA OthersKeepReferences ==
  ASSUME HoldInv, ReferenceInv, NEW t \in Key \cup Settings, NEW step \in Step, Goto(t, step),
         UNCHANGED <<root, blocked, live, saved, past, inbox, paused, dest>>,
         victims' \subseteq victims, protected \subseteq protected',
         files \ Under(root) \subseteq files'
  PROVE  ReferenceInv'
<1>1. pc'[Registry] = pc[Registry]
  BY Threads, PcMoves DEF HoldInv
<1>2. VictimInv'
  BY DEF ReferenceInv, VictimInv, Mentioned
<1>3. InboxInv'
  BY <1>1 DEF ReferenceInv, InboxInv
<1>4. RefInv'
  BY <1>1 DEF ReferenceInv, RefInv, Mentioned, References
<1>5. QED
  BY <1>2, <1>3, <1>4 DEF ReferenceInv

(* The registry's step, out of the work that it does under a lease. *)
LEMMA RegistryKeepsReferences ==
  ASSUME HoldInv, ReferenceInv, NEW step \in Step \ Granted, Goto(Registry, step),
         pc[Registry] \notin Requested,
         UNCHANGED <<root, live, saved, past, inbox>>, blocked => blocked',
         victims' \subseteq victims, protected \subseteq protected',
         Mentioned \ Under(root) \subseteq files'
  PROVE  ReferenceInv'
<1>1. pc'[Registry] = step
  BY RegistryMoves
<1>2. VictimInv'
  BY DEF ReferenceInv, VictimInv, Mentioned
<1>3. InboxInv'
  BY <1>1 DEF ReferenceInv, InboxInv, Requested, Granted
<1>4. RefInv'
  BY <1>1 DEF ReferenceInv, RefInv, Mentioned, References, Granted
<1>5. QED
  BY <1>2, <1>3, <1>4 DEF ReferenceInv

LEMMA WorkersKeepReferences ==
  ASSUME HoldInv, ReferenceInv, NEW k \in Key,
         PinLayout(k) \/ TakeLease(k) \/ Look(k) \/ Download(k) \/ DropLease(k) \/ UnpinLayout(k)
  PROVE  ReferenceInv'
<1>1. PICK step \in Step : Goto(k, step)
  BY DEF PinLayout, TakeLease, Look, Download, DropLease, UnpinLayout, Moves, Rest, Step
<1>2. Leased(k) \subseteq Under(root)
  BY LeaseOf
<1>3. files \ Under(root) \subseteq files'
  BY <1>2 DEF PinLayout, TakeLease, Look, Download, DropLease, UnpinLayout, BeginAccess, SetFiles,
              FinishAccess, cache
<1>4. UNCHANGED <<root, protected, blocked, victims, live, saved, past, inbox, paused, dest>>
  BY DEF PinLayout, TakeLease, Look, Download, DropLease, UnpinLayout, BeginAccess, SetFiles,
         FinishAccess, Moves, cache, project
<1>5. QED
  BY <1>1, <1>3, <1>4, OthersKeepReferences

LEMMA QuotaKeepsReferences ==
  ASSUME HoldInv, ReferenceInv, NEW t \in Key \cup Settings,
         Acquire(t) \/ Evict(t) \/ SnapshotProject(t) \/ ProtectSnapshot(t)
  PROVE  ReferenceInv'
<1>1. PICK step \in Step : Goto(t, step)
  BY DEF Acquire, Evict, SnapshotProject, ProtectSnapshot, Moves, Rest, Step
<1>2. victims \subseteq Under(root)
  BY DEF ReferenceInv, VictimInv
<1>3. /\ victims' \subseteq victims /\ protected \subseteq protected'
      /\ files \ Under(root) \subseteq files'
  BY <1>2 DEF Acquire, Evict, SnapshotProject, ProtectSnapshot, BeginMaintenance, RemoveListed,
              Protect, cache
<1>4. UNCHANGED <<root, blocked, live, saved, past, inbox, paused, dest>>
  BY DEF Acquire, Evict, SnapshotProject, ProtectSnapshot, BeginMaintenance, RemoveListed,
         Protect, Moves, cache, project
<1>5. QED
  BY <1>1, <1>3, <1>4, OthersKeepReferences

-----------------------------------------------------------------------------
(* References: a list is made, a file is handed over *)

(* What may be listed is not mentioned, nor on its way to the project. *)
LEMMA UnprotectedUnwanted ==
  ASSUME ReferenceInv, ~blocked
  PROVE  /\ Unprotected \subseteq Under(root) \ Mentioned
         /\ \A i \in DOMAIN inbox : inbox[i] \notin Unprotected
  BY DEF ReferenceInv, InboxInv, RefInv, Unprotected

LEMMA ListKeepsReferences ==
  ASSUME HoldInv, ReferenceInv, NEW t \in Key \cup Settings, List(t)
  PROVE  ReferenceInv'
<1>1. /\ UNCHANGED <<root, protected, blocked, files, live, saved, past, inbox, paused, dest>>
      /\ (victims' = victims) \/ (~blocked /\ victims' = Unprotected)
  <2>1. CASE blocked /\ Moves(t, "list", Rest(t)) /\ EndMaintenance /\ UNCHANGED <<locks, project>>
    BY <2>1 DEF Moves, EndMaintenance, project
  <2>2. CASE ~blocked /\ Moves(t, "list", "evict") /\ ListVictims /\ UNCHANGED <<locks, project>>
    BY <2>2 DEF Moves, ListVictims, project
  <2>3. QED
    BY <2>1, <2>2 DEF List
<1>2. PICK step \in Step : Goto(t, step)
  BY DEF List, Moves, Rest, Step
<1>3. CASE victims' = victims
  BY <1>1, <1>3, <1>2, OthersKeepReferences
<1>4. CASE ~blocked /\ victims' = Unprotected
  <2>1. pc'[Registry] = pc[Registry]
    BY <1>2, Threads, PcMoves DEF HoldInv
  <2>2. VictimInv'
    BY <1>1, <1>4, UnprotectedUnwanted DEF VictimInv, Mentioned
  <2>3. InboxInv' /\ RefInv'
    BY <1>1, <2>1 DEF ReferenceInv, InboxInv, RefInv, Mentioned, References
  <2>4. QED
    BY <2>2, <2>3 DEF ReferenceInv
<1>5. QED
  BY <1>1, <1>3, <1>4

LEMMA HandOverKeepsReferences ==
  ASSUME HoldInv, ReferenceInv, NEW k \in Key, HandOver(k)
  PROVE  ReferenceInv'
<1>1. Leased(k) = {<<root, k>>} /\ <<root, k>> \in Under(root) /\ leases # {}
  BY LeaseOf DEF HandOver, Moves, At, Working, Leased, Under
<1>2. PICK p : p = <<root, k>>
  OBVIOUS
<1>3. /\ p \in Under(root) /\ inbox' = Append(inbox, p) /\ protected' = protected \cup {p}
      /\ Goto(k, "sent")
      /\ UNCHANGED <<root, blocked, victims, files, live, saved, past, paused, dest>>
  BY <1>1, <1>2 DEF HandOver, Moves, Protect
<1>4. victims = {}
  BY <1>1, Threads DEF HoldInv, MaintInv
<1>5. pc'[Registry] = pc[Registry]
  BY <1>3, Threads, PcMoves DEF HoldInv, Step
<1>6. \A j \in DOMAIN inbox' : \/ j \in DOMAIN inbox /\ inbox'[j] = inbox[j]
                               \/ inbox'[j] = p
  <2>1. inbox \in Seq(Path \cup {Lease}) /\ p \in Path \cup {Lease}
    BY <1>3, PathsUnder DEF HoldInv, TypeOK
  <2>2. QED
    BY <1>3, <2>1, Appended
<1>7. p # Lease
  BY <1>3, PathsUnder, ThreadsAssumption DEF HoldInv, TypeOK
<1>8. VictimInv'
  BY <1>3, <1>4 DEF VictimInv
<1>9. InboxInv'
  <2>1. \A i \in DOMAIN inbox' : inbox'[i] \in Under(root) => inbox'[i] \in protected'
    BY <1>3, <1>6 DEF ReferenceInv, InboxInv
  <2>2. ASSUME NEW i \in DOMAIN inbox', inbox'[i] = Lease
        PROVE  /\ pc'[Registry] \in {"clear: lease", "move: lease"}
               /\ \A j \in DOMAIN inbox' : j > i => inbox'[j] \in Under(root)
    BY <1>3, <1>5, <1>6, <1>7, <2>2 DEF ReferenceInv, InboxInv
  <2>3. pc'[Registry] \in {"move: inventory", "switch", "persist", "commit"} =>
          \A i \in DOMAIN inbox' : inbox'[i] \in Under(root)
    BY <1>3, <1>5, <1>6 DEF ReferenceInv, InboxInv
  <2>4. root' = root
    BY <1>3
  <2>5. QED
    BY <2>1, <2>2, <2>3, <2>4 DEF InboxInv
<1>10. RefInv'
  BY <1>3, <1>5 DEF ReferenceInv, RefInv, Mentioned, References
<1>11. QED
  BY <1>8, <1>9, <1>10 DEF ReferenceInv

-----------------------------------------------------------------------------
(* References: the project's lease *)

(* Nothing but a request waiting for its answer is in the inbox as one. *)
LEMMA OneRequest ==
  ASSUME HoldInv, ReferenceInv
  PROVE  /\ Lease \notin Under(root) /\ Lease \notin victims
         /\ \A i, j \in DOMAIN inbox : inbox[i] = Lease /\ inbox[j] = Lease => i = j
<1>1. Lease \notin Under(root) /\ Lease \notin victims
  BY PathsUnder, ThreadsAssumption DEF HoldInv, TypeOK
<1>2. ASSUME NEW i \in DOMAIN inbox, NEW j \in DOMAIN inbox,
             inbox[i] = Lease, inbox[j] = Lease, i # j
      PROVE  FALSE
  <2>1. i \in Nat /\ j \in Nat
    BY DEF HoldInv, TypeOK
  <2>2. ~(i < j) /\ ~(j < i)
    BY <1>1, <1>2 DEF ReferenceInv, InboxInv
  <2>3. QED
    BY <1>2, <2>1, <2>2
<1>3. QED
  BY <1>1, <1>2

LEMMA RequestKeepsReferences ==
  ASSUME HoldInv, ReferenceInv, BlockForClear \/ LockLayout
  PROVE  ReferenceInv'
<1>1. PICK step \in Requested : Goto(Registry, step)
  BY DEF BlockForClear, LockLayout, Moves, Requested
<1>2. /\ inbox' = Append(inbox, Lease) /\ pc[Registry] \in {"block", "write"}
      /\ blocked => blocked'
      /\ UNCHANGED <<root, protected, victims, files, live, saved, past, paused>>
  BY DEF BlockForClear, LockLayout, Moves, At, RequestLease, Block, cache, HoldInv, TypeOK
<1>3. pc'[Registry] \in Requested
  BY <1>1, RegistryMoves DEF Requested, Step
<1>4. /\ \A j \in DOMAIN inbox' : \/ j \in DOMAIN inbox /\ inbox'[j] = inbox[j]
                                  \/ j = Len(inbox) + 1 /\ inbox'[j] = Lease
      /\ \A j \in DOMAIN inbox : j \in Nat /\ j < Len(inbox) + 1
      /\ \A j \in DOMAIN inbox' : j \in Nat
  <2>1. inbox \in Seq(Path \cup {Lease})
    BY DEF HoldInv, TypeOK
  <2>2. QED
    BY <1>2, <2>1, Appended
<1>5. \A i \in DOMAIN inbox : inbox[i] # Lease
  BY <1>2 DEF ReferenceInv, InboxInv
<1>6. VictimInv'
  BY <1>2, <1>4, OneRequest DEF ReferenceInv, VictimInv, Mentioned
<1>7. InboxInv'
  <2>1. \A i \in DOMAIN inbox' : inbox'[i] \in Under(root') => inbox'[i] \in protected'
    BY <1>2, <1>4, OneRequest DEF ReferenceInv, InboxInv
  <2>2. \A i \in DOMAIN inbox' : inbox'[i] = Lease => i = Len(inbox) + 1
    BY <1>4, <1>5
  <2>3. \A i, j \in DOMAIN inbox' : inbox'[i] = Lease => ~(j > i)
    BY <1>4, <2>2
  <2>4. QED
    BY <1>3, <2>1, <2>3 DEF InboxInv, Requested
<1>8. RefInv'
  BY <1>2, <1>3 DEF ReferenceInv, RefInv, Mentioned, References, Requested, Granted
<1>9. QED
  BY <1>6, <1>7, <1>8 DEF ReferenceInv

LEMMA AbandonKeepsReferences ==
  ASSUME HoldInv, ReferenceInv, AbandonLease
  PROVE  ReferenceInv'
<1>2. pc'[Registry] \in {"clear: unpin", "unlock"}
  <2>1. PICK step \in {"clear: unpin", "unlock"} : Goto(Registry, step)
    BY DEF AbandonLease, Moves
  <2>2. QED
    BY <2>1, RegistryMoves DEF Step
<1>3. UNCHANGED <<root, protected, blocked, victims, files, live, saved, past, paused>>
  BY DEF AbandonLease, cache
<1>4. inbox \in Seq(Path \cup {Lease})
  BY DEF HoldInv, TypeOK
<1>5. PICK i :
        i \in DOMAIN inbox /\ inbox[i] = Lease /\ inbox' = Without(inbox, i)
  BY DEF AbandonLease, Without
<1>6. \A j \in DOMAIN inbox' : \E m \in DOMAIN inbox : m # i /\ inbox'[j] = inbox[m]
  <2>1. PICK r : r = Without(inbox, i)
    OBVIOUS
  <2>2. i \in DOMAIN inbox
    BY <1>5
  <2>3. \A j \in DOMAIN r : \E m \in DOMAIN inbox : m # i /\ r[j] = inbox[m]
    BY <1>4, <2>1, <2>2, OthersRemain
  <2>4. inbox' = r
    BY <1>5, <2>1
  <2>5. QED
    BY <2>3, <2>4
<1>7. \A j \in DOMAIN inbox' : inbox'[j] # Lease
  BY <1>5, <1>6, OneRequest
<1>8. VictimInv'
  BY <1>3, <1>6 DEF ReferenceInv, VictimInv, Mentioned
<1>9. InboxInv'
  BY <1>2, <1>3, <1>6, <1>7 DEF ReferenceInv, InboxInv
<1>10. RefInv'
  BY <1>2, <1>3 DEF ReferenceInv, RefInv, Mentioned, References, Granted
<1>11. QED
  BY <1>8, <1>9, <1>10 DEF ReferenceInv

LEMMA GrantKeepsReferences ==
  ASSUME HoldInv, ReferenceInv, ~Undo, Grant
  PROVE  ReferenceInv'
<1>2. pc'[Registry] \in {"clear: inventory", "move: inventory"}
  <2>1. PICK step \in {"clear: inventory", "move: inventory"} : Goto(Registry, step)
    BY DEF Grant, Moves
  <2>2. QED
    BY <2>1, RegistryMoves DEF Step
<1>3. /\ inbox # << >> /\ Head(inbox) = Lease /\ inbox' = Tail(inbox) /\ paused' = TRUE /\ past' = {}
      /\ UNCHANGED <<root, protected, blocked, victims, files, live, saved>>
  BY DEF Grant, cache
<1>4. /\ inbox[1] = Lease /\ 1 \in DOMAIN inbox
      /\ \A j \in DOMAIN inbox' :
           j + 1 \in DOMAIN inbox /\ inbox'[j] = inbox[j + 1] /\ j + 1 > 1
  <2>1. inbox \in Seq(Path \cup {Lease})
    BY DEF HoldInv, TypeOK
  <2>2. /\ 1 \in DOMAIN inbox /\ Head(inbox) = inbox[1]
        /\ \A m \in DOMAIN Tail(inbox) :
             m + 1 \in DOMAIN inbox /\ Tail(inbox)[m] = inbox[m + 1] /\ m \in Nat \ {0}
    BY <1>3, <2>1, HeadTaken
  <2>3. \A m \in Nat \ {0} : m + 1 > 1
    OBVIOUS
  <2>4. QED
    BY <1>3, <2>2, <2>3
<1>5. ASSUME NEW j \in DOMAIN inbox'
      PROVE  /\ inbox'[j] \in Under(root) /\ inbox'[j] # Lease /\ inbox'[j] \notin victims
             /\ inbox'[j] \in protected
  <2>1. /\ inbox[1] = Lease /\ 1 \in DOMAIN inbox /\ j + 1 \in DOMAIN inbox
        /\ inbox'[j] = inbox[j + 1] /\ j + 1 > 1
    BY <1>4
  <2>2. inbox'[j] \in Under(root)
    BY <2>1 DEF ReferenceInv, InboxInv
  <2>3. QED
    BY <2>1, <2>2, OneRequest DEF ReferenceInv, InboxInv, VictimInv
<1>6. VictimInv'
  BY <1>3, <1>5 DEF ReferenceInv, VictimInv, Mentioned
<1>7. InboxInv'
  BY <1>3, <1>5 DEF InboxInv
<1>8. RefInv'
  BY <1>2, <1>3 DEF ReferenceInv, RefInv, Mentioned, References
<1>9. QED
  BY <1>6, <1>7, <1>8 DEF ReferenceInv

(* No request waits when the registry is past it. *)
LEMMA NoRequest ==
  ASSUME ReferenceInv, pc[Registry] \notin Requested
  PROVE  \A i \in DOMAIN inbox : inbox[i] # Lease
  BY DEF ReferenceInv, InboxInv, Requested

-----------------------------------------------------------------------------
(* References: clearing *)

LEMMA ProtectKeepsReferences ==
  ASSUME HoldInv, ReferenceInv, ProtectForClear
  PROVE  ReferenceInv'
<1>1. pc[Registry] = "clear: inventory" /\ UNCHANGED <<root, victims, files, live, saved, past, inbox, paused>>
  BY DEF ProtectForClear, Moves, At, ProtectAndAllow, cache, project
<1>2. CASE Goto(Registry, "clear: acquire") /\ ProtectAndAllow(References)
  <2>1. pc'[Registry] = "clear: acquire"
    BY <1>2, RegistryMoves DEF Step
  <2>2. blocked' = FALSE /\ protected' = protected \cup (References \cap Under(root))
    BY <1>2 DEF ProtectAndAllow
  <2>3. paused /\ past = {}
    BY <1>1 DEF ReferenceInv, RefInv, Granted
  <2>4. VictimInv'
    BY <1>1 DEF ReferenceInv, VictimInv, Mentioned
  <2>5. InboxInv'
    BY <1>1, <2>1, <2>2, NoRequest DEF ReferenceInv, InboxInv, Requested
  <2>6. RefInv'
    BY <1>1, <2>1, <2>2, <2>3 DEF ReferenceInv, RefInv, Mentioned, References
  <2>7. QED
    BY <2>4, <2>5, <2>6 DEF ReferenceInv
<1>3. CASE Goto(Registry, "clear: resume") /\ UNCHANGED cache
  BY <1>1, <1>3, RegistryKeepsReferences DEF Step, Granted, Requested, cache, ReferenceInv, RefInv
<1>4. QED
  BY <1>2, <1>3 DEF ProtectForClear, Moves

LEMMA AcquireForClearKeepsReferences ==
  ASSUME HoldInv, ReferenceInv, AcquireForClear
  PROVE  ReferenceInv'
<1>1. /\ pc[Registry] = "clear: acquire"
      /\ UNCHANGED <<root, protected, blocked, files, live, saved, past, inbox, paused>>
  BY DEF AcquireForClear, Moves, At, BeginClear, cache, project
<1>2. CASE Goto(Registry, "clear") /\ BeginClear(Registry)
  <2>1. pc'[Registry] = "clear"
    BY <1>2, RegistryMoves DEF Step
  <2>2. ~blocked /\ victims' = Unprotected
    BY <1>1, <1>2 DEF ReferenceInv, RefInv, BeginClear
  <2>3. VictimInv'
    BY <1>1, <2>2, UnprotectedUnwanted DEF VictimInv, Mentioned
  <2>4. InboxInv'
    BY <1>1, <2>1, NoRequest DEF ReferenceInv, InboxInv, Requested
  <2>5. RefInv'
    BY <1>1, <2>1 DEF ReferenceInv, RefInv, Mentioned, References, Granted
  <2>6. QED
    BY <2>3, <2>4, <2>5 DEF ReferenceInv
<1>3. CASE Goto(Registry, "clear: resume") /\ UNCHANGED cache
  BY <1>1, <1>3, RegistryKeepsReferences DEF Step, Granted, Requested, cache, ReferenceInv, RefInv
<1>4. QED
  BY <1>2, <1>3 DEF AcquireForClear, Moves

LEMMA ClearKeepsReferences ==
  ASSUME HoldInv, ReferenceInv, Clear
  PROVE  ReferenceInv'
<1>1. /\ pc[Registry] = "clear" /\ Goto(Registry, "clear: resume")
      /\ UNCHANGED <<root, protected, blocked, live, saved, past, inbox>>
      /\ victims' = {} /\ files \ victims \subseteq files'
  BY DEF Clear, Moves, At, RemoveListed, project
<1>2. Mentioned \ Under(root) \subseteq files'
  BY <1>1 DEF ReferenceInv, VictimInv, RefInv
<1>3. QED
  BY <1>1, <1>2, RegistryKeepsReferences DEF Step, Granted, Requested

(* The registry begins, gives up, publishes and lets the others go on. *)
LEMMA RestKeepsReferences ==
  ASSUME HoldInv, ReferenceInv,
         \/ StartClear \/ CancelClear \/ ResumeAfterClear \/ FinishClear
         \/ StartMove \/ Publish \/ UnlockLayout \/ ResumeAfterMove
  PROVE  ReferenceInv'
<1>1. UNCHANGED <<root, protected, victims, files, live, saved, past, inbox>> /\ (blocked => blocked')
  <2>1. CASE StartClear \/ CancelClear \/ ResumeAfterClear \/ FinishClear
    BY <2>1 DEF StartClear, CancelClear, ResumeAfterClear, FinishClear, Block, cache, project,
                HoldInv, TypeOK
  <2>2. CASE StartMove
    BY <2>2 DEF StartMove, cache, project
  <2>3. CASE Publish \/ UnlockLayout \/ ResumeAfterMove
    BY <2>3 DEF Publish, UnlockLayout, ResumeAfterMove, cache, project
  <2>4. QED
    BY <2>1, <2>2, <2>3
<1>2. PICK step \in {"block", "clear: resume", "clear: unpin", "idle", "write", "resume"} :
        /\ Goto(Registry, step)
        /\ pc[Registry] \in {"idle", "clear: acquire", "clear: resume", "clear: unpin",
                             "publish", "unlock", "resume"}
  <2>1. CASE StartClear \/ CancelClear \/ ResumeAfterClear \/ FinishClear
    BY <2>1 DEF StartClear, CancelClear, ResumeAfterClear, FinishClear, Moves, At
  <2>2. CASE StartMove \/ Publish \/ UnlockLayout \/ ResumeAfterMove
    BY <2>2 DEF StartMove, Publish, UnlockLayout, ResumeAfterMove, Moves, At
  <2>3. QED
    BY <2>1, <2>2
<1>3. step \in Step \ Granted /\ pc[Registry] \notin Requested
  BY <1>2 DEF Step, Granted, Requested
<1>4. QED
  BY <1>1, <1>2, <1>3, RegistryKeepsReferences DEF ReferenceInv, RefInv

-----------------------------------------------------------------------------
(* References: relocation *)

LEMMA CheckKeepsReferences ==
  ASSUME HoldInv, ReferenceInv, CheckReferences
  PROVE  ReferenceInv'
<1>1. /\ pc[Registry] = "move: inventory"
      /\ UNCHANGED <<root, protected, blocked, victims, files, live, saved, past, inbox, paused>>
  BY DEF CheckReferences, Moves, At, cache, project
<1>2. CASE Goto(Registry, "switch") /\ References \cap Under(layout) = {}
  <2>1. pc'[Registry] = "switch"
    BY <1>2, RegistryMoves DEF Step
  <2>2. layout = root
    BY <1>1 DEF HoldInv, RootInv
  <2>3. paused /\ past = {}
    BY <1>1 DEF ReferenceInv, RefInv, Granted
  <2>4. VictimInv'
    BY <1>1 DEF ReferenceInv, VictimInv, Mentioned
  <2>5. InboxInv'
    BY <1>1, <2>1, NoRequest DEF ReferenceInv, InboxInv, Requested
  <2>6. RefInv'
    BY <1>1, <1>2, <2>1, <2>2, <2>3 DEF ReferenceInv, RefInv, Mentioned, References
  <2>7. QED
    BY <2>4, <2>5, <2>6 DEF ReferenceInv
<1>3. CASE Goto(Registry, "unlock")
  BY <1>1, <1>3, RegistryKeepsReferences DEF Step, Granted, Requested, ReferenceInv, RefInv
<1>4. QED
  BY <1>2, <1>3 DEF CheckReferences, Moves

LEMMA MoveKeepsReferences ==
  ASSUME HoldInv, ReferenceInv, MoveFiles
  PROVE  ReferenceInv'
<1>1. pc[Registry] = "switch" /\ UNCHANGED <<dest, live, saved, past, inbox, paused>>
  BY DEF MoveFiles, At, project
<1>2. CASE Goto(Registry, "unlock") /\ UNCHANGED cache
  BY <1>1, <1>2, RegistryKeepsReferences DEF Step, Granted, Requested, ReferenceInv, RefInv, cache
<1>3. ASSUME ~Occupied(dest), Goto(Registry, "persist"), NEW copy \in BOOLEAN,
             BeginSwitch(Registry, (IF copy THEN files ELSE files \ Under(root))
                                     \cup Remap(files \cap Under(root), dest))
      PROVE  ReferenceInv'
  <2>1. pc'[Registry] = "persist"
    BY <1>3, RegistryMoves DEF Step
  <2>2. files \ Under(root) \subseteq files' /\ UNCHANGED <<root, protected, blocked, victims>>
    BY <1>3 DEF BeginSwitch
  <2>3. paused /\ past = {} /\ References \cap Under(root) = {}
    BY <1>1 DEF ReferenceInv, RefInv, Granted
  <2>4. References \cap Under(dest) = {}
    BY <1>3, <2>3 DEF Occupied, ReferenceInv, RefInv, Mentioned, References
  <2>5. VictimInv'
    BY <1>1, <2>2 DEF ReferenceInv, VictimInv, Mentioned
  <2>6. InboxInv'
    BY <1>1, <2>1, <2>2, NoRequest DEF ReferenceInv, InboxInv, Requested
  <2>7. RefInv'
    BY <1>1, <2>1, <2>2, <2>3, <2>4 DEF ReferenceInv, RefInv, Mentioned, References
  <2>8. QED
    BY <2>5, <2>6, <2>7 DEF ReferenceInv
<1>4. QED
  BY <1>2, <1>3 DEF MoveFiles

LEMMA SaveSettingsKeepsReferences ==
  ASSUME HoldInv, ReferenceInv, SaveSettings
  PROVE  ReferenceInv'
<1>1. /\ pc[Registry] = "persist" /\ Goto(Registry, "commit")
      /\ UNCHANGED <<root, protected, blocked, victims, files, live, saved, past, inbox, paused, dest>>
  BY DEF SaveSettings, Moves, At, cache, project
<1>2. pc'[Registry] = "commit"
  BY <1>1, RegistryMoves DEF Step
<1>3. VictimInv'
  BY <1>1 DEF ReferenceInv, VictimInv, Mentioned
<1>4. InboxInv'
  BY <1>1, <1>2, NoRequest DEF ReferenceInv, InboxInv, Requested
<1>5. RefInv'
  BY <1>1, <1>2 DEF ReferenceInv, RefInv, Mentioned, References, Granted
<1>6. QED
  BY <1>3, <1>4, <1>5 DEF ReferenceInv

(* Under a relocation nothing refers to either directory. *)
LEMMA MoverUnwanted ==
  ASSUME ReferenceInv, pc[Registry] \in {"persist", "commit"}
  PROVE  /\ past = {} /\ Mentioned = References
         /\ References \cap Under(root) = {} /\ References \cap Under(dest) = {}
         /\ References \subseteq files
  BY DEF ReferenceInv, RefInv, Granted, Mentioned, References

LEMMA RollBackKeepsReferences ==
  ASSUME HoldInv, ReferenceInv, RollBack
  PROVE  ReferenceInv'
<1>1. pc[Registry] = "persist" /\ Goto(Registry, "unlock") /\ UNCHANGED <<live, saved, past, inbox>>
  BY DEF RollBack, Moves, At, project
<1>2. UNCHANGED <<root, protected, blocked, victims>> /\ files \ Under(dest) \subseteq files'
  BY DEF RollBack, CancelSwitch
<1>3. Mentioned \ Under(root) \subseteq files'
  BY <1>1, <1>2, MoverUnwanted
<1>4. QED
  BY <1>1, <1>2, <1>3, RegistryKeepsReferences DEF Step, Granted, Requested

LEMMA CommitKeepsReferences ==
  ASSUME HoldInv, ReferenceInv, Commit
  PROVE  ReferenceInv'
<1>1. /\ pc[Registry] = "commit" /\ Goto(Registry, "publish")
      /\ UNCHANGED <<live, saved, past, inbox, paused>>
  BY DEF Commit, Moves, At, project
<1>2. /\ root' = dest /\ UNCHANGED <<blocked, victims>>
      /\ files \ Under(root) \subseteq files'
  BY DEF Commit, SwitchRoot
<1>3. pc'[Registry] = "publish"
  BY <1>1, RegistryMoves DEF Step
<1>4. Under(root) \cap Under(dest) = {}
  BY <1>1, PathsUnder DEF HoldInv, TypeOK, RootInv
<1>5. VictimInv'
  BY <1>1, <1>2, MoverAlone DEF VictimInv
<1>6. InboxInv'
  <2>1. \A i \in DOMAIN inbox : inbox[i] \in Under(root) /\ inbox[i] # Lease
    BY <1>1, NoRequest DEF ReferenceInv, InboxInv, Requested
  <2>2. QED
    BY <1>1, <1>2, <1>3, <1>4, <2>1 DEF InboxInv
<1>7. RefInv'
  <2>1. Mentioned' = References
    BY <1>1, MoverUnwanted DEF Mentioned
  <2>2. Mentioned' \cap Under(root') = {} /\ Mentioned' \subseteq files'
    BY <1>1, <1>2, <2>1, MoverUnwanted
  <2>3. QED
    BY <1>3, <2>2 DEF RefInv, Granted
<1>8. QED
  BY <1>5, <1>6, <1>7 DEF ReferenceInv

-----------------------------------------------------------------------------
(* References: the project and a restart *)

(* While the worker is not paused no lease of the project is at work. *)
LEMMA ProjectAlone ==
  ASSUME ReferenceInv, ~paused
  PROVE  pc[Registry] \notin Granted
  BY DEF ReferenceInv, RefInv

LEMMA ImportKeepsReferences ==
  ASSUME HoldInv, ReferenceInv, HandleImport
  PROVE  ReferenceInv'
<1>1. /\ ~paused /\ inbox # << >> /\ inbox' = Tail(inbox)
      /\ live' = IF Head(inbox) \in files THEN live \cup {Head(inbox)} ELSE live
      /\ UNCHANGED <<root, protected, blocked, victims, files, pc, dest, saved, past, paused>>
  BY DEF HandleImport, cache, locks, threads
<1>2. pc[Registry] \notin Granted
  BY <1>1, ProjectAlone
<1>3. /\ 1 \in DOMAIN inbox /\ Head(inbox) = inbox[1]
      /\ \A j \in DOMAIN inbox' : j + 1 \in DOMAIN inbox /\ inbox'[j] = inbox[j + 1]
      /\ \A i, j \in DOMAIN inbox' : j > i => j + 1 > i + 1
  <2>1. inbox \in Seq(Path \cup {Lease})
    BY DEF HoldInv, TypeOK
  <2>2. /\ 1 \in DOMAIN inbox /\ Head(inbox) = inbox[1]
        /\ \A m \in DOMAIN Tail(inbox) :
             m + 1 \in DOMAIN inbox /\ Tail(inbox)[m] = inbox[m + 1] /\ m \in Nat \ {0}
    BY <1>1, <2>1, HeadTaken
  <2>3. \A m \in DOMAIN inbox' :
          m + 1 \in DOMAIN inbox /\ inbox'[m] = inbox[m + 1] /\ m \in Nat \ {0}
    BY <1>1, <2>2
  <2>4. \A i, j \in DOMAIN inbox' : j > i => j + 1 > i + 1
    BY <2>3
  <2>5. QED
    BY <2>2, <2>3, <2>4
<1>4. PICK p : p = Head(inbox)
  OBVIOUS
<1>5. /\ p \notin victims /\ (p \in Under(root) => p \in protected)
      /\ Mentioned' \subseteq Mentioned \cup ({p} \cap files)
  BY <1>1, <1>3, <1>4 DEF ReferenceInv, VictimInv, InboxInv, Mentioned
<1>6. VictimInv'
  BY <1>1, <1>3, <1>5 DEF ReferenceInv, VictimInv
<1>7. InboxInv'
  <2>1. \A i \in DOMAIN inbox' : inbox'[i] \in Under(root') => inbox'[i] \in protected'
    BY <1>1, <1>3 DEF ReferenceInv, InboxInv
  <2>2. ASSUME NEW i \in DOMAIN inbox', inbox'[i] = Lease
        PROVE  /\ pc'[Registry] \in {"clear: lease", "move: lease"}
               /\ \A j \in DOMAIN inbox' : j > i => inbox'[j] \in Under(root')
    BY <1>1, <1>3, <2>2 DEF ReferenceInv, InboxInv
  <2>3. QED
    BY <1>1, <1>2, <2>1, <2>2 DEF InboxInv, Granted
<1>8. RefInv'
  BY <1>1, <1>2, <1>5 DEF ReferenceInv, RefInv, Granted
<1>9. QED
  BY <1>6, <1>7, <1>8 DEF ReferenceInv

LEMMA EditKeepsReferences ==
  ASSUME HoldInv, ReferenceInv, Edit
  PROVE  ReferenceInv'
<1>1. /\ ~paused
      /\ UNCHANGED <<root, protected, blocked, victims, files, pc, dest, inbox, paused>>
  BY DEF Edit, Save, Reopen, RemoveMedia, RestoreMedia, cache, locks, threads
<1>2. Mentioned' \subseteq Mentioned
  BY DEF Edit, Save, Reopen, RemoveMedia, RestoreMedia, Mentioned
<1>3. pc[Registry] \notin Granted
  BY <1>1, ProjectAlone
<1>4. VictimInv' /\ InboxInv'
  BY <1>1, <1>2 DEF ReferenceInv, VictimInv, InboxInv
<1>5. RefInv'
  BY <1>1, <1>2, <1>3 DEF ReferenceInv, RefInv, Granted
<1>6. QED
  BY <1>4, <1>5 DEF ReferenceInv

LEMMA RestartKeepsReferences ==
  ASSUME HoldInv, ReferenceInv, Restart
  PROVE  ReferenceInv'
<1>1. /\ root' = settings /\ pc'[Registry] = "idle"
      /\ victims' = {} /\ inbox' = << >> /\ live' = saved /\ past' = {}
      /\ UNCHANGED <<files, saved>>
      /\ saved \cap Under(settings) \subseteq protected' \/ blocked'
  BY Threads DEF Restart
<1>2. Mentioned' = saved /\ saved \subseteq Mentioned /\ saved \subseteq References
  BY <1>1 DEF Mentioned, References
<1>3. saved \ Under(settings) \subseteq files
  <2>1. CASE settings = root
    BY <1>2, <2>1 DEF ReferenceInv, RefInv
  <2>2. CASE settings # root
    <3>1. pc[Registry] = "commit"
      BY <2>2 DEF HoldInv, RootInv
    <3>2. QED
      BY <1>2, <3>1, MoverUnwanted
  <2>3. QED
    BY <2>1, <2>2
<1>4. VictimInv' /\ InboxInv'
  BY <1>1 DEF VictimInv, InboxInv
<1>5. RefInv'
  BY <1>1, <1>2, <1>3 DEF RefInv, Granted
<1>6. QED
  BY <1>4, <1>5 DEF ReferenceInv

-----------------------------------------------------------------------------
(* The second layer is invariant *)

LEMMA InitRefers == Init => ReferenceInv
  BY Threads DEF Init, ReferenceInv, VictimInv, InboxInv, RefInv, Mentioned, References, Granted

LEMMA StepKeepsReferences ==
  ASSUME ~Undo, HoldInv, ReferenceInv, [Next]_vars
  PROVE  ReferenceInv'
<1>1. ASSUME NEW k \in Key, PinLayout(k) \/ TakeLease(k) \/ Work(k) PROVE ReferenceInv'
  BY <1>1, WorkersKeepReferences, HandOverKeepsReferences, QuotaKeepsReferences,
     ListKeepsReferences DEF Work, Enforce
<1>2. ASSUME NEW t \in Settings, SnapshotProject(t) \/ ProtectSnapshot(t) \/ Enforce(t)
      PROVE  ReferenceInv'
  BY <1>2, QuotaKeepsReferences, ListKeepsReferences DEF Enforce
<1>3. CASE StartClear \/ ClearDownloads
  BY <1>3, RestKeepsReferences, RequestKeepsReferences, ProtectKeepsReferences,
     AcquireForClearKeepsReferences, ClearKeepsReferences DEF ClearDownloads
<1>4. CASE StartMove \/ Relocate
  BY <1>4, RestKeepsReferences, RequestKeepsReferences, CheckKeepsReferences,
     MoveKeepsReferences, SaveSettingsKeepsReferences, RollBackKeepsReferences,
     CommitKeepsReferences DEF Relocate
<1>5. CASE UNCHANGED vars
  BY <1>5 DEF vars, cache, locks, threads, project, ReferenceInv, VictimInv, InboxInv, RefInv,
              Mentioned, References
<1>6. QED
  BY <1>1, <1>2, <1>3, <1>4, <1>5, AbandonKeepsReferences, GrantKeepsReferences,
     ImportKeepsReferences, EditKeepsReferences, RestartKeepsReferences DEF Next, Operate

-----------------------------------------------------------------------------
(* Under maintenance a reference's file stays *)

LEMMA WorkersSpare ==
  ASSUME HoldInv, maintenance # NoThread, NEW k \in Key,
         PinLayout(k) \/ TakeLease(k) \/ Work(k), ~Evict(k)
  PROVE  files' = files
<1>1. pc[k] \notin Working
  BY DEF HoldInv, LeaseInv, MaintInv
<1>2. ~Look(k) /\ ~Download(k)
  BY <1>1 DEF Look, Download, Moves, At, Working
<1>3. QED
  BY <1>2 DEF PinLayout, TakeLease, Work, HandOver, DropLease, Enforce, Acquire, List, UnpinLayout,
              BeginAccess, FinishAccess, Protect, BeginMaintenance, EndMaintenance, ListVictims,
              cache

LEMMA EvictSpares ==
  ASSUME ReferenceInv, NEW t, Evict(t) \/ Clear
  PROVE  References \cap files \subseteq files'
  BY DEF Evict, Clear, RemoveListed, ReferenceInv, VictimInv, Mentioned, References

LEMMA RelocationSpares ==
  ASSUME ReferenceInv, maintenance # NoThread, MoveFiles \/ RollBack \/ Commit
  PROVE  References \cap files \subseteq files'
<1>1. CASE MoveFiles
  BY <1>1 DEF MoveFiles, BeginSwitch, Quiescent, cache
<1>2. CASE RollBack
  BY <1>2, MoverUnwanted DEF RollBack, CancelSwitch, Moves, At
<1>3. CASE Commit
  BY <1>3, MoverUnwanted DEF Commit, SwitchRoot, Moves, At
<1>4. QED
  BY <1>1, <1>2, <1>3

LEMMA StepSpares ==
  ASSUME HoldInv, ReferenceInv, Next, maintenance # NoThread
  PROVE  References \cap files \subseteq files'
<1>1. ASSUME NEW k \in Key, PinLayout(k) \/ TakeLease(k) \/ Work(k)
      PROVE  References \cap files \subseteq files'
  BY <1>1, WorkersSpare, EvictSpares
<1>2. ASSUME NEW t \in Settings, SnapshotProject(t) \/ ProtectSnapshot(t) \/ Enforce(t)
      PROVE  References \cap files \subseteq files'
  BY <1>2, EvictSpares DEF SnapshotProject, ProtectSnapshot, Enforce, Acquire, List, Protect,
                           BeginMaintenance, EndMaintenance, ListVictims, cache
<1>3. CASE StartClear \/ ClearDownloads \/ AbandonLease
  BY <1>3, EvictSpares DEF StartClear, ClearDownloads, AbandonLease, BlockForClear, ProtectForClear,
       CancelClear, AcquireForClear, ResumeAfterClear, FinishClear, Block, ProtectAndAllow,
       BeginClear, cache
<1>4. CASE StartMove \/ Relocate
  BY <1>4, RelocationSpares DEF StartMove, Relocate, LockLayout, CheckReferences, SaveSettings,
       Publish, UnlockLayout, ResumeAfterMove, cache
<1>5. CASE HandleImport \/ Grant \/ Edit \/ Restart
  BY <1>5 DEF HandleImport, Grant, Edit, Save, Reopen, RemoveMedia, RestoreMedia, Restart, cache
<1>6. QED
  BY <1>1, <1>2, <1>3, <1>4, <1>5 DEF Next, Operate

-----------------------------------------------------------------------------
(* Theorems *)

(***************************************************************************)
(* The variables of the cache (cache.rs) and of the threads that use it    *)
(* keep their types: in particular every file, protected path and          *)
(* reference is in one of the directories the cache may live in.           *)
(***************************************************************************)
THEOREM TypeCorrect == Spec => []TypeOK
<1>1. HoldInv => TypeOK
  BY DEF HoldInv
<1>2. QED
  BY <1>1, HoldAlways, PTL

(***************************************************************************)
(* Outside a relocation the cache, the published layout and the settings   *)
(* name one directory, wherever relocate fails and whenever the process    *)
(* ends; the protected paths are always in it (switch_root).               *)
(***************************************************************************)
THEOREM RootsAgreeHolds == Spec => []RootsAgree
<1>1. HoldInv => RootsAgree
  BY DEF HoldInv, RootInv, RootsAgree, Moving
<1>2. QED
  BY <1>1, HoldAlways, PTL

(***************************************************************************)
(* A file a worker has found or downloaded under its lease stays there     *)
(* until it drops the lease: no eviction, clearing or relocation, by any   *)
(* number of other threads, gets in between (DownloadCache::lease).        *)
(***************************************************************************)
THEOREM LeasedFileStaysHolds == Spec => []LeasedFileStays
<1>1. HoldInv => LeasedFileStays
  <2>1. ASSUME HoldInv, NEW k \in Key, pc[k] \in {"fetched", "sent"}
        PROVE  Leased(k) # {} /\ Leased(k) \subseteq files \cap Under(root)
    <3>1. Leased(k) = {<<root, k>>} /\ <<root, k>> \in files
      BY <2>1, LeaseOf DEF Working, HoldInv, LeaseInv
    <3>2. <<root, k>> \in Under(root)
      BY DEF Under
    <3>3. QED
      BY <3>1, <3>2
  <2>2. QED
    BY <2>1 DEF LeasedFileStays
<1>2. QED
  BY <1>1, HoldAlways, PTL

(***************************************************************************)
(* Eviction, clearing and relocation never take away a file that the open  *)
(* project or a saved draft refers to at that moment, provided that        *)
(* nothing from before a lease of the project is undone after it: the      *)
(* inventory of the lease does not look into the history (relocate.rs,     *)
(* registry.rs).                                                           *)
(***************************************************************************)
THEOREM MaintenanceSparesHolds ==
  ASSUME ~Undo PROVE Spec => MaintenanceSparesReferences
<1>1. Init => ReferenceInv
  BY InitRefers
<1>2. HoldInv /\ ReferenceInv /\ [Next]_vars => ReferenceInv'
  BY StepKeepsReferences
<1>3. HoldInv /\ ReferenceInv /\ [Next]_vars =>
        [maintenance # NoThread => References \cap files \subseteq files']_vars
  BY StepSpares
<1>4. QED
  BY <1>1, <1>2, <1>3, HoldAlways, PTL DEF Spec, MaintenanceSparesReferences
=============================================================================
