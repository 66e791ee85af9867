--------------------------- MODULE LayoutCleanup ---------------------------
(***************************************************************************)
(* The storage of one Spark: its external disk behind the alias extnvme    *)
(* (scripts/ds4_layout_apply.sh), and the clean-up of paths by a manifest  *)
(* with the sizes of the day it was made (scripts/ds4_layout_manifest.py,  *)
(* ds4_layout_inventory.py, ds4_layout_cleanup.py): all entries are        *)
(* checked, then all are deleted or archived one by one, then a receipt is *)
(* written.  Other programs write, remove and open files at any time, and  *)
(* the external disk comes and goes.                                       *)
(***************************************************************************)
EXTENDS Integers, Sequences, FiniteSets, Functions

CONSTANTS DiskFiles,         \* regular files
          DiskDirs,          \* directories: the files beneath each
          ExternalFiles,     \* files under the alias, on the external disk
          ProtectedPaths,    \* in a canonical root or a checkout, a mount, a symlink, outside
          DiskInodes,        \* which inode each file had first: hard links share one
          Manifests,         \* sequences of entries [path, action]
          MaxDiskChanges     \* bound: changes by others

ASSUME CleanupAssumption ==
    /\ DOMAIN DiskDirs \cap DiskFiles = {} /\ ExternalFiles \subseteq DiskFiles
    /\ DiskDirs \in [DOMAIN DiskDirs -> SUBSET DiskFiles] /\ DiskInodes \in [DiskFiles -> Nat \ {0}]
    /\ \A m \in Manifests : m \in Seq([path : DiskFiles \cup DOMAIN DiskDirs, action : {"delete", "archive", "other"}])
    /\ MaxDiskChanges \in Nat

VARIABLES disk,        \* inode of each file, or Gone
          sizes,       \* blocks of each inode
          dirsGone,    \* directories that were removed
          archived,    \* files in the archive, by the path they had
          inUse,       \* paths that lsof reports: a directory only when it is open itself
          listing,     \* entries with their numbers
          cleanup,     \* its phase, the entry it is at, were all ready, --apply, --archive-root
          receipt,
          ext,         \* the alias, the mount, and what a run of the layout script saw of it
          touched,     \* history: files others changed since the manifest was made
          diskChanges

cleanupVars == <<disk, sizes, dirsGone, archived, inUse, listing, cleanup, receipt, ext, touched, diskChanges>>

Gone == 0
Inodes == Range(DiskInodes)
DiskPaths == DiskFiles \cup DOMAIN DiskDirs

CleanupTypeOK ==
    /\ disk \in [DiskFiles -> Inodes \cup {Gone}]
    /\ sizes \in [Inodes -> Nat] /\ dirsGone \in SUBSET DOMAIN DiskDirs
    /\ archived \in [DiskFiles -> Inodes \cup {Gone}]
    /\ inUse \in SUBSET DiskPaths /\ touched \in SUBSET DiskFiles
    /\ \A i \in DOMAIN listing :
          listing[i] \in [path : DiskPaths, action : {"delete", "archive", "other"}, bytes : Nat, files : Nat]
    /\ cleanup \in [phase : {"check", "apply", "done", "planned", "refused", "raised"},
                    at : Nat, ready : BOOLEAN, apply : BOOLEAN, archive : BOOLEAN, made : BOOLEAN]
    /\ receipt \in BOOLEAN /\ diskChanges \in 0..MaxDiskChanges
    /\ ext \in [alias : {"link", "other link", "empty", "filled", "missing"}, mounted : BOOLEAN,
                run : {"none", "mounted", "not mounted", "ready", "refused"}, steady : BOOLEAN]

FilesOf(p) == IF p \in DiskFiles THEN {p} ELSE DiskDirs[p]
Reached(f) == f \in ExternalFiles => ext.mounted /\ ext.alias = "link"
FilesAt(p) == {f \in FilesOf(p) : disk[f] # Gone /\ Reached(f)}

StatsOf(blocks, S) == [bytes |-> SumFunctionOnSet(blocks, S), files |-> Cardinality(S)]

(* tree_stats of the clean-up: an inode counts once *)
TreeStats(p) == StatsOf(sizes, {disk[f] : f \in FilesAt(p)})

(* tree_stats of the inventory on the first day, when an inode had as many *)
(* blocks as its number: unique_bytes_on_disk and unique_files count an    *)
(* inode when its first path is met and take it off the set                *)
FirstSizes == [i \in Inodes |-> i]
UniqueStats(p) == StatsOf(FirstSizes, {DiskInodes[f] : f \in FilesOf(p)})

(* bytes_on_disk and files count each path *)
VisibleStats(p) == StatsOf(DiskInodes, FilesOf(p))

(* make_manifest refuses protected paths and takes the unique numbers; one *)
(* written by hand from the inventory may have the visible ones            *)
ManifestOf(entries, made) ==
    [k \in DOMAIN entries |->
        LET stats == IF made THEN UniqueStats(entries[k].path) ELSE VisibleStats(entries[k].path)
        IN  [path |-> entries[k].path, action |-> entries[k].action, bytes |-> stats.bytes, files |-> stats.files]]
Makeable(entries, o) ==
    \A k \in DOMAIN entries :
        /\ entries[k].path \notin ProtectedPaths /\ entries[k].action # "other"
        /\ FilesOf(entries[k].path) \cap ExternalFiles # {} => o.mounted /\ o.alias = "link"

CleanupStart(entries, o) ==
    /\ disk = DiskInodes
    /\ sizes = FirstSizes /\ dirsGone = {}
    /\ archived = [f \in DiskFiles |-> Gone]
    /\ inUse = {} /\ touched = {}
    /\ listing = ManifestOf(entries, o.made)
    /\ cleanup = [phase |-> "check", at |-> 1, ready |-> TRUE, apply |-> o.apply, archive |-> o.archive, made |-> o.made]
    /\ ext = [alias |-> o.alias, mounted |-> o.mounted, run |-> "none", steady |-> FALSE]
    /\ receipt = FALSE /\ diskChanges = 0

CleanupOptions ==
    [apply : BOOLEAN, archive : BOOLEAN, made : BOOLEAN, mounted : {TRUE}, alias : {"link"}]
    \cup [apply : {FALSE}, archive : {FALSE}, made : {TRUE}, mounted : BOOLEAN,
          alias : {"link", "other link", "empty", "filled", "missing"}]
CleanupInit ==
    \E entries \in Manifests, o \in CleanupOptions :
        (o.made => Makeable(entries, o)) /\ CleanupStart(entries, o)

CleanupPhase(p) == cleanup.phase = p
CleanupGoes(p) == cleanup' = [cleanup EXCEPT !.phase = p, !.at = 1]
NextEntry == cleanup' = [cleanup EXCEPT !.at = @ + 1]

Exists(p) == IF p \in DiskFiles THEN FilesAt(p) # {} ELSE p \notin dirsGone

(* validate_entry: the canonical root is looked for in the resolved path,  *)
(* which for a path under the linked alias begins with the legacy root     *)
EntryReady(e) ==
    /\ e.path \notin ProtectedPaths
    /\ Exists(e.path)
    /\ TreeStats(e.path) = [bytes |-> e.bytes, files |-> e.files]
    /\ e.path \notin inUse

CheckEntry ==
    /\ CleanupPhase("check") /\ cleanup.at <= Len(listing)
    /\ cleanup' = [cleanup EXCEPT !.at = @ + 1, !.ready = @ /\ EntryReady(listing[cleanup.at])]
    /\ UNCHANGED <<disk, sizes, dirsGone, archived, inUse, listing, receipt, ext, touched, diskChanges>>

CheckedAll ==
    /\ CleanupPhase("check") /\ cleanup.at > Len(listing)
    /\ CleanupGoes(IF ~cleanup.ready THEN "refused" ELSE IF cleanup.apply THEN "apply" ELSE "planned")
    /\ UNCHANGED <<disk, sizes, dirsGone, archived, inUse, listing, receipt, ext, touched, diskChanges>>

(* apply_entry: whatever is at the path by now *)
ApplyEntry ==
    /\ CleanupPhase("apply") /\ cleanup.at <= Len(listing)
    /\ LET e == listing[cleanup.at]
           files == FilesAt(e.path)
           taken == /\ disk' = [f \in DiskFiles |-> IF f \in files THEN Gone ELSE disk[f]]
                    /\ dirsGone' = dirsGone \cup ({e.path} \ DiskFiles)
       IN  \/ e.action = "delete" /\ Exists(e.path) /\ taken /\ UNCHANGED archived /\ NextEntry
           \/ /\ e.action = "archive" /\ cleanup.archive /\ Exists(e.path)
              /\ \A f \in FilesOf(e.path) : archived[f] = Gone
              /\ taken
              /\ archived' = [f \in DiskFiles |-> IF f \in files THEN disk[f] ELSE archived[f]]
              /\ NextEntry
           \/ /\ \/ ~Exists(e.path) \/ e.action = "other"
                 \/ e.action = "archive" /\ (~cleanup.archive \/ \E f \in FilesOf(e.path) : archived[f] # Gone)
              /\ CleanupGoes("raised") /\ UNCHANGED <<disk, dirsGone, archived>>
    /\ UNCHANGED <<sizes, inUse, listing, receipt, ext, touched, diskChanges>>

(* a deletion of a directory that fails half-way *)
DeleteBreaks ==
    /\ CleanupPhase("apply") /\ cleanup.at <= Len(listing)
    /\ LET e == listing[cleanup.at] IN
          /\ e.action = "delete" /\ e.path \in DOMAIN DiskDirs
          /\ \E some \in SUBSET FilesAt(e.path) :
                disk' = [f \in DiskFiles |-> IF f \in some THEN Gone ELSE disk[f]]
    /\ CleanupGoes("raised")
    /\ UNCHANGED <<sizes, dirsGone, archived, inUse, listing, receipt, ext, touched, diskChanges>>

AppliedAll ==
    /\ CleanupPhase("apply") /\ cleanup.at > Len(listing)
    /\ receipt' = TRUE
    /\ CleanupGoes("done")
    /\ UNCHANGED <<disk, sizes, dirsGone, archived, inUse, listing, ext, touched, diskChanges>>

-----------------------------------------------------------------------------
(* ds4_layout_apply.sh: whether the disk is mounted is asked first         *)

LayoutLook ==
    /\ ext.run \notin {"mounted", "not mounted"}
    /\ ext' = [ext EXCEPT !.run = IF ext.mounted THEN "mounted" ELSE "not mounted", !.steady = TRUE]
    /\ UNCHANGED <<disk, sizes, dirsGone, archived, inUse, listing, cleanup, receipt, touched, diskChanges>>

LayoutAct ==
    /\ ext.run \in {"mounted", "not mounted"}
    /\ ext' = CASE ext.alias = "other link" -> [ext EXCEPT !.run = "refused"]
                [] ext.alias \in {"link", "missing"} /\ ext.run = "not mounted" ->
                      [ext EXCEPT !.run = "ready", !.alias = "empty"]
                [] ext.alias \in {"empty", "missing"} /\ ext.run = "mounted" ->
                      [ext EXCEPT !.run = "ready", !.alias = "link"]
                [] OTHER -> [ext EXCEPT !.run = "ready"]
    /\ UNCHANGED <<disk, sizes, dirsGone, archived, inUse, listing, cleanup, receipt, touched, diskChanges>>

-----------------------------------------------------------------------------
(* Others                                                                  *)

(* the disk comes or goes; without it, what is written to the alias stays  *)
(* on the internal disk                                                    *)
ExternalChanges ==
    /\ diskChanges < MaxDiskChanges /\ diskChanges' = diskChanges + 1
    /\ \/ ext' = [ext EXCEPT !.mounted = ~@, !.steady = FALSE]
       \/ ext.alias = "empty" /\ ext' = [ext EXCEPT !.alias = "filled"]
    /\ UNCHANGED <<disk, sizes, dirsGone, archived, inUse, listing, cleanup, receipt, touched>>

(* another program writes to a file, removes it, or has it open *)
DiskChanges(f) ==
    /\ diskChanges < MaxDiskChanges /\ diskChanges' = diskChanges + 1
    /\ \/ /\ disk[f] # Gone
          /\ \/ sizes' = [sizes EXCEPT ![disk[f]] = @ + 1] /\ UNCHANGED disk
             \/ disk' = [disk EXCEPT ![f] = Gone] /\ UNCHANGED sizes
          /\ touched' = touched \cup {g \in DiskFiles : disk[g] = disk[f]}
          /\ UNCHANGED inUse
       \/ /\ disk[f] # Gone
          /\ \E p \in DiskPaths : f \in FilesOf(p) /\ inUse' = inUse \cup {p}
          /\ UNCHANGED <<disk, sizes, touched>>
    /\ UNCHANGED <<dirsGone, archived, listing, cleanup, receipt, ext>>

CleanupNext ==
    \/ CheckEntry \/ CheckedAll \/ ApplyEntry \/ DeleteBreaks \/ AppliedAll
    \/ LayoutLook \/ LayoutAct \/ ExternalChanges
    \/ \E f \in DiskFiles : DiskChanges(f)

-----------------------------------------------------------------------------
(* Properties                                                              *)

Untouched(f) == f \notin touched

(* A file that no other program touched is missing only when a run with    *)
(* --apply found every entry ready, an entry names it or its directory,    *)
(* and that entry is not a protected path (main of ds4_layout_cleanup).    *)
OnlyListedRemoved ==
    \A f \in DiskFiles : Untouched(f) /\ disk[f] = Gone =>
        /\ cleanup.apply /\ cleanup.ready
        /\ \E i \in DOMAIN listing : f \in FilesOf(listing[i].path) /\ listing[i].path \notin ProtectedPaths

(* A receipt is written only when every entry is gone from its place; what *)
(* was to be archived is in the archive and not lost, unless an entry of   *)
(* its own deleted it, even when entries lie within each other             *)
(* (apply_entry, receipt_path).                                            *)
ReceiptTrue ==
    receipt => \A i \in DOMAIN listing :
        /\ ~Exists(listing[i].path)
        /\ listing[i].action = "archive" =>
              \A f \in FilesOf(listing[i].path) : Untouched(f) /\ f \notin ExternalFiles =>
                  \/ archived[f] = DiskInodes[f]
                  \/ \E k \in DOMAIN listing : listing[k].action = "delete" /\ f \in FilesOf(listing[k].path)

(* A manifest the tool made is accepted unless something changed or is     *)
(* open: the two programs count hard links and protect paths alike         *)
(* (tree_stats and validate_path of one, validate_entry of the other).     *)
MadeIsAccepted ==
    CleanupPhase("refused") /\ cleanup.made => touched # {} \/ inUse # {} \/ diskChanges > 0

(* After a run of the layout script under which the disk neither came nor  *)
(* went, the alias leads to the disk if and only if it is mounted; the     *)
(* exception is a directory with files of its own, which stays             *)
(* (ds4_layout_apply.sh).                                                  *)
AliasRight ==
    ext.run = "ready" /\ ext.steady => ext.alias = "filled" \/ (ext.alias = "link") = ext.mounted
=============================================================================
