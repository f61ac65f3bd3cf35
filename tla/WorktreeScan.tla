----------------------------- MODULE WorktreeScan -----------------------------
(***************************************************************************)
(* How the dispatcher reads a worktree that somebody may be editing.  It   *)
(* takes no lock on the worktree: it reads everything twice and compares   *)
(* what it read, with the binding (device, inode, sizes and times) of      *)
(* every object.  Three scans of agy_dispatch_worktree.py are modelled:    *)
(*                                                                         *)
(*   "names"     readable_path_manifest: the paths a provider could read;  *)
(*   "whole"     whole_worktree_content_manifest: paths and bytes, the     *)
(*               content a launch approval is bound to;                    *)
(*   "snapshot"  _worktree_snapshot_raw: what git lists, the bytes of each *)
(*               listed path, and the topology of the directories, the     *)
(*               baseline a candidate is compared with.                    *)
(*                                                                         *)
(* A binding is a stamp: no two states of one object have the same, because*)
(* every change sets the change time (two changes within the clock's       *)
(* granularity are not distinguished by the code nor by this model).       *)
(* The deadline and the size limits only refuse, and are left out.         *)
(***************************************************************************)
EXTENDS Naturals, FiniteSets

CONSTANTS
  Top, Sub,          \* the file names in the root and in one subdirectory
  Bodies,            \* what a file may hold
  Absent,            \* the body of a path that does not exist
  MaxEdits           \* bound on the edits made while the scan runs

ASSUME PathsAssumption == Top \cap Sub = {} /\ Absent \notin Bodies

ASSUME EditsAssumption == MaxEdits \in Nat

VARIABLES
  tree,              \* what each path holds
  tracked,           \* the paths in the git index
  fs, ds, ix,        \* the bindings of the files, the directories, the index
  clock,             \* the last stamp given
  kind, pc,          \* the scan and the pass it is in
  dir,               \* how far the walk is with each directory
  todo,              \* the paths this pass has yet to read
  fd,                \* the file being read
  now, was,          \* what this pass and the pass before it collected
  heard, listing,    \* what git listed last, and first
  start,             \* bindings of the root and the index at the start
  mid                \* history: the worktree between the two collects

world == <<tree, tracked, fs, ds, ix, clock>>
scan == <<kind, pc, dir, todo, fd, now, was, heard, listing, start, mid>>
vars == <<world, scan>>

Paths == Top \cup Sub
Dirs == {"root", "sub"}
In(d) == IF d = "root" THEN Top ELSE Sub
DirOf(p) == IF p \in Top THEN "root" ELSE "sub"
Present(t) == {p \in Paths : t[p] # Absent}

NoFile == [step |-> "none", path |-> Absent, stamp |-> 0, body |-> Absent]

Nothing ==
  [names |-> {}, bind |-> [d \in Dirs |-> 0],
   seen |-> [p \in Paths |-> 0], got |-> [p \in Paths |-> Absent]]

NotWalked == [d \in Dirs |-> "new"]

Sweeps == {"sweep1", "sweep2"}          \* a walk that visits every file
Walks == Sweeps \cup {"dirs1", "dirs2"} \* a walk over the directories
Reads == {"observe", "recheck"}         \* a read of the listed paths
Ended == {"accepted", "refused"}

Init ==
  /\ tree \in [Paths -> Bodies \cup {Absent}]
  /\ tracked \in SUBSET Paths
  /\ fs = [p \in Paths |-> 1] /\ ds = [d \in Dirs |-> 1] /\ ix = 1
  /\ clock = 1
  /\ kind \in {"names", "whole", "snapshot"}
  /\ pc = IF kind = "snapshot" THEN "list1" ELSE "sweep1"
  /\ dir = NotWalked /\ todo = {} /\ fd = NoFile
  /\ now = Nothing /\ was = Nothing
  /\ heard = [tracked |-> {}, others |-> {}]
  /\ listing = [tracked |-> {}, others |-> {}]
  /\ start = [root |-> 1, ix |-> 1]
  /\ mid = [tree |-> tree, tracked |-> tracked, fs |-> fs, ds |-> ds]

-----------------------------------------------------------------------------
(* The owner of the worktree edits it at any moment. *)

Touch(p, b) ==
  /\ fs' = [fs EXCEPT ![p] = clock + 1]
  /\ tree' = [tree EXCEPT ![p] = b]
  /\ clock' = clock + 1

Write(p, b) ==
  /\ tree[p] # Absent
  /\ Touch(p, b)
  /\ UNCHANGED <<tracked, ds, ix>>

Create(p, b) ==
  /\ tree[p] = Absent
  /\ Touch(p, b)
  /\ ds' = [ds EXCEPT ![DirOf(p)] = clock + 1]
  /\ UNCHANGED <<tracked, ix>>

Delete(p) ==
  /\ tree[p] # Absent
  /\ Touch(p, Absent)
  /\ ds' = [ds EXCEPT ![DirOf(p)] = clock + 1]
  /\ UNCHANGED <<tracked, ix>>

Stage(p) ==
  /\ tracked' = IF p \in tracked THEN tracked \ {p} ELSE tracked \cup {p}
  /\ ix' = clock + 1 /\ clock' = clock + 1
  /\ UNCHANGED <<tree, fs, ds>>

Edit ==
  /\ clock <= MaxEdits /\ pc \notin Ended
  /\ \E p \in Paths :
        \/ \E b \in Bodies : Write(p, b) \/ Create(p, b)
        \/ Delete(p)
        \/ Stage(p)
  /\ UNCHANGED scan

-----------------------------------------------------------------------------
(* Walking the directories *)

Refuse ==
  /\ pc' = "refused"
  /\ UNCHANGED <<kind, dir, todo, fd, now, was, heard, listing, start, mid>>

BindDir(d) ==
  /\ pc \in Walks /\ fd = NoFile /\ dir[d] = "new"
  /\ d = "sub" => dir["root"] = "listed"
  /\ dir' = [dir EXCEPT ![d] = "bound"]
  /\ now' = [now EXCEPT !.bind[d] = ds[d]]
  /\ UNCHANGED <<world, kind, pc, todo, fd, was, heard, listing, start, mid>>

ListDir(d) ==
  LET found == In(d) \cap Present(tree)
  IN /\ pc \in Walks /\ dir[d] = "bound"
     /\ dir' = [dir EXCEPT ![d] = "listed"]
     /\ now' = [now EXCEPT !.names = @ \cup found]
     /\ todo' = todo \cup found
     /\ UNCHANGED <<world, kind, pc, fd, was, heard, listing, start, mid>>

(* The topology walk of a snapshot only asks for the kind of a file. *)
StatKind(p) ==
  /\ pc \in Walks \ Sweeps /\ p \in todo
  /\ \/ /\ tree[p] # Absent
        /\ todo' = todo \ {p}
        /\ UNCHANGED <<kind, pc, dir, fd, now, was, heard, listing, start, mid>>
     \/ tree[p] = Absent /\ Refuse
  /\ UNCHANGED world

CloseDir(d) ==
  /\ pc \in Walks /\ dir[d] = "listed" /\ fd = NoFile
  /\ todo \cap In(d) = {}
  /\ d = "root" => dir["sub"] = "closed"
  /\ \/ /\ ds[d] = now.bind[d]
        /\ dir' = [dir EXCEPT ![d] = "closed"]
        /\ UNCHANGED <<kind, pc, todo, fd, now, was, heard, listing, start, mid>>
     \/ ds[d] # now.bind[d] /\ Refuse
  /\ UNCHANGED world

Walked == pc \in Walks /\ dir["root"] = "closed"

-----------------------------------------------------------------------------
(* Reading one file: its binding, its bytes, and its binding again *)

StatFile(p) ==
  /\ pc \in Sweeps \cup Reads /\ p \in todo /\ fd = NoFile
  /\ tree[p] # Absent
  /\ fd' = [step |-> "stat", path |-> p, stamp |-> fs[p], body |-> Absent]
  /\ UNCHANGED <<world, kind, pc, dir, todo, now, was, heard, listing, start, mid>>

(* Mutant: a path that was not found must be found when it is read again. *)
MissingOnce(p) == pc = "observe"

(* A sweep met the name in its directory; a read only has it from git. *)
MayBeMissing(p) == pc = "observe" \/ (pc = "recheck" /\ was.seen[p] = 0)

StatMissing(p) ==
  /\ pc \in Sweeps \cup Reads /\ p \in todo /\ fd = NoFile
  /\ tree[p] = Absent
  /\ \/ /\ MayBeMissing(p)
        /\ todo' = todo \ {p}
        /\ UNCHANGED <<kind, pc, dir, fd, now, was, heard, listing, start, mid>>
     \/ ~MayBeMissing(p) /\ Refuse
  /\ UNCHANGED world

ReadFile ==
  /\ fd.step = "stat" /\ kind # "names" /\ pc \notin Ended
  /\ \/ /\ tree[fd.path] # Absent
        /\ fd' = [fd EXCEPT !.step = "read", !.body = tree[fd.path]]
        /\ UNCHANGED <<kind, pc, dir, todo, now, was, heard, listing, start, mid>>
     \/ tree[fd.path] = Absent /\ Refuse
  /\ UNCHANGED world

(* Mutant: only the bytes are compared. *)
SameBytes(p) == fd.body = was.got[p]

AsBefore(p) == fd.stamp = was.seen[p] /\ fd.body = was.got[p]

CheckFile ==
  LET p == fd.path
      same == fs[p] = fd.stamp /\ (pc = "recheck" => AsBefore(p))
  IN /\ fd.step = (IF kind = "names" THEN "stat" ELSE "read")
     /\ pc \notin Ended
     /\ \/ /\ same
           /\ now' = [now EXCEPT !.seen[p] = fd.stamp, !.got[p] = fd.body]
           /\ todo' = todo \ {p} /\ fd' = NoFile
           /\ UNCHANGED <<kind, pc, dir, was, heard, listing, start, mid>>
        \/ ~same /\ Refuse
     /\ UNCHANGED world

-----------------------------------------------------------------------------
(* The whole-worktree scans: two sweeps that must agree *)

Here == [tree |-> tree, tracked |-> tracked, fs |-> fs, ds |-> ds]

SecondSweep ==
  /\ pc = "sweep1" /\ Walked
  /\ pc' = "sweep2"
  /\ was' = now /\ now' = Nothing /\ dir' = NotWalked
  /\ mid' = Here
  /\ UNCHANGED <<world, kind, todo, fd, heard, listing, start>>

(* Mutant: the entries of the two sweeps are compared without the bindings. *)
SameNames == now.names = was.names

SweepsAgree == now = was

Compare ==
  /\ pc = "sweep2" /\ Walked
  /\ pc' = IF SweepsAgree /\ ds["root"] = start.root
           THEN "accepted" ELSE "refused"
  /\ UNCHANGED <<world, kind, dir, todo, fd, now, was, heard, listing, start,
                 mid>>

-----------------------------------------------------------------------------
(* The snapshot: listings, contents and topology, each taken twice *)

Listings == {"list1", "list2", "list3"}

(* git reads the index and the untracked names in separate processes. *)
ListIndex ==
  /\ pc \in Listings
  /\ heard' = [heard EXCEPT !.tracked = tracked]
  /\ pc' = CASE pc = "list1" -> "others1"
             [] pc = "list2" -> "others2"
             [] pc = "list3" -> "others3"
  /\ UNCHANGED <<world, kind, dir, todo, fd, now, was, listing, start, mid>>

Untracked == Present(tree) \ tracked

(* Mutant: the two lists are kept apart. *)
ListedApart == {listing.tracked, listing.others}

Listed == listing.tracked \cup listing.others

FirstListing ==
  /\ pc = "others1"
  /\ heard' = [heard EXCEPT !.others = Untracked]
  /\ listing' = heard'
  /\ todo' = heard'.tracked \cup heard'.others
  /\ pc' = "observe"
  /\ UNCHANGED <<world, kind, dir, fd, now, was, start, mid>>

Observed ==
  /\ pc = "observe" /\ todo = {} /\ fd = NoFile
  /\ pc' = "dirs1"
  /\ UNCHANGED <<world, kind, dir, todo, fd, now, was, heard, listing, start,
                 mid>>

FirstTopology ==
  /\ pc = "dirs1" /\ Walked
  /\ pc' = "list2"
  /\ UNCHANGED <<world, kind, dir, todo, fd, now, was, heard, listing, start,
                 mid>>

SecondListing ==
  LET same == heard' = listing /\ ix = start.ix
  IN /\ pc = "others2"
     /\ heard' = [heard EXCEPT !.others = Untracked]
     /\ pc' = IF same THEN "recheck" ELSE "refused"
     /\ was' = now /\ now' = Nothing /\ dir' = NotWalked
     /\ todo' = Listed
     /\ mid' = Here
     /\ UNCHANGED <<world, kind, fd, listing, start>>

Rechecked ==
  /\ pc = "recheck" /\ todo = {} /\ fd = NoFile
  /\ pc' = "list3"
  /\ UNCHANGED <<world, kind, dir, todo, fd, now, was, heard, listing, start,
                 mid>>

ThirdListing ==
  /\ pc = "others3"
  /\ heard' = [heard EXCEPT !.others = Untracked]
  /\ pc' = IF heard' = listing /\ ix = start.ix THEN "dirs2" ELSE "refused"
  /\ UNCHANGED <<world, kind, dir, todo, fd, now, was, listing, start, mid>>

Finish ==
  /\ pc = "dirs2" /\ Walked
  /\ pc' = IF /\ now.names = was.names
              /\ ix = start.ix /\ ds["root"] = start.root
           THEN "accepted" ELSE "refused"
  /\ UNCHANGED <<world, kind, dir, todo, fd, now, was, heard, listing, start,
                 mid>>

-----------------------------------------------------------------------------
WalkStep ==
  \/ \E d \in Dirs : BindDir(d) \/ ListDir(d) \/ CloseDir(d)
  \/ \E p \in Paths : StatKind(p)

FileStep ==
  \/ \E p \in Paths : StatFile(p) \/ StatMissing(p)
  \/ ReadFile
  \/ CheckFile

SweepStep == SecondSweep \/ Compare

SnapshotStep ==
  \/ ListIndex
  \/ FirstListing \/ SecondListing \/ ThirdListing
  \/ Observed \/ FirstTopology \/ Rechecked \/ Finish

Next == Edit \/ WalkStep \/ FileStep \/ SweepStep \/ SnapshotStep

Spec == Init /\ [][Next]_vars

-----------------------------------------------------------------------------
Passes == {"sweep1", "sweep2", "list1", "others1", "observe", "dirs1", "list2",
           "others2", "recheck", "list3", "others3", "dirs2"}

Collects ==
  [names : SUBSET Paths, bind : [Dirs -> Nat], seen : [Paths -> Nat],
   got : [Paths -> Bodies \cup {Absent}]]

(* The state stays within its types. *)
TypeOK ==
  /\ tree \in [Paths -> Bodies \cup {Absent}]
  /\ tracked \in SUBSET Paths
  /\ fs \in [Paths -> Nat] /\ ds \in [Dirs -> Nat] /\ ix \in Nat
  /\ clock \in Nat
  /\ kind \in {"names", "whole", "snapshot"}
  /\ pc \in Passes \cup Ended
  /\ dir \in [Dirs -> {"new", "bound", "listed", "closed"}]
  /\ todo \in SUBSET Paths
  /\ fd \in [step : {"none", "stat", "read"}, path : Paths \cup {Absent},
             stamp : Nat, body : Bodies \cup {Absent}]
  /\ now \in Collects /\ was \in Collects
  /\ heard \in [tracked : SUBSET Paths, others : SUBSET Paths]
  /\ listing \in [tracked : SUBSET Paths, others : SUBSET Paths]
  /\ start \in [root : Nat, ix : Nat]
  /\ mid \in [tree : [Paths -> Bodies \cup {Absent}], tracked : SUBSET Paths,
              fs : [Paths -> Nat], ds : [Dirs -> Nat]]

(***************************************************************************)
(* A scan that is accepted read one state of the worktree, however the     *)
(* owner edited it meanwhile: the names, and for a content scan the bytes, *)
(* are those of the moment between the two sweeps.  No set of files that   *)
(* never existed together can be previewed, approved or confirmed          *)
(* (readable_path_manifest, whole_worktree_content_manifest).              *)
(***************************************************************************)
SweepAtomic ==
  pc = "accepted" /\ kind # "snapshot" =>
    /\ was.names = Present(mid.tree)
    /\ kind = "whole" => \A p \in was.names : was.got[p] = mid.tree[p]

(***************************************************************************)
(* An accepted snapshot is one state of the worktree too, the one of its   *)
(* second listing: git's index, the untracked names, and the bytes of      *)
(* every listed path that was found.  In the root, whose binding is held   *)
(* from the start to the end, the paths that were not found and the names  *)
(* of the topology are of that moment as well (_worktree_snapshot_raw).    *)
(***************************************************************************)
SnapshotAtomic ==
  pc = "accepted" /\ kind = "snapshot" =>
    /\ listing.tracked = mid.tracked
    /\ listing.others = Present(mid.tree) \ mid.tracked
    /\ \A p \in Listed : was.seen[p] # 0 => was.got[p] = mid.tree[p]
    /\ \A p \in Top : /\ p \in Listed /\ was.seen[p] = 0 => mid.tree[p] = Absent
                      /\ p \in was.names <=> mid.tree[p] # Absent

\* Whatever is accepted by one of the three scans is one state of the worktree.
ScanAtomic == SweepAtomic /\ SnapshotAtomic

(***************************************************************************)
(* A scan is refused only because something was edited while it ran: in a  *)
(* worktree at rest every scan is accepted, whatever it holds, deleted     *)
(* tracked files and untracked ones included.                              *)
(***************************************************************************)
RefusedOnlyIfEdited == pc = "refused" => clock > 1
=============================================================================
