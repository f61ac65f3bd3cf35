-------------------------- MODULE WorktreeScanProofs --------------------------
(***************************************************************************)
(* Proofs about WorktreeScan, for every set of files and every number of   *)
(* edits.  Bindings only grow: a binding met on either side of the middle  *)
(* of the scan was in place at the middle.                                 *)
(***************************************************************************)
EXTENDS WorktreeScan, TLAPS

(***************************************************************************)
(* The inductive invariant.  Bindings only grow.  So a binding met before  *)
(* the middle of the scan and again after it was in place at the middle,   *)
(* and with it what it is the binding of.                                  *)
(***************************************************************************)
Kinds ==
  /\ pc \in Sweeps => kind # "snapshot"
  /\ pc \in Passes \ Sweeps => kind = "snapshot"

Stamps ==
  /\ \A p \in Paths : 1 <= fs[p] /\ fs[p] <= clock
  /\ \A d \in Dirs : 1 <= ds[d] /\ ds[d] <= clock
  /\ 1 <= ix /\ ix <= clock
  /\ start.root = 1 /\ start.ix = 1

(* What this pass read of a file is true of it while its binding stands. *)
Files ==
  \A p \in Paths :
    /\ now.seen[p] <= fs[p]
    /\ now.seen[p] = fs[p] => /\ tree[p] # Absent
                              /\ kind # "names" => now.got[p] = tree[p]
    /\ now.seen[p] = 0 \/ kind = "names" => now.got[p] = Absent

Held ==
  /\ fd.step # "none" =>
       /\ fd.path \in todo /\ pc \notin Passes \ (Sweeps \cup Reads)
       /\ pc # "accepted"
       /\ 1 <= fd.stamp /\ fd.stamp <= fs[fd.path]
       /\ fd.stamp = fs[fd.path] =>
            /\ tree[fd.path] # Absent
            /\ fd.step = "read" => fd.body = tree[fd.path]
  /\ kind = "names" => fd.body = Absent

(* What this walk listed of a directory, likewise. *)
Names ==
  \A d \in Dirs :
    /\ now.bind[d] <= ds[d]
    /\ dir[d] # "new" => 1 <= now.bind[d]
    /\ dir[d] \in {"new", "bound"} => \A p \in In(d) : p \notin now.names
    /\ dir[d] \in {"listed", "closed"} /\ now.bind[d] = ds[d] =>
         \A p \in In(d) : p \in now.names <=> tree[p] # Absent

Walk ==
  /\ dir["root"] = "closed" => dir["sub"] = "closed"
  /\ pc \in Walks => \A d \in Dirs : dir[d] = "closed" => todo \cap In(d) = {}
  /\ pc \in Walks => todo \subseteq now.names
  /\ kind # "snapshot" /\ pc # "refused" =>
       \A p \in Paths : /\ now.seen[p] # 0 => p \in now.names
                        /\ p \in now.names => p \in todo \/ now.seen[p] # 0
  /\ pc \in {"list1", "others1", "observe", "recheck", "list3", "others3"} =>
       \A d \in Dirs : dir[d] = "new"
  /\ pc \in {"list1", "others1", "list2", "others2", "list3", "others3"} =>
       todo = {}
  /\ pc \in {"list2", "others2", "accepted"} => dir["root"] = "closed"

Late == {"sweep2", "recheck", "list3", "others3", "dirs2", "accepted"}

(* The two collects, on either side of the middle. *)
MidFiles ==
  pc \in Late =>
    \A p \in Paths :
      /\ was.seen[p] <= mid.fs[p] /\ 1 <= mid.fs[p] /\ mid.fs[p] <= fs[p]
      /\ was.seen[p] = mid.fs[p] =>
           /\ mid.tree[p] # Absent
           /\ kind # "names" => was.got[p] = mid.tree[p]
      /\ was.seen[p] = 0 \/ kind = "names" => was.got[p] = Absent
      /\ mid.fs[p] = fs[p] => mid.tree[p] = tree[p]
      /\ now.seen[p] # 0 => mid.fs[p] <= now.seen[p]
      /\ kind # "snapshot" => (p \in was.names <=> was.seen[p] # 0)

MidHeld == pc \in Late /\ fd.step # "none" => mid.fs[fd.path] <= fd.stamp

MidDirs ==
  pc \in Late =>
    \A d \in Dirs :
      /\ 1 <= was.bind[d] /\ was.bind[d] <= mid.ds[d] /\ mid.ds[d] <= ds[d]
      /\ was.bind[d] = mid.ds[d] =>
           \A p \in In(d) : p \in was.names <=> mid.tree[p] # Absent
      /\ dir[d] # "new" => mid.ds[d] <= now.bind[d]

Heard ==
  kind = "snapshot" =>
    /\ pc # "list1" /\ ix = 1 => heard.tracked = tracked
    /\ pc \notin {"list1", "others1"} =>
         /\ ix = 1 => listing.tracked = tracked
         /\ clock = 1 => listing.others = Present(tree) \ tracked

(* A listed path that was not found, while its directory stood. *)
Missing ==
  kind = "snapshot" =>
    /\ pc = "observe" =>
         \A p \in Listed \ todo :
           now.seen[p] = 0 /\ ds[DirOf(p)] = 1 => tree[p] = Absent
    /\ pc \in {"dirs1", "list2", "others2"} =>
         \A p \in Listed :
           now.seen[p] = 0 /\ ds[DirOf(p)] = 1 => tree[p] = Absent

MidListed ==
  kind = "snapshot" /\ pc \in Late =>
    /\ listing.tracked = mid.tracked
    /\ listing.others = Present(mid.tree) \ mid.tracked
    /\ \A p \in Listed :
         was.seen[p] = 0 /\ mid.ds[DirOf(p)] = 1 => mid.tree[p] = Absent

Again ==
  kind = "snapshot" =>
    /\ pc = "recheck" =>
         \A p \in Listed \ todo : was.seen[p] # 0 => now.seen[p] = was.seen[p]
    /\ pc \in {"list3", "others3", "dirs2", "accepted"} =>
         \A p \in Listed : was.seen[p] # 0 => now.seen[p] = was.seen[p]

Verdict ==
  /\ pc = "accepted" =>
       /\ kind # "snapshot" => now = was
       /\ kind = "snapshot" => ds["root"] = 1
  /\ pc = "refused" => clock > 1

\* A read pass reads what was listed.
Rereads == pc \in Reads => todo \subseteq Listed

-----------------------------------------------------------------------------
\* The type invariant in parts.
WorldOK ==
  /\ tree \in [Paths -> Bodies \cup {Absent}] /\ tracked \in SUBSET Paths
  /\ fs \in [Paths -> Nat] /\ ds \in [Dirs -> Nat] /\ ix \in Nat
  /\ clock \in Nat

WalkOK ==
  /\ kind \in {"names", "whole", "snapshot"} /\ pc \in Passes \cup Ended
  /\ dir \in [Dirs -> {"new", "bound", "listed", "closed"}]
  /\ todo \in SUBSET Paths

FdOK ==
  fd \in [step : {"none", "stat", "read"}, path : Paths \cup {Absent},
          stamp : Nat, body : Bodies \cup {Absent}]

CollectsOK == now \in Collects /\ was \in Collects

GitOK ==
  /\ heard \in [tracked : SUBSET Paths, others : SUBSET Paths]
  /\ listing \in [tracked : SUBSET Paths, others : SUBSET Paths]
  /\ start \in [root : Nat, ix : Nat]

MidOK ==
  mid \in [tree : [Paths -> Bodies \cup {Absent}], tracked : SUBSET Paths,
           fs : [Paths -> Nat], ds : [Dirs -> Nat]]

Types == WorldOK /\ WalkOK /\ FdOK /\ CollectsOK /\ GitOK /\ MidOK

\* The parts are the type invariant.
LEMMA TypeParts == TypeOK <=> Types
  BY DEF TypeOK, Types, WorldOK, WalkOK, FdOK, CollectsOK, GitOK, MidOK

\* A path is in its directory and in no other.
LEMMA Placed ==
  /\ \A p \in Paths : DirOf(p) \in Dirs /\ p \in In(DirOf(p))
  /\ \A d \in Dirs : \A p \in In(d) : p \in Paths /\ DirOf(p) = d
  BY PathsAssumption DEF Paths, Dirs, In, DirOf

\* What checking a file does when its binding stands.
Taken(p) ==
  /\ p \in Paths /\ p \in todo /\ fs[p] = fd.stamp /\ pc \notin Ended
  /\ fd.path = p /\ fd.step # "none"
  /\ kind # "names" => fd.step = "read"
  /\ pc = "recheck" => fd.stamp = was.seen[p]
  /\ now'.names = now.names /\ now'.bind = now.bind
  /\ now'.seen = [now.seen EXCEPT ![p] = fd.stamp]
  /\ now'.got = [now.got EXCEPT ![p] = fd.body]
  /\ todo' = todo \ {p} /\ fd' = NoFile
  /\ UNCHANGED <<world, kind, pc, dir, was, heard, listing, start, mid>>

\* A file is taken or the scan is refused.
LEMMA CheckEffect ==
  ASSUME FdOK, CollectsOK, WalkOK, Held, CheckFile
  PROVE  Taken(fd.path) \/ (Refuse /\ UNCHANGED world)
<1>1. fd.step # "none" /\ (kind # "names" => fd.step = "read") /\ pc \notin Ended
  BY DEF CheckFile
<1>2. fd.path \in Paths /\ fd.path \in todo
  BY <1>1 DEF Held, WalkOK
<1>3. CASE Refuse /\ UNCHANGED world
  BY <1>3
<1>4. CASE ~(Refuse /\ UNCHANGED world)
  <2>1. /\ fs[fd.path] = fd.stamp
        /\ pc = "recheck" => fd.stamp = was.seen[fd.path]
        /\ now' = [now EXCEPT !.seen[fd.path] = fd.stamp, !.got[fd.path] = fd.body]
        /\ todo' = todo \ {fd.path} /\ fd' = NoFile
        /\ UNCHANGED <<world, kind, pc, dir, was, heard, listing, start, mid>>
    BY <1>4 DEF CheckFile, AsBefore
  <2>2. /\ now'.names = now.names /\ now'.bind = now.bind
        /\ now'.seen = [now.seen EXCEPT ![fd.path] = fd.stamp]
        /\ now'.got = [now.got EXCEPT ![fd.path] = fd.body]
    BY <2>1 DEF CollectsOK, Collects
  <2> QED
    BY <1>1, <1>2, <2>1, <2>2 DEF Taken
<1> QED
  BY <1>3, <1>4

\* The worktree stays a worktree.
LEMMA WorldTypes ==
  ASSUME WorldOK, [Next]_vars
  PROVE  WorldOK'
<1>1. ASSUME NEW p \in Paths, NEW b \in Bodies, Write(p, b), UNCHANGED scan PROVE WorldOK'
  BY <1>1 DEF Write, Touch, world, scan, WorldOK, Paths, Dirs, DirOf
<1>2. ASSUME NEW p \in Paths, NEW b \in Bodies, Create(p, b), UNCHANGED scan PROVE WorldOK'
  BY <1>2 DEF Create, Touch, world, scan, WorldOK, Paths, Dirs, DirOf
<1>3. ASSUME NEW p \in Paths, Delete(p), UNCHANGED scan PROVE WorldOK'
  BY <1>3 DEF Delete, Touch, world, scan, WorldOK, Paths, Dirs, DirOf
<1>4. ASSUME NEW p \in Paths, Stage(p), UNCHANGED scan PROVE WorldOK'
  BY <1>4 DEF Stage, world, scan, WorldOK, Paths, Dirs, DirOf
<1>5. ASSUME NEW d \in Dirs, BindDir(d) PROVE WorldOK'
  BY <1>5 DEF BindDir, world, WorldOK, Paths, Dirs, DirOf
<1>6. ASSUME NEW d \in Dirs, ListDir(d) PROVE WorldOK'
  BY <1>6 DEF ListDir, world, WorldOK, Paths, Dirs, DirOf
<1>7. ASSUME NEW d \in Dirs, CloseDir(d) PROVE WorldOK'
  BY <1>7 DEF CloseDir, Refuse, world, WorldOK, Paths, Dirs, DirOf
<1>8. ASSUME NEW p \in Paths, StatKind(p) PROVE WorldOK'
  BY <1>8 DEF StatKind, Refuse, world, WorldOK, Paths, Dirs, DirOf
<1>9. ASSUME NEW p \in Paths, StatFile(p) PROVE WorldOK'
  BY <1>9 DEF StatFile, world, WorldOK, Paths, Dirs, DirOf
<1>10. ASSUME NEW p \in Paths, StatMissing(p) PROVE WorldOK'
  BY <1>10 DEF StatMissing, Refuse, MayBeMissing, world, WorldOK, Paths, Dirs,
     DirOf
<1>11. CASE ReadFile
  BY <1>11 DEF ReadFile, Refuse, world, WorldOK, Paths, Dirs, DirOf
<1>12. CASE CheckFile
  BY <1>12 DEF CheckFile, Refuse, AsBefore, world, WorldOK, Paths, Dirs, DirOf
<1>13. CASE SecondSweep
  BY <1>13 DEF SecondSweep, Walked, Here, world, WorldOK, Paths, Dirs, DirOf
<1>14. CASE Compare
  BY <1>14 DEF Compare, Walked, SweepsAgree, world, WorldOK, Paths, Dirs,
     DirOf
<1>15. CASE ListIndex
  BY <1>15 DEF ListIndex, Listings, world, WorldOK, Paths, Dirs, DirOf
<1>16. CASE FirstListing
  BY <1>16 DEF FirstListing, Untracked, world, WorldOK, Paths, Dirs, DirOf
<1>17. CASE Observed
  BY <1>17 DEF Observed, world, WorldOK, Paths, Dirs, DirOf
<1>18. CASE FirstTopology
  BY <1>18 DEF FirstTopology, Walked, world, WorldOK, Paths, Dirs, DirOf
<1>19. CASE SecondListing
  BY <1>19 DEF SecondListing, Untracked, Here, world, WorldOK, Paths, Dirs,
     DirOf
<1>20. CASE Rechecked
  BY <1>20 DEF Rechecked, world, WorldOK, Paths, Dirs, DirOf
<1>21. CASE ThirdListing
  BY <1>21 DEF ThirdListing, Untracked, world, WorldOK, Paths, Dirs, DirOf
<1>22. CASE Finish
  BY <1>22 DEF Finish, Walked, world, WorldOK, Paths, Dirs, DirOf
<1>23. CASE UNCHANGED vars
  BY <1>23 DEF vars, world, scan, WorldOK, Paths, Dirs, DirOf
<1> QED
  BY <1>1, <1>2, <1>3, <1>4, <1>5, <1>6, <1>7, <1>8, <1>9, <1>10, <1>11,
     <1>12, <1>13, <1>14, <1>15, <1>16, <1>17, <1>18, <1>19, <1>20, <1>21,
     <1>22, <1>23 DEF Next, Edit, WalkStep, FileStep, SweepStep, SnapshotStep

\* The walk stays a walk.
LEMMA WalkTypes ==
  ASSUME WorldOK, WalkOK, FdOK, GitOK, [Next]_vars
  PROVE  WalkOK'
<1>1. ASSUME NEW p \in Paths, NEW b \in Bodies, Write(p, b), UNCHANGED scan PROVE WalkOK'
  BY <1>1 DEF Write, Touch, world, scan, WalkOK, GitOK, Listed, Present,
     NotWalked, NoFile, In, Paths, Passes, Ended, Sweeps, Walks, Reads, Late
<1>2. ASSUME NEW p \in Paths, NEW b \in Bodies, Create(p, b), UNCHANGED scan PROVE WalkOK'
  BY <1>2 DEF Create, Touch, world, scan, WalkOK, GitOK, Listed, Present,
     NotWalked, NoFile, In, Paths, Passes, Ended, Sweeps, Walks, Reads, Late
<1>3. ASSUME NEW p \in Paths, Delete(p), UNCHANGED scan PROVE WalkOK'
  BY <1>3 DEF Delete, Touch, world, scan, WalkOK, GitOK, Listed, Present,
     NotWalked, NoFile, In, Paths, Passes, Ended, Sweeps, Walks, Reads, Late
<1>4. ASSUME NEW p \in Paths, Stage(p), UNCHANGED scan PROVE WalkOK'
  BY <1>4 DEF Stage, world, scan, WalkOK, GitOK, Listed, Present, NotWalked,
     NoFile, In, Paths, Passes, Ended, Sweeps, Walks, Reads, Late
<1>5. ASSUME NEW d \in Dirs, BindDir(d) PROVE WalkOK'
  BY <1>5 DEF BindDir, world, WalkOK, GitOK, Listed, Present, NotWalked,
     NoFile, In, Paths, Passes, Ended, Sweeps, Walks, Reads, Late
<1>6. ASSUME NEW d \in Dirs, ListDir(d) PROVE WalkOK'
  BY <1>6 DEF ListDir, world, WalkOK, GitOK, Listed, Present, NotWalked,
     NoFile, In, Paths, Passes, Ended, Sweeps, Walks, Reads, Late
<1>7. ASSUME NEW d \in Dirs, CloseDir(d) PROVE WalkOK'
  BY <1>7 DEF CloseDir, Refuse, world, WalkOK, GitOK, Listed, Present,
     NotWalked, NoFile, In, Paths, Passes, Ended, Sweeps, Walks, Reads, Late
<1>8. ASSUME NEW p \in Paths, StatKind(p) PROVE WalkOK'
  BY <1>8 DEF StatKind, Refuse, world, WalkOK, GitOK, Listed, Present,
     NotWalked, NoFile, In, Paths, Passes, Ended, Sweeps, Walks, Reads, Late
<1>9. ASSUME NEW p \in Paths, StatFile(p) PROVE WalkOK'
  BY <1>9 DEF StatFile, world, WalkOK, GitOK, Listed, Present, NotWalked,
     NoFile, In, Paths, Passes, Ended, Sweeps, Walks, Reads, Late
<1>10. ASSUME NEW p \in Paths, StatMissing(p) PROVE WalkOK'
  BY <1>10 DEF StatMissing, Refuse, MayBeMissing, world, WalkOK, GitOK,
     Listed, Present, NotWalked, NoFile, In, Paths, Passes, Ended, Sweeps,
     Walks, Reads, Late
<1>11. CASE ReadFile
  BY <1>11 DEF ReadFile, Refuse, world, WalkOK, GitOK, Listed, Present,
     NotWalked, NoFile, In, Paths, Passes, Ended, Sweeps, Walks, Reads, Late
<1>12. CASE CheckFile
  BY <1>12 DEF CheckFile, Refuse, AsBefore, world, WalkOK, GitOK, Listed,
     Present, NotWalked, NoFile, In, Paths, Passes, Ended, Sweeps, Walks,
     Reads, Late
<1>13. CASE SecondSweep
  BY <1>13 DEF SecondSweep, Walked, Here, world, WalkOK, GitOK, Listed,
     Present, NotWalked, NoFile, In, Paths, Passes, Ended, Sweeps, Walks,
     Reads, Late
<1>14. CASE Compare
  BY <1>14 DEF Compare, Walked, SweepsAgree, world, WalkOK, GitOK, Listed,
     Present, NotWalked, NoFile, In, Paths, Passes, Ended, Sweeps, Walks,
     Reads, Late
<1>15. CASE ListIndex
  BY <1>15 DEF ListIndex, Listings, world, WalkOK, GitOK, Listed, Present,
     NotWalked, NoFile, In, Paths, Passes, Ended, Sweeps, Walks, Reads, Late
<1>16. CASE FirstListing
  BY <1>16 DEF FirstListing, Untracked, world, WalkOK, GitOK, Listed, Present,
     NotWalked, NoFile, In, Paths, Passes, Ended, Sweeps, Walks, Reads, Late
<1>17. CASE Observed
  BY <1>17 DEF Observed, world, WalkOK, GitOK, Listed, Present, NotWalked,
     NoFile, In, Paths, Passes, Ended, Sweeps, Walks, Reads, Late
<1>18. CASE FirstTopology
  BY <1>18 DEF FirstTopology, Walked, world, WalkOK, GitOK, Listed, Present,
     NotWalked, NoFile, In, Paths, Passes, Ended, Sweeps, Walks, Reads, Late
<1>19. CASE SecondListing
  BY <1>19 DEF SecondListing, Untracked, Here, world, WalkOK, GitOK, Listed,
     Present, NotWalked, NoFile, In, Paths, Passes, Ended, Sweeps, Walks,
     Reads, Late
<1>20. CASE Rechecked
  BY <1>20 DEF Rechecked, world, WalkOK, GitOK, Listed, Present, NotWalked,
     NoFile, In, Paths, Passes, Ended, Sweeps, Walks, Reads, Late
<1>21. CASE ThirdListing
  BY <1>21 DEF ThirdListing, Untracked, world, WalkOK, GitOK, Listed, Present,
     NotWalked, NoFile, In, Paths, Passes, Ended, Sweeps, Walks, Reads, Late
<1>22. CASE Finish
  BY <1>22 DEF Finish, Walked, world, WalkOK, GitOK, Listed, Present,
     NotWalked, NoFile, In, Paths, Passes, Ended, Sweeps, Walks, Reads, Late
<1>23. CASE UNCHANGED vars
  BY <1>23 DEF vars, world, scan, WalkOK, GitOK, Listed, Present, NotWalked,
     NoFile, In, Paths, Passes, Ended, Sweeps, Walks, Reads, Late
<1> QED
  BY <1>1, <1>2, <1>3, <1>4, <1>5, <1>6, <1>7, <1>8, <1>9, <1>10, <1>11,
     <1>12, <1>13, <1>14, <1>15, <1>16, <1>17, <1>18, <1>19, <1>20, <1>21,
     <1>22, <1>23 DEF Next, Edit, WalkStep, FileStep, SweepStep, SnapshotStep

\* The open file stays one.
LEMMA FdTypes ==
  ASSUME WorldOK, FdOK, WalkOK, Held, [Next]_vars
  PROVE  FdOK'
<1>1. ASSUME NEW p \in Paths, NEW b \in Bodies, Write(p, b), UNCHANGED scan PROVE FdOK'
  BY <1>1 DEF Write, Touch, world, scan, FdOK, WorldOK, NoFile
<1>2. ASSUME NEW p \in Paths, NEW b \in Bodies, Create(p, b), UNCHANGED scan PROVE FdOK'
  BY <1>2 DEF Create, Touch, world, scan, FdOK, WorldOK, NoFile
<1>3. ASSUME NEW p \in Paths, Delete(p), UNCHANGED scan PROVE FdOK'
  BY <1>3 DEF Delete, Touch, world, scan, FdOK, WorldOK, NoFile
<1>4. ASSUME NEW p \in Paths, Stage(p), UNCHANGED scan PROVE FdOK'
  BY <1>4 DEF Stage, world, scan, FdOK, WorldOK, NoFile
<1>5. ASSUME NEW d \in Dirs, BindDir(d) PROVE FdOK'
  BY <1>5 DEF BindDir, world, FdOK, WorldOK, NoFile
<1>6. ASSUME NEW d \in Dirs, ListDir(d) PROVE FdOK'
  BY <1>6 DEF ListDir, world, FdOK, WorldOK, NoFile
<1>7. ASSUME NEW d \in Dirs, CloseDir(d) PROVE FdOK'
  BY <1>7 DEF CloseDir, Refuse, world, FdOK, WorldOK, NoFile
<1>8. ASSUME NEW p \in Paths, StatKind(p) PROVE FdOK'
  BY <1>8 DEF StatKind, Refuse, world, FdOK, WorldOK, NoFile
<1>9. ASSUME NEW p \in Paths, StatFile(p) PROVE FdOK'
  BY <1>9 DEF StatFile, world, FdOK, WorldOK, NoFile
<1>10. ASSUME NEW p \in Paths, StatMissing(p) PROVE FdOK'
  BY <1>10 DEF StatMissing, Refuse, MayBeMissing, world, FdOK, WorldOK, NoFile
<1>11. CASE ReadFile
  <2>1. CASE fd' = fd
    BY <2>1 DEF FdOK
  <2>2. CASE fd' # fd
    <3>1. tree[fd.path] # Absent /\ fd' = [fd EXCEPT !.step = "read", !.body = tree[fd.path]]
      BY <1>11, <2>2 DEF ReadFile, Refuse
    <3>2. fd.path \in Paths
      BY <1>11 DEF ReadFile, Held, WalkOK
    <3>3. tree[fd.path] \in Bodies \cup {Absent}
      BY <3>2 DEF WorldOK
    <3> QED
      BY <3>1, <3>3 DEF FdOK
  <2> QED
    BY <2>1, <2>2
<1>12. CASE CheckFile
  BY <1>12 DEF CheckFile, Refuse, AsBefore, world, FdOK, WorldOK, NoFile
<1>13. CASE SecondSweep
  BY <1>13 DEF SecondSweep, Walked, Here, world, FdOK, WorldOK, NoFile
<1>14. CASE Compare
  BY <1>14 DEF Compare, Walked, SweepsAgree, world, FdOK, WorldOK, NoFile
<1>15. CASE ListIndex
  BY <1>15 DEF ListIndex, Listings, world, FdOK, WorldOK, NoFile
<1>16. CASE FirstListing
  BY <1>16 DEF FirstListing, Untracked, world, FdOK, WorldOK, NoFile
<1>17. CASE Observed
  BY <1>17 DEF Observed, world, FdOK, WorldOK, NoFile
<1>18. CASE FirstTopology
  BY <1>18 DEF FirstTopology, Walked, world, FdOK, WorldOK, NoFile
<1>19. CASE SecondListing
  BY <1>19 DEF SecondListing, Untracked, Here, world, FdOK, WorldOK, NoFile
<1>20. CASE Rechecked
  BY <1>20 DEF Rechecked, world, FdOK, WorldOK, NoFile
<1>21. CASE ThirdListing
  BY <1>21 DEF ThirdListing, Untracked, world, FdOK, WorldOK, NoFile
<1>22. CASE Finish
  BY <1>22 DEF Finish, Walked, world, FdOK, WorldOK, NoFile
<1>23. CASE UNCHANGED vars
  BY <1>23 DEF vars, world, scan, FdOK, WorldOK, NoFile
<1> QED
  BY <1>1, <1>2, <1>3, <1>4, <1>5, <1>6, <1>7, <1>8, <1>9, <1>10, <1>11,
     <1>12, <1>13, <1>14, <1>15, <1>16, <1>17, <1>18, <1>19, <1>20, <1>21,
     <1>22, <1>23 DEF Next, Edit, WalkStep, FileStep, SweepStep, SnapshotStep

\* What is collected stays a collect.
LEMMA CollectTypes ==
  ASSUME WorldOK, WalkOK, FdOK, CollectsOK, Held, [Next]_vars
  PROVE  CollectsOK'
<1>1. ASSUME NEW p \in Paths, NEW b \in Bodies, Write(p, b), UNCHANGED scan PROVE CollectsOK'
  BY <1>1 DEF Write, Touch, world, scan, CollectsOK, Collects, Nothing,
     NoFile, Present
<1>2. ASSUME NEW p \in Paths, NEW b \in Bodies, Create(p, b), UNCHANGED scan PROVE CollectsOK'
  BY <1>2 DEF Create, Touch, world, scan, CollectsOK, Collects, Nothing,
     NoFile, Present
<1>3. ASSUME NEW p \in Paths, Delete(p), UNCHANGED scan PROVE CollectsOK'
  BY <1>3 DEF Delete, Touch, world, scan, CollectsOK, Collects, Nothing,
     NoFile, Present
<1>4. ASSUME NEW p \in Paths, Stage(p), UNCHANGED scan PROVE CollectsOK'
  BY <1>4 DEF Stage, world, scan, CollectsOK, Collects, Nothing, NoFile,
     Present
<1>5. ASSUME NEW d \in Dirs, BindDir(d) PROVE CollectsOK'
  <2>1. ds[d] \in Nat
    BY <1>5 DEF WorldOK
  <2>2. now' = [now EXCEPT !.bind[d] = ds[d]] /\ was' = was
    BY <1>5 DEF BindDir
  <2>3. /\ now'.bind = [now.bind EXCEPT ![d] = ds[d]] /\ now'.names = now.names
        /\ now'.seen = now.seen /\ now'.got = now.got
        /\ now' = [names |-> now'.names, bind |-> now'.bind, seen |-> now'.seen,
                   got |-> now'.got]
    BY <2>2 DEF CollectsOK, Collects
  <2>4. now.bind \in [Dirs -> Nat]
    BY DEF CollectsOK, Collects
  <2>5. now'.bind \in [Dirs -> Nat]
    BY <2>1, <2>3, <2>4
  <2> QED
    BY <2>2, <2>3, <2>5 DEF CollectsOK, Collects
<1>6. ASSUME NEW d \in Dirs, ListDir(d) PROVE CollectsOK'
  BY <1>6 DEF ListDir, world, CollectsOK, Collects, Nothing, NoFile, Present
<1>7. ASSUME NEW d \in Dirs, CloseDir(d) PROVE CollectsOK'
  BY <1>7 DEF CloseDir, Refuse, world, CollectsOK, Collects, Nothing, NoFile,
     Present
<1>8. ASSUME NEW p \in Paths, StatKind(p) PROVE CollectsOK'
  BY <1>8 DEF StatKind, Refuse, world, CollectsOK, Collects, Nothing, NoFile,
     Present
<1>9. ASSUME NEW p \in Paths, StatFile(p) PROVE CollectsOK'
  BY <1>9 DEF StatFile, world, CollectsOK, Collects, Nothing, NoFile, Present
<1>10. ASSUME NEW p \in Paths, StatMissing(p) PROVE CollectsOK'
  BY <1>10 DEF StatMissing, Refuse, MayBeMissing, world, CollectsOK, Collects,
     Nothing, NoFile, Present
<1>11. CASE ReadFile
  BY <1>11 DEF ReadFile, Refuse, world, CollectsOK, Collects, Nothing, NoFile,
     Present
<1>12. CASE CheckFile
  <2>1. CASE now' = now /\ was' = was
    BY <2>1 DEF CollectsOK
  <2>2. CASE ~(now' = now /\ was' = was)
    <3>1. fd.path \in Paths /\ fd.stamp \in Nat /\ fd.body \in Bodies \cup {Absent}
      BY <1>12 DEF CheckFile, Held, WalkOK, FdOK
    <3>2. /\ now' = [now EXCEPT !.seen[fd.path] = fd.stamp, !.got[fd.path] = fd.body]
          /\ was' = was
      BY <1>12, <2>2 DEF CheckFile, Refuse
    <3>3. /\ now'.seen = [now.seen EXCEPT ![fd.path] = fd.stamp]
          /\ now'.got = [now.got EXCEPT ![fd.path] = fd.body]
          /\ now'.names = now.names /\ now'.bind = now.bind
          /\ now' = [names |-> now'.names, bind |-> now'.bind, seen |-> now'.seen,
                     got |-> now'.got]
      BY <3>2 DEF CollectsOK, Collects
    <3>4. now.seen \in [Paths -> Nat] /\ now.got \in [Paths -> Bodies \cup {Absent}]
      BY DEF CollectsOK, Collects
    <3>5. now'.seen \in [Paths -> Nat] /\ now'.got \in [Paths -> Bodies \cup {Absent}]
      BY <3>1, <3>3, <3>4
    <3> QED
      BY <3>2, <3>3, <3>5 DEF CollectsOK, Collects
  <2> QED
    BY <2>1, <2>2
<1>13. CASE SecondSweep
  BY <1>13 DEF SecondSweep, Walked, Here, world, CollectsOK, Collects,
     Nothing, NoFile, Present
<1>14. CASE Compare
  BY <1>14 DEF Compare, Walked, SweepsAgree, world, CollectsOK, Collects,
     Nothing, NoFile, Present
<1>15. CASE ListIndex
  BY <1>15 DEF ListIndex, Listings, world, CollectsOK, Collects, Nothing,
     NoFile, Present
<1>16. CASE FirstListing
  BY <1>16 DEF FirstListing, Untracked, world, CollectsOK, Collects, Nothing,
     NoFile, Present
<1>17. CASE Observed
  BY <1>17 DEF Observed, world, CollectsOK, Collects, Nothing, NoFile, Present
<1>18. CASE FirstTopology
  BY <1>18 DEF FirstTopology, Walked, world, CollectsOK, Collects, Nothing,
     NoFile, Present
<1>19. CASE SecondListing
  BY <1>19 DEF SecondListing, Untracked, Here, world, CollectsOK, Collects,
     Nothing, NoFile, Present
<1>20. CASE Rechecked
  BY <1>20 DEF Rechecked, world, CollectsOK, Collects, Nothing, NoFile,
     Present
<1>21. CASE ThirdListing
  BY <1>21 DEF ThirdListing, Untracked, world, CollectsOK, Collects, Nothing,
     NoFile, Present
<1>22. CASE Finish
  BY <1>22 DEF Finish, Walked, world, CollectsOK, Collects, Nothing, NoFile,
     Present
<1>23. CASE UNCHANGED vars
  BY <1>23 DEF vars, world, scan, CollectsOK, Collects, Nothing, NoFile,
     Present
<1> QED
  BY <1>1, <1>2, <1>3, <1>4, <1>5, <1>6, <1>7, <1>8, <1>9, <1>10, <1>11,
     <1>12, <1>13, <1>14, <1>15, <1>16, <1>17, <1>18, <1>19, <1>20, <1>21,
     <1>22, <1>23 DEF Next, Edit, WalkStep, FileStep, SweepStep, SnapshotStep

\* What git says stays of its type.
LEMMA GitTypes ==
  ASSUME WorldOK, GitOK, [Next]_vars
  PROVE  GitOK'
<1>1. ASSUME NEW p \in Paths, NEW b \in Bodies, Write(p, b), UNCHANGED scan PROVE GitOK'
  BY <1>1 DEF Write, Touch, world, scan, GitOK, WorldOK, Present
<1>2. ASSUME NEW p \in Paths, NEW b \in Bodies, Create(p, b), UNCHANGED scan PROVE GitOK'
  BY <1>2 DEF Create, Touch, world, scan, GitOK, WorldOK, Present
<1>3. ASSUME NEW p \in Paths, Delete(p), UNCHANGED scan PROVE GitOK'
  BY <1>3 DEF Delete, Touch, world, scan, GitOK, WorldOK, Present
<1>4. ASSUME NEW p \in Paths, Stage(p), UNCHANGED scan PROVE GitOK'
  BY <1>4 DEF Stage, world, scan, GitOK, WorldOK, Present
<1>5. ASSUME NEW d \in Dirs, BindDir(d) PROVE GitOK'
  BY <1>5 DEF BindDir, world, GitOK, WorldOK, Present
<1>6. ASSUME NEW d \in Dirs, ListDir(d) PROVE GitOK'
  BY <1>6 DEF ListDir, world, GitOK, WorldOK, Present
<1>7. ASSUME NEW d \in Dirs, CloseDir(d) PROVE GitOK'
  BY <1>7 DEF CloseDir, Refuse, world, GitOK, WorldOK, Present
<1>8. ASSUME NEW p \in Paths, StatKind(p) PROVE GitOK'
  BY <1>8 DEF StatKind, Refuse, world, GitOK, WorldOK, Present
<1>9. ASSUME NEW p \in Paths, StatFile(p) PROVE GitOK'
  BY <1>9 DEF StatFile, world, GitOK, WorldOK, Present
<1>10. ASSUME NEW p \in Paths, StatMissing(p) PROVE GitOK'
  BY <1>10 DEF StatMissing, Refuse, MayBeMissing, world, GitOK, WorldOK,
     Present
<1>11. CASE ReadFile
  BY <1>11 DEF ReadFile, Refuse, world, GitOK, WorldOK, Present
<1>12. CASE CheckFile
  BY <1>12 DEF CheckFile, Refuse, AsBefore, world, GitOK, WorldOK, Present
<1>13. CASE SecondSweep
  BY <1>13 DEF SecondSweep, Walked, Here, world, GitOK, WorldOK, Present
<1>14. CASE Compare
  BY <1>14 DEF Compare, Walked, SweepsAgree, world, GitOK, WorldOK, Present
<1>15. CASE ListIndex
  BY <1>15 DEF ListIndex, Listings, world, GitOK, WorldOK, Present
<1>16. CASE FirstListing
  BY <1>16 DEF FirstListing, Untracked, world, GitOK, WorldOK, Present
<1>17. CASE Observed
  BY <1>17 DEF Observed, world, GitOK, WorldOK, Present
<1>18. CASE FirstTopology
  BY <1>18 DEF FirstTopology, Walked, world, GitOK, WorldOK, Present
<1>19. CASE SecondListing
  BY <1>19 DEF SecondListing, Untracked, Here, world, GitOK, WorldOK, Present
<1>20. CASE Rechecked
  BY <1>20 DEF Rechecked, world, GitOK, WorldOK, Present
<1>21. CASE ThirdListing
  BY <1>21 DEF ThirdListing, Untracked, world, GitOK, WorldOK, Present
<1>22. CASE Finish
  BY <1>22 DEF Finish, Walked, world, GitOK, WorldOK, Present
<1>23. CASE UNCHANGED vars
  BY <1>23 DEF vars, world, scan, GitOK, WorldOK, Present
<1> QED
  BY <1>1, <1>2, <1>3, <1>4, <1>5, <1>6, <1>7, <1>8, <1>9, <1>10, <1>11,
     <1>12, <1>13, <1>14, <1>15, <1>16, <1>17, <1>18, <1>19, <1>20, <1>21,
     <1>22, <1>23 DEF Next, Edit, WalkStep, FileStep, SweepStep, SnapshotStep

\* The middle stays a state of the worktree.
LEMMA MidTypes ==
  ASSUME WorldOK, MidOK, [Next]_vars
  PROVE  MidOK'
<1>1. ASSUME NEW p \in Paths, NEW b \in Bodies, Write(p, b), UNCHANGED scan PROVE MidOK'
  BY <1>1 DEF Write, Touch, world, scan, MidOK, WorldOK
<1>2. ASSUME NEW p \in Paths, NEW b \in Bodies, Create(p, b), UNCHANGED scan PROVE MidOK'
  BY <1>2 DEF Create, Touch, world, scan, MidOK, WorldOK
<1>3. ASSUME NEW p \in Paths, Delete(p), UNCHANGED scan PROVE MidOK'
  BY <1>3 DEF Delete, Touch, world, scan, MidOK, WorldOK
<1>4. ASSUME NEW p \in Paths, Stage(p), UNCHANGED scan PROVE MidOK'
  BY <1>4 DEF Stage, world, scan, MidOK, WorldOK
<1>5. ASSUME NEW d \in Dirs, BindDir(d) PROVE MidOK'
  BY <1>5 DEF BindDir, world, MidOK, WorldOK
<1>6. ASSUME NEW d \in Dirs, ListDir(d) PROVE MidOK'
  BY <1>6 DEF ListDir, world, MidOK, WorldOK
<1>7. ASSUME NEW d \in Dirs, CloseDir(d) PROVE MidOK'
  BY <1>7 DEF CloseDir, Refuse, world, MidOK, WorldOK
<1>8. ASSUME NEW p \in Paths, StatKind(p) PROVE MidOK'
  BY <1>8 DEF StatKind, Refuse, world, MidOK, WorldOK
<1>9. ASSUME NEW p \in Paths, StatFile(p) PROVE MidOK'
  BY <1>9 DEF StatFile, world, MidOK, WorldOK
<1>10. ASSUME NEW p \in Paths, StatMissing(p) PROVE MidOK'
  BY <1>10 DEF StatMissing, Refuse, MayBeMissing, world, MidOK, WorldOK
<1>11. CASE ReadFile
  BY <1>11 DEF ReadFile, Refuse, world, MidOK, WorldOK
<1>12. CASE CheckFile
  BY <1>12 DEF CheckFile, Refuse, AsBefore, world, MidOK, WorldOK
<1>13. CASE SecondSweep
  BY <1>13 DEF SecondSweep, Walked, Here, world, MidOK, WorldOK
<1>14. CASE Compare
  BY <1>14 DEF Compare, Walked, SweepsAgree, world, MidOK, WorldOK
<1>15. CASE ListIndex
  BY <1>15 DEF ListIndex, Listings, world, MidOK, WorldOK
<1>16. CASE FirstListing
  BY <1>16 DEF FirstListing, Untracked, world, MidOK, WorldOK
<1>17. CASE Observed
  BY <1>17 DEF Observed, world, MidOK, WorldOK
<1>18. CASE FirstTopology
  BY <1>18 DEF FirstTopology, Walked, world, MidOK, WorldOK
<1>19. CASE SecondListing
  BY <1>19 DEF SecondListing, Untracked, Here, world, MidOK, WorldOK
<1>20. CASE Rechecked
  BY <1>20 DEF Rechecked, world, MidOK, WorldOK
<1>21. CASE ThirdListing
  BY <1>21 DEF ThirdListing, Untracked, world, MidOK, WorldOK
<1>22. CASE Finish
  BY <1>22 DEF Finish, Walked, world, MidOK, WorldOK
<1>23. CASE UNCHANGED vars
  BY <1>23 DEF vars, world, scan, MidOK, WorldOK
<1> QED
  BY <1>1, <1>2, <1>3, <1>4, <1>5, <1>6, <1>7, <1>8, <1>9, <1>10, <1>11,
     <1>12, <1>13, <1>14, <1>15, <1>16, <1>17, <1>18, <1>19, <1>20, <1>21,
     <1>22, <1>23 DEF Next, Edit, WalkStep, FileStep, SweepStep, SnapshotStep

\* A pass belongs to its kind of scan.
LEMMA KindsStep ==
  ASSUME Kinds, [Next]_vars
  PROVE  Kinds'
<1>1. ASSUME NEW p \in Paths, NEW b \in Bodies, Write(p, b), UNCHANGED scan PROVE Kinds'
  BY <1>1 DEF Write, Touch, world, scan, Kinds, Passes, Ended, Sweeps, Walks,
     Reads, Late
<1>2. ASSUME NEW p \in Paths, NEW b \in Bodies, Create(p, b), UNCHANGED scan PROVE Kinds'
  BY <1>2 DEF Create, Touch, world, scan, Kinds, Passes, Ended, Sweeps, Walks,
     Reads, Late
<1>3. ASSUME NEW p \in Paths, Delete(p), UNCHANGED scan PROVE Kinds'
  BY <1>3 DEF Delete, Touch, world, scan, Kinds, Passes, Ended, Sweeps, Walks,
     Reads, Late
<1>4. ASSUME NEW p \in Paths, Stage(p), UNCHANGED scan PROVE Kinds'
  BY <1>4 DEF Stage, world, scan, Kinds, Passes, Ended, Sweeps, Walks, Reads,
     Late
<1>5. ASSUME NEW d \in Dirs, BindDir(d) PROVE Kinds'
  BY <1>5 DEF BindDir, world, Kinds, Passes, Ended, Sweeps, Walks, Reads, Late
<1>6. ASSUME NEW d \in Dirs, ListDir(d) PROVE Kinds'
  BY <1>6 DEF ListDir, world, Kinds, Passes, Ended, Sweeps, Walks, Reads, Late
<1>7. ASSUME NEW d \in Dirs, CloseDir(d) PROVE Kinds'
  BY <1>7 DEF CloseDir, Refuse, world, Kinds, Passes, Ended, Sweeps, Walks,
     Reads, Late
<1>8. ASSUME NEW p \in Paths, StatKind(p) PROVE Kinds'
  BY <1>8 DEF StatKind, Refuse, world, Kinds, Passes, Ended, Sweeps, Walks,
     Reads, Late
<1>9. ASSUME NEW p \in Paths, StatFile(p) PROVE Kinds'
  BY <1>9 DEF StatFile, world, Kinds, Passes, Ended, Sweeps, Walks, Reads,
     Late
<1>10. ASSUME NEW p \in Paths, StatMissing(p) PROVE Kinds'
  BY <1>10 DEF StatMissing, Refuse, MayBeMissing, world, Kinds, Passes, Ended,
     Sweeps, Walks, Reads, Late
<1>11. CASE ReadFile
  BY <1>11 DEF ReadFile, Refuse, world, Kinds, Passes, Ended, Sweeps, Walks,
     Reads, Late
<1>12. CASE CheckFile
  BY <1>12 DEF CheckFile, Refuse, AsBefore, world, Kinds, Passes, Ended,
     Sweeps, Walks, Reads, Late
<1>13. CASE SecondSweep
  BY <1>13 DEF SecondSweep, Walked, Here, world, Kinds, Passes, Ended, Sweeps,
     Walks, Reads, Late
<1>14. CASE Compare
  BY <1>14 DEF Compare, Walked, SweepsAgree, world, Kinds, Passes, Ended,
     Sweeps, Walks, Reads, Late
<1>15. CASE ListIndex
  BY <1>15 DEF ListIndex, Listings, world, Kinds, Passes, Ended, Sweeps,
     Walks, Reads, Late
<1>16. CASE FirstListing
  BY <1>16 DEF FirstListing, Untracked, world, Kinds, Passes, Ended, Sweeps,
     Walks, Reads, Late
<1>17. CASE Observed
  BY <1>17 DEF Observed, world, Kinds, Passes, Ended, Sweeps, Walks, Reads,
     Late
<1>18. CASE FirstTopology
  BY <1>18 DEF FirstTopology, Walked, world, Kinds, Passes, Ended, Sweeps,
     Walks, Reads, Late
<1>19. CASE SecondListing
  BY <1>19 DEF SecondListing, Untracked, Here, world, Kinds, Passes, Ended,
     Sweeps, Walks, Reads, Late
<1>20. CASE Rechecked
  BY <1>20 DEF Rechecked, world, Kinds, Passes, Ended, Sweeps, Walks, Reads,
     Late
<1>21. CASE ThirdListing
  BY <1>21 DEF ThirdListing, Untracked, world, Kinds, Passes, Ended, Sweeps,
     Walks, Reads, Late
<1>22. CASE Finish
  BY <1>22 DEF Finish, Walked, world, Kinds, Passes, Ended, Sweeps, Walks,
     Reads, Late
<1>23. CASE UNCHANGED vars
  BY <1>23 DEF vars, world, scan, Kinds, Passes, Ended, Sweeps, Walks, Reads,
     Late
<1> QED
  BY <1>1, <1>2, <1>3, <1>4, <1>5, <1>6, <1>7, <1>8, <1>9, <1>10, <1>11,
     <1>12, <1>13, <1>14, <1>15, <1>16, <1>17, <1>18, <1>19, <1>20, <1>21,
     <1>22, <1>23 DEF Next, Edit, WalkStep, FileStep, SweepStep, SnapshotStep

\* Stamps are given in order.
LEMMA StampsStep ==
  ASSUME WorldOK, Stamps, [Next]_vars
  PROVE  Stamps'
<1>1. ASSUME NEW p \in Paths, NEW b \in Bodies, Write(p, b), UNCHANGED scan PROVE Stamps'
  BY <1>1 DEF Write, Touch, world, scan, Stamps, WorldOK, Paths, Dirs, DirOf
<1>2. ASSUME NEW p \in Paths, NEW b \in Bodies, Create(p, b), UNCHANGED scan PROVE Stamps'
  BY <1>2 DEF Create, Touch, world, scan, Stamps, WorldOK, Paths, Dirs, DirOf
<1>3. ASSUME NEW p \in Paths, Delete(p), UNCHANGED scan PROVE Stamps'
  BY <1>3 DEF Delete, Touch, world, scan, Stamps, WorldOK, Paths, Dirs, DirOf
<1>4. ASSUME NEW p \in Paths, Stage(p), UNCHANGED scan PROVE Stamps'
  BY <1>4 DEF Stage, world, scan, Stamps, WorldOK, Paths, Dirs, DirOf
<1>5. ASSUME NEW d \in Dirs, BindDir(d) PROVE Stamps'
  BY <1>5 DEF BindDir, world, Stamps, WorldOK, Paths, Dirs, DirOf
<1>6. ASSUME NEW d \in Dirs, ListDir(d) PROVE Stamps'
  BY <1>6 DEF ListDir, world, Stamps, WorldOK, Paths, Dirs, DirOf
<1>7. ASSUME NEW d \in Dirs, CloseDir(d) PROVE Stamps'
  BY <1>7 DEF CloseDir, Refuse, world, Stamps, WorldOK, Paths, Dirs, DirOf
<1>8. ASSUME NEW p \in Paths, StatKind(p) PROVE Stamps'
  BY <1>8 DEF StatKind, Refuse, world, Stamps, WorldOK, Paths, Dirs, DirOf
<1>9. ASSUME NEW p \in Paths, StatFile(p) PROVE Stamps'
  BY <1>9 DEF StatFile, world, Stamps, WorldOK, Paths, Dirs, DirOf
<1>10. ASSUME NEW p \in Paths, StatMissing(p) PROVE Stamps'
  BY <1>10 DEF StatMissing, Refuse, MayBeMissing, world, Stamps, WorldOK,
     Paths, Dirs, DirOf
<1>11. CASE ReadFile
  BY <1>11 DEF ReadFile, Refuse, world, Stamps, WorldOK, Paths, Dirs, DirOf
<1>12. CASE CheckFile
  BY <1>12 DEF CheckFile, Refuse, AsBefore, world, Stamps, WorldOK, Paths,
     Dirs, DirOf
<1>13. CASE SecondSweep
  BY <1>13 DEF SecondSweep, Walked, Here, world, Stamps, WorldOK, Paths, Dirs,
     DirOf
<1>14. CASE Compare
  BY <1>14 DEF Compare, Walked, SweepsAgree, world, Stamps, WorldOK, Paths,
     Dirs, DirOf
<1>15. CASE ListIndex
  BY <1>15 DEF ListIndex, Listings, world, Stamps, WorldOK, Paths, Dirs, DirOf
<1>16. CASE FirstListing
  BY <1>16 DEF FirstListing, Untracked, world, Stamps, WorldOK, Paths, Dirs,
     DirOf
<1>17. CASE Observed
  BY <1>17 DEF Observed, world, Stamps, WorldOK, Paths, Dirs, DirOf
<1>18. CASE FirstTopology
  BY <1>18 DEF FirstTopology, Walked, world, Stamps, WorldOK, Paths, Dirs,
     DirOf
<1>19. CASE SecondListing
  BY <1>19 DEF SecondListing, Untracked, Here, world, Stamps, WorldOK, Paths,
     Dirs, DirOf
<1>20. CASE Rechecked
  BY <1>20 DEF Rechecked, world, Stamps, WorldOK, Paths, Dirs, DirOf
<1>21. CASE ThirdListing
  BY <1>21 DEF ThirdListing, Untracked, world, Stamps, WorldOK, Paths, Dirs,
     DirOf
<1>22. CASE Finish
  BY <1>22 DEF Finish, Walked, world, Stamps, WorldOK, Paths, Dirs, DirOf
<1>23. CASE UNCHANGED vars
  BY <1>23 DEF vars, world, scan, Stamps, WorldOK, Paths, Dirs, DirOf
<1> QED
  BY <1>1, <1>2, <1>3, <1>4, <1>5, <1>6, <1>7, <1>8, <1>9, <1>10, <1>11,
     <1>12, <1>13, <1>14, <1>15, <1>16, <1>17, <1>18, <1>19, <1>20, <1>21,
     <1>22, <1>23 DEF Next, Edit, WalkStep, FileStep, SweepStep, SnapshotStep

\* What was read is true while its binding stands.
LEMMA FilesStep ==
  ASSUME WorldOK, CollectsOK, WalkOK, FdOK, Stamps, Files, Held, [Next]_vars
  PROVE  Files'
<1>1. ASSUME NEW p \in Paths, NEW b \in Bodies, Write(p, b), UNCHANGED scan PROVE Files'
  BY <1>1 DEF Write, Touch, world, scan, Files, WorldOK, CollectsOK, Collects,
     Stamps, Held, Nothing, FdOK
<1>2. ASSUME NEW p \in Paths, NEW b \in Bodies, Create(p, b), UNCHANGED scan PROVE Files'
  BY <1>2 DEF Create, Touch, world, scan, Files, WorldOK, CollectsOK,
     Collects, Stamps, Held, Nothing, FdOK
<1>3. ASSUME NEW p \in Paths, Delete(p), UNCHANGED scan PROVE Files'
  BY <1>3 DEF Delete, Touch, world, scan, Files, WorldOK, CollectsOK,
     Collects, Stamps, Held, Nothing, FdOK
<1>4. ASSUME NEW p \in Paths, Stage(p), UNCHANGED scan PROVE Files'
  BY <1>4 DEF Stage, world, scan, Files, WorldOK, CollectsOK, Collects,
     Stamps, Held, Nothing, FdOK
<1>5. ASSUME NEW d \in Dirs, BindDir(d) PROVE Files'
  BY <1>5 DEF BindDir, world, Files, WorldOK, CollectsOK, Collects, Stamps,
     Held, Nothing, FdOK
<1>6. ASSUME NEW d \in Dirs, ListDir(d) PROVE Files'
  BY <1>6 DEF ListDir, world, Files, WorldOK, CollectsOK, Collects, Stamps,
     Held, Nothing, FdOK
<1>7. ASSUME NEW d \in Dirs, CloseDir(d) PROVE Files'
  BY <1>7 DEF CloseDir, Refuse, world, Files, WorldOK, CollectsOK, Collects,
     Stamps, Held, Nothing, FdOK
<1>8. ASSUME NEW p \in Paths, StatKind(p) PROVE Files'
  BY <1>8 DEF StatKind, Refuse, world, Files, WorldOK, CollectsOK, Collects,
     Stamps, Held, Nothing, FdOK
<1>9. ASSUME NEW p \in Paths, StatFile(p) PROVE Files'
  BY <1>9 DEF StatFile, world, Files, WorldOK, CollectsOK, Collects, Stamps,
     Held, Nothing, FdOK
<1>10. ASSUME NEW p \in Paths, StatMissing(p) PROVE Files'
  BY <1>10 DEF StatMissing, Refuse, MayBeMissing, world, Files, WorldOK,
     CollectsOK, Collects, Stamps, Held, Nothing, FdOK
<1>11. CASE ReadFile
  BY <1>11 DEF ReadFile, Refuse, world, Files, WorldOK, CollectsOK, Collects,
     Stamps, Held, Nothing, FdOK
<1>12. CASE CheckFile
  <2>1. CASE Taken(fd.path)
    BY <2>1 DEF Taken, world, NoFile, Files, WorldOK, CollectsOK, Collects,
     Stamps, Held, FdOK
  <2>2. CASE Refuse /\ UNCHANGED world
    BY <2>2 DEF Refuse, world, Files, WorldOK, CollectsOK, Collects, Stamps,
     Held, FdOK
  <2> QED
    BY <1>12, <2>1, <2>2, CheckEffect
<1>13. CASE SecondSweep
  BY <1>13 DEF SecondSweep, Walked, Here, world, Files, WorldOK, CollectsOK,
     Collects, Stamps, Held, Nothing, FdOK
<1>14. CASE Compare
  BY <1>14 DEF Compare, Walked, SweepsAgree, world, Files, WorldOK,
     CollectsOK, Collects, Stamps, Held, Nothing, FdOK
<1>15. CASE ListIndex
  BY <1>15 DEF ListIndex, Listings, world, Files, WorldOK, CollectsOK,
     Collects, Stamps, Held, Nothing, FdOK
<1>16. CASE FirstListing
  BY <1>16 DEF FirstListing, Untracked, world, Files, WorldOK, CollectsOK,
     Collects, Stamps, Held, Nothing, FdOK
<1>17. CASE Observed
  BY <1>17 DEF Observed, world, Files, WorldOK, CollectsOK, Collects, Stamps,
     Held, Nothing, FdOK
<1>18. CASE FirstTopology
  BY <1>18 DEF FirstTopology, Walked, world, Files, WorldOK, CollectsOK,
     Collects, Stamps, Held, Nothing, FdOK
<1>19. CASE SecondListing
  BY <1>19 DEF SecondListing, Untracked, Here, world, Files, WorldOK,
     CollectsOK, Collects, Stamps, Held, Nothing, FdOK
<1>20. CASE Rechecked
  BY <1>20 DEF Rechecked, world, Files, WorldOK, CollectsOK, Collects, Stamps,
     Held, Nothing, FdOK
<1>21. CASE ThirdListing
  BY <1>21 DEF ThirdListing, Untracked, world, Files, WorldOK, CollectsOK,
     Collects, Stamps, Held, Nothing, FdOK
<1>22. CASE Finish
  BY <1>22 DEF Finish, Walked, world, Files, WorldOK, CollectsOK, Collects,
     Stamps, Held, Nothing, FdOK
<1>23. CASE UNCHANGED vars
  BY <1>23 DEF vars, world, scan, Files, WorldOK, CollectsOK, Collects,
     Stamps, Held, Nothing, FdOK
<1> QED
  BY <1>1, <1>2, <1>3, <1>4, <1>5, <1>6, <1>7, <1>8, <1>9, <1>10, <1>11,
     <1>12, <1>13, <1>14, <1>15, <1>16, <1>17, <1>18, <1>19, <1>20, <1>21,
     <1>22, <1>23 DEF Next, Edit, WalkStep, FileStep, SweepStep, SnapshotStep

\* The open file is one that this pass has to read.
LEMMA HeldStep ==
  ASSUME WorldOK, WalkOK, FdOK, Stamps, Held, Kinds, Walk, [Next]_vars
  PROVE  Held'
<1>1. ASSUME NEW p \in Paths, NEW b \in Bodies, Write(p, b), UNCHANGED scan PROVE Held'
  BY <1>1 DEF Write, Touch, world, scan, Held, Kinds, FdOK, WorldOK, Stamps,
     NoFile, Passes, Ended, Sweeps, Walks, Reads, Late
<1>2. ASSUME NEW p \in Paths, NEW b \in Bodies, Create(p, b), UNCHANGED scan PROVE Held'
  BY <1>2 DEF Create, Touch, world, scan, Held, Kinds, FdOK, WorldOK, Stamps,
     NoFile, Passes, Ended, Sweeps, Walks, Reads, Late
<1>3. ASSUME NEW p \in Paths, Delete(p), UNCHANGED scan PROVE Held'
  BY <1>3 DEF Delete, Touch, world, scan, Held, Kinds, FdOK, WorldOK, Stamps,
     NoFile, Passes, Ended, Sweeps, Walks, Reads, Late
<1>4. ASSUME NEW p \in Paths, Stage(p), UNCHANGED scan PROVE Held'
  BY <1>4 DEF Stage, world, scan, Held, Kinds, FdOK, WorldOK, Stamps, NoFile,
     Passes, Ended, Sweeps, Walks, Reads, Late
<1>5. ASSUME NEW d \in Dirs, BindDir(d) PROVE Held'
  BY <1>5 DEF BindDir, world, Held, Kinds, FdOK, WorldOK, Stamps, NoFile,
     Passes, Ended, Sweeps, Walks, Reads, Late
<1>6. ASSUME NEW d \in Dirs, ListDir(d) PROVE Held'
  BY <1>6 DEF ListDir, world, Held, Kinds, FdOK, WorldOK, Stamps, NoFile,
     Passes, Ended, Sweeps, Walks, Reads, Late
<1>7. ASSUME NEW d \in Dirs, CloseDir(d) PROVE Held'
  BY <1>7 DEF CloseDir, Refuse, world, Held, Kinds, FdOK, WorldOK, Stamps,
     NoFile, Passes, Ended, Sweeps, Walks, Reads, Late
<1>8. ASSUME NEW p \in Paths, StatKind(p) PROVE Held'
  BY <1>8 DEF StatKind, Refuse, world, Held, Kinds, FdOK, WorldOK, Stamps,
     NoFile, Passes, Ended, Sweeps, Walks, Reads, Late
<1>9. ASSUME NEW p \in Paths, StatFile(p) PROVE Held'
  BY <1>9 DEF StatFile, world, Held, Kinds, FdOK, WorldOK, Stamps, NoFile,
     Passes, Ended, Sweeps, Walks, Reads, Late
<1>10. ASSUME NEW p \in Paths, StatMissing(p) PROVE Held'
  BY <1>10 DEF StatMissing, Refuse, MayBeMissing, world, Held, Kinds, FdOK,
     WorldOK, Stamps, NoFile, Passes, Ended, Sweeps, Walks, Reads, Late
<1>11. CASE ReadFile
  BY <1>11 DEF ReadFile, Refuse, world, Held, Kinds, FdOK, WorldOK, Stamps,
     NoFile, Passes, Ended, Sweeps, Walks, Reads, Late
<1>12. CASE CheckFile
  BY <1>12 DEF CheckFile, Refuse, AsBefore, world, Held, Kinds, FdOK, WorldOK,
     Stamps, NoFile, Passes, Ended, Sweeps, Walks, Reads, Late
<1>13. CASE SecondSweep
  BY <1>13 DEF SecondSweep, Walked, Here, world, Held, Kinds, FdOK, WorldOK,
     Stamps, NoFile, Passes, Ended, Sweeps, Walks, Reads, Late
<1>14. CASE Compare
  <2>1. fd.step = "none"
    <3>1. pc = "sweep2" /\ dir["root"] = "closed"
      BY <1>14 DEF Compare, Walked
    <3>2. dir["sub"] = "closed" /\ todo \cap In("root") = {} /\ todo \cap In("sub") = {}
      BY <3>1 DEF Walk, Dirs, Walks, Sweeps
    <3>3. todo = {}
      BY <3>2, Placed DEF WalkOK, Dirs
    <3> QED
      BY <3>3 DEF Held, FdOK
  <2> QED
    BY <1>14, <2>1 DEF Compare, Held
<1>15. CASE ListIndex
  BY <1>15 DEF ListIndex, Listings, world, Held, Kinds, FdOK, WorldOK, Stamps,
     NoFile, Passes, Ended, Sweeps, Walks, Reads, Late
<1>16. CASE FirstListing
  BY <1>16 DEF FirstListing, Untracked, world, Held, Kinds, FdOK, WorldOK,
     Stamps, NoFile, Passes, Ended, Sweeps, Walks, Reads, Late
<1>17. CASE Observed
  BY <1>17 DEF Observed, world, Held, Kinds, FdOK, WorldOK, Stamps, NoFile,
     Passes, Ended, Sweeps, Walks, Reads, Late
<1>18. CASE FirstTopology
  BY <1>18 DEF FirstTopology, Walked, world, Held, Kinds, FdOK, WorldOK,
     Stamps, NoFile, Passes, Ended, Sweeps, Walks, Reads, Late
<1>19. CASE SecondListing
  BY <1>19 DEF SecondListing, Untracked, Here, world, Held, Kinds, FdOK,
     WorldOK, Stamps, NoFile, Passes, Ended, Sweeps, Walks, Reads, Late
<1>20. CASE Rechecked
  BY <1>20 DEF Rechecked, world, Held, Kinds, FdOK, WorldOK, Stamps, NoFile,
     Passes, Ended, Sweeps, Walks, Reads, Late
<1>21. CASE ThirdListing
  BY <1>21 DEF ThirdListing, Untracked, world, Held, Kinds, FdOK, WorldOK,
     Stamps, NoFile, Passes, Ended, Sweeps, Walks, Reads, Late
<1>22. CASE Finish
  BY <1>22 DEF Finish, Walked, world, Held, Kinds, FdOK, WorldOK, Stamps,
     NoFile, Passes, Ended, Sweeps, Walks, Reads, Late
<1>23. CASE UNCHANGED vars
  BY <1>23 DEF vars, world, scan, Held, Kinds, FdOK, WorldOK, Stamps, NoFile,
     Passes, Ended, Sweeps, Walks, Reads, Late
<1> QED
  BY <1>1, <1>2, <1>3, <1>4, <1>5, <1>6, <1>7, <1>8, <1>9, <1>10, <1>11,
     <1>12, <1>13, <1>14, <1>15, <1>16, <1>17, <1>18, <1>19, <1>20, <1>21,
     <1>22, <1>23 DEF Next, Edit, WalkStep, FileStep, SweepStep, SnapshotStep

\* What was listed is true while the binding of its directory stands.
LEMMA NamesStep ==
  ASSUME WorldOK, WalkOK, FdOK, CollectsOK, Stamps, Names, Held, [Next]_vars
  PROVE  Names'
<1>1. ASSUME NEW p \in Paths, NEW b \in Bodies, Write(p, b), UNCHANGED scan PROVE Names'
  <2>1. /\ tree[p] # Absent /\ b # Absent /\ UNCHANGED <<ds, now, dir>>
        /\ tree' = [tree EXCEPT ![p] = b]
    BY <1>1, PathsAssumption DEF Write, Touch, scan
  <2>2. \A q \in Paths : tree'[q] # Absent <=> tree[q] # Absent
    BY <2>1 DEF WorldOK
  <2>3. ASSUME NEW d \in Dirs
        PROVE  /\ now'.bind[d] <= ds'[d]
               /\ dir'[d] # "new" => 1 <= now'.bind[d]
               /\ dir'[d] \in {"new", "bound"} => \A q \in In(d) : q \notin now'.names
    BY <2>1 DEF Names
  <2>4. ASSUME NEW d \in Dirs, dir'[d] \in {"listed", "closed"}, now'.bind[d] = ds'[d],
               NEW q \in In(d)
        PROVE  q \in now'.names <=> tree'[q] # Absent
    BY <2>1, <2>2, <2>4, Placed DEF Names
  <2> QED
    BY <2>3, <2>4 DEF Names
<1>2. ASSUME NEW p \in Paths, NEW b \in Bodies, Create(p, b), UNCHANGED scan PROVE Names'
  BY <1>2, Placed DEF Create, Touch, world, scan, Names, WorldOK, CollectsOK,
     Collects, Stamps, Nothing, NotWalked, Present, WalkOK
<1>3. ASSUME NEW p \in Paths, Delete(p), UNCHANGED scan PROVE Names'
  BY <1>3, Placed DEF Delete, Touch, world, scan, Names, WorldOK, CollectsOK,
     Collects, Stamps, Nothing, NotWalked, Present, WalkOK
<1>4. ASSUME NEW p \in Paths, Stage(p), UNCHANGED scan PROVE Names'
  BY <1>4, Placed DEF Stage, world, scan, Names, WorldOK, CollectsOK,
     Collects, Stamps, Nothing, NotWalked, Present, WalkOK
<1>5. ASSUME NEW d \in Dirs, BindDir(d) PROVE Names'
  BY <1>5, Placed DEF BindDir, world, Names, WorldOK, CollectsOK, Collects,
     Stamps, Nothing, NotWalked, Present, WalkOK
<1>6. ASSUME NEW d \in Dirs, ListDir(d) PROVE Names'
  BY <1>6, Placed DEF ListDir, world, Names, WorldOK, CollectsOK, Collects,
     Stamps, Nothing, NotWalked, Present, WalkOK
<1>7. ASSUME NEW d \in Dirs, CloseDir(d) PROVE Names'
  BY <1>7, Placed DEF CloseDir, Refuse, world, Names, WorldOK, CollectsOK,
     Collects, Stamps, Nothing, NotWalked, Present, WalkOK
<1>8. ASSUME NEW p \in Paths, StatKind(p) PROVE Names'
  BY <1>8, Placed DEF StatKind, Refuse, world, Names, WorldOK, CollectsOK,
     Collects, Stamps, Nothing, NotWalked, Present, WalkOK
<1>9. ASSUME NEW p \in Paths, StatFile(p) PROVE Names'
  BY <1>9, Placed DEF StatFile, world, Names, WorldOK, CollectsOK, Collects,
     Stamps, Nothing, NotWalked, Present, WalkOK
<1>10. ASSUME NEW p \in Paths, StatMissing(p) PROVE Names'
  BY <1>10, Placed DEF StatMissing, Refuse, MayBeMissing, world, Names,
     WorldOK, CollectsOK, Collects, Stamps, Nothing, NotWalked, Present,
     WalkOK
<1>11. CASE ReadFile
  BY <1>11, Placed DEF ReadFile, Refuse, world, Names, WorldOK, CollectsOK,
     Collects, Stamps, Nothing, NotWalked, Present, WalkOK
<1>12. CASE CheckFile
  <2>1. CASE Taken(fd.path)
    BY <2>1 DEF Taken, world, NoFile, Names, WorldOK, CollectsOK, Collects,
     WalkOK
  <2>2. CASE Refuse /\ UNCHANGED world
    BY <2>2 DEF Refuse, world, Names, WorldOK, CollectsOK, Collects, WalkOK
  <2> QED
    BY <1>12, <2>1, <2>2, CheckEffect
<1>13. CASE SecondSweep
  BY <1>13, Placed DEF SecondSweep, Walked, Here, world, Names, WorldOK,
     CollectsOK, Collects, Stamps, Nothing, NotWalked, Present, WalkOK
<1>14. CASE Compare
  BY <1>14, Placed DEF Compare, Walked, SweepsAgree, world, Names, WorldOK,
     CollectsOK, Collects, Stamps, Nothing, NotWalked, Present, WalkOK
<1>15. CASE ListIndex
  BY <1>15, Placed DEF ListIndex, Listings, world, Names, WorldOK, CollectsOK,
     Collects, Stamps, Nothing, NotWalked, Present, WalkOK
<1>16. CASE FirstListing
  BY <1>16, Placed DEF FirstListing, Untracked, world, Names, WorldOK,
     CollectsOK, Collects, Stamps, Nothing, NotWalked, Present, WalkOK
<1>17. CASE Observed
  BY <1>17, Placed DEF Observed, world, Names, WorldOK, CollectsOK, Collects,
     Stamps, Nothing, NotWalked, Present, WalkOK
<1>18. CASE FirstTopology
  BY <1>18, Placed DEF FirstTopology, Walked, world, Names, WorldOK,
     CollectsOK, Collects, Stamps, Nothing, NotWalked, Present, WalkOK
<1>19. CASE SecondListing
  BY <1>19, Placed DEF SecondListing, Untracked, Here, world, Names, WorldOK,
     CollectsOK, Collects, Stamps, Nothing, NotWalked, Present, WalkOK
<1>20. CASE Rechecked
  BY <1>20, Placed DEF Rechecked, world, Names, WorldOK, CollectsOK, Collects,
     Stamps, Nothing, NotWalked, Present, WalkOK
<1>21. CASE ThirdListing
  BY <1>21, Placed DEF ThirdListing, Untracked, world, Names, WorldOK,
     CollectsOK, Collects, Stamps, Nothing, NotWalked, Present, WalkOK
<1>22. CASE Finish
  BY <1>22, Placed DEF Finish, Walked, world, Names, WorldOK, CollectsOK,
     Collects, Stamps, Nothing, NotWalked, Present, WalkOK
<1>23. CASE UNCHANGED vars
  BY <1>23 DEF vars, world, scan, Names, WorldOK, CollectsOK, Collects,
     Stamps, Nothing, NotWalked, Present, WalkOK
<1> QED
  BY <1>1, <1>2, <1>3, <1>4, <1>5, <1>6, <1>7, <1>8, <1>9, <1>10, <1>11,
     <1>12, <1>13, <1>14, <1>15, <1>16, <1>17, <1>18, <1>19, <1>20, <1>21,
     <1>22, <1>23 DEF Next, Edit, WalkStep, FileStep, SweepStep, SnapshotStep

\* The walk visits everything that it lists.
LEMMA WalkStepKept ==
  ASSUME WorldOK, WalkOK, CollectsOK, FdOK, Stamps, Names, Walk, Kinds, Held, [Next]_vars
  PROVE  Walk'
<1>1. ASSUME NEW p \in Paths, NEW b \in Bodies, Write(p, b), UNCHANGED scan PROVE Walk'
  BY <1>1, Placed DEF Write, Touch, world, scan, Walk, Names, WalkOK,
     CollectsOK, Collects, Kinds, Nothing, NotWalked, NoFile, Held, Passes,
     Ended, Sweeps, Walks, Reads, Late
<1>2. ASSUME NEW p \in Paths, NEW b \in Bodies, Create(p, b), UNCHANGED scan PROVE Walk'
  BY <1>2, Placed DEF Create, Touch, world, scan, Walk, Names, WalkOK,
     CollectsOK, Collects, Kinds, Nothing, NotWalked, NoFile, Held, Passes,
     Ended, Sweeps, Walks, Reads, Late
<1>3. ASSUME NEW p \in Paths, Delete(p), UNCHANGED scan PROVE Walk'
  BY <1>3, Placed DEF Delete, Touch, world, scan, Walk, Names, WalkOK,
     CollectsOK, Collects, Kinds, Nothing, NotWalked, NoFile, Held, Passes,
     Ended, Sweeps, Walks, Reads, Late
<1>4. ASSUME NEW p \in Paths, Stage(p), UNCHANGED scan PROVE Walk'
  BY <1>4, Placed DEF Stage, world, scan, Walk, Names, WalkOK, CollectsOK,
     Collects, Kinds, Nothing, NotWalked, NoFile, Held, Passes, Ended, Sweeps,
     Walks, Reads, Late
<1>5. ASSUME NEW d \in Dirs, BindDir(d) PROVE Walk'
  BY <1>5, Placed DEF BindDir, world, Walk, Names, WalkOK, CollectsOK,
     Collects, Kinds, Nothing, NotWalked, NoFile, Held, Passes, Ended, Sweeps,
     Walks, Reads, Late
<1>6. ASSUME NEW d \in Dirs, ListDir(d) PROVE Walk'
  BY <1>6, Placed DEF ListDir, world, Walk, Names, WalkOK, CollectsOK,
     Collects, Kinds, Nothing, NotWalked, NoFile, Held, Passes, Ended, Sweeps,
     Walks, Reads, Late
<1>7. ASSUME NEW d \in Dirs, CloseDir(d) PROVE Walk'
  <2>1. CASE pc' = "refused"
    <3>1. UNCHANGED <<dir, todo, now>>
      BY <1>7, <2>1 DEF CloseDir, Refuse, Walks, Sweeps
    <3> QED
      BY <2>1, <3>1 DEF Walk, Walks, Sweeps
  <2>2. CASE pc' # "refused"
    <3>1. /\ dir' = [dir EXCEPT ![d] = "closed"] /\ pc \in Walks
          /\ UNCHANGED <<kind, pc, todo, now>> /\ todo \cap In(d) = {}
          /\ d = "root" => dir["sub"] = "closed"
      BY <1>7, <2>2 DEF CloseDir, Refuse
    <3>2. pc \notin {"list1", "others1", "observe", "recheck", "list3", "others3"}
          /\ pc \notin {"list2", "others2", "accepted"}
      BY <3>1 DEF Walks, Sweeps
    <3>3. dir'["root"] = "closed" => dir'["sub"] = "closed"
      BY <3>1, <1>7 DEF Walk, Dirs, WalkOK
    <3>4. \A e \in Dirs : dir'[e] = "closed" => todo' \cap In(e) = {}
      BY <3>1, <1>7 DEF Walk, WalkOK
    <3> QED
      BY <3>1, <3>2, <3>3, <3>4 DEF Walk
  <2> QED
    BY <2>1, <2>2
<1>8. ASSUME NEW p \in Paths, StatKind(p) PROVE Walk'
  BY <1>8, Placed DEF StatKind, Refuse, world, Walk, Names, WalkOK,
     CollectsOK, Collects, Kinds, Nothing, NotWalked, NoFile, Held, Passes,
     Ended, Sweeps, Walks, Reads, Late
<1>9. ASSUME NEW p \in Paths, StatFile(p) PROVE Walk'
  BY <1>9, Placed DEF StatFile, world, Walk, Names, WalkOK, CollectsOK,
     Collects, Kinds, Nothing, NotWalked, NoFile, Held, Passes, Ended, Sweeps,
     Walks, Reads, Late
<1>10. ASSUME NEW p \in Paths, StatMissing(p) PROVE Walk'
  BY <1>10, Placed DEF StatMissing, Refuse, MayBeMissing, world, Walk, Names,
     WalkOK, CollectsOK, Collects, Kinds, Nothing, NotWalked, NoFile, Held,
     Passes, Ended, Sweeps, Walks, Reads, Late
<1>11. CASE ReadFile
  BY <1>11, Placed DEF ReadFile, Refuse, world, Walk, Names, WalkOK,
     CollectsOK, Collects, Kinds, Nothing, NotWalked, NoFile, Held, Passes,
     Ended, Sweeps, Walks, Reads, Late
<1>12. CASE CheckFile
  <2>1. CASE Taken(fd.path)
    BY <2>1 DEF Taken, world, NoFile, Walk, Names, WalkOK, CollectsOK,
     Collects, Kinds, Held, Stamps, FdOK, Passes, Ended, Sweeps, Walks, Reads,
     Late
  <2>2. CASE Refuse /\ UNCHANGED world
    BY <2>2 DEF Refuse, world, Walk, Names, WalkOK, CollectsOK, Collects,
     Kinds, Held, Stamps, FdOK, Passes, Ended, Sweeps, Walks, Reads, Late
  <2> QED
    BY <1>12, <2>1, <2>2, CheckEffect
<1>13. CASE SecondSweep
  <2>1. pc = "sweep1" /\ dir["root"] = "closed"
    BY <1>13 DEF SecondSweep, Walked
  <2>2. dir["sub"] = "closed" /\ todo \cap In("root") = {} /\ todo \cap In("sub") = {}
    BY <2>1 DEF Walk, Dirs, Walks, Sweeps
  <2>3. todo = {}
    BY <2>2, Placed DEF WalkOK, Dirs
  <2> QED
    BY <1>13, <2>3 DEF SecondSweep, Walk, Nothing, NotWalked, Dirs, Walks, Sweeps, Paths
<1>14. CASE Compare
  BY <1>14, Placed DEF Compare, Walked, SweepsAgree, world, Walk, Names,
     WalkOK, CollectsOK, Collects, Kinds, Nothing, NotWalked, NoFile, Held,
     Passes, Ended, Sweeps, Walks, Reads, Late
<1>15. CASE ListIndex
  BY <1>15, Placed DEF ListIndex, Listings, world, Walk, Names, WalkOK,
     CollectsOK, Collects, Kinds, Nothing, NotWalked, NoFile, Held, Passes,
     Ended, Sweeps, Walks, Reads, Late
<1>16. CASE FirstListing
  BY <1>16, Placed DEF FirstListing, Untracked, world, Walk, Names, WalkOK,
     CollectsOK, Collects, Kinds, Nothing, NotWalked, NoFile, Held, Passes,
     Ended, Sweeps, Walks, Reads, Late
<1>17. CASE Observed
  BY <1>17, Placed DEF Observed, world, Walk, Names, WalkOK, CollectsOK,
     Collects, Kinds, Nothing, NotWalked, NoFile, Held, Passes, Ended, Sweeps,
     Walks, Reads, Late
<1>18. CASE FirstTopology
  <2>1. pc = "dirs1" /\ dir["root"] = "closed"
    BY <1>18 DEF FirstTopology, Walked
  <2>2. dir["sub"] = "closed" /\ todo \cap In("root") = {} /\ todo \cap In("sub") = {}
    BY <2>1 DEF Walk, Dirs, Walks, Sweeps
  <2>3. todo = {}
    BY <2>2, Placed DEF WalkOK, Dirs
  <2> QED
    BY <1>18, <2>1, <2>2, <2>3 DEF FirstTopology, Walk, Kinds, Passes, Walks, Sweeps
<1>19. CASE SecondListing
  <2>1. /\ pc' \in {"recheck", "refused"} /\ now' = Nothing /\ dir' = NotWalked
        /\ kind' = "snapshot"
    BY <1>19 DEF SecondListing, Kinds, Passes, Sweeps
  <2>2. \A d \in Dirs : dir'[d] = "new"
    BY <2>1 DEF NotWalked
  <2> QED
    BY <2>1, <2>2 DEF Walk, Walks, Sweeps, Dirs
<1>20. CASE Rechecked
  BY <1>20, Placed DEF Rechecked, world, Walk, Names, WalkOK, CollectsOK,
     Collects, Kinds, Nothing, NotWalked, NoFile, Held, Passes, Ended, Sweeps,
     Walks, Reads, Late
<1>21. CASE ThirdListing
  BY <1>21, Placed DEF ThirdListing, Untracked, world, Walk, Names, WalkOK,
     CollectsOK, Collects, Kinds, Nothing, NotWalked, NoFile, Held, Passes,
     Ended, Sweeps, Walks, Reads, Late
<1>22. CASE Finish
  BY <1>22, Placed DEF Finish, Walked, world, Walk, Names, WalkOK, CollectsOK,
     Collects, Kinds, Nothing, NotWalked, NoFile, Held, Passes, Ended, Sweeps,
     Walks, Reads, Late
<1>23. CASE UNCHANGED vars
  BY <1>23 DEF vars, world, scan, Walk, Names, WalkOK, CollectsOK, Collects,
     Kinds, Nothing, NotWalked, NoFile, Held, Passes, Ended, Sweeps, Walks,
     Reads, Late
<1> QED
  BY <1>1, <1>2, <1>3, <1>4, <1>5, <1>6, <1>7, <1>8, <1>9, <1>10, <1>11,
     <1>12, <1>13, <1>14, <1>15, <1>16, <1>17, <1>18, <1>19, <1>20, <1>21,
     <1>22, <1>23 DEF Next, Edit, WalkStep, FileStep, SweepStep, SnapshotStep

\* What was read before the middle.
LEMMA MidFilesStep ==
  ASSUME WorldOK, WalkOK, CollectsOK, MidOK, FdOK, Stamps, Files, Walk, Kinds, Held, MidFiles, MidHeld, [Next]_vars
  PROVE  MidFiles'
<1>1. ASSUME NEW p \in Paths, NEW b \in Bodies, Write(p, b), UNCHANGED scan PROVE MidFiles'
  BY <1>1 DEF Write, Touch, world, scan, MidFiles, MidHeld, Files, Stamps,
     Held, WorldOK, CollectsOK, Collects, MidOK, Nothing, Kinds, Passes,
     Ended, Sweeps, Walks, Reads, Late
<1>2. ASSUME NEW p \in Paths, NEW b \in Bodies, Create(p, b), UNCHANGED scan PROVE MidFiles'
  BY <1>2 DEF Create, Touch, world, scan, MidFiles, MidHeld, Files, Stamps,
     Held, WorldOK, CollectsOK, Collects, MidOK, Nothing, Kinds, Passes,
     Ended, Sweeps, Walks, Reads, Late
<1>3. ASSUME NEW p \in Paths, Delete(p), UNCHANGED scan PROVE MidFiles'
  BY <1>3 DEF Delete, Touch, world, scan, MidFiles, MidHeld, Files, Stamps,
     Held, WorldOK, CollectsOK, Collects, MidOK, Nothing, Kinds, Passes,
     Ended, Sweeps, Walks, Reads, Late
<1>4. ASSUME NEW p \in Paths, Stage(p), UNCHANGED scan PROVE MidFiles'
  BY <1>4 DEF Stage, world, scan, MidFiles, MidHeld, Files, Stamps, Held,
     WorldOK, CollectsOK, Collects, MidOK, Nothing, Kinds, Passes, Ended,
     Sweeps, Walks, Reads, Late
<1>5. ASSUME NEW d \in Dirs, BindDir(d) PROVE MidFiles'
  BY <1>5 DEF BindDir, world, MidFiles, MidHeld, Files, Stamps, Held, WorldOK,
     CollectsOK, Collects, MidOK, Nothing, Kinds, Passes, Ended, Sweeps,
     Walks, Reads, Late
<1>6. ASSUME NEW d \in Dirs, ListDir(d) PROVE MidFiles'
  BY <1>6 DEF ListDir, world, MidFiles, MidHeld, Files, Stamps, Held, WorldOK,
     CollectsOK, Collects, MidOK, Nothing, Kinds, Passes, Ended, Sweeps,
     Walks, Reads, Late
<1>7. ASSUME NEW d \in Dirs, CloseDir(d) PROVE MidFiles'
  BY <1>7 DEF CloseDir, Refuse, world, MidFiles, MidHeld, Files, Stamps, Held,
     WorldOK, CollectsOK, Collects, MidOK, Nothing, Kinds, Passes, Ended,
     Sweeps, Walks, Reads, Late
<1>8. ASSUME NEW p \in Paths, StatKind(p) PROVE MidFiles'
  BY <1>8 DEF StatKind, Refuse, world, MidFiles, MidHeld, Files, Stamps, Held,
     WorldOK, CollectsOK, Collects, MidOK, Nothing, Kinds, Passes, Ended,
     Sweeps, Walks, Reads, Late
<1>9. ASSUME NEW p \in Paths, StatFile(p) PROVE MidFiles'
  BY <1>9 DEF StatFile, world, MidFiles, MidHeld, Files, Stamps, Held,
     WorldOK, CollectsOK, Collects, MidOK, Nothing, Kinds, Passes, Ended,
     Sweeps, Walks, Reads, Late
<1>10. ASSUME NEW p \in Paths, StatMissing(p) PROVE MidFiles'
  BY <1>10 DEF StatMissing, Refuse, MayBeMissing, world, MidFiles, MidHeld,
     Files, Stamps, Held, WorldOK, CollectsOK, Collects, MidOK, Nothing,
     Kinds, Passes, Ended, Sweeps, Walks, Reads, Late
<1>11. CASE ReadFile
  BY <1>11 DEF ReadFile, Refuse, world, MidFiles, MidHeld, Files, Stamps,
     Held, WorldOK, CollectsOK, Collects, MidOK, Nothing, Kinds, Passes,
     Ended, Sweeps, Walks, Reads, Late
<1>12. CASE CheckFile
  <2>1. CASE Taken(fd.path)
    BY <2>1 DEF Taken, world, NoFile, MidFiles, MidHeld, Files, Stamps,
     WorldOK, CollectsOK, Collects, MidOK, FdOK, Held, Passes, Ended, Sweeps,
     Walks, Reads, Late
  <2>2. CASE Refuse /\ UNCHANGED world
    BY <2>2 DEF Refuse, world, MidFiles, MidHeld, Files, Stamps, WorldOK,
     CollectsOK, Collects, MidOK, FdOK, Held, Passes, Ended, Sweeps, Walks,
     Reads, Late
  <2> QED
    BY <1>12, <2>1, <2>2, CheckEffect
<1>13. CASE SecondSweep
  <2>1. pc = "sweep1" /\ dir["root"] = "closed"
    BY <1>13 DEF SecondSweep, Walked
  <2>2. dir["sub"] = "closed" /\ todo \cap In("root") = {} /\ todo \cap In("sub") = {}
    BY <2>1 DEF Walk, Dirs, Walks, Sweeps
  <2>3. todo = {}
    BY <2>2, Placed DEF WalkOK, Dirs
  <2>4. /\ pc' = "sweep2" /\ kind' = kind /\ kind # "snapshot" /\ tree' = tree /\ fs' = fs
        /\ was' = now /\ now'.seen = [p \in Paths |-> 0]
        /\ mid'.tree = tree /\ mid'.fs = fs
    BY <1>13 DEF SecondSweep, Here, Nothing, world, Kinds, Sweeps
  <2>5. \A p \in Paths : p \in now.names <=> now.seen[p] # 0
    BY <2>1, <2>3, <2>4 DEF Walk
  <2>6. ASSUME NEW p \in Paths
        PROVE  /\ was'.seen[p] <= mid'.fs[p] /\ 1 <= mid'.fs[p] /\ mid'.fs[p] <= fs'[p]
               /\ was'.seen[p] = mid'.fs[p] =>
                    /\ mid'.tree[p] # Absent
                    /\ kind' # "names" => was'.got[p] = mid'.tree[p]
               /\ was'.seen[p] = 0 \/ kind' = "names" => was'.got[p] = Absent
               /\ now'.seen[p] = 0
               /\ p \in was'.names <=> was'.seen[p] # 0
    BY <2>4, <2>5 DEF Files, Stamps, WorldOK
  <2> QED
    BY <2>4, <2>6 DEF MidFiles
<1>14. CASE Compare
  BY <1>14 DEF Compare, Walked, SweepsAgree, world, MidFiles, MidHeld, Files,
     Stamps, Held, WorldOK, CollectsOK, Collects, MidOK, Nothing, Kinds,
     Passes, Ended, Sweeps, Walks, Reads, Late
<1>15. CASE ListIndex
  BY <1>15 DEF ListIndex, Listings, world, MidFiles, MidHeld, Files, Stamps,
     Held, WorldOK, CollectsOK, Collects, MidOK, Nothing, Kinds, Passes,
     Ended, Sweeps, Walks, Reads, Late
<1>16. CASE FirstListing
  BY <1>16 DEF FirstListing, Untracked, world, MidFiles, MidHeld, Files,
     Stamps, Held, WorldOK, CollectsOK, Collects, MidOK, Nothing, Kinds,
     Passes, Ended, Sweeps, Walks, Reads, Late
<1>17. CASE Observed
  BY <1>17 DEF Observed, world, MidFiles, MidHeld, Files, Stamps, Held,
     WorldOK, CollectsOK, Collects, MidOK, Nothing, Kinds, Passes, Ended,
     Sweeps, Walks, Reads, Late
<1>18. CASE FirstTopology
  BY <1>18 DEF FirstTopology, Walked, world, MidFiles, MidHeld, Files, Stamps,
     Held, WorldOK, CollectsOK, Collects, MidOK, Nothing, Kinds, Passes,
     Ended, Sweeps, Walks, Reads, Late
<1>19. CASE SecondListing
  BY <1>19 DEF SecondListing, Untracked, Here, world, MidFiles, MidHeld,
     Files, Stamps, Held, WorldOK, CollectsOK, Collects, MidOK, Nothing,
     Kinds, Passes, Ended, Sweeps, Walks, Reads, Late
<1>20. CASE Rechecked
  BY <1>20 DEF Rechecked, world, MidFiles, MidHeld, Files, Stamps, Held,
     WorldOK, CollectsOK, Collects, MidOK, Nothing, Kinds, Passes, Ended,
     Sweeps, Walks, Reads, Late
<1>21. CASE ThirdListing
  BY <1>21 DEF ThirdListing, Untracked, world, MidFiles, MidHeld, Files,
     Stamps, Held, WorldOK, CollectsOK, Collects, MidOK, Nothing, Kinds,
     Passes, Ended, Sweeps, Walks, Reads, Late
<1>22. CASE Finish
  BY <1>22 DEF Finish, Walked, world, MidFiles, MidHeld, Files, Stamps, Held,
     WorldOK, CollectsOK, Collects, MidOK, Nothing, Kinds, Passes, Ended,
     Sweeps, Walks, Reads, Late
<1>23. CASE UNCHANGED vars
  BY <1>23 DEF vars, world, scan, MidFiles, MidHeld, Files, Stamps, Held,
     WorldOK, CollectsOK, Collects, MidOK, Nothing, Kinds, Passes, Ended,
     Sweeps, Walks, Reads, Late
<1> QED
  BY <1>1, <1>2, <1>3, <1>4, <1>5, <1>6, <1>7, <1>8, <1>9, <1>10, <1>11,
     <1>12, <1>13, <1>14, <1>15, <1>16, <1>17, <1>18, <1>19, <1>20, <1>21,
     <1>22, <1>23 DEF Next, Edit, WalkStep, FileStep, SweepStep, SnapshotStep

\* The open file is read after the middle.
LEMMA MidHeldStep ==
  ASSUME WorldOK, WalkOK, FdOK, MidOK, Held, MidFiles, MidHeld, Walk, [Next]_vars
  PROVE  MidHeld'
<1>1. ASSUME NEW p \in Paths, NEW b \in Bodies, Write(p, b), UNCHANGED scan PROVE MidHeld'
  BY <1>1 DEF Write, Touch, world, scan, MidHeld, MidFiles, WorldOK, MidOK,
     FdOK, NoFile, Held, Passes, Ended, Sweeps, Walks, Reads, Late
<1>2. ASSUME NEW p \in Paths, NEW b \in Bodies, Create(p, b), UNCHANGED scan PROVE MidHeld'
  BY <1>2 DEF Create, Touch, world, scan, MidHeld, MidFiles, WorldOK, MidOK,
     FdOK, NoFile, Held, Passes, Ended, Sweeps, Walks, Reads, Late
<1>3. ASSUME NEW p \in Paths, Delete(p), UNCHANGED scan PROVE MidHeld'
  BY <1>3 DEF Delete, Touch, world, scan, MidHeld, MidFiles, WorldOK, MidOK,
     FdOK, NoFile, Held, Passes, Ended, Sweeps, Walks, Reads, Late
<1>4. ASSUME NEW p \in Paths, Stage(p), UNCHANGED scan PROVE MidHeld'
  BY <1>4 DEF Stage, world, scan, MidHeld, MidFiles, WorldOK, MidOK, FdOK,
     NoFile, Held, Passes, Ended, Sweeps, Walks, Reads, Late
<1>5. ASSUME NEW d \in Dirs, BindDir(d) PROVE MidHeld'
  BY <1>5 DEF BindDir, world, MidHeld, MidFiles, WorldOK, MidOK, FdOK, NoFile,
     Held, Passes, Ended, Sweeps, Walks, Reads, Late
<1>6. ASSUME NEW d \in Dirs, ListDir(d) PROVE MidHeld'
  BY <1>6 DEF ListDir, world, MidHeld, MidFiles, WorldOK, MidOK, FdOK, NoFile,
     Held, Passes, Ended, Sweeps, Walks, Reads, Late
<1>7. ASSUME NEW d \in Dirs, CloseDir(d) PROVE MidHeld'
  BY <1>7 DEF CloseDir, Refuse, world, MidHeld, MidFiles, WorldOK, MidOK,
     FdOK, NoFile, Held, Passes, Ended, Sweeps, Walks, Reads, Late
<1>8. ASSUME NEW p \in Paths, StatKind(p) PROVE MidHeld'
  BY <1>8 DEF StatKind, Refuse, world, MidHeld, MidFiles, WorldOK, MidOK,
     FdOK, NoFile, Held, Passes, Ended, Sweeps, Walks, Reads, Late
<1>9. ASSUME NEW p \in Paths, StatFile(p) PROVE MidHeld'
  BY <1>9 DEF StatFile, world, MidHeld, MidFiles, WorldOK, MidOK, FdOK,
     NoFile, Held, Passes, Ended, Sweeps, Walks, Reads, Late
<1>10. ASSUME NEW p \in Paths, StatMissing(p) PROVE MidHeld'
  BY <1>10 DEF StatMissing, Refuse, MayBeMissing, world, MidHeld, MidFiles,
     WorldOK, MidOK, FdOK, NoFile, Held, Passes, Ended, Sweeps, Walks, Reads,
     Late
<1>11. CASE ReadFile
  BY <1>11 DEF ReadFile, Refuse, world, MidHeld, MidFiles, WorldOK, MidOK,
     FdOK, NoFile, Held, Passes, Ended, Sweeps, Walks, Reads, Late
<1>12. CASE CheckFile
  BY <1>12 DEF CheckFile, Refuse, AsBefore, world, MidHeld, MidFiles, WorldOK,
     MidOK, FdOK, NoFile, Held, Passes, Ended, Sweeps, Walks, Reads, Late
<1>13. CASE SecondSweep
  <2>1. pc = "sweep1" /\ dir["root"] = "closed"
    BY <1>13 DEF SecondSweep, Walked
  <2>2. dir["sub"] = "closed" /\ todo \cap In("root") = {} /\ todo \cap In("sub") = {}
    BY <2>1 DEF Walk, Dirs, Walks, Sweeps
  <2>3. todo = {}
    BY <2>2, Placed DEF WalkOK, Dirs
  <2> QED
    BY <1>13, <2>3 DEF SecondSweep, MidHeld, Held, FdOK
<1>14. CASE Compare
  BY <1>14 DEF Compare, Walked, SweepsAgree, world, MidHeld, MidFiles,
     WorldOK, MidOK, FdOK, NoFile, Held, Passes, Ended, Sweeps, Walks, Reads,
     Late
<1>15. CASE ListIndex
  BY <1>15 DEF ListIndex, Listings, world, MidHeld, MidFiles, WorldOK, MidOK,
     FdOK, NoFile, Held, Passes, Ended, Sweeps, Walks, Reads, Late
<1>16. CASE FirstListing
  BY <1>16 DEF FirstListing, Untracked, world, MidHeld, MidFiles, WorldOK,
     MidOK, FdOK, NoFile, Held, Passes, Ended, Sweeps, Walks, Reads, Late
<1>17. CASE Observed
  BY <1>17 DEF Observed, world, MidHeld, MidFiles, WorldOK, MidOK, FdOK,
     NoFile, Held, Passes, Ended, Sweeps, Walks, Reads, Late
<1>18. CASE FirstTopology
  BY <1>18 DEF FirstTopology, Walked, world, MidHeld, MidFiles, WorldOK,
     MidOK, FdOK, NoFile, Held, Passes, Ended, Sweeps, Walks, Reads, Late
<1>19. CASE SecondListing
  BY <1>19 DEF SecondListing, Untracked, Here, world, MidHeld, MidFiles,
     WorldOK, MidOK, FdOK, NoFile, Held, Passes, Ended, Sweeps, Walks, Reads,
     Late
<1>20. CASE Rechecked
  BY <1>20 DEF Rechecked, world, MidHeld, MidFiles, WorldOK, MidOK, FdOK,
     NoFile, Held, Passes, Ended, Sweeps, Walks, Reads, Late
<1>21. CASE ThirdListing
  BY <1>21 DEF ThirdListing, Untracked, world, MidHeld, MidFiles, WorldOK,
     MidOK, FdOK, NoFile, Held, Passes, Ended, Sweeps, Walks, Reads, Late
<1>22. CASE Finish
  BY <1>22 DEF Finish, Walked, world, MidHeld, MidFiles, WorldOK, MidOK, FdOK,
     NoFile, Held, Passes, Ended, Sweeps, Walks, Reads, Late
<1>23. CASE UNCHANGED vars
  BY <1>23 DEF vars, world, scan, MidHeld, MidFiles, WorldOK, MidOK, FdOK,
     NoFile, Held, Passes, Ended, Sweeps, Walks, Reads, Late
<1> QED
  BY <1>1, <1>2, <1>3, <1>4, <1>5, <1>6, <1>7, <1>8, <1>9, <1>10, <1>11,
     <1>12, <1>13, <1>14, <1>15, <1>16, <1>17, <1>18, <1>19, <1>20, <1>21,
     <1>22, <1>23 DEF Next, Edit, WalkStep, FileStep, SweepStep, SnapshotStep

\* What was listed before the middle.
LEMMA MidDirsStep ==
  ASSUME WorldOK, WalkOK, CollectsOK, MidOK, Stamps, Names, Walk, MidDirs, Kinds, [Next]_vars
  PROVE  MidDirs'
<1>1. ASSUME NEW p \in Paths, NEW b \in Bodies, Write(p, b), UNCHANGED scan PROVE MidDirs'
  BY <1>1 DEF Write, Touch, world, scan, MidDirs, Names, Stamps, Walk,
     WorldOK, WalkOK, CollectsOK, Collects, MidOK, Nothing, NotWalked, Kinds,
     Dirs, Passes, Ended, Sweeps, Walks, Reads, Late
<1>2. ASSUME NEW p \in Paths, NEW b \in Bodies, Create(p, b), UNCHANGED scan PROVE MidDirs'
  BY <1>2 DEF Create, Touch, world, scan, MidDirs, Names, Stamps, Walk,
     WorldOK, WalkOK, CollectsOK, Collects, MidOK, Nothing, NotWalked, Kinds,
     Dirs, Passes, Ended, Sweeps, Walks, Reads, Late
<1>3. ASSUME NEW p \in Paths, Delete(p), UNCHANGED scan PROVE MidDirs'
  BY <1>3 DEF Delete, Touch, world, scan, MidDirs, Names, Stamps, Walk,
     WorldOK, WalkOK, CollectsOK, Collects, MidOK, Nothing, NotWalked, Kinds,
     Dirs, Passes, Ended, Sweeps, Walks, Reads, Late
<1>4. ASSUME NEW p \in Paths, Stage(p), UNCHANGED scan PROVE MidDirs'
  BY <1>4 DEF Stage, world, scan, MidDirs, Names, Stamps, Walk, WorldOK,
     WalkOK, CollectsOK, Collects, MidOK, Nothing, NotWalked, Kinds, Dirs,
     Passes, Ended, Sweeps, Walks, Reads, Late
<1>5. ASSUME NEW d \in Dirs, BindDir(d) PROVE MidDirs'
  BY <1>5 DEF BindDir, world, MidDirs, Names, Stamps, Walk, WorldOK, WalkOK,
     CollectsOK, Collects, MidOK, Nothing, NotWalked, Kinds, Dirs, Passes,
     Ended, Sweeps, Walks, Reads, Late
<1>6. ASSUME NEW d \in Dirs, ListDir(d) PROVE MidDirs'
  BY <1>6 DEF ListDir, world, MidDirs, Names, Stamps, Walk, WorldOK, WalkOK,
     CollectsOK, Collects, MidOK, Nothing, NotWalked, Kinds, Dirs, Passes,
     Ended, Sweeps, Walks, Reads, Late
<1>7. ASSUME NEW d \in Dirs, CloseDir(d) PROVE MidDirs'
  BY <1>7 DEF CloseDir, Refuse, world, MidDirs, Names, Stamps, Walk, WorldOK,
     WalkOK, CollectsOK, Collects, MidOK, Nothing, NotWalked, Kinds, Dirs,
     Passes, Ended, Sweeps, Walks, Reads, Late
<1>8. ASSUME NEW p \in Paths, StatKind(p) PROVE MidDirs'
  BY <1>8 DEF StatKind, Refuse, world, MidDirs, Names, Stamps, Walk, WorldOK,
     WalkOK, CollectsOK, Collects, MidOK, Nothing, NotWalked, Kinds, Dirs,
     Passes, Ended, Sweeps, Walks, Reads, Late
<1>9. ASSUME NEW p \in Paths, StatFile(p) PROVE MidDirs'
  BY <1>9 DEF StatFile, world, MidDirs, Names, Stamps, Walk, WorldOK, WalkOK,
     CollectsOK, Collects, MidOK, Nothing, NotWalked, Kinds, Dirs, Passes,
     Ended, Sweeps, Walks, Reads, Late
<1>10. ASSUME NEW p \in Paths, StatMissing(p) PROVE MidDirs'
  BY <1>10 DEF StatMissing, Refuse, MayBeMissing, world, MidDirs, Names,
     Stamps, Walk, WorldOK, WalkOK, CollectsOK, Collects, MidOK, Nothing,
     NotWalked, Kinds, Dirs, Passes, Ended, Sweeps, Walks, Reads, Late
<1>11. CASE ReadFile
  BY <1>11 DEF ReadFile, Refuse, world, MidDirs, Names, Stamps, Walk, WorldOK,
     WalkOK, CollectsOK, Collects, MidOK, Nothing, NotWalked, Kinds, Dirs,
     Passes, Ended, Sweeps, Walks, Reads, Late
<1>12. CASE CheckFile
  BY <1>12 DEF CheckFile, Refuse, AsBefore, world, MidDirs, Names, Stamps,
     Walk, WorldOK, WalkOK, CollectsOK, Collects, MidOK, Nothing, NotWalked,
     Kinds, Dirs, Passes, Ended, Sweeps, Walks, Reads, Late
<1>13. CASE SecondSweep
  BY <1>13 DEF SecondSweep, Walked, Here, world, MidDirs, Names, Stamps, Walk,
     WorldOK, WalkOK, CollectsOK, Collects, MidOK, Nothing, NotWalked, Kinds,
     Dirs, Passes, Ended, Sweeps, Walks, Reads, Late
<1>14. CASE Compare
  BY <1>14 DEF Compare, Walked, SweepsAgree, world, MidDirs, Names, Stamps,
     Walk, WorldOK, WalkOK, CollectsOK, Collects, MidOK, Nothing, NotWalked,
     Kinds, Dirs, Passes, Ended, Sweeps, Walks, Reads, Late
<1>15. CASE ListIndex
  BY <1>15 DEF ListIndex, Listings, world, MidDirs, Names, Stamps, Walk,
     WorldOK, WalkOK, CollectsOK, Collects, MidOK, Nothing, NotWalked, Kinds,
     Dirs, Passes, Ended, Sweeps, Walks, Reads, Late
<1>16. CASE FirstListing
  BY <1>16 DEF FirstListing, Untracked, world, MidDirs, Names, Stamps, Walk,
     WorldOK, WalkOK, CollectsOK, Collects, MidOK, Nothing, NotWalked, Kinds,
     Dirs, Passes, Ended, Sweeps, Walks, Reads, Late
<1>17. CASE Observed
  BY <1>17 DEF Observed, world, MidDirs, Names, Stamps, Walk, WorldOK, WalkOK,
     CollectsOK, Collects, MidOK, Nothing, NotWalked, Kinds, Dirs, Passes,
     Ended, Sweeps, Walks, Reads, Late
<1>18. CASE FirstTopology
  BY <1>18 DEF FirstTopology, Walked, world, MidDirs, Names, Stamps, Walk,
     WorldOK, WalkOK, CollectsOK, Collects, MidOK, Nothing, NotWalked, Kinds,
     Dirs, Passes, Ended, Sweeps, Walks, Reads, Late
<1>19. CASE SecondListing
  BY <1>19 DEF SecondListing, Untracked, Here, world, MidDirs, Names, Stamps,
     Walk, WorldOK, WalkOK, CollectsOK, Collects, MidOK, Nothing, NotWalked,
     Kinds, Dirs, Passes, Ended, Sweeps, Walks, Reads, Late
<1>20. CASE Rechecked
  BY <1>20 DEF Rechecked, world, MidDirs, Names, Stamps, Walk, WorldOK,
     WalkOK, CollectsOK, Collects, MidOK, Nothing, NotWalked, Kinds, Dirs,
     Passes, Ended, Sweeps, Walks, Reads, Late
<1>21. CASE ThirdListing
  BY <1>21 DEF ThirdListing, Untracked, world, MidDirs, Names, Stamps, Walk,
     WorldOK, WalkOK, CollectsOK, Collects, MidOK, Nothing, NotWalked, Kinds,
     Dirs, Passes, Ended, Sweeps, Walks, Reads, Late
<1>22. CASE Finish
  BY <1>22 DEF Finish, Walked, world, MidDirs, Names, Stamps, Walk, WorldOK,
     WalkOK, CollectsOK, Collects, MidOK, Nothing, NotWalked, Kinds, Dirs,
     Passes, Ended, Sweeps, Walks, Reads, Late
<1>23. CASE UNCHANGED vars
  BY <1>23 DEF vars, world, scan, MidDirs, Names, Stamps, Walk, WorldOK,
     WalkOK, CollectsOK, Collects, MidOK, Nothing, NotWalked, Kinds, Dirs,
     Passes, Ended, Sweeps, Walks, Reads, Late
<1> QED
  BY <1>1, <1>2, <1>3, <1>4, <1>5, <1>6, <1>7, <1>8, <1>9, <1>10, <1>11,
     <1>12, <1>13, <1>14, <1>15, <1>16, <1>17, <1>18, <1>19, <1>20, <1>21,
     <1>22, <1>23 DEF Next, Edit, WalkStep, FileStep, SweepStep, SnapshotStep

\* What git listed.
LEMMA HeardStep ==
  ASSUME WorldOK, GitOK, Stamps, Heard, Kinds, WalkOK, Held, [Next]_vars
  PROVE  Heard'
<1>1. ASSUME NEW p \in Paths, NEW b \in Bodies, Write(p, b), UNCHANGED scan PROVE Heard'
  BY <1>1 DEF Write, Touch, world, scan, Heard, WorldOK, GitOK, Stamps,
     Present, Held, Kinds, WalkOK, Passes, Ended, Sweeps, Walks, Reads, Late
<1>2. ASSUME NEW p \in Paths, NEW b \in Bodies, Create(p, b), UNCHANGED scan PROVE Heard'
  BY <1>2 DEF Create, Touch, world, scan, Heard, WorldOK, GitOK, Stamps,
     Present, Held, Kinds, WalkOK, Passes, Ended, Sweeps, Walks, Reads, Late
<1>3. ASSUME NEW p \in Paths, Delete(p), UNCHANGED scan PROVE Heard'
  BY <1>3 DEF Delete, Touch, world, scan, Heard, WorldOK, GitOK, Stamps,
     Present, Held, Kinds, WalkOK, Passes, Ended, Sweeps, Walks, Reads, Late
<1>4. ASSUME NEW p \in Paths, Stage(p), UNCHANGED scan PROVE Heard'
  BY <1>4 DEF Stage, world, scan, Heard, WorldOK, GitOK, Stamps, Present,
     Held, Kinds, WalkOK, Passes, Ended, Sweeps, Walks, Reads, Late
<1>5. ASSUME NEW d \in Dirs, BindDir(d) PROVE Heard'
  BY <1>5 DEF BindDir, world, Heard, WorldOK, GitOK, Stamps, Present, Held,
     Kinds, WalkOK, Passes, Ended, Sweeps, Walks, Reads, Late
<1>6. ASSUME NEW d \in Dirs, ListDir(d) PROVE Heard'
  BY <1>6 DEF ListDir, world, Heard, WorldOK, GitOK, Stamps, Present, Held,
     Kinds, WalkOK, Passes, Ended, Sweeps, Walks, Reads, Late
<1>7. ASSUME NEW d \in Dirs, CloseDir(d) PROVE Heard'
  BY <1>7 DEF CloseDir, Refuse, world, Heard, WorldOK, GitOK, Stamps, Present,
     Held, Kinds, WalkOK, Passes, Ended, Sweeps, Walks, Reads, Late
<1>8. ASSUME NEW p \in Paths, StatKind(p) PROVE Heard'
  BY <1>8 DEF StatKind, Refuse, world, Heard, WorldOK, GitOK, Stamps, Present,
     Held, Kinds, WalkOK, Passes, Ended, Sweeps, Walks, Reads, Late
<1>9. ASSUME NEW p \in Paths, StatFile(p) PROVE Heard'
  BY <1>9 DEF StatFile, world, Heard, WorldOK, GitOK, Stamps, Present, Held,
     Kinds, WalkOK, Passes, Ended, Sweeps, Walks, Reads, Late
<1>10. ASSUME NEW p \in Paths, StatMissing(p) PROVE Heard'
  BY <1>10 DEF StatMissing, Refuse, MayBeMissing, world, Heard, WorldOK,
     GitOK, Stamps, Present, Held, Kinds, WalkOK, Passes, Ended, Sweeps,
     Walks, Reads, Late
<1>11. CASE ReadFile
  BY <1>11 DEF ReadFile, Refuse, world, Heard, WorldOK, GitOK, Stamps,
     Present, Held, Kinds, WalkOK, Passes, Ended, Sweeps, Walks, Reads, Late
<1>12. CASE CheckFile
  BY <1>12 DEF CheckFile, Refuse, AsBefore, world, Heard, WorldOK, GitOK,
     Stamps, Present, Held, Kinds, WalkOK, Passes, Ended, Sweeps, Walks,
     Reads, Late
<1>13. CASE SecondSweep
  BY <1>13 DEF SecondSweep, Walked, Here, world, Heard, WorldOK, GitOK,
     Stamps, Present, Held, Kinds, WalkOK, Passes, Ended, Sweeps, Walks,
     Reads, Late
<1>14. CASE Compare
  BY <1>14 DEF Compare, Walked, SweepsAgree, world, Heard, WorldOK, GitOK,
     Stamps, Present, Held, Kinds, WalkOK, Passes, Ended, Sweeps, Walks,
     Reads, Late
<1>15. CASE ListIndex
  BY <1>15 DEF ListIndex, Listings, world, Heard, WorldOK, GitOK, Stamps,
     Present, Held, Kinds, WalkOK, Passes, Ended, Sweeps, Walks, Reads, Late
<1>16. CASE FirstListing
  BY <1>16 DEF FirstListing, Untracked, world, Heard, WorldOK, GitOK, Stamps,
     Present, Held, Kinds, WalkOK, Passes, Ended, Sweeps, Walks, Reads, Late
<1>17. CASE Observed
  BY <1>17 DEF Observed, world, Heard, WorldOK, GitOK, Stamps, Present, Held,
     Kinds, WalkOK, Passes, Ended, Sweeps, Walks, Reads, Late
<1>18. CASE FirstTopology
  BY <1>18 DEF FirstTopology, Walked, world, Heard, WorldOK, GitOK, Stamps,
     Present, Held, Kinds, WalkOK, Passes, Ended, Sweeps, Walks, Reads, Late
<1>19. CASE SecondListing
  BY <1>19 DEF SecondListing, Untracked, Here, world, Heard, WorldOK, GitOK,
     Stamps, Present, Held, Kinds, WalkOK, Passes, Ended, Sweeps, Walks,
     Reads, Late
<1>20. CASE Rechecked
  BY <1>20 DEF Rechecked, world, Heard, WorldOK, GitOK, Stamps, Present, Held,
     Kinds, WalkOK, Passes, Ended, Sweeps, Walks, Reads, Late
<1>21. CASE ThirdListing
  BY <1>21 DEF ThirdListing, Untracked, world, Heard, WorldOK, GitOK, Stamps,
     Present, Held, Kinds, WalkOK, Passes, Ended, Sweeps, Walks, Reads, Late
<1>22. CASE Finish
  BY <1>22 DEF Finish, Walked, world, Heard, WorldOK, GitOK, Stamps, Present,
     Held, Kinds, WalkOK, Passes, Ended, Sweeps, Walks, Reads, Late
<1>23. CASE UNCHANGED vars
  BY <1>23 DEF vars, world, scan, Heard, WorldOK, GitOK, Stamps, Present,
     Held, Kinds, WalkOK, Passes, Ended, Sweeps, Walks, Reads, Late
<1> QED
  BY <1>1, <1>2, <1>3, <1>4, <1>5, <1>6, <1>7, <1>8, <1>9, <1>10, <1>11,
     <1>12, <1>13, <1>14, <1>15, <1>16, <1>17, <1>18, <1>19, <1>20, <1>21,
     <1>22, <1>23 DEF Next, Edit, WalkStep, FileStep, SweepStep, SnapshotStep

\* Paths that were listed and not found.
LEMMA MissingStep ==
  ASSUME WorldOK, WalkOK, GitOK, CollectsOK, FdOK, Stamps, Missing, Kinds, Walk, Held, [Next]_vars
  PROVE  Missing'
<1>1. ASSUME NEW p \in Paths, NEW b \in Bodies, Write(p, b), UNCHANGED scan PROVE Missing'
  BY <1>1, Placed DEF Write, Touch, world, scan, Missing, Kinds, WorldOK,
     WalkOK, CollectsOK, Collects, FdOK, GitOK, Stamps, Held, Listed, Passes,
     Ended, Sweeps, Walks, Reads, Late
<1>2. ASSUME NEW p \in Paths, NEW b \in Bodies, Create(p, b), UNCHANGED scan PROVE Missing'
  BY <1>2, Placed DEF Create, Touch, world, scan, Missing, Kinds, WorldOK,
     WalkOK, CollectsOK, Collects, FdOK, GitOK, Stamps, Held, Listed, Passes,
     Ended, Sweeps, Walks, Reads, Late
<1>3. ASSUME NEW p \in Paths, Delete(p), UNCHANGED scan PROVE Missing'
  BY <1>3, Placed DEF Delete, Touch, world, scan, Missing, Kinds, WorldOK,
     WalkOK, CollectsOK, Collects, FdOK, GitOK, Stamps, Held, Listed, Passes,
     Ended, Sweeps, Walks, Reads, Late
<1>4. ASSUME NEW p \in Paths, Stage(p), UNCHANGED scan PROVE Missing'
  BY <1>4, Placed DEF Stage, world, scan, Missing, Kinds, WorldOK, WalkOK,
     CollectsOK, Collects, FdOK, GitOK, Stamps, Held, Listed, Passes, Ended,
     Sweeps, Walks, Reads, Late
<1>5. ASSUME NEW d \in Dirs, BindDir(d) PROVE Missing'
  BY <1>5, Placed DEF BindDir, world, Missing, Kinds, WorldOK, WalkOK,
     CollectsOK, Collects, FdOK, GitOK, Stamps, Held, Listed, Passes, Ended,
     Sweeps, Walks, Reads, Late
<1>6. ASSUME NEW d \in Dirs, ListDir(d) PROVE Missing'
  BY <1>6, Placed DEF ListDir, world, Missing, Kinds, WorldOK, WalkOK,
     CollectsOK, Collects, FdOK, GitOK, Stamps, Held, Listed, Passes, Ended,
     Sweeps, Walks, Reads, Late
<1>7. ASSUME NEW d \in Dirs, CloseDir(d) PROVE Missing'
  BY <1>7, Placed DEF CloseDir, Refuse, world, Missing, Kinds, WorldOK,
     WalkOK, CollectsOK, Collects, FdOK, GitOK, Stamps, Held, Listed, Passes,
     Ended, Sweeps, Walks, Reads, Late
<1>8. ASSUME NEW p \in Paths, StatKind(p) PROVE Missing'
  BY <1>8, Placed DEF StatKind, Refuse, world, Missing, Kinds, WorldOK,
     WalkOK, CollectsOK, Collects, FdOK, GitOK, Stamps, Held, Listed, Passes,
     Ended, Sweeps, Walks, Reads, Late
<1>9. ASSUME NEW p \in Paths, StatFile(p) PROVE Missing'
  BY <1>9, Placed DEF StatFile, world, Missing, Kinds, WorldOK, WalkOK,
     CollectsOK, Collects, FdOK, GitOK, Stamps, Held, Listed, Passes, Ended,
     Sweeps, Walks, Reads, Late
<1>10. ASSUME NEW p \in Paths, StatMissing(p) PROVE Missing'
  BY <1>10, Placed DEF StatMissing, Refuse, MayBeMissing, world, Missing,
     Kinds, WorldOK, WalkOK, CollectsOK, Collects, FdOK, GitOK, Stamps, Held,
     Listed, Passes, Ended, Sweeps, Walks, Reads, Late
<1>11. CASE ReadFile
  BY <1>11, Placed DEF ReadFile, Refuse, world, Missing, Kinds, WorldOK,
     WalkOK, CollectsOK, Collects, FdOK, GitOK, Stamps, Held, Listed, Passes,
     Ended, Sweeps, Walks, Reads, Late
<1>12. CASE CheckFile
  <2>1. CASE Taken(fd.path)
    BY <2>1 DEF Taken, world, NoFile, Missing, Kinds, WorldOK, WalkOK,
     CollectsOK, Collects, FdOK, GitOK, Stamps, Listed, Held, Passes, Ended,
     Sweeps, Walks, Reads, Late
  <2>2. CASE Refuse /\ UNCHANGED world
    BY <2>2 DEF Refuse, world, Missing, Kinds, WorldOK, WalkOK, CollectsOK,
     Collects, FdOK, GitOK, Stamps, Listed, Held, Passes, Ended, Sweeps,
     Walks, Reads, Late
  <2> QED
    BY <1>12, <2>1, <2>2, CheckEffect
<1>13. CASE SecondSweep
  BY <1>13, Placed DEF SecondSweep, Walked, Here, world, Missing, Kinds,
     WorldOK, WalkOK, CollectsOK, Collects, FdOK, GitOK, Stamps, Held, Listed,
     Passes, Ended, Sweeps, Walks, Reads, Late
<1>14. CASE Compare
  BY <1>14, Placed DEF Compare, Walked, SweepsAgree, world, Missing, Kinds,
     WorldOK, WalkOK, CollectsOK, Collects, FdOK, GitOK, Stamps, Held, Listed,
     Passes, Ended, Sweeps, Walks, Reads, Late
<1>15. CASE ListIndex
  BY <1>15, Placed DEF ListIndex, Listings, world, Missing, Kinds, WorldOK,
     WalkOK, CollectsOK, Collects, FdOK, GitOK, Stamps, Held, Listed, Passes,
     Ended, Sweeps, Walks, Reads, Late
<1>16. CASE FirstListing
  BY <1>16, Placed DEF FirstListing, Untracked, world, Missing, Kinds,
     WorldOK, WalkOK, CollectsOK, Collects, FdOK, GitOK, Stamps, Held, Listed,
     Passes, Ended, Sweeps, Walks, Reads, Late
<1>17. CASE Observed
  BY <1>17, Placed DEF Observed, world, Missing, Kinds, WorldOK, WalkOK,
     CollectsOK, Collects, FdOK, GitOK, Stamps, Held, Listed, Passes, Ended,
     Sweeps, Walks, Reads, Late
<1>18. CASE FirstTopology
  BY <1>18, Placed DEF FirstTopology, Walked, world, Missing, Kinds, WorldOK,
     WalkOK, CollectsOK, Collects, FdOK, GitOK, Stamps, Held, Listed, Passes,
     Ended, Sweeps, Walks, Reads, Late
<1>19. CASE SecondListing
  BY <1>19, Placed DEF SecondListing, Untracked, Here, world, Missing, Kinds,
     WorldOK, WalkOK, CollectsOK, Collects, FdOK, GitOK, Stamps, Held, Listed,
     Passes, Ended, Sweeps, Walks, Reads, Late
<1>20. CASE Rechecked
  BY <1>20, Placed DEF Rechecked, world, Missing, Kinds, WorldOK, WalkOK,
     CollectsOK, Collects, FdOK, GitOK, Stamps, Held, Listed, Passes, Ended,
     Sweeps, Walks, Reads, Late
<1>21. CASE ThirdListing
  BY <1>21, Placed DEF ThirdListing, Untracked, world, Missing, Kinds,
     WorldOK, WalkOK, CollectsOK, Collects, FdOK, GitOK, Stamps, Held, Listed,
     Passes, Ended, Sweeps, Walks, Reads, Late
<1>22. CASE Finish
  BY <1>22, Placed DEF Finish, Walked, world, Missing, Kinds, WorldOK, WalkOK,
     CollectsOK, Collects, FdOK, GitOK, Stamps, Held, Listed, Passes, Ended,
     Sweeps, Walks, Reads, Late
<1>23. CASE UNCHANGED vars
  BY <1>23 DEF vars, world, scan, Missing, Kinds, WorldOK, WalkOK, CollectsOK,
     Collects, FdOK, GitOK, Stamps, Held, Listed, Passes, Ended, Sweeps,
     Walks, Reads, Late
<1> QED
  BY <1>1, <1>2, <1>3, <1>4, <1>5, <1>6, <1>7, <1>8, <1>9, <1>10, <1>11,
     <1>12, <1>13, <1>14, <1>15, <1>16, <1>17, <1>18, <1>19, <1>20, <1>21,
     <1>22, <1>23 DEF Next, Edit, WalkStep, FileStep, SweepStep, SnapshotStep

\* What was listed at the middle.
LEMMA MidListedStep ==
  ASSUME WorldOK, GitOK, MidOK, Stamps, Heard, Missing, MidListed, Kinds, WalkOK, Held, [Next]_vars
  PROVE  MidListed'
<1>1. ASSUME NEW p \in Paths, NEW b \in Bodies, Write(p, b), UNCHANGED scan PROVE MidListed'
  BY <1>1 DEF Write, Touch, world, scan, MidListed, Missing, Heard, Kinds,
     Stamps, WorldOK, GitOK, MidOK, Listed, Present, Held, Passes, Ended,
     Sweeps, Walks, Reads, Late
<1>2. ASSUME NEW p \in Paths, NEW b \in Bodies, Create(p, b), UNCHANGED scan PROVE MidListed'
  BY <1>2 DEF Create, Touch, world, scan, MidListed, Missing, Heard, Kinds,
     Stamps, WorldOK, GitOK, MidOK, Listed, Present, Held, Passes, Ended,
     Sweeps, Walks, Reads, Late
<1>3. ASSUME NEW p \in Paths, Delete(p), UNCHANGED scan PROVE MidListed'
  BY <1>3 DEF Delete, Touch, world, scan, MidListed, Missing, Heard, Kinds,
     Stamps, WorldOK, GitOK, MidOK, Listed, Present, Held, Passes, Ended,
     Sweeps, Walks, Reads, Late
<1>4. ASSUME NEW p \in Paths, Stage(p), UNCHANGED scan PROVE MidListed'
  BY <1>4 DEF Stage, world, scan, MidListed, Missing, Heard, Kinds, Stamps,
     WorldOK, GitOK, MidOK, Listed, Present, Held, Passes, Ended, Sweeps,
     Walks, Reads, Late
<1>5. ASSUME NEW d \in Dirs, BindDir(d) PROVE MidListed'
  BY <1>5 DEF BindDir, world, MidListed, Missing, Heard, Kinds, Stamps,
     WorldOK, GitOK, MidOK, Listed, Present, Held, Passes, Ended, Sweeps,
     Walks, Reads, Late
<1>6. ASSUME NEW d \in Dirs, ListDir(d) PROVE MidListed'
  BY <1>6 DEF ListDir, world, MidListed, Missing, Heard, Kinds, Stamps,
     WorldOK, GitOK, MidOK, Listed, Present, Held, Passes, Ended, Sweeps,
     Walks, Reads, Late
<1>7. ASSUME NEW d \in Dirs, CloseDir(d) PROVE MidListed'
  BY <1>7 DEF CloseDir, Refuse, world, MidListed, Missing, Heard, Kinds,
     Stamps, WorldOK, GitOK, MidOK, Listed, Present, Held, Passes, Ended,
     Sweeps, Walks, Reads, Late
<1>8. ASSUME NEW p \in Paths, StatKind(p) PROVE MidListed'
  BY <1>8 DEF StatKind, Refuse, world, MidListed, Missing, Heard, Kinds,
     Stamps, WorldOK, GitOK, MidOK, Listed, Present, Held, Passes, Ended,
     Sweeps, Walks, Reads, Late
<1>9. ASSUME NEW p \in Paths, StatFile(p) PROVE MidListed'
  BY <1>9 DEF StatFile, world, MidListed, Missing, Heard, Kinds, Stamps,
     WorldOK, GitOK, MidOK, Listed, Present, Held, Passes, Ended, Sweeps,
     Walks, Reads, Late
<1>10. ASSUME NEW p \in Paths, StatMissing(p) PROVE MidListed'
  BY <1>10 DEF StatMissing, Refuse, MayBeMissing, world, MidListed, Missing,
     Heard, Kinds, Stamps, WorldOK, GitOK, MidOK, Listed, Present, Held,
     Passes, Ended, Sweeps, Walks, Reads, Late
<1>11. CASE ReadFile
  BY <1>11 DEF ReadFile, Refuse, world, MidListed, Missing, Heard, Kinds,
     Stamps, WorldOK, GitOK, MidOK, Listed, Present, Held, Passes, Ended,
     Sweeps, Walks, Reads, Late
<1>12. CASE CheckFile
  BY <1>12 DEF CheckFile, Refuse, AsBefore, world, MidListed, Missing, Heard,
     Kinds, Stamps, WorldOK, GitOK, MidOK, Listed, Present, Held, Passes,
     Ended, Sweeps, Walks, Reads, Late
<1>13. CASE SecondSweep
  BY <1>13 DEF SecondSweep, Walked, Here, world, MidListed, Missing, Heard,
     Kinds, Stamps, WorldOK, GitOK, MidOK, Listed, Present, Held, Passes,
     Ended, Sweeps, Walks, Reads, Late
<1>14. CASE Compare
  BY <1>14 DEF Compare, Walked, SweepsAgree, world, MidListed, Missing, Heard,
     Kinds, Stamps, WorldOK, GitOK, MidOK, Listed, Present, Held, Passes,
     Ended, Sweeps, Walks, Reads, Late
<1>15. CASE ListIndex
  BY <1>15 DEF ListIndex, Listings, world, MidListed, Missing, Heard, Kinds,
     Stamps, WorldOK, GitOK, MidOK, Listed, Present, Held, Passes, Ended,
     Sweeps, Walks, Reads, Late
<1>16. CASE FirstListing
  BY <1>16 DEF FirstListing, Untracked, world, MidListed, Missing, Heard,
     Kinds, Stamps, WorldOK, GitOK, MidOK, Listed, Present, Held, Passes,
     Ended, Sweeps, Walks, Reads, Late
<1>17. CASE Observed
  BY <1>17 DEF Observed, world, MidListed, Missing, Heard, Kinds, Stamps,
     WorldOK, GitOK, MidOK, Listed, Present, Held, Passes, Ended, Sweeps,
     Walks, Reads, Late
<1>18. CASE FirstTopology
  BY <1>18 DEF FirstTopology, Walked, world, MidListed, Missing, Heard, Kinds,
     Stamps, WorldOK, GitOK, MidOK, Listed, Present, Held, Passes, Ended,
     Sweeps, Walks, Reads, Late
<1>19. CASE SecondListing
  BY <1>19 DEF SecondListing, Untracked, Here, world, MidListed, Missing,
     Heard, Kinds, Stamps, WorldOK, GitOK, MidOK, Listed, Present, Held,
     Passes, Ended, Sweeps, Walks, Reads, Late
<1>20. CASE Rechecked
  BY <1>20 DEF Rechecked, world, MidListed, Missing, Heard, Kinds, Stamps,
     WorldOK, GitOK, MidOK, Listed, Present, Held, Passes, Ended, Sweeps,
     Walks, Reads, Late
<1>21. CASE ThirdListing
  BY <1>21 DEF ThirdListing, Untracked, world, MidListed, Missing, Heard,
     Kinds, Stamps, WorldOK, GitOK, MidOK, Listed, Present, Held, Passes,
     Ended, Sweeps, Walks, Reads, Late
<1>22. CASE Finish
  BY <1>22 DEF Finish, Walked, world, MidListed, Missing, Heard, Kinds,
     Stamps, WorldOK, GitOK, MidOK, Listed, Present, Held, Passes, Ended,
     Sweeps, Walks, Reads, Late
<1>23. CASE UNCHANGED vars
  BY <1>23 DEF vars, world, scan, MidListed, Missing, Heard, Kinds, Stamps,
     WorldOK, GitOK, MidOK, Listed, Present, Held, Passes, Ended, Sweeps,
     Walks, Reads, Late
<1> QED
  BY <1>1, <1>2, <1>3, <1>4, <1>5, <1>6, <1>7, <1>8, <1>9, <1>10, <1>11,
     <1>12, <1>13, <1>14, <1>15, <1>16, <1>17, <1>18, <1>19, <1>20, <1>21,
     <1>22, <1>23 DEF Next, Edit, WalkStep, FileStep, SweepStep, SnapshotStep

\* What is read again is as it was.
LEMMA AgainStep ==
  ASSUME WorldOK, WalkOK, CollectsOK, GitOK, FdOK, Kinds, Held, Again, [Next]_vars
  PROVE  Again'
<1>1. ASSUME NEW p \in Paths, NEW b \in Bodies, Write(p, b), UNCHANGED scan PROVE Again'
  BY <1>1 DEF Write, Touch, world, scan, Again, Kinds, Held, FdOK, WalkOK,
     CollectsOK, Collects, Listed, Nothing, Passes, Ended, Sweeps, Walks,
     Reads, Late
<1>2. ASSUME NEW p \in Paths, NEW b \in Bodies, Create(p, b), UNCHANGED scan PROVE Again'
  BY <1>2 DEF Create, Touch, world, scan, Again, Kinds, Held, FdOK, WalkOK,
     CollectsOK, Collects, Listed, Nothing, Passes, Ended, Sweeps, Walks,
     Reads, Late
<1>3. ASSUME NEW p \in Paths, Delete(p), UNCHANGED scan PROVE Again'
  BY <1>3 DEF Delete, Touch, world, scan, Again, Kinds, Held, FdOK, WalkOK,
     CollectsOK, Collects, Listed, Nothing, Passes, Ended, Sweeps, Walks,
     Reads, Late
<1>4. ASSUME NEW p \in Paths, Stage(p), UNCHANGED scan PROVE Again'
  BY <1>4 DEF Stage, world, scan, Again, Kinds, Held, FdOK, WalkOK,
     CollectsOK, Collects, Listed, Nothing, Passes, Ended, Sweeps, Walks,
     Reads, Late
<1>5. ASSUME NEW d \in Dirs, BindDir(d) PROVE Again'
  BY <1>5 DEF BindDir, world, Again, Kinds, Held, FdOK, WalkOK, CollectsOK,
     Collects, Listed, Nothing, Passes, Ended, Sweeps, Walks, Reads, Late
<1>6. ASSUME NEW d \in Dirs, ListDir(d) PROVE Again'
  BY <1>6 DEF ListDir, world, Again, Kinds, Held, FdOK, WalkOK, CollectsOK,
     Collects, Listed, Nothing, Passes, Ended, Sweeps, Walks, Reads, Late
<1>7. ASSUME NEW d \in Dirs, CloseDir(d) PROVE Again'
  BY <1>7 DEF CloseDir, Refuse, world, Again, Kinds, Held, FdOK, WalkOK,
     CollectsOK, Collects, Listed, Nothing, Passes, Ended, Sweeps, Walks,
     Reads, Late
<1>8. ASSUME NEW p \in Paths, StatKind(p) PROVE Again'
  BY <1>8 DEF StatKind, Refuse, world, Again, Kinds, Held, FdOK, WalkOK,
     CollectsOK, Collects, Listed, Nothing, Passes, Ended, Sweeps, Walks,
     Reads, Late
<1>9. ASSUME NEW p \in Paths, StatFile(p) PROVE Again'
  BY <1>9 DEF StatFile, world, Again, Kinds, Held, FdOK, WalkOK, CollectsOK,
     Collects, Listed, Nothing, Passes, Ended, Sweeps, Walks, Reads, Late
<1>10. ASSUME NEW p \in Paths, StatMissing(p) PROVE Again'
  BY <1>10 DEF StatMissing, Refuse, MayBeMissing, world, Again, Kinds, Held,
     FdOK, WalkOK, CollectsOK, Collects, Listed, Nothing, Passes, Ended,
     Sweeps, Walks, Reads, Late
<1>11. CASE ReadFile
  BY <1>11 DEF ReadFile, Refuse, world, Again, Kinds, Held, FdOK, WalkOK,
     CollectsOK, Collects, Listed, Nothing, Passes, Ended, Sweeps, Walks,
     Reads, Late
<1>12. CASE CheckFile
  <2>1. CASE Taken(fd.path)
    BY <2>1 DEF Taken, world, NoFile, Again, Held, Kinds, FdOK, WalkOK,
     CollectsOK, Collects, Listed, Passes, Ended, Sweeps, Walks, Reads, Late
  <2>2. CASE Refuse /\ UNCHANGED world
    BY <2>2 DEF Refuse, world, Again, Held, Kinds, FdOK, WalkOK, CollectsOK,
     Collects, Listed, Passes, Ended, Sweeps, Walks, Reads, Late
  <2> QED
    BY <1>12, <2>1, <2>2, CheckEffect
<1>13. CASE SecondSweep
  BY <1>13 DEF SecondSweep, Walked, Here, world, Again, Kinds, Held, FdOK,
     WalkOK, CollectsOK, Collects, Listed, Nothing, Passes, Ended, Sweeps,
     Walks, Reads, Late
<1>14. CASE Compare
  BY <1>14 DEF Compare, Walked, SweepsAgree, world, Again, Kinds, Held, FdOK,
     WalkOK, CollectsOK, Collects, Listed, Nothing, Passes, Ended, Sweeps,
     Walks, Reads, Late
<1>15. CASE ListIndex
  BY <1>15 DEF ListIndex, Listings, world, Again, Kinds, Held, FdOK, WalkOK,
     CollectsOK, Collects, Listed, Nothing, Passes, Ended, Sweeps, Walks,
     Reads, Late
<1>16. CASE FirstListing
  BY <1>16 DEF FirstListing, Untracked, world, Again, Kinds, Held, FdOK,
     WalkOK, CollectsOK, Collects, Listed, Nothing, Passes, Ended, Sweeps,
     Walks, Reads, Late
<1>17. CASE Observed
  BY <1>17 DEF Observed, world, Again, Kinds, Held, FdOK, WalkOK, CollectsOK,
     Collects, Listed, Nothing, Passes, Ended, Sweeps, Walks, Reads, Late
<1>18. CASE FirstTopology
  BY <1>18 DEF FirstTopology, Walked, world, Again, Kinds, Held, FdOK, WalkOK,
     CollectsOK, Collects, Listed, Nothing, Passes, Ended, Sweeps, Walks,
     Reads, Late
<1>19. CASE SecondListing
  BY <1>19 DEF SecondListing, Untracked, Here, world, Again, Kinds, Held,
     FdOK, WalkOK, CollectsOK, Collects, Listed, Nothing, Passes, Ended,
     Sweeps, Walks, Reads, Late
<1>20. CASE Rechecked
  BY <1>20 DEF Rechecked, world, Again, Kinds, Held, FdOK, WalkOK, CollectsOK,
     Collects, Listed, Nothing, Passes, Ended, Sweeps, Walks, Reads, Late
<1>21. CASE ThirdListing
  BY <1>21 DEF ThirdListing, Untracked, world, Again, Kinds, Held, FdOK,
     WalkOK, CollectsOK, Collects, Listed, Nothing, Passes, Ended, Sweeps,
     Walks, Reads, Late
<1>22. CASE Finish
  BY <1>22 DEF Finish, Walked, world, Again, Kinds, Held, FdOK, WalkOK,
     CollectsOK, Collects, Listed, Nothing, Passes, Ended, Sweeps, Walks,
     Reads, Late
<1>23. CASE UNCHANGED vars
  BY <1>23 DEF vars, world, scan, Again, Kinds, Held, FdOK, WalkOK,
     CollectsOK, Collects, Listed, Nothing, Passes, Ended, Sweeps, Walks,
     Reads, Late
<1> QED
  BY <1>1, <1>2, <1>3, <1>4, <1>5, <1>6, <1>7, <1>8, <1>9, <1>10, <1>11,
     <1>12, <1>13, <1>14, <1>15, <1>16, <1>17, <1>18, <1>19, <1>20, <1>21,
     <1>22, <1>23 DEF Next, Edit, WalkStep, FileStep, SweepStep, SnapshotStep

\* A read pass reads what was listed.
LEMMA RereadsStep ==
  ASSUME Rereads, Held, WalkOK, [Next]_vars
  PROVE  Rereads'
<1>1. ASSUME NEW p \in Paths, NEW b \in Bodies, Write(p, b), UNCHANGED scan PROVE Rereads'
  BY <1>1 DEF Write, Touch, world, scan, Rereads, Held, Listed, Passes, Ended,
     Sweeps, Walks, Reads, Late
<1>2. ASSUME NEW p \in Paths, NEW b \in Bodies, Create(p, b), UNCHANGED scan PROVE Rereads'
  BY <1>2 DEF Create, Touch, world, scan, Rereads, Held, Listed, Passes,
     Ended, Sweeps, Walks, Reads, Late
<1>3. ASSUME NEW p \in Paths, Delete(p), UNCHANGED scan PROVE Rereads'
  BY <1>3 DEF Delete, Touch, world, scan, Rereads, Held, Listed, Passes,
     Ended, Sweeps, Walks, Reads, Late
<1>4. ASSUME NEW p \in Paths, Stage(p), UNCHANGED scan PROVE Rereads'
  BY <1>4 DEF Stage, world, scan, Rereads, Held, Listed, Passes, Ended,
     Sweeps, Walks, Reads, Late
<1>5. ASSUME NEW d \in Dirs, BindDir(d) PROVE Rereads'
  BY <1>5 DEF BindDir, world, Rereads, Held, Listed, Passes, Ended, Sweeps,
     Walks, Reads, Late
<1>6. ASSUME NEW d \in Dirs, ListDir(d) PROVE Rereads'
  BY <1>6 DEF ListDir, world, Rereads, Held, Listed, Passes, Ended, Sweeps,
     Walks, Reads, Late
<1>7. ASSUME NEW d \in Dirs, CloseDir(d) PROVE Rereads'
  BY <1>7 DEF CloseDir, Refuse, world, Rereads, Held, Listed, Passes, Ended,
     Sweeps, Walks, Reads, Late
<1>8. ASSUME NEW p \in Paths, StatKind(p) PROVE Rereads'
  BY <1>8 DEF StatKind, Refuse, world, Rereads, Held, Listed, Passes, Ended,
     Sweeps, Walks, Reads, Late
<1>9. ASSUME NEW p \in Paths, StatFile(p) PROVE Rereads'
  BY <1>9 DEF StatFile, world, Rereads, Held, Listed, Passes, Ended, Sweeps,
     Walks, Reads, Late
<1>10. ASSUME NEW p \in Paths, StatMissing(p) PROVE Rereads'
  BY <1>10 DEF StatMissing, Refuse, MayBeMissing, world, Rereads, Held,
     Listed, Passes, Ended, Sweeps, Walks, Reads, Late
<1>11. CASE ReadFile
  BY <1>11 DEF ReadFile, Refuse, world, Rereads, Held, Listed, Passes, Ended,
     Sweeps, Walks, Reads, Late
<1>12. CASE CheckFile
  BY <1>12 DEF CheckFile, Refuse, AsBefore, world, Rereads, Held, Listed,
     Passes, Ended, Sweeps, Walks, Reads, Late
<1>13. CASE SecondSweep
  BY <1>13 DEF SecondSweep, Walked, Here, world, Rereads, Held, Listed,
     Passes, Ended, Sweeps, Walks, Reads, Late
<1>14. CASE Compare
  BY <1>14 DEF Compare, Walked, SweepsAgree, world, Rereads, Held, Listed,
     Passes, Ended, Sweeps, Walks, Reads, Late
<1>15. CASE ListIndex
  BY <1>15 DEF ListIndex, Listings, world, Rereads, Held, Listed, Passes,
     Ended, Sweeps, Walks, Reads, Late
<1>16. CASE FirstListing
  BY <1>16 DEF FirstListing, Untracked, world, Rereads, Held, Listed, Passes,
     Ended, Sweeps, Walks, Reads, Late
<1>17. CASE Observed
  BY <1>17 DEF Observed, world, Rereads, Held, Listed, Passes, Ended, Sweeps,
     Walks, Reads, Late
<1>18. CASE FirstTopology
  BY <1>18 DEF FirstTopology, Walked, world, Rereads, Held, Listed, Passes,
     Ended, Sweeps, Walks, Reads, Late
<1>19. CASE SecondListing
  BY <1>19 DEF SecondListing, Untracked, Here, world, Rereads, Held, Listed,
     Passes, Ended, Sweeps, Walks, Reads, Late
<1>20. CASE Rechecked
  BY <1>20 DEF Rechecked, world, Rereads, Held, Listed, Passes, Ended, Sweeps,
     Walks, Reads, Late
<1>21. CASE ThirdListing
  BY <1>21 DEF ThirdListing, Untracked, world, Rereads, Held, Listed, Passes,
     Ended, Sweeps, Walks, Reads, Late
<1>22. CASE Finish
  BY <1>22 DEF Finish, Walked, world, Rereads, Held, Listed, Passes, Ended,
     Sweeps, Walks, Reads, Late
<1>23. CASE UNCHANGED vars
  BY <1>23 DEF vars, world, scan, Rereads, Held, Listed, Passes, Ended,
     Sweeps, Walks, Reads, Late
<1> QED
  BY <1>1, <1>2, <1>3, <1>4, <1>5, <1>6, <1>7, <1>8, <1>9, <1>10, <1>11,
     <1>12, <1>13, <1>14, <1>15, <1>16, <1>17, <1>18, <1>19, <1>20, <1>21,
     <1>22, <1>23 DEF Next, Edit, WalkStep, FileStep, SweepStep, SnapshotStep

-----------------------------------------------------------------------------
IInv ==
  /\ Types /\ Kinds /\ Stamps /\ Files /\ Held /\ Names /\ Walk
  /\ MidFiles /\ MidHeld /\ MidDirs
  /\ Heard /\ Missing /\ MidListed /\ Again /\ Rereads
  /\ Verdict

\* Nothing refuses while nothing is edited: the steps that can refuse.
LEMMA QuietAccepts ==
  ASSUME IInv, [Next]_vars, clock = 1, pc # "refused"
  PROVE  pc' # "refused"
<1> USE DEF IInv, Types
<1>1. /\ \A p \in Paths : fs[p] = 1
      /\ \A d \in Dirs : ds[d] = 1
      /\ ix = 1
  BY DEF Stamps, WorldOK
<1>2. pc \in Walks => \A p \in todo : tree[p] # Absent
  <2>1. ASSUME pc \in Walks, NEW p \in todo PROVE tree[p] # Absent
    <3>1. p \in Paths /\ DirOf(p) \in Dirs /\ p \in In(DirOf(p)) /\ p \in now.names
      BY <2>1, Placed DEF Walk, WalkOK
    <3>2. dir[DirOf(p)] \in {"listed", "closed"}
      BY <3>1 DEF Names, WalkOK
    <3>3. now.bind[DirOf(p)] = ds[DirOf(p)]
      BY <1>1, <3>1, <3>2 DEF Names, CollectsOK, Collects
    <3> QED
      BY <3>1, <3>2, <3>3 DEF Names
  <2> QED
    BY <2>1
<1>3. pc \in Late => \A p \in Paths : mid.fs[p] = 1 /\ mid.tree[p] = tree[p]
  BY <1>1 DEF MidFiles, MidOK
<1>4. pc \in Late => \A d \in Dirs : mid.ds[d] = 1 /\ was.bind[d] = 1
  BY <1>1 DEF MidDirs, MidOK, CollectsOK, Collects
<1>5. \A p \in Paths : now.seen[p] \in {0, 1} /\ (now.seen[p] = 1 => tree[p] # Absent)
  BY <1>1 DEF Files, CollectsOK, Collects
<1>6. pc \in Late => \A p \in Paths : /\ was.seen[p] \in {0, 1}
                                      /\ was.seen[p] = 1 => tree[p] # Absent
  BY <1>3 DEF MidFiles, CollectsOK, Collects
<1>7. ASSUME NEW p \in Paths, NEW b \in Bodies, Write(p, b), UNCHANGED scan
      PROVE  pc' # "refused"
  BY <1>7 DEF scan
<1>8. ASSUME NEW p \in Paths, NEW b \in Bodies, Create(p, b), UNCHANGED scan
      PROVE  pc' # "refused"
  BY <1>8 DEF scan
<1>9. ASSUME NEW p \in Paths, Delete(p) \/ Stage(p), UNCHANGED scan
      PROVE  pc' # "refused"
  BY <1>9 DEF scan
<1>10. ASSUME NEW d \in Dirs, BindDir(d) \/ ListDir(d) PROVE pc' # "refused"
  BY <1>10 DEF BindDir, ListDir
<1>11. ASSUME NEW d \in Dirs, CloseDir(d) PROVE pc' # "refused"
  <2>1. dir[d] = "listed"
    BY <1>11 DEF CloseDir
  <2>2. now.bind[d] \in Nat /\ 1 <= now.bind[d] /\ now.bind[d] <= ds[d]
    BY <2>1 DEF Names, CollectsOK, Collects
  <2>3. ds[d] = now.bind[d]
    BY <1>1, <2>2
  <2> QED
    BY <1>11, <2>3 DEF CloseDir
<1>12. ASSUME NEW p \in Paths, StatKind(p) PROVE pc' # "refused"
  BY <1>2, <1>12 DEF StatKind
<1>13. ASSUME NEW p \in Paths, StatFile(p) PROVE pc' # "refused"
  BY <1>13 DEF StatFile
<1>14. ASSUME NEW p \in Paths, StatMissing(p) PROVE pc' # "refused"
  <2>1. p \in todo /\ tree[p] = Absent
    BY <1>14 DEF StatMissing, MayBeMissing
  <2>2. pc \notin Sweeps
    BY <1>2, <2>1 DEF Walks
  <2>3. pc = "recheck" => was.seen[p] = 0
    BY <1>6, <2>1 DEF Late
  <2> QED
    BY <1>14, <2>2, <2>3 DEF StatMissing, MayBeMissing, Sweeps, Reads
<1>15. CASE ReadFile
  <2>1. fd.step = "stat" /\ fd.stamp \in Nat /\ fd.path \in Paths
    BY <1>15 DEF ReadFile, Held, FdOK, WalkOK
  <2>2. tree[fd.path] # Absent
    BY <1>1, <2>1 DEF Held
  <2> QED
    BY <1>15, <2>2 DEF ReadFile
<1>16. CASE CheckFile
  <2>1. /\ fd.step # "none" /\ fd.stamp \in Nat /\ fd.path \in Paths /\ fd.path \in todo
        /\ pc \notin Ended
        /\ kind # "names" => fd.step = "read"
    BY <1>16 DEF CheckFile, Held, FdOK, WalkOK
  <2>2. fd.stamp = 1 /\ fs[fd.path] = fd.stamp /\ tree[fd.path] # Absent
    BY <1>1, <2>1 DEF Held
  <2>3. CASE pc # "recheck"
    BY <1>16, <2>2, <2>3 DEF CheckFile, AsBefore
  <2>4. CASE pc = "recheck"
    <3>1. kind = "snapshot" /\ pc \in Late /\ fd.step = "read"
      BY <1>16, <2>4 DEF Kinds, Passes, Sweeps, Late, CheckFile
    <3>2. fd.body = tree[fd.path]
      BY <2>1, <2>2, <3>1 DEF Held
    <3>3. fd.path \in Listed
      BY <2>1, <2>4 DEF Rereads, Reads
    <3>4. was.seen[fd.path] # 0
      BY <1>3, <1>4, <2>1, <2>2, <3>1, <3>3, Placed DEF MidListed
    <3>5. was.seen[fd.path] = 1 /\ was.got[fd.path] = tree[fd.path]
      BY <1>3, <1>6, <2>1, <3>1, <3>4 DEF MidFiles
    <3> QED
      BY <1>16, <2>2, <3>2, <3>5 DEF CheckFile, AsBefore
  <2> QED
    BY <2>3, <2>4
<1>17. CASE SecondSweep
  BY <1>17 DEF SecondSweep
<1>18. CASE Compare
  <2>1. pc = "sweep2" /\ dir["root"] = "closed" /\ kind # "snapshot" /\ pc \in Late
    BY <1>18 DEF Compare, Walked, Kinds, Sweeps, Late
  <2>2. dir["sub"] = "closed" /\ todo \cap In("root") = {} /\ todo \cap In("sub") = {}
    BY <2>1 DEF Walk, Dirs, Walks, Sweeps
  <2>3. todo = {}
    BY <2>2, Placed DEF WalkOK, Dirs
  <2>4. \A d \in Dirs : now.bind[d] = 1 /\ was.bind[d] = 1
    BY <1>1, <1>4, <2>1, <2>2 DEF Names, Dirs, CollectsOK, Collects
  <2>5. \A p \in Paths : p \in now.names <=> tree[p] # Absent
    BY <1>1, <2>1, <2>2, <2>4, Placed DEF Names, Dirs
  <2>6. \A p \in Paths : p \in was.names <=> tree[p] # Absent
    BY <1>3, <1>4, <2>1, Placed DEF MidDirs
  <2>7. \A p \in Paths : now.seen[p] = was.seen[p]
    BY <1>5, <1>6, <2>1, <2>3, <2>5, <2>6 DEF Walk, MidFiles
  <2>8. \A p \in Paths : now.got[p] = was.got[p]
    BY <1>1, <1>3, <1>5, <2>1, <2>7 DEF Files, MidFiles
  <2>9. /\ now = [names |-> now.names, bind |-> now.bind, seen |-> now.seen, got |-> now.got]
        /\ was = [names |-> was.names, bind |-> was.bind, seen |-> was.seen, got |-> was.got]
    BY DEF CollectsOK, Collects
  <2>10. now.names = was.names /\ now.bind = was.bind
    <3>1. now.names = was.names
      BY <2>5, <2>6 DEF CollectsOK, Collects
    <3>2. now.bind = was.bind
      BY <2>4 DEF CollectsOK, Collects
    <3> QED
      BY <3>1, <3>2
  <2>11. now.seen = was.seen /\ now.got = was.got
    BY <2>7, <2>8 DEF CollectsOK, Collects
  <2>12. now = was
    BY <2>9, <2>10, <2>11
  <2>13. ds["root"] = start.root
    BY <1>1 DEF Stamps, Dirs
  <2> QED
    BY <1>18, <2>12, <2>13 DEF Compare, SweepsAgree
<1>19. CASE ListIndex
  BY <1>19 DEF ListIndex, Listings
<1>20. CASE FirstListing \/ Observed \/ FirstTopology \/ Rechecked
  BY <1>20 DEF FirstListing, Observed, FirstTopology, Rechecked
<1>21. CASE SecondListing
  <2>1. /\ pc = "others2" /\ kind = "snapshot"
        /\ heard' = [heard EXCEPT !.others = Untracked]
    BY <1>21 DEF SecondListing, Kinds, Passes, Sweeps
  <2>2. heard' = listing
    BY <1>1, <2>1 DEF Heard, GitOK, Untracked
  <2> QED
    BY <1>1, <1>21, <2>2 DEF SecondListing, Stamps
<1>22. CASE ThirdListing
  <2>1. /\ pc = "others3" /\ kind = "snapshot"
        /\ heard' = [heard EXCEPT !.others = Untracked]
    BY <1>22 DEF ThirdListing, Kinds, Passes, Sweeps
  <2>2. heard' = listing
    BY <1>1, <2>1 DEF Heard, GitOK, Untracked
  <2> QED
    BY <1>1, <1>22, <2>2 DEF ThirdListing, Stamps
<1>23. CASE Finish
  <2>1. pc = "dirs2" /\ dir["root"] = "closed" /\ dir["sub"] = "closed" /\ pc \in Late
    BY <1>23 DEF Finish, Walked, Walk, Late
  <2>2. \A d \in Dirs : now.bind[d] = 1
    BY <1>1, <2>1 DEF Names, Dirs, CollectsOK, Collects
  <2>3. \A p \in Paths : p \in now.names <=> tree[p] # Absent
    BY <1>1, <2>1, <2>2, Placed DEF Names, Dirs
  <2>4. \A p \in Paths : p \in was.names <=> tree[p] # Absent
    BY <1>3, <1>4, <2>1, Placed DEF MidDirs
  <2>5. now.names = was.names
    BY <2>3, <2>4 DEF CollectsOK, Collects
  <2>6. ds["root"] = start.root /\ ix = start.ix
    BY <1>1 DEF Stamps, Dirs
  <2> QED
    BY <1>23, <2>5, <2>6 DEF Finish
<1>24. CASE UNCHANGED vars
  BY <1>24 DEF vars, scan
<1> QED
  BY <1>7, <1>8, <1>9, <1>10, <1>11, <1>12, <1>13, <1>14, <1>15, <1>16, <1>17,
     <1>18, <1>19, <1>20, <1>21, <1>22, <1>23, <1>24
     DEF Next, Edit, WalkStep, FileStep, SweepStep, SnapshotStep

\* A refusal is remembered, and the scan is accepted where it compares.
LEMMA VerdictStep ==
  ASSUME IInv, [Next]_vars
  PROVE  Verdict'
<1>1. clock' >= clock /\ (pc \in Ended => pc' = pc /\ UNCHANGED <<kind, now, was, ds, clock>>)
  BY DEF Next, Edit, WalkStep, FileStep, SweepStep, SnapshotStep, vars, world, scan, Ended,
     IInv, Types, WorldOK, Write, Create, Delete, Stage, Touch, BindDir, ListDir, CloseDir,
     StatKind, StatFile, StatMissing, ReadFile, CheckFile, SecondSweep, Compare, ListIndex,
     FirstListing, Observed, FirstTopology, SecondListing, Rechecked, ThirdListing, Finish,
     Walks, Sweeps, Reads, Listings, Walked
<1>2. pc' = "accepted" =>
        /\ kind' # "snapshot" => now' = was'
        /\ kind' = "snapshot" => ds'["root"] = 1
  <2>1. CASE pc \in Ended
    BY <1>1, <2>1 DEF IInv, Verdict
  <2>2. CASE Compare
    BY <2>2 DEF Compare, SweepsAgree, IInv, Kinds, Sweeps
  <2>3. CASE Finish
    BY <2>3 DEF Finish, IInv, Kinds, Passes, Sweeps, Stamps, world
  <2>4. CASE pc \notin Ended /\ ~Compare /\ ~Finish
    <3>1. pc' # "accepted"
      BY <2>4 DEF Next, Edit, WalkStep, FileStep, SweepStep, SnapshotStep, vars, world, scan,
         Ended, BindDir, ListDir, CloseDir, StatKind, StatFile, StatMissing, ReadFile,
         CheckFile, SecondSweep, ListIndex, FirstListing, Observed, FirstTopology,
         SecondListing, Rechecked, ThirdListing, Refuse, Listings
    <3> QED
      BY <3>1
  <2> QED
    BY <2>1, <2>2, <2>3, <2>4
<1>3. pc' = "refused" => clock' > 1
  <2>1. clock \in Nat /\ clock' \in Nat
    BY WorldTypes DEF IInv, Types, WorldOK
  <2>2. CASE clock = 1 /\ pc # "refused"
    BY <2>2, QuietAccepts
  <2>3. CASE clock # 1 /\ pc # "refused"
    <3>1. clock >= 1
      BY <2>1 DEF IInv, Types, WorldOK, Stamps
    <3> QED
      BY <1>1, <2>1, <2>3, <3>1
  <2>4. CASE pc = "refused"
    BY <1>1, <2>1, <2>4 DEF IInv, Verdict
  <2> QED
    BY <2>2, <2>3, <2>4
<1> QED
  BY <1>2, <1>3 DEF Verdict

\* The invariant holds at the start.
LEMMA InitIInv == Init => IInv
<1> SUFFICES ASSUME Init PROVE IInv
  OBVIOUS
<1>1. Types
  BY DEF Init, Types, WorldOK, WalkOK, FdOK, CollectsOK, GitOK, MidOK, Collects, Nothing,
     NoFile, NotWalked, Passes, Ended, Dirs
<1>2. Kinds /\ Stamps /\ Held /\ Verdict
  BY DEF Init, Kinds, Stamps, Held, Verdict, NoFile, Passes, Sweeps, Dirs
<1>3. Files /\ Names /\ Walk
  BY DEF Init, Files, Names, Walk, Nothing, NotWalked, Walks, Sweeps, Dirs
<1>4. MidFiles /\ MidHeld /\ MidDirs /\ Heard /\ Missing /\ MidListed /\ Again /\ Rereads
  BY DEF Init, Rereads, MidFiles, MidHeld, MidDirs, Heard, Missing, MidListed, Again, Late
<1> QED
  BY <1>1, <1>2, <1>3, <1>4 DEF IInv

\* Every step keeps the invariant.
LEMMA NextIInv == IInv /\ [Next]_vars => IInv'
<1> SUFFICES ASSUME IInv, [Next]_vars PROVE IInv'
  OBVIOUS
<1>1. Types'
  BY WorldTypes, WalkTypes, FdTypes, CollectTypes, GitTypes, MidTypes DEF IInv, Types
<1>2. Kinds' /\ Stamps' /\ Files' /\ Held'
  BY KindsStep, StampsStep, FilesStep, HeldStep DEF IInv, Types
<1>3. Names' /\ Walk' /\ MidFiles' /\ MidHeld' /\ MidDirs'
  BY NamesStep, WalkStepKept, MidFilesStep, MidHeldStep, MidDirsStep DEF IInv, Types
<1>4. Heard' /\ Missing' /\ MidListed' /\ Again' /\ Rereads'
  BY RereadsStep, HeardStep, MissingStep, MidListedStep, AgainStep DEF IInv, Types
<1> QED
  BY <1>1, <1>2, <1>3, <1>4, VerdictStep DEF IInv

\* The invariant holds in every state.
LEMMA Invariant == Spec => []IInv
<1>1. Init => IInv
  BY InitIInv
<1>2. IInv /\ [Next]_vars => IInv'
  BY NextIInv
<1> QED
  BY <1>1, <1>2, PTL DEF Spec

-----------------------------------------------------------------------------
\* The state stays within its types, for every set of files and edits.
THEOREM TypeCorrect == Spec => []TypeOK
<1>1. IInv => TypeOK
  BY TypeParts DEF IInv
<1> QED
  BY <1>1, Invariant, PTL

\* A sweep that is accepted read one state of the worktree: for every set of
\* files, and however often the owner edits them meanwhile.
THEOREM SweepsAreAtomic == Spec => []SweepAtomic
<1>1. IInv => SweepAtomic
  <2> SUFFICES ASSUME IInv, pc = "accepted", kind # "snapshot"
               PROVE  /\ was.names = Present(mid.tree)
                      /\ kind = "whole" => \A p \in was.names : was.got[p] = mid.tree[p]
    BY DEF SweepAtomic
  <2>1. pc \in Late /\ now = was /\ dir["root"] = "closed" /\ dir["sub"] = "closed"
    BY DEF IInv, Late, Verdict, Walk
  <2>2. \A d \in Dirs : was.bind[d] = mid.ds[d]
    BY <2>1 DEF IInv, Types, MidDirs, CollectsOK, Collects, MidOK, Dirs
  <2>3. \A p \in Paths : p \in was.names <=> mid.tree[p] # Absent
    BY <2>1, <2>2, Placed DEF IInv, MidDirs
  <2>4. was.names = Present(mid.tree)
    BY <2>3 DEF IInv, Types, CollectsOK, Collects, Present
  <2>5. ASSUME kind = "whole", NEW p \in was.names PROVE was.got[p] = mid.tree[p]
    <3>1. p \in Paths /\ was.seen[p] # 0
      BY <2>1 DEF IInv, Types, CollectsOK, Collects, MidFiles
    <3>2. was.seen[p] = mid.fs[p]
      BY <2>1, <3>1 DEF IInv, Types, CollectsOK, Collects, MidFiles, MidOK
    <3> QED
      BY <2>1, <2>5, <3>1, <3>2 DEF IInv, MidFiles
  <2> QED
    BY <2>4, <2>5
<1> QED
  BY <1>1, Invariant, PTL

\* A snapshot that is accepted is the worktree at its second listing.
THEOREM SnapshotsAreAtomic == Spec => []SnapshotAtomic
<1>1. IInv => SnapshotAtomic
  <2> SUFFICES ASSUME IInv, pc = "accepted", kind = "snapshot"
               PROVE  SnapshotAtomic
    BY DEF SnapshotAtomic
  <2>1. pc \in Late
    BY DEF Late
  <2>2. listing.tracked = mid.tracked /\ listing.others = Present(mid.tree) \ mid.tracked
    BY <2>1 DEF IInv, MidListed
  <2>3. ASSUME NEW p \in Listed, was.seen[p] # 0 PROVE was.got[p] = mid.tree[p]
    <3>1. p \in Paths /\ now.seen[p] = was.seen[p]
      BY <2>3 DEF IInv, Types, Again, Listed, GitOK
    <3>2. was.seen[p] = mid.fs[p]
      BY <2>1, <2>3, <3>1 DEF IInv, Types, CollectsOK, Collects, MidFiles, MidOK
    <3> QED
      BY <2>1, <3>1, <3>2 DEF IInv, MidFiles
  <2>4. mid.ds["root"] = 1 /\ was.bind["root"] = 1
    BY <2>1 DEF IInv, Types, Verdict, MidDirs, MidOK, CollectsOK, Collects, Dirs, WorldOK
  <2>5. ASSUME NEW p \in Top
        PROVE  /\ p \in Listed /\ was.seen[p] = 0 => mid.tree[p] = Absent
               /\ p \in was.names <=> mid.tree[p] # Absent
    <3>1. DirOf(p) = "root" /\ p \in In("root") /\ p \in Paths
      BY DEF DirOf, In, Paths
    <3>2. p \in Listed /\ was.seen[p] = 0 => mid.tree[p] = Absent
      BY <2>1, <2>4, <3>1 DEF IInv, MidListed
    <3>3. p \in was.names <=> mid.tree[p] # Absent
      BY <2>1, <2>4, <3>1 DEF IInv, MidDirs, Dirs
    <3> QED
      BY <3>2, <3>3
  <2> QED
    BY <2>2, <2>3, <2>5 DEF SnapshotAtomic
<1> QED
  BY <1>1, Invariant, PTL

\* A worktree at rest is never refused.
THEOREM QuietIsAccepted == Spec => []RefusedOnlyIfEdited
<1>1. IInv => RefusedOnlyIfEdited
  BY DEF IInv, Verdict, RefusedOnlyIfEdited
<1> QED
  BY <1>1, Invariant, PTL

\* Whatever a scan accepts is one state of the worktree.
THEOREM ScansAreAtomic == Spec => []ScanAtomic
BY SweepsAreAtomic, SnapshotsAreAtomic, PTL DEF ScanAtomic
=============================================================================
