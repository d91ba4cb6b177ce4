--------------------------- MODULE CleanupRun_proofs ---------------------------
(***************************************************************************)
(* The safety of cleanup-run for any checkpoints, steps, options, bounds    *)
(* and number of operators that clean one run at the same time.             *)
(*                                                                          *)
(* What an invocation seals at its end is decided by what it verified       *)
(* before its first deletion, so HonestInv follows that knowledge over the  *)
(* locations in between: first it is about what is not to be deleted, then  *)
(* about everything on disk, then about the hashes in memory.  It lasts     *)
(* because a cleanup, also somebody else's, only ever removes files.        *)
(* RecoverInv keeps what the export needs, AloneInv follows an operator     *)
(* that has the run for itself up to the index it publishes, KeepInv the    *)
(* report an invocation plans from and what its plan spares, LinkInv how    *)
(* rmtree can have come behind a link or a mount.                           *)
(***************************************************************************)
EXTENDS CleanupRun, FiniteSetTheorems, TLAPS

Locations == {"idle", "list", "planned", "delete", "rmtree", "unlink", "mounted", "hash", "publish"}

\* Whatever an entry is at the start, and what it may become.
Kinds == (UNION {UNION {s.kinds[n] : n \in Names} : s \in Settings})
           \cup {"none", "symlink", "mount"}

TypeInv ==
  /\ setting \in Settings
  /\ kind \in [Names -> Kinds]
  /\ files \in [Path -> Content]
  /\ index \in Index \cup {NoIndex}
  /\ pc \in [Cleaners -> Locations]
  /\ plan \in [Cleaners -> SUBSET Names]
  /\ todo \in [Cleaners -> SUBSET Names]
  /\ doomed \in [Cleaners -> Names \cup {Root}]
  /\ sealed \in [Cleaners -> Provenance]
  /\ listing \in [Cleaners -> [Path -> Content]]
  /\ removed \in [Cleaners -> SUBSET Names]
  /\ failed \in [Cleaners -> SUBSET (Names \cup {Root})]
  /\ forced \in BOOLEAN
  /\ late \subseteq Cleaners

Deleting == {"delete"} \cup Removing
Working == Deleting \cup {"hash", "publish"}

\* Every entry of a plan is somewhere: still to do, being deleted, gone, or
\* in the report as a failure.
\* The knowledge of one invocation.
PlanHolds(c) ==
  /\ pc[c] \in {"list", "planned"} => removed[c] = {} /\ failed[c] = {}
  /\ pc[c] \in Working => sealed[c] = SealedProvenance
  /\ pc[c] \in Deleting =>
       /\ removed[c] \cup failed[c] \cup todo[c] \subseteq plan[c]
       /\ plan[c] \subseteq removed[c] \cup failed[c] \cup todo[c]
                            \cup (IF pc[c] \in Removing THEN {doomed[c]} ELSE {})
       /\ \A n \in removed[c] : kind[n] = "none"
  /\ pc[c] \in Removing => doomed[c] \in plan[c]
  /\ pc[c] \in {"hash", "publish"} => index # NoIndex

PlanInv == \A c \in Cleaners : PlanHolds(c)

Honest(entries) == \A p \in Path : entries[p] \in {"absent", sealedAt[p]}
HonestOutside(S) == \A p \in Path : p[1] \notin S => OnDisk[p] \in {"absent", sealedAt[p]}

\* What the invocation c may rely on, once it has read sealed provenance.
Relies(c) ==
  sealed[c] = "sealed" =>
    /\ pc[c] \in Deleting /\ plan[c] # {} => HonestOutside(plan[c])
    /\ pc[c] \in {"hash", "publish"} => HonestOutside({})
    /\ pc[c] = "publish" => Honest(listing[c])

HonestInv ==
  ~setting.concurrent =>
    /\ HasProvenance => Honest(index.entries)
    /\ \A c \in Cleaners : Relies(c)

-----------------------------------------------------------------------------
(* Paths and what is on disk *)

LEMMA Paths ==
  /\ \A p \in Path : p[1] \in Names \cup {Root}
  /\ \A n \in Names, part \in Parts : <<n, part>> \in Path /\ <<n, part>>[1] = n
  /\ <<Root, "adapter">> \in Path /\ <<Root, "adapter">>[1] = Root
BY DEF Path

LEMMA OnDiskType ==
  ASSUME files \in [Path -> Content]
  PROVE  OnDisk \in [Path -> Content]
BY DEF OnDisk, Content

\* Files go and entries go; nothing comes.
Shrinks ==
  /\ \A p \in Path : files'[p] \in {files[p], "absent"}
  /\ \A n \in Names : kind'[n] \in {kind[n], "none"}

LEMMA OnDiskShrinks ==
  ASSUME Shrinks, NEW p \in Path
  PROVE  OnDisk'[p] \in {OnDisk[p], "absent"}
BY Paths, RootAssumption DEF Shrinks, OnDisk, Walked

LEMMA HonestStays ==
  ASSUME Shrinks, NEW S, HonestOutside(S), sealedAt' = sealedAt
  PROVE  HonestOutside(S)'
<1> SUFFICES ASSUME NEW p \in Path, p[1] \notin S
             PROVE  OnDisk'[p] \in {"absent", sealedAt'[p]}
  BY DEF HonestOutside
<1> QED
  BY OnDiskShrinks DEF HonestOutside

\* A removed entry has nothing left that a walk would find.
LEMMA NothingBelowNone ==
  ASSUME NEW p \in Path, p[1] \in Names, kind[p[1]] = "none"
  PROVE  OnDisk[p] = "absent"
BY DEF OnDisk, Walked

\* What _verify_surviving_entries accepts is what the producer sealed, as far
\* as the index it compares with is honest.
LEMMA VerifiedIsHonest ==
  ASSUME NEW S, Verified(S), Honest(index.entries), files \in [Path -> Content]
  PROVE  HonestOutside(S)
<1> SUFFICES ASSUME NEW p \in Path, p[1] \notin S, OnDisk[p] # "absent"
             PROVE  OnDisk[p] = sealedAt[p]
  BY DEF HonestOutside
<1>1. index.entries[p] # "absent"
  BY DEF Verified
<1>2. files[p] = index.entries[p] \/ files[p] = "absent"
  BY <1>1 DEF Verified
<1>3. OnDisk[p] = files[p]
  BY DEF OnDisk
<1> QED
  BY <1>1, <1>2, <1>3 DEF Honest

-----------------------------------------------------------------------------
(* Types *)

LEMMA InitType ==
  Init => TypeInv
<1> SUFFICES ASSUME Init PROVE TypeInv
  OBVIOUS
<1>1. kind \in [Names -> Kinds]
  <2>1. setting \in Settings
    BY DEF Init
  <2>2. UNION {setting.kinds[n] : n \in Names} \subseteq Kinds
    BY <2>1 DEF Kinds
  <2> QED
    BY <2>2 DEF Init
<1>2. files \in [Path -> Content]
  BY DEF Init, Content
<1>3. index \in Index \cup {NoIndex}
  BY <1>2, OnDiskType DEF Init, Index
<1>4. NoFiles \in [Path -> Content]
  BY DEF NoFiles, Content
<1> QED
  BY <1>1, <1>2, <1>3, <1>4 DEF Init, TypeInv, Locations, Provenance

LEMMA CleanupType ==
  ASSUME TypeInv, PlanInv, NEW c \in Cleaners, Report(c) \/ Cleanup(c) \/ Crash(c)
  PROVE  TypeInv'
<1> USE DEF TypeInv, disk, memory, history, Goto, Locations, Removing
<1>0. SealedProvenance \in Provenance
  BY DEF SealedProvenance, Provenance
<1>1. CASE Report(c)
  BY <1>1 DEF Report
<1>2. CASE MakePlan(c)
  BY <1>2 DEF MakePlan
<1>3. CASE DryRun(c)
  BY <1>3 DEF DryRun
<1>4. CASE VerifyBeforeDelete(c)
  BY <1>4, <1>0 DEF VerifyBeforeDelete
<1>5. CASE TakeEntry(c)
  <2>1. PICK n \in Names :
           /\ todo' = [todo EXCEPT ![c] = @ \ {n}]
           /\ \/ /\ failed' = [failed EXCEPT ![c] = @ \cup {n}]
                 /\ UNCHANGED <<doomed, pc>>
              \/ /\ doomed' = [doomed EXCEPT ![c] = n]
                 /\ pc' = [pc EXCEPT ![c] = "rmtree"]
                 /\ UNCHANGED failed
    BY <1>5 DEF TakeEntry
  <2>2. UNCHANGED <<disk, plan, sealed, listing, removed, history>>
    BY <1>5 DEF TakeEntry
  <2>3. todo' \in [Cleaners -> SUBSET Names]
    <3>1. todo[c] \ {n} \in SUBSET Names
      OBVIOUS
    <3> QED
      BY <2>1, <3>1
  <2>4. failed' \in [Cleaners -> SUBSET (Names \cup {Root})]
    <3>1. failed[c] \cup {n} \in SUBSET (Names \cup {Root})
      OBVIOUS
    <3>2. CASE failed' = [failed EXCEPT ![c] = failed[c] \cup {n}]
      BY <3>1, <3>2
    <3> QED
      BY <2>1, <3>2
  <2>5. pc' \in [Cleaners -> Locations] /\ doomed' \in [Cleaners -> Names \cup {Root}]
    BY <2>1
  <2> QED
    BY <2>2, <2>3, <2>4, <2>5
<1>6. CASE UnlinkFile(c)
  BY <1>6 DEF UnlinkFile, Content, Below
<1>7. CASE RemoveDir(c)
  <2>1. doomed[c] \in Names
    BY <1>7 DEF RemoveDir, PlanInv, PlanHolds, Removing
  <2> QED
    BY <1>7, <2>1 DEF RemoveDir, Kinds
<1>8. CASE RmtreeFails(c)
  BY <1>8 DEF RmtreeFails
<1>9. CASE Reseal(c)
  <2>1. /\ \E location \in {"idle", "hash"} : pc' = [pc EXCEPT ![c] = location]
        /\ \/ failed' = [failed EXCEPT ![c] = @ \cup {Root}]
           \/ UNCHANGED failed
    BY <1>9 DEF Reseal
  <2>2. UNCHANGED <<disk, plan, todo, doomed, sealed, listing, removed, history>>
    BY <1>9 DEF Reseal
  <2> QED
    BY <2>1, <2>2, SMTT(20)
<1>10. CASE HashFiles(c)
  BY <1>10, OnDiskType DEF HashFiles
<1>11. CASE PublishIndex(c)
  BY <1>11 DEF PublishIndex, Index
<1>12. CASE RewriteFails(c)
  BY <1>12 DEF RewriteFails
<1>13. CASE Crash(c)
  BY <1>13 DEF Crash
<1>14. CASE OpenTree(c)
  BY <1>14 DEF OpenTree
<1> QED
  BY <1>1, <1>2, <1>3, <1>4, <1>5, <1>6, <1>7, <1>8, <1>9, <1>10, <1>11, <1>12, <1>13, <1>14 DEF Cleanup

LEMMA EditType ==
  ASSUME TypeInv, Edit
  PROVE  TypeInv'
<1> USE DEF TypeInv, memory, history, MayEdit
<1>1. CASE EditFile
  BY <1>1 DEF EditFile, Content
<1>2. CASE SwapEntry
  BY <1>2 DEF SwapEntry, Kinds, Overtaken
<1>3. CASE MangleIndex
  BY <1>3 DEF MangleIndex, Index
<1> QED
  BY <1>1, <1>2, <1>3 DEF Edit

-----------------------------------------------------------------------------
(* The plan and the provenance *)

LEMMA InitPlan ==
  Init => PlanInv
BY DEF Init, PlanInv, PlanHolds, Working, Deleting, Removing

\* What somebody else does to the disk does not disturb an invocation, as long
\* as entries only vanish and the index keeps its provenance.
LEMMA OthersPlan ==
  ASSUME TypeInv, NEW d \in Cleaners, PlanHolds(d),
         pc'[d] = pc[d], plan'[d] = plan[d], todo'[d] = todo[d], doomed'[d] = doomed[d],
         sealed'[d] = sealed[d], removed'[d] = removed[d], failed'[d] = failed[d],
         SealedProvenance' = SealedProvenance, index # NoIndex => index' # NoIndex,
         \A n \in Names : kind'[n] \in {kind[n], "none"}
  PROVE  PlanHolds(d)'
<1>1. pc[d] \in Removing => doomed[d] \in Names
  BY DEF TypeInv, PlanHolds
<1>2. removed[d] \subseteq Names
  BY DEF TypeInv
<1> QED
  BY <1>1, <1>2 DEF PlanHolds, Working, Deleting

LEMMA EditPlan ==
  ASSUME TypeInv, PlanInv, Edit
  PROVE  PlanInv'
<1> USE DEF memory
<1>1. UNCHANGED <<pc, memory>>
  BY DEF Edit, EditFile, SwapEntry, MangleIndex
<1> SUFFICES ASSUME NEW d \in Cleaners PROVE PlanHolds(d)'
  BY DEF PlanInv
<1>2. PlanHolds(d)
  BY DEF PlanInv
<1>3. CASE EditFile
  <2>1. UNCHANGED <<index, kind>>
    BY <1>3 DEF EditFile
  <2> QED
    BY <1>1, <1>2, <2>1, OthersPlan DEF SealedProvenance, HasProvenance
<1>4. CASE SwapEntry
  \* The entry swapped is a directory: it was not removed.
  <2>1. PICK n \in Names : /\ kind[n] = "dir"
                           /\ \E k \in {"symlink", "mount"} : kind' = [kind EXCEPT ![n] = k]
    BY <1>4 DEF SwapEntry
  <2>2. UNCHANGED index
    BY <1>4 DEF SwapEntry
  <2>3. \A m \in Names : m # n => kind'[m] = kind[m]
    BY <2>1 DEF TypeInv
  <2>4. removed[d] \subseteq Names
    BY DEF TypeInv
  <2>5. SealedProvenance' = SealedProvenance
    BY <2>2 DEF SealedProvenance, HasProvenance
  <2> QED
    BY <1>1, <1>2, <2>1, <2>2, <2>3, <2>4, <2>5 DEF PlanHolds, Working, Deleting
<1>5. CASE MangleIndex
  <2>1. /\ UNCHANGED kind
        /\ index # NoIndex /\ index' = [index EXCEPT !.listed = FALSE]
    BY <1>5 DEF MangleIndex
  <2>2. index' \in Index /\ index'.provenance = index.provenance
    BY <2>1 DEF TypeInv, Index
  <2>3. index' # NoIndex /\ SealedProvenance' = SealedProvenance
    BY <2>1, <2>2, NoIndexAssumption DEF SealedProvenance, HasProvenance
  <2> QED
    BY <1>1, <1>2, <2>1, <2>3, OthersPlan
<1> QED
  BY <1>3, <1>4, <1>5 DEF Edit

\* An invocation works in its own memory.
Alone(c, d) ==
  /\ pc'[d] = pc[d] /\ plan'[d] = plan[d] /\ todo'[d] = todo[d] /\ doomed'[d] = doomed[d]
  /\ sealed'[d] = sealed[d] /\ listing'[d] = listing[d]
  /\ removed'[d] = removed[d] /\ failed'[d] = failed[d]

LEMMA CleanupIsLocal ==
  ASSUME TypeInv, NEW c \in Cleaners, NEW d \in Cleaners, d # c,
         Report(c) \/ Cleanup(c) \/ Crash(c)
  PROVE  Alone(c, d)
<1> USE DEF TypeInv, Alone, memory, Goto
<1>1. CASE Report(c)
  BY <1>1 DEF Report
<1>2. CASE MakePlan(c)
  BY <1>2 DEF MakePlan
<1>3. CASE DryRun(c)
  BY <1>3 DEF DryRun
<1>4. CASE VerifyBeforeDelete(c)
  BY <1>4 DEF VerifyBeforeDelete
<1>5. CASE TakeEntry(c)
  BY <1>5 DEF TakeEntry
<1>6. CASE UnlinkFile(c)
  BY <1>6 DEF UnlinkFile
<1>7. CASE RemoveDir(c)
  BY <1>7 DEF RemoveDir
<1>8. CASE RmtreeFails(c)
  BY <1>8 DEF RmtreeFails
<1>9. CASE Reseal(c)
  BY <1>9 DEF Reseal
<1>10. CASE HashFiles(c)
  BY <1>10 DEF HashFiles
<1>11. CASE PublishIndex(c)
  BY <1>11 DEF PublishIndex
<1>12. CASE RewriteFails(c)
  BY <1>12 DEF RewriteFails
<1>13. CASE Crash(c)
  BY <1>13 DEF Crash
<1>14. CASE OpenTree(c)
  BY <1>14 DEF OpenTree
<1> QED
  BY <1>1, <1>2, <1>3, <1>4, <1>5, <1>6, <1>7, <1>8, <1>9, <1>10, <1>11, <1>12, <1>13, <1>14 DEF Cleanup

\* A cleanup only removes, and its index keeps the provenance of the one before.
LEMMA CleanupOnlyRemoves ==
  ASSUME TypeInv, PlanInv, NEW c \in Cleaners, Report(c) \/ Cleanup(c) \/ Crash(c)
  PROVE  /\ Shrinks
         /\ SealedProvenance' = SealedProvenance
         /\ index # NoIndex => index' # NoIndex
         /\ index' # index => PublishIndex(c)
         /\ UNCHANGED <<setting, sealedAt, merged>>
<1> USE DEF history, memory, Shrinks
<1>1. CASE UnlinkFile(c)
  <2>1. UNCHANGED <<kind, index, merged, setting, sealedAt>>
    BY <1>1 DEF UnlinkFile
  <2>2. \E q \in Path : files' = [files EXCEPT ![q] = "absent"]
    BY <1>1 DEF UnlinkFile, Below
  <2> QED
    BY <2>1, <2>2 DEF TypeInv, SealedProvenance, HasProvenance
<1>2. CASE RemoveDir(c)
  BY <1>2 DEF RemoveDir, TypeInv, SealedProvenance, HasProvenance
<1>3. CASE PublishIndex(c)
  <2>1. /\ UNCHANGED <<kind, files, merged, setting, sealedAt, sealed>>
        /\ index' = [entries |-> listing[c], listed |-> TRUE, provenance |-> sealed[c]]
        /\ pc[c] = "publish"
    BY <1>3 DEF PublishIndex
  <2>2. index' \in Index
    BY <2>1 DEF TypeInv, Index
  <2>3. sealed[c] = SealedProvenance
    BY <2>1 DEF PlanInv, PlanHolds, Working
  <2>4. index' # NoIndex /\ SealedProvenance' = sealed[c]
    BY <2>1, <2>2, NoIndexAssumption DEF SealedProvenance, HasProvenance, TypeInv, Provenance
  <2> QED
    BY <1>3, <2>1, <2>3, <2>4
<1>4. ASSUME ~UnlinkFile(c), ~RemoveDir(c), ~PublishIndex(c)
      PROVE  UNCHANGED <<disk, setting, sealedAt>>
  BY <1>4 DEF Cleanup, Report, MakePlan, DryRun, VerifyBeforeDelete, TakeEntry, OpenTree, RmtreeFails,
     Reseal, HashFiles, RewriteFails, Crash
<1> QED
  BY <1>1, <1>2, <1>3, <1>4 DEF disk, SealedProvenance, HasProvenance

LEMMA CleanupPlan ==
  ASSUME TypeInv, PlanInv, NEW c \in Cleaners, Report(c) \/ Cleanup(c) \/ Crash(c)
  PROVE  PlanInv'
<1>1. /\ Shrinks /\ SealedProvenance' = SealedProvenance
      /\ index # NoIndex => index' # NoIndex
  BY CleanupOnlyRemoves
<1>2. ASSUME NEW d \in Cleaners, d # c
      PROVE  PlanHolds(d)'
  <2>1. Alone(c, d) /\ PlanHolds(d)
    BY <1>2, CleanupIsLocal DEF PlanInv
  <2> QED
    BY <1>1, <2>1, OthersPlan DEF Alone, Shrinks
<1>3. PlanHolds(c)'
  <2>0. PlanHolds(c)
    BY DEF PlanInv
  <2> USE DEF TypeInv, PlanHolds, Working, Deleting, Removing, Goto, disk, memory, history
  <2>1. CASE Report(c)
    BY <2>1 DEF Report
  <2>2. CASE MakePlan(c)
    BY <2>0, <2>2 DEF MakePlan
  <2>3. CASE DryRun(c)
    BY <2>3 DEF DryRun
  <2>4. CASE VerifyBeforeDelete(c)
    BY <1>1, <2>0, <2>4 DEF VerifyBeforeDelete
  <2>5. CASE TakeEntry(c)
    <3>1. PICK n \in Names : TRUE /\ NextDoomed(c, n) /\ todo' = [todo EXCEPT ![c] = @ \ {n}]
             /\ IF Undeletable(n)
                THEN /\ failed' = [failed EXCEPT ![c] = @ \cup {n}]
                     /\ UNCHANGED <<doomed, pc>>
                ELSE /\ doomed' = [doomed EXCEPT ![c] = n]
                     /\ pc' = [pc EXCEPT ![c] = "rmtree"]
                     /\ UNCHANGED failed
      BY <2>5 DEF TakeEntry
    <3>2. /\ pc[c] = "delete" /\ n \in todo[c] /\ todo'[c] = todo[c] \ {n}
          /\ UNCHANGED <<disk, plan, sealed, removed>>
      BY <2>5, <3>1 DEF TakeEntry, NextDoomed
    <3>3. CASE Undeletable(n)
      <4>1. failed'[c] = failed[c] \cup {n} /\ pc'[c] = "delete"
        BY <3>1, <3>2, <3>3
      <4> QED
        BY <1>1, <2>0, <3>2, <4>1
    <3>4. CASE ~Undeletable(n)
      <4>1. failed'[c] = failed[c] /\ pc'[c] = "rmtree" /\ doomed'[c] = n
        BY <3>1, <3>2, <3>4
      <4> QED
        BY <1>1, <2>0, <3>2, <4>1
    <3> QED
      BY <3>3, <3>4
  <2>6. CASE UnlinkFile(c)
    BY <1>1, <2>0, <2>6 DEF UnlinkFile
  <2>7. CASE RemoveDir(c)
    <3>1. /\ pc[c] = "unlink" /\ doomed[c] \in Names
          /\ kind' = [kind EXCEPT ![doomed[c]] = "none"]
          /\ removed'[c] = removed[c] \cup {doomed[c]} /\ pc'[c] = "delete"
          /\ UNCHANGED <<index, plan, todo, doomed, sealed, failed>>
      BY <2>0, <2>7 DEF RemoveDir
    <3>2. \A n \in removed'[c] : kind'[n] = "none"
      BY <2>0, <3>1
    <3> QED
      BY <1>1, <2>0, <3>1, <3>2
  <2>8. CASE RmtreeFails(c)
    BY <1>1, <2>0, <2>8 DEF RmtreeFails
  <2>9. CASE Reseal(c)
    BY <1>1, <2>0, <2>9 DEF Reseal
  <2>10. CASE HashFiles(c)
    BY <1>1, <2>0, <2>10 DEF HashFiles
  <2>11. CASE PublishIndex(c)
    BY <2>11 DEF PublishIndex
  <2>12. CASE RewriteFails(c)
    BY <2>12 DEF RewriteFails
  <2>13. CASE Crash(c)
    BY <2>13 DEF Crash
  <2>14. CASE OpenTree(c)
    BY <1>1, <2>0, <2>14 DEF OpenTree
  <2> QED
    BY <2>1, <2>2, <2>3, <2>4, <2>5, <2>6, <2>7, <2>8, <2>9, <2>10, <2>11, <2>12, <2>13, <2>14 DEF Cleanup
<1> QED
  BY <1>2, <1>3 DEF PlanInv

-----------------------------------------------------------------------------
(* What is sealed was sealed before *)

LEMMA InitHonest ==
  Init => HonestInv
<1> SUFFICES ASSUME Init PROVE HonestInv
  OBVIOUS
<1>1. HasProvenance => Honest(index.entries)
  BY DEF Init, HasProvenance, Honest
<1> QED
  BY <1>1 DEF Init, HonestInv, Relies, Deleting, Removing

LEMMA EditHonest ==
  ASSUME TypeInv, HonestInv, Edit
  PROVE  HonestInv'
<1>1. UNCHANGED <<setting, pc, sealedAt>>
  BY DEF Edit, EditFile, SwapEntry, MangleIndex, history
<1> SUFFICES ASSUME ~setting.concurrent PROVE HonestInv'
  BY <1>1 DEF HonestInv
\* Nobody cleans, so nobody relies on anything.
<1>2. \A d \in Cleaners : pc[d] = "idle"
  BY DEF Edit, EditFile, SwapEntry, MangleIndex, MayEdit, Idle
<1>3. \A d \in Cleaners : Relies(d)'
  BY <1>1, <1>2 DEF Relies, Deleting, Removing
<1>4. \/ UNCHANGED index
      \/ index # NoIndex /\ index' = [index EXCEPT !.listed = FALSE]
  BY DEF Edit, EditFile, SwapEntry, MangleIndex
<1>5. index' # NoIndex => /\ index # NoIndex /\ index'.entries = index.entries
                          /\ index'.provenance = index.provenance
  BY <1>4 DEF TypeInv, Index
<1>6. HasProvenance' => Honest(index.entries)'
  BY <1>1, <1>5 DEF HonestInv, HasProvenance, Honest
<1> QED
  BY <1>3, <1>6 DEF HonestInv

\* A step of somebody else removes files at most.
LEMMA OthersRely ==
  ASSUME NEW c, NEW d, Relies(d), Alone(c, d), Shrinks, sealedAt' = sealedAt
  PROVE  Relies(d)'
<1>1. ASSUME NEW S, HonestOutside(S) PROVE HonestOutside(S)'
  BY <1>1, HonestStays
<1> QED
  BY <1>1 DEF Relies, Alone, Honest

LEMMA CleanupHonest ==
  ASSUME TypeInv, PlanInv, HonestInv, ~setting.concurrent,
         NEW c \in Cleaners, Report(c) \/ Cleanup(c) \/ Crash(c)
  PROVE  HonestInv'
<1>1. /\ Shrinks /\ SealedProvenance' = SealedProvenance
      /\ index' # index => PublishIndex(c)
      /\ UNCHANGED <<setting, sealedAt>>
  BY CleanupOnlyRemoves
<1>2. Relies(c) /\ (HasProvenance => Honest(index.entries)) /\ PlanHolds(c)
  BY DEF HonestInv, PlanInv
<1>3. ASSUME NEW d \in Cleaners, d # c PROVE Relies(d)'
  <2>1. Alone(c, d) /\ Relies(d)
    BY <1>3, CleanupIsLocal DEF HonestInv
  <2> QED
    BY <1>1, <2>1, OthersRely
<1>4. ASSUME NEW S, HonestOutside(S) PROVE HonestOutside(S)'
  BY <1>1, <1>4, HonestStays
<1>5. Relies(c)'
  <2> USE DEF TypeInv, Relies, Deleting, Removing, Goto, memory, disk, history
  <2>1. CASE Report(c)
    BY <2>1 DEF Report
  <2>2. CASE MakePlan(c)
    BY <2>2 DEF MakePlan
  <2>3. CASE DryRun(c)
    BY <2>3 DEF DryRun
  <2>4. CASE VerifyBeforeDelete(c)
    <3>1. /\ sealed'[c] = SealedProvenance /\ UNCHANGED plan
          /\ \/ pc'[c] = "idle"
             \/ pc'[c] = "delete" /\ ~(plan[c] # {} /\ GuardError(SealedProvenance, plan[c]))
      BY <2>4 DEF VerifyBeforeDelete
    <3>2. CASE pc'[c] = "delete" /\ plan[c] # {} /\ SealedProvenance = "sealed"
      <4>1. Verified(plan[c])
        BY <3>1, <3>2 DEF GuardError
      <4>2. Honest(index.entries)
        BY <1>2, <3>2 DEF SealedProvenance
      <4>3. HonestOutside(plan[c])
        BY <4>1, <4>2, VerifiedIsHonest
      <4> QED
        BY <1>4, <3>1, <3>2, <4>3
    <3> QED
      BY <3>1, <3>2
  <2>5. CASE TakeEntry(c)
    <3>1. pc[c] = "delete" /\ pc'[c] \in Deleting /\ UNCHANGED <<plan, sealed>>
      BY <2>5 DEF TakeEntry
    <3> QED
      BY <1>2, <1>4, <3>1
  <2>6. CASE UnlinkFile(c)
    BY <1>2, <1>4, <2>6 DEF UnlinkFile
  <2>7. CASE RemoveDir(c)
    <3>1. pc[c] \in Removing /\ pc'[c] = "delete" /\ UNCHANGED <<plan, sealed>>
      BY <2>7 DEF RemoveDir
    <3> QED
      BY <1>2, <1>4, <3>1
  <2>8. CASE RmtreeFails(c)
    <3>1. pc[c] \in Removing /\ pc'[c] = "delete" /\ UNCHANGED <<plan, sealed>>
      BY <2>8 DEF RmtreeFails
    <3> QED
      BY <1>2, <1>4, <3>1
  <2>9. CASE Reseal(c)
    <3>1. /\ pc[c] = "delete" /\ todo[c] = {} /\ UNCHANGED <<plan, sealed>>
          /\ \/ pc'[c] = "idle"
             \/ /\ pc'[c] = "hash" /\ Touched(c)
                /\ ~(failed[c] # {} /\ GuardError(sealed[c], removed[c]))
      BY <2>9 DEF Reseal
    <3>2. CASE pc'[c] = "hash" /\ sealed[c] = "sealed"
      \* What was removed has nothing left on disk, ...
      <4>1. \A p \in Path : p[1] \in removed[c] => OnDisk[p] = "absent"
        BY <1>2, <3>1, NothingBelowNone DEF PlanHolds
      \* ... and all else was verified, before the deletion or after a failure.
      <4>2. HonestOutside(removed[c])
        <5>1. CASE failed[c] = {}
          <6>1. plan[c] = removed[c] /\ plan[c] # {}
            BY <1>2, <3>1, <3>2, <5>1 DEF PlanHolds, Touched
          <6> QED
            BY <1>2, <3>1, <3>2, <6>1
        <5>2. CASE failed[c] # {}
          <6>1. Verified(removed[c])
            BY <3>1, <3>2, <5>2 DEF GuardError
          <6>2. Honest(index.entries)
            BY <1>2, <3>1, <3>2 DEF PlanHolds, Working, SealedProvenance
          <6> QED
            BY <6>1, <6>2, VerifiedIsHonest
        <5> QED
          BY <5>1, <5>2
      <4>3. HonestOutside({})
        BY <4>1, <4>2 DEF HonestOutside
      <4> QED
        BY <1>4, <3>1, <3>2, <4>3
    <3> QED
      BY <3>1, <3>2
  <2>10. CASE HashFiles(c)
    <3>1. /\ pc[c] = "hash" /\ pc'[c] = "publish" /\ listing'[c] = OnDisk
          /\ UNCHANGED <<sealed, sealedAt>>
      BY <2>10 DEF HashFiles
    <3>2. sealed[c] = "sealed" => HonestOutside({})
      BY <1>2, <3>1
    <3>3. HonestOutside({}) => Honest(listing[c])'
      BY <3>1 DEF Honest, HonestOutside
    <3> QED
      BY <1>4, <3>1, <3>2, <3>3
  <2>11. CASE PublishIndex(c)
    BY <2>11 DEF PublishIndex
  <2>12. CASE RewriteFails(c)
    BY <2>12 DEF RewriteFails
  <2>13. CASE Crash(c)
    BY <2>13 DEF Crash
  <2>14. CASE OpenTree(c)
    <3>1. pc[c] \in Removing /\ pc'[c] \in Removing /\ UNCHANGED <<plan, sealed>>
      BY <2>14 DEF OpenTree
    <3> QED
      BY <1>2, <1>4, <3>1
  <2> QED
    BY <2>1, <2>2, <2>3, <2>4, <2>5, <2>6, <2>7, <2>8, <2>9, <2>10, <2>11, <2>12, <2>13, <2>14 DEF Cleanup
<1>6. HasProvenance' => Honest(index.entries)'
  <2>1. CASE PublishIndex(c)
    <3>1. /\ pc[c] = "publish"
          /\ index' = [entries |-> listing[c], listed |-> TRUE, provenance |-> sealed[c]]
      BY <2>1 DEF PublishIndex
    <3>2. HasProvenance' => sealed[c] = "sealed"
      BY <3>1 DEF HasProvenance
    <3>3. HasProvenance' => Honest(listing[c])
      BY <1>2, <3>1, <3>2 DEF Relies
    <3> QED
      BY <1>1, <3>1, <3>3 DEF Honest
  <2>2. CASE UNCHANGED index
    BY <1>1, <1>2, <2>2 DEF HasProvenance, Honest
  <2> QED
    BY <1>1, <2>1, <2>2
<1> QED
  BY <1>3, <1>5, <1>6 DEF HonestInv

-----------------------------------------------------------------------------
(* What is deleted can be recovered *)

\* An invocation that has passed _guard goes on only while it is true.
RecoverInv ==
  \A c \in Cleaners : pc[c] # "idle" \/ removed[c] # {} => Recoverable \/ forced

LEMMA InitRecover ==
  Init => RecoverInv
BY DEF Init, RecoverInv

\* Nothing takes the adapter at the run root, the merged model or the
\* provenance away.
LEMMA RecoverableStays ==
  ASSUME TypeInv, PlanInv, Recoverable, Next
  PROVE  Recoverable'
<1>1. ASSUME NEW c \in Cleaners, Report(c) \/ Cleanup(c) \/ Crash(c)
      PROVE  /\ SealedProvenance' = SealedProvenance /\ merged' = merged
             /\ files'[<<Root, "adapter">>] = files[<<Root, "adapter">>]
  <2>1. SealedProvenance' = SealedProvenance /\ merged' = merged
    BY <1>1, CleanupOnlyRemoves
  <2>2. CASE UnlinkFile(c)
    <3>1. doomed[c] \in Names
      BY <2>2 DEF UnlinkFile, PlanInv, PlanHolds, TypeInv, Removing
    <3>2. PICK p \in Below(doomed[c]) : files' = [files EXCEPT ![p] = "absent"]
      BY <2>2 DEF UnlinkFile
    <3>3. p # <<Root, "adapter">>
      BY <3>1, <3>2, RootAssumption, Paths DEF Below
    <3> QED
      BY <2>1, <3>2, <3>3, Paths DEF TypeInv
  <2>3. CASE ~UnlinkFile(c)
    <3>1. UNCHANGED files
      BY <1>1, <2>3 DEF Cleanup, Report, MakePlan, DryRun, VerifyBeforeDelete, TakeEntry, OpenTree, RemoveDir,
         RmtreeFails, Reseal, HashFiles, PublishIndex, RewriteFails, Crash, disk
    <3> QED
      BY <2>1, <3>1
  <2> QED
    BY <2>2, <2>3
<1>2. ASSUME Edit
      PROVE  /\ HasProvenance' /\ merged' = merged
             /\ files'[<<Root, "adapter">>] \in {files[<<Root, "adapter">>], "edited"}
  <2>1. UNCHANGED merged
    BY <1>2 DEF Edit, EditFile, SwapEntry, MangleIndex
  <2>2. HasProvenance'
    <3>1. \/ UNCHANGED index
          \/ index' = [index EXCEPT !.listed = FALSE]
      BY <1>2 DEF Edit, EditFile, SwapEntry, MangleIndex
    <3>2. index # NoIndex /\ index.provenance = "sealed"
      BY DEF Recoverable, HasProvenance
    <3>3. index' \in Index /\ index'.provenance = "sealed"
      BY <3>1, <3>2 DEF TypeInv, Index
    <3> QED
      BY <3>3, NoIndexAssumption DEF HasProvenance
  <2>3. files'[<<Root, "adapter">>] \in {files[<<Root, "adapter">>], "edited"}
    <3>1. \/ UNCHANGED files
          \/ \E p \in Path : files' = [files EXCEPT ![p] = "edited"]
      BY <1>2 DEF Edit, EditFile, SwapEntry, MangleIndex
    <3> QED
      BY <3>1, Paths DEF TypeInv
  <2> QED
    BY <2>1, <2>2, <2>3
<1>3. CASE \E c \in Cleaners : Report(c) \/ Cleanup(c) \/ Crash(c)
  <2>1. PICK c \in Cleaners : Report(c) \/ Cleanup(c) \/ Crash(c)
    BY <1>3
  <2>2. /\ SealedProvenance' = SealedProvenance /\ merged' = merged
        /\ files'[<<Root, "adapter">>] = files[<<Root, "adapter">>]
    BY <1>1, <2>1
  <2>3. HasProvenance'
    BY <2>2 DEF SealedProvenance, Recoverable, HasProvenance
  <2> QED
    BY <2>2, <2>3 DEF Recoverable, AdapterReady
<1>4. CASE Edit
  BY <1>2, <1>4 DEF Recoverable, AdapterReady
<1> QED
  BY <1>3, <1>4 DEF Next

LEMMA RecoverStep ==
  ASSUME TypeInv, PlanInv, RecoverInv, Next
  PROVE  RecoverInv'
<1>1. Recoverable => Recoverable'
  BY RecoverableStays
<1>2. ASSUME NEW c \in Cleaners, Report(c) \/ Cleanup(c) \/ Crash(c)
      PROVE  RecoverInv'
  <2>1. forced => forced'
    BY <1>2 DEF Cleanup, Report, MakePlan, DryRun, VerifyBeforeDelete, TakeEntry, OpenTree, UnlinkFile, RemoveDir,
       RmtreeFails, Reseal, HashFiles, PublishIndex, RewriteFails, Crash, history
  <2>2. ASSUME NEW d \in Cleaners, d # c, pc'[d] # "idle" \/ removed'[d] # {}
        PROVE  Recoverable' \/ forced'
    BY <1>1, <1>2, <2>1, <2>2, CleanupIsLocal DEF RecoverInv, Alone
  <2>3. ASSUME pc'[c] # "idle" \/ removed'[c] # {}
        PROVE  Recoverable' \/ forced'
    <3>1. CASE Report(c)
      BY <1>1, <3>1 DEF Report
    <3>2. CASE pc[c] # "idle"
      BY <1>1, <2>1, <3>2 DEF RecoverInv
    <3>3. CASE ~Report(c) /\ pc[c] = "idle"
      BY <1>2, <3>3 DEF Cleanup, MakePlan, DryRun, VerifyBeforeDelete, TakeEntry, OpenTree, UnlinkFile, RemoveDir,
         RmtreeFails, Reseal, HashFiles, PublishIndex, RewriteFails, Crash, Idle, Removing
    <3> QED
      BY <3>1, <3>2, <3>3
  <2> QED
    BY <2>2, <2>3 DEF RecoverInv
<1>3. CASE Edit
  <2>1. UNCHANGED <<pc, removed, forced>>
    BY <1>3 DEF Edit, EditFile, SwapEntry, MangleIndex, memory, history
  <2> QED
    BY <1>1, <2>1 DEF RecoverInv
<1> QED
  BY <1>2, <1>3 DEF Next

-----------------------------------------------------------------------------
(* The theorems *)

CleanInv == TypeInv /\ PlanInv /\ HonestInv /\ RecoverInv

LEMMA CleanInit ==
  Init => CleanInv
BY InitType, InitPlan, InitHonest, InitRecover DEF CleanInv

LEMMA CleanStep ==
  ASSUME CleanInv, [Next]_vars
  PROVE  CleanInv'
<1> USE DEF CleanInv
<1>1. CASE Next
  <2>1. TypeInv' /\ PlanInv'
    BY <1>1, CleanupType, CleanupPlan, EditType, EditPlan DEF Next
  <2>2. HonestInv'
    <3>1. CASE setting.concurrent
      <4>1. UNCHANGED setting
        BY <1>1, CleanupOnlyRemoves DEF Next, Edit, EditFile, SwapEntry, MangleIndex, history
      <4> QED
        BY <3>1, <4>1 DEF HonestInv
    <3>2. CASE ~setting.concurrent
      BY <1>1, <3>2, CleanupHonest, EditHonest DEF Next
    <3> QED
      BY <3>1, <3>2
  <2>3. RecoverInv'
    BY <1>1, RecoverStep
  <2> QED
    BY <2>1, <2>2, <2>3
<1>2. CASE UNCHANGED vars
  <2> USE <1>2 DEF vars, disk, memory, history
  <2>1. TypeInv'
    BY DEF TypeInv
  <2>2. PlanInv'
    BY DEF PlanInv, PlanHolds, SealedProvenance, HasProvenance
  <2>3. HonestInv'
    BY DEF HonestInv, HasProvenance, Honest, Relies, HonestOutside, OnDisk, Walked
  <2>4. RecoverInv'
    BY DEF RecoverInv, Recoverable, HasProvenance, AdapterReady
  <2> QED
    BY <2>1, <2>2, <2>3, <2>4
<1> QED
  BY <1>1, <1>2

LEMMA CleanAlways ==
  Spec => []CleanInv
<1>1. CleanInv /\ [Next]_vars => CleanInv'
  BY CleanStep
<1> QED
  BY CleanInit, <1>1, PTL DEF Spec

\* However many operators clean a run, wherever they are killed and whatever
\* fails, an index with the producer's provenance attests only what the producer
\* sealed, if nobody edits the run during a cleanup (_provenance_guard_error).
THEOREM SealStaysHonest ==
  Spec => []SealIsHonest
<1>1. CleanInv => SealIsHonest
  BY DEF CleanInv, HonestInv, SealIsHonest, Honest
<1> QED
  BY CleanAlways, <1>1, PTL

\* From the first deletion on a run cleaned without --force keeps what the
\* export needs, also while others edit it (_guard, publish_bytes_replace).
THEOREM DeletedRunsAreRecoverable ==
  Spec => []DeletionIsRecoverable
<1>1. CleanInv => DeletionIsRecoverable
  BY DEF CleanInv, RecoverInv, DeletionIsRecoverable, Removing
<1> QED
  BY CleanAlways, <1>1, PTL

-----------------------------------------------------------------------------
(* What is behind a link stays *)

\* rmtree is in, or on the way into, what a link or a mount leads to.
Behind(c) ==
  \/ pc[c] = "rmtree" /\ kind[doomed[c]] = "mount"
  \/ pc[c] = "unlink" /\ kind[doomed[c]] = "symlink"
  \/ pc[c] = "mounted"

\* It gets there only by a swap that came too late for it.
LinkInv == \A c \in Cleaners : Behind(c) => c \in late

LEMMA InitLink ==
  Init => LinkInv
BY DEF Init, LinkInv, Behind

\* The second _skip_reason lets no link and no mount through to rmtree, and
\* rmtree none through that is a link when it opens it.
LEMMA LinkCleans ==
  ASSUME TypeInv, PlanInv, LinkInv, NEW c \in Cleaners, Report(c) \/ Cleanup(c) \/ Crash(c)
  PROVE  LinkInv'
<1>1. ASSUME NEW d \in Cleaners, d # c, Behind(d)'
      PROVE  d \in late'
  <2>1. pc'[d] = pc[d] /\ doomed'[d] = doomed[d]
    BY <1>1, CleanupIsLocal DEF Alone
  <2>2. pc[d] \in Removing => doomed[d] \in Names
    BY DEF PlanInv, PlanHolds, TypeInv
  <2>3. Behind(d)
    BY <1>1, <2>1, <2>2, CleanupOnlyRemoves DEF Behind, Shrinks, Removing
  <2>4. late \ {c} \subseteq late'
    BY DEF Cleanup, Report, MakePlan, DryRun, VerifyBeforeDelete, TakeEntry, OpenTree, UnlinkFile, RemoveDir,
       RmtreeFails, Reseal, HashFiles, PublishIndex, RewriteFails, Crash, history
  <2> QED
    BY <1>1, <2>3, <2>4 DEF LinkInv
<1>2. ASSUME Behind(c)'
      PROVE  c \in late'
  <2>1. CASE TakeEntry(c)
    <3>1. PICK n \in Names :
             IF Undeletable(n) THEN UNCHANGED <<doomed, pc>>
             ELSE doomed' = [doomed EXCEPT ![c] = n] /\ pc' = [pc EXCEPT ![c] = "rmtree"]
      BY <2>1 DEF TakeEntry, Goto
    <3>2. pc[c] = "delete" /\ UNCHANGED kind
      BY <2>1 DEF TakeEntry, disk
    <3> QED
      BY <1>2, <3>1, <3>2 DEF Behind, Undeletable, Skippable, TypeInv
  <2>2. CASE OpenTree(c)
    <3>1. /\ pc[c] = "rmtree" /\ kind[doomed[c]] # "symlink"
          /\ pc'[c] = IF kind[doomed[c]] = "mount" THEN "mounted" ELSE "unlink"
          /\ UNCHANGED <<kind, doomed, late>>
      BY <2>2 DEF OpenTree, Goto, TypeInv, disk, memory, history
    <3> QED
      BY <1>2, <3>1 DEF Behind, LinkInv
  <2>3. CASE UnlinkFile(c)
    BY <1>2, <2>3 DEF UnlinkFile, Behind, LinkInv, memory, history
  <2>4. CASE ~TakeEntry(c) /\ ~OpenTree(c) /\ ~UnlinkFile(c)
    <3>1. pc'[c] \notin Removing
      BY <2>4 DEF Cleanup, Report, MakePlan, DryRun, VerifyBeforeDelete, RemoveDir,
         RmtreeFails, Reseal, HashFiles, PublishIndex, RewriteFails, Crash, Goto, TypeInv, Removing
    <3> QED
      BY <1>2, <3>1 DEF Behind, Removing
  <2> QED
    BY <2>1, <2>2, <2>3, <2>4
<1> QED
  BY <1>1, <1>2 DEF LinkInv

LEMMA LinkEdits ==
  ASSUME TypeInv, PlanInv, LinkInv, Edit
  PROVE  LinkInv'
<1>1. UNCHANGED <<pc, doomed>>
  BY DEF Edit, EditFile, SwapEntry, MangleIndex, memory
<1>2. CASE SwapEntry
  <2>1. PICK n \in Names, k \in {"symlink", "mount"} :
           kind' = [kind EXCEPT ![n] = k] /\ late' = late \cup Overtaken(n, k)
    BY <1>2 DEF SwapEntry
  <2>2. ASSUME NEW c \in Cleaners, Behind(c)'
        PROVE  c \in late'
    <3>1. doomed[c] \in Names
      BY <1>1, <2>2 DEF Behind, PlanInv, PlanHolds, TypeInv, Removing
    <3>2. CASE doomed[c] # n
      BY <1>1, <2>1, <2>2, <3>1, <3>2 DEF Behind, LinkInv, TypeInv
    <3>3. CASE doomed[c] = n
      <4>1. kind'[doomed[c]] = k
        BY <2>1, <3>1, <3>3 DEF TypeInv
      <4> QED
        BY <1>1, <2>1, <2>2, <3>3, <4>1 DEF Behind, LinkInv, Overtaken
    <3> QED
      BY <3>2, <3>3
  <2> QED
    BY <2>2 DEF LinkInv
<1>3. CASE EditFile \/ MangleIndex
  <2>1. UNCHANGED <<kind, late>>
    BY <1>3 DEF EditFile, MangleIndex, history
  <2> QED
    BY <1>1, <2>1 DEF LinkInv, Behind
<1> QED
  BY <1>2, <1>3 DEF Edit

LEMMA LinkAlways ==
  Spec => []LinkInv
<1>1. CleanInv /\ LinkInv /\ [Next]_vars => LinkInv'
  <2> SUFFICES ASSUME CleanInv, LinkInv, [Next]_vars PROVE LinkInv'
    OBVIOUS
  <2>1. CASE UNCHANGED vars
    BY <2>1 DEF LinkInv, Behind, vars, disk, memory, history
  <2> QED
    BY <2>1, LinkCleans, LinkEdits DEF CleanInv, Next
<1> QED
  BY InitLink, CleanAlways, <1>1, PTL DEF Spec

\* However many operators clean a run, and at whatever moment of it a link or a
\* mount takes the place of a checkpoint, it is not removed; and nothing behind
\* it is deleted, unless the swap came after the second _skip_reason, for a
\* mount, or after rmtree had opened the directory, for a link to that very
\* directory (_remove_checkpoints): then one deletion under way goes on.
THEOREM LinksAreSpared ==
  Spec => SkippedIsUntouched
<1>1. ASSUME CleanInv, LinkInv, Next, NEW n \in Names, Skippable(n)
      PROVE  /\ kind'[n] = kind[n]
             /\ (\A c \in late : doomed[c] # n) =>
                  \A p \in Below(n) : files[p] # "absent" => files'[p] # "absent"
  <2>0. TypeInv /\ PlanInv
    BY <1>1 DEF CleanInv
  <2>2. ASSUME NEW c \in Cleaners, UnlinkFile(c)
        PROVE  /\ kind'[n] = kind[n]
               /\ (\A d \in late : doomed[d] # n) => \A p \in Below(n) : files'[p] = files[p]
    <3>1. PICK q \in Below(doomed[c]) : files' = [files EXCEPT ![q] = "absent"]
      BY <2>2 DEF UnlinkFile
    <3>2. doomed[c] = n => c \in late
      BY <1>1, <2>2 DEF UnlinkFile, LinkInv, Behind, Skippable
    <3>3. UNCHANGED kind
      BY <2>2 DEF UnlinkFile
    <3>4. ASSUME doomed[c] # n
          PROVE  \A p \in Below(n) : p # q /\ p \in Path
      BY <3>1, <3>4 DEF Below
    <3> QED
      BY <2>0, <3>1, <3>2, <3>3, <3>4 DEF TypeInv
  <2>3. ASSUME NEW c \in Cleaners, RemoveDir(c)
        PROVE  UNCHANGED files /\ kind'[n] = kind[n]
    BY <1>1, <2>0, <2>3 DEF RemoveDir, TypeInv
  <2>4. ASSUME NEW c \in Cleaners, Report(c) \/ Cleanup(c) \/ Crash(c), ~UnlinkFile(c), ~RemoveDir(c)
        PROVE  UNCHANGED <<files, kind>>
    BY <2>4 DEF Cleanup, Report, MakePlan, DryRun, VerifyBeforeDelete, TakeEntry, OpenTree,
       RmtreeFails, Reseal, HashFiles, PublishIndex, RewriteFails, Crash, disk
  <2>5. CASE Edit
    <3>1. kind'[n] = kind[n]
      BY <1>1, <2>0, <2>5 DEF Edit, EditFile, SwapEntry, MangleIndex, Skippable, TypeInv
    <3>2. \/ UNCHANGED files
          \/ \E q \in Path : files' = [files EXCEPT ![q] = "edited"]
      BY <2>5 DEF Edit, EditFile, SwapEntry, MangleIndex
    <3> QED
      BY <2>0, <3>1, <3>2 DEF TypeInv, Below
  <2> QED
    BY <1>1, <2>2, <2>3, <2>4, <2>5 DEF Next
<1>2. CleanInv /\ LinkInv /\ [Next]_vars =>
        [\A n \in Names : Skippable(n) =>
           /\ kind'[n] = kind[n]
           /\ (\A c \in late : doomed[c] # n) =>
                \A p \in Below(n) : files[p] # "absent" => files'[p] # "absent"]_vars
  BY <1>1
<1> QED
  BY CleanAlways, LinkAlways, <1>2, PTL DEF Spec, SkippedIsUntouched

-----------------------------------------------------------------------------
(* Reports *)

\* An operator that has the run for itself hashes what stays there.
AloneInv ==
  /\ budget \in [cleanups : Nat, crashes : Nat, errors : Nat, edits : Nat]
  /\ \A d \in Cleaners : pc[d] # "idle" => d \in setting.cleaners
  /\ \A c \in Cleaners :
       setting.cleaners = {c} /\ ~setting.concurrent /\ pc[c] = "publish" => listing[c] = OnDisk

LEMMA AloneBudget ==
  ASSUME AloneInv, Next
  PROVE  budget' \in [cleanups : Nat, crashes : Nat, errors : Nat, edits : Nat]
<1>1. \/ UNCHANGED budget
      \/ budget' = [budget EXCEPT !.cleanups = @ + 1]
      \/ budget' = [budget EXCEPT !.crashes = @ + 1]
      \/ budget' = [budget EXCEPT !.errors = @ + 1]
      \/ budget' = [budget EXCEPT !.edits = @ + 1]
  BY DEF Next, Cleanup, Report, MakePlan, DryRun, VerifyBeforeDelete, TakeEntry, OpenTree, UnlinkFile, RemoveDir,
     RmtreeFails, Reseal, HashFiles, PublishIndex, RewriteFails, Crash, Edit, EditFile, SwapEntry,
     MangleIndex, MayEdit
<1> QED
  BY <1>1 DEF AloneInv

LEMMA AloneStep ==
  ASSUME TypeInv, PlanInv, AloneInv, Next
  PROVE  AloneInv'
<1>1. budget' \in [cleanups : Nat, crashes : Nat, errors : Nat, edits : Nat]
  BY AloneBudget
<1>2. ASSUME NEW c \in Cleaners, Report(c) \/ Cleanup(c) \/ Crash(c)
      PROVE  AloneInv'
  <2>1. UNCHANGED setting
    BY <1>2, CleanupOnlyRemoves
  <2>2. c \in setting.cleaners
    <3>1. Report(c) \/ pc[c] # "idle"
      BY <1>2 DEF Cleanup, MakePlan, DryRun, VerifyBeforeDelete, TakeEntry, OpenTree, UnlinkFile, RemoveDir,
         RmtreeFails, Reseal, HashFiles, PublishIndex, RewriteFails, Crash, Idle, Removing
    <3> QED
      BY <3>1 DEF Report, AloneInv
  <2>3. \A d \in Cleaners : pc'[d] # "idle" => d \in setting.cleaners
    BY <1>2, <2>2, CleanupIsLocal DEF Alone, AloneInv
  <2>4. ASSUME NEW d \in Cleaners, setting.cleaners = {d}, ~setting.concurrent, pc'[d] = "publish"
        PROVE  listing'[d] = OnDisk'
    <3>1. d = c
      BY <2>2, <2>4
    <3>2. HashFiles(c)
      BY <1>2, <2>4, <3>1 DEF Cleanup, Report, MakePlan, DryRun, VerifyBeforeDelete, TakeEntry, OpenTree, UnlinkFile,
         RemoveDir, RmtreeFails, Reseal, PublishIndex, RewriteFails, Crash, Goto, TypeInv
    <3> QED
      BY <3>1, <3>2 DEF HashFiles, disk, OnDisk, Walked, TypeInv
  <2> QED
    BY <1>1, <2>1, <2>3, <2>4 DEF AloneInv
<1>3. CASE Edit
  <2>1. UNCHANGED <<setting, pc, listing>>
    BY <1>3 DEF Edit, EditFile, SwapEntry, MangleIndex, memory, history
  <2>2. ~setting.concurrent => \A d \in Cleaners : pc[d] = "idle"
    BY <1>3 DEF Edit, EditFile, SwapEntry, MangleIndex, MayEdit, Idle
  <2> QED
    BY <1>1, <2>1, <2>2 DEF AloneInv
<1> QED
  BY <1>2, <1>3 DEF Next

LEMMA AloneAlways ==
  Spec => []AloneInv
<1>1. Init => AloneInv
  BY DEF Init, AloneInv
<1>2. CleanInv /\ AloneInv /\ [Next]_vars => AloneInv'
  <2> SUFFICES ASSUME CleanInv, AloneInv, [Next]_vars PROVE AloneInv'
    OBVIOUS
  <2>1. CASE UNCHANGED vars
    BY <2>1 DEF AloneInv, vars, disk, memory, history, OnDisk, Walked
  <2> QED
    BY <2>1, AloneStep DEF CleanInv
<1> QED
  BY <1>1, <1>2, CleanAlways, PTL DEF Spec

\* A cleanup that had the run for itself, removed something and reports no
\* failure leaves no index, or one of exactly the files on disk
\* (_reseal_after_delete, write_artifact_index).
THEOREM CleanReportsAreTrue ==
  Spec => CleanReportMeansTrueIndex
<1>1. ASSUME CleanInv, AloneInv, Next, NEW c \in Cleaners, Returns(c), setting.cleaners = {c},
             ~setting.concurrent, removed'[c] # {}, failed'[c] = {}
      PROVE  index' = NoIndex \/ index'.entries = OnDisk'
  <2>0. TypeInv /\ pc[c] \notin {"idle", "planned"} /\ pc'[c] = "idle" /\ budget'.crashes = budget.crashes
    BY <1>1 DEF CleanInv, Returns
  <2>1. Report(c) \/ Cleanup(c) \/ Crash(c)
    <3>1. PICK d \in Cleaners : Report(d) \/ Cleanup(d) \/ Crash(d) \/ Edit
      BY <1>1 DEF Next
    <3>2. ~Edit
      BY <2>0 DEF Edit, EditFile, SwapEntry, MangleIndex
    <3>3. d = c
      BY <2>0, <3>1, <3>2, CleanupIsLocal DEF Alone
    <3> QED
      BY <3>1, <3>2, <3>3
  <2>2. ~Crash(c)
    BY <1>1, <2>0 DEF Crash, AloneInv
  <2>3. ~RewriteFails(c)
    BY <1>1, <2>0, ZenonT(30) DEF RewriteFails, TypeInv
  <2>4. PublishIndex(c) \/ Reseal(c)
    BY <2>0, <2>1, <2>2, <2>3 DEF Cleanup, Report, MakePlan, DryRun, VerifyBeforeDelete, TakeEntry, OpenTree, UnlinkFile,
       RemoveDir, RmtreeFails, HashFiles, Goto, TypeInv
  <2>5. CASE PublishIndex(c)
    BY <1>1, <2>5 DEF PublishIndex, AloneInv, OnDisk, Walked
  <2>6. CASE Reseal(c)
    <3>1. removed'[c] = removed[c] /\ UNCHANGED index
      BY <2>6 DEF Reseal, disk
    <3>2. Touched(c)
      BY <1>1, <3>1 DEF Touched
    <3> QED
      BY <1>1, <2>0, <2>6, <3>1, <3>2 DEF Reseal, Goto, TypeInv
  <2> QED
    BY <2>4, <2>5, <2>6
<1>2. CleanInv /\ AloneInv /\ [Next]_vars =>
        [\A c \in Cleaners :
           Returns(c) /\ setting.cleaners = {c} /\ ~setting.concurrent
             /\ removed'[c] # {} /\ failed'[c] = {} =>
             index' = NoIndex \/ index'.entries = OnDisk']_vars
  BY <1>1
<1> QED
  BY CleanAlways, AloneAlways, <1>2, PTL DEF Spec, CleanReportMeansTrueIndex

-----------------------------------------------------------------------------
(* Keep slots *)

\* The part of KeepsTheNewest about one invocation.
Spares(c) ==
  LET spared == keepable0[c] \ plan[c]
      slots == spared \cup (outdated[c] \ plan[c])
  IN  /\ Cardinality(slots) >= options[c].keep \/ spared = keepable0[c]
      /\ \A n \in spared, m \in keepable0[c] \ spared : StepOf[m] <= StepOf[n]
      /\ DistinctSteps /\ setting.cleaners = {c} => outdated[c] = {}

Planned == {"planned", "delete"} \cup Removing

\* What is still valid is in the report; nothing else is, for an operator who
\* has the run for itself.
ReportCovers(c) == \A n \in Names : IsValid(n) => StepOf[n] \in steps[c]
ReportIsCurrent(c) ==
  setting.cleaners = {c} => \A s \in steps[c] : \E n \in Names : StepOf[n] = s /\ IsValid(n)

KeepInv ==
  /\ options \in [Cleaners -> [keep : Nat, force : BOOLEAN]]
  /\ steps \in [Cleaners -> SUBSET Nat]
  /\ keepable0 \in [Cleaners -> SUBSET Names]
  /\ outdated \in [Cleaners -> SUBSET Names]
  /\ \A c \in Cleaners : pc[c] = "list" => ReportCovers(c) /\ ReportIsCurrent(c)
  /\ \A c \in Cleaners : pc[c] \in Planned => Spares(c)

LEMMA InitKeep ==
  Init => KeepInv
BY DEF Init, KeepInv, Planned, Removing

\* No step completes a checkpoint, whoever takes it.
LEMMA ValidOnlyVanishes ==
  ASSUME TypeInv, PlanInv, Next, NEW n \in Names, IsValid(n)'
  PROVE  IsValid(n)
<1>0. /\ <<n, "state">> \in Path /\ <<n, "state">>[2] = "state"
      /\ <<n, "weights">> \in Path /\ <<n, "weights">>[2] = "weights"
  BY Paths DEF Parts
<1>1. CASE \E c \in Cleaners : Report(c) \/ Cleanup(c) \/ Crash(c)
  <2>1. Shrinks
    BY <1>1, CleanupOnlyRemoves
  <2> QED
    BY <1>0, <2>1 DEF Shrinks, IsValid
<1>2. CASE EditFile
  <2>1. PICK q \in Path : /\ files[q] # "absent" \/ q[2] = "extra"
                          /\ files' = [files EXCEPT ![q] = "edited"]
    BY <1>2 DEF EditFile
  <2>2. UNCHANGED kind
    BY <1>2 DEF EditFile
  <2> QED
    BY <1>0, <2>1, <2>2 DEF IsValid, TypeInv
<1>3. CASE SwapEntry
  BY <1>3 DEF SwapEntry, IsValid, TypeInv
<1>4. CASE MangleIndex
  BY <1>4 DEF MangleIndex, IsValid
<1> QED
  BY <1>1, <1>2, <1>3, <1>4 DEF Next, Edit

\* What is valid stays so, until somebody deletes.
LEMMA ValidStays ==
  ASSUME TypeInv, Next, NEW n \in Names, IsValid(n),
         \A c \in Cleaners : ~UnlinkFile(c) /\ ~RemoveDir(c)
  PROVE  IsValid(n)'
<1>0. <<n, "state">> \in Path /\ <<n, "weights">> \in Path
  BY Paths DEF Parts
<1>1. CASE \E c \in Cleaners : Report(c) \/ Cleanup(c) \/ Crash(c)
  <2>1. UNCHANGED <<kind, files>>
    BY <1>1 DEF Cleanup, Report, MakePlan, DryRun, VerifyBeforeDelete, TakeEntry, OpenTree, RmtreeFails, Reseal,
       HashFiles, PublishIndex, RewriteFails, Crash, disk
  <2> QED
    BY <2>1 DEF IsValid
<1>2. CASE EditFile
  BY <1>0, <1>2 DEF EditFile, IsValid, TypeInv
<1>3. CASE SwapEntry
  BY <1>3 DEF SwapEntry, IsValid, TypeInv
<1>4. CASE MangleIndex
  BY <1>4 DEF MangleIndex, IsValid
<1> QED
  BY <1>1, <1>2, <1>3, <1>4 DEF Next, Edit

\* The report takes what is valid at that moment.
LEMMA ReportKeeps ==
  ASSUME TypeInv, KeepInv, NEW c \in Cleaners, Report(c)
  PROVE  /\ options' \in [Cleaners -> [keep : Nat, force : BOOLEAN]]
         /\ steps' \in [Cleaners -> SUBSET Nat]
         /\ ReportCovers(c)' /\ ReportIsCurrent(c)'
         /\ \A d \in Cleaners : d # c => options'[d] = options[d] /\ steps'[d] = steps[d]
         /\ UNCHANGED <<keepable0, outdated, setting>>
<1>1. UNCHANGED <<kind, files, setting, keepable0, outdated>>
  BY DEF Report, disk
<1>2. steps' = [steps EXCEPT ![c] = {StepOf[n] : n \in {m \in Names : IsValid(m)}}]
  BY DEF Report
<1>3. {StepOf[n] : n \in {m \in Names : IsValid(m)}} \in SUBSET Nat
  BY StepOfAssumption
<1>4. steps'[c] = {StepOf[n] : n \in {m \in Names : IsValid(m)}} /\ steps' \in [Cleaners -> SUBSET Nat]
  BY <1>2, <1>3 DEF KeepInv
<1>5. \A n \in Names : IsValid(n)' <=> IsValid(n)
  BY <1>1 DEF IsValid
<1>6. PICK keep \in setting.keep, force \in setting.force :
         options' = [options EXCEPT ![c] = [keep |-> keep, force |-> force]]
  BY DEF Report
<1>7. keep \in Nat /\ force \in BOOLEAN
  BY SettingsAssumption DEF TypeInv
<1>8. options' \in [Cleaners -> [keep : Nat, force : BOOLEAN]]
  BY <1>6, <1>7 DEF KeepInv
<1>9. \A d \in Cleaners : d # c => options'[d] = options[d] /\ steps'[d] = steps[d]
  BY <1>2, <1>6 DEF KeepInv
<1>10. ReportCovers(c)'
  BY <1>4, <1>5 DEF ReportCovers
<1>11. ReportIsCurrent(c)'
  BY <1>4, <1>5 DEF ReportIsCurrent
<1> QED
  BY <1>1, <1>4, <1>8, <1>9, <1>10, <1>11

\* _keep_set returns as many as there are slots, or all, and the newest.
LEMMA KeepSetsKeep ==
  ASSUME NEW S \in SUBSET Names, NEW k \in Nat, NEW K \in KeepSets(S, k)
  PROVE  /\ K \subseteq S
         /\ Cardinality(K) >= k \/ K = S
         /\ \A n \in K, m \in S \ K : StepOf[m] <= StepOf[n]
<1>1. IsFiniteSet(S)
  BY NamesAssumption, FS_Subset
<1>2. K \in SUBSET S
  BY DEF KeepSets
<1>3. Cardinality(S) = Cardinality(K) => S = K
  BY <1>1, <1>2, FS_Subset
<1>4. Cardinality(K) = IF k < Cardinality(S) THEN k ELSE Cardinality(S)
  BY DEF KeepSets
<1> QED
  BY <1>2, <1>3, <1>4 DEF KeepSets

\* The plan spares the newest of what is valid while it is made: all of that is
\* keepable, and whatever else is keepable is outdated.
LEMMA PlanSpares ==
  ASSUME TypeInv, KeepInv, NEW c \in Cleaners, MakePlan(c)
  PROVE  /\ Spares(c)'
         /\ keepable0' \in [Cleaners -> SUBSET Names] /\ outdated' \in [Cleaners -> SUBSET Names]
         /\ \A d \in Cleaners : d # c => keepable0'[d] = keepable0[d] /\ outdated'[d] = outdated[d]
         /\ UNCHANGED <<kind, files, setting, options, steps>>
<1> DEFINE V == {n \in Names : IsValid(n) /\ ~Skippable(n)}
           O == {n \in Names : /\ kind[n] # "none" /\ ~Skippable(n)
                               /\ ~IsValid(n) /\ StepOf[n] \in steps[c]}
           D == {n \in Names : kind[n] # "none" /\ ~Skippable(n)}
<1>1. UNCHANGED <<kind, files, setting, options, steps>>
  BY DEF MakePlan, disk
<1>2. PICK K \in KeepSets(Keepable(c), options[c].keep) : plan' = [plan EXCEPT ![c] = D \ K]
  BY DEF MakePlan
<1>3. /\ keepable0' = [keepable0 EXCEPT ![c] = V]
      /\ outdated' = [outdated EXCEPT ![c] = O]
  BY DEF MakePlan
<1>4. plan'[c] = D \ K /\ keepable0'[c] = V /\ outdated'[c] = O
  BY <1>2, <1>3 DEF KeepInv, TypeInv
<1>5. ReportCovers(c) /\ ReportIsCurrent(c)
  BY DEF MakePlan, KeepInv
<1>6. options[c].keep \in Nat
  BY DEF KeepInv
<1>7. Keepable(c) \in SUBSET Names
  BY DEF Keepable
<1>8. /\ K \subseteq Keepable(c)
      /\ Cardinality(K) >= options[c].keep \/ K = Keepable(c)
      /\ \A n \in K, m \in Keepable(c) \ K : StepOf[m] <= StepOf[n]
  BY <1>6, <1>7, KeepSetsKeep
<1>9. Keepable(c) = V \cup O
  BY <1>5 DEF Keepable, ReportCovers, IsValid
<1>10. V \subseteq D /\ O \subseteq D
  BY DEF IsValid
<1>11. V \ (D \ K) = V \cap K /\ (V \ (D \ K)) \cup (O \ (D \ K)) = K
  BY <1>8, <1>9, <1>10
<1>12. DistinctSteps /\ setting.cleaners = {c} => O = {}
  BY <1>5 DEF DistinctSteps, ReportIsCurrent
<1>13. Cardinality(K) >= options[c].keep \/ V \ (D \ K) = V
  BY <1>8, <1>9, <1>11
<1>14. \A n \in V \ (D \ K), m \in V \ (V \ (D \ K)) : StepOf[m] <= StepOf[n]
  BY <1>8, <1>9, <1>11
<1>15. Spares(c)'
  <2> HIDE DEF V, O, D
  <2> QED
    BY <1>1, <1>4, <1>11, <1>12, <1>13, <1>14 DEF Spares, DistinctSteps
<1>16. V \in SUBSET Names /\ O \in SUBSET Names
  OBVIOUS
<1> QED
  <2> HIDE DEF V, O, D
  <2> QED
    BY <1>1, <1>3, <1>15, <1>16 DEF KeepInv

\* Nothing but its own report and its own plan changes what an invocation
\* remembers of them, and only these lead to the plan.
LEMMA KeepFrame ==
  ASSUME TypeInv, KeepInv, Next, NEW d \in Cleaners, ~Report(d), ~MakePlan(d)
  PROVE  /\ options'[d] = options[d] /\ steps'[d] = steps[d] /\ plan'[d] = plan[d]
         /\ keepable0'[d] = keepable0[d] /\ outdated'[d] = outdated[d]
         /\ pc'[d] = "list" => pc[d] = "list"
         /\ pc'[d] \in Planned => pc[d] \in Planned
<1>1. ASSUME NEW c \in Cleaners, Report(c)
      PROVE  /\ options'[d] = options[d] /\ steps'[d] = steps[d] /\ plan'[d] = plan[d]
             /\ keepable0'[d] = keepable0[d] /\ outdated'[d] = outdated[d] /\ pc'[d] = pc[d]
  BY <1>1, ReportKeeps, CleanupIsLocal DEF Alone
<1>2. ASSUME NEW c \in Cleaners, MakePlan(c)
      PROVE  /\ options'[d] = options[d] /\ steps'[d] = steps[d] /\ plan'[d] = plan[d]
             /\ keepable0'[d] = keepable0[d] /\ outdated'[d] = outdated[d] /\ pc'[d] = pc[d]
  BY <1>2, PlanSpares, CleanupIsLocal DEF Alone, Cleanup
<1>3. ASSUME NEW c \in Cleaners, Cleanup(c) \/ Crash(c), ~MakePlan(c)
      PROVE  /\ UNCHANGED <<options, steps, plan, keepable0, outdated>>
             /\ pc'[c] # "list"
             /\ pc'[c] \in Planned => pc[c] \in Planned
  BY <1>3 DEF Cleanup, DryRun, VerifyBeforeDelete, TakeEntry, OpenTree, UnlinkFile, RemoveDir, RmtreeFails,
     Reseal, HashFiles, PublishIndex, RewriteFails, Crash, Goto, Planned, Removing, memory, history, TypeInv
<1>4. ASSUME NEW c \in Cleaners, Cleanup(c) \/ Crash(c), c # d
      PROVE  pc'[d] = pc[d]
  BY <1>4, CleanupIsLocal DEF Alone
<1>5. CASE Edit
  BY <1>5 DEF Edit, EditFile, SwapEntry, MangleIndex, memory, history
<1> QED
  BY <1>1, <1>2, <1>3, <1>4, <1>5 DEF Next

LEMMA KeepTypes ==
  ASSUME TypeInv, KeepInv, Next
  PROVE  /\ options' \in [Cleaners -> [keep : Nat, force : BOOLEAN]]
         /\ steps' \in [Cleaners -> SUBSET Nat]
         /\ keepable0' \in [Cleaners -> SUBSET Names]
         /\ outdated' \in [Cleaners -> SUBSET Names]
         /\ UNCHANGED setting
<1>1. ASSUME NEW c \in Cleaners, Report(c)
      PROVE  /\ options' \in [Cleaners -> [keep : Nat, force : BOOLEAN]]
             /\ steps' \in [Cleaners -> SUBSET Nat]
             /\ UNCHANGED <<keepable0, outdated, setting>>
  BY <1>1, ReportKeeps
<1>2. ASSUME NEW c \in Cleaners, MakePlan(c)
      PROVE  /\ keepable0' \in [Cleaners -> SUBSET Names]
             /\ outdated' \in [Cleaners -> SUBSET Names]
             /\ UNCHANGED <<options, steps, setting>>
  BY <1>2, PlanSpares
<1>3. ASSUME NEW c \in Cleaners, Cleanup(c) \/ Crash(c), ~MakePlan(c)
      PROVE  UNCHANGED <<options, steps, keepable0, outdated, setting>>
  BY <1>3 DEF Cleanup, DryRun, VerifyBeforeDelete, TakeEntry, OpenTree, UnlinkFile, RemoveDir, RmtreeFails,
     Reseal, HashFiles, PublishIndex, RewriteFails, Crash, memory, history
<1>4. CASE Edit
  BY <1>4 DEF Edit, EditFile, SwapEntry, MangleIndex, memory, history, KeepInv
<1> QED
  BY <1>1, <1>2, <1>3, <1>4 DEF Next, KeepInv

LEMMA KeepStep ==
  ASSUME TypeInv, PlanInv, AloneInv, KeepInv, Next
  PROVE  KeepInv'
<1>1. ASSUME NEW d \in Cleaners, pc'[d] = "list"
      PROVE  ReportCovers(d)' /\ ReportIsCurrent(d)'
  <2>1. CASE Report(d)
    BY <2>1, ReportKeeps
  <2>2. CASE ~Report(d)
    <3>1. ~MakePlan(d)
      BY <1>1 DEF MakePlan, Goto, TypeInv
    <3>2. pc[d] = "list" /\ steps'[d] = steps[d]
      BY <1>1, <2>2, <3>1, KeepFrame
    <3>3. ReportCovers(d) /\ ReportIsCurrent(d)
      BY <3>2 DEF KeepInv
    <3>4. ReportCovers(d)'
      BY <3>2, <3>3, ValidOnlyVanishes DEF ReportCovers
    <3>5. ASSUME setting.cleaners = {d}, NEW n \in Names, IsValid(n)
          PROVE  IsValid(n)'
      <4>1. ASSUME NEW c \in Cleaners
            PROVE  ~UnlinkFile(c) /\ ~RemoveDir(c)
        BY <3>2, <3>5 DEF UnlinkFile, RemoveDir, AloneInv
      <4> QED
        BY <3>5, <4>1, ValidStays
    <3>6. ReportIsCurrent(d)'
      <4>1. UNCHANGED setting
        BY KeepTypes
      <4> QED
        BY <3>2, <3>3, <3>5, <4>1 DEF ReportIsCurrent
    <3> QED
      BY <3>4, <3>6
  <2> QED
    BY <2>1, <2>2
<1>2. ASSUME NEW d \in Cleaners, pc'[d] \in Planned
      PROVE  Spares(d)'
  <2>1. CASE MakePlan(d)
    BY <2>1, PlanSpares
  <2>2. CASE ~MakePlan(d)
    <3>1. ~Report(d)
      BY <1>2 DEF Report, Goto, TypeInv, Planned, Removing
    <3>2. UNCHANGED setting
      BY KeepTypes
    <3>3. pc[d] \in Planned
      BY <1>2, <2>2, <3>1, KeepFrame
    <3>4. Spares(d)
      BY <3>3 DEF KeepInv
    <3> QED
      BY <2>2, <3>1, <3>2, <3>4, KeepFrame DEF Spares, DistinctSteps
  <2> QED
    BY <2>1, <2>2
<1> QED
  BY <1>1, <1>2, KeepTypes DEF KeepInv

\* --keep-latest N spares the N newest valid checkpoints of any run, with any
\* links, mounts, gaps and half-written trees in it, and whatever happens
\* meanwhile; a slot goes to a checkpoint that is not whole only if another
\* cleanup is deleting it, or it shares its step with a valid one (_keep_set).
THEOREM NewestAreSpared ==
  Spec => []KeepsTheNewest
<1>1. CleanInv /\ AloneInv /\ KeepInv /\ [Next]_vars => KeepInv'
  <2> SUFFICES ASSUME CleanInv, AloneInv, KeepInv, [Next]_vars PROVE KeepInv'
    OBVIOUS
  <2>1. CASE UNCHANGED vars
    <3>1. UNCHANGED <<setting, kind, files, pc, options, steps, plan, keepable0, outdated>>
      BY <2>1 DEF vars, disk, memory, history
    <3>2. \A n \in Names : IsValid(n)' <=> IsValid(n)
      BY <3>1 DEF IsValid
    <3>3. ASSUME NEW c \in Cleaners
          PROVE  /\ ReportCovers(c) => ReportCovers(c)'
                 /\ ReportIsCurrent(c) => ReportIsCurrent(c)'
      BY <3>1, <3>2 DEF ReportCovers, ReportIsCurrent
    <3>4. ASSUME NEW c \in Cleaners
          PROVE  Spares(c) => Spares(c)'
      BY <3>1 DEF Spares
    <3> QED
      BY <3>1, <3>3, <3>4 DEF KeepInv
  <2> QED
    BY <2>1, KeepStep DEF CleanInv
<1>2. KeepInv => KeepsTheNewest
  BY DEF KeepInv, KeepsTheNewest, Spares, Planned
<1> QED
  BY InitKeep, CleanAlways, AloneAlways, <1>1, <1>2, PTL DEF Spec

=============================================================================
