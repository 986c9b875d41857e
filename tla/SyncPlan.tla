------------------------------ MODULE SyncPlan ------------------------------
(***************************************************************************)
(* The planning side of a home sync: services/sync_plan.py and the re-plan *)
(* of services/sync_replan.py.  Everything here is pure: two inventories   *)
(* go in, the sets of files to push and to pull come out.                  *)
(*                                                                         *)
(* An inventory is a partial function from paths to FileMeta records       *)
(* [mtime, size]; a path outside its domain was not listed.  Paths are     *)
(* numbered in the order Python's sort gives their names, so that < on     *)
(* numbers is the order in which the code walks a transfer list.           *)
(***************************************************************************)
EXTENDS Naturals, FiniteSets, FiniteSetsExt

CONSTANTS NoLimit   \* the None of max_files and max_bytes

ASSUME NoLimitAssumption == NoLimit \notin Nat

FileMeta == [mtime : Nat, size : Nat]

Inventories(paths) == UNION {[D -> FileMeta] : D \in SUBSET paths}

Policies == {"newer", "larger", "prefer-local", "prefer-remote", "skip-conflict"}

-----------------------------------------------------------------------------
(* plan_transfers: who wins a file that both sides have *)

\* Seeded fault: an equal mtime counts as newer.
LocalWins_TiesWin(policy, lm, rm) ==
  \/ policy = "newer" /\ lm.mtime >= rm.mtime
  \/ policy = "larger" /\ lm.size >= rm.size
  \/ policy = "prefer-local"

\* Seeded fault: no mtime tie-break between files of one size.
RemoteWins_NoTieBreak(policy, lm, rm) ==
  \/ policy = "newer" /\ rm.mtime > lm.mtime
  \/ policy = "larger" /\ rm.size > lm.size
  \/ policy = "prefer-remote" /\ (lm.mtime # rm.mtime \/ lm.size # rm.size)

LocalWins(policy, lm, rm) ==
  \/ policy = "newer" /\ lm.mtime > rm.mtime
  \/ policy = "larger" /\ \/ lm.size > rm.size
                          \/ lm.size = rm.size /\ lm.mtime > rm.mtime
  \/ policy = "prefer-local" /\ (lm.mtime # rm.mtime \/ lm.size # rm.size)

RemoteWins(policy, lm, rm) ==
  \/ policy = "newer" /\ rm.mtime > lm.mtime
  \/ policy = "larger" /\ \/ rm.size > lm.size
                          \/ rm.size = lm.size /\ rm.mtime > lm.mtime
  \/ policy = "prefer-remote" /\ (lm.mtime # rm.mtime \/ lm.size # rm.size)

\* Seeded fault: an unlisted file counts as absent whatever the walk covered.
ToPush_UnlistedIsAbsent(local, remote, policy, remoteComplete) ==
  {rel \in DOMAIN local :
     rel \in DOMAIN remote => LocalWins(policy, local[rel], remote[rel])}

(* A file the remote walk did not list is pushed only when that walk       *)
(* covered the whole tree; otherwise it is unknown, not absent.            *)
ToPush(local, remote, policy, remoteComplete) ==
  {rel \in DOMAIN local :
     IF rel \in DOMAIN remote THEN LocalWins(policy, local[rel], remote[rel])
                              ELSE remoteComplete}

\* Seeded fault: only files that are missing here are pulled.
ToPull_MissingOnly(local, remote, policy) == DOMAIN remote \ DOMAIN local

ToPull(local, remote, policy) ==
  {rel \in DOMAIN remote :
     rel \in DOMAIN local => RemoteWins(policy, local[rel], remote[rel])}

-----------------------------------------------------------------------------
(* apply_batch_limits: smallest first, stop at the first file that does    *)
(* not fit.  A candidate is a file with its size and direction.            *)

Candidates(push, pull, local, remote) ==
  {[size |-> local[r].size, dir |-> "push", rel |-> r] : r \in push}
    \cup {[size |-> remote[r].size, dir |-> "pull", rel |-> r] : r \in pull}

\* The sort key is (size, direction, path); "pull" sorts before "push".
SortsBefore(c, d) ==
  \/ c.size < d.size
  \/ c.size = d.size /\ c.dir = "pull" /\ d.dir = "push"
  \/ c.size = d.size /\ c.dir = d.dir /\ c.rel < d.rel

\* Seeded fault: the first file is held to the byte limit as well.
Fits_FirstToo(c, cands, maxFiles, maxBytes) ==
  LET earlier == {d \in cands : SortsBefore(d, c)}
  IN  /\ maxFiles = NoLimit \/ Cardinality(earlier) < maxFiles
      /\ \/ maxBytes = NoLimit
         \/ MapThenSumSet(LAMBDA d : d.size, earlier) + c.size <= maxBytes

Fits(c, cands, maxFiles, maxBytes) ==
  LET earlier == {d \in cands : SortsBefore(d, c)}
  IN  /\ maxFiles = NoLimit \/ Cardinality(earlier) < maxFiles
      /\ \/ maxBytes = NoLimit
         \/ earlier = {}    \* the first file goes even if it alone exceeds the limit
         \/ MapThenSumSet(LAMBDA d : d.size, earlier) + c.size <= maxBytes

Admitted(cands, maxFiles, maxBytes) ==
  {c \in cands : \A d \in cands :
     d = c \/ SortsBefore(d, c) => Fits(d, cands, maxFiles, maxBytes)}

RelsOf(cands, dir) == {c.rel : c \in {d \in cands : d.dir = dir}}

-----------------------------------------------------------------------------
(* classify_compare and precise_delta: what --compare and delta report *)

ClassifyCompare(local, remote) ==
  LET both == DOMAIN local \cap DOMAIN remote
  IN  [only_local   |-> DOMAIN local \ DOMAIN remote,
       only_remote  |-> DOMAIN remote \ DOMAIN local,
       local_newer  |-> {r \in both : local[r].mtime > remote[r].mtime},
       remote_newer |-> {r \in both : remote[r].mtime > local[r].mtime},
       equal        |-> {r \in both : local[r].mtime = remote[r].mtime}]

\* precise_delta plans as if the remote walk had been complete.
PreciseDelta(local, remote, policy) ==
  [push |-> ToPush(local, remote, policy, TRUE), pull |-> ToPull(local, remote, policy)]

-----------------------------------------------------------------------------
(* _chunk_rels: a leg sends its files in archives, each the longest run of *)
(* the remaining files, in path order, that stays within the limit.  The   *)
(* byte limit of an archive cuts the same way as the file limit kept here. *)

NextBatch(rels, chunkFiles) ==
  {r \in rels : Cardinality({q \in rels : q < r}) < chunkFiles}

-----------------------------------------------------------------------------
(* replan_remaining: after a partial rung, keep what a fresh plan over the *)
(* re-stat'ed files still wants in the same direction.  The whole current  *)
(* plan was stat'ed, so an unlisted file is absent: remote_complete holds. *)

\* Seeded fault: the fresh plan is used as it is.
Replan_Fresh(plan, localNow, remoteNow, policy) ==
  [push |-> ToPush(localNow, remoteNow, policy, TRUE),
   pull |-> ToPull(localNow, remoteNow, policy)]

Replan(plan, localNow, remoteNow, policy) ==
  [push |-> plan.push \cap ToPush(localNow, remoteNow, policy, TRUE),
   pull |-> plan.pull \cap ToPull(localNow, remoteNow, policy)]
=============================================================================
