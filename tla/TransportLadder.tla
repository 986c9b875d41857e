-------------------------- MODULE TransportLadder --------------------------
(***************************************************************************)
(* The transfer stage of a sync with one peer: services/sync_transport.py  *)
(* walks the rungs rdma, tb and wifi; each rung pushes, then pulls, and a  *)
(* rung that fails hands what is left to the next one.                     *)
(*                                                                         *)
(* The rdma rung gives a whole direction to one `arep xfer` process.  The  *)
(* ssh rungs (tb, wifi) copy large files one by one with scp, straight to  *)
(* their final path, and the rest in archives that ditto unpacks (each     *)
(* file written aside and renamed).  scp runs without -p, so a large file  *)
(* gets the time of its arrival; ditto and arep keep modification times.   *)
(***************************************************************************)
EXTENDS SyncPlan

CONSTANTS
  Paths,
  Large,          \* files of at least 3 GiB, which the ssh rungs give to scp
  Denied,         \* names on arep's deny list
  Empty,          \* files of size 0
  Unreadable,     \* files that staging may have to skip (dataless, no permission)
  ChunkFiles,     \* files per archive
  Options,        \* the configurations and command lines considered
  RestatMayFail   \* whether the peer may fail to be re-stat'ed before a re-plan

RungNames == {"rdma", "tb", "wifi"}
NoOverride == "none"

OptionSpace == [policy : Policies, push_only : BOOLEAN, pull_only : BOOLEAN, dry_run : BOOLEAN,
                via : {"tb", "wifi"}, override : RungNames \cup {NoOverride},
                usable : SUBSET RungNames, root_is_home : BOOLEAN, rank : [RungNames -> 1..3]]

ASSUME LadderAssumption ==
  /\ Paths \subseteq Nat /\ IsFiniteSet(Paths)
  /\ Large \subseteq Paths /\ Large \cap Empty = {}
  /\ ChunkFiles \in Nat \ {0}
  /\ Options \subseteq OptionSpace
  /\ RestatMayFail \in BOOLEAN

VARIABLES
  disk,       \* disk[side][path]: the files of the two homes
  opts,
  plan,       \* [push, pull]: the plan, as the last re-plan left it
  rung, left, \* the rung at work and the set of rungs after it
  leg,        \* the direction in flight: what it has to send, whether it counted bytes
  res,        \* the result of the rung so far
  pc,
  planned,    \* ghost: the plan as given, without the direction switched off
  arrived,    \* ghost: planned files that arrived whole at least once
  excused,    \* ghost: planned files skipped as denied or unreadable, with rc 0
  resent,     \* ghost: files that arrived whole twice
  blind       \* ghost: a rung was entered without a re-plan

ghosts == <<planned, arrived, excused, resent, blind>>
vars == <<disk, opts, plan, rung, left, leg, res, pc, ghosts>>

Sides == {"local", "remote"}
Directions == {"push", "pull"}
Src(dir) == IF dir = "push" THEN "local" ELSE "remote"
Dst(dir) == IF dir = "push" THEN "remote" ELSE "local"

\* The files as the sync found them, and the time at which it runs.
Older(r, v) == [ver |-> v, mtime |-> 1, size |-> IF r \in Empty THEN 0 ELSE 2]
Newer(r, v) == [ver |-> v, mtime |-> 2, size |-> IF r \in Empty THEN 0 ELSE 3]
Now == 3
Torn == [ver |-> 0, mtime |-> Now, size |-> 1]

Files == [ver : 0..2, mtime : 1..Now, size : 0..3]
Trees == UNION {[D -> Files] : D \in SUBSET Paths}
Plans == [push : SUBSET Paths, pull : SUBSET Paths]
Results == [push : {"ok", "failed"}, pull : {"ok", "failed"}, moved : BOOLEAN]

\* What an inventory or an lstat tells of some files of a tree.
Stat(tree, rels) ==
  [r \in rels \cap DOMAIN tree |-> [mtime |-> tree[r].mtime, size |-> tree[r].size]]

Of(pl, dir) == IF dir = "push" THEN pl.push ELSE pl.pull

\* A plan mentions only files that the planning saw.
PlanOf(trees, policy) ==
  LET local  == Stat(trees["local"], Paths)
      remote == Stat(trees["remote"], Paths)
  IN  [push |-> ToPush(local, remote, policy, TRUE), pull |-> ToPull(local, remote, policy)]

-----------------------------------------------------------------------------
(* Selection: the usable rungs, or the one that --transport names.         *)

Selectable(o) ==
  IF o.via = "wifi" THEN {"wifi"}
  ELSE {n \in o.usable : /\ o.override \in {n, NoOverride}
                         /\ n = "rdma" => o.root_is_home}

\* Seeded fault: the rung that failed stays in the ladder.
After_KeepsAll(rungs, n) == rungs

After(rungs, n) == rungs \ {n}

First(rungs, o) == {n \in rungs : \A m \in rungs : o.rank[n] <= o.rank[m]}

Skipped(dir, o) == (dir = "push" /\ o.pull_only) \/ (dir = "pull" /\ o.push_only)

\* Seeded fault: a dry run is not spared the transfer.
NewLeg_Dry(dir, pl, rg, o) ==
  [dir |-> dir, counted |-> FALSE,
   todo |-> IF Skipped(dir, o) THEN {}
            ELSE Of(pl, dir) \ IF rg = "rdma" THEN Denied ELSE {}]

\* A direction that is switched off, or a dry run, has nothing to send.
NewLeg(dir, pl, rg, o) ==
  [dir |-> dir, counted |-> FALSE,
   todo |-> IF Skipped(dir, o) \/ o.dry_run THEN {}
            ELSE Of(pl, dir) \ IF rg = "rdma" THEN Denied ELSE {}]

NewResult == [push |-> "ok", pull |-> "ok", moved |-> FALSE]
NoRung == [push |-> "failed", pull |-> "failed", moved |-> FALSE]

TypeOK ==
  /\ disk \in [Sides -> Trees]
  /\ opts \in Options
  /\ plan \in Plans /\ planned \in Plans
  /\ rung \in RungNames \cup {"none"} /\ left \subseteq RungNames
  /\ leg \in [dir : Directions, todo : SUBSET Paths, counted : BOOLEAN]
  /\ res \in Results
  /\ pc \in {"select", "leg", "assess", "done"}
  /\ arrived \subseteq Paths /\ excused \subseteq Paths /\ resent \subseteq Paths
  /\ blind \in BOOLEAN

Home(v, old, new) == [r \in old \cup new |-> IF r \in new THEN Newer(r, v) ELSE Older(r, v)]
Homes(v) == {Home(v, old, new) : old \in SUBSET Paths, new \in SUBSET Paths}

Init ==
  /\ \E local \in Homes(1), remote \in Homes(2) :
        /\ disk = [side \in Sides |-> IF side = "local" THEN local ELSE remote]
        \* No policy plans a file that both sides hold with one time and size.
        /\ \A r \in DOMAIN local \cap DOMAIN remote : local[r].mtime # remote[r].mtime
  /\ opts \in Options
  /\ plan = PlanOf(disk, opts.policy)
  /\ planned = [push |-> IF opts.pull_only THEN {} ELSE plan.push,
                pull |-> IF opts.push_only THEN {} ELSE plan.pull]
  /\ rung = "none" /\ left = {}
  /\ leg = [dir |-> "push", todo |-> {}, counted |-> FALSE]
  /\ res = NewResult
  /\ pc = "select"
  /\ arrived = {} /\ excused = {} /\ resent = {} /\ blind = FALSE

Select ==
  /\ pc = "select"
  /\ IF Selectable(opts) = {}
       THEN pc' = "done" /\ res' = NoRung /\ UNCHANGED <<rung, left, leg>>
       ELSE \E n \in First(Selectable(opts), opts) :
              /\ rung' = n /\ left' = After(Selectable(opts), n)
              /\ leg' = NewLeg("push", plan, n, opts)
              /\ pc' = "leg" /\ UNCHANGED res
  /\ UNCHANGED <<disk, opts, plan, ghosts>>

-----------------------------------------------------------------------------
(* How bytes arrive.                                                       *)

Received(tree, files) ==
  [r \in DOMAIN tree \cup DOMAIN files |-> IF r \in DOMAIN files THEN files[r] ELSE tree[r]]

Copies(rels) == [r \in rels |-> disk[Src(leg.dir)][r]]

ScpCopy(r) == [q \in {r} |-> [disk[Src(leg.dir)][q] EXCEPT !.mtime = Now]]

Deliver(files) ==
  /\ disk' = [disk EXCEPT ![Dst(leg.dir)] = Received(@, files)]
  /\ arrived' = arrived \cup DOMAIN files
  /\ resent' = resent \cup (arrived \cap DOMAIN files)

HasBytes(rels) == \E r \in rels : disk[Src(leg.dir)][r].size > 0

Fail(moved) ==
  res' = [push |-> IF leg.dir = "push" THEN "failed" ELSE res.push,
          pull |-> IF leg.dir = "pull" THEN "failed" ELSE res.pull,
          moved |-> res.moved \/ moved]

(* A failed push ends the rung, except on the last ssh rung: there the     *)
(* pull is still tried.                                                    *)
LegFails(moved) ==
  /\ Fail(moved)
  /\ IF leg.dir = "push" /\ left = {} /\ (rung # "rdma" \/ opts.dry_run)
       THEN leg' = NewLeg("pull", plan, rung, opts) /\ UNCHANGED pc
       ELSE pc' = "assess" /\ UNCHANGED leg

Sending == pc = "leg" /\ leg.todo # {}

ArepSends ==
  /\ Sending /\ rung = "rdma"
  /\ Deliver(Copies(leg.todo))
  /\ leg' = [leg EXCEPT !.todo = {}, !.counted = HasBytes(leg.todo)]
  /\ UNCHANGED <<opts, plan, rung, left, res, pc, planned, excused, blind>>

(* arep cannot be started, or dies with some of the files delivered.       *)
ArepBreaks ==
  /\ Sending /\ rung = "rdma"
  /\ \E got \in SUBSET leg.todo, spawned \in BOOLEAN :
       /\ ~spawned => got = {}
       /\ Deliver(Copies(got))
       /\ LegFails(spawned)
  /\ UNCHANGED <<opts, plan, rung, left, planned, excused, blind>>

LargeTodo == leg.todo \cap Large
NextLarge(r) == r \in LargeTodo /\ \A q \in LargeTodo : r <= q

(* The bytes of the large files count only when the last of them is over.  *)
ScpSends ==
  /\ Sending /\ rung # "rdma"
  /\ \E r \in LargeTodo :
       /\ NextLarge(r)
       /\ Deliver(ScpCopy(r))
       /\ leg' = [leg EXCEPT !.todo = @ \ {r}, !.counted = LargeTodo = {r}]
  /\ UNCHANGED <<opts, plan, rung, left, res, pc, planned, excused, blind>>

(* scp fails before it writes, or leaves the final path torn.              *)
ScpBreaks ==
  /\ Sending /\ rung # "rdma"
  /\ \E r \in LargeTodo :
       /\ NextLarge(r)
       /\ \/ UNCHANGED disk
          \/ disk' = [disk EXCEPT ![Dst(leg.dir)] = Received(@, [q \in {r} |-> Torn])]
  /\ LegFails(FALSE)
  /\ UNCHANGED <<opts, plan, rung, left, ghosts>>

(* An archive carries the files that could be staged; a file that could    *)
(* not is skipped without an error.                                        *)
DittoSends ==
  /\ Sending /\ rung # "rdma" /\ LargeTodo = {}
  /\ LET batch == NextBatch(leg.todo, ChunkFiles)
     IN  \E skip \in SUBSET (batch \cap Unreadable) :
           /\ Deliver(Copies(batch \ skip))
           /\ excused' = excused \cup skip
           /\ leg' = [leg EXCEPT
                !.todo = @ \ batch,
                !.counted = \/ @
                            \/ batch # skip
                               /\ HasBytes(IF leg.dir = "push" THEN batch \ skip ELSE batch)]
  /\ UNCHANGED <<opts, plan, rung, left, res, pc, planned, blind>>

(* The pipe or the unpacking breaks with some of the files in place; only  *)
(* the archives before this one were counted.                              *)
DittoBreaks ==
  /\ Sending /\ rung # "rdma" /\ LargeTodo = {}
  /\ \E got \in SUBSET NextBatch(leg.todo, ChunkFiles) : Deliver(Copies(got))
  /\ LegFails(leg.counted)
  /\ UNCHANGED <<opts, plan, rung, left, planned, excused, blind>>

(* An exception between two commands (a name that fails validation, a full *)
(* disk while staging) ends the rung at once, whichever the rung.          *)
SshRaises ==
  /\ Sending /\ rung # "rdma"
  /\ Fail(TRUE)
  /\ pc' = "assess"
  /\ UNCHANGED <<disk, opts, plan, rung, left, leg, ghosts>>

LegDone ==
  /\ pc = "leg" /\ leg.todo = {}
  /\ res' = [res EXCEPT !.moved = @ \/ leg.counted]
  /\ IF leg.dir = "push"
       THEN leg' = NewLeg("pull", plan, rung, opts) /\ UNCHANGED pc
       ELSE pc' = "assess" /\ UNCHANGED leg
  /\ excused' = IF rung = "rdma" /\ ~opts.dry_run
                  THEN excused \cup (Of(planned, leg.dir) \cap Of(plan, leg.dir) \cap Denied)
                  ELSE excused
  /\ UNCHANGED <<disk, opts, plan, rung, left, planned, arrived, resent, blind>>

-----------------------------------------------------------------------------
\* Seeded fault: only a failed push fails the rung.
Failed_Push == res.push = "failed"

Failed == "failed" \in {res.push, res.pull}

Report ==
  /\ pc = "assess"
  /\ ~Failed \/ left = {}
  /\ pc' = "done"
  /\ UNCHANGED <<disk, opts, plan, rung, left, leg, res, ghosts>>

\* Seeded fault: the plan is kept as it is.
Replanned_KeepsAll == plan

\* What the next rung starts from.
Replanned ==
  LET rels == plan.push \cup plan.pull
  IN  Replan(plan, Stat(disk["local"], rels), Stat(disk["remote"], rels), opts.policy)

NextPlan(restat) == IF restat THEN Replanned ELSE plan

(* The next rung; after a rung that moved bytes the peer is re-stat'ed and *)
(* the plan reduced, unless the re-stat fails.                             *)
Downgrade ==
  /\ pc = "assess" /\ Failed
  /\ \E n \in First(left, opts), restat \in BOOLEAN :
       /\ restat => res.moved
       /\ ~restat => ~res.moved \/ RestatMayFail
       /\ plan' = NextPlan(restat)
       /\ rung' = n /\ left' = After(left, n)
       /\ leg' = NewLeg("push", plan', n, opts)
       /\ blind' = (blind \/ ~restat)
  /\ res' = NewResult
  /\ pc' = "leg"
  /\ UNCHANGED <<disk, opts, planned, arrived, excused, resent>>

Next ==
  \/ Select \/ ArepSends \/ ArepBreaks \/ ScpSends \/ ScpBreaks
  \/ DittoSends \/ DittoBreaks \/ SshRaises \/ LegDone \/ Report \/ Downgrade

\* Every command of the ladder runs under a timeout.
Spec == Init /\ [][Next]_vars /\ WF_vars(Next)

-----------------------------------------------------------------------------
Delivered(r, dir) ==
  /\ r \in DOMAIN disk[Dst(dir)]
  /\ disk[Dst(dir)][r].ver = disk[Src(dir)][r].ver

Ok == pc = "done" /\ ~Failed

(* A stage that ends with rc 0 has delivered every file of the plan that   *)
(* no rung excused, whichever rungs broke on the way and however far they  *)
(* got.  Large files are the exception: a torn one is newer than its       *)
(* source, and the re-plan drops it (sync_replan.py:126).                  *)
OkMeansDelivered ==
  Ok /\ ~opts.dry_run =>
    \A dir \in Directions : \A r \in Of(planned, dir) \ (excused \cup Large) : Delivered(r, dir)

(* The sending side of a planned file is never written, also when a re-    *)
(* plan finds that the torn or re-dated copy now looks newer than it.      *)
SourceIntact ==
  [][\A dir \in Directions : \A r \in Of(planned, dir) :
       disk'[Src(dir)][r] = disk[Src(dir)][r]]_vars

(* A file that is not large is sent twice only by a rung that was entered  *)
(* without a re-plan: after a re-plan, what arrived stays arrived          *)
(* (sync_replan.py:1 "re-stat both sides so nothing is sent twice").       *)
ResendOnlyWhenBlind == resent \subseteq Large \/ blind

(* The ladder ends: no rung is tried twice, whatever fails.                *)
Ends == <>(pc = "done")

\* The stage as PeerTransfer describes it.
PT == INSTANCE PeerTransfer WITH
  Fragile <- Large,
  Excusable <- Denied \cup Unreadable,
  held <- [side \in Sides |->
             [r \in DOMAIN disk[side] |-> disk[side][r].ver]],
  planned <- planned,
  owed <- [push |-> planned.push \ (arrived \cup excused),
           pull |-> planned.pull \ (arrived \cup excused)],
  dry <- opts.dry_run,
  verdict <- IF pc # "done" THEN "running" ELSE IF Failed THEN "failed" ELSE "ok"

(* The ladder implements the abstract transfer stage.                      *)
ImplementsPeerTransfer == PT!Spec
=============================================================================
