----------------------- MODULE TransportLadderProofs -----------------------
(* The transfer ladder of one peer, for any files, any options and any     *)
(* order in which the rungs break: types, the sending side stays intact;   *)
(* what a stage delivers, by accounts that follow every file that is not   *)
(* large from the plan to its arrival; what is sent twice; and the         *)
(* refinement of PeerTransfer, which the accounts make possible.           *)
EXTENDS TransportLadder, TLAPS

-----------------------------------------------------------------------------
(* The inductive invariant behind types and the sending side.              *)

PlannedApart == planned.push \cap planned.pull = {}

PlannedAtSource == \A dir \in Directions : Of(planned, dir) \subseteq DOMAIN disk[Src(dir)]

\* What the ladder works on never grows beyond the plan it was given.
PlanShrinks ==
  \A dir \in Directions :
    IF Skipped(dir, opts) THEN Of(planned, dir) = {} ELSE Of(plan, dir) \subseteq Of(planned, dir)

TodoPlanned == leg.todo \subseteq Of(planned, leg.dir)

LadderInv == TypeOK /\ PlannedApart /\ PlannedAtSource /\ PlanShrinks /\ TodoPlanned

-----------------------------------------------------------------------------
(* Trees, plans and legs.                                                  *)

LEMMA SidesOfDirections ==
  ASSUME NEW dir \in Directions
  PROVE  Src(dir) \in Sides /\ Dst(dir) \in Sides /\ Src(dir) # Dst(dir)
BY DEF Directions, Sides, Src, Dst

LEMMA OtherDirection ==
  ASSUME NEW dir \in Directions, NEW other \in Directions, dir # other
  PROVE  Src(other) = Dst(dir) /\ Dst(other) = Src(dir)
BY DEF Directions, Src, Dst

LEMMA TreeDef ==
  ASSUME NEW tree
  PROVE  tree \in Trees <=> \E D \in SUBSET Paths : tree \in [D -> Files]
BY DEF Trees

LEMMA TreeParts ==
  ASSUME NEW tree \in Trees
  PROVE  /\ DOMAIN tree \subseteq Paths
         /\ \A r \in DOMAIN tree : tree[r] \in Files
BY DEF Trees

LEMMA ReceivedTree ==
  ASSUME NEW tree \in Trees, NEW files \in Trees
  PROVE  /\ Received(tree, files) \in Trees
         /\ DOMAIN Received(tree, files) = DOMAIN tree \cup DOMAIN files
         /\ \A r \in DOMAIN files : Received(tree, files)[r] = files[r]
         /\ \A r \in DOMAIN tree \ DOMAIN files : Received(tree, files)[r] = tree[r]
<1>1. Received(tree, files) \in [DOMAIN tree \cup DOMAIN files -> Files]
  BY TreeParts DEF Received
<1>2. DOMAIN tree \cup DOMAIN files \in SUBSET Paths
  BY TreeParts
<1> QED
  BY <1>1, <1>2 DEF Received, Trees

LEMMA CopiesTree ==
  ASSUME TypeOK, NEW rels, rels \subseteq DOMAIN disk[Src(leg.dir)]
  PROVE  Copies(rels) \in Trees /\ DOMAIN Copies(rels) = rels
<1>1. disk[Src(leg.dir)] \in Trees
  BY SidesOfDirections DEF TypeOK
<1>2. Copies(rels) \in [rels -> Files] /\ rels \subseteq Paths
  BY <1>1, TreeParts DEF Copies
<1> QED
  BY <1>2 DEF Copies, Trees

\* An inventory as the plan reads it: any files, with times and sizes in Nat.
Inventory(inv) == \A r \in DOMAIN inv : inv[r] \in FileMeta

(* What an inventory tells is fit for planning.                            *)
LEMMA StatInventory ==
  ASSUME NEW tree \in Trees, NEW rels
  PROVE  Inventory(Stat(tree, rels)) /\ DOMAIN Stat(tree, rels) = rels \cap DOMAIN tree
<1>1. ASSUME NEW r \in rels \cap DOMAIN tree
      PROVE  Stat(tree, rels)[r] \in FileMeta
  BY TreeParts DEF Stat, Files, FileMeta, Now
<1> QED
  BY <1>1 DEF Inventory, Stat

LEMMA PlanTypes ==
  ASSUME NEW dir \in Directions, NEW pl \in Plans
  PROVE  Of(pl, dir) \in SUBSET Paths
BY DEF Directions, Plans, Of

LEMMA NewLegFacts ==
  ASSUME NEW dir \in Directions, NEW pl \in Plans, NEW rg, NEW o \in OptionSpace
  PROVE  /\ NewLeg(dir, pl, rg, o) \in [dir : Directions, todo : SUBSET Paths, counted : BOOLEAN]
         /\ NewLeg(dir, pl, rg, o).dir = dir
         /\ NewLeg(dir, pl, rg, o).todo \subseteq Of(pl, dir)
         /\ Skipped(dir, o) \/ o.dry_run => NewLeg(dir, pl, rg, o).todo = {}
         /\ ~Skipped(dir, o) /\ ~o.dry_run =>
              NewLeg(dir, pl, rg, o).todo = Of(pl, dir) \ IF rg = "rdma" THEN Denied ELSE {}
BY PlanTypes DEF NewLeg, OptionSpace

(* A plan of two homes moves nothing both ways and only what is there.     *)
LEMMA PlanOfFacts ==
  ASSUME NEW trees \in [Sides -> Trees], NEW policy
  PROVE  /\ PlanOf(trees, policy) \in Plans
         /\ PlanOf(trees, policy).push \cap PlanOf(trees, policy).pull = {}
         /\ \A dir \in Directions : Of(PlanOf(trees, policy), dir) \subseteq DOMAIN trees[Src(dir)]
<1> DEFINE local  == Stat(trees["local"], Paths)
           remote == Stat(trees["remote"], Paths)
           push   == ToPush(local, remote, policy, TRUE)
           pull   == ToPull(local, remote, policy)
<1>1. trees["local"] \in Trees /\ trees["remote"] \in Trees
  BY DEF Sides
<1>2. /\ Inventory(local) /\ DOMAIN local = Paths \cap DOMAIN trees["local"]
      /\ Inventory(remote) /\ DOMAIN remote = Paths \cap DOMAIN trees["remote"]
  BY <1>1, StatInventory
<1>3. push \cap pull = {} /\ push \subseteq DOMAIN local /\ pull \subseteq DOMAIN remote
  BY <1>2 DEF Inventory, FileMeta, ToPush, ToPull, LocalWins, RemoteWins
<1>4. PlanOf(trees, policy) = [push |-> push, pull |-> pull]
  BY DEF PlanOf
<1> QED
  <2> HIDE DEF local, remote, push, pull
  <2> QED
    BY <1>2, <1>3, <1>4 DEF Plans, Directions, Of, Src

-----------------------------------------------------------------------------
(* What a step does to the disks and to the leg.                           *)

(* Files that arrive replace what the receiving side had under their names *)
(* and touch nothing else; no planned file is touched at its source.       *)
LEMMA DiskStep ==
  ASSUME LadderInv, NEW files \in Trees, DOMAIN files \subseteq Of(planned, leg.dir),
         disk' = [disk EXCEPT ![Dst(leg.dir)] = Received(@, files)]
  PROVE  /\ disk' \in [Sides -> Trees]
         /\ disk'[Src(leg.dir)] = disk[Src(leg.dir)]
         /\ \A side \in Sides : DOMAIN disk[side] \subseteq DOMAIN disk'[side]
         /\ \A r \in DOMAIN files : /\ r \in DOMAIN disk'[Dst(leg.dir)]
                                    /\ disk'[Dst(leg.dir)][r] = files[r]
         /\ \A side \in Sides : \A r :
              r \notin DOMAIN files =>
                /\ r \in DOMAIN disk'[side] <=> r \in DOMAIN disk[side]
                /\ r \in DOMAIN disk[side] => disk'[side][r] = disk[side][r]
         /\ \A dir \in Directions : \A r \in Of(planned, dir) :
              disk'[Src(dir)][r] = disk[Src(dir)][r]
<1> DEFINE tree == disk[Dst(leg.dir)]
           new  == Received(tree, files)
<1>1. /\ leg.dir \in Directions /\ disk \in [Sides -> Trees]
      /\ Src(leg.dir) \in Sides /\ Dst(leg.dir) \in Sides /\ Src(leg.dir) # Dst(leg.dir)
  BY SidesOfDirections DEF LadderInv, TypeOK
<1>2. tree \in Trees
  BY <1>1
<1>3. /\ new \in Trees /\ DOMAIN new = DOMAIN tree \cup DOMAIN files
      /\ \A r \in DOMAIN files : new[r] = files[r]
      /\ \A r \in DOMAIN tree \ DOMAIN files : new[r] = tree[r]
  BY <1>2, ReceivedTree
<1>4. /\ disk' = [disk EXCEPT ![Dst(leg.dir)] = new]
      /\ disk'[Dst(leg.dir)] = new
      /\ \A side \in Sides : side # Dst(leg.dir) => disk'[side] = disk[side]
  BY <1>1
<1> HIDE DEF new
<1>5. disk' \in [Sides -> Trees]
  BY <1>1, <1>3, <1>4
<1>6. \A side \in Sides : \A r :
        r \notin DOMAIN files =>
          /\ r \in DOMAIN disk'[side] <=> r \in DOMAIN disk[side]
          /\ r \in DOMAIN disk[side] => disk'[side][r] = disk[side][r]
  BY <1>3, <1>4
<1>7. ASSUME NEW dir \in Directions, NEW r \in Of(planned, dir)
      PROVE  disk'[Src(dir)][r] = disk[Src(dir)][r]
  <2>1. CASE dir = leg.dir
    BY <2>1, <1>1, <1>4
  <2>2. CASE dir # leg.dir
    <3>1. r \notin DOMAIN files
      BY <2>2, <1>1, <1>7 DEF LadderInv, PlannedApart, Of, Directions
    <3>2. Src(dir) \in Sides /\ r \in DOMAIN disk[Src(dir)]
      BY <1>7, SidesOfDirections DEF LadderInv, PlannedAtSource
    <3> QED
      BY <3>1, <3>2, <1>6
  <2> QED
    BY <2>1, <2>2
<1> QED
  BY <1>1, <1>3, <1>4, <1>5, <1>6, <1>7

LEMMA LadderOptions == ASSUME TypeOK PROVE opts \in OptionSpace
BY LadderAssumption DEF TypeOK

(* The leg of a rung that starts from a plan within the one given.         *)
LEMMA LegStarts ==
  ASSUME LadderInv, NEW dir \in Directions, NEW rg
  PROVE  /\ NewLeg(dir, plan, rg, opts) \in [dir : Directions, todo : SUBSET Paths, counted : BOOLEAN]
         /\ NewLeg(dir, plan, rg, opts).dir = dir
         /\ NewLeg(dir, plan, rg, opts).todo \subseteq Of(planned, dir)
<1>1. opts \in OptionSpace /\ plan \in Plans
  BY LadderOptions DEF LadderInv, TypeOK
<1> QED
  BY <1>1, NewLegFacts DEF LadderInv, PlanShrinks

LEMMA LegFailsFacts ==
  ASSUME LadderInv, NEW moved \in BOOLEAN, LegFails(moved), UNCHANGED planned
  PROVE  /\ leg' \in [dir : Directions, todo : SUBSET Paths, counted : BOOLEAN]
         /\ res' \in Results
         /\ pc' \in {"select", "leg", "assess", "done"}
         /\ TodoPlanned'
<1>1. /\ leg \in [dir : Directions, todo : SUBSET Paths, counted : BOOLEAN]
      /\ res \in Results /\ pc \in {"select", "leg", "assess", "done"}
  BY DEF LadderInv, TypeOK
<1>2. res' \in Results
  BY <1>1 DEF LegFails, Fail, Results, Directions
<1>3. CASE leg' = NewLeg("pull", plan, rung, opts) /\ UNCHANGED pc
  <2>1. "pull" \in Directions
    BY DEF Directions
  <2> QED
    BY <1>1, <1>2, <1>3, <2>1, LegStarts DEF TodoPlanned
<1>4. CASE pc' = "assess" /\ UNCHANGED leg
  BY <1>1, <1>2, <1>4 DEF TodoPlanned, LadderInv
<1> QED
  BY <1>3, <1>4 DEF LegFails

(* What every leg works on has a source.                                   *)
LEMMA TodoAtSource ==
  ASSUME LadderInv
  PROVE  leg.todo \subseteq DOMAIN disk[Src(leg.dir)]
BY DEF LadderInv, TypeOK, TodoPlanned, PlannedAtSource

LEMMA CopiesArrive ==
  ASSUME LadderInv, NEW rels, rels \subseteq leg.todo
  PROVE  /\ Copies(rels) \in Trees
         /\ DOMAIN Copies(rels) = rels
         /\ rels \subseteq Of(planned, leg.dir)
BY TodoAtSource, CopiesTree DEF LadderInv, TodoPlanned

LEMMA ScpCopyArrives ==
  ASSUME LadderInv, NEW r \in leg.todo
  PROVE  ScpCopy(r) \in Trees /\ DOMAIN ScpCopy(r) = {r} /\ {r} \subseteq Of(planned, leg.dir)
<1>1. disk[Src(leg.dir)] \in Trees /\ r \in DOMAIN disk[Src(leg.dir)]
  BY TodoAtSource, SidesOfDirections DEF LadderInv, TypeOK
<1>2. disk[Src(leg.dir)][r] \in Files /\ r \in Paths
  BY <1>1, TreeParts
<1>3. ScpCopy(r) \in [{r} -> Files]
  BY <1>2 DEF ScpCopy, Files, Now
<1> QED
  BY <1>2, <1>3 DEF Trees, LadderInv, TodoPlanned

LEMMA TornArrives ==
  ASSUME LadderInv, NEW r \in leg.todo
  PROVE  /\ [q \in {r} |-> Torn] \in Trees /\ DOMAIN [q \in {r} |-> Torn] = {r}
         /\ {r} \subseteq Of(planned, leg.dir)
<1>1. r \in Paths /\ [q \in {r} |-> Torn] \in [{r} -> Files]
  BY DEF LadderInv, TypeOK, Torn, Files, Now
<1> QED
  BY <1>1 DEF Trees, LadderInv, TodoPlanned

LEMMA NextBatchTodo == NextBatch(leg.todo, ChunkFiles) \subseteq leg.todo
BY DEF NextBatch

(* A step keeps the invariant when it keeps the plans, the disks lose no   *)
(* file and the leg stays within the plan given.                           *)
LEMMA KeepsPlans ==
  ASSUME LadderInv, UNCHANGED <<opts, plan, planned>>, TypeOK', TodoPlanned',
         \A side \in Sides : DOMAIN disk[side] \subseteq DOMAIN disk'[side]
  PROVE  LadderInv'
<1>1. PlannedApart' /\ PlanShrinks'
  BY DEF LadderInv, PlannedApart, PlanShrinks, Of
<1>2. PlannedAtSource'
  BY SidesOfDirections DEF LadderInv, PlannedAtSource, Of
<1> QED
  BY <1>1, <1>2 DEF LadderInv

\* A step that delivers nothing and ends the rung, or the stage.
LEMMA KeepsDisks ==
  ASSUME LadderInv, UNCHANGED <<disk, opts, plan, planned>>, TypeOK', TodoPlanned'
  PROVE  LadderInv'
BY KeepsPlans

LEMMA DeliverFacts ==
  ASSUME LadderInv, NEW files \in Trees, DOMAIN files \subseteq Of(planned, leg.dir), Deliver(files)
  PROVE  /\ disk' \in [Sides -> Trees]
         /\ \A side \in Sides : DOMAIN disk[side] \subseteq DOMAIN disk'[side]
         /\ \A dir \in Directions : \A r \in Of(planned, dir) :
              disk'[Src(dir)][r] = disk[Src(dir)][r]
         /\ arrived' \subseteq Paths /\ resent' \subseteq Paths
<1>1. arrived' \subseteq Paths /\ resent' \subseteq Paths
  BY TreeParts DEF Deliver, LadderInv, TypeOK
<1> QED
  BY <1>1, DiskStep DEF Deliver

-----------------------------------------------------------------------------
(* The invariant is inductive.                                             *)

LEMMA LadderInit == Init => LadderInv
<1> SUFFICES ASSUME Init PROVE LadderInv
  OBVIOUS
<1>1. disk \in [Sides -> Trees]
  <2>1. \A v \in {1, 2} : Homes(v) \subseteq Trees
    <3>1. ASSUME NEW v \in {1, 2}, NEW r PROVE Older(r, v) \in Files /\ Newer(r, v) \in Files
      BY <3>1 DEF Older, Newer, Files, Now
    <3>2. ASSUME NEW v \in {1, 2}, NEW old \in SUBSET Paths, NEW new \in SUBSET Paths
          PROVE  Home(v, old, new) \in Trees
      <4>1. Home(v, old, new) \in [old \cup new -> Files]
        BY <3>1 DEF Home
      <4>2. old \cup new \in SUBSET Paths
        OBVIOUS
      <4> QED
        BY <4>1, <4>2 DEF Trees
    <3> QED
      BY <3>2 DEF Homes
  <2> QED
    BY <2>1 DEF Init, Sides
<1>2. opts \in Options /\ opts \in OptionSpace
  BY LadderAssumption DEF Init
<1>3. /\ plan = PlanOf(disk, opts.policy) /\ plan \in Plans
      /\ plan.push \cap plan.pull = {}
      /\ \A dir \in Directions : Of(plan, dir) \subseteq DOMAIN disk[Src(dir)]
  BY <1>1, PlanOfFacts DEF Init
<1>4. planned = [push |-> IF opts.pull_only THEN {} ELSE plan.push,
                 pull |-> IF opts.push_only THEN {} ELSE plan.pull]
  BY DEF Init
<1>5. planned \in Plans
  BY <1>3, <1>4 DEF Plans
<1>6. TypeOK
  BY <1>1, <1>2, <1>3, <1>5 DEF Init, TypeOK, Results, NewResult, Directions, RungNames
<1>7. PlannedApart
  BY <1>3, <1>4 DEF PlannedApart
<1>8. PlannedAtSource
  BY <1>3, <1>4 DEF PlannedAtSource, Of
<1>9. PlanShrinks
  BY <1>4 DEF PlanShrinks, Skipped, Of, Directions
<1>10. TodoPlanned
  BY DEF Init, TodoPlanned
<1> QED
  BY <1>6, <1>7, <1>8, <1>9, <1>10 DEF LadderInv

\* No planned file is written where it comes from.
SourcesUntouched ==
  \A dir \in Directions : \A r \in Of(planned, dir) : disk'[Src(dir)][r] = disk[Src(dir)][r]

LEMMA SelectKeeps == LadderInv /\ Select => LadderInv' /\ SourcesUntouched
<1> SUFFICES ASSUME LadderInv, Select PROVE LadderInv' /\ SourcesUntouched
  OBVIOUS
<1> USE DEF Select, ghosts
<1>1. CASE pc' = "done" /\ res' = NoRung /\ UNCHANGED <<rung, left, leg>>
  <2>1. TypeOK' /\ TodoPlanned'
    BY <1>1 DEF LadderInv, TypeOK, TodoPlanned, NoRung, Results
  <2> QED
    BY <2>1, KeepsDisks DEF SourcesUntouched
<1>2. CASE \E n \in First(Selectable(opts), opts) :
             /\ rung' = n /\ left' = After(Selectable(opts), n)
             /\ leg' = NewLeg("push", plan, n, opts)
             /\ pc' = "leg" /\ UNCHANGED res
  <2>1. PICK n \in First(Selectable(opts), opts) :
          /\ rung' = n /\ left' = After(Selectable(opts), n)
          /\ leg' = NewLeg("push", plan, n, opts)
          /\ pc' = "leg" /\ UNCHANGED res
    BY <1>2
  <2>2. Selectable(opts) \subseteq RungNames
    BY LadderOptions DEF LadderInv, Selectable, OptionSpace, RungNames
  <2>3. rung' \in RungNames /\ left' \subseteq RungNames
    BY <2>1, <2>2 DEF First, After
  <2>4. leg' \in [dir : Directions, todo : SUBSET Paths, counted : BOOLEAN] /\ TodoPlanned'
    BY <2>1, LegStarts DEF TodoPlanned, Directions
  <2>5. TypeOK'
    BY <2>1, <2>3, <2>4 DEF LadderInv, TypeOK
  <2> QED
    BY <2>4, <2>5, KeepsDisks DEF SourcesUntouched
<1> QED
  BY <1>1, <1>2

LEMMA ArepSendsKeeps == LadderInv /\ ArepSends => LadderInv' /\ SourcesUntouched
<1> SUFFICES ASSUME LadderInv, ArepSends PROVE LadderInv' /\ SourcesUntouched
  OBVIOUS
<1>1. Copies(leg.todo) \in Trees /\ DOMAIN Copies(leg.todo) \subseteq Of(planned, leg.dir)
  BY CopiesArrive
<1>2. Deliver(Copies(leg.todo))
  BY DEF ArepSends
<1>3. leg' = [leg EXCEPT !.todo = {}, !.counted = HasBytes(leg.todo)]
  BY DEF ArepSends
<1>4. leg' \in [dir : Directions, todo : SUBSET Paths, counted : BOOLEAN] /\ TodoPlanned'
  BY <1>3 DEF LadderInv, TypeOK, HasBytes, TodoPlanned
<1>5. TypeOK'
  BY <1>1, <1>2, <1>4, DeliverFacts DEF ArepSends, LadderInv, TypeOK
<1> QED
  BY <1>1, <1>2, <1>4, <1>5, DeliverFacts, KeepsPlans DEF ArepSends, SourcesUntouched

LEMMA ArepBreaksKeeps == LadderInv /\ ArepBreaks => LadderInv' /\ SourcesUntouched
<1> SUFFICES ASSUME LadderInv, ArepBreaks PROVE LadderInv' /\ SourcesUntouched
  OBVIOUS
<1>1. PICK got \in SUBSET leg.todo, spawned \in BOOLEAN :
        Deliver(Copies(got)) /\ LegFails(spawned)
  BY DEF ArepBreaks
<1>2. Copies(got) \in Trees /\ DOMAIN Copies(got) \subseteq Of(planned, leg.dir)
  BY CopiesArrive
<1>3. UNCHANGED <<opts, plan, rung, left, planned, excused, blind>>
  BY DEF ArepBreaks
<1>4. TypeOK' /\ TodoPlanned'
  BY <1>1, <1>2, <1>3, DeliverFacts, LegFailsFacts DEF LadderInv, TypeOK
<1> QED
  BY <1>1, <1>2, <1>3, <1>4, DeliverFacts, KeepsPlans DEF SourcesUntouched

LEMMA ScpSendsKeeps == LadderInv /\ ScpSends => LadderInv' /\ SourcesUntouched
<1> SUFFICES ASSUME LadderInv, ScpSends PROVE LadderInv' /\ SourcesUntouched
  OBVIOUS
<1>1. PICK r \in LargeTodo :
        /\ Deliver(ScpCopy(r))
        /\ leg' = [leg EXCEPT !.todo = @ \ {r}, !.counted = LargeTodo = {r}]
  BY DEF ScpSends
<1>2. ScpCopy(r) \in Trees /\ DOMAIN ScpCopy(r) \subseteq Of(planned, leg.dir)
  BY ScpCopyArrives DEF LargeTodo
<1>3. leg' \in [dir : Directions, todo : SUBSET Paths, counted : BOOLEAN] /\ TodoPlanned'
  BY <1>1 DEF ScpSends, LadderInv, TypeOK, TodoPlanned
<1>4. TypeOK'
  BY <1>1, <1>2, <1>3, DeliverFacts DEF ScpSends, LadderInv, TypeOK
<1> QED
  BY <1>1, <1>2, <1>3, <1>4, DeliverFacts, KeepsPlans DEF ScpSends, SourcesUntouched

LEMMA ScpBreaksKeeps == LadderInv /\ ScpBreaks => LadderInv' /\ SourcesUntouched
<1> SUFFICES ASSUME LadderInv, ScpBreaks PROVE LadderInv' /\ SourcesUntouched
  OBVIOUS
<1>1. UNCHANGED <<opts, plan, rung, left, planned, arrived, excused, resent, blind>>
  BY DEF ScpBreaks, ghosts
<1>2. LegFails(FALSE)
  BY DEF ScpBreaks
<1>3. /\ disk' \in [Sides -> Trees] /\ SourcesUntouched
      /\ \A side \in Sides : DOMAIN disk[side] \subseteq DOMAIN disk'[side]
  <2>1. CASE UNCHANGED disk
    BY <2>1 DEF LadderInv, TypeOK, SourcesUntouched
  <2>2. CASE \E r \in LargeTodo :
               disk' = [disk EXCEPT ![Dst(leg.dir)] = Received(@, [q \in {r} |-> Torn])]
    <3>1. PICK r \in LargeTodo :
            disk' = [disk EXCEPT ![Dst(leg.dir)] = Received(@, [q \in {r} |-> Torn])]
      BY <2>2
    <3> DEFINE torn == [q \in {r} |-> Torn]
    <3>2. torn \in Trees /\ DOMAIN torn \subseteq Of(planned, leg.dir)
      BY TornArrives DEF LargeTodo
    <3>3. disk' = [disk EXCEPT ![Dst(leg.dir)] = Received(@, torn)]
      BY <3>1
    <3> HIDE DEF torn
    <3> QED
      BY <3>2, <3>3, DiskStep DEF SourcesUntouched
  <2> QED
    BY <2>1, <2>2 DEF ScpBreaks
<1>4. TypeOK' /\ TodoPlanned'
  BY <1>1, <1>2, <1>3, LegFailsFacts DEF LadderInv, TypeOK
<1> QED
  BY <1>1, <1>3, <1>4, KeepsPlans

LEMMA DittoSendsKeeps == LadderInv /\ DittoSends => LadderInv' /\ SourcesUntouched
<1> SUFFICES ASSUME LadderInv, DittoSends PROVE LadderInv' /\ SourcesUntouched
  OBVIOUS
<1> DEFINE batch == NextBatch(leg.todo, ChunkFiles)
<1>1. PICK skip \in SUBSET (batch \cap Unreadable) :
        /\ Deliver(Copies(batch \ skip))
        /\ excused' = excused \cup skip
        /\ leg' = [leg EXCEPT
             !.todo = @ \ batch,
             !.counted = \/ @
                         \/ batch # skip
                            /\ HasBytes(IF leg.dir = "push" THEN batch \ skip ELSE batch)]
  BY DEF DittoSends
<1>2. batch \subseteq leg.todo /\ leg.todo \subseteq Paths
  BY NextBatchTodo DEF LadderInv, TypeOK
<1> HIDE DEF batch
<1>3. /\ Copies(batch \ skip) \in Trees
      /\ DOMAIN Copies(batch \ skip) \subseteq Of(planned, leg.dir)
  BY <1>2, CopiesArrive
<1>4. leg' \in [dir : Directions, todo : SUBSET Paths, counted : BOOLEAN] /\ TodoPlanned'
  BY <1>1 DEF DittoSends, LadderInv, TypeOK, TodoPlanned, HasBytes
<1>5. TypeOK'
  BY <1>1, <1>2, <1>3, <1>4, DeliverFacts DEF DittoSends, LadderInv, TypeOK
<1> QED
  BY <1>1, <1>3, <1>4, <1>5, DeliverFacts, KeepsPlans DEF DittoSends, SourcesUntouched

LEMMA DittoBreaksKeeps == LadderInv /\ DittoBreaks => LadderInv' /\ SourcesUntouched
<1> SUFFICES ASSUME LadderInv, DittoBreaks PROVE LadderInv' /\ SourcesUntouched
  OBVIOUS
<1>1. PICK got \in SUBSET NextBatch(leg.todo, ChunkFiles) : Deliver(Copies(got))
  BY DEF DittoBreaks
<1>2. Copies(got) \in Trees /\ DOMAIN Copies(got) \subseteq Of(planned, leg.dir)
  BY NextBatchTodo, CopiesArrive
<1>3. UNCHANGED <<opts, plan, rung, left, planned, excused, blind>> /\ LegFails(leg.counted)
  BY DEF DittoBreaks
<1>4. leg.counted \in BOOLEAN
  BY DEF LadderInv, TypeOK
<1>5. TypeOK' /\ TodoPlanned'
  BY <1>1, <1>2, <1>3, <1>4, DeliverFacts, LegFailsFacts DEF LadderInv, TypeOK
<1> QED
  BY <1>1, <1>2, <1>3, <1>5, DeliverFacts, KeepsPlans DEF SourcesUntouched

LEMMA SshRaisesKeeps == LadderInv /\ SshRaises => LadderInv' /\ SourcesUntouched
<1> SUFFICES ASSUME LadderInv, SshRaises PROVE LadderInv' /\ SourcesUntouched
  OBVIOUS
<1>1. TypeOK' /\ TodoPlanned'
  BY DEF SshRaises, ghosts, Fail, Results, Directions, LadderInv, TypeOK, TodoPlanned
<1> QED
  BY <1>1, KeepsDisks DEF SshRaises, ghosts, SourcesUntouched

LEMMA LegDoneKeeps == LadderInv /\ LegDone => LadderInv' /\ SourcesUntouched
<1> SUFFICES ASSUME LadderInv, LegDone PROVE LadderInv' /\ SourcesUntouched
  OBVIOUS
<1>1. UNCHANGED <<disk, opts, plan, rung, left, planned, arrived, resent, blind>>
  BY DEF LegDone
<1>2. excused' \subseteq Paths
  <2>1. leg.dir \in Directions /\ planned \in Plans /\ excused \subseteq Paths
    BY DEF LadderInv, TypeOK
  <2> QED
    BY <2>1, PlanTypes DEF LegDone
<1>3. res' \in Results
  BY DEF LegDone, LadderInv, TypeOK, Results
<1>4. /\ leg' \in [dir : Directions, todo : SUBSET Paths, counted : BOOLEAN]
      /\ pc' \in {"select", "leg", "assess", "done"}
      /\ TodoPlanned'
  <2>1. CASE leg' = NewLeg("pull", plan, rung, opts) /\ UNCHANGED pc
    BY <1>1, <2>1, LegStarts DEF LadderInv, TypeOK, TodoPlanned, Directions
  <2>2. CASE pc' = "assess" /\ UNCHANGED leg
    BY <1>1, <2>2 DEF LadderInv, TypeOK, TodoPlanned
  <2> QED
    BY <2>1, <2>2 DEF LegDone
<1>5. TypeOK'
  BY <1>1, <1>2, <1>3, <1>4 DEF LadderInv, TypeOK
<1> QED
  BY <1>1, <1>4, <1>5, KeepsDisks DEF SourcesUntouched

LEMMA ReportKeeps == LadderInv /\ Report => LadderInv' /\ SourcesUntouched
<1> SUFFICES ASSUME LadderInv, Report PROVE LadderInv' /\ SourcesUntouched
  OBVIOUS
<1>1. TypeOK' /\ TodoPlanned'
  BY DEF Report, ghosts, LadderInv, TypeOK, TodoPlanned
<1> QED
  BY <1>1, KeepsDisks DEF Report, ghosts, SourcesUntouched

(* A re-plan keeps within the plan it starts from, so also a torn or re-   *)
(* dated copy cannot turn a file around.                                   *)
LEMMA NextPlanShrinks ==
  ASSUME LadderInv, NEW restat \in BOOLEAN
  PROVE  /\ NextPlan(restat) \in Plans
         /\ \A dir \in Directions : Of(NextPlan(restat), dir) \subseteq Of(plan, dir)
<1>1. plan \in Plans
  BY DEF LadderInv, TypeOK
<1>2. Replanned \in Plans /\ Replanned.push \subseteq plan.push /\ Replanned.pull \subseteq plan.pull
  BY <1>1 DEF Replanned, Replan, Plans
<1> QED
  BY <1>1, <1>2 DEF NextPlan, Of

LEMMA DowngradeKeeps == LadderInv /\ Downgrade => LadderInv' /\ SourcesUntouched
<1> SUFFICES ASSUME LadderInv, Downgrade PROVE LadderInv' /\ SourcesUntouched
  OBVIOUS
<1>1. PICK n \in First(left, opts), restat \in BOOLEAN :
        /\ plan' = NextPlan(restat)
        /\ rung' = n /\ left' = After(left, n)
        /\ leg' = NewLeg("push", plan', n, opts)
        /\ blind' = (blind \/ ~restat)
  BY DEF Downgrade
<1>2. UNCHANGED <<disk, opts, planned, arrived, excused, resent>> /\ pc' = "leg" /\ res' = NewResult
  BY DEF Downgrade
<1>3. plan' \in Plans /\ PlanShrinks'
  BY <1>1, <1>2, NextPlanShrinks DEF LadderInv, PlanShrinks
<1>4. /\ leg' \in [dir : Directions, todo : SUBSET Paths, counted : BOOLEAN]
      /\ leg'.dir = "push" /\ leg'.todo \subseteq Of(plan', "push")
      /\ Skipped("push", opts) => leg'.todo = {}
  BY <1>1, <1>3, NewLegFacts, LadderOptions DEF LadderInv, Directions
<1>5. TodoPlanned'
  BY <1>2, <1>3, <1>4 DEF TodoPlanned, PlanShrinks, Directions
<1>6. rung' \in RungNames /\ left' \subseteq RungNames /\ blind' \in BOOLEAN /\ res' \in Results
  BY <1>1, <1>2 DEF LadderInv, TypeOK, First, After, NewResult, Results
<1>7. TypeOK'
  BY <1>2, <1>3, <1>4, <1>6 DEF LadderInv, TypeOK
<1>8. PlannedApart' /\ PlannedAtSource' /\ SourcesUntouched
  BY <1>2 DEF LadderInv, PlannedApart, PlannedAtSource, SourcesUntouched
<1> QED
  BY <1>3, <1>5, <1>7, <1>8 DEF LadderInv

LEMMA LadderStep == LadderInv /\ [Next]_vars => LadderInv' /\ SourcesUntouched
<1>1. LadderInv /\ UNCHANGED vars => LadderInv' /\ SourcesUntouched
  BY DEF vars, ghosts, LadderInv, TypeOK, PlannedApart, PlannedAtSource, PlanShrinks,
         TodoPlanned, SourcesUntouched
<1> QED
  BY <1>1, SelectKeeps, ArepSendsKeeps, ArepBreaksKeeps, ScpSendsKeeps, ScpBreaksKeeps,
     DittoSendsKeeps, DittoBreaksKeeps, SshRaisesKeeps, LegDoneKeeps, ReportKeeps, DowngradeKeeps
     DEF Next

LEMMA LadderAlways == Spec => []LadderInv
<1>1. LadderInv /\ [Next]_vars => LadderInv'
  BY LadderStep
<1> QED
  BY <1>1, LadderInit, PTL DEF Spec

(* Type correctness of the ladder: plans, legs and trees stay among the    *)
(* paths whatever breaks.                                                  *)
THEOREM LadderTypeOK == Spec => []TypeOK
<1>1. LadderInv => TypeOK
  BY DEF LadderInv
<1> QED
  BY <1>1, LadderAlways, PTL

(* The sending side of a planned file is never written, under any policy,  *)
(* with any number of broken rungs and re-plans.                           *)
THEOREM LadderSourceIntact == Spec => SourceIntact
<1>1. LadderInv /\ [Next]_vars =>
        [\A dir \in Directions : \A r \in Of(planned, dir) :
           disk'[Src(dir)][r] = disk[Src(dir)][r]]_vars
  BY LadderStep DEF SourcesUntouched
<1> QED
  BY <1>1, LadderAlways, PTL DEF Spec, SourceIntact

-----------------------------------------------------------------------------
(* The accounts.                                                           *)

Small(dir) == Of(planned, dir) \ Large

\* The policy, asked again about the disks as they are, still moves r.
Wanted(r, dir) == r \in Of(PlanOf(disk, opts.policy), dir)

\* A re-plan drops a file only when it was delivered ...
NothingDropped ==
  \A dir \in Directions : \A r \in Small(dir) : Delivered(r, dir) \/ r \in Of(plan, dir)

\* ... because until then nothing about it has changed.
StillWanted ==
  \A dir \in Directions : \A r \in Small(dir) : Delivered(r, dir) \/ Wanted(r, dir)

Settled(r, dir) == Delivered(r, dir) \/ r \in excused
AllSettled(dir) == \A r \in Small(dir) : Settled(r, dir)

\* The rdma rung settles its denied files when its leg is over.
InHand(r) ==
  r \in leg.todo \/ (rung = "rdma" /\ r \in Denied \cap Of(plan, leg.dir))

LegAccounts ==
  pc = "leg" /\ ~opts.dry_run =>
    /\ \A r \in Small(leg.dir) : Settled(r, leg.dir) \/ InHand(r)
    /\ leg.dir = "pull" /\ res.push = "ok" => AllSettled("push")

EndAccounts ==
  pc \in {"assess", "done"} /\ ~opts.dry_run /\ ~Failed =>
    AllSettled("push") /\ AllSettled("pull")

DeliveryInv == NothingDropped /\ StillWanted /\ LegAccounts /\ EndAccounts

-----------------------------------------------------------------------------
(* What is settled stays settled.                                          *)

\* A step that keeps what was delivered and what is wanted.
AccountsKept ==
  \A dir \in Directions : \A r \in Small(dir) :
    /\ Delivered(r, dir) => Delivered(r, dir)'
    /\ Wanted(r, dir) => Wanted(r, dir)' \/ Delivered(r, dir)'

(* Whether a file is planned depends on its two copies only.               *)
LEMMA PlanOfLocal ==
  ASSUME NEW trees, NEW others, NEW policy, NEW dir \in Directions, NEW r \in Paths,
         \A side \in Sides :
           /\ r \in DOMAIN trees[side] <=> r \in DOMAIN others[side]
           /\ r \in DOMAIN trees[side] => others[side][r] = trees[side][r]
  PROVE  r \in Of(PlanOf(trees, policy), dir) => r \in Of(PlanOf(others, policy), dir)
<1> DEFINE local1  == Stat(trees["local"], Paths)
           remote1 == Stat(trees["remote"], Paths)
           local2  == Stat(others["local"], Paths)
           remote2 == Stat(others["remote"], Paths)
<1>1. /\ r \in DOMAIN local1 <=> r \in DOMAIN local2
      /\ r \in DOMAIN local1 => local1[r] = local2[r]
      /\ r \in DOMAIN remote1 <=> r \in DOMAIN remote2
      /\ r \in DOMAIN remote1 => remote1[r] = remote2[r]
  BY DEF Stat, Sides
<1> HIDE DEF local1, remote1, local2, remote2
<1>2. r \in ToPush(local1, remote1, policy, TRUE) => r \in ToPush(local2, remote2, policy, TRUE)
  BY <1>1 DEF ToPush
<1>3. r \in ToPull(local1, remote1, policy) => r \in ToPull(local2, remote2, policy)
  BY <1>1 DEF ToPull
<1> DEFINE push1 == ToPush(local1, remote1, policy, TRUE)
           pull1 == ToPull(local1, remote1, policy)
           push2 == ToPush(local2, remote2, policy, TRUE)
           pull2 == ToPull(local2, remote2, policy)
<1>4. PlanOf(trees, policy) = [push |-> push1, pull |-> pull1]
  BY DEF PlanOf, local1, remote1
<1>5. PlanOf(others, policy) = [push |-> push2, pull |-> pull2]
  BY DEF PlanOf, local2, remote2
<1>6. (r \in push1 => r \in push2) /\ (r \in pull1 => r \in pull2)
  BY <1>2, <1>3
<1> HIDE DEF push1, pull1, push2, pull2
<1> QED
  BY <1>4, <1>5, <1>6 DEF Of

(* Files that arrive with their source's content keep the accounts, and    *)
(* are delivered; large files may arrive torn.                             *)
LEMMA ArrivalKeepsAccounts ==
  ASSUME LadderInv, UNCHANGED <<opts, planned>>,
         NEW files \in Trees, DOMAIN files \subseteq Of(planned, leg.dir),
         \A r \in DOMAIN files \ Large : files[r].ver = disk[Src(leg.dir)][r].ver,
         disk' = [disk EXCEPT ![Dst(leg.dir)] = Received(@, files)]
  PROVE  /\ AccountsKept
         /\ \A dir \in Directions : dir = leg.dir =>
              \A r \in DOMAIN files \ Large : Delivered(r, dir)'
<1>1. leg.dir \in Directions /\ planned \in Plans
  BY DEF LadderInv, TypeOK
<1>2. ASSUME NEW r \in DOMAIN files \ Large
      PROVE  /\ r \in DOMAIN disk'[Dst(leg.dir)]
             /\ disk'[Dst(leg.dir)][r].ver = disk'[Src(leg.dir)][r].ver
  BY DiskStep
<1>3. \A side \in Sides : \A r :
        r \notin DOMAIN files =>
          /\ r \in DOMAIN disk'[side] <=> r \in DOMAIN disk[side]
          /\ r \in DOMAIN disk[side] => disk'[side][r] = disk[side][r]
  BY DiskStep
<1>4. ASSUME NEW dir \in Directions, NEW r \in Small(dir)
      PROVE  /\ Delivered(r, dir) => Delivered(r, dir)'
             /\ Wanted(r, dir) => Wanted(r, dir)' \/ Delivered(r, dir)'
  <2>1. CASE r \in DOMAIN files
    <3>1. dir = leg.dir
      BY <2>1, <1>1, <1>4 DEF LadderInv, PlannedApart, Small, Of, Directions
    <3> QED
      BY <2>1, <3>1, <1>2, <1>4 DEF Delivered, Small
  <2>2. CASE r \notin DOMAIN files
    <3>1. \A side \in Sides :
            /\ r \in DOMAIN disk'[side] <=> r \in DOMAIN disk[side]
            /\ r \in DOMAIN disk[side] => disk'[side][r] = disk[side][r]
      BY <2>2, <1>3
    <3>2. r \in Paths /\ r \in DOMAIN disk[Src(dir)]
      BY <1>1, <1>4, PlanTypes DEF Small, LadderInv, PlannedAtSource
    <3>3. Delivered(r, dir) => Delivered(r, dir)'
      BY <3>1, <3>2, SidesOfDirections DEF Delivered
    <3>4. Wanted(r, dir) => Wanted(r, dir)'
      BY <3>1, <3>2, PlanOfLocal DEF Wanted
    <3> QED
      BY <3>3, <3>4
  <2> QED
    BY <2>1, <2>2
<1>5. AccountsKept
  BY <1>4 DEF AccountsKept
<1> QED
  BY <1>2, <1>5 DEF Delivered

LEMMA StaysSettled ==
  ASSUME UNCHANGED planned, excused \subseteq excused', AccountsKept
  PROVE  \A dir \in Directions :
           /\ \A r \in Small(dir) : Settled(r, dir) => Settled(r, dir)'
           /\ Small(dir)' = Small(dir)
           /\ AllSettled(dir) => AllSettled(dir)'
<1>1. \A dir \in Directions : Small(dir)' = Small(dir)
  BY DEF Small
<1>2. \A dir \in Directions : \A r \in Small(dir) : Settled(r, dir) => Settled(r, dir)'
  BY DEF Settled, AccountsKept
<1> QED
  BY <1>1, <1>2 DEF AllSettled

\* As long as the plan is not replaced.
LEMMA PlanStaysCovered ==
  ASSUME NothingDropped, StillWanted, UNCHANGED <<opts, plan, planned>>, AccountsKept
  PROVE  NothingDropped' /\ StillWanted'
<1>1. \A dir \in Directions : Small(dir)' = Small(dir) /\ Of(plan, dir)' = Of(plan, dir)
  BY DEF Small, Of
<1>2. NothingDropped'
  BY <1>1 DEF NothingDropped, AccountsKept
<1>3. StillWanted'
  BY <1>1 DEF StillWanted, AccountsKept
<1> QED
  BY <1>2, <1>3

\* A step that leaves the disks alone.
LEMMA SameDisks ==
  ASSUME UNCHANGED <<disk, opts, planned>>
  PROVE  AccountsKept
BY DEF AccountsKept, Delivered, Wanted

(* A leg starts with everything in hand that its plan still has to carry.  *)
LEMMA LegStartsInHand ==
  ASSUME LadderInv, ~opts.dry_run, NEW pl \in Plans, NEW dir \in Directions, NEW rg,
         NEW r \in Small(dir), Delivered(r, dir) \/ r \in Of(pl, dir)
  PROVE  \/ Delivered(r, dir)
         \/ r \in NewLeg(dir, pl, rg, opts).todo
         \/ rg = "rdma" /\ r \in Denied \cap Of(pl, dir)
<1>1. CASE Skipped(dir, opts)
  BY <1>1 DEF LadderInv, PlanShrinks, Small
<1>2. CASE ~Skipped(dir, opts)
  <2>1. NewLeg(dir, pl, rg, opts).todo = Of(pl, dir) \ IF rg = "rdma" THEN Denied ELSE {}
    BY <1>2, NewLegFacts, LadderOptions DEF LadderInv
  <2> QED
    BY <2>1
<1> QED
  BY <1>1, <1>2

(* The pull leg that follows a push.                                       *)
LEMMA PullLegAccounts ==
  ASSUME LadderInv, NothingDropped, UNCHANGED <<opts, plan, planned, rung>>,
         excused \subseteq excused', AccountsKept, pc' = "leg",
         leg' = NewLeg("pull", plan, rung, opts),
         ~opts.dry_run /\ res'.push = "ok" => AllSettled("push")'
  PROVE  LegAccounts' /\ EndAccounts'
<1>1. "pull" \in Directions
  BY DEF Directions
<1>2. leg'.dir = "pull"
  BY <1>1, LegStarts
<1>3. ASSUME ~opts.dry_run, NEW r \in Small("pull")
      PROVE  Settled(r, "pull")' \/ InHand(r)'
  <2>1. \/ Delivered(r, "pull")
        \/ r \in leg'.todo
        \/ rung = "rdma" /\ r \in Denied \cap Of(plan, "pull")
    BY <1>1, <1>3, LegStartsInHand DEF NothingDropped, LadderInv, TypeOK
  <2>2. Delivered(r, "pull") => Settled(r, "pull")'
    BY <1>1, <1>3 DEF AccountsKept, Settled
  <2>3. InHand(r)' <=> (r \in leg'.todo \/ (rung = "rdma" /\ r \in Denied \cap Of(plan, "pull")))
    BY <1>2 DEF InHand, Of
  <2> QED
    BY <2>1, <2>2, <2>3
<1>4. Small("pull")' = Small("pull")
  BY DEF Small
<1>5. LegAccounts'
  BY <1>2, <1>3, <1>4 DEF LegAccounts
<1>6. EndAccounts'
  BY DEF EndAccounts
<1> QED
  BY <1>5, <1>6

LEMMA LegFailsAccounts ==
  ASSUME LadderInv, NothingDropped, pc = "leg", NEW moved, LegFails(moved),
         UNCHANGED <<opts, plan, planned, rung>>, excused \subseteq excused', AccountsKept
  PROVE  LegAccounts' /\ EndAccounts'
<1>1. leg.dir \in Directions
  BY DEF LadderInv, TypeOK
<1>2. CASE leg.dir = "push" /\ leg' = NewLeg("pull", plan, rung, opts) /\ UNCHANGED pc
  <2>1. res'.push # "ok"
    BY <1>2 DEF LegFails, Fail
  <2> QED
    BY <1>2, <2>1, PullLegAccounts
<1>3. CASE pc' = "assess"
  <2>1. Failed'
    BY <1>1 DEF LegFails, Fail, Failed, Directions
  <2> QED
    BY <1>3, <2>1 DEF LegAccounts, EndAccounts
<1> QED
  BY <1>2, <1>3 DEF LegFails

-----------------------------------------------------------------------------
(* The accounts are kept by every step.                                    *)

LEMMA DeliveryInit == Init => DeliveryInv
<1> SUFFICES ASSUME Init PROVE DeliveryInv
  OBVIOUS
<1>1. \A dir \in Directions : Of(planned, dir) \subseteq Of(plan, dir)
  BY DEF Init, Of
<1>2. plan = PlanOf(disk, opts.policy) /\ pc = "select"
  BY DEF Init
<1> QED
  BY <1>1, <1>2 DEF DeliveryInv, NothingDropped, StillWanted, LegAccounts, EndAccounts, Small, Wanted

LEMMA SelectDelivers == LadderInv /\ DeliveryInv /\ Select => DeliveryInv'
<1> SUFFICES ASSUME LadderInv, DeliveryInv, Select PROVE DeliveryInv'
  OBVIOUS
<1>1. UNCHANGED <<disk, opts, plan, planned, excused>>
  BY DEF Select, ghosts
<1>2. AccountsKept
  BY <1>1, SameDisks
<1>3. NothingDropped' /\ StillWanted'
  BY <1>1, <1>2, PlanStaysCovered DEF DeliveryInv
<1>4. CASE pc' = "done" /\ res' = NoRung
  BY <1>3, <1>4 DEF DeliveryInv, LegAccounts, EndAccounts, Failed, NoRung
<1>5. CASE pc' = "leg" /\ leg' = NewLeg("push", plan, rung', opts)
  <2>1. "push" \in Directions
    BY DEF Directions
  <2>2. leg'.dir = "push"
    BY <1>5, <2>1, LegStarts
  <2>3. ASSUME ~opts.dry_run, NEW r \in Small("push")
        PROVE  Settled(r, "push")' \/ InHand(r)'
    <3>1. \/ Delivered(r, "push")
          \/ r \in leg'.todo
          \/ rung' = "rdma" /\ r \in Denied \cap Of(plan, "push")
      BY <1>5, <2>1, <2>3, LegStartsInHand DEF DeliveryInv, NothingDropped, LadderInv, TypeOK
    <3>2. Delivered(r, "push") => Settled(r, "push")'
      BY <1>2, <2>1, <2>3 DEF AccountsKept, Settled
    <3>3. InHand(r)' <=> (r \in leg'.todo \/ (rung' = "rdma" /\ r \in Denied \cap Of(plan, "push")))
      BY <1>1, <2>2 DEF InHand, Of
    <3> QED
      BY <3>1, <3>2, <3>3
  <2>4. Small("push")' = Small("push")
    BY <1>1 DEF Small
  <2> QED
    BY <1>1, <1>3, <1>5, <2>2, <2>3, <2>4 DEF DeliveryInv, LegAccounts, EndAccounts
<1> QED
  BY <1>4, <1>5 DEF Select

(* A step within a leg that settles what it takes out of hand.             *)
LEMMA LegGoesOn ==
  ASSUME LadderInv, DeliveryInv, UNCHANGED <<opts, plan, rung, res, pc, planned>>, pc = "leg",
         excused \subseteq excused', AccountsKept, leg'.dir = leg.dir,
         \A dir \in Directions : dir = leg.dir =>
           \A r \in leg.todo \ Large : Settled(r, dir)' \/ r \in leg'.todo
  PROVE  DeliveryInv'
<1>1. leg.dir \in Directions /\ "push" \in Directions
  BY DEF LadderInv, TypeOK, Directions
<1>2. NothingDropped' /\ StillWanted'
  BY PlanStaysCovered DEF DeliveryInv
<1>3. ASSUME ~opts.dry_run, NEW dir \in Directions, dir = leg.dir, NEW r \in Small(dir)
      PROVE  Settled(r, dir)' \/ InHand(r)'
  <2>1. Settled(r, dir) \/ InHand(r)
    BY <1>3 DEF DeliveryInv, LegAccounts
  <2>2. CASE Settled(r, dir)
    BY <2>2, <1>3, StaysSettled
  <2>3. CASE r \in leg.todo
    BY <2>3, <1>3 DEF Small, InHand
  <2>4. CASE rung = "rdma" /\ r \in Denied \cap Of(plan, leg.dir)
    BY <2>4 DEF InHand, Of
  <2> QED
    BY <2>1, <2>2, <2>3, <2>4 DEF InHand
<1>4. \A dir \in Directions : Small(dir)' = Small(dir) /\ (AllSettled(dir) => AllSettled(dir)')
  BY StaysSettled
<1>5. LegAccounts'
  BY <1>1, <1>3, <1>4 DEF DeliveryInv, LegAccounts
<1> QED
  BY <1>2, <1>5 DEF DeliveryInv, EndAccounts

LEMMA CopiesKeepAccounts ==
  ASSUME LadderInv, UNCHANGED <<opts, planned>>, NEW rels, rels \subseteq leg.todo,
         Deliver(Copies(rels))
  PROVE  /\ AccountsKept
         /\ \A dir \in Directions : dir = leg.dir =>
              \A r \in rels \ Large : Delivered(r, dir)'
<1> DEFINE files == Copies(rels)
<1>1. files \in Trees /\ DOMAIN files = rels /\ DOMAIN files \subseteq Of(planned, leg.dir)
  BY CopiesArrive
<1>2. \A r \in DOMAIN files \ Large : files[r].ver = disk[Src(leg.dir)][r].ver
  BY DEF Copies
<1>3. disk' = [disk EXCEPT ![Dst(leg.dir)] = Received(@, files)]
  BY DEF Deliver
<1> HIDE DEF files
<1> QED
  BY <1>1, <1>2, <1>3, ArrivalKeepsAccounts

LEMMA ArepSendsDelivers == LadderInv /\ DeliveryInv /\ ArepSends => DeliveryInv'
<1> SUFFICES ASSUME LadderInv, DeliveryInv, ArepSends PROVE DeliveryInv'
  OBVIOUS
<1>1. /\ UNCHANGED <<opts, plan, rung, res, pc, planned, excused>> /\ pc = "leg"
      /\ Deliver(Copies(leg.todo))
      /\ leg' = [leg EXCEPT !.todo = {}, !.counted = HasBytes(leg.todo)]
  BY DEF ArepSends, Sending
<1>2. /\ AccountsKept
      /\ \A dir \in Directions : dir = leg.dir =>
           \A r \in leg.todo \ Large : Delivered(r, dir)'
  BY <1>1, CopiesKeepAccounts
<1>3. leg'.dir = leg.dir
  BY <1>1 DEF LadderInv, TypeOK
<1>4. \A dir \in Directions : dir = leg.dir =>
        \A r \in leg.todo \ Large : Settled(r, dir)' \/ r \in leg'.todo
  BY <1>2 DEF Settled
<1> QED
  BY <1>1, <1>2, <1>3, <1>4, LegGoesOn

LEMMA ArepBreaksDelivers == LadderInv /\ DeliveryInv /\ ArepBreaks => DeliveryInv'
<1> SUFFICES ASSUME LadderInv, DeliveryInv, ArepBreaks PROVE DeliveryInv'
  OBVIOUS
<1>1. PICK got \in SUBSET leg.todo, spawned \in BOOLEAN :
        Deliver(Copies(got)) /\ LegFails(spawned)
  BY DEF ArepBreaks
<1>2. UNCHANGED <<opts, plan, rung, planned, excused>> /\ pc = "leg"
  BY DEF ArepBreaks, Sending
<1>3. AccountsKept
  BY <1>1, <1>2, CopiesKeepAccounts
<1> QED
  BY <1>1, <1>2, <1>3, LegFailsAccounts, PlanStaysCovered DEF DeliveryInv

LEMMA ScpSendsDelivers == LadderInv /\ DeliveryInv /\ ScpSends => DeliveryInv'
<1> SUFFICES ASSUME LadderInv, DeliveryInv, ScpSends PROVE DeliveryInv'
  OBVIOUS
<1>1. PICK r \in LargeTodo :
        /\ Deliver(ScpCopy(r))
        /\ leg' = [leg EXCEPT !.todo = @ \ {r}, !.counted = LargeTodo = {r}]
  BY DEF ScpSends
<1>2. UNCHANGED <<opts, plan, rung, res, pc, planned, excused>> /\ pc = "leg"
  BY DEF ScpSends, Sending
<1>3. r \in leg.todo /\ r \in Large
  BY DEF LargeTodo
<1>4. AccountsKept
  <2> DEFINE files == ScpCopy(r)
  <2>1. files \in Trees /\ DOMAIN files = {r} /\ DOMAIN files \subseteq Of(planned, leg.dir)
    BY <1>3, ScpCopyArrives
  <2>2. disk' = [disk EXCEPT ![Dst(leg.dir)] = Received(@, files)]
    BY <1>1 DEF Deliver
  <2> HIDE DEF files
  <2> QED
    BY <1>2, <1>3, <2>1, <2>2, ArrivalKeepsAccounts
<1>5. leg'.dir = leg.dir /\ leg'.todo = leg.todo \ {r}
  BY <1>1 DEF LadderInv, TypeOK
<1>6. \A dir \in Directions : dir = leg.dir =>
        \A q \in leg.todo \ Large : Settled(q, dir)' \/ q \in leg'.todo
  BY <1>3, <1>5
<1> QED
  BY <1>2, <1>4, <1>5, <1>6, LegGoesOn

LEMMA ScpBreaksDelivers == LadderInv /\ DeliveryInv /\ ScpBreaks => DeliveryInv'
<1> SUFFICES ASSUME LadderInv, DeliveryInv, ScpBreaks PROVE DeliveryInv'
  OBVIOUS
<1>1. UNCHANGED <<opts, plan, rung, planned, excused>> /\ LegFails(FALSE) /\ pc = "leg"
  BY DEF ScpBreaks, ghosts, Sending
<1>2. AccountsKept
  <2>1. CASE UNCHANGED disk
    BY <1>1, <2>1, SameDisks
  <2>2. CASE \E r \in LargeTodo :
               disk' = [disk EXCEPT ![Dst(leg.dir)] = Received(@, [q \in {r} |-> Torn])]
    <3>1. PICK r \in LargeTodo :
            disk' = [disk EXCEPT ![Dst(leg.dir)] = Received(@, [q \in {r} |-> Torn])]
      BY <2>2
    <3> DEFINE torn == [q \in {r} |-> Torn]
    <3>2. torn \in Trees /\ DOMAIN torn = {r} /\ DOMAIN torn \subseteq Of(planned, leg.dir)
      BY TornArrives DEF LargeTodo
    <3>3. disk' = [disk EXCEPT ![Dst(leg.dir)] = Received(@, torn)] /\ r \in Large
      BY <3>1 DEF LargeTodo
    <3> HIDE DEF torn
    <3> QED
      BY <1>1, <3>2, <3>3, ArrivalKeepsAccounts
  <2> QED
    BY <2>1, <2>2 DEF ScpBreaks
<1> QED
  BY <1>1, <1>2, LegFailsAccounts, PlanStaysCovered DEF DeliveryInv

LEMMA DittoSendsDelivers == LadderInv /\ DeliveryInv /\ DittoSends => DeliveryInv'
<1> SUFFICES ASSUME LadderInv, DeliveryInv, DittoSends PROVE DeliveryInv'
  OBVIOUS
<1> DEFINE batch == NextBatch(leg.todo, ChunkFiles)
<1>1. PICK skip \in SUBSET (batch \cap Unreadable) :
        /\ Deliver(Copies(batch \ skip))
        /\ excused' = excused \cup skip
        /\ leg'.dir = leg.dir /\ leg'.todo = leg.todo \ batch
  BY DEF DittoSends, LadderInv, TypeOK
<1>2. UNCHANGED <<opts, plan, rung, res, pc, planned>> /\ pc = "leg" /\ batch \subseteq leg.todo
  BY NextBatchTodo DEF DittoSends, Sending
<1> HIDE DEF batch
<1>3. /\ AccountsKept
      /\ \A dir \in Directions : dir = leg.dir =>
           \A r \in (batch \ skip) \ Large : Delivered(r, dir)'
  BY <1>1, <1>2, CopiesKeepAccounts
<1>4. \A dir \in Directions : dir = leg.dir =>
        \A r \in leg.todo \ Large : Settled(r, dir)' \/ r \in leg'.todo
  BY <1>1, <1>3 DEF Settled
<1>5. excused \subseteq excused' /\ leg'.dir = leg.dir
  BY <1>1
<1> QED
  BY <1>2, <1>3, <1>4, <1>5, LegGoesOn

LEMMA DittoBreaksDelivers == LadderInv /\ DeliveryInv /\ DittoBreaks => DeliveryInv'
<1> SUFFICES ASSUME LadderInv, DeliveryInv, DittoBreaks PROVE DeliveryInv'
  OBVIOUS
<1>1. PICK got \in SUBSET NextBatch(leg.todo, ChunkFiles) : Deliver(Copies(got))
  BY DEF DittoBreaks
<1>2. UNCHANGED <<opts, plan, rung, planned, excused>> /\ LegFails(leg.counted) /\ pc = "leg"
  BY DEF DittoBreaks, Sending
<1>3. AccountsKept
  BY <1>1, <1>2, NextBatchTodo, CopiesKeepAccounts
<1> QED
  BY <1>2, <1>3, LegFailsAccounts, PlanStaysCovered DEF DeliveryInv

LEMMA SshRaisesDelivers == LadderInv /\ DeliveryInv /\ SshRaises => DeliveryInv'
<1> SUFFICES ASSUME LadderInv, DeliveryInv, SshRaises PROVE DeliveryInv'
  OBVIOUS
<1>1. UNCHANGED <<disk, opts, plan, planned>> /\ pc' = "assess" /\ Fail(TRUE)
  BY DEF SshRaises, ghosts
<1>2. Failed'
  BY <1>1 DEF Fail, Failed, LadderInv, TypeOK, Directions
<1>3. NothingDropped' /\ StillWanted'
  BY <1>1, SameDisks, PlanStaysCovered DEF DeliveryInv
<1> QED
  BY <1>1, <1>2, <1>3 DEF DeliveryInv, LegAccounts, EndAccounts

LEMMA LegDoneDelivers == LadderInv /\ DeliveryInv /\ LegDone => DeliveryInv'
<1> SUFFICES ASSUME LadderInv, DeliveryInv, LegDone PROVE DeliveryInv'
  OBVIOUS
<1>1. /\ UNCHANGED <<disk, opts, plan, rung, planned>> /\ pc = "leg" /\ leg.todo = {}
      /\ excused \subseteq excused' /\ res'.push = res.push /\ res'.pull = res.pull
  BY DEF LegDone, LadderInv, TypeOK, Results
<1>2. AccountsKept /\ NothingDropped' /\ StillWanted' /\ leg.dir \in Directions
  BY <1>1, SameDisks, PlanStaysCovered DEF DeliveryInv, LadderInv, TypeOK
<1>3. ASSUME ~opts.dry_run, NEW dir \in Directions, dir = leg.dir
      PROVE  AllSettled(dir)'
  <2>1. ASSUME NEW r \in Small(dir)
        PROVE  Settled(r, dir)'
    <3>1. Settled(r, dir) \/ (rung = "rdma" /\ r \in Denied \cap Of(plan, dir))
      BY <1>1, <1>3, <2>1 DEF DeliveryInv, LegAccounts, InHand
    <3>2. CASE Settled(r, dir)
      BY <1>1, <1>2, <2>1, <3>2, StaysSettled
    <3>3. CASE rung = "rdma" /\ r \in Denied \cap Of(plan, dir)
      <4>1. r \in excused'
        BY <1>3, <2>1, <3>3 DEF LegDone, Small
      <4> QED
        BY <4>1 DEF Settled
    <3> QED
      BY <3>1, <3>2, <3>3
  <2> QED
    BY <1>1, <2>1 DEF AllSettled, Small
<1>4. CASE leg.dir = "push"
  <2>1. leg' = NewLeg("pull", plan, rung, opts) /\ pc' = "leg"
    BY <1>1, <1>4 DEF LegDone
  <2>2. ~opts.dry_run => AllSettled("push")'
    BY <1>2, <1>3, <1>4
  <2> QED
    BY <1>1, <1>2, <2>1, <2>2, PullLegAccounts DEF DeliveryInv
<1>5. CASE leg.dir = "pull"
  <2>1. pc' = "assess"
    BY <1>5 DEF LegDone
  <2>2. ~opts.dry_run => AllSettled("pull")'
    BY <1>2, <1>3, <1>5
  <2>3. ~opts.dry_run /\ res.push = "ok" => AllSettled("push")'
    BY <1>1, <1>2, <1>5, StaysSettled DEF DeliveryInv, LegAccounts, Directions
  <2>4. ~Failed' => res.push = "ok"
    BY <1>1 DEF Failed, LadderInv, TypeOK, Results
  <2> QED
    BY <1>1, <1>2, <2>1, <2>2, <2>3, <2>4 DEF DeliveryInv, LegAccounts, EndAccounts
<1> QED
  BY <1>2, <1>4, <1>5 DEF Directions

LEMMA ReportDelivers == LadderInv /\ DeliveryInv /\ Report => DeliveryInv'
<1> SUFFICES ASSUME LadderInv, DeliveryInv, Report PROVE DeliveryInv'
  OBVIOUS
<1>1. UNCHANGED <<disk, opts, plan, res, planned, excused>> /\ pc = "assess" /\ pc' = "done"
  BY DEF Report, ghosts
<1>2. AccountsKept /\ NothingDropped' /\ StillWanted'
  BY <1>1, SameDisks, PlanStaysCovered DEF DeliveryInv
<1>3. (AllSettled("push") => AllSettled("push")') /\ (AllSettled("pull") => AllSettled("pull")')
  BY <1>1, <1>2, StaysSettled DEF Directions
<1> QED
  BY <1>1, <1>2, <1>3 DEF DeliveryInv, LegAccounts, EndAccounts, Failed

(* A re-plan keeps every small file that is not delivered.                 *)
LEMMA ReplanCovers ==
  ASSUME LadderInv, DeliveryInv, NEW restat \in BOOLEAN,
         NEW dir \in Directions, NEW r \in Small(dir)
  PROVE  Delivered(r, dir) \/ r \in Of(NextPlan(restat), dir)
<1> DEFINE rels    == plan.push \cup plan.pull
           local   == Stat(disk["local"], Paths)
           remote  == Stat(disk["remote"], Paths)
           localN  == Stat(disk["local"], rels)
           remoteN == Stat(disk["remote"], rels)
           push    == ToPush(local, remote, opts.policy, TRUE)
           pull    == ToPull(local, remote, opts.policy)
           pushN   == ToPush(localN, remoteN, opts.policy, TRUE)
           pullN   == ToPull(localN, remoteN, opts.policy)
<1>1. SUFFICES ASSUME ~Delivered(r, dir), restat
               PROVE  r \in Of(Replanned, dir)
  BY DEF DeliveryInv, NothingDropped, NextPlan
<1>2. r \in Of(plan, dir) /\ r \in Of(PlanOf(disk, opts.policy), dir)
  BY <1>1 DEF DeliveryInv, NothingDropped, StillWanted, Wanted
<1>3. r \in rels /\ r \in Paths
  BY <1>2, PlanTypes DEF Of, LadderInv, TypeOK
<1>4. /\ r \in DOMAIN localN <=> r \in DOMAIN local
      /\ r \in DOMAIN local => localN[r] = local[r]
      /\ r \in DOMAIN remoteN <=> r \in DOMAIN remote
      /\ r \in DOMAIN remote => remoteN[r] = remote[r]
  BY <1>3 DEF Stat
<1>5. PlanOf(disk, opts.policy) = [push |-> push, pull |-> pull]
  BY DEF PlanOf
<1>6. Replanned = [push |-> plan.push \cap pushN, pull |-> plan.pull \cap pullN]
  BY DEF Replanned, Replan
<1> HIDE DEF local, remote, localN, remoteN
<1>7. (r \in push => r \in pushN) /\ (r \in pull => r \in pullN)
  BY <1>4 DEF ToPush, ToPull
<1> HIDE DEF push, pull, pushN, pullN
<1> QED
  BY <1>2, <1>5, <1>6, <1>7 DEF Of

LEMMA DowngradeDelivers == LadderInv /\ DeliveryInv /\ Downgrade => DeliveryInv'
<1> SUFFICES ASSUME LadderInv, DeliveryInv, Downgrade PROVE DeliveryInv'
  OBVIOUS
<1>1. PICK n \in First(left, opts), restat \in BOOLEAN :
        /\ plan' = NextPlan(restat)
        /\ rung' = n
        /\ leg' = NewLeg("push", plan', n, opts)
  BY DEF Downgrade
<1>2. UNCHANGED <<disk, opts, planned, excused>> /\ pc' = "leg"
  BY DEF Downgrade
<1>3. "push" \in Directions /\ plan' \in Plans
  BY <1>1, NextPlanShrinks DEF Directions
<1>4. \A dir \in Directions : \A r \in Small(dir) : Delivered(r, dir) \/ r \in Of(plan', dir)
  BY <1>1, ReplanCovers
<1>5. AccountsKept
  BY <1>2, SameDisks
<1>6. \A dir \in Directions : Small(dir)' = Small(dir) /\ Of(plan, dir)' = Of(plan', dir)
  BY <1>2 DEF Small, Of
<1>7. NothingDropped'
  BY <1>4, <1>5, <1>6 DEF NothingDropped, AccountsKept
<1>8. StillWanted'
  BY <1>5, <1>6 DEF DeliveryInv, StillWanted, AccountsKept
<1>9. leg'.dir = "push"
  BY <1>1, <1>3, NewLegFacts, LadderOptions DEF LadderInv
<1>10. ASSUME ~opts.dry_run, NEW r \in Small("push")
       PROVE  Settled(r, "push")' \/ InHand(r)'
  <2>1. Delivered(r, "push") \/ r \in Of(plan', "push")
    BY <1>3, <1>4, <1>10
  <2>2. \/ Delivered(r, "push")
        \/ r \in leg'.todo
        \/ rung' = "rdma" /\ r \in Denied \cap Of(plan', "push")
    BY <1>1, <1>3, <1>10, <2>1, LegStartsInHand
  <2>3. Delivered(r, "push") => Settled(r, "push")'
    BY <1>3, <1>5, <1>10 DEF AccountsKept, Settled
  <2>4. InHand(r)' <=> (r \in leg'.todo \/ (rung' = "rdma" /\ r \in Denied \cap Of(plan', "push")))
    BY <1>9 DEF InHand, Of
  <2> QED
    BY <2>2, <2>3, <2>4
<1>11. LegAccounts'
  BY <1>2, <1>3, <1>6, <1>9, <1>10 DEF LegAccounts
<1> QED
  BY <1>2, <1>7, <1>8, <1>11 DEF DeliveryInv, EndAccounts

LEMMA DeliveryStep == LadderInv /\ DeliveryInv /\ [Next]_vars => DeliveryInv'
<1>1. ASSUME LadderInv, DeliveryInv, UNCHANGED vars PROVE DeliveryInv'
  <2>1. UNCHANGED <<disk, opts, plan, rung, leg, res, pc, planned, excused>>
    BY <1>1 DEF vars, ghosts
  <2>2. AccountsKept /\ NothingDropped' /\ StillWanted'
    BY <1>1, <2>1, SameDisks, PlanStaysCovered DEF DeliveryInv
  <2>3. /\ \A dir \in Directions : Small(dir)' = Small(dir)
        /\ \A dir \in Directions : AllSettled(dir) => AllSettled(dir)'
        /\ \A dir \in Directions : \A r \in Small(dir) : Settled(r, dir) => Settled(r, dir)'
    BY <2>1, <2>2, StaysSettled
  <2>4. leg.dir \in Directions /\ "push" \in Directions /\ "pull" \in Directions
    BY <1>1 DEF LadderInv, TypeOK, Directions
  <2>5. LegAccounts'
    BY <1>1, <2>1, <2>3, <2>4 DEF DeliveryInv, LegAccounts, InHand, Of
  <2>6. EndAccounts'
    BY <1>1, <2>1, <2>3, <2>4 DEF DeliveryInv, EndAccounts, Failed
  <2> QED
    BY <2>2, <2>5, <2>6 DEF DeliveryInv
<1> QED
  BY <1>1, SelectDelivers, ArepSendsDelivers, ArepBreaksDelivers, ScpSendsDelivers,
     ScpBreaksDelivers, DittoSendsDelivers, DittoBreaksDelivers, SshRaisesDelivers,
     LegDoneDelivers, ReportDelivers, DowngradeDelivers
     DEF Next

LEMMA DeliveryAlways == Spec => []DeliveryInv
<1>1. LadderInv /\ DeliveryInv /\ [Next]_vars => DeliveryInv'
  BY DeliveryStep
<1> QED
  BY <1>1, DeliveryInit, LadderAlways, PTL DEF Spec

(* A stage that ends with rc 0 has delivered every planned file that is    *)
(* neither large nor excused, whatever broke on the way.                   *)
THEOREM LadderDelivers == Spec => []OkMeansDelivered
<1>1. LadderInv /\ DeliveryInv => OkMeansDelivered
  BY DEF DeliveryInv, EndAccounts, OkMeansDelivered, Ok, AllSettled, Settled, Small, Directions
<1> QED
  BY <1>1, LadderAlways, DeliveryAlways, PTL

-----------------------------------------------------------------------------
(* What is sent twice.                                                     *)

\* What arrived by an archive or by arep is the same on both sides.
ArrivedSame ==
  \A r \in arrived \ Large : /\ r \in DOMAIN disk["local"] /\ r \in DOMAIN disk["remote"]
                             /\ disk["local"][r] = disk["remote"][r]

\* After a re-plan, nothing that arrived is in hand or waits for its leg.
NotAgain ==
  ~blind =>
    /\ pc = "select" => arrived = {}
    /\ pc = "leg" => arrived \cap leg.todo \subseteq Large
    /\ pc = "leg" /\ leg.dir = "push" /\ ~Skipped("pull", opts) =>
         arrived \cap Of(plan, "pull") \subseteq Large

ResendInv == ArrivedSame /\ NotAgain /\ ResendOnlyWhenBlind

(* An archive or arep brings a file as it is, its times included.          *)
LEMMA ArrivalKeepsSame ==
  ASSUME LadderInv, ArrivedSame, NEW files \in Trees, DOMAIN files \subseteq Of(planned, leg.dir),
         \A r \in DOMAIN files \ Large : files[r] = disk[Src(leg.dir)][r],
         disk' = [disk EXCEPT ![Dst(leg.dir)] = Received(@, files)],
         arrived' \ Large \subseteq arrived \cup DOMAIN files
  PROVE  ArrivedSame'
<1>1. leg.dir \in Directions /\ DOMAIN files \subseteq DOMAIN disk[Src(leg.dir)]
  BY DEF LadderInv, TypeOK, PlannedAtSource
<1>2. /\ disk'[Src(leg.dir)] = disk[Src(leg.dir)]
      /\ \A r \in DOMAIN files : /\ r \in DOMAIN disk'[Dst(leg.dir)]
                                 /\ disk'[Dst(leg.dir)][r] = files[r]
  BY DiskStep
<1>3. \A side \in Sides : \A r :
        r \notin DOMAIN files =>
          /\ r \in DOMAIN disk'[side] <=> r \in DOMAIN disk[side]
          /\ r \in DOMAIN disk[side] => disk'[side][r] = disk[side][r]
  BY DiskStep
<1>4. ASSUME NEW r \in arrived' \ Large
      PROVE  /\ r \in DOMAIN disk'["local"] /\ r \in DOMAIN disk'["remote"]
             /\ disk'["local"][r] = disk'["remote"][r]
  <2>1. CASE r \in DOMAIN files
    <3>1. /\ r \in DOMAIN disk'[Src(leg.dir)] /\ r \in DOMAIN disk'[Dst(leg.dir)]
          /\ disk'[Src(leg.dir)][r] = disk'[Dst(leg.dir)][r]
      BY <1>1, <1>2, <1>4, <2>1
    <3> QED
      BY <1>1, <3>1 DEF Directions, Src, Dst
  <2>2. CASE r \notin DOMAIN files
    <3>1. r \in arrived \ Large
      BY <1>4, <2>2
    <3> QED
      BY <1>3, <2>2, <3>1 DEF ArrivedSame, Sides
  <2> QED
    BY <2>1, <2>2
<1> QED
  BY <1>4 DEF ArrivedSame

(* What a step within a leg or its end has to keep.                        *)
LEMMA LegKeepsApart ==
  ASSUME LadderInv, NotAgain, UNCHANGED <<opts, plan, blind>>, pc = "leg",
         NEW files, files \subseteq leg.todo, arrived' = arrived \cup files,
         \/ pc' = "leg" /\ leg'.dir = leg.dir /\ leg'.todo \subseteq leg.todo \ files
         \/ pc' = "leg" /\ leg.dir = "push" /\ leg' = NewLeg("pull", plan, rung, opts)
         \/ pc' = "assess"
  PROVE  NotAgain'
<1>1. leg.dir \in Directions /\ leg.todo \subseteq Of(planned, leg.dir) /\ "pull" \in Directions
  BY DEF LadderInv, TypeOK, TodoPlanned, Directions
<1>2. ASSUME ~blind, leg.dir = "push", ~Skipped("pull", opts)
      PROVE  arrived' \cap Of(plan, "pull") \subseteq Large
  <2>1. Of(plan, "pull") \subseteq Of(planned, "pull")
    BY <1>1, <1>2 DEF LadderInv, PlanShrinks
  <2>2. files \cap Of(plan, "pull") = {}
    BY <1>1, <1>2, <2>1 DEF LadderInv, PlannedApart, Of
  <2> QED
    BY <1>2, <2>2 DEF NotAgain
<1>3. CASE pc' = "leg" /\ leg'.dir = leg.dir /\ leg'.todo \subseteq leg.todo \ files
  <2>1. ~blind => arrived' \cap leg'.todo \subseteq Large
    BY <1>3 DEF NotAgain
  <2> QED
    BY <1>2, <1>3, <2>1 DEF NotAgain, Skipped, Of
<1>4. CASE pc' = "leg" /\ leg.dir = "push" /\ leg' = NewLeg("pull", plan, rung, opts)
  <2>1. /\ leg'.dir = "pull" /\ leg'.todo \subseteq Of(plan, "pull")
        /\ Skipped("pull", opts) => leg'.todo = {}
    BY <1>1, <1>4, NewLegFacts, LadderOptions DEF LadderInv, TypeOK
  <2> QED
    BY <1>2, <1>4, <2>1 DEF NotAgain
<1>5. CASE pc' = "assess"
  BY <1>5 DEF NotAgain
<1> QED
  BY <1>3, <1>4, <1>5

LEMMA CopiesKeepSame ==
  ASSUME LadderInv, ResendInv, pc = "leg", NEW rels, rels \subseteq leg.todo,
         Deliver(Copies(rels)), UNCHANGED blind
  PROVE  ArrivedSame' /\ ResendOnlyWhenBlind' /\ arrived' = arrived \cup rels
<1> DEFINE files == Copies(rels)
<1>1. files \in Trees /\ DOMAIN files = rels /\ DOMAIN files \subseteq Of(planned, leg.dir)
  BY CopiesArrive
<1>2. \A r \in DOMAIN files \ Large : files[r] = disk[Src(leg.dir)][r]
  BY DEF Copies
<1>3. /\ disk' = [disk EXCEPT ![Dst(leg.dir)] = Received(@, files)]
      /\ arrived' = arrived \cup DOMAIN files
      /\ resent' = resent \cup (arrived \cap DOMAIN files)
  BY DEF Deliver
<1> HIDE DEF files
<1>4. ArrivedSame'
  BY <1>1, <1>2, <1>3, ArrivalKeepsSame DEF ResendInv
<1> QED
  BY <1>1, <1>3, <1>4 DEF ResendInv, NotAgain, ResendOnlyWhenBlind

LEMMA LegFailsApart ==
  ASSUME LadderInv, NotAgain, UNCHANGED <<opts, plan, blind>>, pc = "leg",
         NEW moved, LegFails(moved),
         NEW files, files \subseteq leg.todo, arrived' = arrived \cup files
  PROVE  NotAgain'
BY LegKeepsApart DEF LegFails

LEMMA ResendInit == Init => ResendInv
BY DEF Init, ResendInv, ArrivedSame, NotAgain, ResendOnlyWhenBlind

LEMMA SelectApart == LadderInv /\ ResendInv /\ Select => ResendInv'
<1> SUFFICES ASSUME LadderInv, ResendInv, Select PROVE ResendInv'
  OBVIOUS
<1>1. UNCHANGED <<disk, opts, plan, arrived, resent, blind>> /\ pc = "select"
  BY DEF Select, ghosts
<1>2. pc' \in {"done", "leg"}
  BY DEF Select
<1> QED
  BY <1>1, <1>2 DEF ResendInv, ArrivedSame, NotAgain, ResendOnlyWhenBlind

LEMMA ArepSendsApart == LadderInv /\ ResendInv /\ ArepSends => ResendInv'
<1> SUFFICES ASSUME LadderInv, ResendInv, ArepSends PROVE ResendInv'
  OBVIOUS
<1>1. /\ UNCHANGED <<opts, plan, blind, pc>> /\ pc = "leg"
      /\ Deliver(Copies(leg.todo))
      /\ leg'.dir = leg.dir /\ leg'.todo = {}
  BY DEF ArepSends, Sending, LadderInv, TypeOK
<1>2. ArrivedSame' /\ ResendOnlyWhenBlind' /\ arrived' = arrived \cup leg.todo
  BY <1>1, CopiesKeepSame
<1>3. NotAgain'
  BY <1>1, <1>2, LegKeepsApart DEF ResendInv
<1> QED
  BY <1>2, <1>3 DEF ResendInv

LEMMA ArepBreaksApart == LadderInv /\ ResendInv /\ ArepBreaks => ResendInv'
<1> SUFFICES ASSUME LadderInv, ResendInv, ArepBreaks PROVE ResendInv'
  OBVIOUS
<1>1. PICK got \in SUBSET leg.todo, spawned \in BOOLEAN :
        Deliver(Copies(got)) /\ LegFails(spawned)
  BY DEF ArepBreaks
<1>2. UNCHANGED <<opts, plan, blind>> /\ pc = "leg"
  BY DEF ArepBreaks, Sending
<1>3. ArrivedSame' /\ ResendOnlyWhenBlind' /\ arrived' = arrived \cup got
  BY <1>1, <1>2, CopiesKeepSame
<1>4. NotAgain'
  BY <1>1, <1>2, <1>3, LegFailsApart DEF ResendInv
<1> QED
  BY <1>3, <1>4 DEF ResendInv

LEMMA ScpSendsApart == LadderInv /\ ResendInv /\ ScpSends => ResendInv'
<1> SUFFICES ASSUME LadderInv, ResendInv, ScpSends PROVE ResendInv'
  OBVIOUS
<1>1. PICK r \in LargeTodo :
        Deliver(ScpCopy(r)) /\ leg'.dir = leg.dir /\ leg'.todo = leg.todo \ {r}
  BY DEF ScpSends, LadderInv, TypeOK
<1>2. UNCHANGED <<opts, plan, blind, pc>> /\ pc = "leg" /\ r \in leg.todo /\ r \in Large
  BY DEF ScpSends, Sending, LargeTodo
<1> DEFINE files == ScpCopy(r)
<1>3. files \in Trees /\ DOMAIN files = {r} /\ DOMAIN files \subseteq Of(planned, leg.dir)
  BY <1>2, ScpCopyArrives
<1>4. /\ disk' = [disk EXCEPT ![Dst(leg.dir)] = Received(@, files)]
      /\ arrived' = arrived \cup DOMAIN files
      /\ resent' = resent \cup (arrived \cap DOMAIN files)
  BY <1>1 DEF Deliver
<1> HIDE DEF files
<1>5. ArrivedSame'
  BY <1>2, <1>3, <1>4, ArrivalKeepsSame DEF ResendInv
<1>6. NotAgain'
  BY <1>1, <1>2, <1>3, <1>4, LegKeepsApart DEF ResendInv
<1>7. ResendOnlyWhenBlind'
  BY <1>2, <1>3, <1>4 DEF ResendInv, ResendOnlyWhenBlind
<1> QED
  BY <1>5, <1>6, <1>7 DEF ResendInv

LEMMA ScpBreaksApart == LadderInv /\ ResendInv /\ ScpBreaks => ResendInv'
<1> SUFFICES ASSUME LadderInv, ResendInv, ScpBreaks PROVE ResendInv'
  OBVIOUS
<1>1. /\ UNCHANGED <<opts, plan, arrived, resent, blind>> /\ LegFails(FALSE) /\ pc = "leg"
  BY DEF ScpBreaks, ghosts, Sending
<1>2. ArrivedSame'
  <2>1. CASE UNCHANGED disk
    BY <1>1, <2>1 DEF ResendInv, ArrivedSame
  <2>2. CASE \E r \in LargeTodo :
               disk' = [disk EXCEPT ![Dst(leg.dir)] = Received(@, [q \in {r} |-> Torn])]
    <3>1. PICK r \in LargeTodo :
            disk' = [disk EXCEPT ![Dst(leg.dir)] = Received(@, [q \in {r} |-> Torn])]
      BY <2>2
    <3> DEFINE torn == [q \in {r} |-> Torn]
    <3>2. torn \in Trees /\ DOMAIN torn = {r} /\ DOMAIN torn \subseteq Of(planned, leg.dir)
      BY TornArrives DEF LargeTodo
    <3>3. disk' = [disk EXCEPT ![Dst(leg.dir)] = Received(@, torn)] /\ r \in Large
      BY <3>1 DEF LargeTodo
    <3> HIDE DEF torn
    <3> QED
      BY <1>1, <3>2, <3>3, ArrivalKeepsSame DEF ResendInv
  <2> QED
    BY <2>1, <2>2 DEF ScpBreaks
<1>3. NotAgain'
  <2>1. {} \subseteq leg.todo /\ arrived' = arrived \cup {}
    BY <1>1
  <2> QED
    BY <1>1, <2>1, LegFailsApart DEF ResendInv
<1> QED
  BY <1>1, <1>2, <1>3 DEF ResendInv, ResendOnlyWhenBlind

LEMMA DittoSendsApart == LadderInv /\ ResendInv /\ DittoSends => ResendInv'
<1> SUFFICES ASSUME LadderInv, ResendInv, DittoSends PROVE ResendInv'
  OBVIOUS
<1> DEFINE batch == NextBatch(leg.todo, ChunkFiles)
<1>1. PICK skip \in SUBSET (batch \cap Unreadable) :
        /\ Deliver(Copies(batch \ skip))
        /\ leg'.dir = leg.dir /\ leg'.todo = leg.todo \ batch
  BY DEF DittoSends, LadderInv, TypeOK
<1>2. UNCHANGED <<opts, plan, blind, pc>> /\ pc = "leg" /\ batch \subseteq leg.todo
  BY NextBatchTodo DEF DittoSends, Sending
<1> HIDE DEF batch
<1>3. ArrivedSame' /\ ResendOnlyWhenBlind' /\ arrived' = arrived \cup (batch \ skip)
  BY <1>1, <1>2, CopiesKeepSame
<1>4. NotAgain'
  BY <1>1, <1>2, <1>3, LegKeepsApart DEF ResendInv
<1> QED
  BY <1>3, <1>4 DEF ResendInv

LEMMA DittoBreaksApart == LadderInv /\ ResendInv /\ DittoBreaks => ResendInv'
<1> SUFFICES ASSUME LadderInv, ResendInv, DittoBreaks PROVE ResendInv'
  OBVIOUS
<1>1. PICK got \in SUBSET NextBatch(leg.todo, ChunkFiles) : Deliver(Copies(got))
  BY DEF DittoBreaks
<1>2. UNCHANGED <<opts, plan, blind>> /\ LegFails(leg.counted) /\ pc = "leg" /\ got \subseteq leg.todo
  BY NextBatchTodo DEF DittoBreaks, Sending
<1>3. ArrivedSame' /\ ResendOnlyWhenBlind' /\ arrived' = arrived \cup got
  BY <1>1, <1>2, CopiesKeepSame
<1>4. NotAgain'
  BY <1>2, <1>3, LegFailsApart DEF ResendInv
<1> QED
  BY <1>3, <1>4 DEF ResendInv

LEMMA SshRaisesApart == LadderInv /\ ResendInv /\ SshRaises => ResendInv'
<1> SUFFICES ASSUME LadderInv, ResendInv, SshRaises PROVE ResendInv'
  OBVIOUS
<1>1. UNCHANGED <<disk, opts, plan, arrived, resent, blind>> /\ pc' = "assess"
  BY DEF SshRaises, ghosts
<1> QED
  BY <1>1 DEF ResendInv, ArrivedSame, NotAgain, ResendOnlyWhenBlind

LEMMA LegDoneApart == LadderInv /\ ResendInv /\ LegDone => ResendInv'
<1> SUFFICES ASSUME LadderInv, ResendInv, LegDone PROVE ResendInv'
  OBVIOUS
<1>1. UNCHANGED <<disk, opts, plan, arrived, resent, blind>> /\ pc = "leg"
  BY DEF LegDone
<1>2. NotAgain'
  <2>1. {} \subseteq leg.todo /\ arrived' = arrived \cup {}
    BY <1>1
  <2>2. \/ pc' = "leg" /\ leg.dir = "push" /\ leg' = NewLeg("pull", plan, rung, opts)
        \/ pc' = "assess"
    BY <1>1 DEF LegDone
  <2> QED
    BY <1>1, <2>1, <2>2, LegKeepsApart DEF ResendInv
<1> QED
  BY <1>1, <1>2 DEF ResendInv, ArrivedSame, ResendOnlyWhenBlind

LEMMA ReportApart == LadderInv /\ ResendInv /\ Report => ResendInv'
<1> SUFFICES ASSUME LadderInv, ResendInv, Report PROVE ResendInv'
  OBVIOUS
<1>1. UNCHANGED <<disk, opts, plan, arrived, resent, blind>> /\ pc' = "done"
  BY DEF Report, ghosts
<1> QED
  BY <1>1 DEF ResendInv, ArrivedSame, NotAgain, ResendOnlyWhenBlind

(* A file that both sides hold with one time and size moves neither way.   *)
LEMMA EqualStays ==
  ASSUME NEW local, NEW remote, NEW policy, NEW remoteComplete,
         NEW r \in DOMAIN local, r \in DOMAIN remote,
         local[r] \in FileMeta, local[r] = remote[r]
  PROVE  /\ r \notin ToPush(local, remote, policy, remoteComplete)
         /\ r \notin ToPull(local, remote, policy)
BY DEF FileMeta, ToPush, ToPull, LocalWins, RemoteWins

(* A re-plan drops everything that arrived by an archive or by arep.       *)
LEMMA ReplanDropsArrived ==
  ASSUME LadderInv, ArrivedSame, NEW dir \in Directions
  PROVE  arrived \cap Of(Replanned, dir) \subseteq Large
<1> DEFINE rels   == plan.push \cup plan.pull
           local  == Stat(disk["local"], rels)
           remote == Stat(disk["remote"], rels)
           push   == ToPush(local, remote, opts.policy, TRUE)
           pull   == ToPull(local, remote, opts.policy)
<1>1. SUFFICES ASSUME NEW r \in arrived \ Large, r \in Of(Replanned, dir) PROVE FALSE
  OBVIOUS
<1>2. Replanned = [push |-> plan.push \cap push, pull |-> plan.pull \cap pull]
  BY DEF Replanned, Replan
<1>3. r \in rels /\ (r \in push \/ r \in pull)
  <2> HIDE DEF push, pull
  <2> QED
    BY <1>1, <1>2 DEF Of
<1>4. /\ r \in DOMAIN local /\ r \in DOMAIN remote /\ local[r] = remote[r]
  BY <1>1, <1>3 DEF ArrivedSame, Stat
<1>5. local[r] \in FileMeta
  <2>1. disk["local"] \in Trees
    BY DEF LadderInv, TypeOK, Sides
  <2>2. Inventory(local)
    BY <2>1, StatInventory
  <2> HIDE DEF local
  <2> QED
    BY <1>4, <2>2 DEF Inventory
<1> HIDE DEF local, remote
<1>6. r \notin push /\ r \notin pull
  BY <1>4, <1>5, EqualStays
<1> QED
  BY <1>3, <1>6

LEMMA DowngradeApart == LadderInv /\ ResendInv /\ Downgrade => ResendInv'
<1> SUFFICES ASSUME LadderInv, ResendInv, Downgrade PROVE ResendInv'
  OBVIOUS
<1>1. PICK n \in First(left, opts), restat \in BOOLEAN :
        /\ plan' = NextPlan(restat)
        /\ leg' = NewLeg("push", plan', n, opts)
        /\ blind' = (blind \/ ~restat)
  BY DEF Downgrade
<1>2. UNCHANGED <<disk, opts, arrived, resent>> /\ pc' = "leg"
  BY DEF Downgrade
<1>3. ASSUME ~blind'
      PROVE  \A dir \in Directions : arrived \cap Of(plan', dir) \subseteq Large
  BY <1>1, <1>3, ReplanDropsArrived DEF NextPlan, ResendInv
<1>4. "push" \in Directions /\ "pull" \in Directions /\ plan' \in Plans
  BY <1>1, NextPlanShrinks DEF Directions
<1>5. leg'.todo \subseteq Of(plan', "push")
  BY <1>1, <1>4, NewLegFacts, LadderOptions DEF LadderInv
<1>6. Of(plan, "pull")' = Of(plan', "pull")
  BY DEF Of
<1>7. NotAgain'
  BY <1>2, <1>3, <1>4, <1>5, <1>6 DEF NotAgain
<1>8. ArrivedSame'
  BY <1>2 DEF ResendInv, ArrivedSame
<1>9. ResendOnlyWhenBlind'
  BY <1>1, <1>2 DEF ResendInv, ResendOnlyWhenBlind
<1> QED
  BY <1>7, <1>8, <1>9 DEF ResendInv

LEMMA ResendStep == LadderInv /\ ResendInv /\ [Next]_vars => ResendInv'
<1>1. ASSUME LadderInv, ResendInv, UNCHANGED vars PROVE ResendInv'
  BY <1>1 DEF vars, ghosts, ResendInv, ArrivedSame, NotAgain, ResendOnlyWhenBlind, Skipped, Of
<1> QED
  BY <1>1, SelectApart, ArepSendsApart, ArepBreaksApart, ScpSendsApart, ScpBreaksApart,
     DittoSendsApart, DittoBreaksApart, SshRaisesApart, LegDoneApart, ReportApart, DowngradeApart
     DEF Next

(* Only large files, or a rung entered without a re-plan, send what had    *)
(* arrived already.                                                        *)
THEOREM LadderResends == Spec => []ResendOnlyWhenBlind
<1>1. LadderInv /\ ResendInv /\ [Next]_vars => ResendInv'
  BY ResendStep
<1>2. ResendInv => ResendOnlyWhenBlind
  BY DEF ResendInv
<1> QED
  BY <1>1, <1>2, ResendInit, LadderAlways, PTL DEF Spec

-----------------------------------------------------------------------------
(* The ladder implements PeerTransfer.                                     *)

\* The state that PeerTransfer sees.
Held == [side \in Sides |-> [r \in DOMAIN disk[side] |-> disk[side][r].ver]]
OwedIn(dir) == Of(planned, dir) \ (arrived \cup excused)
Owed == [push |-> OwedIn("push"), pull |-> OwedIn("pull")]
Verdict == IF pc # "done" THEN "running" ELSE IF Failed THEN "failed" ELSE "ok"

\* What is delivered has arrived in this stage, and a dry run sends nothing.
DeliveredArrived == \A dir \in Directions : \A r \in Small(dir) : Delivered(r, dir) => r \in arrived
DrySendsNothing == opts.dry_run => leg.todo = {}
ArrivalInv == DeliveredArrived /\ DrySendsNothing

(* The next state of the two trees and of what is owed, after a step in    *)
(* which only files of the plan arrive, all from one source.               *)
LEMMA ProgressIsAbstract ==
  ASSUME LadderInv, NEW dir \in Directions, disk' \in [Sides -> Trees],
         UNCHANGED <<planned, opts>>, pc # "done", pc' # "done",
         disk'[Src(dir)] = disk[Src(dir)],
         DOMAIN disk[Dst(dir)] \subseteq DOMAIN disk'[Dst(dir)],
         \A r \in DOMAIN disk'[Dst(dir)] :
           \/ r \in DOMAIN disk[Dst(dir)] /\ disk'[Dst(dir)][r].ver = disk[Dst(dir)][r].ver
           \/ /\ r \in Of(planned, dir) /\ ~opts.dry_run
              /\ \/ disk'[Dst(dir)][r].ver = disk[Src(dir)][r].ver /\ r \notin OwedIn(dir)'
                 \/ disk'[Dst(dir)][r].ver = 0 /\ r \in Large,
         arrived \subseteq arrived', excused \subseteq excused',
         (arrived' \cup excused') \ (arrived \cup excused) \subseteq Of(planned, dir),
         \A r \in OwedIn(dir) \ OwedIn(dir)' :
           \/ r \in DOMAIN disk'[Dst(dir)] /\ disk'[Dst(dir)][r].ver = disk[Src(dir)][r].ver
           \/ r \in Denied \cup Unreadable
  PROVE  PT!Progress(dir)
<1>1. Src(dir) \in Sides /\ Dst(dir) \in Sides
  BY SidesOfDirections
<1>2. /\ PT!Src(dir) = Src(dir) /\ PT!Dst(dir) = Dst(dir) /\ PT!Torn = 0
  BY DEF PT!Src, PT!Dst, Src, Dst, PT!Torn
<1>3. /\ Held[Dst(dir)] = [r \in DOMAIN disk[Dst(dir)] |-> disk[Dst(dir)][r].ver]
      /\ Held[Src(dir)] = [r \in DOMAIN disk[Src(dir)] |-> disk[Src(dir)][r].ver]
      /\ Held'[Dst(dir)] = [r \in DOMAIN disk'[Dst(dir)] |-> disk'[Dst(dir)][r].ver]
      /\ Held'[Src(dir)] = [r \in DOMAIN disk'[Src(dir)] |-> disk'[Src(dir)][r].ver]
  BY <1>1 DEF Held
<1>4. planned[dir] = Of(planned, dir) /\ Owed[dir] = OwedIn(dir) /\ Owed'[dir] = OwedIn(dir)'
  BY DEF Directions, Of, Owed, LadderInv, TypeOK, Plans
<1>5. Owed' = [Owed EXCEPT ![dir] = OwedIn(dir)'] /\ OwedIn(dir)' \subseteq OwedIn(dir)
  <2>1. \A other \in Directions : other # dir => OwedIn(other)' = OwedIn(other)
    BY DEF OwedIn, LadderInv, PlannedApart, Of, Directions
  <2>2. OwedIn(dir)' \subseteq OwedIn(dir)
    BY DEF OwedIn, Of
  <2>3. Owed' = [push |-> OwedIn("push")', pull |-> OwedIn("pull")']
    BY DEF Owed
  <2>4. CASE dir = "push"
    <3>1. OwedIn("pull")' = OwedIn("pull")
      BY <2>1, <2>4 DEF Directions
    <3> QED
      BY <2>2, <2>3, <2>4, <3>1 DEF Owed
  <2>5. CASE dir = "pull"
    <3>1. OwedIn("push")' = OwedIn("push")
      BY <2>1, <2>5 DEF Directions
    <3> QED
      BY <2>2, <2>3, <2>5, <3>1 DEF Owed
  <2> QED
    BY <2>4, <2>5 DEF Directions
<1>6. Verdict = "running" /\ Verdict' = "running"
  BY DEF Verdict
<1> DEFINE old == Held[Dst(dir)]
           new == Held'[Dst(dir)]
<1>7. /\ Held'[Src(dir)] = Held[Src(dir)] /\ DOMAIN old \subseteq DOMAIN new
  BY <1>3
<1>8. \A r \in DOMAIN new :
        \/ r \in DOMAIN old /\ new[r] = old[r]
        \/ /\ r \in planned[dir] /\ ~opts.dry_run
           /\ \/ (r \in DOMAIN new /\ new[r] = Held[Src(dir)][r]) /\ r \notin Owed'[dir]
              \/ new[r] = 0 /\ r \in Large
  BY <1>3, <1>4 DEF LadderInv, PlannedAtSource
<1>9. \A r \in Owed[dir] \ Owed'[dir] :
        (r \in DOMAIN new /\ new[r] = Held[Src(dir)][r]) \/ r \in Denied \cup Unreadable
  BY <1>3, <1>4 DEF LadderInv, PlannedAtSource, OwedIn
<1>10. \E rest \in SUBSET Owed[dir] : Owed' = [Owed EXCEPT ![dir] = rest]
  BY <1>4, <1>5
<1> QED
  BY <1>2, <1>6, <1>7, <1>8, <1>9, <1>10
     DEF PT!Progress, PT!Kept, PT!Whole, Held, Owed, OwedIn, Of, Verdict

\* What a step of the ladder is for PeerTransfer.
AbstractStep == PT!Next \/ UNCHANGED PT!vars

LEMMA ProgressIsStep ==
  ASSUME NEW dir \in Directions, PT!Progress(dir) PROVE AbstractStep
BY DEF AbstractStep, PT!Next, PT!Directions, Directions

LEMMA StutterIsAbstract ==
  ASSUME UNCHANGED <<disk, opts, planned, arrived, excused>>, pc # "done", pc' # "done"
  PROVE  AbstractStep
BY DEF AbstractStep, PT!vars

(* Some files of the leg arrive: those in whole are as at their source,    *)
(* the others are large and torn.                                          *)
LEMMA TransferIsAbstract ==
  ASSUME LadderInv, ArrivalInv, UNCHANGED <<opts, planned>>, pc = "leg", pc' # "done",
         leg.todo # {}, NEW files \in Trees, DOMAIN files \subseteq leg.todo,
         NEW whole, whole \subseteq DOMAIN files,
         \A r \in whole : files[r].ver = disk[Src(leg.dir)][r].ver,
         \A r \in DOMAIN files \ whole : files[r].ver = 0 /\ r \in Large,
         disk' = [disk EXCEPT ![Dst(leg.dir)] = Received(@, files)],
         arrived' = arrived \cup whole, excused \subseteq excused',
         excused' \subseteq excused \cup (leg.todo \cap Unreadable)
  PROVE  AbstractStep /\ DeliveredArrived'
<1>1. /\ leg.dir \in Directions /\ leg.todo \subseteq Of(planned, leg.dir) /\ ~opts.dry_run
      /\ DOMAIN files \subseteq Of(planned, leg.dir)
      /\ Src(leg.dir) \in Sides /\ Dst(leg.dir) \in Sides
  BY SidesOfDirections DEF LadderInv, TypeOK, TodoPlanned, ArrivalInv, DrySendsNothing
<1>2. /\ disk' \in [Sides -> Trees]
      /\ disk'[Src(leg.dir)] = disk[Src(leg.dir)]
      /\ \A side \in Sides : DOMAIN disk[side] \subseteq DOMAIN disk'[side]
      /\ \A r \in DOMAIN files : /\ r \in DOMAIN disk'[Dst(leg.dir)]
                                 /\ disk'[Dst(leg.dir)][r] = files[r]
  BY <1>1, DiskStep
<1>3. \A side \in Sides : \A r :
        r \notin DOMAIN files =>
          /\ r \in DOMAIN disk'[side] <=> r \in DOMAIN disk[side]
          /\ r \in DOMAIN disk[side] => disk'[side][r] = disk[side][r]
  BY <1>1, DiskStep
<1>4. \A dir \in Directions : dir = leg.dir =>
        \A r \in whole : r \notin OwedIn(dir)'
  BY DEF OwedIn
<1>5. \A r \in DOMAIN disk'[Dst(leg.dir)] :
        \/ /\ r \in DOMAIN disk[Dst(leg.dir)]
           /\ disk'[Dst(leg.dir)][r].ver = disk[Dst(leg.dir)][r].ver
        \/ /\ r \in Of(planned, leg.dir) /\ ~opts.dry_run
           /\ \/ disk'[Dst(leg.dir)][r].ver = disk[Src(leg.dir)][r].ver /\ r \in whole
              \/ disk'[Dst(leg.dir)][r].ver = 0 /\ r \in Large
  BY <1>1, <1>2, <1>3
<1>6. (arrived' \cup excused') \ (arrived \cup excused) \subseteq Of(planned, leg.dir)
  BY <1>1
<1>7. \A dir \in Directions : dir = leg.dir =>
        \A r \in OwedIn(dir) \ OwedIn(dir)' : r \in whole \/ r \in Unreadable
  BY DEF OwedIn, Of
<1>8. \A dir \in Directions : dir = leg.dir => PT!Progress(dir)
  <2>1. SUFFICES ASSUME NEW dir \in Directions, dir = leg.dir PROVE PT!Progress(dir)
    OBVIOUS
  <2>2. \A r \in DOMAIN disk'[Dst(dir)] :
          \/ r \in DOMAIN disk[Dst(dir)] /\ disk'[Dst(dir)][r].ver = disk[Dst(dir)][r].ver
          \/ /\ r \in Of(planned, dir) /\ ~opts.dry_run
             /\ \/ disk'[Dst(dir)][r].ver = disk[Src(dir)][r].ver /\ r \notin OwedIn(dir)'
                \/ disk'[Dst(dir)][r].ver = 0 /\ r \in Large
    BY <1>4, <1>5, <2>1
  <2>3. \A r \in OwedIn(dir) \ OwedIn(dir)' :
          \/ r \in DOMAIN disk'[Dst(dir)] /\ disk'[Dst(dir)][r].ver = disk[Src(dir)][r].ver
          \/ r \in Denied \cup Unreadable
    BY <1>2, <1>7, <2>1
  <2> QED
    BY <1>1, <1>2, <1>6, <2>1, <2>2, <2>3, ProgressIsAbstract
<1>9. DeliveredArrived'
  <2>1. ASSUME NEW dir \in Directions, NEW r \in Small(dir), Delivered(r, dir)'
        PROVE  r \in arrived'
    <3>1. CASE r \in DOMAIN files
      <4>1. r \in whole
        BY <2>1, <3>1 DEF Small
      <4> QED
        BY <4>1
    <3>2. CASE r \notin DOMAIN files
      <4>1. /\ r \in DOMAIN disk[Src(dir)] /\ Src(dir) \in Sides /\ Dst(dir) \in Sides
        BY <2>1, SidesOfDirections DEF Small, LadderInv, PlannedAtSource
      <4>2. Delivered(r, dir)
        BY <1>3, <2>1, <3>2, <4>1 DEF Delivered
      <4> QED
        BY <2>1, <4>2 DEF ArrivalInv, DeliveredArrived
    <3> QED
      BY <3>1, <3>2
  <2> QED
    BY <2>1 DEF DeliveredArrived, Small
<1>10. AbstractStep
  BY <1>1, <1>8, ProgressIsStep
<1> QED
  BY <1>9, <1>10

LEMMA DryLegs ==
  ASSUME LadderInv, ArrivalInv, UNCHANGED opts,
         \/ leg'.todo \subseteq leg.todo
         \/ \E dir \in Directions, pl \in Plans : \E rg : leg' = NewLeg(dir, pl, rg, opts)
  PROVE  DrySendsNothing'
BY NewLegFacts, LadderOptions DEF LadderInv, ArrivalInv, DrySendsNothing

LEMMA LegFailsDry ==
  ASSUME LadderInv, ArrivalInv, UNCHANGED opts, NEW moved, LegFails(moved)
  PROVE  DrySendsNothing'
<1>1. leg' = leg \/ leg' = NewLeg("pull", plan, rung, opts)
  BY DEF LegFails
<1>2. "pull" \in Directions /\ plan \in Plans
  BY DEF LadderInv, TypeOK, Directions
<1> QED
  BY <1>1, <1>2, DryLegs

LEMMA SameArrivals ==
  ASSUME ArrivalInv, UNCHANGED <<disk, planned, arrived>>
  PROVE  DeliveredArrived'
BY DEF ArrivalInv, DeliveredArrived, Small, Delivered

LEMMA ArrivalInit == Init => ArrivalInv
<1> SUFFICES ASSUME Init PROVE ArrivalInv
  OBVIOUS
<1>1. ASSUME NEW v \in {1, 2}, NEW home \in Homes(v), NEW r \in DOMAIN home
      PROVE  home[r].ver = v
  <2>1. PICK old \in SUBSET Paths, new \in SUBSET Paths : home = Home(v, old, new)
    BY <1>1 DEF Homes
  <2> QED
    BY <1>1, <2>1 DEF Home, Older, Newer
<1>2. disk["local"] \in Homes(1) /\ disk["remote"] \in Homes(2)
  BY DEF Init, Sides
<1>3. LadderInv
  BY LadderInit
<1>4. ASSUME NEW dir \in Directions, NEW r \in Small(dir)
      PROVE  ~Delivered(r, dir)
  <2>1. r \in DOMAIN disk[Src(dir)]
    BY <1>3, <1>4 DEF LadderInv, PlannedAtSource, Small
  <2>2. ASSUME r \in DOMAIN disk[Dst(dir)]
        PROVE  disk[Dst(dir)][r].ver # disk[Src(dir)][r].ver
    <3>1. r \in DOMAIN disk["local"] /\ r \in DOMAIN disk["remote"]
      BY <2>1, <2>2 DEF Directions, Src, Dst
    <3>2. disk["local"][r].ver = 1 /\ disk["remote"][r].ver = 2
      BY <1>1, <1>2, <3>1
    <3> QED
      BY <3>2 DEF Directions, Src, Dst
  <2> QED
    BY <2>2 DEF Delivered
<1> QED
  BY <1>4 DEF ArrivalInv, DeliveredArrived, DrySendsNothing, Init

LEMMA SelectRefines == LadderInv /\ ArrivalInv /\ Select => ArrivalInv' /\ AbstractStep
<1> SUFFICES ASSUME LadderInv, ArrivalInv, Select PROVE ArrivalInv' /\ AbstractStep
  OBVIOUS
<1>1. UNCHANGED <<disk, opts, planned, plan, arrived, excused>> /\ pc = "select"
  BY DEF Select, ghosts
<1>2. CASE pc' = "done" /\ res' = NoRung /\ UNCHANGED leg
  <2>1. PT!Finish
    BY <1>1, <1>2 DEF PT!Finish, Failed, NoRung
  <2> QED
    BY <1>1, <1>2, <2>1, SameArrivals
       DEF ArrivalInv, DrySendsNothing, AbstractStep, PT!Next
<1>3. CASE pc' = "leg" /\ \E n : leg' = NewLeg("push", plan, n, opts)
  <2>1. "push" \in Directions /\ plan \in Plans
    BY DEF LadderInv, TypeOK, Directions
  <2> QED
    BY <1>1, <1>3, <2>1, SameArrivals, DryLegs, StutterIsAbstract DEF ArrivalInv
<1> QED
  BY <1>2, <1>3 DEF Select

LEMMA ArepSendsRefines == LadderInv /\ ArrivalInv /\ ArepSends => ArrivalInv' /\ AbstractStep
<1> SUFFICES ASSUME LadderInv, ArrivalInv, ArepSends PROVE ArrivalInv' /\ AbstractStep
  OBVIOUS
<1> DEFINE files == Copies(leg.todo)
<1>1. /\ UNCHANGED <<opts, planned, excused, pc>> /\ pc = "leg" /\ leg.todo # {}
      /\ leg'.todo = {}
  BY DEF ArepSends, Sending, LadderInv, TypeOK
<1>2. files \in Trees /\ DOMAIN files = leg.todo
  BY CopiesArrive
<1>3. \A r \in DOMAIN files : files[r].ver = disk[Src(leg.dir)][r].ver
  BY DEF Copies
<1>4. /\ disk' = [disk EXCEPT ![Dst(leg.dir)] = Received(@, files)]
      /\ arrived' = arrived \cup DOMAIN files
  BY DEF ArepSends, Deliver
<1> HIDE DEF files
<1> QED
  BY <1>1, <1>2, <1>3, <1>4, TransferIsAbstract, DryLegs DEF ArrivalInv

LEMMA ArepBreaksRefines == LadderInv /\ ArrivalInv /\ ArepBreaks => ArrivalInv' /\ AbstractStep
<1> SUFFICES ASSUME LadderInv, ArrivalInv, ArepBreaks PROVE ArrivalInv' /\ AbstractStep
  OBVIOUS
<1>1. PICK got \in SUBSET leg.todo, spawned \in BOOLEAN :
        Deliver(Copies(got)) /\ LegFails(spawned)
  BY DEF ArepBreaks
<1>2. UNCHANGED <<opts, planned, excused>> /\ pc = "leg" /\ leg.todo # {} /\ pc' # "done"
  BY <1>1 DEF ArepBreaks, Sending, LegFails
<1> DEFINE files == Copies(got)
<1>3. files \in Trees /\ DOMAIN files = got
  BY CopiesArrive
<1>4. \A r \in DOMAIN files : files[r].ver = disk[Src(leg.dir)][r].ver
  BY DEF Copies
<1>5. /\ disk' = [disk EXCEPT ![Dst(leg.dir)] = Received(@, files)]
      /\ arrived' = arrived \cup DOMAIN files
  BY <1>1 DEF Deliver
<1> HIDE DEF files
<1> QED
  BY <1>1, <1>2, <1>3, <1>4, <1>5, TransferIsAbstract, LegFailsDry DEF ArrivalInv

LEMMA ScpSendsRefines == LadderInv /\ ArrivalInv /\ ScpSends => ArrivalInv' /\ AbstractStep
<1> SUFFICES ASSUME LadderInv, ArrivalInv, ScpSends PROVE ArrivalInv' /\ AbstractStep
  OBVIOUS
<1>1. PICK r \in LargeTodo : Deliver(ScpCopy(r)) /\ leg'.todo = leg.todo \ {r}
  BY DEF ScpSends, LadderInv, TypeOK
<1>2. /\ UNCHANGED <<opts, planned, excused, pc>> /\ pc = "leg" /\ leg.todo # {}
      /\ r \in leg.todo
  BY DEF ScpSends, Sending, LargeTodo
<1> DEFINE files == ScpCopy(r)
<1>3. files \in Trees /\ DOMAIN files = {r}
  BY <1>2, ScpCopyArrives
<1>4. \A q \in DOMAIN files : files[q].ver = disk[Src(leg.dir)][q].ver
  <2>1. disk[Src(leg.dir)][r] \in Files
    BY <1>2, TodoAtSource, TreeParts, SidesOfDirections DEF LadderInv, TypeOK
  <2> QED
    BY <2>1 DEF ScpCopy, Files
<1>5. /\ disk' = [disk EXCEPT ![Dst(leg.dir)] = Received(@, files)]
      /\ arrived' = arrived \cup DOMAIN files
  BY <1>1 DEF Deliver
<1> HIDE DEF files
<1> QED
  BY <1>1, <1>2, <1>3, <1>4, <1>5, TransferIsAbstract, DryLegs DEF ArrivalInv

LEMMA ScpBreaksRefines == LadderInv /\ ArrivalInv /\ ScpBreaks => ArrivalInv' /\ AbstractStep
<1> SUFFICES ASSUME LadderInv, ArrivalInv, ScpBreaks PROVE ArrivalInv' /\ AbstractStep
  OBVIOUS
<1>1. /\ UNCHANGED <<opts, planned, arrived, excused>> /\ LegFails(FALSE)
      /\ pc = "leg" /\ leg.todo # {} /\ pc' # "done"
  BY DEF ScpBreaks, ghosts, Sending, LegFails
<1>2. CASE UNCHANGED disk
  BY <1>1, <1>2, SameArrivals, LegFailsDry, StutterIsAbstract DEF ArrivalInv
<1>3. CASE \E r \in LargeTodo :
             disk' = [disk EXCEPT ![Dst(leg.dir)] = Received(@, [q \in {r} |-> Torn])]
  <2>1. PICK r \in LargeTodo :
          disk' = [disk EXCEPT ![Dst(leg.dir)] = Received(@, [q \in {r} |-> Torn])]
    BY <1>3
  <2> DEFINE torn == [q \in {r} |-> Torn]
  <2>2. torn \in Trees /\ DOMAIN torn = {r} /\ \A q \in DOMAIN torn : torn[q].ver = 0
    BY TornArrives DEF LargeTodo, Torn
  <2>3. disk' = [disk EXCEPT ![Dst(leg.dir)] = Received(@, torn)] /\ r \in leg.todo /\ r \in Large
    BY <2>1 DEF LargeTodo
  <2> DEFINE none == {}
  <2>4. /\ none \subseteq DOMAIN torn /\ arrived' = arrived \cup none
        /\ \A q \in none : torn[q].ver = disk[Src(leg.dir)][q].ver
    BY <1>1
  <2> HIDE DEF torn, none
  <2>5. /\ DOMAIN torn \subseteq leg.todo
        /\ \A q \in DOMAIN torn \ none : torn[q].ver = 0 /\ q \in Large
    BY <2>2, <2>3
  <2>6. excused \subseteq excused' /\ excused' \subseteq excused \cup (leg.todo \cap Unreadable)
    BY <1>1
  <2>7. torn \in Trees /\ disk' = [disk EXCEPT ![Dst(leg.dir)] = Received(@, torn)]
    BY <2>2, <2>3
  <2>8. AbstractStep /\ DeliveredArrived'
    BY <1>1, <2>4, <2>5, <2>6, <2>7, TransferIsAbstract
  <2> QED
    BY <1>1, <2>8, LegFailsDry DEF ArrivalInv
<1> QED
  BY <1>2, <1>3 DEF ScpBreaks

LEMMA DittoSendsRefines == LadderInv /\ ArrivalInv /\ DittoSends => ArrivalInv' /\ AbstractStep
<1> SUFFICES ASSUME LadderInv, ArrivalInv, DittoSends PROVE ArrivalInv' /\ AbstractStep
  OBVIOUS
<1> DEFINE batch == NextBatch(leg.todo, ChunkFiles)
<1>1. PICK skip \in SUBSET (batch \cap Unreadable) :
        /\ Deliver(Copies(batch \ skip))
        /\ excused' = excused \cup skip
        /\ leg'.todo = leg.todo \ batch
  BY DEF DittoSends, LadderInv, TypeOK
<1>2. /\ UNCHANGED <<opts, planned, pc>> /\ pc = "leg" /\ leg.todo # {}
      /\ batch \subseteq leg.todo
  BY NextBatchTodo DEF DittoSends, Sending
<1> DEFINE files == Copies(batch \ skip)
<1> HIDE DEF batch
<1>3. files \in Trees /\ DOMAIN files = batch \ skip
  BY <1>2, CopiesArrive
<1>4. \A r \in DOMAIN files : files[r].ver = disk[Src(leg.dir)][r].ver
  BY DEF Copies
<1>5. /\ disk' = [disk EXCEPT ![Dst(leg.dir)] = Received(@, files)]
      /\ arrived' = arrived \cup DOMAIN files
  BY <1>1 DEF Deliver
<1> HIDE DEF files
<1> QED
  BY <1>1, <1>2, <1>3, <1>4, <1>5, TransferIsAbstract, DryLegs DEF ArrivalInv

LEMMA DittoBreaksRefines == LadderInv /\ ArrivalInv /\ DittoBreaks => ArrivalInv' /\ AbstractStep
<1> SUFFICES ASSUME LadderInv, ArrivalInv, DittoBreaks PROVE ArrivalInv' /\ AbstractStep
  OBVIOUS
<1>1. PICK got \in SUBSET NextBatch(leg.todo, ChunkFiles) : Deliver(Copies(got))
  BY DEF DittoBreaks
<1>2. /\ UNCHANGED <<opts, planned, excused>> /\ pc = "leg" /\ leg.todo # {} /\ pc' # "done"
      /\ LegFails(leg.counted) /\ got \subseteq leg.todo
  BY NextBatchTodo DEF DittoBreaks, Sending, LegFails
<1> DEFINE files == Copies(got)
<1>3. files \in Trees /\ DOMAIN files = got
  BY <1>2, CopiesArrive
<1>4. \A r \in DOMAIN files : files[r].ver = disk[Src(leg.dir)][r].ver
  BY DEF Copies
<1>5. /\ disk' = [disk EXCEPT ![Dst(leg.dir)] = Received(@, files)]
      /\ arrived' = arrived \cup DOMAIN files
  BY <1>1 DEF Deliver
<1> HIDE DEF files
<1> QED
  BY <1>2, <1>3, <1>4, <1>5, TransferIsAbstract, LegFailsDry DEF ArrivalInv

LEMMA SshRaisesRefines == LadderInv /\ ArrivalInv /\ SshRaises => ArrivalInv' /\ AbstractStep
<1> SUFFICES ASSUME LadderInv, ArrivalInv, SshRaises PROVE ArrivalInv' /\ AbstractStep
  OBVIOUS
<1>1. /\ UNCHANGED <<disk, opts, leg, planned, arrived, excused>>
      /\ pc = "leg" /\ pc' = "assess"
  BY DEF SshRaises, ghosts, Sending
<1> QED
  BY <1>1, SameArrivals, StutterIsAbstract DEF ArrivalInv, DrySendsNothing

LEMMA LegDoneRefines == LadderInv /\ ArrivalInv /\ LegDone => ArrivalInv' /\ AbstractStep
<1> SUFFICES ASSUME LadderInv, ArrivalInv, LegDone PROVE ArrivalInv' /\ AbstractStep
  OBVIOUS
<1>1. /\ UNCHANGED <<disk, opts, planned, arrived>> /\ pc = "leg" /\ pc' # "done"
      /\ excused \subseteq excused'
      /\ excused' \subseteq excused \cup (Of(planned, leg.dir) \cap Denied)
      /\ leg.dir \in Directions /\ disk \in [Sides -> Trees]
  BY DEF LegDone, LadderInv, TypeOK
<1>2. AbstractStep
  <2>1. SUFFICES ASSUME NEW dir \in Directions, dir = leg.dir PROVE PT!Progress(dir)
    BY <1>1, ProgressIsStep
  <2>2. \A r \in OwedIn(dir) \ OwedIn(dir)' : r \in Denied
    BY <1>1, <2>1 DEF OwedIn, Of
  <2>3. (arrived' \cup excused') \ (arrived \cup excused) \subseteq Of(planned, dir)
    BY <1>1, <2>1
  <2> QED
    BY <1>1, <2>1, <2>2, <2>3, ProgressIsAbstract
<1>3. leg' = leg \/ leg' = NewLeg("pull", plan, rung, opts)
  BY DEF LegDone
<1>4. "pull" \in Directions /\ plan \in Plans
  BY DEF LadderInv, TypeOK, Directions
<1> QED
  BY <1>1, <1>2, <1>3, <1>4, SameArrivals, DryLegs DEF ArrivalInv

LEMMA DowngradeRefines == LadderInv /\ ArrivalInv /\ Downgrade => ArrivalInv' /\ AbstractStep
<1> SUFFICES ASSUME LadderInv, ArrivalInv, Downgrade PROVE ArrivalInv' /\ AbstractStep
  OBVIOUS
<1>1. /\ UNCHANGED <<disk, opts, planned, arrived, excused>>
      /\ pc = "assess" /\ pc' = "leg"
  BY DEF Downgrade
<1>2. \E n : leg' = NewLeg("push", plan', n, opts)
  BY DEF Downgrade
<1>3. "push" \in Directions /\ plan' \in Plans
  BY NextPlanShrinks DEF Downgrade, Directions
<1> QED
  BY <1>1, <1>2, <1>3, SameArrivals, DryLegs, StutterIsAbstract DEF ArrivalInv

(* rc 0 is reported only when nothing is owed but large files.             *)
LEMMA ReportRefines ==
  LadderInv /\ DeliveryInv /\ ArrivalInv /\ Report => ArrivalInv' /\ AbstractStep
<1> SUFFICES ASSUME LadderInv, DeliveryInv, ArrivalInv, Report PROVE ArrivalInv' /\ AbstractStep
  OBVIOUS
<1>1. /\ UNCHANGED <<disk, opts, leg, res, planned, arrived, excused>>
      /\ pc = "assess" /\ pc' = "done"
  BY DEF Report, ghosts
<1>2. ~Failed /\ ~opts.dry_run => OwedIn("push") \cup OwedIn("pull") \subseteq Large
  BY <1>1 DEF DeliveryInv, EndAccounts, AllSettled, Settled, Small, OwedIn, Directions,
              ArrivalInv, DeliveredArrived
<1>3. Failed' = Failed
  BY <1>1 DEF Failed
<1>4. PT!Finish
  <2>1. CASE Failed
    BY <1>1, <1>3, <2>1 DEF PT!Finish
  <2>2. CASE ~Failed
    BY <1>1, <1>2, <1>3, <2>2 DEF PT!Finish, OwedIn, Of
  <2> QED
    BY <2>1, <2>2
<1> QED
  BY <1>1, <1>4, SameArrivals DEF ArrivalInv, DrySendsNothing, AbstractStep, PT!Next

LEMMA RefinementStep ==
  LadderInv /\ DeliveryInv /\ ArrivalInv /\ [Next]_vars => ArrivalInv' /\ AbstractStep
<1>1. ASSUME ArrivalInv, UNCHANGED vars PROVE ArrivalInv' /\ AbstractStep
  <2>1. UNCHANGED <<disk, opts, planned, arrived, excused, leg, pc, res>>
    BY <1>1 DEF vars, ghosts
  <2> QED
    BY <1>1, <2>1, SameArrivals
       DEF ArrivalInv, DrySendsNothing, AbstractStep, PT!vars, Failed
<1> QED
  BY <1>1, SelectRefines, ArepSendsRefines, ArepBreaksRefines, ScpSendsRefines,
     ScpBreaksRefines, DittoSendsRefines, DittoBreaksRefines, SshRaisesRefines,
     LegDoneRefines, ReportRefines, DowngradeRefines
     DEF Next

LEMMA RefinementInit == Init => PT!Init
<1> SUFFICES ASSUME Init PROVE PT!Init
  OBVIOUS
<1>1. LadderInv
  BY LadderInit
<1>2. /\ planned \in Plans /\ opts.dry_run \in BOOLEAN
      /\ planned.push \subseteq DOMAIN disk["local"]
      /\ planned.pull \subseteq DOMAIN disk["remote"]
  BY <1>1, LadderOptions
     DEF LadderInv, TypeOK, PlannedAtSource, Directions, Of, Src, OptionSpace
<1>3. pc = "select" /\ arrived = {} /\ excused = {}
  BY DEF Init
<1>4. Owed = planned
  BY <1>2, <1>3 DEF Owed, OwedIn, Of, Plans
<1>5. DOMAIN Held["local"] = DOMAIN disk["local"] /\ DOMAIN Held["remote"] = DOMAIN disk["remote"]
  BY DEF Held, Sides
<1> QED
  BY <1>2, <1>3, <1>4, <1>5 DEF PT!Init, Held, Owed, OwedIn, Of

(* The ladder does nothing that the abstract transfer stage does not       *)
(* allow: planned files only, in their direction only, whole or - the      *)
(* large ones - torn, and rc 0 only when nothing else is owed.             *)
THEOREM LadderImplements == Spec => ImplementsPeerTransfer
<1>1. LadderInv /\ DeliveryInv /\ ArrivalInv /\ [Next]_vars =>
        ArrivalInv' /\ [PT!Next]_(PT!vars)
  BY RefinementStep DEF AbstractStep
<1> QED
  BY <1>1, RefinementInit, ArrivalInit, LadderAlways, DeliveryAlways, PTL
     DEF Spec, ImplementsPeerTransfer, PT!Spec
=============================================================================
