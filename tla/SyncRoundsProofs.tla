-------------------------- MODULE SyncRoundsProofs --------------------------
(* What the plan promises for every pair of inventories, and what one      *)
(* round may do to a file, for any trees, policies and limits.             *)
EXTENDS SyncRounds, TLAPS, FiniteSetTheorems, WellFoundedInduction

-----------------------------------------------------------------------------
(* The plan.                                                               *)

\* An inventory as the plan reads it: any files, with times and sizes in Nat.
Inventory(inv) == \A r \in DOMAIN inv : inv[r] \in FileMeta

(* No policy lets both sides win the same file.                            *)
LEMMA OneWinner ==
  ASSUME NEW policy, NEW lm \in FileMeta, NEW rm \in FileMeta
  PROVE  ~(LocalWins(policy, lm, rm) /\ RemoteWins(policy, lm, rm))
BY DEF FileMeta, LocalWins, RemoteWins

(* A plan never moves a file both ways, whatever the policy and however    *)
(* much of the peer was walked.                                            *)
THEOREM PlanOneWay ==
  ASSUME NEW linv, NEW rinv, NEW policy, NEW remoteComplete,
         Inventory(linv), Inventory(rinv)
  PROVE  ToPush(linv, rinv, policy, remoteComplete)
           \cap ToPull(linv, rinv, policy) = {}
<1>1. SUFFICES ASSUME NEW r \in ToPush(linv, rinv, policy, remoteComplete),
                      r \in ToPull(linv, rinv, policy)
               PROVE  FALSE
  OBVIOUS
<1>2. r \in DOMAIN linv /\ r \in DOMAIN rinv
  BY <1>1 DEF ToPush, ToPull
<1>3. LocalWins(policy, linv[r], rinv[r]) /\ RemoteWins(policy, linv[r], rinv[r])
  BY <1>1, <1>2 DEF ToPush, ToPull
<1> QED
  BY <1>2, <1>3, OneWinner DEF Inventory

(* Only listed files are planned.                                          *)
LEMMA PlanFromSources ==
  ASSUME NEW linv, NEW rinv, NEW policy, NEW remoteComplete
  PROVE  /\ ToPush(linv, rinv, policy, remoteComplete) \subseteq DOMAIN linv
         /\ ToPull(linv, rinv, policy) \subseteq DOMAIN rinv
BY DEF ToPush, ToPull

(* Batch limits only drop files.                                           *)
LEMMA AdmittedWithinPlan ==
  ASSUME NEW push, NEW pull, NEW linv, NEW rinv, NEW maxFiles, NEW maxBytes
  PROVE  LET taken == Admitted(Candidates(push, pull, linv, rinv), maxFiles, maxBytes)
         IN  RelsOf(taken, "push") \subseteq push /\ RelsOf(taken, "pull") \subseteq pull
<1> DEFINE cands == Candidates(push, pull, linv, rinv)
           taken == Admitted(cands, maxFiles, maxBytes)
<1>1. taken \subseteq cands
  BY DEF Admitted
<1>2. \A c \in cands : /\ c.dir = "push" => c.rel \in push
                       /\ c.dir = "pull" => c.rel \in pull
  BY DEF Candidates
<1> HIDE DEF cands, taken
<1>3. \A c \in taken : /\ c.dir = "push" => c.rel \in push
                       /\ c.dir = "pull" => c.rel \in pull
  BY <1>1, <1>2
<1>4. RelsOf(taken, "push") \subseteq push /\ RelsOf(taken, "pull") \subseteq pull
  BY <1>3 DEF RelsOf
<1> QED
  BY <1>4 DEF taken, cands

-----------------------------------------------------------------------------
(* The inductive invariant: a walk tells the truth about the files it      *)
(* lists, and the plan is what the policy wants of them.                   *)

ListedIsTrue ==
  pc # "walk" =>
    \A r \in DOMAIN listed.inv : r \in DOMAIN remote /\ listed.inv[r] = remote[r]

PlanIsWanted ==
  pc = "move" =>
    /\ plan.push \subseteq ToPush(local, listed.inv, opts.policy, listed.complete)
    /\ plan.pull \subseteq ToPull(local, listed.inv, opts.policy)

RoundInv == TypeOK /\ ListedIsTrue /\ PlanIsWanted

LEMMA TreesInventory ==
  ASSUME NEW tree \in Trees
  PROVE  /\ Inventory(tree) /\ DOMAIN tree \subseteq Paths
         /\ \A r \in DOMAIN tree : tree[r] \in Metas
<1>1. PICK D \in SUBSET Paths : tree \in [D -> Metas]
  BY DEF Trees
<1>2. DOMAIN tree \subseteq Paths /\ \A r \in DOMAIN tree : tree[r] \in Metas
  BY <1>1
<1>3. Metas \subseteq FileMeta
  BY RoundsAssumption DEF Metas, FileMeta
<1> QED
  BY <1>2, <1>3 DEF Inventory

LEMMA SubtreeIsTree ==
  ASSUME NEW tree \in Trees, NEW seen \in SUBSET DOMAIN tree
  PROVE  [r \in seen |-> tree[r]] \in Trees
<1>1. [r \in seen |-> tree[r]] \in [seen -> Metas] /\ seen \in SUBSET Paths
  BY TreesInventory
<1> QED
  BY <1>1 DEF Trees

LEMMA OverlayIsTree ==
  ASSUME NEW dst \in Trees, NEW src \in Trees, NEW rels \in SUBSET DOMAIN src
  PROVE  Overlay(dst, src, rels) \in Trees
<1>1. /\ Overlay(dst, src, rels) \in [DOMAIN dst \cup rels -> Metas]
      /\ DOMAIN dst \cup rels \in SUBSET Paths
  BY TreesInventory DEF Overlay
<1> QED
  BY <1>1 DEF Trees

LEMMA RoundInit == Init => RoundInv
BY DEF Init, RoundInv, TypeOK, ListedIsTrue, PlanIsWanted, EmptyPlan

LEMMA WalkKeeps == RoundInv /\ WalkSome => RoundInv'
<1> SUFFICES ASSUME RoundInv, WalkSome PROVE RoundInv'
  OBVIOUS
<1>1. PICK seen \in SUBSET DOMAIN remote, complete \in BOOLEAN : Walk(seen, complete)
  BY DEF WalkSome
<1>2. listed' = [inv |-> [r \in seen |-> remote[r]], complete |-> complete]
  BY <1>1 DEF Walk
<1>3. [r \in seen |-> remote[r]] \in Trees
  BY SubtreeIsTree DEF RoundInv, TypeOK
<1>4. TypeOK'
  BY <1>1, <1>2, <1>3 DEF Walk, RoundInv, TypeOK
<1>5. ListedIsTrue'
  <2>1. listed'.inv = [r \in seen |-> remote[r]]
    BY <1>2
  <2>2. UNCHANGED remote
    BY <1>1 DEF Walk
  <2> QED
    BY <2>1, <2>2 DEF ListedIsTrue
<1>6. PlanIsWanted'
  BY <1>1 DEF Walk, PlanIsWanted
<1> QED
  BY <1>4, <1>5, <1>6 DEF RoundInv

LEMMA PlanKeeps == RoundInv /\ PlanRound => RoundInv'
<1> SUFFICES ASSUME RoundInv, PlanRound PROVE RoundInv'
  OBVIOUS
<1> DEFINE push  == ToPush(local, listed.inv, opts.policy, listed.complete)
           pull  == ToPull(local, listed.inv, opts.policy)
           cands == Candidates(push, pull, local, listed.inv)
           taken == Admitted(cands, opts.max_files, opts.max_bytes)
<1>1. /\ plan' = [push |-> RelsOf(taken, "push"), pull |-> RelsOf(taken, "pull"),
                  truncated |-> taken # cands]
      /\ pc' = "move" /\ UNCHANGED <<local, remote, opts, listed>> /\ pc = "plan"
  BY DEF PlanRound
<1>2. RelsOf(taken, "push") \subseteq push /\ RelsOf(taken, "pull") \subseteq pull
  BY AdmittedWithinPlan
<1>3. push \subseteq Paths /\ pull \subseteq Paths
  BY TreesInventory, PlanFromSources DEF RoundInv, TypeOK
<1>4. TypeOK'
  <2> HIDE DEF push, pull, cands, taken
  <2> QED
    BY <1>1, <1>2, <1>3 DEF RoundInv, TypeOK
<1>5. ListedIsTrue'
  BY <1>1 DEF RoundInv, ListedIsTrue
<1>6. PlanIsWanted'
  <2>1. plan'.push = RelsOf(taken, "push") /\ plan'.pull = RelsOf(taken, "pull")
    BY <1>1
  <2> QED
    BY <1>1, <1>2, <2>1 DEF PlanIsWanted
<1> QED
  BY <1>4, <1>5, <1>6 DEF RoundInv

LEMMA MoveKeeps == RoundInv /\ Move => RoundInv'
<1> SUFFICES ASSUME RoundInv, Move PROVE RoundInv'
  OBVIOUS
<1>1. plan.pull \subseteq DOMAIN remote /\ plan.push \subseteq DOMAIN local
  BY PlanFromSources DEF RoundInv, ListedIsTrue, PlanIsWanted, Move
<1>2. local' \in Trees /\ remote' \in Trees
  BY <1>1, OverlayIsTree DEF Move, RoundInv, TypeOK
<1> QED
  BY <1>2 DEF Move, RoundInv, TypeOK, ListedIsTrue, PlanIsWanted, EmptyPlan

LEMMA RoundStep == RoundInv /\ [Next]_vars => RoundInv'
<1>1. RoundInv /\ UNCHANGED vars => RoundInv'
  BY DEF vars, RoundInv, TypeOK, ListedIsTrue, PlanIsWanted
<1> QED
  BY <1>1, WalkKeeps, PlanKeeps, MoveKeeps DEF Next

LEMMA RoundAlways == Spec => []RoundInv
BY RoundInit, RoundStep, PTL DEF Spec

(* No file goes both ways in a round, and none is pushed over one that a   *)
(* cut-short walk did not list - for every policy and every limit.         *)
THEOREM RoundsOneDirection == Spec => []OneDirection
<1>1. RoundInv => OneDirection
  <2>1. SUFFICES ASSUME RoundInv, pc = "move"
                 PROVE  /\ plan.push \cap plan.pull = {}
                        /\ ~listed.complete => plan.push \subseteq DOMAIN listed.inv
    BY DEF OneDirection
  <2>2. Inventory(local) /\ Inventory(listed.inv)
    BY <2>1, TreesInventory DEF RoundInv, TypeOK
  <2>3. ToPush(local, listed.inv, opts.policy, listed.complete)
          \cap ToPull(local, listed.inv, opts.policy) = {}
    BY <2>2, PlanOneWay
  <2>4. ~listed.complete =>
          ToPush(local, listed.inv, opts.policy, listed.complete) \subseteq DOMAIN listed.inv
    BY DEF ToPush
  <2> QED
    BY <2>1, <2>3, <2>4 DEF RoundInv, PlanIsWanted
<1> QED
  BY <1>1, RoundAlways, PTL

(* What a policy prefers is what it lets win.                              *)
LEMMA WinnersPreferred ==
  ASSUME NEW policy \in Policies, NEW lm \in FileMeta, NEW rm \in FileMeta
  PROVE  /\ LocalWins(policy, lm, rm) => Prefers(policy, rm, lm, TRUE)
         /\ RemoteWins(policy, lm, rm) => Prefers(policy, lm, rm, FALSE)
BY DEF Policies, LocalWins, RemoteWins, Prefers, FileMeta

(* No round deletes a file or replaces it by one that the policy does not  *)
(* prefer, also when the remote walk was cut short - except a file of the  *)
(* peer that a walk flagged complete passed over.                          *)
THEOREM RoundsPolicyHonoured == Spec => PolicyHonoured
<1> DEFINE Honoured ==
      /\ DOMAIN local \subseteq DOMAIN local' /\ DOMAIN remote \subseteq DOMAIN remote'
      /\ \A r \in DOMAIN local : local'[r] # local[r] =>
            Prefers(opts.policy, local[r], local'[r], FALSE)
      /\ \A r \in DOMAIN remote \ Unseen : remote'[r] # remote[r] =>
            Prefers(opts.policy, remote[r], remote'[r], TRUE)
<1>1. RoundInv /\ Move => Honoured
  <2> SUFFICES ASSUME RoundInv, Move PROVE Honoured
    OBVIOUS
  <2>1. /\ local' = Overlay(local, remote, plan.pull) /\ remote' = Overlay(remote, local, plan.push)
        /\ pc = "move" /\ opts.policy \in Policies
    BY DEF Move, RoundInv, TypeOK, Options
  <2>2. /\ \A r \in DOMAIN local : local[r] \in FileMeta
        /\ \A r \in DOMAIN remote : remote[r] \in FileMeta
    BY TreesInventory DEF RoundInv, TypeOK, Inventory
  <2>3. ASSUME NEW r \in DOMAIN local, local'[r] # local[r]
        PROVE  Prefers(opts.policy, local[r], local'[r], FALSE)
    <3>1. r \in plan.pull /\ local'[r] = remote[r]
      BY <2>1, <2>3 DEF Overlay
    <3>2. /\ r \in DOMAIN remote /\ RemoteWins(opts.policy, local[r], remote[r])
      BY <2>1, <2>3, <3>1 DEF RoundInv, PlanIsWanted, ListedIsTrue, ToPull
    <3> QED
      BY <2>1, <2>2, <2>3, <3>1, <3>2, WinnersPreferred
  <2>4. ASSUME NEW r \in DOMAIN remote \ Unseen, remote'[r] # remote[r]
        PROVE  Prefers(opts.policy, remote[r], remote'[r], TRUE)
    <3>1. r \in plan.push /\ remote'[r] = local[r] /\ r \in DOMAIN local
      BY <2>1, <2>4, PlanFromSources DEF Overlay, RoundInv, PlanIsWanted
    <3>2. r \in DOMAIN listed.inv /\ listed.inv[r] = remote[r]
      BY <2>1, <2>4, <3>1 DEF RoundInv, PlanIsWanted, ListedIsTrue, ToPush, Unseen
    <3>3. LocalWins(opts.policy, local[r], remote[r])
      BY <2>1, <3>1, <3>2 DEF RoundInv, PlanIsWanted, ToPush
    <3> QED
      BY <2>1, <2>2, <2>4, <3>1, <3>3, WinnersPreferred
  <2> QED
    BY <2>1, <2>3, <2>4 DEF Overlay
<1>2. RoundInv /\ [Next]_vars => [Honoured]_vars
  <2>1. WalkSome => Honoured
    BY DEF WalkSome, Walk
  <2>2. PlanRound => Honoured
    BY DEF PlanRound
  <2> QED
    BY <1>1, <2>1, <2>2 DEF Next
<1> QED
  BY <1>2, RoundAlways, PTL DEF Spec, PolicyHonoured

(* Trees, listings and plans keep their types, whatever the limits.        *)
THEOREM RoundsTypeOK == Spec => []TypeOK
<1>1. RoundInv => TypeOK
  BY DEF RoundInv
<1> QED
  BY <1>1, RoundAlways, PTL

(* Trees with nothing left to move are equal as far as the policy can tell.*)
THEOREM RoundsSettledMeansEqual == Spec => []SettledMeansEqual
<1>1. RoundInv => SettledMeansEqual
  <2>1. SUFFICES ASSUME RoundInv, Settled
                 PROVE  /\ DOMAIN local = DOMAIN remote
                        /\ \A r \in DOMAIN local :
                             \/ local[r] = remote[r]
                             \/ opts.policy = "skip-conflict"
                             \/ opts.policy = "newer" /\ local[r].mtime = remote[r].mtime
    BY DEF SettledMeansEqual
  <2>2. /\ opts.policy \in Policies
        /\ \A r \in DOMAIN local : local[r] \in FileMeta
        /\ \A r \in DOMAIN remote : remote[r] \in FileMeta
    BY <2>1, TreesInventory DEF RoundInv, TypeOK, Inventory, Options
  <2>3. DOMAIN local = DOMAIN remote
    BY <2>1 DEF Settled, ToPush, ToPull
  <2>4. ASSUME NEW r \in DOMAIN local
        PROVE  \/ local[r] = remote[r]
               \/ opts.policy = "skip-conflict"
               \/ opts.policy = "newer" /\ local[r].mtime = remote[r].mtime
    <3>1. /\ ~LocalWins(opts.policy, local[r], remote[r])
          /\ ~RemoteWins(opts.policy, local[r], remote[r])
      BY <2>1, <2>3, <2>4 DEF Settled, ToPush, ToPull
    <3>2. local[r] \in FileMeta /\ remote[r] \in FileMeta
      BY <2>2, <2>3, <2>4
    <3> QED
      BY <2>2, <3>1, <3>2 DEF Policies, LocalWins, RemoteWins, FileMeta
  <2> QED
    BY <2>3, <2>4
<1> QED
  BY <1>1, RoundAlways, PTL

-----------------------------------------------------------------------------
(* Batch limits.  What they admit begins with the first candidate and ends *)
(* with one that has fewer than max_files before it.                       *)

Candidate == [size : Nat, dir : {"push", "pull"}, rel : Nat]

LEMMA SortOrder ==
  /\ \A c \in Candidate : ~SortsBefore(c, c)
  /\ \A c, d \in Candidate : c = d \/ SortsBefore(c, d) \/ SortsBefore(d, c)
  /\ \A c, d, e \in Candidate : SortsBefore(c, d) /\ SortsBefore(d, e) => SortsBefore(c, e)
<1>1. \A c \in Candidate : ~SortsBefore(c, c)
  BY DEF Candidate, SortsBefore
<1>2. ASSUME NEW c \in Candidate, NEW d \in Candidate
      PROVE  c = d \/ SortsBefore(c, d) \/ SortsBefore(d, c)
  <2>1. c.size \in Nat /\ d.size \in Nat /\ c.rel \in Nat /\ d.rel \in Nat
        /\ c.dir \in {"push", "pull"} /\ d.dir \in {"push", "pull"}
    BY DEF Candidate
  <2>2. c.size = d.size /\ c.dir = d.dir /\ c.rel = d.rel => c = d
    BY DEF Candidate
  <2> QED BY <2>1, <2>2 DEF SortsBefore
<1>3. ASSUME NEW c \in Candidate, NEW d \in Candidate, NEW e \in Candidate,
             SortsBefore(c, d), SortsBefore(d, e)
      PROVE  SortsBefore(c, e)
  BY <1>3 DEF Candidate, SortsBefore
<1> QED BY <1>1, <1>2, <1>3

LEMMA SmallestNumber ==
  ASSUME NEW S \in SUBSET Nat, S # {}
  PROVE  \E x \in S : \A y \in S : x <= y
<1> DEFINE less == {ss \in Nat \X Nat : ss[1] < ss[2]}
<1>1. IsWellFoundedOn(less, Nat)
  BY NatLessThanWellFounded, Zenon DEF OpToRel
<1>2. \A x, y \in Nat : <<y, x>> \notin less => x <= y
  OBVIOUS
<1> HIDE DEF less
<1>3. PICK x \in S : \A y \in S : <<y, x>> \notin less
  BY <1>1, WFMin, Zenon
<1> QED BY <1>2, <1>3

(* Of any candidates one is first: of the smallest files, the pulls before *)
(* the pushes, the first path.                                             *)
LEMMA SomeFirst ==
  ASSUME NEW cands \in SUBSET Candidate, cands # {}
  PROVE  \E c \in cands : \A d \in cands : ~SortsBefore(d, c)
<1>1. \A c \in cands : c.size \in Nat /\ c.rel \in Nat /\ c.dir \in {"push", "pull"}
  BY DEF Candidate
<1>2. PICK a \in cands : \A d \in cands : a.size <= d.size
  <2> DEFINE sizes == {c.size : c \in cands}
  <2>1. sizes \in SUBSET Nat /\ sizes # {}
    BY <1>1
  <2>2. PICK k \in sizes : \A y \in sizes : k <= y
    <3> HIDE DEF sizes
    <3> QED BY <2>1, SmallestNumber
  <2> QED BY <2>2
<1>3. PICK dir \in {"push", "pull"} :
        /\ \E c \in cands : c.size = a.size /\ c.dir = dir
        /\ dir = "push" => \A d \in cands : d.size = a.size => d.dir = "push"
  BY <1>1, <1>2
<1> DEFINE least == {c \in cands : c.size = a.size /\ c.dir = dir}
<1>4. PICK c \in least : \A d \in least : c.rel <= d.rel
  <2> DEFINE rels == {c.rel : c \in least}
  <2>1. rels \in SUBSET Nat /\ rels # {}
    BY <1>1, <1>3
  <2>2. PICK k \in rels : \A y \in rels : k <= y
    <3> HIDE DEF rels
    <3> QED BY <2>1, SmallestNumber
  <2> QED BY <2>2
<1>5. ASSUME NEW d \in cands, SortsBefore(d, c) PROVE FALSE
  BY <1>1, <1>2, <1>3, <1>4, <1>5 DEF SortsBefore
<1> QED BY <1>4, <1>5

(* And of finitely many one is last: the one most others come before.      *)
LEMMA SomeLast ==
  ASSUME NEW cands \in SUBSET Candidate, cands # {}, IsFiniteSet(cands)
  PROVE  \E c \in cands : \A d \in cands : d = c \/ SortsBefore(d, c)
<1> DEFINE After(c) == {d \in cands : SortsBefore(c, d)}
           Counts == {Cardinality(After(c)) : c \in cands}
<1>1. \A c \in cands : IsFiniteSet(After(c)) /\ Cardinality(After(c)) \in Nat
  BY FS_Subset, FS_CardinalityType
<1>2. PICK c \in cands : \A d \in cands : Cardinality(After(c)) <= Cardinality(After(d))
  <2> HIDE DEF After
  <2>1. Counts \in SUBSET Nat /\ Counts # {}
    BY <1>1
  <2>2. PICK k \in Counts : \A y \in Counts : k <= y
    <3> HIDE DEF Counts
    <3> QED BY <2>1, SmallestNumber
  <2> QED BY <2>2
<1>3. ASSUME NEW d \in cands, SortsBefore(c, d) PROVE FALSE
  <2>1. After(d) \in SUBSET After(c) /\ d \in After(c) /\ d \notin After(d)
    BY <1>3, SortOrder
  <2>2. Cardinality(After(d)) <= Cardinality(After(c)) /\ Cardinality(After(d)) # Cardinality(After(c))
    BY <1>1, <2>1, FS_Subset
  <2> QED BY <1>1, <1>2, <2>2
<1>4. \A d \in cands : d = c \/ SortsBefore(d, c)
  BY <1>3, SortOrder
<1> QED BY <1>4

(* The first candidate goes, whatever the limits.                          *)
LEMMA FirstIsAdmitted ==
  ASSUME NEW cands \in SUBSET Candidate, cands # {},
         NEW maxFiles \in (Nat \ {0}) \cup {NoLimit}, NEW maxBytes
  PROVE  Admitted(cands, maxFiles, maxBytes) # {}
<1>1. PICK c \in cands : \A d \in cands : ~SortsBefore(d, c)
  BY SomeFirst
<1>2. {d \in cands : SortsBefore(d, c)} = {}
  BY <1>1
<1>3. Fits(c, cands, maxFiles, maxBytes)
  <2>1. maxFiles = NoLimit \/ 0 < maxFiles
    OBVIOUS
  <2> QED BY <1>2, <2>1, FS_EmptySet DEF Fits
<1> QED BY <1>1, <1>3 DEF Admitted

(* No more than max_files go.                                              *)
LEMMA AdmittedWithinLimit ==
  ASSUME NEW cands \in SUBSET Candidate, IsFiniteSet(cands),
         NEW maxFiles \in Nat \ {0}, NEW maxBytes
  PROVE  Cardinality(Admitted(cands, maxFiles, maxBytes)) <= maxFiles
<1> DEFINE taken == Admitted(cands, maxFiles, maxBytes)
<1>1. taken \in SUBSET cands /\ IsFiniteSet(taken)
  BY FS_Subset DEF Admitted
<1>2. CASE taken = {}
  BY <1>2, FS_EmptySet
<1>3. CASE taken # {}
  <2> HIDE DEF taken
  <2>1. PICK c \in taken : \A d \in taken : d = c \/ SortsBefore(d, c)
    BY <1>1, <1>3, SomeLast
  <2> DEFINE earlier == {d \in cands : SortsBefore(d, c)}
  <2>2. Cardinality(earlier) < maxFiles
    <3>1. Fits(c, cands, maxFiles, maxBytes)
      BY <1>1 DEF taken, Admitted
    <3>2. maxFiles # NoLimit
      BY NoLimitAssumption
    <3> QED BY <3>1, <3>2 DEF Fits
  <2> HIDE DEF earlier
  <2>3. IsFiniteSet(earlier) /\ Cardinality(earlier) \in Nat
    BY FS_Subset, FS_CardinalityType DEF earlier
  <2>4. taken \ {c} \in SUBSET earlier
    BY <1>1, <2>1 DEF earlier
  <2>5. Cardinality(taken \ {c}) <= Cardinality(earlier)
    BY <2>3, <2>4, FS_Subset
  <2>6. Cardinality(taken \ {c}) = Cardinality(taken) - 1 /\ Cardinality(taken) \in Nat
    BY <1>1, <2>1, FS_RemoveElement, FS_CardinalityType
  <2> QED BY <2>2, <2>3, <2>5, <2>6 DEF taken
<1> QED BY <1>2, <1>3

\* What a plan offers to the limits.
LEMMA CandidatesOfPlan ==
  ASSUME NEW push, NEW pull, NEW linv, NEW rinv, Inventory(linv), Inventory(rinv),
         push \subseteq DOMAIN linv, pull \subseteq DOMAIN rinv,
         DOMAIN linv \subseteq Paths, DOMAIN rinv \subseteq Paths
  PROVE  /\ Candidates(push, pull, linv, rinv) \in SUBSET Candidate
         /\ IsFiniteSet(Candidates(push, pull, linv, rinv))
<1> DEFINE pushed == {[size |-> linv[r].size, dir |-> "push", rel |-> r] : r \in push}
           pulled == {[size |-> rinv[r].size, dir |-> "pull", rel |-> r] : r \in pull}
           OfPush == [r \in push |-> [size |-> linv[r].size, dir |-> "push", rel |-> r]]
           OfPull == [r \in pull |-> [size |-> rinv[r].size, dir |-> "pull", rel |-> r]]
<1>1. pushed \in SUBSET Candidate /\ pulled \in SUBSET Candidate
  BY RoundsAssumption DEF Inventory, FileMeta, Candidate
<1>2. IsFiniteSet(push) /\ IsFiniteSet(pull)
  BY FS_Subset, RoundsAssumption
<1>3. OfPush \in Surjection(push, pushed) /\ OfPull \in Surjection(pull, pulled)
  BY DEF Surjection
<1>4. IsFiniteSet(pushed) /\ IsFiniteSet(pulled)
  BY <1>2, <1>3, FS_Surjection
<1>5. Candidates(push, pull, linv, rinv) = pushed \cup pulled
  BY DEF Candidates
<1> HIDE DEF pushed, pulled
<1> QED BY <1>1, <1>4, <1>5, FS_Union

\* Files of both directions count as the candidates they come from.
LEMMA RelsAsCandidates ==
  ASSUME NEW taken \in SUBSET Candidate, IsFiniteSet(taken)
  PROVE  /\ IsFiniteSet(RelsOf(taken, "push")) /\ IsFiniteSet(RelsOf(taken, "pull"))
         /\ Cardinality(RelsOf(taken, "push")) + Cardinality(RelsOf(taken, "pull"))
              <= Cardinality(taken)
<1> DEFINE Going(dir) == {c \in taken : c.dir = dir}
           RelOf(dir) == [c \in Going(dir) |-> c.rel]
<1>1. ASSUME NEW dir
      PROVE  /\ IsFiniteSet(RelsOf(taken, dir)) /\ IsFiniteSet(Going(dir))
             /\ Cardinality(RelsOf(taken, dir)) <= Cardinality(Going(dir))
             /\ Cardinality(RelsOf(taken, dir)) \in Nat /\ Cardinality(Going(dir)) \in Nat
  <2>1. IsFiniteSet(Going(dir))
    BY FS_Subset
  <2>2. RelOf(dir) \in Surjection(Going(dir), RelsOf(taken, dir))
    BY DEF Surjection, RelsOf
  <2>3. /\ IsFiniteSet(RelsOf(taken, dir))
        /\ Cardinality(RelsOf(taken, dir)) <= Cardinality(Going(dir))
    <3> HIDE DEF Going, RelOf
    <3> QED BY <2>1, <2>2, FS_Surjection
  <2> QED BY <2>1, <2>3, FS_CardinalityType
<1>2. Going("push") \cup Going("pull") = taken /\ Going("push") \cap Going("pull") = {}
  BY DEF Candidate
<1>3. Cardinality(taken) = Cardinality(Going("push")) + Cardinality(Going("pull"))
  <2> DEFINE pushes == Going("push")
             pulls == Going("pull")
  <2>1. /\ IsFiniteSet(pushes) /\ IsFiniteSet(pulls)
        /\ Cardinality(pushes) \in Nat /\ Cardinality(pulls) \in Nat
    BY <1>1
  <2>2. pushes \cup pulls = taken /\ pushes \cap pulls = {}
    BY <1>2
  <2> HIDE DEF pushes, pulls
  <2>3. Cardinality(taken) = Cardinality(pushes) + Cardinality(pulls) - Cardinality({})
    BY <2>1, <2>2, FS_Union
  <2>4. Cardinality(taken) = Cardinality(pushes) + Cardinality(pulls)
    BY <2>1, <2>3, FS_EmptySet
  <2> QED BY <2>4 DEF pushes, pulls
<1> HIDE DEF Going
<1> QED BY <1>1, <1>3

(* Limits slow a sync down but cannot stop it: of a plan that is not empty *)
(* something goes, and no more than max_files (sync_plan.py:156-159).      *)
THEOREM RoundsMakeProgress == Spec => []BatchMakesProgress
<1>1. Init => BatchMakesProgress
  BY DEF Init, BatchMakesProgress
<1>2. RoundInv /\ PlanRound => BatchMakesProgress'
  <2> SUFFICES ASSUME RoundInv, PlanRound PROVE BatchMakesProgress'
    OBVIOUS
  <2> DEFINE push  == ToPush(local, listed.inv, opts.policy, listed.complete)
             pull  == ToPull(local, listed.inv, opts.policy)
             cands == Candidates(push, pull, local, listed.inv)
             taken == Admitted(cands, opts.max_files, opts.max_bytes)
  <2>1. /\ plan' = [push |-> RelsOf(taken, "push"), pull |-> RelsOf(taken, "pull"),
                    truncated |-> taken # cands]
        /\ opts' = opts
    BY DEF PlanRound
  <2>2. cands \in SUBSET Candidate /\ IsFiniteSet(cands)
    <3>1. /\ Inventory(local) /\ Inventory(listed.inv)
          /\ DOMAIN local \subseteq Paths /\ DOMAIN listed.inv \subseteq Paths
      BY TreesInventory DEF RoundInv, TypeOK
    <3>2. push \subseteq DOMAIN local /\ pull \subseteq DOMAIN listed.inv
      BY PlanFromSources
    <3> HIDE DEF push, pull
    <3> QED BY <3>1, <3>2, CandidatesOfPlan
  <2>3. opts.max_files \in (Nat \ {0}) \cup {NoLimit}
    BY RoundsAssumption DEF RoundInv, TypeOK, Options
  <2> HIDE DEF cands
  <2>4. taken \in SUBSET cands /\ taken \in SUBSET Candidate /\ IsFiniteSet(taken)
    BY <2>2, FS_Subset DEF Admitted
  <2>5. taken # cands => taken # {}
    BY <2>2, <2>3, FirstIsAdmitted
  <2>6. opts.max_files # NoLimit => Cardinality(taken) <= opts.max_files
    BY <2>2, <2>3, AdmittedWithinLimit
  <2> HIDE DEF taken
  <2>7. taken # {} => RelsOf(taken, "push") \cup RelsOf(taken, "pull") # {}
    BY <2>4 DEF RelsOf, Candidate
  <2>8. opts.max_files # NoLimit =>
          Cardinality(RelsOf(taken, "push")) + Cardinality(RelsOf(taken, "pull")) <= opts.max_files
    BY <2>3, <2>4, <2>6, RelsAsCandidates, FS_CardinalityType
  <2> QED BY <2>1, <2>5, <2>7, <2>8 DEF BatchMakesProgress
<1>3. WalkSome \/ Move => BatchMakesProgress'
  BY DEF WalkSome, Walk, Move, BatchMakesProgress
<1>4. BatchMakesProgress /\ UNCHANGED vars => BatchMakesProgress'
  BY DEF vars, BatchMakesProgress
<1> QED BY <1>1, <1>2, <1>3, <1>4, RoundAlways, PTL DEF Spec, Next
=============================================================================
