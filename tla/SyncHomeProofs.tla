--------------------------- MODULE SyncHomeProofs ---------------------------
(***************************************************************************)
(* What any number of runs leaves on the Macs, for every cluster, every    *)
(* home and every mix of command lines: the newest content of a path that  *)
(* no walk passes over survives, a pull replaces nothing that is not kept  *)
(* elsewhere, and the watermark of --quick says no more than is true.      *)
(***************************************************************************)
EXTENDS SyncHome, FiniteSetTheorems, TLAPS

-----------------------------------------------------------------------------
(* Types.  TypeOK says what values are stored where; these say as well     *)
(* that trees and runs are functions and records.                          *)

Trees == UNION {[D -> Files] : D \in SUBSET Paths}
Listings == UNION {[D -> [mtime : Times, size : {1}]] : D \in SUBSET Paths}
Plans == [push : SUBSET Paths, pull : SUBSET Paths]
Directions == {"push", "pull"}

Runs ==
  [opts : Options, todo : SUBSET Peers, peer : Hosts, known : BOOLEAN,
   linv : Listings, rinv : Listings, plan : Plans, rest : Plans, owed : Plans,
   ok : BOOLEAN, begun : 0..Until + 1, left : BOOLEAN]

HomeTypes ==
  /\ site \in Sites
  /\ disk \in [Hosts -> Trees]
  /\ clock \in 1..Until + 1 /\ watermark \in 0..Until + 1
  /\ pc \in {"idle", "peer", "local", "remote", "backup", "transfer"}
  /\ run \in Runs
  /\ DOMAIN net \subseteq Paths /\ \A r \in DOMAIN net : net[r] \in 0..Until
  /\ newest \in [Paths -> 0..Until] /\ missed \subseteq Paths
  /\ covered \in BOOLEAN /\ safe \in BOOLEAN

\* An inventory as the plan reads it: any files, with times and sizes in Nat.
Inventory(inv) == \A r \in DOMAIN inv : inv[r] \in FileMeta

\* The cluster never changes, and so neither does what is made from it.
LEMMA SiteFixed ==
  ASSUME site' = site
  PROVE  /\ Peers' = Peers /\ Hosts' = Hosts /\ Paths' = Paths /\ Large' = Large
         /\ Options' = Options /\ Until' = Until
         /\ Trees' = Trees /\ Listings' = Listings /\ Plans' = Plans /\ Runs' = Runs
<1>1. /\ Peers' = Peers /\ Hosts' = Hosts /\ Paths' = Paths /\ Large' = Large
      /\ Options' = Options /\ Until' = Until /\ Times' = Times /\ Files' = Files
  BY DEF Peers, Hosts, Paths, Large, Options, Until, Times, Files
<1>2. Trees' = Trees /\ Listings' = Listings /\ Plans' = Plans
  BY <1>1 DEF Trees, Listings, Plans
<1>3. Runs' = Runs
  BY <1>1, <1>2 DEF Runs
<1> QED
  BY <1>1, <1>2, <1>3

LEMMA SiteFacts ==
  ASSUME site \in Sites
  PROVE  /\ Peers \subseteq Nat \ {0} /\ IsFiniteSet(Peers)
         /\ Self \in Hosts /\ Self \notin Peers /\ Peers \subseteq Hosts
         /\ Paths \subseteq Nat /\ Large \subseteq Paths /\ Until \in Nat /\ Until >= 2
         /\ Options \subseteq OptionSpace(Peers) /\ Options # {}
BY SyncHomeAssumption DEF Peers, Hosts, Self, Paths, Large, Until, Options

LEMMA OptionFacts ==
  ASSUME site \in Sites, NEW o \in Options
  PROVE  /\ {o.quick, o.push_only, o.pull_only, o.dry_run, o.safetynet, o.verify,
             o.allow_partial} \subseteq BOOLEAN
         /\ o.peers \subseteq Peers /\ o.peers # {}
BY SiteFacts DEF OptionSpace

LEMMA TreeFacts ==
  ASSUME NEW tree \in Trees
  PROVE  /\ DOMAIN tree \subseteq Paths
         /\ \A r \in DOMAIN tree : tree[r] \in Files
         /\ tree = [r \in DOMAIN tree |-> tree[r]]
<1>1. PICK D \in SUBSET Paths : tree \in [D -> Files]
  BY DEF Trees
<1> QED
  BY <1>1

LEMMA PutTree ==
  ASSUME NEW tree \in Trees, NEW r \in Paths, NEW file \in Files
  PROVE  Put(tree, r, file) \in Trees
<1>1. Put(tree, r, file) \in [DOMAIN tree \cup {r} -> Files]
  BY TreeFacts DEF Put
<1>2. DOMAIN tree \cup {r} \in SUBSET Paths
  BY TreeFacts
<1> QED
  BY <1>1, <1>2 DEF Trees

LEMMA ListingFacts ==
  ASSUME NEW inv \in Listings, site \in Sites
  PROVE  /\ DOMAIN inv \subseteq Paths
         /\ \A r \in DOMAIN inv : inv[r].mtime \in Times /\ inv[r].size = 1
         /\ Inventory(inv)
<1>1. PICK D \in SUBSET Paths : inv \in [D -> [mtime : Times, size : {1}]]
  BY DEF Listings
<1>2. Times \subseteq Nat
  BY SiteFacts DEF Times
<1>3. DOMAIN inv = D /\ \A r \in D : inv[r] \in [mtime : Times, size : {1}]
  BY <1>1
<1>4. ASSUME NEW m \in [mtime : Times, size : {1}]
      PROVE  m.mtime \in Times /\ m.size = 1 /\ m \in FileMeta
  <2>1. m = [mtime |-> m.mtime, size |-> 1] /\ m.mtime \in Times /\ m.size = 1
    OBVIOUS
  <2>2. [mtime |-> m.mtime, size |-> 1] \in [mtime : Nat, size : Nat]
    BY <1>2, <2>1
  <2> QED
    BY <2>1, <2>2, Zenon DEF FileMeta
<1> QED
  BY <1>3, <1>4 DEF Inventory

LEMMA StatFacts ==
  ASSUME NEW tree \in Trees, NEW rels
  PROVE  /\ Stat(tree, rels) \in Listings
         /\ DOMAIN Stat(tree, rels) = rels \cap DOMAIN tree
         /\ \A r \in DOMAIN Stat(tree, rels) : Stat(tree, rels)[r].mtime = tree[r].mtime
<1>1. Stat(tree, rels) \in [rels \cap DOMAIN tree -> [mtime : Times, size : {1}]]
  BY TreeFacts DEF Stat, Files
<1>2. rels \cap DOMAIN tree \in SUBSET Paths
  BY TreeFacts
<1> QED
  BY <1>1, <1>2 DEF Listings, Stat

LEMMA NoFilesFacts == NoFiles \in Listings /\ DOMAIN NoFiles = {}
<1>1. NoFiles \in [{} -> [mtime : Times, size : {1}]] /\ {} \in SUBSET Paths
  BY DEF NoFiles
<1> QED
  BY <1>1 DEF Listings

LEMMA RecentFacts ==
  ASSUME NEW inv \in Listings, HomeTypes
  PROVE  /\ Recent(inv) \in Listings /\ DOMAIN Recent(inv) \subseteq DOMAIN inv
         /\ \A r \in DOMAIN Recent(inv) : Recent(inv)[r] = inv[r]
         /\ \A r \in DOMAIN inv \ DOMAIN Recent(inv) :
              run.opts.quick /\ watermark > 0 /\ inv[r].mtime + Slack < watermark
<1> DEFINE kept == {q \in DOMAIN inv : inv[q].mtime + Slack >= watermark}
<1>1. PICK D \in SUBSET Paths : inv \in [D -> [mtime : Times, size : {1}]]
  BY DEF Listings
<1>2. [r \in kept |-> inv[r]] \in [kept -> [mtime : Times, size : {1}]] /\ kept \in SUBSET Paths
  BY <1>1
<1>3. [r \in kept |-> inv[r]] \in Listings
  BY <1>2 DEF Listings
<1>4. ASSUME NEW r \in DOMAIN inv, r \notin kept PROVE inv[r].mtime + Slack < watermark
  BY <1>4, ListingFacts, SiteFacts, SyncHomeAssumption DEF HomeTypes, Times
<1> QED
  BY <1>3, <1>4 DEF Recent

-----------------------------------------------------------------------------
(* The inductive invariant, in parts.                                      *)

Has(h, r) == r \in DOMAIN disk[h]
Time(h, r) == disk[h][r].mtime

\* Nobody has written to these paths since the run began, if one is active, and no walk
\* has passed them over since they were last written.
Quiet == Paths \ (missed \cup Large)

\* A small file carries the time of the content it holds, and none is from the future.
Stamps ==
  /\ \A r \in Paths : newest[r] < clock
  /\ \A h \in Hosts : \A r \in DOMAIN disk[h] \ Large :
       disk[h][r].id = Time(h, r) /\ Time(h, r) <= newest[r]

Bookkeeping ==
  /\ run.begun <= clock /\ watermark <= clock
  /\ covered => Cardinality(Peers) = 1
  /\ pc \in {"local", "remote", "backup", "transfer"} => run.peer \in Peers
  /\ pc \in {"remote", "backup", "transfer"} => run.known
  /\ pc \in {"backup", "transfer"} => ~run.opts.dry_run
  /\ pc = "idle" => ~run.known
  /\ Cardinality(Peers) = 1 /\ (run.known \/ pc \notin {"idle", "peer"}) => run.todo = {}
  /\ pc # "idle" /\ safe /\ run.opts.quick /\ watermark > 0 => covered

\* What this Mac has of r is on a peer too, or, as far as a quick run knows, newer there.
Elsewhere(r) ==
  \E q \in Peers : Has(q, r) /\ \/ Time(q, r) = Time(Self, r)
                                \/ run.opts.quick /\ Time(q, r) >= Time(Self, r)

\* The inventory of this Mac, though never refreshed, is at most too old; and what
\* it does not know of this Mac's files is not lost with them.
Remembered ==
  run.known =>
    /\ DOMAIN run.linv \subseteq DOMAIN disk[Self]
    /\ \A r \in Quiet :
         /\ r \in DOMAIN run.linv => run.linv[r].mtime <= Time(Self, r)
         /\ safe /\ ~run.opts.dry_run /\ Has(Self, r) =>
              (r \in DOMAIN run.linv /\ run.linv[r].mtime = Time(Self, r)) \/ Elsewhere(r)

\* A push is never the older of the two, a pull never older than what was listed here.
Planned ==
  pc \in {"backup", "transfer"} =>
    /\ run.plan.push \cap run.plan.pull = {}
    /\ \A dir \in Directions :
         run.owed[dir] \subseteq run.rest[dir] /\ run.rest[dir] \subseteq run.plan[dir]
    /\ run.opts.push_only => run.plan.pull = {}
    /\ run.rest.push \subseteq DOMAIN disk[Self] /\ run.rest.pull \subseteq DOMAIN disk[run.peer]
    /\ \A r \in Quiet :
         /\ r \in run.rest.push /\ Has(run.peer, r) => Time(run.peer, r) <= Time(Self, r)
         /\ r \in run.rest.pull /\ r \in DOMAIN run.linv =>
              run.linv[r].mtime < Time(run.peer, r)

NetKept ==
  pc = "transfer" /\ run.opts.safetynet =>
    \A r \in Quiet : r \in run.plan.pull /\ r \in DOMAIN run.linv /\ Has(Self, r) =>
      (r \in DOMAIN net /\ net[r] = disk[Self][r].id) \/ Holds(run.peer, r, disk[Self][r].id)

NewerAtPeer(p, r) == Has(p, r) /\ Time(Self, r) <= Time(p, r)
NewerHere(p, r) == Has(Self, r) /\ Time(p, r) <= Time(Self, r)

\* Nothing has gone wrong so far in a run that is to serve the only peer.
Counts ==
  /\ run.ok /\ ~run.left /\ ~run.opts.dry_run
  /\ Cardinality(Peers) = 1 /\ run.opts.peers = Peers

BothWays == ~run.opts.push_only /\ ~run.opts.pull_only
QuickSound == run.opts.quick /\ watermark > 0 => covered

\* What the peer has yet to get of this Mac's files from before the run.
PushAccount ==
  Counts /\ BothWays /\ QuickSound =>
    \A p \in Peers : \A r \in DOMAIN disk[Self] \ Large : Time(Self, r) < run.begun =>
      /\ pc = "remote" =>
           NewerAtPeer(p, r) \/ (r \in DOMAIN run.linv /\ run.linv[r].mtime = Time(Self, r))
      /\ pc \in {"backup", "transfer"} => NewerAtPeer(p, r) \/ r \in run.owed.push
      /\ pc = "peer" /\ run.todo = {} => NewerAtPeer(p, r)

\* What this Mac has yet to get of the peer's files.
PullAccount ==
  Counts /\ ~run.opts.push_only =>
    \A p \in Peers : \A r \in Quiet : Has(p, r) =>
      /\ pc \in {"backup", "transfer"} => NewerHere(p, r) \/ r \in run.owed.pull
      /\ pc = "peer" /\ run.todo = {} => NewerHere(p, r)

HomeInv ==
  /\ HomeTypes /\ Stamps /\ Bookkeeping
  /\ Remembered /\ Planned /\ NetKept /\ PushAccount /\ PullAccount
  /\ NewestSurvives /\ WatermarkSound

-----------------------------------------------------------------------------
(* The start, and steps that leave the run alone or end it.                *)

LEMMA NewRunFacts ==
  ASSUME site \in Sites, NEW o \in Options, NEW t \in 0..Until + 1
  PROVE  /\ NewRun(o, t) \in Runs /\ NoPlan \in Plans
         /\ NewRun(o, t).opts = o /\ NewRun(o, t).todo = o.peers
         /\ ~NewRun(o, t).known /\ NewRun(o, t).begun = t
<1>1. NoPlan \in Plans
  BY DEF NoPlan, Plans
<1>2. o.peers \in SUBSET Peers /\ Self \in Hosts
  BY OptionFacts, SiteFacts
<1>3. NewRun(o, t) \in Runs
  BY <1>1, <1>2, NoFilesFacts DEF NewRun, Runs
<1> QED
  BY <1>1, <1>3 DEF NewRun

LEMMA NoRunFacts ==
  ASSUME site \in Sites
  PROVE  NoRun \in Runs /\ ~NoRun.known /\ NoRun.begun = 0
<1>1. (CHOOSE o \in Options : TRUE) \in Options
  BY SiteFacts
<1>2. 0 \in 0..Until + 1
  BY SiteFacts
<1> QED
  BY <1>1, <1>2, NewRunFacts DEF NoRun

LEMMA HomeStarts == Init => HomeInv
<1> SUFFICES ASSUME Init PROVE HomeInv
  OBVIOUS
<1>1. site \in Sites /\ run = NoRun /\ pc = "idle" /\ clock = 3 /\ watermark = 0
      /\ missed = {} /\ net = NoFiles
  BY DEF Init
<1>0. ~covered /\ covered \in BOOLEAN /\ safe \in BOOLEAN
  BY DEF Init
<1> DEFINE Left(t) == [id |-> t, mtime |-> t]
<1>2. \A h \in Hosts : disk[h] \in Trees /\ \A r \in DOMAIN disk[h] :
        r \in Paths /\ disk[h][r] \in {Left(1), Left(2)}
  <2> TAKE h \in Hosts
  <2>1. disk[h] \in UNION {[D -> {[id |-> t, mtime |-> t] : t \in {1, 2}}] : D \in SUBSET Paths}
    BY DEF Init
  <2>2. PICK D \in SUBSET Paths : disk[h] \in [D -> {[id |-> t, mtime |-> t] : t \in {1, 2}}]
    BY <2>1
  <2>3. DOMAIN disk[h] = D /\ \A r \in D : disk[h][r] \in {Left(1), Left(2)}
    BY <2>2
  <2>4. Left(1) \in Files /\ Left(2) \in Files
    BY <1>1, SiteFacts DEF Files, Times
  <2>5. disk[h] \in [D -> Files]
    BY <2>2, <2>3, <2>4
  <2> QED
    BY <2>3, <2>5 DEF Trees
<1>3. disk = [h \in Hosts |-> disk[h]]
  BY DEF Init
<1>4. newest = [r \in Paths |->
       IF \E h \in Hosts : r \in DOMAIN disk[h] /\ disk[h][r].id = 2 THEN 2
       ELSE IF \E h \in Hosts : r \in DOMAIN disk[h] THEN 1 ELSE 0]
  BY DEF Init
<1>5. newest \in [Paths -> 0..Until]
  BY <1>1, <1>4, SiteFacts
<1>6. HomeTypes
  <2>1. disk \in [Hosts -> Trees]
    BY <1>2, <1>3
  <2>2. run \in Runs /\ clock \in 1..Until + 1 /\ watermark \in 0..Until + 1 /\ DOMAIN net = {}
    BY <1>1, NoRunFacts, NoFilesFacts, SiteFacts
  <2> QED
    BY <1>0, <1>1, <1>5, <2>1, <2>2 DEF HomeTypes
<1>7. Stamps
  BY <1>1, <1>2, <1>4, SiteFacts DEF Stamps, Time
<1>8. Bookkeeping
  <2>1. run.begun <= clock /\ watermark <= clock /\ ~run.known
    BY <1>1, NoRunFacts
  <2> QED
    BY <1>0, <1>1, <2>1 DEF Bookkeeping
<1>9. Remembered /\ Planned /\ NetKept /\ PushAccount /\ PullAccount /\ WatermarkSound
  BY <1>0, <1>1, NoRunFacts DEF Remembered, Planned, NetKept, PushAccount, PullAccount, WatermarkSound
<1>10. NewestSurvives
  <2>1. \A r \in Paths : newest[r] = 0 \/ \E h \in Hosts : Holds(h, r, newest[r])
    BY <1>2, <1>4 DEF Holds
  <2> QED
    BY <2>1 DEF NewestSurvives
<1> QED
  BY <1>6, <1>7, <1>8, <1>9, <1>10 DEF HomeInv

LEMMA DiskIdle ==
  ASSUME HomeInv, UNCHANGED <<site, disk, newest>>, missed \subseteq missed', safe' => safe,
         clock' = clock \/ clock' = clock + 1
  PROVE  Stamps' /\ NewestSurvives'
<1>1. Stamps'
  <2>1. \A r \in Paths : newest'[r] < clock'
    BY SiteFacts DEF HomeInv, HomeTypes, Stamps
  <2> QED
    BY <2>1, SiteFixed DEF HomeInv, Stamps, Time
<1>2. NewestSurvives'
  BY SiteFixed DEF HomeInv, NewestSurvives, Holds
<1> QED
  BY <1>1, <1>2

LEMMA MarkIdle ==
  ASSUME WatermarkSound, UNCHANGED <<site, disk, watermark, covered>>
  PROVE  WatermarkSound'
BY SiteFixed DEF WatermarkSound

\* Outside of the transfer of a plan nothing is said of plans.
LEMMA NoTransfer ==
  ASSUME pc' \notin {"backup", "transfer"}
  PROVE  Planned' /\ NetKept'
BY DEF Planned, NetKept

LEMMA NothingCounts ==
  ASSUME ~run'.ok \/ pc' \in {"idle", "local"} \/ (pc' = "peer" /\ run'.todo # {})
  PROVE  PushAccount' /\ (pc' # "remote" => PullAccount')
BY DEF PushAccount, PullAccount, Counts

LEMMA RunOver ==
  ASSUME HomeInv, UNCHANGED site, pc' = "idle", run' = NoRun
  PROVE  /\ run' \in Runs' /\ ~run'.known /\ run'.begun = 0
         /\ Remembered' /\ Planned' /\ NetKept' /\ PushAccount' /\ PullAccount'
<1>1. run' \in Runs' /\ ~run'.known /\ run'.begun = 0
  BY NoRunFacts, SiteFixed DEF HomeInv, HomeTypes
<1> QED
  BY <1>1, NoTransfer, NothingCounts DEF Remembered

LEMMA CrashKeeps ==
  ASSUME HomeInv, Crash
  PROVE  HomeInv'
<1>1. /\ pc' = "idle" /\ run' = NoRun
      /\ UNCHANGED <<site, disk, clock, watermark, net, newest, missed, covered, safe>>
  BY DEF Crash, ghosts
<1>2. /\ run' \in Runs' /\ ~run'.known /\ run'.begun = 0
      /\ Remembered' /\ Planned' /\ NetKept' /\ PushAccount' /\ PullAccount'
  BY <1>1, RunOver
<1>3. HomeTypes'
  BY <1>1, <1>2, SiteFixed DEF HomeInv, HomeTypes
<1>4. Bookkeeping'
  <2>1. run'.begun <= clock'
    BY <1>1, <1>2, SiteFacts DEF HomeInv, HomeTypes
  <2> QED
    BY <1>1, <1>2, <2>1, SiteFixed DEF HomeInv, Bookkeeping
<1>5. Stamps' /\ NewestSurvives'
  BY <1>1, DiskIdle
<1>6. WatermarkSound'
  BY <1>1, MarkIdle DEF HomeInv
<1> QED
  BY <1>2, <1>3, <1>4, <1>5, <1>6 DEF HomeInv

LEMMA StartRunKeeps ==
  ASSUME HomeInv, StartRun
  PROVE  HomeInv'
<1>1. /\ pc = "idle" /\ pc' = "peer" /\ net' = NoFiles
      /\ UNCHANGED <<site, disk, clock, watermark, newest, missed, covered>>
  BY DEF StartRun
<1>2. PICK o \in Options : /\ run' = NewRun(o, clock)
                           /\ safe' = (safe /\ (o.quick /\ watermark > 0 => covered))
  BY DEF StartRun
<1>3. /\ run' \in Runs /\ run'.opts = o /\ run'.todo # {} /\ ~run'.known /\ run'.begun = clock
  BY <1>2, NewRunFacts, OptionFacts, SiteFacts DEF HomeInv, HomeTypes
<1>4. HomeTypes'
  BY <1>1, <1>2, <1>3, SiteFixed, NoFilesFacts DEF HomeInv, HomeTypes
<1>5. (safe' => safe) /\ (safe' /\ o.quick /\ watermark > 0 => covered)
  BY <1>2
<1>6. Bookkeeping'
  <2>1. run'.begun <= clock'
    BY <1>1, <1>3 DEF HomeInv, HomeTypes
  <2> QED
    BY <1>1, <1>3, <1>5, <2>1, SiteFixed DEF HomeInv, Bookkeeping
<1>7. Stamps' /\ NewestSurvives'
  BY <1>1, <1>5, DiskIdle
<1>8. Remembered' /\ Planned' /\ NetKept' /\ PushAccount' /\ PullAccount'
  BY <1>1, <1>3, NoTransfer, NothingCounts DEF Remembered
<1>9. WatermarkSound'
  BY <1>1, MarkIdle DEF HomeInv
<1> QED
  BY <1>4, <1>6, <1>7, <1>8, <1>9 DEF HomeInv

\* A step of the run that touches neither trees nor what was listed.
LEMMA RememberedIdle ==
  ASSUME HomeInv, UNCHANGED <<site, disk, safe>>, missed \subseteq missed',
         run'.linv = run.linv, run'.opts = run.opts, run'.known = run.known
  PROVE  Remembered'
<1>1. Quiet' \subseteq Quiet
  BY SiteFixed DEF Quiet
<1>2. \A r : Elsewhere(r) => Elsewhere(r)'
  BY SiteFixed DEF Elsewhere, Has, Time
<1> QED
  BY <1>1, <1>2 DEF HomeInv, Remembered, Has, Time

LEMMA PeerFailsKeeps ==
  ASSUME HomeInv, PeerFails \/ PeerGivenUp
  PROVE  HomeInv'
<1>1. /\ pc' = "peer" /\ pc \in {"peer", "remote"}
      /\ UNCHANGED <<site, disk, clock, watermark, net, newest, missed, covered, safe>>
  BY DEF PeerFails, PeerGivenUp, ghosts
<1>2. /\ run' \in Runs /\ ~run'.ok /\ run'.linv = run.linv /\ run'.opts = run.opts
      /\ run'.known = run.known /\ run'.begun = run.begun /\ run'.todo \subseteq run.todo
  <2>1. run \in Runs /\ site \in Sites
    BY DEF HomeInv, HomeTypes
  <2>2. CASE PeerGivenUp
    BY <2>1, <2>2 DEF PeerGivenUp, Runs
  <2>3. CASE PeerFails
    <3>1. PICK p \in run.todo : run' = [run EXCEPT !.todo = @ \ {p}, !.ok = FALSE]
      BY <2>3 DEF PeerFails
    <3> QED
      BY <2>1, <3>1 DEF Runs
  <2> QED
    BY <2>2, <2>3
<1>3. HomeTypes'
  BY <1>1, <1>2, SiteFixed DEF HomeInv, HomeTypes
<1>4. Bookkeeping'
  <2>1. Cardinality(Peers) = 1 /\ run.known => run.todo = {}
    BY DEF HomeInv, Bookkeeping
  <2> QED
    BY <1>1, <1>2, <2>1, SiteFixed DEF HomeInv, Bookkeeping
<1>5. Stamps' /\ NewestSurvives'
  BY <1>1, DiskIdle
<1>6. Remembered'
  BY <1>1, <1>2, RememberedIdle
<1>7. Planned' /\ NetKept' /\ PushAccount' /\ PullAccount'
  BY <1>1, <1>2, NoTransfer, NothingCounts
<1>8. WatermarkSound'
  BY <1>1, MarkIdle DEF HomeInv
<1> QED
  BY <1>3, <1>4, <1>5, <1>6, <1>7, <1>8 DEF HomeInv

LEMMA TickKeeps ==
  ASSUME HomeInv, Tick
  PROVE  HomeInv'
<1>1. /\ clock' = clock + 1 /\ clock <= Until
      /\ UNCHANGED <<site, disk, watermark, pc, run, net, newest, missed, covered, safe>>
  BY DEF Tick, ghosts
<1>2. HomeTypes'
  <2>1. clock' \in 1..Until + 1
    BY <1>1, SiteFacts DEF HomeInv, HomeTypes
  <2> QED
    BY <1>1, <2>1, SiteFixed DEF HomeInv, HomeTypes
<1>3. Bookkeeping'
  <2>1. run.begun <= clock' /\ watermark <= clock'
    <3>1. run.begun \in Nat /\ watermark \in Nat /\ clock \in Nat
      BY SiteFacts DEF HomeInv, HomeTypes, Runs
    <3> QED
      BY <1>1, <3>1 DEF HomeInv, Bookkeeping
  <2> QED
    BY <1>1, <2>1, SiteFixed DEF HomeInv, Bookkeeping
<1>4. Stamps' /\ NewestSurvives'
  BY <1>1, DiskIdle
<1>5. Remembered'
  BY <1>1, RememberedIdle
<1>6. Planned' /\ NetKept'
  BY <1>1, SiteFixed DEF HomeInv, Planned, NetKept, Quiet, Has, Time, Holds
<1>7. PushAccount' /\ PullAccount'
  BY <1>1, SiteFixed DEF HomeInv, PushAccount, PullAccount, Counts, BothWays, QuickSound,
       NewerAtPeer, NewerHere, Quiet, Has, Time
<1>8. WatermarkSound'
  BY <1>1, MarkIdle DEF HomeInv
<1> QED
  BY <1>2, <1>3, <1>4, <1>5, <1>6, <1>7, <1>8 DEF HomeInv

LEMMA OnePeer ==
  ASSUME site \in Sites, Cardinality(Peers) = 1, NEW p \in Peers
  PROVE  Peers = {p}
<1>1. PICK x : Peers = {x}
  BY SiteFacts, FS_Singleton
<1> QED
  BY <1>1

LEMMA PeerAnswersKeeps ==
  ASSUME HomeInv, PeerAnswers
  PROVE  HomeInv'
<1>1. /\ pc = "peer" /\ pc' \in {"remote", "local"}
      /\ UNCHANGED <<site, disk, clock, watermark, net, newest, missed, covered, safe>>
      /\ run.known => pc' = "remote"
      /\ ~run.known => pc' = "local"
  BY DEF PeerAnswers, ghosts
<1>2. PICK p \in run.todo : run' = [run EXCEPT !.todo = @ \ {p}, !.peer = p]
  BY DEF PeerAnswers
<1>3. run \in Runs /\ site \in Sites
  BY DEF HomeInv, HomeTypes
<1>4. p \in Peers /\ p \in Hosts
  BY <1>3, SiteFacts DEF Runs
<1>5. /\ run' \in Runs /\ run'.todo = run.todo \ {p} /\ run'.peer = p /\ run'.linv = run.linv
      /\ run'.opts = run.opts /\ run'.known = run.known /\ run'.begun = run.begun
  BY <1>2, <1>3, <1>4 DEF Runs
<1>6. HomeTypes'
  BY <1>1, <1>5, SiteFixed DEF HomeInv, HomeTypes
<1>7. Cardinality(Peers) = 1 => ~run.known /\ run'.todo = {} /\ pc' = "local"
  <2> SUFFICES ASSUME Cardinality(Peers) = 1 PROVE ~run.known /\ run'.todo = {} /\ pc' = "local"
    OBVIOUS
  <2>1. Peers = {p} /\ run.todo \subseteq Peers
    BY <1>3, <1>4, OnePeer DEF Runs
  <2>2. ~run.known
    BY <1>1, <1>2 DEF HomeInv, Bookkeeping
  <2> QED
    BY <1>1, <1>5, <2>1, <2>2
<1>8. Bookkeeping'
  <2>1. covered => Cardinality(Peers) = 1
    BY DEF HomeInv, Bookkeeping
  <2> QED
    BY <1>1, <1>4, <1>5, <1>7, <2>1, SiteFixed DEF HomeInv, Bookkeeping
<1>9. Stamps' /\ NewestSurvives'
  BY <1>1, DiskIdle
<1>10. Remembered'
  BY <1>1, <1>5, RememberedIdle
<1>11. Planned' /\ NetKept'
  BY <1>1, NoTransfer
<1>12. PushAccount' /\ PullAccount'
  BY <1>1, <1>7, SiteFixed DEF PushAccount, PullAccount, Counts
<1>13. WatermarkSound'
  BY <1>1, MarkIdle DEF HomeInv
<1> QED
  BY <1>6, <1>8, <1>9, <1>10, <1>11, <1>12, <1>13 DEF HomeInv

-----------------------------------------------------------------------------
(* The walks and the plan.                                                 *)

LEMMA LocalWalkKeeps ==
  ASSUME HomeInv, LocalWalk
  PROVE  HomeInv'
<1>1. /\ pc = "local" /\ pc' = "remote"
      /\ UNCHANGED <<site, disk, clock, watermark, net, newest, covered>>
  BY DEF LocalWalk
<1>2. PICK seen \in SUBSET DOMAIN disk[Self], partial \in BOOLEAN :
        LET unlisted == DOMAIN disk[Self] \ seen
        IN  /\ ~Refused(partial)
            /\ run' = [run EXCEPT !.known = TRUE, !.linv = Recent(Stat(disk[Self], seen)),
                                  !.left = @ \/ unlisted # {}]
            /\ safe' = (safe /\ (partial => ~run.opts.allow_partial \/ run.opts.dry_run))
            /\ missed' = IF partial THEN missed ELSE missed \cup unlisted
  BY DEF LocalWalk
<1> DEFINE inv == Stat(disk[Self], seen)
<1>3. run \in Runs /\ site \in Sites /\ disk[Self] \in Trees
  BY SiteFacts DEF HomeInv, HomeTypes
<1>4. /\ inv \in Listings /\ DOMAIN inv = seen
      /\ \A r \in seen : inv[r].mtime = Time(Self, r)
  <2>1. seen \cap DOMAIN disk[Self] = seen
    OBVIOUS
  <2>2. inv \in Listings /\ DOMAIN inv = seen
    BY <1>3, <2>1, StatFacts
  <2> QED
    BY <1>3, <2>2, StatFacts DEF Time
<1>5. /\ Recent(inv) \in Listings /\ DOMAIN Recent(inv) \subseteq seen
      /\ \A r \in DOMAIN Recent(inv) : Recent(inv)[r].mtime = Time(Self, r)
      /\ \A r \in seen \ DOMAIN Recent(inv) :
           run.opts.quick /\ watermark > 0 /\ Time(Self, r) + Slack < watermark
  BY <1>4, RecentFacts DEF HomeInv
<1> HIDE DEF inv
<1>6. /\ run' \in Runs /\ run'.known /\ run'.linv = Recent(inv) /\ run'.opts = run.opts
      /\ run'.todo = run.todo /\ run'.peer = run.peer /\ run'.begun = run.begun
      /\ (~run'.left => seen = DOMAIN disk[Self])
  <2>1. run' = [run EXCEPT !.known = TRUE, !.linv = Recent(inv),
                           !.left = run.left \/ DOMAIN disk[Self] \ seen # {}]
    BY <1>2 DEF inv
  <2> QED
    BY <1>3, <1>5, <2>1 DEF Runs
<1>7. /\ safe' => safe
      /\ safe' /\ ~run.opts.dry_run => DOMAIN disk[Self] \ seen \subseteq missed'
      /\ safe' \in BOOLEAN /\ missed \subseteq missed' /\ missed' \subseteq Paths
  <2>1. missed \subseteq Paths /\ DOMAIN disk[Self] \subseteq Paths
    BY <1>3, TreeFacts DEF HomeInv, HomeTypes
  <2> QED
    BY <1>2, <2>1 DEF Refused
<1>8. ASSUME covered, NEW r \in DOMAIN disk[Self] \ Large, NEW p \in Peers,
             Time(Self, r) + Slack < watermark
      PROVE  Has(p, r) /\ Time(p, r) >= Time(Self, r)
  BY <1>8 DEF HomeInv, WatermarkSound, Has, Time
<1>9. HomeTypes'
  BY <1>1, <1>6, <1>7, SiteFixed DEF HomeInv, HomeTypes
<1>10. Bookkeeping'
  BY <1>1, <1>6, <1>7, SiteFixed DEF HomeInv, Bookkeeping
<1>11. Stamps' /\ NewestSurvives'
  BY <1>1, <1>7, DiskIdle
<1>12. Remembered'
  <2>1. ASSUME NEW r \in Quiet', Has(Self, r), safe', ~run.opts.dry_run,
               r \notin DOMAIN Recent(inv)
        PROVE  Elsewhere(r)
    <3>1. run.opts.quick /\ watermark > 0 /\ Time(Self, r) + Slack < watermark
      BY <1>5, <1>7, <2>1 DEF Has, Quiet
    <3>2. covered /\ run.peer \in Peers
      BY <1>1, <1>7, <2>1, <3>1 DEF HomeInv, Bookkeeping
    <3>3. Has(run.peer, r) /\ Time(run.peer, r) >= Time(Self, r)
      BY <1>1, <1>8, <2>1, <3>1, <3>2, SiteFixed DEF Quiet, Has
    <3> QED
      BY <3>1, <3>2, <3>3 DEF Elsewhere
  <2>2. \A r \in Paths : Time(Self, r) <= Time(Self, r) \/ ~Has(Self, r)
    BY <1>3, TreeFacts, SiteFacts DEF Has, Time, Files, Times
  <2>3. Quiet' \subseteq Paths /\ (\A r : Elsewhere(r)' <=> Elsewhere(r))
    BY <1>1, <1>6, SiteFixed DEF Quiet, Elsewhere, Has, Time
  <2> QED
    BY <1>1, <1>5, <1>6, <2>1, <2>2, <2>3 DEF Remembered, Has, Time
<1>13. Planned' /\ NetKept'
  BY <1>1, NoTransfer
<1>14. PushAccount'
  <2> SUFFICES ASSUME Counts', BothWays', QuickSound', NEW p \in Peers,
                      NEW r \in DOMAIN disk[Self] \ Large, Time(Self, r) < run.begun
               PROVE  NewerAtPeer(p, r) \/ r \in DOMAIN Recent(inv)
    BY <1>1, <1>5, <1>6, SiteFixed DEF PushAccount, NewerAtPeer, Has, Time
  <2> SUFFICES ASSUME r \notin DOMAIN Recent(inv) PROVE NewerAtPeer(p, r)
    OBVIOUS
  <2>1. r \in seen
    BY <1>6 DEF Counts
  <2>2. run.opts.quick /\ watermark > 0 /\ Time(Self, r) + Slack < watermark
    BY <1>5, <2>1
  <2>3. covered
    BY <1>1, <1>6, <2>2 DEF QuickSound
  <2> QED
    BY <1>8, <2>2, <2>3 DEF NewerAtPeer
<1>15. PullAccount'
  BY <1>1 DEF PullAccount
<1>16. WatermarkSound'
  BY <1>1, MarkIdle DEF HomeInv
<1> QED
  BY <1>9, <1>10, <1>11, <1>12, <1>13, <1>14, <1>15, <1>16 DEF HomeInv

(* The candidates name the whole plan.                                     *)
LEMMA CandidatesAreThePlan ==
  ASSUME NEW push, NEW pull, NEW linv, NEW rinv
  PROVE  LET cands == Candidates(push, pull, linv, rinv)
         IN  RelsOf(cands, "push") = push /\ RelsOf(cands, "pull") = pull
<1> DEFINE c(r) == [size |-> linv[r].size, dir |-> "push", rel |-> r]
           d(r) == [size |-> rinv[r].size, dir |-> "pull", rel |-> r]
           cands == Candidates(push, pull, linv, rinv)
<1>1. /\ \A r \in push : c(r) \in cands /\ c(r).dir = "push" /\ c(r).rel = r
      /\ \A r \in pull : d(r) \in cands /\ d(r).dir = "pull" /\ d(r).rel = r
  BY DEF Candidates
<1>2. \A x \in cands : /\ x.dir = "push" => x.rel \in push
                       /\ x.dir = "pull" => x.rel \in pull
  BY DEF Candidates
<1> HIDE DEF cands, c, d
<1>3. RelsOf(cands, "push") = push /\ RelsOf(cands, "pull") = pull
  BY <1>1, <1>2 DEF RelsOf
<1> QED
  BY <1>3 DEF cands

\* What a plan of one peer says of the files that are in it, and of those that are not.
LEMMA LimitedFacts ==
  ASSUME HomeTypes, NEW linv \in Listings, NEW rinv \in Listings, NEW complete \in BOOLEAN
  PROVE  LET lim == Limited(linv, rinv, complete)
         IN  /\ lim.push \subseteq DOMAIN linv /\ lim.pull \subseteq DOMAIN rinv
             /\ lim.push \cap lim.pull = {}
             /\ run.opts.push_only => lim.pull = {}
             /\ \A r \in lim.push :
                  IF r \in DOMAIN rinv THEN rinv[r].mtime < linv[r].mtime ELSE complete
             /\ \A r \in lim.pull : r \in DOMAIN linv => linv[r].mtime < rinv[r].mtime
             /\ ~lim.truncated /\ ~run.opts.pull_only /\ complete =>
                  \A r \in DOMAIN linv \ lim.push :
                    r \in DOMAIN rinv /\ linv[r].mtime <= rinv[r].mtime
             /\ ~lim.truncated /\ ~run.opts.push_only =>
                  \A r \in DOMAIN rinv \ lim.pull :
                    r \in DOMAIN linv /\ rinv[r].mtime <= linv[r].mtime
<1> DEFINE wantPush == ToPush(linv, rinv, "newer", complete)
           wantPull == ToPull(linv, rinv, "newer")
           push  == IF run.opts.pull_only THEN {} ELSE wantPush
           pull  == IF run.opts.push_only THEN {} ELSE wantPull
           cands == Candidates(push, pull, linv, rinv)
           taken == Admitted(cands, run.opts.max_files, NoLimit)
           lim   == Limited(linv, rinv, complete)
<1>1. /\ lim.push = RelsOf(taken, "push") /\ lim.pull = RelsOf(taken, "pull")
      /\ lim.truncated = (taken # cands)
  BY DEF Limited
<1>2. /\ Inventory(linv) /\ Inventory(rinv)
      /\ \A r \in DOMAIN linv : linv[r].mtime \in Nat
      /\ \A r \in DOMAIN rinv : rinv[r].mtime \in Nat
  BY ListingFacts, SiteFacts DEF HomeTypes, Times
<1>3. RelsOf(taken, "push") \subseteq push /\ RelsOf(taken, "pull") \subseteq pull
  <2>1. taken \subseteq cands
    BY DEF Admitted
  <2>2. RelsOf(cands, "push") = push /\ RelsOf(cands, "pull") = pull
    BY CandidatesAreThePlan
  <2> HIDE DEF taken, cands, push, pull
  <2> QED
    BY <2>1, <2>2 DEF RelsOf
<1>4. taken = cands => RelsOf(taken, "push") = push /\ RelsOf(taken, "pull") = pull
  BY CandidatesAreThePlan
<1>5. /\ wantPush \subseteq DOMAIN linv /\ wantPull \subseteq DOMAIN rinv
      /\ \A r \in wantPush :
           IF r \in DOMAIN rinv THEN rinv[r].mtime < linv[r].mtime ELSE complete
      /\ \A r \in wantPull : r \in DOMAIN linv => linv[r].mtime < rinv[r].mtime
      /\ complete => \A r \in DOMAIN linv \ wantPush :
                       r \in DOMAIN rinv /\ linv[r].mtime <= rinv[r].mtime
      /\ \A r \in DOMAIN rinv \ wantPull : r \in DOMAIN linv /\ rinv[r].mtime <= linv[r].mtime
  BY <1>2 DEF ToPush, ToPull, LocalWins, RemoteWins
<1>6. wantPush \cap wantPull = {}
  <2> HIDE DEF wantPush, wantPull
  <2> QED
    BY <1>2, <1>5
<1> HIDE DEF wantPush, wantPull, cands, taken, lim
<1>7. lim.push \subseteq wantPush /\ lim.pull \subseteq wantPull
      /\ (run.opts.push_only => lim.pull = {})
  BY <1>1, <1>3
<1>8. /\ ~lim.truncated /\ ~run.opts.pull_only => lim.push = wantPush
      /\ ~lim.truncated /\ ~run.opts.push_only => lim.pull = wantPull
  BY <1>1, <1>4
<1>9. lim.push \cap lim.pull = {}
  BY <1>6, <1>7
<1> QED
  BY <1>5, <1>7, <1>8, <1>9 DEF lim

LEMMA RemoteWalkKeeps ==
  ASSUME HomeInv, RemoteWalk
  PROVE  HomeInv'
<1>1. /\ pc = "remote" /\ UNCHANGED <<site, disk, clock, watermark, net, newest, covered, safe>>
      /\ pc' \in {"peer", "backup"}
      /\ run.opts.dry_run => pc' = "peer"
      /\ ~run.opts.dry_run => pc' = "backup"
  BY DEF RemoteWalk, ghosts
<1>2. PICK seen \in SUBSET DOMAIN disk[run.peer], complete \in BOOLEAN :
        LET rinv     == Stat(disk[run.peer], seen)
            unlisted == DOMAIN disk[run.peer] \ seen
            limited  == Limited(run.linv, rinv, complete)
            plan     == [push |-> limited.push, pull |-> limited.pull]
        IN  /\ run' = [run EXCEPT !.rinv = rinv, !.plan = plan, !.rest = plan, !.owed = plan,
                                  !.left = @ \/ ~complete \/ unlisted # {} \/ limited.truncated]
            /\ missed' = IF complete THEN missed \cup unlisted ELSE missed
  BY DEF RemoteWalk
<1> DEFINE inv == Stat(disk[run.peer], seen)
           lim == Limited(run.linv, inv, complete)
           plan == [push |-> lim.push, pull |-> lim.pull]
<1>3. /\ run \in Runs /\ site \in Sites /\ run.peer \in Peers /\ run.known
      /\ run.linv \in Listings /\ DOMAIN run.linv \subseteq DOMAIN disk[Self]
      /\ disk[Self] \in Trees /\ disk[run.peer] \in Trees
  <2>1. run \in Runs /\ site \in Sites /\ run.peer \in Peers /\ run.known
    BY <1>1 DEF HomeInv, HomeTypes, Bookkeeping
  <2>2. DOMAIN run.linv \subseteq DOMAIN disk[Self]
    BY <2>1 DEF HomeInv, Remembered
  <2> QED
    BY <2>1, <2>2, SiteFacts DEF HomeInv, HomeTypes, Runs
<1>4. /\ inv \in Listings /\ DOMAIN inv = seen
      /\ \A r \in seen : inv[r].mtime = Time(run.peer, r)
  <2>1. seen \cap DOMAIN disk[run.peer] = seen
    OBVIOUS
  <2>2. inv \in Listings /\ DOMAIN inv = seen
    BY <1>3, <2>1, StatFacts
  <2> QED
    BY <1>3, <2>2, StatFacts DEF Time
<1>5. /\ missed \subseteq missed' /\ missed' \subseteq Paths
      /\ complete => DOMAIN disk[run.peer] \ seen \subseteq missed'
      /\ Quiet' \subseteq Quiet
  <2>1. missed \subseteq Paths /\ DOMAIN disk[run.peer] \subseteq Paths
    BY <1>3, TreeFacts DEF HomeInv, HomeTypes
  <2> QED
    BY <1>1, <1>2, <2>1, SiteFixed DEF Quiet
<1> HIDE DEF inv
<1>6. /\ lim.push \subseteq DOMAIN run.linv /\ lim.pull \subseteq DOMAIN inv
      /\ lim.push \cap lim.pull = {}
      /\ run.opts.push_only => lim.pull = {}
      /\ \A r \in lim.push :
           IF r \in DOMAIN inv THEN inv[r].mtime < run.linv[r].mtime ELSE complete
      /\ \A r \in lim.pull : r \in DOMAIN run.linv => run.linv[r].mtime < inv[r].mtime
      /\ ~lim.truncated /\ ~run.opts.pull_only /\ complete =>
           \A r \in DOMAIN run.linv \ lim.push :
             r \in DOMAIN inv /\ run.linv[r].mtime <= inv[r].mtime
      /\ ~lim.truncated /\ ~run.opts.push_only =>
           \A r \in DOMAIN inv \ lim.pull :
             r \in DOMAIN run.linv /\ inv[r].mtime <= run.linv[r].mtime
  BY <1>3, <1>4, LimitedFacts DEF HomeInv
<1>7. plan \in Plans
  BY <1>3, <1>4, <1>6, ListingFacts DEF Plans
<1> HIDE DEF lim
<1>8. /\ run' \in Runs /\ run'.linv = run.linv /\ run'.opts = run.opts /\ run'.known = run.known
      /\ run'.peer = run.peer /\ run'.begun = run.begun /\ run'.todo = run.todo /\ run'.ok = run.ok
      /\ run'.plan = plan /\ run'.rest = plan /\ run'.owed = plan
      /\ (~run'.left => ~run.left /\ complete /\ ~lim.truncated /\ DOMAIN disk[run.peer] = seen)
  <2>1. run' = [run EXCEPT !.rinv = inv, !.plan = plan, !.rest = plan, !.owed = plan,
                           !.left = run.left \/ ~complete \/ DOMAIN disk[run.peer] \ seen # {}
                                      \/ lim.truncated]
    BY <1>2 DEF inv, lim
  <2>2. (run.left \/ ~complete \/ DOMAIN disk[run.peer] \ seen # {} \/ lim.truncated) \in BOOLEAN
    OBVIOUS
  <2> QED
    BY <1>3, <1>4, <1>7, <2>1, <2>2 DEF Runs
<1>9. plan.push = lim.push /\ plan.pull = lim.pull
  OBVIOUS
<1> HIDE DEF plan
<1>10. \A r \in DOMAIN disk[run.peer] \cap Quiet' : complete => r \in seen
  BY <1>5 DEF Quiet
<1>11. /\ \A r \in Quiet \cap DOMAIN run.linv : Has(Self, r) /\ run.linv[r].mtime <= Time(Self, r)
       /\ \A r \in DOMAIN run.linv : run.linv[r].mtime \in Nat
       /\ \A h \in Hosts : \A r \in DOMAIN disk[h] : Time(h, r) \in Nat
  <2>1. \A h \in Hosts : \A r \in DOMAIN disk[h] : Time(h, r) \in Nat
    BY <1>3, TreeFacts, SiteFacts DEF HomeInv, HomeTypes, Time, Files, Times
  <2>2. \A r \in DOMAIN run.linv : run.linv[r].mtime \in Nat
    BY <1>3, ListingFacts, SiteFacts DEF Times
  <2> QED
    BY <1>3, <2>1, <2>2 DEF HomeInv, Remembered, Has
<1>12. HomeTypes'
  BY <1>1, <1>5, <1>8, SiteFixed DEF HomeInv, HomeTypes
<1>13. Bookkeeping'
  BY <1>1, <1>8, SiteFixed DEF HomeInv, Bookkeeping
<1>14. Stamps' /\ NewestSurvives'
  BY <1>1, <1>5, DiskIdle
<1>15. Remembered'
  BY <1>1, <1>5, <1>8, RememberedIdle
<1>16. NetKept' /\ WatermarkSound'
  BY <1>1, MarkIdle DEF HomeInv, NetKept
<1>17. Planned'
  <2>1. \A r \in Quiet' : r \in lim.push /\ Has(run.peer, r) => Time(run.peer, r) <= Time(Self, r)
    <3> SUFFICES ASSUME NEW r \in Quiet', r \in lim.push, Has(run.peer, r)
                 PROVE  Time(run.peer, r) <= Time(Self, r)
      OBVIOUS
    <3>1. r \in seen
      BY <1>4, <1>6, <1>10 DEF Has
    <3>2. Time(run.peer, r) < run.linv[r].mtime /\ run.linv[r].mtime <= Time(Self, r)
      BY <1>4, <1>5, <1>6, <1>11, <3>1
    <3> QED
      BY <1>3, <1>6, <1>11, <3>2, SiteFacts DEF Has
  <2>2. \A r \in Quiet : r \in lim.pull /\ r \in DOMAIN run.linv =>
          run.linv[r].mtime < Time(run.peer, r)
    BY <1>4, <1>6
  <2>3. lim.push \subseteq DOMAIN disk[Self] /\ lim.pull \subseteq DOMAIN disk[run.peer]
    BY <1>3, <1>4, <1>6
  <2>4. /\ Quiet' \subseteq Quiet
        /\ \A r : Has(run.peer, r)' = Has(run.peer, r) /\ Time(run.peer, r)' = Time(run.peer, r)
                  /\ Time(Self, r)' = Time(Self, r)
    BY <1>1, <1>5, <1>8, SiteFixed DEF Has, Time
  <2>5. plan \in [push : SUBSET Paths, pull : SUBSET Paths]
    BY <1>7 DEF Plans
  <2> QED
    BY <1>1, <1>6, <1>8, <1>9, <2>1, <2>2, <2>3, <2>4 DEF Planned, Directions
<1>18. PushAccount'
  <2> SUFFICES ASSUME Counts', BothWays', QuickSound', NEW p \in Peers,
                      NEW r \in DOMAIN disk[Self] \ Large, Time(Self, r) < run.begun, pc' = "backup"
               PROVE  NewerAtPeer(p, r) \/ r \in lim.push
    <3>1. pc' = "peer" => ~Counts'
      BY <1>1, <1>8 DEF Counts
    <3> QED
      BY <1>1, <1>8, <1>9, <3>1, SiteFixed DEF PushAccount, NewerAtPeer, Has, Time
  <2>1. complete /\ ~lim.truncated /\ Counts /\ BothWays /\ QuickSound
    BY <1>1, <1>8, SiteFixed DEF Counts, BothWays, QuickSound
  <2>2. p = run.peer
    BY <1>3, <2>1, OnePeer DEF Counts
  <2>3. NewerAtPeer(p, r) \/ (r \in DOMAIN run.linv /\ run.linv[r].mtime = Time(Self, r))
    BY <1>1, <2>1 DEF HomeInv, PushAccount
  <2>4. ASSUME r \in DOMAIN run.linv, run.linv[r].mtime = Time(Self, r), r \notin lim.push
        PROVE  NewerAtPeer(p, r)
    <3>1. r \in DOMAIN inv /\ r \in seen /\ run.linv[r].mtime <= inv[r].mtime
      BY <1>4, <1>6, <2>1, <2>4 DEF BothWays
    <3> QED
      BY <1>4, <2>2, <2>4, <3>1 DEF NewerAtPeer, Has
  <2> QED
    BY <2>3, <2>4
<1>19. PullAccount'
  <2> SUFFICES ASSUME Counts', ~run.opts.push_only, NEW p \in Peers,
                      NEW r \in Quiet, Has(p, r), pc' = "backup"
               PROVE  NewerHere(p, r) \/ r \in lim.pull
    <3>1. pc' = "peer" => ~Counts'
      BY <1>1, <1>8 DEF Counts
    <3>2. Quiet' \subseteq Quiet
      BY <1>5
    <3> QED
      BY <1>1, <1>8, <1>9, <3>1, <3>2, SiteFixed DEF PullAccount, NewerHere, Has, Time
  <2>1. /\ ~lim.truncated /\ Cardinality(Peers) = 1
        /\ DOMAIN disk[run.peer] = seen
    BY <1>1, <1>8, SiteFixed DEF Counts
  <2>2. p = run.peer /\ r \in seen
    BY <1>3, <2>1, OnePeer DEF Has
  <2>3. ASSUME r \notin lim.pull
        PROVE  NewerHere(p, r)
    <3>1. r \in DOMAIN run.linv /\ inv[r].mtime <= run.linv[r].mtime
      BY <1>4, <1>6, <2>1, <2>2, <2>3
    <3>2. Time(p, r) <= run.linv[r].mtime /\ run.linv[r].mtime <= Time(Self, r) /\ Has(Self, r)
      BY <1>4, <1>11, <2>2, <3>1
    <3>3. Time(p, r) \in Nat /\ run.linv[r].mtime \in Nat /\ Time(Self, r) \in Nat
      BY <1>3, <1>11, <2>2, <3>1, <3>2, SiteFacts DEF Has
    <3> QED
      BY <3>2, <3>3 DEF NewerHere
  <2> QED
    BY <2>3
<1> QED
  BY <1>12, <1>13, <1>14, <1>15, <1>16, <1>17, <1>18, <1>19 DEF HomeInv

LEMMA BackupKeeps ==
  ASSUME HomeInv, Backup
  PROVE  HomeInv'
<1> DEFINE files == IF run.opts.safetynet /\ ~run.opts.push_only
                      THEN ToBackUp \cap DOMAIN disk[Self] ELSE {}
<1>1. /\ pc = "backup" /\ pc' = "transfer"
      /\ UNCHANGED <<site, disk, clock, watermark, run, newest, missed, covered, safe>>
      /\ net' = [r \in DOMAIN net \cup files |-> IF r \in files THEN disk[Self][r].id ELSE net[r]]
  BY DEF Backup, ghosts
<1>2. /\ files \subseteq DOMAIN disk[Self] /\ files \subseteq Paths
      /\ \A r \in files : disk[Self][r].id \in 0..Until
  BY TreeFacts, SiteFacts DEF HomeInv, HomeTypes, Files
<1>3. /\ DOMAIN net' = DOMAIN net \cup files
      /\ \A r \in files : net'[r] = disk[Self][r].id
      /\ \A r \in DOMAIN net \ files : net'[r] = net[r]
  BY <1>1
<1>4. NetKept'
  <2> SUFFICES ASSUME run.opts.safetynet, NEW r \in Quiet, r \in run.plan.pull,
                      r \in DOMAIN run.linv, Has(Self, r)
               PROVE  r \in files
    BY <1>1, <1>3, SiteFixed DEF NetKept, Quiet, Has
  <2>1. ~run.opts.push_only
    BY <1>1 DEF HomeInv, Planned
  <2> QED
    BY <2>1 DEF ToBackUp, Has
<1> HIDE DEF files
<1>5. HomeTypes'
  <2>1. DOMAIN net' \subseteq Paths /\ \A r \in DOMAIN net' : net'[r] \in 0..Until
    BY <1>2, <1>3 DEF HomeInv, HomeTypes
  <2> QED
    BY <1>1, <2>1, SiteFixed DEF HomeInv, HomeTypes
<1>6. Bookkeeping'
  BY <1>1, SiteFixed DEF HomeInv, Bookkeeping
<1>7. Stamps' /\ NewestSurvives'
  BY <1>1, DiskIdle
<1>8. Remembered'
  BY <1>1, RememberedIdle
<1>9. Planned'
  BY <1>1, SiteFixed DEF HomeInv, Planned, Quiet, Has, Time
<1>10. PushAccount' /\ PullAccount'
  BY <1>1, SiteFixed DEF HomeInv, PushAccount, PullAccount, Counts, BothWays, QuickSound,
       NewerAtPeer, NewerHere, Quiet, Has, Time
<1>11. WatermarkSound'
  BY <1>1, MarkIdle DEF HomeInv
<1> QED
  BY <1>4, <1>5, <1>6, <1>7, <1>8, <1>9, <1>10, <1>11 DEF HomeInv

-----------------------------------------------------------------------------
(* The transfer stage and the end of a run.                                *)

\* A re-plan drops a file only when the other side has caught up with it.
LEMMA DowngradeFacts ==
  ASSUME HomeInv, pc = "transfer", NEW rels, rels = run.rest.push \cup run.rest.pull,
         NEW rest,
         rest = Replan(run.rest, Stat(disk[Self], rels), Stat(disk[run.peer], rels), "newer")
  PROVE  /\ rest.push \subseteq run.rest.push /\ rest.pull \subseteq run.rest.pull
         /\ \A r \in run.rest.push \ rest.push : NewerAtPeer(run.peer, r)
         /\ \A r \in run.rest.pull \ rest.pull : NewerHere(run.peer, r)
<1> DEFINE here == Stat(disk[Self], rels)
           there == Stat(disk[run.peer], rels)
<1>1. rest.push \subseteq run.rest.push /\ rest.pull \subseteq run.rest.pull
  BY DEF Replan
<1>2. /\ run.rest.push \subseteq DOMAIN disk[Self]
      /\ run.rest.pull \subseteq DOMAIN disk[run.peer]
      /\ disk[Self] \in Trees /\ disk[run.peer] \in Trees
  <2>1. run.peer \in Hosts
    BY SiteFacts DEF HomeInv, HomeTypes, Bookkeeping
  <2> QED
    BY <2>1, SiteFacts DEF HomeInv, HomeTypes, Planned
<1>3. /\ DOMAIN here = rels \cap DOMAIN disk[Self]
      /\ \A r \in DOMAIN here : here[r].mtime = Time(Self, r) /\ here[r].mtime \in Nat
      /\ DOMAIN there = rels \cap DOMAIN disk[run.peer]
      /\ \A r \in DOMAIN there : there[r].mtime = Time(run.peer, r) /\ there[r].mtime \in Nat
  <2>1. /\ here \in Listings /\ DOMAIN here = rels \cap DOMAIN disk[Self]
        /\ \A r \in DOMAIN here : here[r].mtime = Time(Self, r)
        /\ there \in Listings /\ DOMAIN there = rels \cap DOMAIN disk[run.peer]
        /\ \A r \in DOMAIN there : there[r].mtime = Time(run.peer, r)
    BY <1>2, StatFacts DEF Time
  <2>2. \A inv \in Listings : \A r \in DOMAIN inv : inv[r].mtime \in Nat
    BY ListingFacts, SiteFacts DEF HomeInv, HomeTypes, Times
  <2> HIDE DEF here, there
  <2> QED
    BY <2>1, <2>2
<1>4. /\ rest.push = run.rest.push \cap ToPush(here, there, "newer", TRUE)
      /\ rest.pull = run.rest.pull \cap ToPull(here, there, "newer")
  BY DEF Replan
<1> HIDE DEF here, there
<1>5. \A r \in run.rest.push \ rest.push : NewerAtPeer(run.peer, r)
  <2> TAKE r \in run.rest.push \ rest.push
  <2>1. r \in DOMAIN here /\ r \notin ToPush(here, there, "newer", TRUE)
    BY <1>2, <1>3, <1>4
  <2>2. r \in DOMAIN there /\ ~(here[r].mtime > there[r].mtime)
    BY <2>1 DEF ToPush, LocalWins
  <2> QED
    BY <1>3, <2>1, <2>2 DEF NewerAtPeer, Has
<1>6. \A r \in run.rest.pull \ rest.pull : NewerHere(run.peer, r)
  <2> TAKE r \in run.rest.pull \ rest.pull
  <2>1. r \in DOMAIN there /\ r \notin ToPull(here, there, "newer")
    BY <1>2, <1>3, <1>4
  <2>2. r \in DOMAIN here /\ ~(there[r].mtime > here[r].mtime)
    BY <2>1 DEF ToPull, RemoteWins
  <2> QED
    BY <1>3, <2>1, <2>2 DEF NewerHere, Has
<1> QED
  BY <1>1, <1>5, <1>6

LEMMA DowngradeKeeps ==
  ASSUME HomeInv, Downgrade
  PROVE  HomeInv'
<1> DEFINE rels == run.rest.push \cup run.rest.pull
           rest == Replan(run.rest, Stat(disk[Self], rels), Stat(disk[run.peer], rels), "newer")
           owed == [push |-> run.owed.push \cap rest.push, pull |-> run.owed.pull \cap rest.pull]
<1>1. /\ pc = "transfer" /\ pc' = "transfer"
      /\ UNCHANGED <<site, disk, clock, watermark, net, newest, missed, covered, safe>>
      /\ run' = [run EXCEPT !.rest = rest, !.owed = owed]
  BY DEF Downgrade, ghosts
<1>2. /\ rest.push \subseteq run.rest.push /\ rest.pull \subseteq run.rest.pull
      /\ \A r \in run.rest.push \ rest.push : NewerAtPeer(run.peer, r)
      /\ \A r \in run.rest.pull \ rest.pull : NewerHere(run.peer, r)
  BY <1>1, DowngradeFacts
<1>3. rest = [push |-> rest.push, pull |-> rest.pull]
  BY DEF Replan
<1> HIDE DEF rels, rest
<1>4. run \in Runs /\ site \in Sites /\ run.peer \in Peers
  BY <1>1 DEF HomeInv, HomeTypes, Bookkeeping
<1>5. rest \in Plans /\ owed \in Plans
  <2>1. run.rest.push \subseteq Paths /\ run.rest.pull \subseteq Paths
    BY <1>4 DEF Runs, Plans
  <2> QED
    BY <1>2, <1>3, <2>1 DEF Plans
<1>6. /\ run' \in Runs /\ run'.linv = run.linv /\ run'.opts = run.opts /\ run'.known = run.known
      /\ run'.peer = run.peer /\ run'.begun = run.begun /\ run'.todo = run.todo /\ run'.ok = run.ok
      /\ run'.left = run.left /\ run'.plan = run.plan /\ run'.rest = rest /\ run'.owed = owed
  BY <1>1, <1>4, <1>5 DEF Runs
<1>7. /\ owed.push = run.owed.push \cap rest.push /\ owed.pull = run.owed.pull \cap rest.pull
      /\ run.owed.push \subseteq run.rest.push /\ run.owed.pull \subseteq run.rest.pull
  BY <1>1 DEF HomeInv, Planned, Directions
<1> HIDE DEF owed
<1>8. HomeTypes'
  BY <1>1, <1>6, SiteFixed DEF HomeInv, HomeTypes
<1>9. Bookkeeping'
  BY <1>1, <1>6, SiteFixed DEF HomeInv, Bookkeeping
<1>10. Stamps' /\ NewestSurvives'
  BY <1>1, DiskIdle
<1>11. Remembered'
  BY <1>1, <1>6, RememberedIdle
<1>12. Planned'
  <2>1. \A dir \in Directions : owed[dir] \subseteq rest[dir] /\ rest[dir] \subseteq run.rest[dir]
    BY <1>2, <1>7 DEF Directions
  <2> QED
    BY <1>1, <1>2, <1>6, <2>1, SiteFixed DEF HomeInv, Planned, Quiet, Has, Time
<1>13. NetKept'
  BY <1>1, <1>6, SiteFixed DEF HomeInv, NetKept, Quiet, Has, Holds
<1>14. Counts /\ Counts' => Peers = {run.peer}
  BY <1>4, OnePeer DEF Counts
<1>15. PushAccount'
  <2> SUFFICES ASSUME Counts', BothWays', QuickSound', NEW p \in Peers,
                      NEW r \in DOMAIN disk[Self] \ Large, Time(Self, r) < run.begun
               PROVE  NewerAtPeer(p, r) \/ r \in owed.push
    BY <1>1, <1>6, SiteFixed DEF PushAccount, NewerAtPeer, Has, Time
  <2>1. Counts /\ BothWays /\ QuickSound
    BY <1>1, <1>6, SiteFixed DEF Counts, BothWays, QuickSound
  <2>2. NewerAtPeer(p, r) \/ r \in run.owed.push
    BY <1>1, <2>1 DEF HomeInv, PushAccount
  <2> QED
    BY <1>2, <1>7, <1>14, <2>1, <2>2
<1>16. PullAccount'
  <2> SUFFICES ASSUME Counts', ~run.opts.push_only, NEW p \in Peers, NEW r \in Quiet, Has(p, r)
               PROVE  NewerHere(p, r) \/ r \in owed.pull
    <3>1. Quiet' = Quiet
      BY <1>1, SiteFixed DEF Quiet
    <3> QED
      BY <1>1, <1>6, <3>1, SiteFixed DEF PullAccount, NewerHere, Has, Time
  <2>1. Counts
    BY <1>1, <1>6, SiteFixed DEF Counts
  <2>2. NewerHere(p, r) \/ r \in run.owed.pull
    BY <1>1, <2>1 DEF HomeInv, PullAccount
  <2> QED
    BY <1>2, <1>7, <1>14, <2>1, <2>2
<1>17. WatermarkSound'
  BY <1>1, MarkIdle DEF HomeInv
<1> QED
  BY <1>8, <1>9, <1>10, <1>11, <1>12, <1>13, <1>15, <1>16, <1>17 DEF HomeInv

(* A file left out may still come with a later rung, but a run that left   *)
(* one out counts for nothing.                                             *)
LEMMA LeavesOutKeeps ==
  ASSUME HomeInv, LeavesOut
  PROVE  HomeInv'
<1>1. /\ pc = "transfer" /\ pc' = pc
      /\ UNCHANGED <<site, disk, clock, watermark, net, newest, missed, covered, safe>>
  BY DEF LeavesOut, ghosts
<1>2. PICK dir \in Directions : \E r \in run.owed[dir] :
        run' = [run EXCEPT !.owed[dir] = @ \ {r}, !.left = TRUE]
  BY DEF LeavesOut, Directions
<1>3. PICK r \in run.owed[dir] : run' = [run EXCEPT !.owed[dir] = @ \ {r}, !.left = TRUE]
  BY <1>2
<1>4. run \in Runs /\ site \in Sites /\ run.owed \in Plans
  BY DEF HomeInv, HomeTypes, Runs
<1>5. /\ run' \in Runs /\ run'.linv = run.linv /\ run'.opts = run.opts /\ run'.known = run.known
      /\ run'.peer = run.peer /\ run'.begun = run.begun /\ run'.todo = run.todo
      /\ run'.plan = run.plan /\ run'.rest = run.rest /\ run'.left
      /\ \A d \in Directions : run'.owed[d] \subseteq run.owed[d]
  <2> DEFINE owed == [run.owed EXCEPT ![dir] = @ \ {r}]
  <2>1. owed \in Plans /\ \A d \in Directions : owed[d] \subseteq run.owed[d]
    BY <1>4 DEF Plans, Directions
  <2>2. run' = [run EXCEPT !.owed = owed, !.left = TRUE]
    BY <1>3, <1>4 DEF Runs
  <2> HIDE DEF owed
  <2> QED
    BY <1>4, <2>1, <2>2 DEF Runs
<1>6. HomeTypes'
  BY <1>1, <1>5, SiteFixed DEF HomeInv, HomeTypes
<1>7. Bookkeeping'
  BY <1>1, <1>5, SiteFixed DEF HomeInv, Bookkeeping
<1>8. Stamps' /\ NewestSurvives'
  BY <1>1, DiskIdle
<1>9. Remembered'
  BY <1>1, <1>5, RememberedIdle
<1>10. Planned'
  <2>1. \A d \in Directions : run'.owed[d] \subseteq run.rest[d] /\ run.rest[d] \subseteq run.plan[d]
    BY <1>1, <1>5 DEF HomeInv, Planned
  <2> QED
    BY <1>1, <1>5, <2>1, SiteFixed DEF HomeInv, Planned, Quiet, Has, Time
<1>11. NetKept'
  BY <1>1, <1>5, SiteFixed DEF HomeInv, NetKept, Quiet, Has, Holds
<1>12. PushAccount' /\ PullAccount'
  BY <1>5 DEF PushAccount, PullAccount, Counts
<1>13. WatermarkSound'
  BY <1>1, MarkIdle DEF HomeInv
<1> QED
  BY <1>6, <1>7, <1>8, <1>9, <1>10, <1>11, <1>12, <1>13 DEF HomeInv

LEMMA PeerDoneKeeps ==
  ASSUME HomeInv, PeerDone
  PROVE  HomeInv'
<1>1. /\ pc = "transfer" /\ pc' = "peer"
      /\ UNCHANGED <<site, disk, clock, watermark, net, newest, missed, covered, safe>>
  BY DEF PeerDone, ghosts
<1>2. PICK pushed, pulled \in BOOLEAN :
        /\ pushed => run.owed.push = {}
        /\ pulled => run.owed.pull = {}
        /\ run' = [run EXCEPT !.plan = NoPlan, !.rest = NoPlan, !.owed = NoPlan, !.rinv = NoFiles,
                              !.ok = @ /\ pushed /\ pulled /\ (run.opts.verify => Verified)]
  BY DEF PeerDone
<1>3. run \in Runs /\ site \in Sites
  BY DEF HomeInv, HomeTypes
<1>4. /\ run' \in Runs /\ run'.linv = run.linv /\ run'.opts = run.opts /\ run'.known = run.known
      /\ run'.begun = run.begun /\ run'.todo = run.todo /\ run'.left = run.left
      /\ (run'.ok => run.ok /\ run.owed.push = {} /\ run.owed.pull = {})
  <2> DEFINE ok == run.ok /\ pushed /\ pulled /\ (run.opts.verify => Verified)
  <2>1. NoPlan \in Plans /\ NoFiles \in Listings
    BY NoFilesFacts DEF NoPlan, Plans
  <2>2. ok \in BOOLEAN /\ (ok => run.ok /\ run.owed.push = {} /\ run.owed.pull = {})
    BY <1>2
  <2>3. run' = [run EXCEPT !.plan = NoPlan, !.rest = NoPlan, !.owed = NoPlan, !.rinv = NoFiles,
                           !.ok = ok]
    BY <1>2
  <2> HIDE DEF ok
  <2> QED
    BY <1>3, <2>1, <2>2, <2>3 DEF Runs
<1>5. HomeTypes'
  BY <1>1, <1>4, SiteFixed DEF HomeInv, HomeTypes
<1>6. Bookkeeping'
  BY <1>1, <1>4, SiteFixed DEF HomeInv, Bookkeeping
<1>7. Stamps' /\ NewestSurvives'
  BY <1>1, DiskIdle
<1>8. Remembered'
  BY <1>1, <1>4, RememberedIdle
<1>9. Planned' /\ NetKept'
  BY <1>1, NoTransfer
<1>10. PushAccount'
  <2> SUFFICES ASSUME Counts', BothWays', QuickSound', NEW p \in Peers,
                      NEW r \in DOMAIN disk[Self] \ Large, Time(Self, r) < run.begun
               PROVE  NewerAtPeer(p, r)
    BY <1>1, <1>4, SiteFixed DEF PushAccount, NewerAtPeer, Has, Time
  <2>1. Counts /\ BothWays /\ QuickSound /\ run.owed.push = {}
    BY <1>1, <1>4, SiteFixed DEF Counts, BothWays, QuickSound
  <2> QED
    BY <1>1, <2>1 DEF HomeInv, PushAccount
<1>11. PullAccount'
  <2> SUFFICES ASSUME Counts', ~run.opts.push_only, NEW p \in Peers, NEW r \in Quiet, Has(p, r)
               PROVE  NewerHere(p, r)
    <3>1. Quiet' = Quiet
      BY <1>1, SiteFixed DEF Quiet
    <3> QED
      BY <1>1, <1>4, <3>1, SiteFixed DEF PullAccount, NewerHere, Has, Time
  <2>1. Counts /\ run.owed.pull = {}
    BY <1>1, <1>4, SiteFixed DEF Counts
  <2> QED
    BY <1>1, <2>1 DEF HomeInv, PullAccount
<1>12. WatermarkSound'
  BY <1>1, MarkIdle DEF HomeInv
<1> QED
  BY <1>5, <1>6, <1>7, <1>8, <1>9, <1>10, <1>11, <1>12 DEF HomeInv

LEMMA FinishRunKeeps ==
  ASSUME HomeInv, FinishRun
  PROVE  HomeInv'
<1>1. /\ pc = "peer" /\ run.todo = {} /\ pc' = "idle" /\ run' = NoRun
      /\ UNCHANGED <<site, disk, clock, net, newest, missed, safe>>
  BY DEF FinishRun
<1>2. CASE ~Succeeded
  <2>1. UNCHANGED <<watermark, covered>>
    BY <1>2 DEF FinishRun
  <2> QED
    BY <1>1, <2>1, CrashKeeps DEF Crash, ghosts
<1>3. CASE Succeeded
  <2>1. /\ watermark' = clock
        /\ covered' = (/\ ~run.left /\ ~run.opts.push_only /\ ~run.opts.pull_only
                       /\ run.opts.peers = Peers /\ Cardinality(Peers) = 1
                       /\ clock <= run.begun + Slack
                       /\ run.opts.quick /\ watermark > 0 => covered)
    BY <1>3 DEF FinishRun
  <2>2. /\ run' \in Runs' /\ ~run'.known /\ run'.begun = 0
        /\ Remembered' /\ Planned' /\ NetKept' /\ PushAccount' /\ PullAccount'
    BY <1>1, RunOver
  <2>3. HomeTypes'
    <3>1. watermark' \in 0..Until + 1 /\ covered' \in BOOLEAN
      BY <2>1, SiteFacts DEF HomeInv, HomeTypes
    <3> QED
      BY <1>1, <2>2, <3>1, SiteFixed DEF HomeInv, HomeTypes
  <2>4. Bookkeeping'
    <3>1. run'.begun <= clock' /\ watermark' <= clock'
      BY <1>1, <2>1, <2>2, SiteFacts DEF HomeInv, HomeTypes
    <3> QED
      BY <1>1, <2>1, <2>2, <3>1, SiteFixed DEF HomeInv, Bookkeeping
  <2>5. Stamps' /\ NewestSurvives'
    BY <1>1, DiskIdle
  <2>6. WatermarkSound'
    <3> SUFFICES ASSUME covered', NEW r \in DOMAIN disk[Self] \ Large,
                        Time(Self, r) + Slack < clock, NEW p \in Peers
                 PROVE  NewerAtPeer(p, r)
      <4>1. \A t \in Nat, u \in Nat : u <= t => t >= u
        OBVIOUS
      <4>2. \A h \in Hosts : \A r \in DOMAIN disk[h] : Time(h, r) \in Nat
        BY TreeFacts, SiteFacts DEF HomeInv, HomeTypes, Time, Files, Times
      <4>3. Self \in Hosts /\ Peers \subseteq Hosts
        BY SiteFacts DEF HomeInv, HomeTypes
      <4> QED
        BY <1>1, <2>1, <4>1, <4>2, <4>3, SiteFixed DEF WatermarkSound, NewerAtPeer, Has, Time
    <3>1. Time(Self, r) \in Nat /\ run.begun \in Nat /\ clock \in Nat /\ Slack \in Nat
      BY TreeFacts, SiteFacts, SyncHomeAssumption DEF HomeInv, HomeTypes, Runs, Time, Files, Times
    <3>2. Time(Self, r) < run.begun
      <4>1. clock <= run.begun + Slack
        BY <2>1
      <4> QED
        BY <3>1, <4>1
    <3>3. Counts /\ BothWays /\ QuickSound
      BY <1>3, <2>1 DEF Counts, BothWays, QuickSound, Succeeded
    <3> QED
      BY <1>1, <3>2, <3>3 DEF HomeInv, PushAccount
  <2> QED
    BY <2>2, <2>3, <2>4, <2>5, <2>6 DEF HomeInv
<1> QED
  BY <1>2, <1>3

-----------------------------------------------------------------------------
(* Writes: to a tree by the transfer stage, and by the users.              *)

\* What a write to one file of one Mac does, and what it leaves alone.
Written(h, r, file) == r \in DOMAIN disk'[h] /\ disk'[h][r] = file
Untouched(h, r) ==
  /\ r \in DOMAIN disk'[h] <=> r \in DOMAIN disk[h]
  /\ r \in DOMAIN disk[h] => disk'[h][r] = disk[h][r]
OnlyThere(h0, r0) ==
  /\ \A h \in Hosts : DOMAIN disk[h] \subseteq DOMAIN disk'[h]
  /\ \A h \in Hosts : \A r : h # h0 \/ r # r0 => Untouched(h, r)

LEMMA WriteFacts ==
  ASSUME HomeTypes, NEW h0 \in Hosts, NEW r0 \in Paths, NEW file \in Files,
         disk' = [disk EXCEPT ![h0] = Put(@, r0, file)]
  PROVE  disk' \in [Hosts -> Trees] /\ Written(h0, r0, file) /\ OnlyThere(h0, r0)
<1>1. disk \in [Hosts -> Trees] /\ disk[h0] \in Trees
  BY DEF HomeTypes
<1>2. disk'[h0] = Put(disk[h0], r0, file) /\ \A h \in Hosts : h # h0 => disk'[h] = disk[h]
  BY <1>1
<1>3. Put(disk[h0], r0, file) \in Trees
  BY <1>1, PutTree
<1>4. /\ DOMAIN disk'[h0] = DOMAIN disk[h0] \cup {r0} /\ disk'[h0][r0] = file
      /\ \A r \in DOMAIN disk[h0] : r # r0 => disk'[h0][r] = disk[h0][r]
  BY <1>2 DEF Put
<1>5. disk' \in [Hosts -> Trees]
  BY <1>1, <1>3
<1>6. OnlyThere(h0, r0)
  BY <1>2, <1>4 DEF OnlyThere, Untouched
<1>7. Written(h0, r0, file)
  BY <1>2, <1>4 DEF Written
<1> QED
  BY <1>5, <1>6, <1>7

\* The transfer stage writes one file: either a large one, or one whose copies on both
\* Macs are the same from then on.
LEMMA WriteKeeps ==
  ASSUME HomeInv, pc = "transfer",
         UNCHANGED <<site, clock, watermark, pc, net, newest, missed, covered, safe>>,
         NEW h0 \in {Self, run.peer}, NEW r0 \in Paths, NEW file \in Files,
         disk' = [disk EXCEPT ![h0] = Put(@, r0, file)],
         run' \in Runs, run'.opts = run.opts, run'.todo = run.todo, run'.peer = run.peer,
         run'.known = run.known, run'.linv = run.linv, run'.begun = run.begun,
         run'.plan = run.plan, run'.rest = run.rest, run'.ok = run.ok, run'.left = run.left,
         \A dir \in Directions : /\ run'.owed[dir] \subseteq run.owed[dir]
                                 /\ run.owed[dir] \subseteq run'.owed[dir] \cup {r0},
         r0 \notin Large =>
           /\ file.id = file.mtime /\ file.mtime <= newest[r0]
           /\ \A h \in {Self, run.peer} : r0 \in DOMAIN disk'[h] /\ disk'[h][r0] = file
           /\ r0 \in Quiet /\ r0 \in DOMAIN run.linv =>
                /\ run.linv[r0].mtime <= file.mtime
                /\ r0 \in run.rest.pull => run.linv[r0].mtime < file.mtime
           /\ r0 \in Quiet /\ safe => newest[r0] = 0 \/ \E h \in Hosts : Holds(h, r0, newest[r0])'
  PROVE  HomeInv'
<1>1. /\ site \in Sites /\ run.peer \in Peers /\ h0 \in Hosts
      /\ Self \in Hosts /\ Peers \subseteq Hosts /\ Large \subseteq Paths
  BY SiteFacts DEF HomeInv, HomeTypes, Bookkeeping
<1>2. /\ disk' \in [Hosts -> Trees]
      /\ Written(h0, r0, file) /\ OnlyThere(h0, r0)
  <2>1. HomeTypes
    BY DEF HomeInv
  <2> QED
    BY <1>1, <2>1, WriteFacts
<1>3. Quiet' = Quiet /\ Hosts' = Hosts /\ Peers' = Peers /\ Paths' = Paths /\ Large' = Large
  BY SiteFixed DEF Quiet
<1>4. ASSUME NEW r, r # r0
      PROVE  /\ \A h \in Hosts : /\ Has(h, r)' <=> Has(h, r)
                                 /\ Has(h, r) => disk'[h][r] = disk[h][r] /\ Time(h, r)' = Time(h, r)
             /\ Elsewhere(r) /\ Has(Self, r) => Elsewhere(r)'
  <2>1. \A h \in Hosts : /\ Has(h, r)' <=> Has(h, r)
                         /\ Has(h, r) => disk'[h][r] = disk[h][r] /\ Time(h, r)' = Time(h, r)
    BY <1>2, <1>4 DEF OnlyThere, Untouched, Has, Time
  <2> QED
    BY <1>1, <1>3, <2>1 DEF Elsewhere
<1>5. ASSUME r0 \notin Large
      PROVE  /\ \A h \in {Self, run.peer} : Has(h, r0)' /\ Time(h, r0)' = file.mtime
                                            /\ disk'[h][r0] = file
             /\ Elsewhere(r0)'
             /\ file.mtime \in Nat /\ file.mtime <= file.mtime
  <2>1. \A h \in {Self, run.peer} : Has(h, r0)' /\ Time(h, r0)' = file.mtime /\ disk'[h][r0] = file
    BY <1>5 DEF Has, Time
  <2>2. file.mtime \in Nat
    BY <1>1, SiteFacts DEF Files, Times
  <2>3. Elsewhere(r0)'
    BY <1>1, <1>3, <2>1 DEF Elsewhere
  <2> QED
    BY <2>1, <2>2, <2>3
<1>6. HomeTypes'
  BY <1>2, SiteFixed DEF HomeInv, HomeTypes
<1>7. Stamps'
  <2>1. ASSUME NEW h \in Hosts, NEW r \in DOMAIN disk'[h] \ Large
        PROVE  disk'[h][r].id = Time(h, r)' /\ Time(h, r)' <= newest[r]
    <3>1. CASE h = h0 /\ r = r0
      BY <1>2, <2>1, <3>1 DEF Written, Time
    <3>2. CASE h # h0 \/ r # r0
      <4>1. r \in DOMAIN disk[h] /\ disk'[h][r] = disk[h][r]
        BY <1>2, <2>1, <3>2 DEF OnlyThere, Untouched
      <4> QED
        BY <2>1, <4>1 DEF HomeInv, Stamps, Time
    <3> QED
      BY <3>1, <3>2
  <2> QED
    BY <1>3, <2>1 DEF HomeInv, Stamps
<1>8. Bookkeeping'
  BY <1>3 DEF HomeInv, Bookkeeping
<1>9. Remembered'
  <2>1. DOMAIN run.linv \subseteq DOMAIN disk'[Self]
    BY <1>1, <1>2 DEF HomeInv, Bookkeeping, Remembered, OnlyThere
  <2>2. ASSUME NEW r \in Quiet
        PROVE  /\ r \in DOMAIN run.linv => run.linv[r].mtime <= Time(Self, r)'
               /\ safe /\ ~run.opts.dry_run /\ Has(Self, r)' =>
                    (r \in DOMAIN run.linv /\ run.linv[r].mtime = Time(Self, r)') \/ Elsewhere(r)'
    <3>1. CASE r = r0
      BY <1>5, <2>2, <3>1 DEF Quiet
    <3>2. CASE r # r0
      <4>1. run.known /\ (r \in DOMAIN run.linv => Has(Self, r))
        BY DEF HomeInv, Bookkeeping, Remembered, Has
      <4> QED
        BY <1>1, <1>4, <2>2, <3>2, <4>1 DEF HomeInv, Remembered
    <3> QED
      BY <3>1, <3>2
  <2> QED
    BY <1>3, <2>1, <2>2 DEF Remembered
<1>10. Planned'
  <2>1. \A dir \in Directions : run'.owed[dir] \subseteq run.rest[dir] /\ run.rest[dir] \subseteq run.plan[dir]
    BY DEF HomeInv, Planned
  <2>2. /\ run.plan.push \cap run.plan.pull = {}
        /\ run.opts.push_only => run.plan.pull = {}
        /\ run.rest.push \subseteq DOMAIN disk'[Self]
        /\ run.rest.pull \subseteq DOMAIN disk'[run.peer]
    BY <1>1, <1>2 DEF HomeInv, Planned, OnlyThere
  <2>3. ASSUME NEW r \in Quiet
        PROVE  /\ r \in run.rest.push /\ Has(run.peer, r)' => Time(run.peer, r)' <= Time(Self, r)'
               /\ r \in run.rest.pull /\ r \in DOMAIN run.linv => run.linv[r].mtime < Time(run.peer, r)'
    <3>1. CASE r = r0
      BY <1>5, <2>3, <3>1 DEF Quiet
    <3>2. CASE r # r0
      <4>1. /\ r \in run.rest.push => Has(Self, r)
            /\ r \in run.rest.pull => Has(run.peer, r)
        BY DEF HomeInv, Planned, Has
      <4> QED
        BY <1>1, <1>4, <2>3, <3>2, <4>1 DEF HomeInv, Planned
    <3> QED
      BY <3>1, <3>2
  <2> QED
    BY <1>3, <2>1, <2>2, <2>3 DEF Planned, Time, Has
<1>11. NetKept'
  <2> SUFFICES ASSUME run.opts.safetynet, NEW r \in Quiet, r \in run.plan.pull,
                      r \in DOMAIN run.linv, Has(Self, r)'
               PROVE  \/ r \in DOMAIN net /\ net[r] = disk'[Self][r].id
                      \/ r \in DOMAIN disk'[run.peer] /\ disk'[run.peer][r].id = disk'[Self][r].id
    BY <1>3 DEF NetKept, Holds
  <2>1. CASE r = r0
    BY <1>5, <2>1 DEF Quiet, Has
  <2>2. CASE r # r0
    BY <1>1, <1>4, <2>2 DEF HomeInv, NetKept, Holds, Has
  <2> QED
    BY <2>1, <2>2
<1>12. Counts' <=> Counts
  BY <1>3 DEF Counts
<1>13. Counts => Peers = {run.peer}
  BY <1>1, OnePeer DEF Counts
<1>14. PushAccount'
  <2> SUFFICES ASSUME Counts, BothWays, QuickSound, NEW p \in Peers,
                      NEW r \in DOMAIN disk'[Self] \ Large, Time(Self, r)' < run.begun
               PROVE  NewerAtPeer(p, r)' \/ r \in run'.owed.push
    BY <1>3, <1>12 DEF PushAccount, BothWays, QuickSound
  <2>1. CASE r = r0
    BY <1>5, <1>13, <2>1 DEF NewerAtPeer
  <2>2. CASE r # r0
    <3>1. Has(Self, r) /\ Time(Self, r)' = Time(Self, r)
      BY <1>1, <1>4, <2>2 DEF Has
    <3>2. NewerAtPeer(p, r) \/ r \in run.owed.push
      BY <3>1 DEF HomeInv, PushAccount, Has
    <3> QED
      BY <1>1, <1>4, <2>2, <3>1, <3>2 DEF NewerAtPeer, Directions
  <2> QED
    BY <2>1, <2>2
<1>15. PullAccount'
  <2> SUFFICES ASSUME Counts, ~run.opts.push_only, NEW p \in Peers, NEW r \in Quiet, Has(p, r)'
               PROVE  NewerHere(p, r)' \/ r \in run'.owed.pull
    BY <1>3, <1>12 DEF PullAccount
  <2>1. CASE r = r0
    BY <1>5, <1>13, <2>1 DEF NewerHere, Quiet
  <2>2. CASE r # r0
    <3>1. Has(p, r) /\ Time(p, r)' = Time(p, r)
      BY <1>1, <1>4, <2>2
    <3>2. NewerHere(p, r) \/ r \in run.owed.pull
      BY <3>1 DEF HomeInv, PullAccount
    <3> QED
      BY <1>1, <1>4, <2>2, <3>1, <3>2 DEF NewerHere, Directions
  <2> QED
    BY <2>1, <2>2
<1>16. NewestSurvives'
  <2> SUFFICES ASSUME safe, NEW r \in Quiet
               PROVE  newest[r] = 0 \/ \E h \in Hosts : Holds(h, r, newest[r])'
    BY <1>3 DEF NewestSurvives, Quiet, Holds
  <2>1. CASE r = r0
    BY <2>1 DEF Quiet
  <2>2. CASE r # r0
    <3>1. newest[r] = 0 \/ \E h \in Hosts : Holds(h, r, newest[r])
      BY DEF HomeInv, NewestSurvives, Quiet
    <3> QED
      BY <1>4, <2>2, <3>1 DEF Holds, Has
  <2> QED
    BY <2>1, <2>2
<1>17. WatermarkSound'
  <2> SUFFICES ASSUME covered, NEW r \in DOMAIN disk'[Self] \ Large,
                      Time(Self, r)' + Slack < watermark, NEW p \in Peers
               PROVE  Has(p, r)' /\ Time(p, r)' >= Time(Self, r)'
    BY <1>3 DEF WatermarkSound, Has, Time
  <2>1. CASE r = r0
    <3>1. p = run.peer
      BY <1>1, OnePeer DEF HomeInv, Bookkeeping
    <3> QED
      BY <1>5, <2>1, <3>1
  <2>2. CASE r # r0
    <3>1. Has(Self, r) /\ Time(Self, r)' = Time(Self, r)
      BY <1>1, <1>4, <2>2 DEF Has
    <3>2. Has(p, r) /\ Time(p, r) >= Time(Self, r)
      BY <3>1 DEF HomeInv, WatermarkSound, Has, Time
    <3> QED
      BY <1>1, <1>4, <2>2, <3>1, <3>2
  <2> QED
    BY <2>1, <2>2
<1> QED
  BY <1>6, <1>7, <1>8, <1>9, <1>10, <1>11, <1>14, <1>15, <1>16, <1>17 DEF HomeInv

\* The source of a planned file has it, and is another Mac than the one that gets it.
LEMMA TransferFacts ==
  ASSUME HomeInv, pc = "transfer", NEW dir \in Directions, NEW r \in run.rest[dir]
  PROVE  /\ run \in Runs /\ run.peer \in Peers /\ run.known /\ ~run.opts.dry_run
         /\ {Src(dir), Dst(dir)} \subseteq {Self, run.peer} /\ {Self, run.peer} \subseteq Hosts
         /\ \A h \in {Self, run.peer} : h = Dst(dir) \/ h = Src(dir)
         /\ Src(dir) # Dst(dir)
         /\ r \in Paths /\ r \in DOMAIN disk[Src(dir)] /\ disk[Src(dir)][r] \in Files
         /\ dir = "push" => r \notin run.rest.pull
<1>1. /\ run \in Runs /\ site \in Sites /\ run.peer \in Peers /\ run.known
      /\ ~run.opts.dry_run /\ disk \in [Hosts -> Trees]
  BY DEF HomeInv, HomeTypes, Bookkeeping
<1>2. /\ run.rest.push \subseteq DOMAIN disk[Self] /\ run.rest.pull \subseteq DOMAIN disk[run.peer]
      /\ run.plan.push \cap run.plan.pull = {}
      /\ run.rest.push \subseteq run.plan.push /\ run.rest.pull \subseteq run.plan.pull
  BY DEF HomeInv, Planned, Directions
<1>3. /\ Self \notin Peers /\ Self \in Hosts /\ Peers \subseteq Hosts
      /\ \A h \in Hosts : disk[h] \in Trees
  BY <1>1, SiteFacts
<1>4. \A h \in Hosts : \A q \in DOMAIN disk[h] : q \in Paths /\ disk[h][q] \in Files
  BY <1>3, TreeFacts
<1>5. CASE dir = "push"
  BY <1>1, <1>2, <1>3, <1>4, <1>5 DEF Src, Dst
<1>6. CASE dir = "pull"
  BY <1>1, <1>2, <1>3, <1>4, <1>6 DEF Src, Dst
<1> QED
  BY <1>5, <1>6 DEF Directions

\* What a transfer replaces is never the only copy of the newest content.
LEMMA NotTheLastCopy ==
  ASSUME HomeInv, safe, pc = "transfer", NEW dir \in Directions, NEW r \in run.rest[dir], r \in Quiet
  PROVE  newest[r] = 0 \/ \E h \in Hosts : h # Dst(dir) /\ Holds(h, r, newest[r])
<1> SUFFICES ASSUME newest[r] # 0, Holds(Dst(dir), r, newest[r])
             PROVE  \E h \in Hosts : h # Dst(dir) /\ Holds(h, r, newest[r])
  BY DEF HomeInv, NewestSurvives, Quiet
<1>1. /\ run.peer \in Peers /\ run.known /\ ~run.opts.dry_run /\ Src(dir) # Dst(dir)
      /\ Src(dir) \in Hosts /\ Dst(dir) \in Hosts /\ r \in DOMAIN disk[Src(dir)]
  BY TransferFacts
<1>2. /\ Peers \subseteq Hosts /\ Self \notin Peers
      /\ newest[r] \in Nat /\ r \notin Large /\ r \in Paths
  BY SiteFacts DEF HomeInv, HomeTypes, Quiet
<1>3. \A h \in Hosts : Has(h, r) =>
        /\ disk[h][r].id = Time(h, r) /\ Time(h, r) <= newest[r] /\ Time(h, r) \in Nat
  BY <1>2, TreeFacts, SiteFacts DEF HomeInv, HomeTypes, Stamps, Has, Time, Files, Times
<1>4. \A h \in Hosts : Has(h, r) /\ newest[r] <= Time(h, r) => Holds(h, r, newest[r])
  BY <1>2, <1>3 DEF Has, Holds
<1>5. Has(Dst(dir), r) /\ Time(Dst(dir), r) = newest[r]
  BY <1>1, <1>3 DEF Holds, Has
<1>6. CASE dir = "push"
  <2>1. Dst(dir) = run.peer /\ Src(dir) = Self /\ Has(Self, r)
    BY <1>1, <1>6 DEF Src, Dst, Has
  <2>2. Time(run.peer, r) <= Time(Self, r)
    BY <1>5, <1>6, <2>1 DEF HomeInv, Planned
  <2> QED
    BY <1>1, <1>4, <1>5, <2>1, <2>2
<1>7. CASE dir = "pull"
  <2>1. Dst(dir) = Self /\ Src(dir) = run.peer /\ Has(run.peer, r)
    BY <1>1, <1>7 DEF Src, Dst, Has
  <2>2. \/ r \in DOMAIN run.linv /\ run.linv[r].mtime = Time(Self, r)
        \/ Elsewhere(r)
    BY <1>1, <1>5, <2>1 DEF HomeInv, Remembered
  <2>3. ~(r \in DOMAIN run.linv /\ run.linv[r].mtime = Time(Self, r))
    <3> SUFFICES ASSUME r \in DOMAIN run.linv, run.linv[r].mtime = Time(Self, r) PROVE FALSE
      OBVIOUS
    <3>1. run.linv[r].mtime < Time(run.peer, r)
      BY <1>7 DEF HomeInv, Planned
    <3>2. Time(run.peer, r) <= newest[r] /\ Time(run.peer, r) \in Nat
      BY <1>1, <1>2, <1>3, <2>1
    <3> QED
      BY <1>2, <1>5, <2>1, <3>1, <3>2
  <2>4. PICK q \in Peers : Has(q, r) /\ Time(Self, r) <= Time(q, r)
    <3>1. PICK q \in Peers : Has(q, r) /\ (Time(q, r) = Time(Self, r) \/ Time(q, r) >= Time(Self, r))
      BY <2>2, <2>3 DEF Elsewhere
    <3>2. Time(q, r) \in Nat /\ Time(Self, r) \in Nat
      BY <1>2, <1>3, <1>5, <2>1, <3>1
    <3> QED
      BY <3>1, <3>2
  <2> QED
    BY <1>2, <1>4, <1>5, <2>1, <2>4
<1> QED
  BY <1>6, <1>7 DEF Directions

LEMMA ArrivesKeeps ==
  ASSUME HomeInv, Arrives
  PROVE  HomeInv'
<1>1. /\ pc = "transfer"
      /\ UNCHANGED <<site, clock, watermark, pc, net, newest, missed, covered, safe>>
  BY DEF Arrives, ghosts
<1>2. PICK dir \in Directions : \E r \in run.rest[dir] :
        /\ \E copy \in Copies(dir, r) : disk' = [disk EXCEPT ![Dst(dir)] = Put(@, r, copy)]
        /\ run' = [run EXCEPT !.owed[dir] = @ \ {r}]
  BY DEF Arrives, Directions
<1>3. PICK r \in run.rest[dir] :
        /\ \E copy \in Copies(dir, r) : disk' = [disk EXCEPT ![Dst(dir)] = Put(@, r, copy)]
        /\ run' = [run EXCEPT !.owed[dir] = @ \ {r}]
  BY <1>2
<1>4. PICK copy \in Copies(dir, r) : disk' = [disk EXCEPT ![Dst(dir)] = Put(@, r, copy)]
  BY <1>3
<1>5. /\ run \in Runs /\ run.peer \in Peers /\ run.known /\ ~run.opts.dry_run
      /\ {Src(dir), Dst(dir)} \subseteq {Self, run.peer} /\ {Self, run.peer} \subseteq Hosts
      /\ \A h \in {Self, run.peer} : h = Dst(dir) \/ h = Src(dir)
      /\ Src(dir) # Dst(dir)
      /\ r \in Paths /\ r \in DOMAIN disk[Src(dir)] /\ disk[Src(dir)][r] \in Files
      /\ dir = "push" => r \notin run.rest.pull
  BY <1>1, TransferFacts
<1>6. copy \in Files /\ (r \notin Large => copy = disk[Src(dir)][r])
  <2>1. clock \in Times
    BY DEF HomeInv, HomeTypes, Times
  <2> QED
    BY <1>5, <2>1 DEF Copies, Files
<1>7. /\ run' \in Runs /\ run'.opts = run.opts /\ run'.todo = run.todo /\ run'.peer = run.peer
      /\ run'.known = run.known /\ run'.linv = run.linv /\ run'.begun = run.begun
      /\ run'.plan = run.plan /\ run'.rest = run.rest /\ run'.ok = run.ok /\ run'.left = run.left
      /\ \A d \in Directions : /\ run'.owed[d] \subseteq run.owed[d]
                               /\ run.owed[d] \subseteq run'.owed[d] \cup {r}
  <2> DEFINE owed == [run.owed EXCEPT ![dir] = @ \ {r}]
  <2>1. run' = [run EXCEPT !.owed = owed]
    BY <1>3
  <2>2. run.owed \in Plans
    BY <1>5 DEF Runs
  <2>3. owed \in Plans
    BY <2>2 DEF Plans, Directions
  <2>4. \A d \in Directions : owed[d] \subseteq run.owed[d] /\ run.owed[d] \subseteq owed[d] \cup {r}
    BY <2>2 DEF Plans, Directions
  <2> HIDE DEF owed
  <2> QED
    BY <1>5, <2>1, <2>3, <2>4 DEF Runs
<1>8. Written(Dst(dir), r, copy) /\ OnlyThere(Dst(dir), r)
  <2>1. HomeTypes /\ Dst(dir) \in Hosts
    BY <1>5 DEF HomeInv
  <2> QED
    BY <1>4, <1>5, <1>6, <2>1, WriteFacts
<1>9. Src(dir) \in Hosts /\ Untouched(Src(dir), r)
  BY <1>5, <1>8 DEF OnlyThere
<1>10. ASSUME r \notin Large
       PROVE  /\ copy.id = copy.mtime /\ copy.mtime <= newest[r]
              /\ \A h \in {Self, run.peer} : r \in DOMAIN disk'[h] /\ disk'[h][r] = copy
  <2>1. copy.id = copy.mtime /\ copy.mtime <= newest[r]
    BY <1>5, <1>6, <1>9, <1>10 DEF HomeInv, Stamps, Time
  <2>2. /\ r \in DOMAIN disk'[Src(dir)] /\ disk'[Src(dir)][r] = copy
        /\ r \in DOMAIN disk'[Dst(dir)] /\ disk'[Dst(dir)][r] = copy
    BY <1>5, <1>6, <1>8, <1>9, <1>10 DEF Written, Untouched
  <2> QED
    BY <1>5, <2>1, <2>2
<1>11. ASSUME r \in Quiet, r \in DOMAIN run.linv
       PROVE  /\ run.linv[r].mtime <= copy.mtime
              /\ r \in run.rest.pull => run.linv[r].mtime < copy.mtime
  <2>1. r \notin Large /\ copy.mtime = Time(Src(dir), r)
    BY <1>6, <1>11 DEF Quiet, Time
  <2>2. CASE dir = "push"
    BY <1>5, <1>11, <2>1, <2>2 DEF HomeInv, Remembered, Src
  <2>3. CASE dir = "pull"
    <3>1. run.linv[r].mtime < copy.mtime
      BY <1>1, <1>11, <2>1, <2>3 DEF HomeInv, Planned, Src
    <3>2. run.linv[r].mtime \in Nat /\ copy.mtime \in Nat
      <4>1. run.linv \in Listings /\ site \in Sites
        BY <1>5 DEF HomeInv, HomeTypes, Runs
      <4> QED
        BY <1>6, <1>11, <4>1, ListingFacts, SiteFacts DEF Files, Times
    <3> QED
      BY <3>1, <3>2
  <2> QED
    BY <2>2, <2>3 DEF Directions
<1>12. ASSUME r \in Quiet, safe
       PROVE  newest[r] = 0 \/ \E h \in Hosts : Holds(h, r, newest[r])'
  <2>1. newest[r] = 0 \/ \E h \in Hosts : h # Dst(dir) /\ Holds(h, r, newest[r])
    BY <1>1, <1>12, NotTheLastCopy
  <2>2. \A h \in Hosts : h # Dst(dir) => Untouched(h, r)
    BY <1>8 DEF OnlyThere
  <2> QED
    BY <1>1, <2>1, <2>2 DEF Holds, Untouched
<1> QED
  BY <1>1, <1>4, <1>5, <1>6, <1>7, <1>10, <1>11, <1>12, WriteKeeps

LEMMA TearsKeeps ==
  ASSUME HomeInv, Tears
  PROVE  HomeInv'
<1>1. /\ pc = "transfer"
      /\ UNCHANGED <<site, clock, watermark, pc, run, net, newest, missed, covered, safe>>
  BY DEF Tears, ghosts
<1>2. PICK dir \in Directions : \E r \in run.rest[dir] \cap Large :
        disk' = [disk EXCEPT ![Dst(dir)] = Put(@, r, [id |-> 0, mtime |-> clock])]
  BY DEF Tears, Directions
<1>3. PICK r \in run.rest[dir] \cap Large :
        disk' = [disk EXCEPT ![Dst(dir)] = Put(@, r, [id |-> 0, mtime |-> clock])]
  BY <1>2
<1>4. [id |-> 0, mtime |-> clock] \in Files
  BY SiteFacts DEF HomeInv, HomeTypes, Files, Times
<1>5. run \in Runs /\ Dst(dir) \in {Self, run.peer} /\ r \in Paths
  BY <1>1, <1>3, TransferFacts
<1> QED
  BY <1>1, <1>3, <1>4, <1>5, WriteKeeps

\* An edit during a run makes its path missed, and one outside of a run finds no inventory
\* or plan that it could make wrong.
LEMMA EditKeeps ==
  ASSUME HomeInv, NEW h0 \in Hosts, NEW r0 \in Paths, Edit(h0, r0)
  PROVE  HomeInv'
<1> DEFINE file == [id |-> clock, mtime |-> clock]
<1>1. /\ clock <= Until /\ clock' = clock + 1
      /\ disk' = [disk EXCEPT ![h0] = Put(@, r0, file)]
      /\ newest' = [newest EXCEPT ![r0] = clock]
      /\ missed' = IF pc = "idle" THEN missed \ {r0} ELSE missed \cup {r0}
      /\ UNCHANGED <<site, watermark, pc, run, net, covered, safe>>
  BY DEF Edit
<1>2. /\ HomeTypes /\ site \in Sites /\ run \in Runs
      /\ clock \in Nat /\ run.begun \in Nat /\ watermark \in Nat /\ Until \in Nat /\ Slack \in Nat
      /\ clock \in 1..Until /\ newest \in [Paths -> 0..Until] /\ missed \subseteq Paths
      /\ Self \in Hosts /\ Peers \subseteq Hosts /\ Self \notin Peers
      /\ run.begun <= clock /\ watermark <= clock
  BY <1>1, SiteFacts, SyncHomeAssumption DEF HomeInv, HomeTypes, Runs, Bookkeeping
<1>3. file \in Files
  BY <1>2 DEF Files, Times
<1>4. disk' \in [Hosts -> Trees] /\ Written(h0, r0, file) /\ OnlyThere(h0, r0)
  BY <1>1, <1>2, <1>3, WriteFacts
<1>5. Has(h0, r0)' /\ Time(h0, r0)' = clock /\ disk'[h0][r0].id = clock
  BY <1>4 DEF Written, Has, Time
<1> HIDE DEF file
<1>6. /\ Hosts' = Hosts /\ Peers' = Peers /\ Paths' = Paths /\ Large' = Large /\ Until' = Until
      /\ pc # "idle" => Quiet' = Quiet \ {r0}
      /\ pc = "idle" => Quiet' \subseteq Quiet \cup {r0}
  BY <1>1, SiteFixed DEF Quiet
<1>7. ASSUME NEW h \in Hosts, NEW r, h # h0 \/ r # r0
      PROVE  /\ Has(h, r)' <=> Has(h, r)
             /\ Has(h, r) => disk'[h][r] = disk[h][r] /\ Time(h, r)' = Time(h, r)
  BY <1>4, <1>7 DEF OnlyThere, Untouched, Has, Time
<1>8. ASSUME NEW r, r # r0 PROVE Elsewhere(r) /\ Has(Self, r) => Elsewhere(r)'
  BY <1>1, <1>2, <1>6, <1>7, <1>8 DEF Elsewhere
<1>9. /\ \A r \in Paths : newest[r] < clock /\ newest[r] \in Nat
      /\ \A r \in Paths : r # r0 => newest'[r] = newest[r]
      /\ newest'[r0] = clock
  BY <1>1, <1>2 DEF HomeInv, Stamps
<1>10. \A h \in Hosts : \A r \in DOMAIN disk[h] :
         r \in Paths /\ Time(h, r) \in Nat /\ (r \notin Large => Time(h, r) < clock)
  <2>1. \A h \in Hosts : \A r \in DOMAIN disk[h] : r \in Paths /\ Time(h, r) \in Nat
    BY <1>2, TreeFacts DEF HomeTypes, Time, Files, Times
  <2>2. \A h \in Hosts : \A r \in DOMAIN disk[h] \ Large : Time(h, r) <= newest[r]
    BY DEF HomeInv, Stamps
  <2> QED
    BY <1>2, <1>9, <2>1, <2>2
<1>11. HomeTypes'
  <2>1. clock' \in 1..Until + 1 /\ newest' \in [Paths -> 0..Until] /\ missed' \subseteq Paths
    BY <1>1, <1>2
  <2> QED
    BY <1>1, <1>4, <2>1, SiteFixed DEF HomeInv, HomeTypes
<1>12. Stamps'
  <2>1. \A r \in Paths : newest'[r] < clock'
    BY <1>1, <1>2, <1>9
  <2>2. ASSUME NEW h \in Hosts, NEW r \in DOMAIN disk'[h] \ Large
        PROVE  disk'[h][r].id = Time(h, r)' /\ Time(h, r)' <= newest'[r]
    <3>1. CASE h = h0 /\ r = r0
      BY <1>2, <1>5, <1>9, <3>1
    <3>2. CASE h # h0 \/ r # r0
      <4>1. r \in DOMAIN disk[h] /\ disk'[h][r] = disk[h][r] /\ Time(h, r)' = Time(h, r)
        BY <1>7, <2>2, <3>2 DEF Has
      <4>2. disk[h][r].id = Time(h, r) /\ Time(h, r) <= newest[r]
        BY <2>2, <4>1 DEF HomeInv, Stamps
      <4>3. newest[r] <= newest'[r]
        BY <1>2, <1>9, <1>10, <4>1
      <4>4. Time(h, r) \in Nat /\ newest[r] \in Nat /\ newest'[r] \in Nat
        BY <1>2, <1>9, <1>10, <4>1
      <4> QED
        BY <4>1, <4>2, <4>3, <4>4
    <3> QED
      BY <3>1, <3>2
  <2> QED
    BY <1>6, <2>1, <2>2 DEF Stamps
<1>13. Bookkeeping'
  <2>1. run'.begun <= clock' /\ watermark' <= clock'
    BY <1>1, <1>2
  <2> QED
    BY <1>1, <1>6, <2>1 DEF HomeInv, Bookkeeping
<1>14. Remembered'
  <2> SUFFICES ASSUME run.known PROVE Remembered'
    BY <1>1 DEF Remembered
  <2>1. Quiet' = Quiet \ {r0}
    BY <1>6 DEF HomeInv, Bookkeeping
  <2>2. DOMAIN run.linv \subseteq DOMAIN disk[Self] /\ DOMAIN disk[Self] \subseteq DOMAIN disk'[Self]
    BY <1>2, <1>4 DEF HomeInv, Remembered, OnlyThere
  <2>3. ASSUME NEW r \in Quiet \ {r0}
        PROVE  /\ r \in DOMAIN run.linv => run.linv[r].mtime <= Time(Self, r)'
               /\ safe /\ ~run.opts.dry_run /\ Has(Self, r)' =>
                    (r \in DOMAIN run.linv /\ run.linv[r].mtime = Time(Self, r)') \/ Elsewhere(r)'
    BY <1>2, <1>7, <1>8, <2>2, <2>3 DEF HomeInv, Remembered, Has
  <2> QED
    BY <1>1, <2>1, <2>2, <2>3 DEF Remembered
<1>15. Planned'
  <2> SUFFICES ASSUME pc \in {"backup", "transfer"} PROVE Planned'
    BY <1>1 DEF Planned
  <2>1. Quiet' = Quiet \ {r0} /\ run.peer \in Hosts
    BY <1>2, <1>6 DEF HomeInv, Bookkeeping
  <2>2. run.rest.push \subseteq DOMAIN disk[Self] /\ run.rest.pull \subseteq DOMAIN disk[run.peer]
    BY DEF HomeInv, Planned
  <2>3. run.rest.push \subseteq DOMAIN disk'[Self] /\ run.rest.pull \subseteq DOMAIN disk'[run.peer]
    BY <1>2, <1>4, <2>1, <2>2 DEF OnlyThere
  <2>4. ASSUME NEW r \in Quiet \ {r0}
        PROVE  /\ r \in run.rest.push /\ Has(run.peer, r)' => Time(run.peer, r)' <= Time(Self, r)'
               /\ r \in run.rest.pull /\ r \in DOMAIN run.linv => run.linv[r].mtime < Time(run.peer, r)'
    <3>1. /\ r \in run.rest.push => Has(Self, r)
          /\ r \in run.rest.pull => Has(run.peer, r)
      BY <2>2 DEF Has
    <3>2. /\ r \in run.rest.push /\ Has(run.peer, r) => Time(run.peer, r) <= Time(Self, r)
          /\ r \in run.rest.pull /\ r \in DOMAIN run.linv => run.linv[r].mtime < Time(run.peer, r)
      BY <2>4 DEF HomeInv, Planned
    <3>3. \A h \in {Self, run.peer} :
            (Has(h, r)' <=> Has(h, r)) /\ (Has(h, r) => Time(h, r)' = Time(h, r))
      BY <1>2, <1>7, <2>1, <2>4
    <3> QED
      BY <1>1, <3>1, <3>2, <3>3 DEF Has, Time
  <2> QED
    BY <1>1, <2>1, <2>3, <2>4 DEF HomeInv, Planned
<1>16. NetKept'
  <2> SUFFICES ASSUME pc = "transfer", run.opts.safetynet, NEW r \in Quiet \ {r0},
                      r \in run.plan.pull, r \in DOMAIN run.linv, Has(Self, r)'
               PROVE  \/ r \in DOMAIN net /\ net[r] = disk'[Self][r].id
                      \/ r \in DOMAIN disk'[run.peer] /\ disk'[run.peer][r].id = disk'[Self][r].id
    BY <1>1, <1>6 DEF NetKept, Holds
  <2>1. Has(Self, r) /\ disk'[Self][r] = disk[Self][r] /\ run.peer \in Hosts
    BY <1>2, <1>7 DEF HomeInv, Bookkeeping
  <2> QED
    BY <1>7, <2>1 DEF HomeInv, NetKept, Holds, Has
<1>17. Counts' <=> Counts
  BY <1>1, <1>6 DEF Counts
<1>18. PushAccount'
  <2> SUFFICES ASSUME Counts, BothWays, QuickSound, NEW p \in Peers,
                      NEW r \in DOMAIN disk'[Self] \ Large, Time(Self, r)' < run.begun
               PROVE  /\ pc = "remote" =>
                           \/ NewerAtPeer(p, r)'
                           \/ r \in DOMAIN run.linv /\ run.linv[r].mtime = Time(Self, r)'
                      /\ pc \in {"backup", "transfer"} => NewerAtPeer(p, r)' \/ r \in run.owed.push
                      /\ pc = "peer" /\ run.todo = {} => NewerAtPeer(p, r)'
    BY <1>1, <1>6, <1>17 DEF PushAccount, BothWays, QuickSound
  <2>1. ~(h0 = Self /\ r = r0)
    BY <1>2, <1>5
  <2>2. Has(Self, r) /\ Time(Self, r)' = Time(Self, r)
    BY <1>2, <1>7, <2>1 DEF Has
  <2>3. /\ pc = "remote" =>
             NewerAtPeer(p, r) \/ (r \in DOMAIN run.linv /\ run.linv[r].mtime = Time(Self, r))
        /\ pc \in {"backup", "transfer"} => NewerAtPeer(p, r) \/ r \in run.owed.push
        /\ pc = "peer" /\ run.todo = {} => NewerAtPeer(p, r)
    BY <2>2 DEF HomeInv, PushAccount, Has
  <2>4. CASE h0 = p /\ r = r0
    <3>1. Time(Self, r) < clock /\ Time(Self, r) \in Nat
      BY <1>2, <1>10, <2>2 DEF Has
    <3>2. NewerAtPeer(p, r)'
      BY <1>2, <1>5, <2>2, <2>4, <3>1 DEF NewerAtPeer
    <3> QED
      BY <3>2
  <2>5. CASE h0 # p \/ r # r0
    <3>1. NewerAtPeer(p, r) => NewerAtPeer(p, r)'
      BY <1>2, <1>7, <2>2, <2>5 DEF NewerAtPeer
    <3> QED
      BY <2>2, <2>3, <3>1
  <2> QED
    BY <2>4, <2>5
<1>19. PullAccount'
  <2> SUFFICES ASSUME Counts, ~run.opts.push_only, NEW p \in Peers, NEW r \in Quiet \ {r0},
                      Has(p, r)', pc # "idle"
               PROVE  /\ pc \in {"backup", "transfer"} => NewerHere(p, r)' \/ r \in run.owed.pull
                      /\ pc = "peer" /\ run.todo = {} => NewerHere(p, r)'
    BY <1>1, <1>6, <1>17 DEF PullAccount
  <2>1. Has(p, r) /\ Time(p, r)' = Time(p, r)
    BY <1>2, <1>7
  <2>2. NewerHere(p, r) => NewerHere(p, r)'
    BY <1>2, <1>7, <2>1 DEF NewerHere
  <2> QED
    BY <2>1, <2>2 DEF HomeInv, PullAccount
<1>20. NewestSurvives'
  <2> SUFFICES ASSUME safe, NEW r \in Quiet'
               PROVE  \/ newest'[r] = 0
                      \/ \E h \in Hosts : r \in DOMAIN disk'[h] /\ disk'[h][r].id = newest'[r]
    BY <1>1, <1>6 DEF NewestSurvives, Quiet, Holds
  <2>1. CASE r = r0
    BY <1>5, <1>9, <2>1 DEF Has
  <2>2. CASE r # r0
    <3>1. r \in Quiet /\ newest'[r] = newest[r]
      BY <1>6, <1>9, <2>2 DEF Quiet
    <3>2. newest[r] = 0 \/ \E h \in Hosts : Holds(h, r, newest[r])
      BY <3>1 DEF HomeInv, NewestSurvives, Quiet
    <3> QED
      BY <1>7, <2>2, <3>1, <3>2 DEF Holds, Has
  <2> QED
    BY <2>1, <2>2
<1>21. WatermarkSound'
  <2> SUFFICES ASSUME covered, NEW r \in DOMAIN disk'[Self] \ Large,
                      Time(Self, r)' + Slack < watermark, NEW p \in Peers
               PROVE  Has(p, r)' /\ Time(p, r)' >= Time(Self, r)'
    BY <1>1, <1>6 DEF WatermarkSound, Has, Time
  <2>1. ~(h0 = Self /\ r = r0)
    BY <1>2, <1>5
  <2>2. Has(Self, r) /\ Time(Self, r)' = Time(Self, r) /\ Time(Self, r) < clock /\ Time(Self, r) \in Nat
    BY <1>2, <1>7, <1>10, <2>1 DEF Has
  <2>3. CASE h0 = p /\ r = r0
    BY <1>2, <1>5, <2>2, <2>3
  <2>4. CASE h0 # p \/ r # r0
    <3>1. Has(p, r) /\ Time(p, r) >= Time(Self, r)
      BY <2>2 DEF HomeInv, WatermarkSound, Has, Time
    <3> QED
      BY <1>2, <1>7, <2>2, <2>4, <3>1
  <2> QED
    BY <2>3, <2>4
<1> QED
  BY <1>11, <1>12, <1>13, <1>14, <1>15, <1>16, <1>18, <1>19, <1>20, <1>21 DEF HomeInv

-----------------------------------------------------------------------------
LEMMA HomeStutters ==
  ASSUME HomeInv, UNCHANGED vars
  PROVE  HomeInv'
<1>1. UNCHANGED <<site, disk, clock, watermark, pc, run, net, newest, missed, covered, safe>>
  BY DEF vars, ghosts
<1>2. HomeTypes'
  BY <1>1, SiteFixed DEF HomeInv, HomeTypes
<1>3. Stamps' /\ NewestSurvives' /\ WatermarkSound'
  BY <1>1, DiskIdle, MarkIdle DEF HomeInv
<1>4. Bookkeeping' /\ Remembered'
  BY <1>1, RememberedIdle, SiteFixed DEF HomeInv, Bookkeeping
<1>5. Planned' /\ NetKept'
  BY <1>1, SiteFixed DEF HomeInv, Planned, NetKept, Quiet, Has, Time, Holds
<1>6. PushAccount' /\ PullAccount'
  BY <1>1, SiteFixed DEF HomeInv, PushAccount, PullAccount, Counts, BothWays, QuickSound,
       NewerAtPeer, NewerHere, Quiet, Has, Time
<1> QED
  BY <1>2, <1>3, <1>4, <1>5, <1>6 DEF HomeInv

LEMMA HomeStep == HomeInv /\ [Next]_vars => HomeInv'
<1> SUFFICES ASSUME HomeInv, [Next]_vars PROVE HomeInv'
  OBVIOUS
<1>1. ASSUME NEW h \in Hosts, NEW r \in Paths, Edit(h, r) PROVE HomeInv'
  BY <1>1, EditKeeps
<1> QED
  BY <1>1, CrashKeeps, StartRunKeeps, PeerFailsKeeps, TickKeeps, PeerAnswersKeeps, LocalWalkKeeps,
     RemoteWalkKeeps, BackupKeeps, DowngradeKeeps, PeerDoneKeeps, FinishRunKeeps, ArrivesKeeps,
     TearsKeeps, LeavesOutKeeps, HomeStutters DEF Next, UserEdits

LEMMA HomeAlways == Spec => []HomeInv
BY HomeStarts, HomeStep, PTL DEF Spec

-----------------------------------------------------------------------------
(* The theorems.                                                           *)

(* Whatever is edited, started, refused, torn or killed, trees, runs and   *)
(* plans keep their types.                                                 *)
THEOREM HomeTypeOK == Spec => []TypeOK
<1>1. HomeInv => TypeOK
  <2> SUFFICES ASSUME HomeTypes PROVE TypeOK
    BY DEF HomeInv
  <2>1. \A h \in Hosts : DOMAIN disk[h] \subseteq Paths
                         /\ \A r \in DOMAIN disk[h] : disk[h][r] \in Files
    BY TreeFacts DEF HomeTypes
  <2>2. DOMAIN run.linv \subseteq Paths /\ DOMAIN run.rinv \subseteq Paths
    BY ListingFacts DEF HomeTypes, Runs
  <2>3. {run.plan, run.rest, run.owed} \subseteq Plans
    BY DEF HomeTypes, Runs
  <2>4. run.known \in BOOLEAN /\ run.ok \in BOOLEAN /\ run.left \in BOOLEAN
    BY DEF HomeTypes, Runs
  <2>5. run.opts \in Options /\ run.todo \subseteq Peers /\ run.peer \in Hosts
    BY DEF HomeTypes, Runs
  <2>6. \A p \in {run.plan, run.rest, run.owed} : p \in [push : SUBSET Paths, pull : SUBSET Paths]
    BY <2>3 DEF Plans
  <2>7. {run.known, run.ok, run.left, covered, safe} \subseteq BOOLEAN
    BY <2>4 DEF HomeTypes
  <2> QED
    BY <2>1, <2>2, <2>5, <2>6, <2>7 DEF HomeTypes, TypeOK
<1> QED
  BY <1>1, HomeAlways, PTL

(* What a user wrote last to a path, while no run was active, is on some   *)
(* Mac for as long as no walk passes the path over with the flag down -    *)
(* unless a run was allowed a partial walk or was quick on a watermark that*)
(* says too much.                                                          *)
THEOREM HomeNewestSurvives == Spec => []NewestSurvives
<1>1. HomeInv => NewestSurvives
  BY DEF HomeInv
<1> QED
  BY <1>1, HomeAlways, PTL

(* The watermark of a run in which walks, limits and transfer left nothing *)
(* behind, said or unsaid, and that took no longer than the slack is sound:*)
(* what --quick then leaves out is on the peer.                            *)
THEOREM HomeWatermarkSound == Spec => []WatermarkSound
<1>1. HomeInv => WatermarkSound
  BY DEF HomeInv
<1> QED
  BY <1>1, HomeAlways, PTL

(* With --safetynet and without --quick, what a pull replaces on this Mac  *)
(* is in the SafetyNet directory or on a peer, unless a walk passed it     *)
(* over with the flag down or it was written during the run.               *)
THEOREM HomeOverwriteCovered == Spec => OverwriteCovered
<1> DEFINE Kept(r) == \/ r \in DOMAIN net /\ net[r] = disk[Self][r].id
                      \/ \E p \in Peers : Holds(p, r, disk[Self][r].id)
           Covers == pc = "transfer" /\ run.opts.safetynet /\ ~run.opts.quick /\ safe =>
                       \A r \in DOMAIN disk[Self] \ (missed' \cup Large) :
                         disk'[Self][r].id # disk[Self][r].id =>
                           \/ r \in DOMAIN net /\ net[r] = disk[Self][r].id
                           \/ \E p \in Peers : Holds(p, r, disk[Self][r].id)
<1>1. ASSUME HomeInv, pc = "transfer", run.opts.safetynet, ~run.opts.quick, safe,
             NEW r \in run.rest.pull, r \in Quiet, Has(Self, r)
      PROVE  Kept(r)
  <2>1. CASE r \in DOMAIN run.linv
    <3>1. r \in run.plan.pull
      BY <1>1 DEF HomeInv, Planned, Directions
    <3>2. run.peer \in Peers
      BY <1>1 DEF HomeInv, Bookkeeping
    <3> QED
      BY <1>1, <2>1, <3>1, <3>2 DEF HomeInv, NetKept
  <2>2. CASE r \notin DOMAIN run.linv
    <3>1. Elsewhere(r)
      BY <1>1, <2>2 DEF HomeInv, Bookkeeping, Remembered
    <3>2. PICK q \in Peers : Has(q, r) /\ Time(q, r) = Time(Self, r)
      BY <1>1, <3>1 DEF Elsewhere
    <3>3. disk[Self][r].id = Time(Self, r) /\ disk[q][r].id = Time(q, r)
      BY <1>1, <3>2, SiteFacts DEF HomeInv, HomeTypes, Stamps, Quiet, Has
    <3> QED
      BY <3>2, <3>3 DEF Holds, Has
  <2> QED
    BY <2>1, <2>2
<1>2. ASSUME HomeInv, [Next]_vars, pc = "transfer", run.opts.safetynet, ~run.opts.quick, safe,
             NEW r \in DOMAIN disk[Self] \ (missed' \cup Large),
             disk'[Self][r].id # disk[Self][r].id
      PROVE  r \in run.rest.pull /\ r \in Quiet
  <2>1. r \in Paths /\ HomeTypes /\ Self \in Hosts
    BY <1>2, TreeFacts, SiteFacts DEF HomeInv, HomeTypes
  <2>2. ASSUME NEW h \in Hosts, NEW q \in Paths, Edit(h, q) PROVE FALSE
    <3>1. missed' = missed \cup {q} /\ clock \in 1..Until
      BY <1>2, <2>1, <2>2, SiteFacts DEF Edit, HomeTypes
    <3>2. [id |-> clock, mtime |-> clock] \in Files
      BY <3>1, <2>1, SiteFacts DEF HomeTypes, Files, Times
    <3>3. OnlyThere(h, q)
      BY <2>1, <2>2, <3>2, WriteFacts DEF Edit
    <3> QED
      BY <1>2, <2>1, <3>1, <3>3 DEF OnlyThere, Untouched
  <2>3. CASE Arrives \/ Tears
    <3>1. missed' = missed /\ \E dir \in Directions : \E q \in run.rest[dir] : \E file :
            disk' = [disk EXCEPT ![Dst(dir)] = Put(@, q, file)]
      BY <2>3 DEF Arrives, Tears, Directions, ghosts
    <3>2. PICK dir \in Directions : \E q \in run.rest[dir] : \E file :
            disk' = [disk EXCEPT ![Dst(dir)] = Put(@, q, file)]
      BY <3>1
    <3>3. PICK q \in run.rest[dir] : \E file :
            disk' = [disk EXCEPT ![Dst(dir)] = Put(@, q, file)]
      BY <3>2
    <3>4. PICK file : disk' = [disk EXCEPT ![Dst(dir)] = Put(@, q, file)]
      BY <3>3
    <3>5. /\ disk \in [Hosts -> Trees] /\ Self \in Hosts /\ run.peer \in Peers /\ Self \notin Peers
      BY <1>2, <2>1, SiteFacts DEF HomeInv, HomeTypes, Bookkeeping
    <3>6. q = r /\ Dst(dir) = Self
      BY <1>2, <3>4, <3>5 DEF Put
    <3> QED
      BY <1>2, <2>1, <3>1, <3>4, <3>5, <3>6 DEF Directions, Dst, Quiet
  <2>4. CASE UNCHANGED disk
    BY <1>2, <2>4
  <2> QED
    BY <1>2, <2>2, <2>3, <2>4 DEF Next, UserEdits, Tick, Crash, StartRun, PeerFails, PeerAnswers,
       LocalWalk, RemoteWalk, PeerGivenUp, Backup, LeavesOut, Downgrade, PeerDone, FinishRun, vars
<1>3. HomeInv /\ [Next]_vars => [Covers]_vars
  BY <1>1, <1>2 DEF Has
<1> QED
  BY <1>3, HomeAlways, PTL DEF Spec, OverwriteCovered

(* With one peer, a run that ends well, pulled and left nothing behind,    *)
(* said or unsaid, ends with the newest content of every path on this Mac. *)
THEOREM HomeRunEndsNewest == Spec => RunEndsNewest
<1>1. ASSUME HomeInv, FinishRun, Cardinality(Peers) = 1, Succeeded, safe, ~run.left,
             ~run.opts.push_only, run.opts.peers = Peers, NEW r \in Quiet, newest[r] # 0
      PROVE  Holds(Self, r, newest[r])
  <2>1. Counts /\ pc = "peer" /\ run.todo = {}
    BY <1>1 DEF Counts, Succeeded, FinishRun
  <2>2. PICK h \in Hosts : Holds(h, r, newest[r])
    BY <1>1 DEF HomeInv, NewestSurvives, Quiet
  <2>3. CASE h = Self
    BY <2>2, <2>3
  <2>4. CASE h \in Peers
    <3>1. NewerHere(h, r)
      BY <1>1, <2>1, <2>2, <2>4 DEF HomeInv, PullAccount, Holds, Has
    <3>2. /\ Self \in Hosts /\ r \notin Large /\ r \in Paths /\ newest[r] \in Nat
          /\ disk[Self][r].id = Time(Self, r) /\ Time(Self, r) <= newest[r]
          /\ disk[h][r].id = Time(h, r) /\ Time(Self, r) \in Nat
      BY <1>1, <2>2, <3>1, TreeFacts, SiteFacts
         DEF HomeInv, HomeTypes, Stamps, Quiet, NewerHere, Has, Holds, Time, Files, Times
    <3>3. Time(h, r) <= Time(Self, r) /\ Time(h, r) = newest[r]
      BY <2>2, <3>1, <3>2 DEF NewerHere, Holds
    <3>4. Time(Self, r) = newest[r]
      BY <3>2, <3>3
    <3> QED
      BY <3>1, <3>2, <3>4 DEF NewerHere, Holds, Has
  <2> QED
    BY <2>3, <2>4 DEF Hosts
<1>2. ASSUME HomeInv, [Next]_vars, pc = "peer", pc' = "idle", watermark' # watermark
      PROVE  FinishRun /\ Succeeded
  <2>1. \A h \in Hosts, q \in Paths : ~Edit(h, q)
    BY <1>2 DEF Edit
  <2> QED
    BY <1>2, <2>1 DEF Next, UserEdits, Tick, Crash, StartRun, PeerFails, PeerAnswers, LocalWalk,
       RemoteWalk, PeerGivenUp, Backup, Arrives, Tears, LeavesOut, Downgrade, PeerDone, FinishRun, vars
<1>3. HomeInv /\ [Next]_vars => [Cardinality(Peers) = 1 => EndsNewest]_vars
  BY <1>1, <1>2 DEF EndsNewest, Quiet
<1> QED
  BY <1>3, HomeAlways, PTL DEF Spec, RunEndsNewest
=============================================================================
