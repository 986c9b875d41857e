------------------------------ MODULE SyncHome ------------------------------
(***************************************************************************)
(* sync_home (services/sync_service.py): one Mac syncs its home with its   *)
(* peers, one after the other, while the users of all of them go on        *)
(* editing.  A run walks the local home once, then for every peer walks    *)
(* the remote home, plans, backs up what a pull will replace, transfers    *)
(* and verifies; a run that ends well moves the watermark of --quick.      *)
(*                                                                         *)
(* A walk lists any part of a home, and its flag tells of what it left out *)
(* or does not.  The transfer stage is what PeerTransfer says of it:       *)
(* planned files arrive one by one, in any order, and rc 0 means that none *)
(* is left, except those the ladder left out without a word.               *)
(* The policy is "newer", the default; SyncRounds has the others.          *)
(***************************************************************************)
EXTENDS SyncPlan

CONSTANTS
  Sites,        \* the clusters considered, each with its homes and its command lines
  Slack         \* SYNC_QUICK_SLACK_S, in ticks of the clock

VARIABLE
  site          \* the cluster at hand; it never changes

Peers == site.peers       \* the other Macs, numbered in the order of cluster.toml
Paths == site.paths
Large == site.large       \* files of at least 3 GiB: scp'd in place, stamped on arrival
Options == site.options   \* the command lines used
Until == site.until       \* bound: the last tick at which a user edits

Self == 0
Hosts == {Self} \cup Peers

OptionSpace(peers) ==
  [quick : BOOLEAN, push_only : BOOLEAN, pull_only : BOOLEAN, dry_run : BOOLEAN,
   safetynet : BOOLEAN, verify : BOOLEAN, allow_partial : BOOLEAN,
   max_files : Nat \cup {NoLimit}, peers : (SUBSET peers) \ {{}}]

ASSUME SyncHomeAssumption ==
  /\ Slack \in Nat
  /\ \A s \in Sites :
       /\ s.peers \subseteq Nat \ {0} /\ IsFiniteSet(s.peers)
       /\ s.paths \subseteq Nat /\ IsFiniteSet(s.paths)
       /\ s.large \subseteq s.paths /\ s.until \in Nat \ {0, 1}
       /\ s.options \subseteq OptionSpace(s.peers) /\ s.options # {}

VARIABLES
  disk,       \* disk[host][path] = [id, mtime]; the id names the content, 0 is a torn copy
  clock,
  watermark,  \* last_success_mtime_ns of the sync state file; 0: none
  pc,         \* "idle", "peer", "local", "remote", "backup" or "transfer"
  run,        \* the run in progress
  net,        \* the run's SafetyNet directory: the id it holds for a path
  newest,     \* ghost: the last content a user wrote to a path, on any host
  missed,     \* ghost: paths whose newest content a run could not know of: written while it
              \* was active, or passed over by a walk whose flag did not tell
  covered,    \* ghost: the watermark was set by a run that left nothing behind
  safe        \* ghost: no run was quick on an uncovered watermark or was allowed a partial walk

ghosts == <<newest, missed, covered, safe>>
vars == <<site, disk, clock, watermark, pc, run, net, ghosts>>

Times == 1..Until + 1
Files == [id : 0..Until, mtime : Times]
NoFiles == [r \in {} |-> 0]
NoPlan == [push |-> {}, pull |-> {}]

\* What a walk tells of some files of a tree; sizes play no part here.
Stat(tree, rels) ==
  [r \in rels \cap DOMAIN tree |-> [mtime |-> tree[r].mtime, size |-> 1]]

NewRun(o, now) ==
  [opts |-> o, todo |-> o.peers, peer |-> Self,
   known |-> FALSE, linv |-> NoFiles,      \* local_inv, once it has been taken
   rinv |-> NoFiles,
   plan |-> NoPlan,                        \* the plan of this peer
   rest |-> NoPlan, owed |-> NoPlan,       \* what the ladder's last re-plan left, what has not arrived
   ok |-> TRUE, begun |-> now,
   left |-> FALSE]                         \* ghost: something was left behind, said or unsaid

NoRun == NewRun(CHOOSE o \in Options : TRUE, 0)

TypeOK ==
  /\ site \in Sites
  /\ DOMAIN disk = Hosts
  /\ \A h \in Hosts : DOMAIN disk[h] \subseteq Paths
                      /\ \A r \in DOMAIN disk[h] : disk[h][r] \in Files
  /\ clock \in 1..Until + 1 /\ watermark \in 0..Until + 1
  /\ pc \in {"idle", "peer", "local", "remote", "backup", "transfer"}
  /\ run.opts \in Options /\ run.todo \subseteq Peers /\ run.peer \in Hosts
  /\ DOMAIN run.linv \subseteq Paths /\ DOMAIN run.rinv \subseteq Paths
  /\ \A p \in {run.plan, run.rest, run.owed} : p \in [push : SUBSET Paths, pull : SUBSET Paths]
  /\ {run.known, run.ok, run.left, covered, safe} \subseteq BOOLEAN
  /\ DOMAIN net \subseteq Paths /\ \A r \in DOMAIN net : net[r] \in 0..Until
  /\ newest \in [Paths -> 0..Until] /\ missed \subseteq Paths

\* Contents 1 and 2 are what the users left, at ticks 1 and 2.
Init ==
  /\ site \in Sites
  /\ disk \in [Hosts -> UNION {[D -> {[id |-> t, mtime |-> t] : t \in {1, 2}}] :
                                 D \in SUBSET Paths}]
  /\ clock = 3 /\ watermark = 0
  /\ pc = "idle"
  /\ run = NoRun
  /\ net = NoFiles
  /\ newest = [r \in Paths |->
       IF \E h \in Hosts : r \in DOMAIN disk[h] /\ disk[h][r].id = 2 THEN 2
       ELSE IF \E h \in Hosts : r \in DOMAIN disk[h] THEN 1 ELSE 0]
  /\ missed = {} /\ covered = FALSE /\ safe = TRUE

-----------------------------------------------------------------------------
(* The world around a run.                                                 *)

Put(tree, r, file) == [q \in DOMAIN tree \cup {r} |-> IF q = r THEN file ELSE tree[q]]

Edit(h, r) ==
  /\ clock <= Until
  /\ disk' = [disk EXCEPT ![h] = Put(@, r, [id |-> clock, mtime |-> clock])]
  /\ clock' = clock + 1
  /\ newest' = [newest EXCEPT ![r] = clock]
  /\ missed' = IF pc = "idle" THEN missed \ {r} ELSE missed \cup {r}
  /\ UNCHANGED <<site, watermark, pc, run, net, covered, safe>>

UserEdits == \E h \in Hosts, r \in Paths : Edit(h, r)

(* A run takes time.                                                       *)
Tick ==
  /\ pc # "idle" /\ clock <= Until
  /\ clock' = clock + 1
  /\ UNCHANGED <<site, disk, watermark, pc, run, net, ghosts>>

(* The run ends without a result: the process is killed, or a CliError     *)
(* leaves sync_home.  Peers still to come are not visited.                 *)
Crash ==
  /\ pc # "idle"
  /\ pc' = "idle" /\ run' = NoRun
  /\ UNCHANGED <<site, disk, clock, watermark, net, ghosts>>

-----------------------------------------------------------------------------
(* A run, peer by peer.                                                    *)

StartRun ==
  /\ pc = "idle"
  /\ \E o \in Options :
       /\ ~(o.push_only /\ o.pull_only)
       /\ run' = NewRun(o, clock)
       /\ safe' = (safe /\ (o.quick /\ watermark > 0 => covered))
  /\ pc' = "peer" /\ net' = NoFiles
  /\ UNCHANGED <<site, disk, clock, watermark, newest, missed, covered>>

NextPeer(p) == p \in run.todo /\ \A q \in run.todo : p <= q

(* ssh fails, or the peer is short of space, before anything is planned.   *)
PeerFails ==
  /\ pc = "peer"
  /\ \E p \in run.todo :
       NextPeer(p) /\ run' = [run EXCEPT !.todo = @ \ {p}, !.ok = FALSE]
  /\ UNCHANGED <<site, disk, clock, watermark, pc, net, ghosts>>

PeerAnswers ==
  /\ pc = "peer"
  /\ \E p \in run.todo :
       NextPeer(p) /\ run' = [run EXCEPT !.todo = @ \ {p}, !.peer = p]
  /\ pc' = IF run.known THEN "remote" ELSE "local"
  /\ UNCHANGED <<site, disk, clock, watermark, net, ghosts>>

\* Seeded fault: a partial walk is planned from whatever the options say.
Refused_Never(partial) == FALSE

\* guard_partial_inventory
Refused(partial) == partial /\ ~run.opts.dry_run /\ ~run.opts.allow_partial

\* --quick: of the local files, those not older than the watermark less the slack.
Recent(inv) ==
  IF run.opts.quick /\ watermark > 0
    THEN [r \in {q \in DOMAIN inv : inv[q].mtime + Slack >= watermark} |-> inv[r]]
    ELSE inv

(* One walk of the local home serves all peers of the run.  Its budget, or *)
(* a lister that failed, makes it partial, and a refusal then ends the run.*)
(* A directory it may not read, a stub of iCloud or a dot directory of     *)
(* sync dev is passed over with the flag down (sync_inventory.py:46-49,    *)
(* 219, 240, 288).                                                         *)
LocalWalk ==
  /\ pc = "local"
  /\ \E seen \in SUBSET DOMAIN disk[Self], partial \in BOOLEAN :
       LET unlisted == DOMAIN disk[Self] \ seen
       IN  /\ ~Refused(partial)
           /\ run' = [run EXCEPT !.known = TRUE, !.linv = Recent(Stat(disk[Self], seen)),
                                 !.left = @ \/ unlisted # {}]
           /\ safe' = (safe /\ (partial => ~run.opts.allow_partial \/ run.opts.dry_run))
           /\ missed' = IF partial THEN missed ELSE missed \cup unlisted
  /\ pc' = "remote"
  /\ UNCHANGED <<site, disk, clock, watermark, net, newest, covered>>

\* The plan of one peer: directions switched off first, then the batch limits.
Limited(linv, rinv, complete) ==
  LET push  == IF run.opts.pull_only THEN {} ELSE ToPush(linv, rinv, "newer", complete)
      pull  == IF run.opts.push_only THEN {} ELSE ToPull(linv, rinv, "newer")
      cands == Candidates(push, pull, linv, rinv)
      taken == Admitted(cands, run.opts.max_files, NoLimit)
  IN  [push |-> RelsOf(taken, "push"), pull |-> RelsOf(taken, "pull"),
       truncated |-> taken # cands]

(* The remote walk and the plan.  The walk calls itself complete unless it *)
(* noticed that it was cut short, and never when it listed nothing         *)
(* (sync_inventory_remote.py:99-117); a budget that runs out in the middle *)
(* of a directory, a file it may not read and a stub go unnoticed (19).    *)
RemoteWalk ==
  /\ pc = "remote"
  /\ \E seen \in SUBSET DOMAIN disk[run.peer], complete \in BOOLEAN :
       LET rinv     == Stat(disk[run.peer], seen)
           unlisted == DOMAIN disk[run.peer] \ seen
           limited  == Limited(run.linv, rinv, complete)
           plan     == [push |-> limited.push, pull |-> limited.pull]
       IN  /\ seen = {} => ~complete
           /\ run' = [run EXCEPT !.rinv = rinv, !.plan = plan, !.rest = plan, !.owed = plan,
                                 !.left = @ \/ ~complete \/ unlisted # {} \/ limited.truncated]
           /\ missed' = IF complete THEN missed \cup unlisted ELSE missed
  /\ pc' = IF run.opts.dry_run THEN "peer" ELSE "backup"
  /\ UNCHANGED <<site, disk, clock, watermark, net, newest, covered, safe>>

(* The remote walk fails, or one side has no room for its part of the plan.*)
PeerGivenUp ==
  /\ pc = "remote"
  /\ run' = [run EXCEPT !.ok = FALSE]
  /\ pc' = "peer"
  /\ UNCHANGED <<site, disk, clock, watermark, net, ghosts>>

\* Seeded fault: only files that are to be pushed later are backed up.
ToBackUp_Pushed == run.plan.push \cap DOMAIN run.linv

\* What the local inventory knows of the files to pull.
ToBackUp == run.plan.pull \cap DOMAIN run.linv

(* SafetyNet: a copy made for an earlier peer of the run is replaced.      *)
Backup ==
  /\ pc = "backup"
  /\ LET files == IF run.opts.safetynet /\ ~run.opts.push_only
                    THEN ToBackUp \cap DOMAIN disk[Self] ELSE {}
     IN  net' = [r \in DOMAIN net \cup files |-> IF r \in files THEN disk[Self][r].id ELSE net[r]]
  /\ pc' = "transfer"
  /\ UNCHANGED <<site, disk, clock, watermark, run, ghosts>>

-----------------------------------------------------------------------------
(* The transfer stage.                                                     *)

Src(dir) == IF dir = "push" THEN Self ELSE run.peer
Dst(dir) == IF dir = "push" THEN run.peer ELSE Self

\* scp stamps a large file on arrival; the rdma rung and ditto keep times.
Copies(dir, r) ==
  LET file == disk[Src(dir)][r]
  IN  {file} \cup IF r \in Large THEN {[file EXCEPT !.mtime = clock]} ELSE {}

Arrives ==
  /\ pc = "transfer"
  /\ \E dir \in {"push", "pull"} : \E r \in run.rest[dir] :
       /\ \E copy \in Copies(dir, r) : disk' = [disk EXCEPT ![Dst(dir)] = Put(@, r, copy)]
       /\ run' = [run EXCEPT !.owed[dir] = @ \ {r}]
  /\ UNCHANGED <<site, clock, watermark, pc, net, ghosts>>

Tears ==
  /\ pc = "transfer"
  /\ \E dir \in {"push", "pull"} : \E r \in run.rest[dir] \cap Large :
       disk' = [disk EXCEPT ![Dst(dir)] = Put(@, r, [id |-> 0, mtime |-> clock])]
  /\ UNCHANGED <<site, clock, watermark, pc, run, net, ghosts>>

(* A planned file stays out without costing rc 0: the peer's helper denies *)
(* its name (sync_rdma.py:356), or it cannot be read or staged at its      *)
(* source (sync_push.py:44-61, sync_pull.py:20, 153).                      *)
LeavesOut ==
  /\ pc = "transfer"
  /\ \E dir \in {"push", "pull"} : \E r \in run.owed[dir] :
       run' = [run EXCEPT !.owed[dir] = @ \ {r}, !.left = TRUE]
  /\ UNCHANGED <<site, disk, clock, watermark, pc, net, ghosts>>

(* A rung broke and the next one starts from a re-plan.                    *)
Downgrade ==
  /\ pc = "transfer"
  /\ LET rels == run.rest.push \cup run.rest.pull
         rest == Replan(run.rest, Stat(disk[Self], rels), Stat(disk[run.peer], rels), "newer")
     IN  run' = [run EXCEPT !.rest = rest,
                            !.owed = [push |-> @.push \cap rest.push, pull |-> @.pull \cap rest.pull]]
  /\ UNCHANGED <<site, disk, clock, watermark, pc, net, ghosts>>

\* verify_local_sample, with a sample that takes the whole pull list
Verified ==
  \A r \in run.plan.pull : r \in DOMAIN disk[Self] /\ disk[Self][r].mtime = run.rinv[r].mtime

PeerDone ==
  /\ pc = "transfer"
  /\ \E pushed, pulled \in BOOLEAN :
       /\ pushed => run.owed.push = {}
       /\ pulled => run.owed.pull = {}
       /\ run' = [run EXCEPT !.plan = NoPlan, !.rest = NoPlan, !.owed = NoPlan, !.rinv = NoFiles,
                             !.ok = @ /\ pushed /\ pulled /\ (run.opts.verify => Verified)]
  /\ pc' = "peer"
  /\ UNCHANGED <<site, disk, clock, watermark, net, ghosts>>

\* Seeded fault: the watermark is also moved by a run in which a peer failed.
Succeeded_Always == ~run.opts.dry_run

Succeeded == run.ok /\ ~run.opts.dry_run

(* The watermark is the time at the end of the run, whatever its scope was.*)
FinishRun ==
  /\ pc = "peer" /\ run.todo = {}
  /\ IF Succeeded
       THEN /\ watermark' = clock
            /\ covered' = /\ ~run.left /\ ~run.opts.push_only /\ ~run.opts.pull_only
                          /\ run.opts.peers = Peers /\ Cardinality(Peers) = 1
                          /\ clock <= run.begun + Slack
                          /\ run.opts.quick /\ watermark > 0 => covered
       ELSE UNCHANGED <<watermark, covered>>
  /\ pc' = "idle" /\ run' = NoRun
  /\ UNCHANGED <<site, disk, clock, net, newest, missed, safe>>

Next ==
  \/ UserEdits \/ Tick \/ Crash
  \/ StartRun \/ PeerFails \/ PeerAnswers \/ LocalWalk \/ RemoteWalk \/ PeerGivenUp \/ Backup
  \/ Arrives \/ Tears \/ LeavesOut \/ Downgrade \/ PeerDone \/ FinishRun

Spec == Init /\ [][Next]_vars

-----------------------------------------------------------------------------
Holds(h, r, id) == r \in DOMAIN disk[h] /\ disk[h][r].id = id

(* What a user wrote last to a path is still on some Mac, whatever runs    *)
(* started, broke or crashed since - unless it was written while a run was *)
(* active, or a walk passed the path over with the flag down, or the user  *)
(* allowed a partial walk, or --quick started from a watermark that says   *)
(* too much (sync_service.py:499).                                         *)
NewestSurvives ==
  safe => \A r \in Paths \ (missed \cup Large) :
            newest[r] = 0 \/ \E h \in Hosts : Holds(h, r, newest[r])

(* With --safetynet and without --quick, what a pull replaces on this Mac  *)
(* is in the SafetyNet directory of the run or still on a peer             *)
(* (parser.py:120 "Before overwrite on pull: backup local file") - unless  *)
(* it was written during the run or a walk passed it over: what is not in  *)
(* the local inventory is not backed up (sync_service.py:714).             *)
OverwriteCovered ==
  [][pc = "transfer" /\ run.opts.safetynet /\ ~run.opts.quick /\ safe =>
       \A r \in DOMAIN disk[Self] \ (missed' \cup Large) :
         disk'[Self][r].id # disk[Self][r].id =>
           \/ r \in DOMAIN net /\ net[r] = disk[Self][r].id
           \/ \E p \in Peers : Holds(p, r, disk[Self][r].id)]_vars

(* A watermark set by a run that left nothing behind, within the slack,    *)
(* is sound: local files older than it by more than the slack are on the   *)
(* peer, so a quick run may leave them out.  A file that a walk, a limit   *)
(* or the transfer left out moves the watermark just the same.             *)
WatermarkSound ==
  covered =>
    \A r \in DOMAIN disk[Self] \ Large :
      disk[Self][r].mtime + Slack < watermark =>
        \A p \in Peers : r \in DOMAIN disk[p] /\ disk[p][r].mtime >= disk[Self][r].mtime

\* A run that ends well, pulled from every peer and left nothing behind, said or unsaid,
\* ends with the newest content of every path no run has missed on this Mac.
EndsNewest ==
  pc = "peer" /\ pc' = "idle" /\ watermark' # watermark
    /\ safe /\ ~run.left /\ ~run.opts.push_only /\ run.opts.peers = Peers =>
    \A r \in Paths \ (missed \cup Large) : newest[r] = 0 \/ Holds(Self, r, newest[r])

(* So it is with one peer (docs/SYNC-HOME.md:107 "two-way, newer mtime     *)
(* wins").  With two, the second pull may replace what the first brought:  *)
(* the inventory was taken before both (sync_service.py:489).              *)
RunEndsNewest == [][Cardinality(Peers) = 1 => EndsNewest]_vars

-----------------------------------------------------------------------------
(* What documentation and help say of a run, and what it does not keep to. *)

\* A file of this Mac that a pull replaces, that no walk missed and nobody wrote to meanwhile.
PullReplaces(r) ==
  /\ pc = "transfer" /\ r \in run.rest.pull \ (missed' \cup Large)
  /\ r \in DOMAIN disk[Self] /\ disk'[Self][r].id # disk[Self][r].id

(* docs/SYNC-HOME.md:107 "two-way, newer mtime wins", README.md:106: a     *)
(* pull replaces a file only by a newer one.  A quick run does not see an  *)
(* old local file and takes the peer's copy for a file that is only there. *)
PullsOnlyNewer ==
  [][\A r \in Paths : PullReplaces(r) => disk'[Self][r].mtime > disk[Self][r].mtime]_vars
=============================================================================
