---------------------------- MODULE InventoryWalk ----------------------------
(***************************************************************************)
(* From two homes to a plan: --force-icloud, the walk of this Mac's home   *)
(* (services/sync_inventory.py) through a lister process that can be       *)
(* killed (services/sync_scandir.py), the guard against a walk cut short,  *)
(* the walk of the peer's home (services/sync_inventory_remote.py) and     *)
(* what both make of it.                                                   *)
(*                                                                         *)
(* The trees stand still; directories may hang for ever, answer late, or   *)
(* be unreadable, and the time budget may run out at any moment.           *)
(***************************************************************************)
EXTENDS SyncPlan, SequencesExt

CONSTANTS
  Sites,   \* homes, roots and options
  Nil      \* no directory

VARIABLES
  site,      \* the setting at hand; it never changes
  home,      \* home[side][file]: what is on the disk
  dataless,  \* dataless[side]: files whose content is in the cloud only
  trouble,   \* trouble[side][dir]: "none", "hung" or "unreadable"
  pc,        \* "icloud", "collect", "walk", "guard", "remote", "rwalk" or how it ended
  todo,      \* roots still to look at
  jobs,      \* subtrees still to walk
  stack,     \* directories of the current one
  asked,     \* the directory asked for, or Nil
  helper,    \* the lister: is it up, requests it has read, answers in the pipe
  out,       \* out[side]: files listed
  skipped,   \* skipped_dirs
  hung,      \* some directory timed out: hung_dirs > 0
  late,      \* the time budget of the walk is used up
  cut,       \* budget_hit
  marked,    \* the peer's script wrote "# inventory time budget" or "# skip-hang"
  complete,  \* what _remote_inventory says of the peer's walk
  clockset   \* ghost: the wall clock was set back during a walk

local  == <<todo, jobs, stack, asked, helper, out, skipped, hung, cut>>
vars == <<site, home, dataless, trouble, pc, local, late, marked, complete, clockset>>

Sides == {"local", "remote"}
Ended == {"refused", "failed", "planned"}
Files == UNION {site.files[d] : d \in site.dirs}
Answers == [dir : site.dirs, ok : BOOLEAN]
NoHelper == [up |-> FALSE, reqs |-> <<>>, pipe |-> <<>>]

\* Directories form trees: up[d] is the way from the top down to d.
Forest(s) ==
  /\ IsFiniteSet(s.dirs) /\ Nil \notin s.dirs /\ DOMAIN s.up = s.dirs
  /\ \A d \in s.dirs : d \in s.up[d] /\ s.up[d] \subseteq s.dirs
  /\ \A d \in s.dirs : \A e \in s.up[d] :
       /\ s.up[e] \subseteq s.up[d] /\ (e # d => d \notin s.up[e])
       /\ \A x \in s.up[d] : x \in s.up[e] \/ e \in s.up[x]

ASSUME WalkAssumption ==
  \A s \in Sites :
    /\ Forest(s) /\ s.roots \in Seq(s.dirs)
    /\ DOMAIN s.files = s.dirs
    /\ \A d \in s.dirs : s.files[d] \cap s.dirs = {}
    /\ \A d, e \in s.dirs : d # e => s.files[d] \cap s.files[e] = {}
    \* what leads to a directory walked with the lister is walked with it too
    /\ s.prone \subseteq s.safe /\ s.safe \subseteq s.dirs
    /\ \A d \in s.safe : s.up[d] \subseteq s.safe
    /\ {s.force, s.allow, s.mayfail, s.dev} \subseteq BOOLEAN
    /\ \A h \in s.homes : \A side \in Sides :
         /\ DOMAIN h[side] \subseteq UNION {s.files[d] : d \in s.dirs}
         /\ \A f \in DOMAIN h[side] : h[side][f] \in FileMeta
    /\ s.stubs \subseteq [Sides -> SUBSET UNION {s.files[d] : d \in s.dirs}]
    /\ s.troubles \subseteq [Sides -> [s.dirs -> {"none", "hung", "unreadable"}]]
    \* "trees that do not hang" (sync_inventory.py:230) are walked in the process itself
    /\ \A t \in s.troubles : \A d \in s.dirs : t.local[d] = "hung" => d \in s.safe

TypeOK ==
  /\ site \in Sites
  /\ \A side \in Sides : DOMAIN home[side] \subseteq Files /\ dataless[side] \subseteq Files
  /\ trouble \in site.troubles
  /\ pc \in {"icloud", "collect", "walk", "remote", "rwalk"} \cup Ended
  /\ ToSet(todo) \cup ToSet(jobs) \cup ToSet(stack) \subseteq site.dirs
  /\ asked \in site.dirs \cup {Nil}
  /\ Len(helper.reqs) <= 1 /\ Len(helper.pipe) <= 1 /\ (helper.pipe # <<>> => asked # Nil)
  /\ ToSet(helper.pipe) \subseteq Answers
  /\ \A side \in Sides : out[side] \subseteq DOMAIN home[side] \ dataless[side]
  /\ skipped \subseteq site.dirs
  /\ {hung, late, cut, marked, complete, clockset} \subseteq BOOLEAN

Init ==
  /\ site \in Sites
  /\ home \in site.homes /\ dataless \in site.stubs /\ trouble \in site.troubles
  /\ pc = IF site.force THEN "icloud" ELSE "collect"
  /\ todo = site.roots /\ jobs = <<>> /\ stack = <<>>
  /\ asked = Nil /\ helper = NoHelper
  /\ out = [side \in Sides |-> {}]
  /\ skipped = {} /\ hung = FALSE /\ late = FALSE /\ cut = FALSE
  /\ marked = FALSE /\ complete = FALSE /\ clockset = FALSE

-----------------------------------------------------------------------------
(* --force-icloud: file after file is asked for and read, as far as it     *)
(* goes within the budgets; what fails stays a stub.                       *)

Materialises(side, f) ==
  /\ pc = "icloud" /\ f \in dataless[side]
  /\ \E d \in site.dirs : f \in site.files[d] /\ site.up[d] \cap site.prone # {}
  /\ dataless' = [dataless EXCEPT ![side] = @ \ {f}]
  /\ UNCHANGED <<site, home, trouble, pc, local, late, marked, complete, clockset>>

IcloudDone ==
  /\ pc = "icloud" /\ pc' = "collect"
  /\ UNCHANGED <<site, home, dataless, trouble, local, late, marked, complete, clockset>>

-----------------------------------------------------------------------------
(* Trees.                                                                  *)

Subs(d) == {e \in site.dirs \ {d} : d \in site.up[e] /\ \A x \in site.up[e] \ {e} : x \in site.up[d]}

\* Directories of one Mac that a walk passes over for their name.  Only the
\* peer's script lists the ones with a dot, and only for `sync dev`.
Hidden(side) == IF side = "remote" /\ site.dev THEN {} ELSE site.dotted

\* Seeded fault: placeholders are listed like files.
Emitted_Stubs(side, d) == site.files[d] \cap DOMAIN home[side]

\* What _emit_path and emit_file let through.
Emitted(side, d) == (site.files[d] \cap DOMAIN home[side]) \ dataless[side]

Entries(side, d) == Emitted(side, d) \cup (Subs(d) \ Hidden(side))

\* Entries up to the moment the budget runs out, and whether it has.
Part(rows, part) ==
  /\ part \subseteq rows
  /\ late => part = {}
  /\ late' = (late \/ part # rows)

-----------------------------------------------------------------------------
(* The lister process.                                                     *)

(* listdir: a helper is spawned if there is none, and asked.               *)
Request(d) ==
  /\ asked' = d
  /\ helper' = IF helper.up THEN [helper EXCEPT !.reqs = Append(@, d)]
                            ELSE [up |-> TRUE, reqs |-> <<d>>, pipe |-> <<>>]

(* os.scandir came back, with the rows or with an error.                   *)
HelperAnswers ==
  /\ helper.up /\ helper.reqs # <<>>
  /\ LET d == Head(helper.reqs)
     IN  /\ trouble.local[d] # "hung"
         /\ helper' = [helper EXCEPT !.reqs = Tail(@),
                         !.pipe = Append(@, [dir |-> d, ok |-> trouble.local[d] = "none"])]
  /\ UNCHANGED <<site, home, dataless, trouble, pc, todo, jobs, stack, asked, out, skipped,
                 hung, late, cut, marked, complete, clockset>>

HelperDies ==
  /\ helper.up /\ site.mayfail /\ helper.pipe = <<>>
  /\ helper' = NoHelper
  /\ UNCHANGED <<site, home, dataless, trouble, pc, todo, jobs, stack, asked, out, skipped,
                 hung, late, cut, marked, complete, clockset>>

\* Seeded fault: the helper that timed out is kept for the next directory.
Discarded_Kept == helper

\* It is killed, and what it had written is forgotten.
Discarded == NoHelper

\* Back from listdir without rows: the next root, or the next directory.
Skips(reason) ==
  /\ skipped' = skipped \cup {asked}
  /\ hung' = (hung \/ reason # "unreadable")
  /\ asked' = Nil
  /\ todo' = IF pc = "collect" THEN Tail(todo) ELSE todo
  /\ UNCHANGED <<site, home, dataless, trouble, pc, jobs, stack, out, late, cut, marked,
                 complete, clockset>>

\* Seeded fault: a helper that is alive is waited for.
Overdue_Dead == asked # Nil /\ ~helper.up

Overdue == asked # Nil

\* No line before the deadline, or the pipe is closed.
TimesOut == Overdue /\ Skips("timeout") /\ helper' = Discarded

\* It cannot be spawned or written to, or its line is no JSON.
WorkerFails == asked # Nil /\ site.mayfail /\ Skips("worker-failed") /\ helper' = NoHelper

Got == asked # Nil /\ helper.pipe # <<>>
Answer == Head(helper.pipe)
Taken == helper' = [helper EXCEPT !.pipe = Tail(@)]

Unreadable == Got /\ ~Answer.ok /\ Skips("unreadable") /\ Taken

(* The children of Documents and Desktop become walks of their own.        *)
TakesKids ==
  /\ Got /\ Answer.ok /\ pc = "collect" /\ Taken
  /\ out' = [out EXCEPT !.local = @ \cup Emitted("local", Answer.dir)]
  /\ jobs' = jobs \o SetToSeq(Subs(Answer.dir))
  /\ todo' = Tail(todo) /\ asked' = Nil
  /\ UNCHANGED <<site, home, dataless, trouble, pc, stack, skipped, hung, late, cut, marked,
                 complete, clockset>>

TakesRows ==
  /\ Got /\ Answer.ok /\ pc = "walk" /\ Taken
  /\ \E part \in SUBSET Entries("local", Answer.dir) :
       /\ Part(Entries("local", Answer.dir), part)
       /\ out' = [out EXCEPT !.local = @ \cup (part \cap Files)]
       /\ stack' = stack \o SetToSeq(part \cap site.dirs)
  /\ asked' = Nil
  /\ UNCHANGED <<site, home, dataless, trouble, pc, todo, jobs, skipped, hung, cut, marked,
                 complete, clockset>>

-----------------------------------------------------------------------------
(* inventory_local.                                                        *)

Collects ==
  /\ pc = "collect" /\ asked = Nil /\ todo # <<>>
  /\ IF Head(todo) \in site.prone
       THEN Request(Head(todo)) /\ UNCHANGED <<todo, jobs>>
       ELSE jobs' = Append(jobs, Head(todo)) /\ todo' = Tail(todo) /\ UNCHANGED <<asked, helper>>
  /\ UNCHANGED <<site, home, dataless, trouble, pc, stack, out, skipped, hung, late, cut, marked,
                 complete, clockset>>

StartsWalk ==
  /\ pc = "collect" /\ asked = Nil /\ todo = <<>>
  /\ pc' = "walk"
  /\ UNCHANGED <<site, home, dataless, trouble, local, late, marked, complete, clockset>>

InWalk == pc = "walk" /\ asked = Nil
LocalIdle == UNCHANGED <<site, home, dataless, trouble, marked, complete, clockset>>

NextJob ==
  /\ InWalk /\ stack = <<>> /\ jobs # <<>>
  /\ IF late THEN jobs' = <<>> /\ cut' = TRUE /\ UNCHANGED stack
             ELSE jobs' = Tail(jobs) /\ stack' = <<Head(jobs)>> /\ UNCHANGED cut
  /\ UNCHANGED <<pc, todo, asked, helper, out, skipped, hung, late>> /\ LocalIdle

\* The budget is used up: _fast_walk and _safe_walk return without a word.
Leaves ==
  /\ InWalk /\ stack # <<>> /\ late
  /\ stack' = <<>>
  /\ UNCHANGED <<pc, todo, jobs, asked, helper, out, skipped, hung, late, cut>> /\ LocalIdle

Pops ==
  /\ InWalk /\ stack # <<>> /\ ~late /\ Last(stack) \in site.safe
  /\ Request(Last(stack)) /\ stack' = Front(stack)
  /\ UNCHANGED <<pc, todo, jobs, out, skipped, hung, late, cut>> /\ LocalIdle

(* os.walk in the process itself passes over what it cannot read.          *)
WalksFast ==
  /\ InWalk /\ stack # <<>> /\ ~late /\ Last(stack) \notin site.safe
  /\ LET d == Last(stack)
         rows == IF trouble.local[d] = "none" THEN Entries("local", d) ELSE {}
     IN  /\ out' = [out EXCEPT !.local = @ \cup (rows \cap Files)]
         /\ stack' = Front(stack) \o SetToSeq(rows \cap site.dirs)
  /\ UNCHANGED <<pc, todo, jobs, asked, helper, skipped, hung, late, cut>> /\ LocalIdle

\* Seeded fault: only a subtree that was not begun counts as cut off.
CutShort_ByJobs == cut

CutShort == cut \/ late

\* Seeded fault: a walk cut short is taken for the whole home.
Refused_Never == FALSE

\* guard_partial_inventory; --allow-partial-inventory waives it.
Refused == (CutShort \/ hung) /\ ~site.allow

EndsWalk ==
  /\ InWalk /\ stack = <<>> /\ jobs = <<>>
  /\ cut' = CutShort
  /\ IF Refused THEN pc' = "refused" /\ UNCHANGED <<todo, late>>
                ELSE pc' = "remote" /\ todo' = site.roots /\ late' = FALSE
  /\ helper' = NoHelper
  /\ UNCHANGED <<jobs, stack, asked, out, skipped, hung>> /\ LocalIdle

-----------------------------------------------------------------------------
(* _remote_inventory and the script it runs on the peer.                   *)

RemoteIdle == UNCHANGED <<site, home, dataless, trouble, asked, helper, skipped, hung, cut, clockset>>

\* The script's own listing hangs with the directory, unless it runs a child for each.
Stuck(d) == trouble.remote[d] = "hung" /\ site.dev
Fine(d) == trouble.remote[d] = "none"

\* The script is not copied, or ssh fails before anything is walked.
Unreached ==
  /\ pc = "remote" /\ site.mayfail
  /\ pc' = "failed"
  /\ UNCHANGED <<todo, jobs, stack, out, late, marked, complete>> /\ RemoteIdle

RemoteCollects ==
  /\ pc = "remote" /\ todo # <<>> /\ ~Stuck(Head(todo))
  /\ LET d == Head(todo)
     IN  IF d \notin site.prone
           THEN jobs' = Append(jobs, d) /\ UNCHANGED <<out, marked>>
           ELSE IF Fine(d)
             THEN /\ jobs' = jobs \o SetToSeq(Subs(d))
                  /\ out' = [out EXCEPT !.remote = @ \cup Emitted("remote", d)]
                  /\ UNCHANGED marked
             ELSE marked' = TRUE /\ UNCHANGED <<jobs, out>>
  /\ todo' = Tail(todo)
  /\ UNCHANGED <<pc, stack, late, complete>> /\ RemoteIdle

RemoteStarts ==
  /\ pc = "remote" /\ todo = <<>> /\ pc' = "rwalk"
  /\ UNCHANGED <<todo, jobs, stack, out, late, marked, complete>> /\ RemoteIdle

\* No mark for roots that are not begun.
RemoteNextJob ==
  /\ pc = "rwalk" /\ stack = <<>> /\ jobs # <<>>
  /\ IF late THEN jobs' = <<>> /\ UNCHANGED stack
             ELSE jobs' = Tail(jobs) /\ stack' = <<Head(jobs)>>
  /\ UNCHANGED <<pc, todo, out, late, marked, complete>> /\ RemoteIdle

RemoteLeaves ==
  /\ pc = "rwalk" /\ stack # <<>> /\ late
  /\ marked' = TRUE /\ stack' = <<>>
  /\ UNCHANGED <<pc, todo, jobs, out, late, complete>> /\ RemoteIdle

RemoteLists ==
  /\ pc = "rwalk" /\ stack # <<>> /\ ~late /\ Fine(Last(stack))
  /\ \E part \in SUBSET Entries("remote", Last(stack)) :
       /\ Part(Entries("remote", Last(stack)), part)
       /\ out' = [out EXCEPT !.remote = @ \cup (part \cap Files)]
       /\ stack' = Front(stack) \o SetToSeq(part \cap site.dirs)
  /\ UNCHANGED <<pc, todo, jobs, marked, complete>> /\ RemoteIdle

RemoteSkips ==
  /\ pc = "rwalk" /\ stack # <<>> /\ ~late
  /\ ~Fine(Last(stack)) /\ ~Stuck(Last(stack))
  /\ marked' = TRUE /\ stack' = Front(stack)
  /\ UNCHANGED <<pc, todo, jobs, out, late, complete>> /\ RemoteIdle

\* Nothing listed is never the whole of it.
Whole == ~marked /\ out.remote # {}

RemoteDone ==
  /\ pc = "rwalk" /\ stack = <<>> /\ jobs = <<>>
  /\ complete' = Whole /\ pc' = "planned"
  /\ UNCHANGED <<todo, jobs, stack, out, late, marked>> /\ RemoteIdle

(* ssh is killed by its timeout, or breaks: what was printed is kept.      *)
SshEnds ==
  /\ pc \in {"remote", "rwalk"}
  /\ site.mayfail \/ \E d \in site.dirs : Stuck(d)
  /\ complete' = FALSE /\ pc' = "planned"
  /\ todo' = <<>> /\ jobs' = <<>> /\ stack' = <<>>
  /\ UNCHANGED <<out, late, marked>> /\ RemoteIdle

-----------------------------------------------------------------------------
Walking == pc \in {"collect", "walk", "remote", "rwalk"}

BudgetEnds ==
  /\ Walking /\ ~late /\ late' = TRUE
  /\ UNCHANGED <<site, home, dataless, trouble, pc, local, marked, complete, clockset>>

(* Budgets are measured by time.time().                                    *)
ClockSetBack ==
  /\ Walking /\ late /\ ~clockset /\ late' = FALSE /\ clockset' = TRUE
  /\ UNCHANGED <<site, home, dataless, trouble, pc, local, marked, complete>>

WalkStep ==
  \/ IcloudDone \/ TimesOut \/ WorkerFails \/ Unreadable \/ TakesKids \/ TakesRows
  \/ Collects \/ StartsWalk \/ NextJob \/ Leaves \/ Pops \/ WalksFast \/ EndsWalk
  \/ Unreached \/ RemoteCollects \/ RemoteStarts \/ RemoteNextJob \/ RemoteLeaves
  \/ RemoteLists \/ RemoteSkips \/ RemoteDone \/ SshEnds

Next ==
  \/ WalkStep \/ HelperAnswers \/ HelperDies \/ BudgetEnds \/ ClockSetBack
  \/ \E side \in Sides : \E f \in dataless[side] : Materialises(side, f)

\* The walk goes on; a directory, its helper and the peer need not.
Spec == Init /\ [][Next]_vars /\ WF_vars(WalkStep)

-----------------------------------------------------------------------------
(* Properties.                                                             *)

\* Found from a root down by its name; the children of Documents and Desktop by any.
Visible(side, d) ==
  \E r \in ToSet(site.roots) \cap site.up[d] :
    \A e \in site.up[d] \ site.up[r] :
      e \in Hidden(side) => r \in site.prone /\ e \in Subs(r)

LocalDone == pc \in {"remote", "rwalk"} \cup Ended

(* A walk within its budget has every file of a tree it goes through with  *)
(* the lister, except below the directories it names as skipped: no late   *)
(* answer is taken for the next directory (sync_inventory.py:271).         *)
NoneDropped ==
  LocalDone /\ ~clockset /\ ~cut =>
    \A d \in site.safe :
      Visible("local", d) /\ site.up[d] \cap skipped = {} => Emitted("local", d) \subseteq out.local

(* A walk of this Mac that is not flagged has every file below readable    *)
(* directories, however time ran out and directories hung, as long as the  *)
(* wall clock was not set back (sync_inventory.py:357).                    *)
FlagTells ==
  LocalDone /\ ~cut /\ ~hung /\ ~clockset =>
    \A d \in site.dirs :
      Visible("local", d) /\ (\A e \in site.up[d] : trouble.local[e] # "unreadable")
        => Emitted("local", d) \subseteq out.local

Inv(side) == [f \in out[side] |-> home[side][f]]
Pushed == ToPush(Inv("local"), Inv("remote"), "newer", complete)
Pulled == ToPull(Inv("local"), Inv("remote"), "newer")

NewerAt(side, other, f) ==
  f \in DOMAIN home[side] /\ f \in DOMAIN home[other] /\ home[side][f].mtime > home[other][f].mtime

\* Nobody replaces the newer of two files by the older one.
Kept(f) == ~(f \in Pulled /\ NewerAt("local", "remote", f)) /\ ~(f \in Pushed /\ NewerAt("remote", "local", f))

Directory(f) == CHOOSE d \in site.dirs : f \in site.files[d]

\* Both walks go to the same places, and there is nothing there that they cannot read.
Plain(f) ==
  /\ \A side \in Sides : f \notin dataless[side]
  /\ Visible("local", Directory(f)) <=> Visible("remote", Directory(f))
  /\ \A e \in site.up[Directory(f)] : trouble.local[e] # "unreadable"

(* The plan never puts an older file in the place of a newer one because a *)
(* walk missed it: not if the local walk was cut short, for then the guard *)
(* refuses (sync_inventory.py:388), and not if the peer's was, for then    *)
(* what it did not list is unknown (sync_plan.py:57).  Stubs, names only   *)
(* one of the walks skips, and a peer whose budget ended where its script  *)
(* leaves no mark are the exceptions.                                      *)
NewestKept ==
  pc = "planned" /\ ~site.allow /\ ~clockset /\ ~(late /\ complete) =>
    \A f \in Files : Plain(f) => Kept(f)

(* Whatever hangs, the walks end.                                          *)
WalkEnds == <>(pc \in Ended)

(* "two-way, newer mtime wins" (docs/SYNC-HOME.md:107), of `sync dev` with *)
(* ".git, .github, ..." included (:34).                                    *)
NewestKeptInDev == pc = "planned" /\ site.dev => \A f \in Files : Kept(f)

(* "complete is False when the walk stopped early - time budget or a hung  *)
(* directory" (sync_inventory_remote.py:39).                               *)
CompleteMeansWalked ==
  pc = "planned" /\ complete =>
    \A d \in site.dirs : Visible("remote", d) => Emitted("remote", d) \subseteq out.remote
=============================================================================
