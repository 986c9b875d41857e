--------------------------- MODULE InventoryProofs ---------------------------
(***************************************************************************)
(* What two walks make of any two homes, with the lister killed, late or   *)
(* never there, and budgets that end anywhere: nothing is dropped that is  *)
(* not named, the flags tell of a walk that is not whole, and the plan     *)
(* keeps the newest.                                                       *)
(*                                                                         *)
(* The inductive invariant follows every directory that can be found: its  *)
(* files are listed, or it is known to be missed, or one of the roots,     *)
(* jobs and stacked directories still leads to it.                         *)
(***************************************************************************)
EXTENDS InventoryWalk, FiniteSetTheorems, SequenceTheorems, TLAPS

-----------------------------------------------------------------------------
(* The invariant.                                                          *)

Kinds == {"none", "hung", "unreadable"}
LocalPcs == {"icloud", "collect", "walk"}
RemotePcs == {"remote", "rwalk"}
Pcs == LocalPcs \cup RemotePcs \cup Ended

\* What the lister writes of a directory it can list or cannot read.
Reply(d) == [dir |-> d, ok |-> trouble.local[d] = "none"]

\* The lister has at most the one request that the walk waits for.
HelperInv ==
  /\ helper = [up |-> helper.up, reqs |-> helper.reqs, pipe |-> helper.pipe]
  /\ helper.reqs = <<>> \/ (asked # Nil /\ helper.reqs = <<asked>> /\ helper.pipe = <<>>)
  /\ \/ helper.pipe = <<>>
     \/ asked # Nil /\ helper.pipe = <<Reply(asked)>> /\ trouble.local[asked] # "hung"

\* TypeOK, and that sequences are sequences and functions are functions.
TypeInv ==
  /\ site \in Sites /\ home \in site.homes /\ trouble \in site.troubles
  /\ dataless \in [Sides -> SUBSET Files]
  /\ pc \in Pcs
  /\ todo \in Seq(site.dirs) /\ jobs \in Seq(site.dirs) /\ stack \in Seq(site.dirs)
  /\ asked \in site.dirs \cup {Nil}
  /\ out \in [Sides -> SUBSET Files]
  /\ skipped \subseteq site.dirs
  /\ hung \in BOOLEAN /\ late \in BOOLEAN /\ cut \in BOOLEAN /\ marked \in BOOLEAN
  /\ complete \in BOOLEAN /\ clockset \in BOOLEAN

\* What each phase has done, and has still to do.
PcInv ==
  /\ pc = "icloud" => /\ todo = site.roots /\ jobs = <<>> /\ stack = <<>> /\ skipped = {}
                      /\ \A side \in Sides : out[side] = {}
  /\ asked # Nil => pc \in {"collect", "walk"}
  /\ pc = "collect" => /\ stack = <<>>
                       /\ asked # Nil => todo # <<>> /\ asked = Head(todo) /\ asked \in site.prone
  /\ pc \in {"walk", "rwalk"} => todo = <<>>
  /\ pc = "remote" => stack = <<>>
  /\ pc \in LocalPcs => out["remote"] = {}
  /\ pc \in Ended \cup RemotePcs => asked = Nil
  /\ pc \in RemotePcs \cup {"failed", "planned"} => site.allow \/ (~cut /\ ~hung)
  /\ complete => ~marked /\ pc = "planned"

\* What is listed is there, in a directory that can be found.
SeenInv ==
  /\ \A side \in Sides : \A f \in out[side] :
       \E d \in site.dirs : f \in Emitted(side, d) /\ Visible(side, d)
  /\ pc \in LocalPcs =>
       \A d \in ToSet(jobs) \cup ToSet(stack) \cup ({asked} \ {Nil}) : Visible("local", d)
  /\ pc \in RemotePcs => \A d \in ToSet(jobs) \cup ToSet(stack) : Visible("remote", d)
  /\ pc \in LocalPcs \cup RemotePcs => ToSet(todo) \subseteq ToSet(site.roots)

\* From a root e, whose children are found by any name if it is prone, down to d.
Leads(side, e, d) ==
  e \in site.up[d] /\ \A x \in site.up[d] \ site.up[e] :
     x \in Hidden(side) => e \in site.prone /\ x \in Subs(e)

\* From a directory e that is walked down to d.
Clear(side, e, d) == e \in site.up[d] /\ \A x \in site.up[d] \ site.up[e] : x \notin Hidden(side)

\* A walk that goes on comes to d.
Pending(side, d) ==
  \/ \E e \in ToSet(todo) : Leads(side, e, d)
  \/ \E e \in ToSet(jobs) \cup ToSet(stack) : Clear(side, e, d)
  \/ asked # Nil /\ pc = "walk" /\ Clear(side, asked, d)

\* It cannot: a directory on the way is named as skipped, or os.walk passed over it.
Missed(d) ==
  \/ site.up[d] \cap skipped # {}
  \/ \E e \in site.up[d] \ site.safe : trouble.local[e] # "none"

\* What is said of a walk is said of one within its budget, by a clock that is not set back.
Counts == ~clockset /\ ~cut /\ ~(late /\ pc \in LocalPcs)

LocalCover ==
  Counts =>
    \A d \in site.dirs : Visible("local", d) =>
      \/ Emitted("local", d) \subseteq out["local"]
      \/ Missed(d)
      \/ pc \in LocalPcs /\ Pending("local", d)

\* Directories are skipped because they hang or the lister fails, or cannot be read.
SkipInv == \A e \in skipped : hung \/ trouble.local[e] = "unreadable"

RemoteCounts ==
  ~clockset /\ ~late /\ ~marked /\ (pc \in RemotePcs \/ (pc = "planned" /\ complete))

RemoteCover ==
  RemoteCounts =>
    \A d \in site.dirs : Visible("remote", d) =>
      Emitted("remote", d) \subseteq out["remote"] \/ (pc \in RemotePcs /\ Pending("remote", d))

IInv == TypeInv /\ HelperInv /\ PcInv /\ SeenInv /\ LocalCover /\ SkipInv /\ RemoteCover

-----------------------------------------------------------------------------
(* Sequences as the sets of what they hold.                                *)

\* A sequence as a set.
LEMMA InToSet ==
  ASSUME NEW S, NEW s \in Seq(S)
  PROVE  /\ \A x : x \in ToSet(s) <=> \E i \in 1..Len(s) : s[i] = x
         /\ ToSet(s) \subseteq S
<1>1. DOMAIN s = 1..Len(s) /\ \A i \in 1..Len(s) : s[i] \in S
  OBVIOUS
<1> QED BY <1>1 DEF ToSet

LEMMA EmptyToSet == ToSet(<<>>) = {}
BY DEF ToSet

\* One more at the end.
LEMMA AppendToSet ==
  ASSUME NEW S, NEW s \in Seq(S), NEW x \in S
  PROVE  Append(s, x) \in Seq(S) /\ ToSet(Append(s, x)) = ToSet(s) \cup {x}
<1> DEFINE t == Append(s, x)
<1>1. t \in Seq(S) /\ Len(t) = Len(s) + 1 /\ Len(s) \in Nat
  OBVIOUS
<1>2. t[Len(s) + 1] = x /\ \A i \in 1..Len(s) : t[i] = s[i]
  BY AppendProperties
<1>3. 1..Len(t) = 1..Len(s) \cup {Len(s) + 1}
  BY <1>1
<1> HIDE DEF t
<1>4. \A y : y \in ToSet(t) <=> y \in ToSet(s) \/ y = x
  BY <1>1, <1>2, <1>3, InToSet
<1> QED BY <1>1, <1>4 DEF t

\* One after the other.
LEMMA ConcatToSet ==
  ASSUME NEW S, NEW s \in Seq(S), NEW t \in Seq(S)
  PROVE  s \o t \in Seq(S) /\ ToSet(s \o t) = ToSet(s) \cup ToSet(t)
<1>1. s \o t \in Seq(S)
  OBVIOUS
<1>2. \A q : Range(q) = ToSet(q)
  BY DEF Range, ToSet
<1>3. Range(s \o t) = Range(s) \cup Range(t)
  BY RangeConcatenation
<1> QED BY <1>1, <1>2, <1>3

\* The first and the rest.
LEMMA HeadToSet ==
  ASSUME NEW S, NEW s \in Seq(S), s # <<>>
  PROVE  /\ Head(s) \in S /\ Tail(s) \in Seq(S)
         /\ ToSet(s) = {Head(s)} \cup ToSet(Tail(s))
<1>1. Head(s) \in S /\ Tail(s) \in Seq(S)
  BY HeadTailProperties
<1> DEFINE one == <<Head(s)>>
<1>2. s = one \o Tail(s)
  OBVIOUS
<1>3. one \in Seq(S) /\ ToSet(one) = {Head(s)}
  BY <1>1 DEF ToSet
<1> HIDE DEF one
<1>4. \A p, q \in Seq(S) : ToSet(p \o q) = ToSet(p) \cup ToSet(q)
  BY ConcatToSet
<1>5. ToSet(one \o Tail(s)) = ToSet(one) \cup ToSet(Tail(s))
  BY <1>1, <1>3, <1>4
<1> QED BY <1>1, <1>2, <1>3, <1>5

\* The last and the rest.
LEMMA LastToSet ==
  ASSUME NEW S, NEW s \in Seq(S), s # <<>>
  PROVE  /\ Last(s) \in S /\ Front(s) \in Seq(S)
         /\ ToSet(s) = {Last(s)} \cup ToSet(Front(s))
<1>1. PICK q \in Seq(S), x \in S : s = Append(q, x)
  BY SequenceEmptyOrAppend
<1>2. Last(s) = x /\ Front(s) = q
  BY <1>1 DEF Last, Front
<1> QED BY <1>1, <1>2, AppendToSet

\* A single one.
LEMMA OneToSet ==
  ASSUME NEW S, NEW x \in S
  PROVE  <<x>> \in Seq(S) /\ ToSet(<<x>>) = {x}
<1> DEFINE s == <<x>>
<1>1. s \in Seq(S) /\ DOMAIN s = {1} /\ s[1] = x
  OBVIOUS
<1> HIDE DEF s
<1>2. ToSet(s) = {x}
  BY <1>1 DEF ToSet
<1> QED BY <1>1, <1>2 DEF s

\* A finite set in some order.
LEMMA SetToSeqToSet ==
  ASSUME NEW S, IsFiniteSet(S)
  PROVE  SetToSeq(S) \in Seq(S) /\ ToSet(SetToSeq(S)) = S
<1> DEFINE n == Cardinality(S)
<1>1. n \in Nat /\ ExistsBijection(1..n, S)
  BY FS_CardinalityType
<1>2. \E f \in [1..n -> S] : IsInjective(f)
  BY <1>1 DEF ExistsBijection, Bijection, Injection
<1>3. SetToSeq(S) \in [1..n -> S] /\ IsInjective(SetToSeq(S))
  BY <1>2 DEF SetToSeq
<1>4. SetToSeq(S) \in Seq(S)
  BY <1>1, <1>3
<1>5. SetToSeq(S) \in Injection(1..n, S)
  BY <1>3 DEF Injection
<1>6. IsFiniteSet(1..n) /\ Cardinality(1..n) = n
  BY <1>1, FS_Interval
<1>7. SetToSeq(S) \in Surjection(1..n, S)
  BY <1>5, <1>6, FS_Injection
<1> QED BY <1>3, <1>4, <1>7 DEF Surjection, ToSet

-----------------------------------------------------------------------------
(* The trees.                                                              *)

\* What is assumed of the homes.
LEMMA SiteFacts ==
  ASSUME TypeInv
  PROVE  /\ Forest(site) /\ site.roots \in Seq(site.dirs)
         /\ site.safe \subseteq site.dirs /\ site.prone \subseteq site.safe
         /\ \A d \in site.safe : site.up[d] \subseteq site.safe
         /\ \A d \in site.dirs : /\ site.files[d] \cap site.dirs = {}
                                 /\ \A e \in site.dirs :
                                      d # e => site.files[d] \cap site.files[e] = {}
         /\ \A side \in Sides : DOMAIN home[side] \subseteq Files
         /\ \A side \in Sides : \A f \in DOMAIN home[side] : home[side][f] \in FileMeta
         /\ trouble \in [Sides -> [site.dirs -> Kinds]]
         /\ \A d \in site.dirs : trouble.local[d] = "hung" => d \in site.safe
         /\ Nil \notin site.dirs
BY WalkAssumption DEF TypeInv, Files, Kinds, Forest

\* The way down to a directory is a chain.
LEMMA UpFacts ==
  TypeInv =>
    \A d \in site.dirs :
      /\ d \in site.up[d] /\ site.up[d] \subseteq site.dirs
      /\ \A e \in site.up[d] : /\ site.up[e] \subseteq site.up[d]
                               /\ e # d => d \notin site.up[e]
                               /\ \A x \in site.up[d] : x \in site.up[e] \/ e \in site.up[x]
BY SiteFacts DEF Forest

\* The first step down from e on the way to d.
LEMMA FirstStep ==
  ASSUME TypeInv, NEW d \in site.dirs, NEW e \in site.up[d], e # d
  PROVE  \E x \in Subs(e) : x \in site.up[d] /\ \A y \in site.up[d] \ site.up[e] : x \in site.up[y]
<1> DEFINE below == site.up[d] \ site.up[e]
           ups == {site.up[x] : x \in below}
           less == StrictSubsetOrdering(site.dirs)
<1>1. /\ IsFiniteSet(site.dirs) /\ e \in site.dirs /\ below \subseteq site.dirs
      /\ \A x \in site.dirs : x \in site.up[x] /\ site.up[x] \subseteq site.dirs
  BY SiteFacts DEF Forest
<1>2. d \in below
  BY UpFacts
<1>3. ups \subseteq SUBSET site.dirs /\ ups # {}
  BY <1>1, <1>2
<1>4. IsWellFoundedOn(less, SUBSET site.dirs)
  BY <1>1, FS_StrictSubsetOrderingWellFounded, FS_FiniteSubsetsOfFinite
<1>5. PICK u \in ups : \A v \in ups : <<v, u>> \notin less
  <2> HIDE DEF less, ups
  <2> QED BY <1>3, <1>4, WFMin
<1>6. PICK x \in below : u = site.up[x]
  BY <1>5
<1>7. \A y \in below : site.up[y] \subseteq site.up[x] => site.up[y] = site.up[x]
  BY <1>1, <1>5, <1>6 DEF StrictSubsetOrdering
<1>8. ASSUME NEW y \in below PROVE x \in site.up[y]
  <2>1. x \in site.up[y] \/ y \in site.up[x]
    BY <1>6, <1>8, UpFacts
  <2>2. ASSUME y \in site.up[x] PROVE x \in site.up[y]
    <3>1. site.up[y] \subseteq site.up[x]
      BY <1>1, <1>6, <2>2, UpFacts
    <3> QED BY <1>1, <1>6, <1>7, <1>8, <3>1
  <2> QED BY <2>1, <2>2
<1>9. x \in Subs(e)
  <2>1. e \in site.up[x] /\ x # e /\ x \in site.dirs
    BY <1>1, <1>6, UpFacts
  <2>2. ASSUME NEW z \in site.up[x], z # x PROVE z \in site.up[e]
    <3>1. z \in site.up[d] /\ x \notin site.up[z]
      BY <1>1, <1>6, <2>2, UpFacts
    <3> QED BY <1>8, <3>1
  <2> QED BY <2>1, <2>2 DEF Subs
<1> QED BY <1>6, <1>8, <1>9

\* A walk that comes to d through e comes to it through a child of e that it keeps,
LEMMA ClearChild ==
  ASSUME TypeInv, NEW side \in Sides, NEW d \in site.dirs, NEW e, Clear(side, e, d), e # d
  PROVE  \E x \in Subs(e) \ Hidden(side) : Clear(side, x, d)
<1>1. PICK x \in Subs(e) : x \in site.up[d] /\ \A y \in site.up[d] \ site.up[e] : x \in site.up[y]
  BY FirstStep DEF Clear
<1>2. x \in site.dirs /\ e \in site.up[x] /\ x # e /\ site.up[e] \subseteq site.up[x]
  BY UpFacts DEF Subs
<1>3. x \notin site.up[e]
  BY <1>2, UpFacts
<1> QED BY <1>1, <1>2, <1>3 DEF Clear

\* and from a root through any child.
LEMMA LeadsChild ==
  ASSUME TypeInv, NEW side \in Sides, NEW d \in site.dirs, NEW e, Leads(side, e, d), e # d
  PROVE  \E x \in Subs(e) : Clear(side, x, d)
<1>1. PICK x \in Subs(e) : x \in site.up[d] /\ \A y \in site.up[d] \ site.up[e] : x \in site.up[y]
  BY FirstStep DEF Leads
<1>2. x \in site.dirs /\ e \in site.up[x] /\ x # e /\ site.up[e] \subseteq site.up[x]
  BY UpFacts DEF Subs
<1>3. x \notin site.up[e]
  BY <1>2, UpFacts
<1>4. ASSUME NEW y \in site.up[d] \ site.up[x], y \in Hidden(side) PROVE FALSE
  <2>1. y \in Subs(e) /\ x \in site.up[y] /\ x # y
    BY <1>1, <1>2, <1>4, UpFacts DEF Leads
  <2> QED BY <1>3, <2>1 DEF Subs
<1> QED BY <1>1, <1>4 DEF Clear

\* A root that is not prone is walked like any other directory.
LEMMA LeadsPlain ==
  ASSUME NEW side, NEW d, NEW e, Leads(side, e, d), e \notin site.prone
  PROVE  Clear(side, e, d)
BY DEF Leads, Clear

\* Where a walk starts, everything that can be found is ahead of it.
LEMMA VisibleIsLed ==
  ASSUME NEW side, NEW d
  PROVE  Visible(side, d) <=> \E r \in ToSet(site.roots) : Leads(side, r, d)
BY DEF Visible, Leads

\* Roots, children of Documents and Desktop, and kept children can be found.
LEMMA RootVisible ==
  ASSUME TypeInv, NEW side, NEW r \in ToSet(site.roots)
  PROVE  r \in site.dirs /\ Visible(side, r)
<1>1. r \in site.dirs
  BY SiteFacts, InToSet
<1> QED BY <1>1, UpFacts DEF Visible

LEMMA KidVisible ==
  ASSUME TypeInv, NEW side, NEW r \in ToSet(site.roots), r \in site.prone, NEW x \in Subs(r)
  PROVE  x \in site.dirs /\ Visible(side, x)
BY UpFacts DEF Visible, Subs

LEMMA ChildVisible ==
  ASSUME TypeInv, NEW side, NEW d \in site.dirs, Visible(side, d), NEW x \in Subs(d) \ Hidden(side)
  PROVE  x \in site.dirs /\ Visible(side, x)
<1>1. x \in site.dirs /\ d \in site.up[x] /\ \A z \in site.up[x] : z = x \/ z \in site.up[d]
  BY DEF Subs
<1>2. site.up[d] \subseteq site.up[x]
  BY <1>1, UpFacts
<1> QED BY <1>1, <1>2 DEF Visible
-----------------------------------------------------------------------------
(* Types.                                                                  *)

\* What the operators on sequences make of directories.
LEMMA SeqFacts ==
  ASSUME TypeInv
  PROVE  /\ \A s \in Seq(site.dirs) : ToSet(s) \subseteq site.dirs
         /\ \A s \in Seq(site.dirs) : s # <<>> =>
              /\ Head(s) \in site.dirs /\ Tail(s) \in Seq(site.dirs)
              /\ ToSet(s) = {Head(s)} \cup ToSet(Tail(s))
              /\ Last(s) \in site.dirs /\ Front(s) \in Seq(site.dirs)
              /\ ToSet(s) = {Last(s)} \cup ToSet(Front(s))
         /\ \A s \in Seq(site.dirs), d \in site.dirs :
              Append(s, d) \in Seq(site.dirs) /\ ToSet(Append(s, d)) = ToSet(s) \cup {d}
         /\ \A s \in Seq(site.dirs), D \in SUBSET site.dirs :
              /\ s \o SetToSeq(D) \in Seq(site.dirs)
              /\ ToSet(s \o SetToSeq(D)) = ToSet(s) \cup D
         /\ \A d \in site.dirs : <<d>> \in Seq(site.dirs) /\ ToSet(<<d>>) = {d}
         /\ <<>> \in Seq(site.dirs) /\ ToSet(<<>>) = {}
<1>1. \A s \in Seq(site.dirs) : ToSet(s) \subseteq site.dirs
  BY InToSet
<1>2. ASSUME NEW s \in Seq(site.dirs), s # <<>>
      PROVE  /\ Head(s) \in site.dirs /\ Tail(s) \in Seq(site.dirs)
             /\ ToSet(s) = {Head(s)} \cup ToSet(Tail(s))
  BY <1>2, HeadToSet
<1>3. ASSUME NEW s \in Seq(site.dirs), s # <<>>
      PROVE  /\ Last(s) \in site.dirs /\ Front(s) \in Seq(site.dirs)
             /\ ToSet(s) = {Last(s)} \cup ToSet(Front(s))
  BY <1>3, LastToSet
<1>4. ASSUME NEW s \in Seq(site.dirs), NEW d \in site.dirs
      PROVE  Append(s, d) \in Seq(site.dirs) /\ ToSet(Append(s, d)) = ToSet(s) \cup {d}
  BY AppendToSet
<1>5. ASSUME NEW s \in Seq(site.dirs), NEW D \in SUBSET site.dirs
      PROVE  /\ s \o SetToSeq(D) \in Seq(site.dirs)
             /\ ToSet(s \o SetToSeq(D)) = ToSet(s) \cup D
  <2>1. IsFiniteSet(D)
    BY SiteFacts, FS_Subset DEF Forest
  <2>2. SetToSeq(D) \in Seq(D) /\ ToSet(SetToSeq(D)) = D
    BY <2>1, SetToSeqToSet
  <2>3. SetToSeq(D) \in Seq(site.dirs)
    BY <2>2
  <2> QED BY <2>2, <2>3, ConcatToSet
<1>6. ASSUME NEW d \in site.dirs PROVE <<d>> \in Seq(site.dirs) /\ ToSet(<<d>>) = {d}
  BY OneToSet
<1>7. <<>> \in Seq(site.dirs) /\ ToSet(<<>>) = {}
  BY EmptyToSet
<1> QED BY <1>1, <1>2, <1>3, <1>4, <1>5, <1>6, <1>7

\* An answer in the pipe is the one the walk waits for.
LEMMA GotReply ==
  ASSUME TypeInv, HelperInv, Got
  PROVE  /\ asked \in site.dirs /\ Answer.dir = asked
         /\ Answer.ok <=> trouble.local[asked] = "none"
         /\ helper.pipe = <<Reply(asked)>> /\ trouble.local[asked] # "hung"
<1>1. helper.pipe = <<Reply(asked)>> /\ trouble.local[asked] # "hung" /\ asked \in site.dirs
  BY DEF Got, HelperInv, TypeInv
<1> DEFINE fine == trouble.local[asked] = "none"
<1>2. Answer = [dir |-> asked, ok |-> fine]
  BY <1>1 DEF Answer, Reply
<1> HIDE DEF fine
<1>3. Answer.dir = asked /\ Answer.ok = fine
  BY <1>2
<1> QED BY <1>1, <1>3 DEF fine

\* Children are directories.
LEMMA SubsInDirs ==
  \A d : Subs(d) \subseteq site.dirs
BY DEF Subs

\* What is listed are files.
LEMMA EmittedInFiles ==
  TypeInv => \A side \in Sides, d \in site.dirs : Emitted(side, d) \subseteq Files
BY DEF Emitted, Files

\* Nothing but --force-icloud changes what is on the disks.
Still == UNCHANGED <<site, home, dataless, trouble>>

\* Every other step leaves it alone.
LEMMA NextStill ==
  ASSUME Next
  PROVE  Still \/ \E side \in Sides : \E f \in dataless[side] : Materialises(side, f)
<1> USE DEF Still, LocalIdle, RemoteIdle, local
<1>1. CASE WalkStep
  <2>1. CASE IcloudDone \/ TimesOut \/ WorkerFails \/ Unreadable \/ TakesKids \/ TakesRows
    BY <2>1 DEF IcloudDone, TimesOut, WorkerFails, Unreadable, Skips, TakesKids, TakesRows
  <2>2. CASE Collects \/ StartsWalk \/ NextJob \/ Leaves \/ Pops \/ WalksFast \/ EndsWalk
    BY <2>2 DEF Collects, StartsWalk, NextJob, Leaves, Pops, WalksFast, EndsWalk
  <2>3. CASE Unreached \/ RemoteCollects \/ RemoteStarts \/ RemoteNextJob \/ RemoteLeaves
    BY <2>3 DEF Unreached, RemoteCollects, RemoteStarts, RemoteNextJob, RemoteLeaves
  <2>4. CASE RemoteLists \/ RemoteSkips \/ RemoteDone \/ SshEnds
    BY <2>4 DEF RemoteLists, RemoteSkips, RemoteDone, SshEnds
  <2> QED BY <1>1, <2>1, <2>2, <2>3, <2>4 DEF WalkStep
<1>2. CASE HelperAnswers \/ HelperDies \/ BudgetEnds \/ ClockSetBack
  BY <1>2 DEF HelperAnswers, HelperDies, BudgetEnds, ClockSetBack
<1> QED BY <1>1, <1>2 DEF Next

\* The invariant holds of every start.
LEMMA InitInv == Init => IInv
<1> SUFFICES ASSUME Init PROVE IInv
  OBVIOUS
<1>1. /\ site \in Sites /\ home \in site.homes /\ trouble \in site.troubles
      /\ dataless \in [Sides -> SUBSET Files]
  BY WalkAssumption DEF Init, Files
<1>2. site.roots \in Seq(site.dirs) /\ site.force \in BOOLEAN
  BY <1>1, WalkAssumption
<1>3. TypeInv
  <2>1. out \in [Sides -> SUBSET Files]
    BY DEF Init
  <2>2. pc \in Pcs
    BY DEF Init, Pcs, LocalPcs
  <2>3. <<>> \in Seq(site.dirs)
    OBVIOUS
  <2> QED BY <1>1, <1>2, <2>1, <2>2, <2>3 DEF Init, TypeInv
<1>4. HelperInv
  BY DEF Init, HelperInv, NoHelper
<1>5. pc \in {"icloud", "collect"} /\ \A side \in Sides : out[side] = {}
  BY DEF Init
<1>6. PcInv
  BY <1>5 DEF Init, PcInv, LocalPcs, RemotePcs, Ended, Sides
<1>7. ToSet(<<>>) = {}
  BY EmptyToSet
<1>8. SeenInv
  BY <1>5, <1>7 DEF Init, SeenInv, LocalPcs, RemotePcs
<1>9. LocalCover
  BY <1>5, VisibleIsLed DEF Init, LocalCover, Pending, LocalPcs, Counts
<1>10. RemoteCover
  BY <1>5 DEF Init, RemoteCover, RemotePcs, RemoteCounts
<1>11. SkipInv
  BY DEF Init, SkipInv
<1> QED BY <1>3, <1>4, <1>6, <1>8, <1>9, <1>10, <1>11 DEF IInv

\* Every step keeps the types,
LEMMA TypeStep ==
  ASSUME TypeInv, HelperInv, PcInv, Next
  PROVE  TypeInv'
<1> DEFINE Moved ==
             /\ pc' \in Pcs
             /\ todo' \in Seq(site.dirs) /\ jobs' \in Seq(site.dirs) /\ stack' \in Seq(site.dirs)
             /\ asked' \in site.dirs \cup {Nil}
             /\ out' \in [Sides -> SUBSET Files]
             /\ skipped' \subseteq site.dirs
             /\ hung' \in BOOLEAN /\ late' \in BOOLEAN /\ cut' \in BOOLEAN /\ marked' \in BOOLEAN
             /\ complete' \in BOOLEAN /\ clockset' \in BOOLEAN
<1>1. /\ pc \in Pcs
      /\ todo \in Seq(site.dirs) /\ jobs \in Seq(site.dirs) /\ stack \in Seq(site.dirs)
      /\ asked \in site.dirs \cup {Nil}
      /\ out \in [Sides -> SUBSET Files]
      /\ skipped \subseteq site.dirs
      /\ hung \in BOOLEAN /\ late \in BOOLEAN /\ cut \in BOOLEAN /\ marked \in BOOLEAN
      /\ complete \in BOOLEAN /\ clockset \in BOOLEAN
      /\ site.roots \in Seq(site.dirs) /\ site.allow \in BOOLEAN
  BY SiteFacts, WalkAssumption DEF TypeInv
<1>2. \A s \in Seq(site.dirs) : s # <<>> =>
        /\ Head(s) \in site.dirs /\ Tail(s) \in Seq(site.dirs)
        /\ Last(s) \in site.dirs /\ Front(s) \in Seq(site.dirs)
  BY SeqFacts
<1>3. /\ \A s \in Seq(site.dirs), d \in site.dirs : Append(s, d) \in Seq(site.dirs)
      /\ \A s \in Seq(site.dirs), D \in SUBSET site.dirs : s \o SetToSeq(D) \in Seq(site.dirs)
      /\ \A d \in site.dirs : <<d>> \in Seq(site.dirs)
      /\ <<>> \in Seq(site.dirs)
  BY SeqFacts
<1>4. ASSUME NEW side \in Sides, NEW F, F \subseteq Files,
             out' = [out EXCEPT ![side] = @ \cup F]
      PROVE  out' \in [Sides -> SUBSET Files]
  BY <1>1, <1>4
<1>5. \A side \in Sides, d \in site.dirs : Emitted(side, d) \subseteq Files
  BY EmittedInFiles
<1>6. \A d : Subs(d) \in SUBSET site.dirs
  BY SubsInDirs
<1>7. "local" \in Sides /\ "remote" \in Sides
  BY DEF Sides
<1>8. ASSUME NEW reason, Skips(reason), asked # Nil, pc = "collect" => todo # <<>> PROVE Moved
  BY <1>1, <1>2, <1>8 DEF Skips
<1>9. ASSUME WalkStep PROVE Moved
  <2>1. CASE IcloudDone
    BY <1>1, <2>1 DEF IcloudDone, local, Pcs, LocalPcs
  <2>2. CASE TimesOut \/ WorkerFails \/ Unreadable
    BY <1>8, <2>2 DEF TimesOut, Overdue, WorkerFails, Unreadable, Got, PcInv
  <2>3. CASE TakesKids
    <3>1. Answer.dir \in site.dirs /\ todo # <<>>
      BY <2>3, GotReply DEF TakesKids, PcInv, Got
    <3>2. out' \in [Sides -> SUBSET Files]
      BY <1>4, <1>5, <1>7, <2>3, <3>1 DEF TakesKids
    <3> QED BY <1>1, <1>2, <1>3, <1>6, <2>3, <3>1, <3>2 DEF TakesKids
  <2>4. CASE TakesRows
    <3>1. PICK part \in SUBSET Entries("local", Answer.dir) :
            /\ late' = (late \/ part # Entries("local", Answer.dir))
            /\ out' = [out EXCEPT !.local = @ \cup (part \cap Files)]
            /\ stack' = stack \o SetToSeq(part \cap site.dirs)
      BY <2>4 DEF TakesRows, Part
    <3>2. out' \in [Sides -> SUBSET Files]
      BY <1>4, <1>7, <3>1
    <3> QED BY <1>1, <1>3, <2>4, <3>1, <3>2 DEF TakesRows
  <2>5. CASE Collects
    BY <1>1, <1>2, <1>3, <2>5 DEF Collects, Request
  <2>6. CASE StartsWalk
    BY <1>1, <2>6 DEF StartsWalk, local, Pcs, LocalPcs
  <2>7. CASE NextJob \/ Leaves \/ Pops
    BY <1>1, <1>2, <1>3, <2>7 DEF NextJob, Leaves, Pops, Request, LocalIdle
  <2>8. CASE WalksFast
    <3>1. PICK rows :
            /\ out' = [out EXCEPT !.local = @ \cup (rows \cap Files)]
            /\ stack' = Front(stack) \o SetToSeq(rows \cap site.dirs)
      BY <2>8 DEF WalksFast
    <3>2. out' \in [Sides -> SUBSET Files]
      BY <1>4, <1>7, <3>1
    <3>3. /\ stack # <<>>
          /\ UNCHANGED <<pc, todo, jobs, asked, skipped, hung, late, cut, marked, complete,
                         clockset>>
      BY <2>8 DEF WalksFast, LocalIdle
    <3>4. stack' \in Seq(site.dirs)
      BY <1>1, <1>2, <1>3, <3>1, <3>3
    <3> QED BY <1>1, <3>2, <3>3, <3>4
  <2>9. CASE EndsWalk
    BY <1>1, <2>9 DEF EndsWalk, LocalIdle, CutShort, Pcs, RemotePcs, Ended
  <2>10. CASE Unreached \/ RemoteStarts \/ RemoteNextJob \/ RemoteLeaves \/ RemoteSkips
    BY <1>1, <1>2, <1>3, <2>10
       DEF Unreached, RemoteStarts, RemoteNextJob, RemoteLeaves, RemoteSkips, RemoteIdle, Pcs,
           RemotePcs, Ended
  <2>11. CASE RemoteCollects
    <3>1. Head(todo) \in site.dirs /\ Tail(todo) \in Seq(site.dirs)
      BY <1>1, <1>2, <2>11 DEF RemoteCollects
    <3>2. out' \in [Sides -> SUBSET Files]
      BY <1>1, <1>4, <1>5, <1>7, <2>11, <3>1 DEF RemoteCollects
    <3>3. jobs' \in Seq(site.dirs) /\ marked' \in BOOLEAN
      BY <1>1, <1>3, <1>6, <2>11, <3>1 DEF RemoteCollects
    <3> QED BY <1>1, <2>11, <3>1, <3>2, <3>3 DEF RemoteCollects, RemoteIdle
  <2>12. CASE RemoteLists
    <3>1. PICK part \in SUBSET Entries("remote", Last(stack)) :
            /\ late' = (late \/ part # Entries("remote", Last(stack)))
            /\ out' = [out EXCEPT !.remote = @ \cup (part \cap Files)]
            /\ stack' = Front(stack) \o SetToSeq(part \cap site.dirs)
      BY <2>12 DEF RemoteLists, Part
    <3>2. out' \in [Sides -> SUBSET Files]
      BY <1>4, <1>7, <3>1
    <3> QED BY <1>1, <1>2, <1>3, <2>12, <3>1, <3>2 DEF RemoteLists, RemoteIdle
  <2>13. CASE RemoteDone \/ SshEnds
    BY <1>1, <1>3, <2>13 DEF RemoteDone, SshEnds, RemoteIdle, Whole, Pcs, Ended
  <2> QED
    BY <1>9, <2>1, <2>2, <2>3, <2>4, <2>5, <2>6, <2>7, <2>8, <2>9, <2>10, <2>11, <2>12, <2>13
       DEF WalkStep
<1>10. ASSUME HelperAnswers \/ HelperDies \/ BudgetEnds \/ ClockSetBack PROVE Moved
  BY <1>1, <1>10 DEF HelperAnswers, HelperDies, BudgetEnds, ClockSetBack, local
<1>11. ASSUME NEW side \in Sides, NEW f \in dataless[side], Materialises(side, f)
       PROVE  Moved /\ UNCHANGED <<site, home, trouble>> /\ dataless' \in [Sides -> SUBSET Files]
  BY <1>1, <1>11 DEF Materialises, local, TypeInv
<1>12. Moved
  BY <1>9, <1>10, <1>11 DEF Next
<1>13. UNCHANGED <<site, home, trouble>> /\ dataless' \in [Sides -> SUBSET Files]
  BY <1>11, NextStill DEF Still, TypeInv
<1>14. Files' = Files
  BY <1>13 DEF Files
<1> HIDE DEF Moved
<1> QED
  <2> USE DEF Moved
  <2> QED BY <1>12, <1>13, <1>14 DEF TypeInv

-----------------------------------------------------------------------------
(* The lister, the phases and what was skipped.                            *)

\* The troubles stand still.
LEMMA TroubleStands == Next => UNCHANGED <<site, trouble>>
BY NextStill DEF Still, Materialises

\* the lister's one request,
LEMMA HelperStep ==
  ASSUME TypeInv, HelperInv, PcInv, Next
  PROVE  HelperInv'
<1>1. UNCHANGED <<site, trouble>>
  BY TroubleStands
<1>2. ASSUME UNCHANGED <<asked, helper>> PROVE HelperInv'
  BY <1>1, <1>2 DEF HelperInv, Reply
<1>3. ASSUME helper' = NoHelper PROVE HelperInv'
  BY <1>3 DEF HelperInv, NoHelper
<1>4. ASSUME NEW d \in site.dirs, asked = Nil, Request(d) PROVE HelperInv'
  <2>1. helper.reqs = <<>> /\ helper.pipe = <<>> /\ d # Nil /\ asked' = d
    BY <1>4, SiteFacts DEF HelperInv, Request
  <2>2. PICK up : helper = [up |-> up, reqs |-> <<>>, pipe |-> <<>>]
    BY <2>1 DEF HelperInv
  <2>3. \/ helper' = [helper EXCEPT !.reqs = Append(helper.reqs, d)]
        \/ helper' = [up |-> TRUE, reqs |-> <<d>>, pipe |-> <<>>]
    BY <1>4 DEF Request
  <2>4. Append(helper.reqs, d) = <<d>>
    BY <2>1
  <2>5. helper' = [up |-> helper'.up, reqs |-> <<d>>, pipe |-> <<>>]
    BY <2>2, <2>3, <2>4
  <2> QED BY <2>1, <2>5 DEF HelperInv
<1>5. ASSUME Got, Taken PROVE HelperInv'
  <2>1. helper.reqs = <<>> /\ helper.pipe = <<Reply(asked)>>
    BY <1>5 DEF HelperInv, Got
  <2>2. helper' = [up |-> helper.up, reqs |-> <<>>, pipe |-> <<>>]
    BY <1>5, <2>1 DEF HelperInv, Taken
  <2> QED BY <2>2 DEF HelperInv
<1>6. CASE HelperAnswers
  <2>1. /\ asked # Nil /\ helper.reqs = <<asked>> /\ helper.pipe = <<>> /\ Head(helper.reqs) = asked
        /\ asked' = asked
    BY <1>6 DEF HelperAnswers, HelperInv
  <2>2. PICK up : helper = [up |-> up, reqs |-> <<asked>>, pipe |-> <<>>]
    BY <2>1 DEF HelperInv
  <2>3. helper' = [helper EXCEPT !.reqs = Tail(helper.reqs),
                                  !.pipe = Append(helper.pipe, Reply(asked))]
    BY <1>6, <2>1 DEF HelperAnswers, Reply
  <2>4. Tail(helper.reqs) = <<>> /\ Append(helper.pipe, Reply(asked)) = <<Reply(asked)>>
    BY <2>1
  <2>5. helper' = [up |-> helper'.up, reqs |-> <<>>, pipe |-> <<Reply(asked)>>]
    BY <2>2, <2>3, <2>4
  <2>6. trouble.local[asked] # "hung"
    BY <1>6, <2>1 DEF HelperAnswers
  <2> QED BY <1>1, <2>1, <2>5, <2>6 DEF HelperInv, Reply
<1>7. CASE HelperDies \/ TimesOut \/ WorkerFails \/ EndsWalk
  BY <1>3, <1>7 DEF HelperDies, TimesOut, WorkerFails, EndsWalk, Discarded
<1>8. CASE Unreadable \/ TakesKids \/ TakesRows
  BY <1>5, <1>8 DEF Unreadable, TakesKids, TakesRows
<1>9. CASE Collects
  <2>1. Head(todo) \in site.dirs
    BY <1>9, SeqFacts DEF Collects, TypeInv
  <2> QED BY <1>2, <1>4, <1>9, <2>1 DEF Collects
<1>10. CASE Pops
  <2>1. Last(stack) \in site.dirs
    BY <1>10, SeqFacts DEF Pops, TypeInv
  <2> QED BY <1>4, <1>10, <2>1 DEF Pops, InWalk
<1>11. CASE IcloudDone \/ StartsWalk \/ BudgetEnds \/ ClockSetBack
  BY <1>2, <1>11 DEF IcloudDone, StartsWalk, BudgetEnds, ClockSetBack, local
<1>12. CASE NextJob \/ Leaves \/ WalksFast
  BY <1>2, <1>12 DEF NextJob, Leaves, WalksFast
<1>13. CASE \E side \in Sides : \E f \in dataless[side] : Materialises(side, f)
  BY <1>2, <1>13 DEF Materialises, local
<1>14. CASE Unreached \/ RemoteCollects \/ RemoteStarts \/ RemoteNextJob \/ RemoteLeaves
  BY <1>2, <1>14
     DEF Unreached, RemoteCollects, RemoteStarts, RemoteNextJob, RemoteLeaves, RemoteIdle
<1>15. CASE RemoteLists \/ RemoteSkips \/ RemoteDone \/ SshEnds
  BY <1>2, <1>15 DEF RemoteLists, RemoteSkips, RemoteDone, SshEnds, RemoteIdle
<1> QED
  BY <1>6, <1>7, <1>8, <1>9, <1>10, <1>11, <1>12, <1>13, <1>14, <1>15 DEF Next, WalkStep

\* the reasons to skip,
LEMMA SkipStep ==
  ASSUME TypeInv, HelperInv, SkipInv, Next
  PROVE  SkipInv'
<1>1. UNCHANGED <<site, trouble>>
  BY TroubleStands
<1>2. ASSUME UNCHANGED <<skipped, hung>> PROVE SkipInv'
  BY <1>1, <1>2 DEF SkipInv
<1>3. CASE TimesOut \/ WorkerFails
  BY <1>1, <1>3 DEF TimesOut, WorkerFails, Skips, SkipInv
<1>4. CASE Unreadable
  <2>1. trouble.local[asked] \in Kinds /\ trouble.local[asked] \notin {"none", "hung"}
    BY <1>4, GotReply, SiteFacts DEF Unreadable, Sides
  <2>2. trouble.local[asked] = "unreadable"
    BY <2>1 DEF Kinds
  <2> QED BY <1>1, <1>4, <2>2 DEF Unreadable, Skips, SkipInv
<1>5. CASE IcloudDone \/ StartsWalk \/ BudgetEnds \/ ClockSetBack \/ HelperAnswers \/ HelperDies
  BY <1>2, <1>5 DEF IcloudDone, StartsWalk, BudgetEnds, ClockSetBack, HelperAnswers,
                       HelperDies, local
<1>6. CASE TakesKids \/ TakesRows \/ Collects \/ Pops \/ NextJob \/ Leaves \/ WalksFast \/ EndsWalk
  BY <1>2, <1>6 DEF TakesKids, TakesRows, Collects, Pops, NextJob, Leaves, WalksFast, EndsWalk
<1>7. CASE \E side \in Sides : \E f \in dataless[side] : Materialises(side, f)
  BY <1>2, <1>7 DEF Materialises, local
<1>8. CASE Unreached \/ RemoteCollects \/ RemoteStarts \/ RemoteNextJob \/ RemoteLeaves
  BY <1>2, <1>8 DEF Unreached, RemoteCollects, RemoteStarts, RemoteNextJob, RemoteLeaves, RemoteIdle
<1>9. CASE RemoteLists \/ RemoteSkips \/ RemoteDone \/ SshEnds
  BY <1>2, <1>9 DEF RemoteLists, RemoteSkips, RemoteDone, SshEnds, RemoteIdle
<1> QED
  BY <1>3, <1>4, <1>5, <1>6, <1>7, <1>8, <1>9 DEF Next, WalkStep

\* and the phases.
LEMMA PcStep ==
  ASSUME TypeInv, HelperInv, PcInv, Next
  PROVE  PcInv'
<1> USE DEF PcInv, LocalPcs, RemotePcs, Ended
<1>1. UNCHANGED <<site, trouble>> /\ pc \in Pcs /\ asked \in site.dirs \cup {Nil}
      /\ out \in [Sides -> SUBSET Files] /\ "local" \in Sides /\ "remote" \in Sides
  BY TroubleStands DEF TypeInv, Sides
<1>2. CASE IcloudDone
  BY <1>1, <1>2 DEF IcloudDone, local, Sides
<1>3. CASE TimesOut \/ WorkerFails \/ Unreadable
  BY <1>1, <1>3 DEF TimesOut, Overdue, WorkerFails, Unreadable, Got, Skips
<1>4. CASE TakesKids
  <2>1. out'["remote"] = out["remote"]
    BY <1>1, <1>4 DEF TakesKids
  <2> QED BY <1>1, <1>4, <2>1 DEF TakesKids, Got
<1>5. CASE TakesRows
  <2>1. out'["remote"] = out["remote"]
    BY <1>1, <1>5 DEF TakesRows
  <2> QED BY <1>1, <1>5, <2>1 DEF TakesRows, Got
<1>6. CASE Collects
  BY <1>1, <1>6 DEF Collects, Request
<1>7. CASE StartsWalk
  BY <1>1, <1>7 DEF StartsWalk, local
<1>8. CASE NextJob \/ Leaves \/ Pops
  BY <1>1, <1>8 DEF NextJob, Leaves, Pops, Request, InWalk, LocalIdle
<1>9. CASE WalksFast
  <2>1. out'["remote"] = out["remote"]
    BY <1>1, <1>9 DEF WalksFast
  <2> QED BY <1>1, <1>9, <2>1 DEF WalksFast, InWalk, LocalIdle
<1>10. CASE EndsWalk
  BY <1>1, <1>10 DEF EndsWalk, InWalk, LocalIdle, Refused
<1>11. CASE Unreached \/ RemoteStarts \/ RemoteNextJob \/ RemoteLeaves \/ RemoteSkips
  BY <1>1, <1>11
     DEF Unreached, RemoteStarts, RemoteNextJob, RemoteLeaves, RemoteSkips, RemoteIdle
<1>12. CASE RemoteCollects
  BY <1>1, <1>12 DEF RemoteCollects, RemoteIdle
<1>13. CASE RemoteLists
  BY <1>1, <1>13 DEF RemoteLists, RemoteIdle
<1>14. CASE RemoteDone \/ SshEnds
  <2>1. pc' = "planned"
    BY <1>14 DEF RemoteDone, SshEnds
  <2>2. complete' => ~marked'
    <3>1. CASE RemoteDone
      <4>1. complete' = Whole /\ marked' = marked /\ (Whole => ~marked)
        BY <3>1 DEF RemoteDone, Whole
      <4> QED BY <4>1, Zenon
    <3>2. CASE SshEnds
      BY <3>2 DEF SshEnds
    <3> QED BY <1>14, <3>1, <3>2
  <2>3. UNCHANGED <<asked, cut, hung, skipped>> /\ pc \in RemotePcs
    BY <1>14 DEF RemoteDone, SshEnds, RemoteIdle
  <2> QED BY <1>1, <2>1, <2>2, <2>3
<1>15. CASE HelperAnswers \/ HelperDies \/ BudgetEnds \/ ClockSetBack
  BY <1>1, <1>15 DEF HelperAnswers, HelperDies, BudgetEnds, ClockSetBack, local
<1>16. CASE \E side \in Sides : \E f \in dataless[side] : Materialises(side, f)
  BY <1>1, <1>16 DEF Materialises, local
<1> QED
  BY <1>2, <1>3, <1>4, <1>5, <1>6, <1>7, <1>8, <1>9, <1>10, <1>11, <1>12, <1>13, <1>14, <1>15,
     <1>16 DEF Next, WalkStep

-----------------------------------------------------------------------------
(* What is listed is there.                                                *)

\* What is found and listed depends on the disks alone.
LEMMA StillSame ==
  ASSUME Still
  PROVE  /\ \A side, d : Emitted(side, d)' = Emitted(side, d)
         /\ \A side, d : Visible(side, d)' <=> Visible(side, d)
         /\ \A side, e, d : Leads(side, e, d)' <=> Leads(side, e, d)
         /\ \A side, e, d : Clear(side, e, d)' <=> Clear(side, e, d)
         /\ \A e : Subs(e)' = Subs(e)
<1>1. \A side, d : Emitted(side, d)' = Emitted(side, d)
  BY DEF Still, Emitted
<1>2. \A e : Subs(e)' = Subs(e)
  BY DEF Still, Subs
<1>3. \A side : Hidden(side)' = Hidden(side)
  BY DEF Still, Hidden
<1>4. \A side, d : Visible(side, d)' <=> Visible(side, d)
  BY <1>2, <1>3 DEF Still, Visible
<1>5. \A side, e, d : Leads(side, e, d)' <=> Leads(side, e, d)
  BY <1>2, <1>3 DEF Still, Leads
<1>6. \A side, e, d : Clear(side, e, d)' <=> Clear(side, e, d)
  BY <1>3 DEF Still, Clear
<1> QED BY <1>1, <1>2, <1>4, <1>5, <1>6

\* The directories of one walk that are still to be listed can be found.
Found(side) ==
  \A d \in ToSet(jobs) \cup ToSet(stack) \cup ({asked} \ {Nil}) : Visible(side, d)
RootsLeft == ToSet(todo) \subseteq ToSet(site.roots)
Real(side) == \A f \in out[side] : \E d \in site.dirs : f \in Emitted(side, d) /\ Visible(side, d)

\* SeenInv, phase by phase.
LEMMA SeenByParts ==
  ASSUME PcInv
  PROVE  SeenInv <=> /\ \A side \in Sides : Real(side)
                     /\ pc \in LocalPcs => Found("local") /\ RootsLeft
                     /\ pc \in RemotePcs => Found("remote") /\ RootsLeft
BY DEF PcInv, SeenInv, Found, RootsLeft, Real, LocalPcs, RemotePcs

\* Files of one more directory that can be found are listed.
LEMMA RealGrows ==
  ASSUME TypeInv, Still, NEW side \in Sides, NEW d \in site.dirs, Visible(side, d),
         NEW F, F \subseteq Emitted(side, d),
         \A other \in Sides : Real(other), out' = [out EXCEPT ![side] = @ \cup F]
  PROVE  \A other \in Sides : Real(other)'
<1>1. site'.dirs = site.dirs
  BY DEF Still
<1>2. ASSUME NEW other \in Sides, NEW f \in out'[other]
      PROVE  \E e \in site.dirs : f \in Emitted(other, e) /\ Visible(other, e)
  <2>1. f \in out[other] \/ (other = side /\ f \in F)
    BY <1>2 DEF TypeInv
  <2> QED BY <2>1 DEF Real
<1> QED BY <1>1, <1>2, StillSame DEF Real

\* No more is listed than was.
LEMMA RealStays ==
  ASSUME Still, \A side \in Sides : Real(side), out' = out
  PROVE  \A side \in Sides : Real(side)'
BY StillSame DEF Real, Still

\* Found and RootsLeft after a step.
LEMMA FoundBy ==
  ASSUME Still, NEW side,
         \A d \in ToSet(jobs') \cup ToSet(stack') \cup ({asked'} \ {Nil}) : Visible(side, d)
  PROVE  Found(side)'
BY StillSame DEF Found

LEMMA RootsLeftBy ==
  ASSUME Still, RootsLeft, ToSet(todo') \subseteq ToSet(todo)
  PROVE  RootsLeft'
BY DEF Still, RootsLeft

\* What emit lets through of the entries of a directory, and where they lead.
LEMMA EntryFacts ==
  ASSUME TypeInv, NEW side \in Sides, NEW d \in site.dirs, NEW part \in SUBSET Entries(side, d)
  PROVE  /\ part \cap Files \subseteq Emitted(side, d)
         /\ part \cap site.dirs \subseteq Subs(d) \ Hidden(side)
         /\ part = Entries(side, d) =>
              /\ part \cap Files = Emitted(side, d)
              /\ part \cap site.dirs = Subs(d) \ Hidden(side)
<1>1. Files \cap site.dirs = {}
  BY SiteFacts DEF Files
<1>2. Emitted(side, d) \subseteq Files /\ Subs(d) \subseteq site.dirs
  BY EmittedInFiles, SubsInDirs
<1> QED BY <1>1, <1>2 DEF Entries

\* The walk of this Mac finds what is there,
LEMMA SeenLocalStep ==
  ASSUME TypeInv, HelperInv, PcInv, SeenInv, Still, pc \in LocalPcs, WalkStep
  PROVE  \/ (\A side \in Sides : Real(side)') /\ pc' \in LocalPcs /\ Found("local")' /\ RootsLeft'
         \/ (\A side \in Sides : Real(side)') /\ pc' = "remote" /\ Found("remote")' /\ RootsLeft'
         \/ (\A side \in Sides : Real(side)') /\ pc' = "refused"
<1>1. (\A side \in Sides : Real(side)) /\ Found("local") /\ RootsLeft
  BY SeenByParts
<1>2. /\ \A s \in Seq(site.dirs) : s # <<>> =>
           /\ Head(s) \in site.dirs /\ ToSet(s) = {Head(s)} \cup ToSet(Tail(s))
           /\ Last(s) \in site.dirs /\ Front(s) \in Seq(site.dirs)
           /\ ToSet(s) = {Last(s)} \cup ToSet(Front(s))
      /\ todo \in Seq(site.dirs) /\ jobs \in Seq(site.dirs) /\ stack \in Seq(site.dirs)
  BY SeqFacts DEF TypeInv
<1>3. /\ \A s \in Seq(site.dirs), d \in site.dirs : ToSet(Append(s, d)) = ToSet(s) \cup {d}
      /\ \A s \in Seq(site.dirs), D \in SUBSET site.dirs :
           ToSet(s \o SetToSeq(D)) = ToSet(s) \cup D
      /\ \A d \in site.dirs : ToSet(<<d>>) = {d}
      /\ ToSet(<<>>) = {}
  BY SeqFacts
<1>4. \A d \in ToSet(jobs) \cup ToSet(stack) \cup ({asked} \ {Nil}) : Visible("local", d)
  BY <1>1 DEF Found
<1>5. "local" \in Sides
  BY DEF Sides
<1>6. ASSUME pc' \in LocalPcs, \A side \in Sides : Real(side)',
             \A d \in ToSet(jobs') \cup ToSet(stack') \cup ({asked'} \ {Nil}) : Visible("local", d),
             ToSet(todo') \subseteq ToSet(todo)
      PROVE  (\A side \in Sides : Real(side)') /\ pc' \in LocalPcs /\ Found("local")' /\ RootsLeft'
  BY <1>1, <1>6, FoundBy, RootsLeftBy
<1>7. out' = out => \A side \in Sides : Real(side)'
  BY <1>1, RealStays
<1>8. CASE IcloudDone \/ StartsWalk
  BY <1>4, <1>6, <1>7, <1>8 DEF IcloudDone, StartsWalk, local, LocalPcs
<1>9. CASE TimesOut \/ WorkerFails \/ Unreadable
  <2>1. asked # Nil /\ pc' = pc /\ asked' = Nil /\ UNCHANGED <<jobs, stack, out>>
    BY <1>9 DEF TimesOut, Overdue, WorkerFails, Unreadable, Got, Skips
  <2>2. ToSet(todo') \subseteq ToSet(todo)
    BY <1>2, <1>9, <2>1 DEF TimesOut, WorkerFails, Unreadable, Skips, PcInv
  <2> QED BY <1>4, <1>6, <1>7, <2>1, <2>2
<1>10. CASE TakesKids
  <2>1. /\ asked \in site.dirs /\ asked # Nil /\ Answer.dir = asked
        /\ todo # <<>> /\ asked = Head(todo) /\ asked \in site.prone
    BY <1>10, GotReply DEF TakesKids, Got, PcInv
  <2>2. asked \in ToSet(site.roots)
    BY <1>1, <1>2, <2>1 DEF RootsLeft
  <2>3. \A x \in Subs(asked) : Visible("local", x)
    BY <2>1, <2>2, KidVisible
  <2>4. /\ jobs' = jobs \o SetToSeq(Subs(asked)) /\ todo' = Tail(todo)
        /\ out' = [out EXCEPT !["local"] = @ \cup Emitted("local", asked)]
    BY <1>10, <2>1 DEF TakesKids
  <2>5. ToSet(jobs') = ToSet(jobs) \cup Subs(asked) /\ ToSet(todo') \subseteq ToSet(todo)
    BY <1>2, <1>3, <2>1, <2>4, SubsInDirs
  <2>6. Visible("local", asked)
    BY <1>4, <2>1
  <2>7. \A side \in Sides : Real(side)'
    BY <1>1, <1>5, <2>1, <2>4, <2>6, RealGrows
  <2> QED BY <1>4, <1>6, <1>10, <2>3, <2>5, <2>7 DEF TakesKids
<1>11. CASE TakesRows
  <2>1. asked \in site.dirs /\ asked # Nil /\ Answer.dir = asked /\ Visible("local", asked)
    BY <1>4, <1>11, GotReply DEF TakesRows, Got
  <2>2. PICK part \in SUBSET Entries("local", asked) :
          /\ out' = [out EXCEPT !["local"] = @ \cup (part \cap Files)]
          /\ stack' = stack \o SetToSeq(part \cap site.dirs)
    BY <1>11, <2>1 DEF TakesRows
  <2>3. /\ part \cap Files \subseteq Emitted("local", asked)
        /\ part \cap site.dirs \subseteq Subs(asked) \ Hidden("local")
    BY <1>5, <2>1, EntryFacts
  <2>4. \A x \in part \cap site.dirs : Visible("local", x)
    BY <2>1, <2>3, ChildVisible
  <2>5. ToSet(stack') = ToSet(stack) \cup (part \cap site.dirs)
    BY <1>2, <1>3, <2>2
  <2>6. \A side \in Sides : Real(side)'
    BY <1>1, <1>5, <2>1, <2>2, <2>3, RealGrows
  <2>7. pc' = pc /\ UNCHANGED <<todo, jobs>> /\ asked' = Nil
    BY <1>11 DEF TakesRows
  <2> QED BY <1>4, <1>6, <2>4, <2>5, <2>6, <2>7
<1>12. CASE Collects
  <2>1. /\ todo # <<>> /\ pc' = pc /\ UNCHANGED <<stack, out>>
        /\ \/ asked' = Head(todo) /\ UNCHANGED <<todo, jobs>>
           \/ jobs' = Append(jobs, Head(todo)) /\ todo' = Tail(todo) /\ asked' = asked
    BY <1>12 DEF Collects, Request
  <2>2. Head(todo) \in ToSet(site.roots) /\ ToSet(Tail(todo)) \subseteq ToSet(todo)
    BY <1>1, <1>2, <2>1 DEF RootsLeft
  <2>3. Visible("local", Head(todo))
    BY <2>2, RootVisible
  <2>4. ToSet(Append(jobs, Head(todo))) = ToSet(jobs) \cup {Head(todo)}
    BY <1>2, <1>3, <2>1
  <2> QED BY <1>4, <1>6, <1>7, <2>1, <2>2, <2>3, <2>4
<1>13. CASE NextJob \/ Leaves \/ Pops
  <2>1. pc' = pc /\ UNCHANGED <<todo, out>>
    BY <1>13 DEF NextJob, Leaves, Pops
  <2>2. ToSet(jobs') \cup ToSet(stack') \cup ({asked'} \ {Nil})
          \subseteq ToSet(jobs) \cup ToSet(stack) \cup ({asked} \ {Nil})
    <3>1. CASE NextJob
      <4>1. jobs # <<>> /\ asked' = asked
            /\ \/ jobs' = <<>> /\ stack' = stack
               \/ jobs' = Tail(jobs) /\ stack' = <<Head(jobs)>>
        BY <3>1 DEF NextJob
      <4>2. Head(jobs) \in site.dirs /\ ToSet(jobs) = {Head(jobs)} \cup ToSet(Tail(jobs))
        BY <1>2, <4>1
      <4>3. ToSet(<<Head(jobs)>>) = {Head(jobs)}
        BY <1>3, <4>2
      <4> QED BY <1>3, <4>1, <4>2, <4>3
    <3>2. CASE Leaves
      BY <1>3, <3>2 DEF Leaves
    <3>3. CASE Pops
      BY <1>2, <3>3 DEF Pops, Request
    <3> QED BY <1>13, <3>1, <3>2, <3>3
  <2> QED BY <1>4, <1>6, <1>7, <2>1, <2>2
<1>14. CASE WalksFast
  <2> DEFINE d == Last(stack)
  <2>1. d \in site.dirs /\ Visible("local", d) /\ Front(stack) \in Seq(site.dirs)
        /\ ToSet(stack) = {d} \cup ToSet(Front(stack))
    BY <1>2, <1>4, <1>14 DEF WalksFast
  <2>2. PICK rows \in SUBSET Entries("local", d) :
          /\ out' = [out EXCEPT !["local"] = @ \cup (rows \cap Files)]
          /\ stack' = Front(stack) \o SetToSeq(rows \cap site.dirs)
    BY <1>14 DEF WalksFast
  <2>3. /\ rows \cap Files \subseteq Emitted("local", d)
        /\ rows \cap site.dirs \subseteq Subs(d) \ Hidden("local")
    BY <1>5, <2>1, EntryFacts
  <2>4. \A x \in rows \cap site.dirs : Visible("local", x)
    BY <2>1, <2>3, ChildVisible
  <2>5. ToSet(stack') = ToSet(Front(stack)) \cup (rows \cap site.dirs)
    BY <1>3, <2>1, <2>2
  <2>6. \A side \in Sides : Real(side)'
    BY <1>1, <1>5, <2>1, <2>2, <2>3, RealGrows
  <2>7. pc' = pc /\ UNCHANGED <<todo, jobs, asked>>
    BY <1>14 DEF WalksFast
  <2> QED BY <1>4, <1>6, <2>1, <2>4, <2>5, <2>6, <2>7
<1>15. CASE EndsWalk
  <2>1. jobs' = <<>> /\ stack' = <<>> /\ asked' = Nil /\ out' = out
    BY <1>15 DEF EndsWalk, InWalk
  <2>2. Found("remote")'
    BY <1>3, <2>1, FoundBy
  <2>3. pc' = "refused" \/ (pc' = "remote" /\ todo' = site.roots)
    BY <1>15 DEF EndsWalk
  <2> QED BY <1>7, <2>1, <2>2, <2>3 DEF RootsLeft, Still
<1>16. ~(Unreached \/ RemoteCollects \/ RemoteStarts \/ RemoteNextJob \/ RemoteLeaves)
  BY DEF Unreached, RemoteCollects, RemoteStarts, RemoteNextJob, RemoteLeaves, LocalPcs
<1>17. ~(RemoteLists \/ RemoteSkips \/ RemoteDone \/ SshEnds)
  BY DEF RemoteLists, RemoteSkips, RemoteDone, SshEnds, LocalPcs
<1> QED
  BY <1>8, <1>9, <1>10, <1>11, <1>12, <1>13, <1>14, <1>15, <1>16, <1>17 DEF WalkStep

\* and so does the peer's.
LEMMA SeenRemoteStep ==
  ASSUME TypeInv, HelperInv, PcInv, SeenInv, Still, pc \notin LocalPcs, WalkStep
  PROVE  \/ (\A side \in Sides : Real(side)') /\ pc' \in RemotePcs /\ Found("remote")' /\ RootsLeft'
         \/ (\A side \in Sides : Real(side)') /\ pc' \in Ended
<1>1. \A side \in Sides : Real(side)
  BY SeenByParts
<1>2. pc \in RemotePcs /\ Found("remote") /\ RootsLeft /\ asked = Nil
  <2>1. asked = Nil /\ (pc \in RemotePcs => Found("remote") /\ RootsLeft)
    BY SeenByParts DEF PcInv, TypeInv, Pcs
  <2>2. ~(IcloudDone \/ TimesOut \/ WorkerFails \/ Unreadable \/ TakesKids \/ TakesRows)
    BY <2>1 DEF IcloudDone, TimesOut, Overdue, WorkerFails, Unreadable, TakesKids, TakesRows, Got,
                LocalPcs
  <2>3. ~(Collects \/ StartsWalk \/ NextJob \/ Leaves \/ Pops \/ WalksFast \/ EndsWalk)
    BY DEF Collects, StartsWalk, NextJob, Leaves, Pops, WalksFast, EndsWalk, InWalk, LocalPcs
  <2>4. pc \in RemotePcs
    BY <2>2, <2>3
       DEF WalkStep, Unreached, RemoteCollects, RemoteStarts, RemoteNextJob, RemoteLeaves,
           RemoteLists, RemoteSkips, RemoteDone, SshEnds, RemotePcs
  <2> QED BY <2>1, <2>4
<1>3. /\ \A s \in Seq(site.dirs) : s # <<>> =>
           /\ Head(s) \in site.dirs /\ ToSet(s) = {Head(s)} \cup ToSet(Tail(s))
           /\ Last(s) \in site.dirs /\ Front(s) \in Seq(site.dirs)
           /\ ToSet(s) = {Last(s)} \cup ToSet(Front(s))
      /\ todo \in Seq(site.dirs) /\ jobs \in Seq(site.dirs) /\ stack \in Seq(site.dirs)
  BY SeqFacts DEF TypeInv
<1>4. /\ \A s \in Seq(site.dirs), d \in site.dirs : ToSet(Append(s, d)) = ToSet(s) \cup {d}
      /\ \A s \in Seq(site.dirs), D \in SUBSET site.dirs :
           ToSet(s \o SetToSeq(D)) = ToSet(s) \cup D
      /\ \A d \in site.dirs : ToSet(<<d>>) = {d}
      /\ ToSet(<<>>) = {}
  BY SeqFacts
<1>5. \A d \in ToSet(jobs) \cup ToSet(stack) : Visible("remote", d)
  BY <1>2 DEF Found
<1>6. "remote" \in Sides
  BY DEF Sides
<1>7. ASSUME pc' \in RemotePcs, asked' = asked, \A side \in Sides : Real(side)',
             \A d \in ToSet(jobs') \cup ToSet(stack') : Visible("remote", d),
             ToSet(todo') \subseteq ToSet(todo)
      PROVE  /\ \A side \in Sides : Real(side)'
             /\ pc' \in RemotePcs /\ Found("remote")' /\ RootsLeft'
  BY <1>2, <1>7, FoundBy, RootsLeftBy
<1>8. out' = out => \A side \in Sides : Real(side)'
  BY <1>1, RealStays
<1>9. CASE Unreached \/ RemoteDone \/ SshEnds
  BY <1>8, <1>9 DEF Unreached, RemoteDone, SshEnds, Ended
<1>10. CASE RemoteStarts \/ RemoteNextJob \/ RemoteLeaves \/ RemoteSkips
  <2>1. pc' \in RemotePcs /\ UNCHANGED <<todo, out, asked>>
    BY <1>10 DEF RemoteStarts, RemoteNextJob, RemoteLeaves, RemoteSkips, RemoteIdle, RemotePcs
  <2>2. ToSet(jobs') \cup ToSet(stack') \subseteq ToSet(jobs) \cup ToSet(stack)
    <3>1. CASE RemoteNextJob
      <4>1. /\ jobs # <<>>
            /\ \/ jobs' = <<>> /\ stack' = stack
               \/ jobs' = Tail(jobs) /\ stack' = <<Head(jobs)>>
        BY <3>1 DEF RemoteNextJob
      <4>2. Head(jobs) \in site.dirs /\ ToSet(jobs) = {Head(jobs)} \cup ToSet(Tail(jobs))
        BY <1>3, <4>1
      <4>3. ToSet(<<Head(jobs)>>) = {Head(jobs)}
        BY <1>4, <4>2
      <4> QED BY <1>4, <4>1, <4>2, <4>3
    <3>2. CASE RemoteStarts \/ RemoteLeaves \/ RemoteSkips
      BY <1>3, <1>4, <3>2 DEF RemoteStarts, RemoteLeaves, RemoteSkips
    <3> QED BY <1>10, <3>1, <3>2
  <2> QED BY <1>5, <1>7, <1>8, <2>1, <2>2
<1>11. CASE RemoteCollects
  <2> DEFINE d == Head(todo)
  <2>1. /\ d \in site.dirs /\ d \in ToSet(site.roots) /\ ToSet(todo') \subseteq ToSet(todo)
        /\ pc' \in RemotePcs /\ UNCHANGED <<stack, asked>>
    BY <1>2, <1>3, <1>11 DEF RemoteCollects, RootsLeft, RemoteIdle
  <2>2. CASE d \notin site.prone
    <3>1. jobs' = Append(jobs, d) /\ out' = out
      BY <1>11, <2>2 DEF RemoteCollects
    <3>2. Visible("remote", d)
      BY <2>1, RootVisible
    <3> QED BY <1>3, <1>4, <1>5, <1>7, <1>8, <2>1, <3>1, <3>2
  <2>3. CASE d \in site.prone /\ Fine(d)
    <3>1. /\ jobs' = jobs \o SetToSeq(Subs(d))
          /\ out' = [out EXCEPT !["remote"] = @ \cup Emitted("remote", d)]
      BY <1>11, <2>3 DEF RemoteCollects
    <3>2. Visible("remote", d) /\ \A x \in Subs(d) : Visible("remote", x)
      BY <2>1, <2>3, RootVisible, KidVisible
    <3>3. \A side \in Sides : Real(side)'
      BY <1>1, <1>6, <2>1, <3>1, <3>2, RealGrows
    <3>4. ToSet(jobs') = ToSet(jobs) \cup Subs(d)
      BY <1>3, <1>4, <3>1, SubsInDirs
    <3> QED BY <1>5, <1>7, <2>1, <3>2, <3>3, <3>4
  <2>4. CASE d \in site.prone /\ ~Fine(d)
    BY <1>5, <1>7, <1>8, <1>11, <2>1, <2>4 DEF RemoteCollects
  <2> QED BY <2>2, <2>3, <2>4
<1>12. CASE RemoteLists
  <2> DEFINE d == Last(stack)
  <2>1. d \in site.dirs /\ Visible("remote", d) /\ Front(stack) \in Seq(site.dirs)
        /\ ToSet(stack) = {d} \cup ToSet(Front(stack))
    BY <1>3, <1>5, <1>12 DEF RemoteLists
  <2>2. PICK rows \in SUBSET Entries("remote", d) :
          /\ out' = [out EXCEPT !["remote"] = @ \cup (rows \cap Files)]
          /\ stack' = Front(stack) \o SetToSeq(rows \cap site.dirs)
    BY <1>12 DEF RemoteLists
  <2>3. /\ rows \cap Files \subseteq Emitted("remote", d)
        /\ rows \cap site.dirs \subseteq Subs(d) \ Hidden("remote")
    BY <1>6, <2>1, EntryFacts
  <2>4. \A x \in rows \cap site.dirs : Visible("remote", x)
    BY <2>1, <2>3, ChildVisible
  <2>5. ToSet(stack') = ToSet(Front(stack)) \cup (rows \cap site.dirs)
    BY <1>4, <2>1, <2>2
  <2>6. \A side \in Sides : Real(side)'
    BY <1>1, <1>6, <2>1, <2>2, <2>3, RealGrows
  <2>7. pc' \in RemotePcs /\ UNCHANGED <<todo, jobs, asked>>
    BY <1>2, <1>12 DEF RemoteLists, RemoteIdle
  <2> QED BY <1>5, <1>7, <2>1, <2>4, <2>5, <2>6, <2>7
<1>13. ~(IcloudDone \/ TimesOut \/ WorkerFails \/ Unreadable \/ TakesKids \/ TakesRows)
  BY <1>2 DEF IcloudDone, TimesOut, Overdue, WorkerFails, Unreadable, TakesKids, TakesRows, Got,
              LocalPcs
<1>14. ~(Collects \/ StartsWalk \/ NextJob \/ Leaves \/ Pops \/ WalksFast \/ EndsWalk)
  BY DEF Collects, StartsWalk, NextJob, Leaves, Pops, WalksFast, EndsWalk, InWalk, LocalPcs
<1> QED BY <1>9, <1>10, <1>11, <1>12, <1>13, <1>14 DEF WalkStep

\* Every step keeps SeenInv.
LEMMA SeenStep ==
  ASSUME TypeInv, HelperInv, PcInv, SeenInv, Next
  PROVE  SeenInv'
<1>1. PcInv'
  BY PcStep
<1>2. SeenInv' <=> /\ \A side \in Sides : Real(side)'
                   /\ pc' \in LocalPcs => Found("local")' /\ RootsLeft'
                   /\ pc' \in RemotePcs => Found("remote")' /\ RootsLeft'
  BY <1>1 DEF PcInv, SeenInv, Found, RootsLeft, Real, LocalPcs, RemotePcs
<1>3. LocalPcs \cap RemotePcs = {} /\ Ended \cap (LocalPcs \cup RemotePcs) = {}
      /\ "remote" \in RemotePcs /\ "refused" \in Ended
  BY DEF LocalPcs, RemotePcs, Ended
<1>4. ASSUME WalkStep, Still PROVE SeenInv'
  BY <1>2, <1>3, <1>4, SeenLocalStep, SeenRemoteStep
<1>5. CASE HelperAnswers \/ HelperDies \/ BudgetEnds \/ ClockSetBack
  <2>1. Still /\ UNCHANGED <<pc, todo, jobs, stack, asked, out>>
    BY <1>5 DEF HelperAnswers, HelperDies, BudgetEnds, ClockSetBack, Still, local
  <2>3. /\ Found("local")' <=> Found("local")
        /\ Found("remote")' <=> Found("remote")
        /\ RootsLeft' <=> RootsLeft
    BY <2>1, StillSame DEF Found, RootsLeft, Still
  <2>4. \A side \in Sides : Real(side)'
    BY <2>1, SeenByParts, RealStays
  <2> QED BY <1>2, <2>1, <2>3, <2>4, SeenByParts
<1>6. ASSUME NEW side \in Sides, NEW f \in dataless[side], Materialises(side, f) PROVE SeenInv'
  <2>1. /\ pc = "icloud" /\ pc' = pc /\ UNCHANGED <<site, todo, jobs, stack, asked, out>>
        /\ todo = site.roots /\ jobs = <<>> /\ stack = <<>> /\ asked = Nil
        /\ \A other \in Sides : out[other] = {}
    BY <1>6 DEF Materialises, local, PcInv
  <2>2. (\A other \in Sides : Real(other)') /\ RootsLeft'
    BY <2>1 DEF Real, RootsLeft
  <2>3. Found("local")'
    BY <2>1, EmptyToSet DEF Found
  <2> QED BY <1>2, <2>1, <2>2, <2>3 DEF RemotePcs
<1>7. CASE WalkStep
  <2>1. CASE Still
    BY <1>4, <1>7, <2>1
  <2>2. CASE \E side \in Sides : \E f \in dataless[side] : Materialises(side, f)
    BY <1>6, <2>2
  <2> QED BY <2>1, <2>2, NextStill
<1> QED BY <1>5, <1>6, <1>7 DEF Next


-----------------------------------------------------------------------------
(* Nothing is dropped here.                                                *)

\* What is pending after a step.
LEMMA PendingNext ==
  ASSUME Still
  PROVE  \A side, d :
           Pending(side, d)' <=>
             \/ \E e \in ToSet(todo') : Leads(side, e, d)
             \/ \E e \in ToSet(jobs') \cup ToSet(stack') : Clear(side, e, d)
             \/ asked' # Nil /\ pc' = "walk" /\ Clear(side, asked', d)
BY StillSame DEF Pending

\* A step keeps LocalCover if what was pending is listed, missed or pending still.
LEMMA LocalCoverKeeps ==
  ASSUME Still, LocalCover, Counts' => Counts, pc' \in LocalPcs => pc \in LocalPcs,
         out["local"] \subseteq out'["local"], skipped \subseteq skipped',
         \A d \in site.dirs : Counts' /\ pc \in LocalPcs /\ Pending("local", d) =>
           \/ Emitted("local", d) \subseteq out'["local"]
           \/ Missed(d)'
           \/ pc' \in LocalPcs /\ Pending("local", d)'
  PROVE  LocalCover'
<1>1. /\ site' = site /\ trouble' = trouble
      /\ \A d : Emitted("local", d)' = Emitted("local", d)
      /\ \A d : Visible("local", d)' <=> Visible("local", d)
  BY StillSame DEF Still
<1>2. \A d \in site.dirs : Missed(d) => Missed(d)'
  BY <1>1 DEF Missed
<1>3. SUFFICES ASSUME Counts', NEW d \in site.dirs, Visible("local", d)
               PROVE  \/ Emitted("local", d) \subseteq out'["local"]
                      \/ Missed(d)'
                      \/ pc' \in LocalPcs /\ Pending("local", d)'
  BY <1>1 DEF LocalCover, Counts
<1>4. \/ Emitted("local", d) \subseteq out["local"]
      \/ Missed(d)
      \/ pc \in LocalPcs /\ Pending("local", d)
  BY <1>3 DEF LocalCover, Counts
<1> QED BY <1>2, <1>3, <1>4

\* A directory passed over is missed, and so is what is below it.
LEMMA SkipsMissed ==
  ASSUME TypeInv, Still, NEW d, asked \in site.up[d], skipped' = skipped \cup {asked}
  PROVE  Missed(d)'
BY DEF Still, Missed

\* Back without rows: asked, and what is below it, is missed.
LEMMA LocalCoverSkips ==
  ASSUME TypeInv, HelperInv, PcInv, LocalCover, Still, asked # Nil, NEW reason, Skips(reason)
  PROVE  LocalCover'
<1>1. /\ skipped' = skipped \cup {asked} /\ asked' = Nil /\ pc' = pc /\ pc \in {"collect", "walk"}
      /\ UNCHANGED <<out, jobs, stack, late, cut, clockset>>
      /\ IF pc = "collect" THEN todo # <<>> /\ asked = Head(todo) /\ todo' = Tail(todo)
                           ELSE todo' = todo
  BY DEF Skips, PcInv
<1>2. pc = "collect" => ToSet(todo) = {asked} \cup ToSet(todo')
  <2>1. todo \in Seq(site.dirs)
    BY DEF TypeInv
  <2>2. \A s \in Seq(site.dirs) : s # <<>> => ToSet(s) = {Head(s)} \cup ToSet(Tail(s))
    BY SeqFacts
  <2> QED BY <1>1, <2>1, <2>2
<1>3. ASSUME NEW d \in site.dirs, Pending("local", d)
      PROVE  Missed(d)' \/ Pending("local", d)'
  <2>1. \/ \E e \in ToSet(todo) : Leads("local", e, d)
        \/ \E e \in ToSet(jobs) \cup ToSet(stack) : Clear("local", e, d)
        \/ pc = "walk" /\ Clear("local", asked, d)
    BY <1>3 DEF Pending
  <2>2. Leads("local", asked, d) \/ Clear("local", asked, d) => Missed(d)'
    BY <1>1, SkipsMissed DEF Leads, Clear
  <2> QED BY <1>1, <1>2, <2>1, <2>2, PendingNext
<1> QED BY <1>1, <1>3, LocalCoverKeeps DEF Counts

\* Documents and Desktop: the files are listed, the children become jobs.
LEMMA LocalCoverKids ==
  ASSUME TypeInv, HelperInv, PcInv, LocalCover, Still, TakesKids
  PROVE  LocalCover'
<1>1. /\ asked \in site.dirs /\ Answer.dir = asked /\ pc = "collect" /\ pc' = pc
      /\ todo # <<>> /\ asked = Head(todo) /\ todo' = Tail(todo) /\ todo \in Seq(site.dirs)
      /\ out' = [out EXCEPT !["local"] = @ \cup Emitted("local", asked)]
      /\ jobs' = jobs \o SetToSeq(Subs(asked)) /\ jobs \in Seq(site.dirs)
      /\ UNCHANGED <<stack, skipped, late, cut, clockset>>
  BY GotReply DEF TakesKids, Got, PcInv, TypeInv
<1>2. ToSet(todo) = {asked} \cup ToSet(todo')
  BY <1>1, HeadToSet
<1>3. \A s \in Seq(site.dirs), D \in SUBSET site.dirs :
        ToSet(s \o SetToSeq(D)) = ToSet(s) \cup D
  BY SeqFacts
<1>4. ToSet(jobs') = ToSet(jobs) \cup Subs(asked)
  BY <1>1, <1>3, SubsInDirs
<1>5. out'["local"] = out["local"] \cup Emitted("local", asked)
  BY <1>1 DEF TypeInv, Sides
<1>6. ASSUME NEW d \in site.dirs, Pending("local", d)
      PROVE  Emitted("local", d) \subseteq out'["local"] \/ Pending("local", d)'
  <2>1. \/ \E e \in ToSet(todo) : Leads("local", e, d)
        \/ \E e \in ToSet(jobs) \cup ToSet(stack) : Clear("local", e, d)
    BY <1>1, <1>6 DEF Pending
  <2>2. CASE Leads("local", asked, d) /\ d # asked
    <3>1. \E x \in Subs(asked) : Clear("local", x, d)
      BY <2>2, LeadsChild DEF Sides
    <3> QED BY <1>4, <3>1, PendingNext
  <2> QED BY <1>1, <1>2, <1>4, <1>5, <2>1, <2>2, PendingNext
<1> QED BY <1>1, <1>5, <1>6, LocalCoverKeeps DEF Counts

\* A directory that is listed as a whole: its files are out, what is below it is on the stack.
LEMMA ListedSettles ==
  ASSUME TypeInv, NEW side \in Sides, NEW d \in site.dirs, NEW c \in site.dirs, Clear(side, c, d)
  PROVE  \/ Emitted(side, d) \subseteq Entries(side, c) \cap Files
         \/ \E x \in Entries(side, c) \cap site.dirs : Clear(side, x, d)
<1>1. /\ Entries(side, c) \cap Files = Emitted(side, c)
      /\ Entries(side, c) \cap site.dirs = Subs(c) \ Hidden(side)
  BY EntryFacts
<1>2. CASE c = d
  BY <1>1, <1>2
<1>3. CASE c # d
  BY <1>1, <1>3, ClearChild
<1> QED BY <1>2, <1>3

\* Rows of the lister: all of them within the budget.
LEMMA LocalCoverRows ==
  ASSUME TypeInv, HelperInv, PcInv, LocalCover, Still, TakesRows
  PROVE  LocalCover'
<1>1. /\ asked \in site.dirs /\ Answer.dir = asked /\ pc = "walk" /\ pc' = pc
      /\ UNCHANGED <<todo, jobs, skipped, cut, clockset>> /\ todo = <<>> /\ stack \in Seq(site.dirs)
  BY GotReply DEF TakesRows, PcInv, TypeInv
<1>2. PICK part \in SUBSET Entries("local", asked) :
        /\ late' = (late \/ part # Entries("local", asked))
        /\ out' = [out EXCEPT !["local"] = @ \cup (part \cap Files)]
        /\ stack' = stack \o SetToSeq(part \cap site.dirs)
  BY <1>1 DEF TakesRows, Part
<1>3. out'["local"] = out["local"] \cup (part \cap Files)
  BY <1>2 DEF TypeInv, Sides
<1>4. \A s \in Seq(site.dirs), D \in SUBSET site.dirs :
        ToSet(s \o SetToSeq(D)) = ToSet(s) \cup D
  BY SeqFacts
<1>5. ToSet(stack') = ToSet(stack) \cup (part \cap site.dirs)
  BY <1>1, <1>2, <1>4
<1>6. Counts' => Counts /\ part = Entries("local", asked)
  BY <1>1, <1>2 DEF Counts, LocalPcs
<1>7. ASSUME NEW d \in site.dirs, Pending("local", d), part = Entries("local", asked)
      PROVE  Emitted("local", d) \subseteq out'["local"] \/ Pending("local", d)'
  <2>1. \/ \E e \in ToSet(jobs) \cup ToSet(stack) : Clear("local", e, d)
        \/ Clear("local", asked, d)
    BY <1>1, <1>7, EmptyToSet DEF Pending
  <2>2. CASE Clear("local", asked, d)
    <3>1. \/ Emitted("local", d) \subseteq part \cap Files
          \/ \E x \in part \cap site.dirs : Clear("local", x, d)
      BY <1>1, <1>7, <2>2, ListedSettles DEF Sides
    <3> QED BY <1>3, <1>5, <3>1, PendingNext
  <2> QED BY <1>1, <1>5, <2>1, <2>2, PendingNext
<1> QED BY <1>1, <1>3, <1>6, <1>7, LocalCoverKeeps DEF Counts

\* A root becomes a job, or is asked for.
LEMMA LocalCoverCollects ==
  ASSUME TypeInv, PcInv, LocalCover, Still, Collects
  PROVE  LocalCover'
<1>1. /\ pc = "collect" /\ pc' = pc /\ todo # <<>> /\ todo \in Seq(site.dirs)
      /\ jobs \in Seq(site.dirs)
      /\ UNCHANGED <<stack, out, skipped, late, cut, clockset>>
      /\ \/ UNCHANGED <<todo, jobs>>
         \/ Head(todo) \notin site.prone /\ jobs' = Append(jobs, Head(todo)) /\ todo' = Tail(todo)
  BY DEF Collects, TypeInv
<1>2. Head(todo) \in site.dirs /\ ToSet(todo) = {Head(todo)} \cup ToSet(Tail(todo))
  BY <1>1, HeadToSet
<1>3. ToSet(Append(jobs, Head(todo))) = ToSet(jobs) \cup {Head(todo)}
  BY <1>1, <1>2, AppendToSet
<1>4. ASSUME NEW d \in site.dirs, Pending("local", d) PROVE Pending("local", d)'
  <2>1. \/ \E e \in ToSet(todo) : Leads("local", e, d)
        \/ \E e \in ToSet(jobs) \cup ToSet(stack) : Clear("local", e, d)
    BY <1>1, <1>4 DEF Pending
  <2>2. Head(todo) \notin site.prone /\ Leads("local", Head(todo), d)
          => Clear("local", Head(todo), d)
    BY LeadsPlain
  <2> QED BY <1>1, <1>2, <1>3, <2>1, <2>2, PendingNext
<1> QED BY <1>1, <1>4, LocalCoverKeeps DEF Counts

\* Jobs and stack: a job is dropped only when the walk is cut.
LEMMA LocalCoverMoves ==
  ASSUME TypeInv, PcInv, LocalCover, Still, NextJob \/ Leaves \/ Pops
  PROVE  LocalCover'
<1>1. /\ pc = "walk" /\ pc' = pc /\ todo = <<>> /\ todo' = todo /\ asked = Nil
      /\ jobs \in Seq(site.dirs) /\ stack \in Seq(site.dirs)
      /\ UNCHANGED <<out, skipped, late, clockset>> /\ (cut => cut') /\ Nil \notin site.dirs
  BY SiteFacts DEF NextJob, Leaves, Pops, InWalk, LocalIdle, PcInv, TypeInv
<1>2. Counts' => Counts
  BY <1>1 DEF Counts
<1>3. ASSUME NEW d \in site.dirs, Pending("local", d), Counts' PROVE Pending("local", d)'
  <2>1. PICK e \in ToSet(jobs) \cup ToSet(stack) : Clear("local", e, d)
    BY <1>1, <1>3, EmptyToSet DEF Pending
  <2>2. ~late /\ ~cut'
    BY <1>1, <1>3 DEF Counts, LocalPcs
  <2>3. e \in ToSet(jobs') \cup ToSet(stack') \cup ({asked'} \ {Nil})
    <3>1. CASE NextJob
      <4>1. stack = <<>> /\ jobs # <<>> /\ jobs' = Tail(jobs) /\ stack' = <<Head(jobs)>>
        BY <2>2, <3>1 DEF NextJob
      <4>2. Head(jobs) \in site.dirs /\ ToSet(jobs) = {Head(jobs)} \cup ToSet(Tail(jobs))
        BY <1>1, <4>1, HeadToSet
      <4>3. ToSet(<<Head(jobs)>>) = {Head(jobs)}
        BY <4>2, OneToSet
      <4> QED BY <2>1, <4>1, <4>2, <4>3, EmptyToSet
    <3>2. CASE Pops
      <4>1. stack # <<>> /\ stack' = Front(stack) /\ asked' = Last(stack) /\ jobs' = jobs
        BY <3>2 DEF Pops, Request
      <4>2. Last(stack) \in site.dirs /\ ToSet(stack) = {Last(stack)} \cup ToSet(Front(stack))
        BY <1>1, <4>1, LastToSet
      <4> QED BY <1>1, <2>1, <4>1, <4>2
    <3>3. ~Leaves
      BY <2>2 DEF Leaves
    <3> QED BY <3>1, <3>2, <3>3
  <2> QED BY <1>1, <2>1, <2>3, PendingNext
<1> QED BY <1>1, <1>2, <1>3, LocalCoverKeeps

\* os.walk: what it cannot read is missed.
LEMMA LocalCoverFast ==
  ASSUME TypeInv, PcInv, LocalCover, Still, WalksFast
  PROVE  LocalCover'
<1> DEFINE c == Last(stack)
           rows == IF trouble.local[c] = "none" THEN Entries("local", c) ELSE {}
<1>1. /\ pc = "walk" /\ pc' = pc /\ todo = <<>> /\ asked = Nil /\ c \notin site.safe /\ stack # <<>>
      /\ UNCHANGED <<todo, jobs, asked, skipped, late, cut, clockset>> /\ stack \in Seq(site.dirs)
      /\ out' = [out EXCEPT !["local"] = @ \cup (rows \cap Files)]
      /\ stack' = Front(stack) \o SetToSeq(rows \cap site.dirs)
  BY DEF WalksFast, InWalk, LocalIdle, PcInv, TypeInv
<1> HIDE DEF rows
<1>2. /\ c \in site.dirs /\ Front(stack) \in Seq(site.dirs)
      /\ ToSet(stack) = {c} \cup ToSet(Front(stack))
  BY <1>1, LastToSet
<1>3. \A s \in Seq(site.dirs), D \in SUBSET site.dirs :
        ToSet(s \o SetToSeq(D)) = ToSet(s) \cup D
  BY SeqFacts
<1>4. ToSet(stack') = ToSet(Front(stack)) \cup (rows \cap site.dirs)
  BY <1>1, <1>2, <1>3
<1>5. out'["local"] = out["local"] \cup (rows \cap Files)
  BY <1>1 DEF TypeInv, Sides
<1>6. ASSUME NEW d \in site.dirs, Pending("local", d)
      PROVE  Emitted("local", d) \subseteq out'["local"] \/ Missed(d)' \/ Pending("local", d)'
  <2>1. \E e \in ToSet(jobs) \cup ToSet(stack) : Clear("local", e, d)
    BY <1>1, <1>6, EmptyToSet DEF Pending
  <2>2. CASE Clear("local", c, d) /\ trouble.local[c] = "none"
    <3>1. \/ Emitted("local", d) \subseteq rows \cap Files
          \/ \E x \in rows \cap site.dirs : Clear("local", x, d)
      BY <1>2, <2>2, ListedSettles DEF rows, Sides
    <3> QED BY <1>4, <1>5, <3>1, PendingNext
  <2>3. CASE Clear("local", c, d) /\ trouble.local[c] # "none"
    BY <1>1, <2>3 DEF Clear, Missed, Still
  <2> QED BY <1>1, <1>2, <1>4, <2>1, <2>2, <2>3, PendingNext
<1> QED BY <1>1, <1>5, <1>6, LocalCoverKeeps DEF Counts

\* At the end nothing is pending.
LEMMA LocalCoverEnds ==
  ASSUME TypeInv, PcInv, LocalCover, Still, EndsWalk
  PROVE  LocalCover'
<1>1. /\ pc = "walk" /\ todo = <<>> /\ jobs = <<>> /\ stack = <<>> /\ asked = Nil
      /\ pc' \notin LocalPcs /\ UNCHANGED <<out, skipped, clockset>> /\ cut' = (cut \/ late)
  BY DEF EndsWalk, InWalk, LocalIdle, PcInv, CutShort, LocalPcs
<1>2. Counts' => Counts
  BY <1>1 DEF Counts
<1>3. \A d \in site.dirs : ~Pending("local", d)
  BY <1>1, EmptyToSet DEF Pending
<1> QED BY <1>1, <1>2, <1>3, LocalCoverKeeps

\* The peer's walk leaves this Mac's alone.
LEMMA LocalCoverRemote ==
  ASSUME LocalCover, Still, pc \notin LocalPcs, pc' \notin LocalPcs,
         UNCHANGED <<skipped, cut, clockset>>, out'["local"] = out["local"]
  PROVE  LocalCover'
BY LocalCoverKeeps DEF Counts

\* Every step keeps LocalCover.
LEMMA LocalCoverStep ==
  ASSUME TypeInv, HelperInv, PcInv, LocalCover, Next
  PROVE  LocalCover'
<1>1. ASSUME WalkStep, Still PROVE LocalCover'
  <2>1. CASE IcloudDone \/ StartsWalk
    <3>1. /\ pc \in LocalPcs /\ pc' \in LocalPcs /\ asked = Nil
          /\ UNCHANGED <<todo, jobs, stack, asked, out, skipped, late, cut, clockset>>
      BY <2>1 DEF IcloudDone, StartsWalk, local, LocalPcs, PcInv
    <3>2. \A d : Pending("local", d) => Pending("local", d)'
      BY <3>1, <1>1, PendingNext DEF Pending
    <3> QED BY <1>1, <3>1, <3>2, LocalCoverKeeps DEF Counts
  <2>2. CASE TimesOut \/ WorkerFails \/ Unreadable
    BY <1>1, <2>2, LocalCoverSkips DEF TimesOut, Overdue, WorkerFails, Unreadable, Got
  <2>3. CASE TakesKids \/ TakesRows \/ Collects
    BY <1>1, <2>3, LocalCoverKids, LocalCoverRows, LocalCoverCollects
  <2>4. CASE NextJob \/ Leaves \/ Pops \/ WalksFast \/ EndsWalk
    BY <1>1, <2>4, LocalCoverMoves, LocalCoverFast, LocalCoverEnds
  <2>5. CASE Unreached \/ RemoteStarts \/ RemoteNextJob \/ RemoteLeaves \/ RemoteSkips
    <3>1. pc \notin LocalPcs /\ pc' \notin LocalPcs /\ UNCHANGED <<skipped, cut, clockset, out>>
      BY <2>5 DEF Unreached, RemoteStarts, RemoteNextJob, RemoteLeaves, RemoteSkips, RemoteIdle,
                  LocalPcs
    <3> QED BY <1>1, <3>1, LocalCoverRemote
  <2>6. CASE RemoteCollects
    <3>1. pc \notin LocalPcs /\ pc' \notin LocalPcs /\ UNCHANGED <<skipped, cut, clockset>>
      BY <2>6 DEF RemoteCollects, RemoteIdle, LocalPcs
    <3>2. out'["local"] = out["local"]
      BY <2>6 DEF RemoteCollects, TypeInv, Sides
    <3> QED BY <1>1, <3>1, <3>2, LocalCoverRemote
  <2>7. CASE RemoteLists
    <3>1. pc \notin LocalPcs /\ pc' \notin LocalPcs /\ UNCHANGED <<skipped, cut, clockset>>
      BY <2>7 DEF RemoteLists, RemoteIdle, LocalPcs
    <3>2. out'["local"] = out["local"]
      BY <2>7 DEF RemoteLists, TypeInv, Sides
    <3> QED BY <1>1, <3>1, <3>2, LocalCoverRemote
  <2>8. CASE RemoteDone \/ SshEnds
    <3>1. pc \notin LocalPcs /\ pc' \notin LocalPcs /\ UNCHANGED <<skipped, cut, clockset, out>>
      BY <2>8 DEF RemoteDone, SshEnds, RemoteIdle, LocalPcs
    <3> QED BY <1>1, <3>1, LocalCoverRemote
  <2> QED BY <1>1, <2>1, <2>2, <2>3, <2>4, <2>5, <2>6, <2>7, <2>8 DEF WalkStep
<1>2. CASE HelperAnswers \/ HelperDies \/ BudgetEnds \/ ClockSetBack
  <2>1. /\ Still /\ UNCHANGED <<pc, todo, jobs, stack, asked, out, skipped, cut>>
        /\ \/ UNCHANGED <<late, clockset>>
           \/ ~late /\ late' /\ clockset' = clockset
           \/ clockset'
    BY <1>2 DEF HelperAnswers, HelperDies, BudgetEnds, ClockSetBack, Still, local
  <2>2. \A d : Pending("local", d) => Pending("local", d)'
    BY <2>1, PendingNext DEF Pending
  <2>3. Counts' => Counts
    BY <2>1 DEF Counts
  <2> QED BY <2>1, <2>2, <2>3, LocalCoverKeeps
<1>3. ASSUME NEW side \in Sides, NEW f \in dataless[side], Materialises(side, f) PROVE LocalCover'
  <2>1. pc' = "icloud" /\ todo' = site'.roots
    BY <1>3 DEF Materialises, local, PcInv
  <2>2. \A d : Visible("local", d)' => Pending("local", d)'
    BY <2>1 DEF Visible, Pending, Leads
  <2> QED BY <2>1, <2>2 DEF LocalCover, LocalPcs, Counts
<1> QED BY <1>1, <1>2, <1>3, NextStill DEF Next

-----------------------------------------------------------------------------
(* Nothing is dropped there, as far as the script leaves no mark.          *)

\* A step keeps RemoteCover if what was pending is listed or pending still.
LEMMA RemoteCoverKeeps ==
  ASSUME Still, RemoteCover, RemoteCounts' => RemoteCounts, pc \in RemotePcs,
         out["remote"] \subseteq out'["remote"],
         \A d \in site.dirs : RemoteCounts' /\ Pending("remote", d) =>
           \/ Emitted("remote", d) \subseteq out'["remote"]
           \/ pc' \in RemotePcs /\ Pending("remote", d)'
  PROVE  RemoteCover'
<1>1. /\ site' = site
      /\ \A d : Emitted("remote", d)' = Emitted("remote", d)
      /\ \A d : Visible("remote", d)' <=> Visible("remote", d)
  BY StillSame DEF Still
<1>2. SUFFICES ASSUME RemoteCounts', NEW d \in site.dirs, Visible("remote", d)
               PROVE  \/ Emitted("remote", d) \subseteq out'["remote"]
                      \/ pc' \in RemotePcs /\ Pending("remote", d)'
  BY <1>1 DEF RemoteCover, RemoteCounts
<1> QED BY <1>2 DEF RemoteCover, RemoteCounts

\* Roots on the peer.
LEMMA RemoteCoverCollects ==
  ASSUME TypeInv, PcInv, RemoteCover, Still, RemoteCollects
  PROVE  RemoteCover'
<1> DEFINE c == Head(todo)
<1>1. /\ pc = "remote" /\ pc' = pc /\ todo # <<>> /\ todo' = Tail(todo) /\ todo \in Seq(site.dirs)
      /\ UNCHANGED <<stack, asked, late, clockset>> /\ jobs \in Seq(site.dirs)
  BY DEF RemoteCollects, RemoteIdle, TypeInv
<1>2. c \in site.dirs /\ ToSet(todo) = {c} \cup ToSet(todo')
  BY <1>1, HeadToSet
<1>3. CASE c \notin site.prone
  <2>1. jobs' = Append(jobs, c) /\ out' = out /\ marked' = marked
    BY <1>3 DEF RemoteCollects
  <2>2. ToSet(jobs') = ToSet(jobs) \cup {c}
    BY <1>1, <1>2, <2>1, AppendToSet
  <2>3. ASSUME NEW d \in site.dirs, Pending("remote", d) PROVE Pending("remote", d)'
    <3>1. Leads("remote", c, d) => Clear("remote", c, d)
      BY <1>3, LeadsPlain
    <3> QED BY <1>1, <1>2, <2>2, <2>3, <3>1, PendingNext DEF Pending
  <2> QED BY <1>1, <2>1, <2>3, RemoteCoverKeeps DEF RemoteCounts, RemotePcs
<1>4. CASE c \in site.prone /\ Fine(c)
  <2>1. /\ jobs' = jobs \o SetToSeq(Subs(c)) /\ marked' = marked
        /\ out' = [out EXCEPT !["remote"] = @ \cup Emitted("remote", c)]
    BY <1>4 DEF RemoteCollects
  <2>2. \A s \in Seq(site.dirs), D \in SUBSET site.dirs :
          ToSet(s \o SetToSeq(D)) = ToSet(s) \cup D
    BY SeqFacts
  <2>3. ToSet(jobs') = ToSet(jobs) \cup Subs(c)
    BY <1>1, <2>1, <2>2, SubsInDirs
  <2>4. out'["remote"] = out["remote"] \cup Emitted("remote", c)
    BY <2>1 DEF TypeInv, Sides
  <2>5. ASSUME NEW d \in site.dirs, Pending("remote", d)
        PROVE  Emitted("remote", d) \subseteq out'["remote"] \/ Pending("remote", d)'
    <3>1. \/ \E e \in ToSet(todo) : Leads("remote", e, d)
          \/ \E e \in ToSet(jobs) \cup ToSet(stack) : Clear("remote", e, d)
      BY <1>1, <2>5 DEF Pending
    <3>2. CASE Leads("remote", c, d) /\ d # c
      <4>1. \E x \in Subs(c) : Clear("remote", x, d)
        BY <3>2, LeadsChild DEF Sides
      <4> QED BY <2>3, <4>1, PendingNext
    <3> QED BY <1>1, <1>2, <2>3, <2>4, <3>1, <3>2, PendingNext
  <2> QED BY <1>1, <2>1, <2>4, <2>5, RemoteCoverKeeps DEF RemoteCounts, RemotePcs
<1>5. CASE c \in site.prone /\ ~Fine(c)
  BY <1>5 DEF RemoteCollects, RemoteCover, RemoteCounts
<1> QED BY <1>3, <1>4, <1>5

\* Roots not begun are dropped only when it is late.
LEMMA RemoteCoverMoves ==
  ASSUME TypeInv, PcInv, RemoteCover, Still, RemoteStarts \/ RemoteNextJob
  PROVE  RemoteCover'
<1>1. /\ pc \in RemotePcs /\ pc' \in RemotePcs /\ asked = Nil /\ asked' = asked
      /\ jobs \in Seq(site.dirs) /\ UNCHANGED <<todo, out, late, marked, clockset, complete>>
  BY DEF RemoteStarts, RemoteNextJob, RemoteIdle, RemotePcs, PcInv, TypeInv
<1>2. ASSUME ~late PROVE ToSet(jobs) \cup ToSet(stack) = ToSet(jobs') \cup ToSet(stack')
  <2>1. CASE RemoteNextJob
    <3>1. stack = <<>> /\ jobs # <<>> /\ jobs' = Tail(jobs) /\ stack' = <<Head(jobs)>>
      BY <1>2, <2>1 DEF RemoteNextJob
    <3>2. Head(jobs) \in site.dirs /\ ToSet(jobs) = {Head(jobs)} \cup ToSet(Tail(jobs))
      BY <1>1, <3>1, HeadToSet
    <3>3. ToSet(<<Head(jobs)>>) = {Head(jobs)}
      BY <3>2, OneToSet
    <3> QED BY <3>1, <3>2, <3>3, EmptyToSet
  <2>2. CASE RemoteStarts
    BY <2>2 DEF RemoteStarts
  <2> QED BY <2>1, <2>2
<1>3. ASSUME NEW d \in site.dirs, Pending("remote", d), ~late PROVE Pending("remote", d)'
  BY <1>1, <1>2, <1>3, PendingNext DEF Pending
<1> QED BY <1>1, <1>3, RemoteCoverKeeps DEF RemoteCounts

\* Rows on the peer: all of them within the budget.
LEMMA RemoteCoverLists ==
  ASSUME TypeInv, PcInv, RemoteCover, Still, RemoteLists
  PROVE  RemoteCover'
<1> DEFINE c == Last(stack)
<1>1. /\ pc = "rwalk" /\ pc' = pc /\ todo = <<>> /\ asked = Nil /\ stack # <<>>
      /\ UNCHANGED <<todo, jobs, asked, marked, clockset>> /\ stack \in Seq(site.dirs)
  BY DEF RemoteLists, RemoteIdle, PcInv, TypeInv, RemotePcs
<1>2. /\ c \in site.dirs /\ Front(stack) \in Seq(site.dirs)
      /\ ToSet(stack) = {c} \cup ToSet(Front(stack))
  BY <1>1, LastToSet
<1>3. PICK part \in SUBSET Entries("remote", c) :
        /\ late' = (late \/ part # Entries("remote", c))
        /\ out' = [out EXCEPT !["remote"] = @ \cup (part \cap Files)]
        /\ stack' = Front(stack) \o SetToSeq(part \cap site.dirs)
  BY DEF RemoteLists, Part
<1>4. \A s \in Seq(site.dirs), D \in SUBSET site.dirs :
        ToSet(s \o SetToSeq(D)) = ToSet(s) \cup D
  BY SeqFacts
<1>5. ToSet(stack') = ToSet(Front(stack)) \cup (part \cap site.dirs)
  BY <1>2, <1>3, <1>4
<1>6. out'["remote"] = out["remote"] \cup (part \cap Files)
  BY <1>3 DEF TypeInv, Sides
<1>7. RemoteCounts' => RemoteCounts /\ part = Entries("remote", c)
  BY <1>1, <1>3 DEF RemoteCounts, RemotePcs
<1>8. ASSUME NEW d \in site.dirs, Pending("remote", d), part = Entries("remote", c)
      PROVE  Emitted("remote", d) \subseteq out'["remote"] \/ Pending("remote", d)'
  <2>1. \E e \in ToSet(jobs) \cup ToSet(stack) : Clear("remote", e, d)
    BY <1>1, <1>8, EmptyToSet DEF Pending
  <2>2. CASE Clear("remote", c, d)
    <3>1. \/ Emitted("remote", d) \subseteq part \cap Files
          \/ \E x \in part \cap site.dirs : Clear("remote", x, d)
      BY <1>2, <1>8, <2>2, ListedSettles DEF Sides
    <3> QED BY <1>5, <1>6, <3>1, PendingNext
  <2> QED BY <1>1, <1>2, <1>5, <2>1, <2>2, PendingNext
<1> QED BY <1>1, <1>6, <1>7, <1>8, RemoteCoverKeeps DEF RemotePcs

\* At the end nothing is pending.
LEMMA RemoteCoverDone ==
  ASSUME TypeInv, PcInv, RemoteCover, Still, RemoteDone
  PROVE  RemoteCover'
<1>1. /\ pc \in RemotePcs /\ todo = <<>> /\ jobs = <<>> /\ stack = <<>> /\ asked = Nil
      /\ UNCHANGED <<out, late, marked, clockset>>
  BY DEF RemoteDone, RemoteIdle, PcInv, RemotePcs
<1>2. \A d \in site.dirs : ~Pending("remote", d)
  BY <1>1, EmptyToSet DEF Pending
<1> QED BY <1>1, <1>2, RemoteCoverKeeps DEF RemoteCounts

\* Every step keeps RemoteCover.
LEMMA RemoteCoverStep ==
  ASSUME TypeInv, HelperInv, PcInv, RemoteCover, Next
  PROVE  RemoteCover'
<1>1. ASSUME WalkStep, Still PROVE RemoteCover'
  <2>1. CASE IcloudDone \/ TimesOut \/ WorkerFails \/ Unreadable \/ TakesKids \/ TakesRows
    <3>1. pc' \in LocalPcs
      BY <2>1 DEF IcloudDone, TimesOut, Overdue, WorkerFails, Unreadable, TakesKids, TakesRows, Got,
                  Skips, LocalPcs, PcInv
    <3> QED BY <3>1 DEF RemoteCover, LocalPcs, RemotePcs, RemoteCounts
  <2>2. CASE Collects \/ StartsWalk \/ NextJob \/ Leaves \/ Pops \/ WalksFast
    <3>1. pc' \in LocalPcs
      BY <2>2 DEF Collects, StartsWalk, NextJob, Leaves, Pops, WalksFast, InWalk, LocalPcs
    <3> QED BY <3>1 DEF RemoteCover, LocalPcs, RemotePcs, RemoteCounts
  <2>3. CASE EndsWalk
    <3>1. pc' = "refused" \/ (pc' = "remote" /\ todo' = site'.roots)
      BY <1>1, <2>3 DEF EndsWalk, Still
    <3>2. todo' = site'.roots => \A d : Visible("remote", d)' => Pending("remote", d)'
      BY DEF Visible, Pending, Leads
    <3> QED BY <3>1, <3>2 DEF RemoteCover, RemotePcs, RemoteCounts
  <2>4. CASE Unreached \/ SshEnds
    BY <2>4 DEF Unreached, SshEnds, RemoteCover, RemotePcs, RemoteCounts
  <2>5. CASE RemoteLeaves \/ RemoteSkips
    BY <2>5 DEF RemoteLeaves, RemoteSkips, RemoteCover, RemoteCounts
  <2>6. CASE RemoteCollects \/ RemoteStarts \/ RemoteNextJob \/ RemoteLists \/ RemoteDone
    BY <1>1, <2>6, RemoteCoverCollects, RemoteCoverMoves, RemoteCoverLists, RemoteCoverDone
  <2> QED BY <1>1, <2>1, <2>2, <2>3, <2>4, <2>5, <2>6 DEF WalkStep
<1>2. CASE HelperAnswers \/ HelperDies \/ BudgetEnds \/ ClockSetBack
  <2>1. /\ Still /\ UNCHANGED <<pc, todo, jobs, stack, asked, out, marked, complete>>
        /\ \/ UNCHANGED <<late, clockset>>
           \/ late'
           \/ clockset'
    BY <1>2 DEF HelperAnswers, HelperDies, BudgetEnds, ClockSetBack, Still, local
  <2>2. \A side, d : Pending(side, d) <=> Pending(side, d)'
    BY <2>1, PendingNext DEF Pending
  <2> QED BY <2>1, <2>2, StillSame DEF RemoteCover, Still, RemoteCounts
<1>3. ASSUME NEW side \in Sides, NEW f \in dataless[side], Materialises(side, f) PROVE RemoteCover'
  BY <1>3 DEF Materialises, RemoteCover, RemotePcs, RemoteCounts
<1> QED BY <1>1, <1>2, <1>3, NextStill DEF Next

-----------------------------------------------------------------------------
(* What the walks promise.                                                 *)

\* The invariant is inductive.
LEMMA WalkInv == IInv /\ [Next]_vars => IInv'
<1>1. CASE Next
  BY <1>1, TypeStep, HelperStep, PcStep, SeenStep, LocalCoverStep, SkipStep, RemoteCoverStep
     DEF IInv
<1>2. ASSUME IInv, UNCHANGED vars PROVE IInv'
  <2>1. Still /\ UNCHANGED <<pc, todo, jobs, stack, asked, helper, out, skipped, hung, cut, late,
                             marked, complete, clockset>>
    BY <1>2 DEF vars, local, Still
  <2>2. TypeInv' /\ HelperInv' /\ PcInv' /\ SkipInv'
    BY <1>2, <2>1 DEF IInv, TypeInv, HelperInv, PcInv, SkipInv, Still, Files, Reply
  <2>3. \A side, d : Pending(side, d) <=> Pending(side, d)'
    BY <2>1, PendingNext DEF Pending
  <2>4. \A d : Missed(d)' <=> Missed(d)
    BY <2>1 DEF Missed, Still
  <2>5. SeenInv'
    BY <1>2, <2>1, StillSame DEF IInv, SeenInv, Still
  <2>6. LocalCover' /\ RemoteCover'
    BY <1>2, <2>1, <2>3, <2>4, StillSame
       DEF IInv, LocalCover, RemoteCover, Still, Counts, RemoteCounts
  <2> QED BY <2>2, <2>5, <2>6 DEF IInv
<1> QED BY <1>1, <1>2

(* Types.                                                                  *)
THEOREM WalkTypeOK == Spec => []TypeOK
<1>1. IInv => TypeOK
  <2> SUFFICES ASSUME IInv PROVE TypeOK
    OBVIOUS
  <2>1. \A side \in Sides : DOMAIN home[side] \subseteq Files /\ dataless[side] \subseteq Files
    BY SiteFacts DEF IInv, TypeInv
  <2>2. ToSet(todo) \cup ToSet(jobs) \cup ToSet(stack) \subseteq site.dirs
    BY SeqFacts DEF IInv, TypeInv
  <2>3. Len(helper.reqs) <= 1 /\ Len(helper.pipe) <= 1 /\ (helper.pipe # <<>> => asked # Nil)
    <3>1. helper.reqs = <<>> \/ helper.reqs = <<asked>>
      BY DEF IInv, HelperInv
    <3>2. helper.pipe = <<>> \/ (asked # Nil /\ helper.pipe = <<Reply(asked)>>)
      BY DEF IInv, HelperInv
    <3>3. Len(<<>>) <= 1 /\ \A x : Len(<<x>>) <= 1
      OBVIOUS
    <3> QED BY <3>1, <3>2, <3>3
  <2>4. ToSet(helper.pipe) \subseteq Answers
    <3>1. CASE helper.pipe = <<>>
      BY <3>1, EmptyToSet
    <3>2. CASE helper.pipe # <<>>
      <4>1. helper.pipe = <<Reply(asked)>> /\ asked \in site.dirs
        BY <3>2 DEF IInv, HelperInv, TypeInv
      <4>2. Reply(asked) \in Answers
        BY <4>1 DEF Reply, Answers
      <4> QED BY <4>1, <4>2, OneToSet
    <3> QED BY <3>1, <3>2
  <2>5. \A side \in Sides : out[side] \subseteq DOMAIN home[side] \ dataless[side]
    BY DEF IInv, SeenInv, Emitted
  <2>6. pc \in {"icloud", "collect", "walk", "remote", "rwalk"} \cup Ended
    BY DEF IInv, TypeInv, Pcs, LocalPcs, RemotePcs
  <2>7. {hung, late, cut, marked, complete, clockset} \subseteq BOOLEAN
    BY DEF IInv, TypeInv
  <2> QED BY <2>1, <2>2, <2>3, <2>4, <2>5, <2>6, <2>7 DEF TypeOK, IInv, TypeInv
<1> QED BY <1>1, InitInv, WalkInv, PTL DEF Spec

\* Where the walk of this Mac is done, nothing is pending.
LEMMA DoneCover ==
  ASSUME IInv, LocalDone, ~clockset, ~cut, NEW d \in site.dirs, Visible("local", d)
  PROVE  Emitted("local", d) \subseteq out["local"] \/ Missed(d)
<1>1. pc \notin LocalPcs
  BY DEF LocalDone, LocalPcs, Ended
<1> QED BY <1>1 DEF IInv, LocalCover, Counts

(* No late answer is taken for the next directory: what a walk within its  *)
(* budget does not name as skipped, it has (sync_inventory.py:271).        *)
THEOREM WalkNoneDropped == Spec => []NoneDropped
<1>1. IInv => NoneDropped
  <2> SUFFICES ASSUME IInv, LocalDone, ~clockset, ~cut, NEW d \in site.safe,
                      Visible("local", d), site.up[d] \cap skipped = {}
               PROVE  Emitted("local", d) \subseteq out["local"]
    BY DEF NoneDropped
  <2>1. d \in site.dirs /\ site.up[d] \subseteq site.safe
    BY SiteFacts DEF IInv
  <2> QED BY <2>1, DoneCover DEF Missed
<1> QED BY <1>1, InitInv, WalkInv, PTL DEF Spec

\* Without a flag nothing readable is missed.
LEMMA UnflaggedCover ==
  ASSUME IInv, LocalDone, ~clockset, ~cut, ~hung, NEW d \in site.dirs, Visible("local", d),
         \A e \in site.up[d] : trouble.local[e] # "unreadable"
  PROVE  Emitted("local", d) \subseteq out["local"]
<1>1. site.up[d] \cap skipped = {}
  BY DEF IInv, SkipInv
<1>2. ASSUME NEW e \in site.up[d] \ site.safe PROVE trouble.local[e] = "none"
  <2>1. e \in site.dirs
    BY UpFacts DEF IInv
  <2>2. trouble.local[e] \in Kinds /\ trouble.local[e] # "hung"
    BY <1>2, <2>1, SiteFacts DEF IInv, Sides
  <2> QED BY <1>2, <2>2 DEF Kinds
<1> QED BY <1>1, <1>2, DoneCover DEF Missed

(* A walk of this Mac that is not flagged has every file below readable    *)
(* directories (sync_inventory.py:357).                                    *)
THEOREM WalkFlagTells == Spec => []FlagTells
<1>1. IInv => FlagTells
  BY UnflaggedCover DEF FlagTells
<1> QED BY <1>1, InitInv, WalkInv, PTL DEF Spec

\* A file is in one directory.
LEMMA OneDirectory ==
  ASSUME TypeInv, NEW d \in site.dirs, NEW f \in site.files[d]
  PROVE  Directory(f) = d
BY SiteFacts DEF Directory

\* A file that both Macs have and the peer lists is listed here,
LEMMA ListedHere ==
  ASSUME IInv, pc = "planned", ~site.allow, ~clockset, NEW f, Plain(f), f \in out["remote"],
         f \in DOMAIN home["local"]
  PROVE  f \in out["local"]
<1>1. PICK d \in site.dirs : f \in Emitted("remote", d) /\ Visible("remote", d)
  BY DEF IInv, SeenInv, Sides
<1>2. Directory(f) = d
  BY <1>1, OneDirectory DEF Emitted, IInv
<1>3. Visible("local", d) /\ f \in Emitted("local", d)
  BY <1>1, <1>2 DEF Plain, Emitted, Sides
<1>4. ~cut /\ ~hung /\ LocalDone
  BY DEF IInv, PcInv, LocalDone, Ended
<1> QED BY <1>2, <1>3, <1>4, UnflaggedCover DEF Plain

\* and the other way round, if the peer's walk is complete.
LEMMA ListedThere ==
  ASSUME IInv, pc = "planned", complete, ~late, ~clockset, NEW f, Plain(f), f \in out["local"],
         f \in DOMAIN home["remote"]
  PROVE  f \in out["remote"]
<1>1. PICK d \in site.dirs : f \in Emitted("local", d) /\ Visible("local", d)
  BY DEF IInv, SeenInv, Sides
<1>2. Directory(f) = d
  BY <1>1, OneDirectory DEF Emitted, IInv
<1>3. Visible("remote", d) /\ f \in Emitted("remote", d)
  BY <1>1, <1>2 DEF Plain, Emitted, Sides
<1>4. ~marked /\ pc \notin RemotePcs
  BY DEF IInv, PcInv, RemotePcs
<1> QED BY <1>3, <1>4 DEF IInv, RemoteCover, RemoteCounts

(* No plan puts an older file in the place of a newer one because a walk   *)
(* missed it: the guard refuses, or what is not listed is unknown          *)
(* (sync_inventory.py:388, sync_plan.py:57).                               *)
THEOREM WalkNewestKept == Spec => []NewestKept
<1>1. IInv => NewestKept
  <2> SUFFICES ASSUME IInv, pc = "planned", ~site.allow, ~clockset, ~(late /\ complete),
                      NEW f \in Files, Plain(f)
               PROVE  Kept(f)
    BY DEF NewestKept
  <2>1. \A side \in Sides : \A g \in DOMAIN home[side] : home[side][g].mtime \in Nat
    BY SiteFacts DEF IInv, FileMeta
  <2>2. ASSUME f \in Pulled, NewerAt("local", "remote", f) PROVE FALSE
    <3>1. f \in out["remote"] /\ f \in DOMAIN home["local"] /\ f \in DOMAIN home["remote"]
          /\ home["local"][f].mtime > home["remote"][f].mtime
      BY <2>2 DEF Pulled, ToPull, Inv, NewerAt
    <3>2. f \in out["local"]
      BY <3>1, ListedHere
    <3>3. home["remote"][f].mtime > home["local"][f].mtime
      BY <2>2, <3>1, <3>2 DEF Pulled, ToPull, Inv, RemoteWins
    <3> QED BY <2>1, <3>1, <3>3 DEF Sides
  <2>3. ASSUME f \in Pushed, NewerAt("remote", "local", f) PROVE FALSE
    <3>1. f \in out["local"] /\ f \in DOMAIN home["local"] /\ f \in DOMAIN home["remote"]
          /\ home["remote"][f].mtime > home["local"][f].mtime
      BY <2>3 DEF Pushed, ToPush, Inv, NewerAt
    <3>2. f \in out["remote"] \/ complete
      BY <2>3 DEF Pushed, ToPush, Inv
    <3>3. f \in out["remote"]
      BY <3>1, <3>2, ListedThere
    <3>4. home["local"][f].mtime > home["remote"][f].mtime
      BY <2>3, <3>1, <3>3 DEF Pushed, ToPush, Inv, LocalWins
    <3> QED BY <2>1, <3>1, <3>4 DEF Sides
  <2> QED BY <2>2, <2>3 DEF Kept
<1> QED BY <1>1, InitInv, WalkInv, PTL DEF Spec
=============================================================================
