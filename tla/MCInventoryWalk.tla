--------------------------- MODULE MCInventoryWalk ---------------------------
(* InventoryWalk on two small homes.                                       *)
EXTENDS InventoryWalk, TLC

CONSTANTS docs, sub, dot, dev, top

Meta(t) == [mtime |-> t, size |-> 1]
Dated(files, t) == [f \in files |-> Meta(t)]

\* The files are newer here, newer there, or only here and only there.
Homes(files) ==
  {[local |-> Dated(files, l), remote |-> Dated(files, 3 - l)] : l \in {1, 2}}
    \cup {[local |-> Dated({f \in files : f % 2 = i}, 1),
           remote |-> Dated({f \in files : f % 2 # i}, 1)] : i \in {0, 1}}

NoStubs == [side \in Sides |-> {}]

Quiet(dirs) == [d \in dirs |-> "none"]
OneBad(dirs, bad, kinds) == {Quiet(dirs)} \cup {[Quiet(dirs) EXCEPT ![d] = k] : d \in bad, k \in kinds}
Troubles(dirs, safe) ==
  {[local |-> l, remote |-> r] :
     l \in OneBad(dirs, safe, {"hung", "unreadable"}) \cup OneBad(dirs, dirs, {"unreadable"}),
     r \in OneBad(dirs, dirs, {"hung", "unreadable"})}

\* `sync home`: Developer walked in the process, then Documents with its children.
HomeDirs == {docs, sub, dot, dev}
HomeSite ==
  [dirs |-> HomeDirs, roots |-> <<dev, docs>>, prone |-> {docs}, safe |-> {docs, sub, dot},
   dotted |-> {dot}, dev |-> FALSE, force |-> FALSE, allow |-> FALSE, mayfail |-> TRUE,
   up |-> (docs :> {docs} @@ sub :> {docs, sub} @@ dot :> {docs, dot} @@ dev :> {dev}),
   files |-> (docs :> {1} @@ sub :> {2} @@ dot :> {3} @@ dev :> {4}),
   homes |-> Homes(1..4), stubs |-> {NoStubs}, troubles |-> Troubles(HomeDirs, {docs, sub, dot})]

\* --force-icloud and --allow-partial-inventory, with stubs here or there.
StubSite ==
  [HomeSite EXCEPT !.force = TRUE, !.allow = TRUE, !.mayfail = FALSE,
     !.stubs = {[NoStubs EXCEPT ![side] = {1, 4}] : side \in Sides},
     !.troubles = {[local |-> Quiet(HomeDirs), remote |-> Quiet(HomeDirs)]}]

\* `sync dev`: one root, nothing is hidden on the peer.
DevDirs == {top, sub, dot}
DevSite ==
  [dirs |-> DevDirs, roots |-> <<top>>, prone |-> {}, safe |-> DevDirs,
   dotted |-> {dot}, dev |-> TRUE, force |-> FALSE, allow |-> FALSE, mayfail |-> FALSE,
   up |-> (top :> {top} @@ sub :> {top, sub} @@ dot :> {top, dot}),
   files |-> (top :> {1} @@ sub :> {2} @@ dot :> {3}),
   homes |-> Homes(1..3), stubs |-> {NoStubs}, troubles |-> Troubles(DevDirs, DevDirs)]

DevOnly == {DevSite}
HomeOnly == {HomeSite}
AllSites == {HomeSite, StubSite, [StubSite EXCEPT !.allow = FALSE], DevSite}
=============================================================================
