----------------------------- MODULE MCSyncHome -----------------------------
(* SyncHome on a few clusters, each with a few command lines.              *)
EXTENDS SyncHome

TwoWay(peers) ==
  [quick |-> FALSE, push_only |-> FALSE, pull_only |-> FALSE, dry_run |-> FALSE,
   safetynet |-> TRUE, verify |-> FALSE, allow_partial |-> FALSE,
   max_files |-> NoLimit, peers |-> peers]

Plain == TwoWay({1})
Quick == [Plain EXCEPT !.quick = TRUE]
Limited1 == [Plain EXCEPT !.max_files = 1]

Pair(paths, large, options, until) ==
  [peers |-> {1}, paths |-> paths, large |-> large, options |-> options, until |-> until]

\* One small file, and everything that changes what a run leaves behind.
OneFile ==
  Pair({1}, {},
       {Plain, Quick, Limited1, [Plain EXCEPT !.pull_only = TRUE, !.verify = TRUE],
        [Plain EXCEPT !.push_only = TRUE, !.allow_partial = TRUE],
        [Plain EXCEPT !.dry_run = TRUE]}, 5)

\* A small file and a large one.
LargeFile == Pair({1, 2}, {2}, {Quick}, 3)

\* Two small files, of which a limit lets only one through at a time.
TwoFiles == Pair({1, 2}, {}, {Limited1, Quick}, 3)

\* One local inventory for two peers.
TwoPeers(options) ==
  [peers |-> {1, 2}, paths |-> {1}, large |-> {}, options |-> options, until |-> 4]

AllSites ==
  {OneFile, LargeFile, TwoFiles, TwoPeers({TwoWay({1, 2}), Quick})}

\* A file that only --quick does not see.
PullThenQuick == {Pair({1}, {}, {[Plain EXCEPT !.pull_only = TRUE], Quick}, 5)}
=============================================================================
