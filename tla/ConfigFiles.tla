----------------------------- MODULE ConfigFiles -----------------------------
(***************************************************************************)
(* Where a Mac keeps cluster.toml: the file, its backups and the keychain  *)
(* (adapters/filesystem.py, adapters/keychain_macos.py), and the heal      *)
(* agent whose plist is made from it (adapters/launchagent.py).            *)
(***************************************************************************)
EXTENDS Integers

CONSTANTS
  Bases,      \* configurations as written by hand, told apart by what they say
  Template,   \* the one that `init` writes
  Absent,     \* no file, no keychain item, no agent
  Torn,       \* the first part of a text: it does not load
  Default,    \* what the agent is given when no configuration loads
  MaxSecond   \* bound: seconds told apart in the names of backups

VARIABLES
  disk,     \* disk[m]: cluster.toml
  bak,      \* bak[m]: the backups, by name
  kc,       \* kc[m]: the text in the login keychain
  plist,    \* plist[m]: what the agent's plist says
  loaded,   \* loaded[m]: what launchd runs
  now       \* the second

fileVars == <<disk, bak, kc, plist, loaded, now>>

\* What is in a text beside what it says: the ssh targets and the live Thunderbolt
\* ids that commands add, comments and ssh targets of its owner.
Edits == {"targets", "ids", "own"}
Whole == [base : Bases, edits : SUBSET Edits]
Contents == Whole \cup {Absent, Torn}

ASSUME ConfigAssumption ==
  /\ Template \in Bases /\ MaxSecond \in Nat
  /\ Absent \notin Bases \cup {Torn, Default} /\ Default \notin Bases
  /\ {Absent, Torn} \cap Whole = {}

Seconds == 0..MaxSecond
BakNames == {<<"bak", 0>>} \cup ({"dated", "refresh"} \X Seconds)
Agents == Bases \cup {Default, Absent}

FilesTypeOK(macs) ==
  /\ disk \in [macs -> Contents]
  /\ bak \in [macs -> [BakNames -> Contents]]
  /\ kc \in [macs -> Whole \cup {Absent}]
  /\ plist \in [macs -> Agents] /\ loaded \in [macs -> Agents]
  /\ now \in Seconds

Exists(m) == disk[m] # Absent
Loads(m) == disk[m] \in Whole

-----------------------------------------------------------------------------
(* write_text_atomic.                                                      *)

\* cluster.toml.bak if that is free, else a name with the second in it.
BackupName(m) ==
  IF bak[m][<<"bak", 0>>] = Absent THEN <<"bak", 0>> ELSE <<"dated", now>>

Put(m, text) == disk' = [disk EXCEPT ![m] = text]
Keep(m, name, text) == bak' = [bak EXCEPT ![m][name] = text]

\* The old file is renamed to its backup: for now there is none.
MovedAway(m) == Keep(m, BackupName(m), disk[m]) /\ Put(m, Absent)

-----------------------------------------------------------------------------
(* The keychain: an item is deleted before it is added again.              *)

Dropped(m) == kc' = [kc EXCEPT ![m] = Absent]
Added(m, text) == kc' = [kc EXCEPT ![m] = text]

-----------------------------------------------------------------------------
(* The agent.                                                              *)

\* heal_interval_seconds of the configuration, or 30 if it does not load.
AgentFor(m) == IF Loads(m) THEN disk[m].base ELSE Default

\* Same plist, and something of that label is loaded.
UpToDate(m, agent) == plist[m] = agent /\ loaded[m] # Absent

Rendered(m, agent) == plist' = [plist EXCEPT ![m] = agent]

\* Seeded fault: the agent is bootstrapped over the one that is loaded.
Unloaded_Skipped(m) == UNCHANGED loaded

Unloaded(m) == loaded' = [loaded EXCEPT ![m] = Absent]

(* launchctl bootstrap: nothing if the label is loaded already, which the  *)
(* code takes for success.                                                 *)
Bootstrapped(m) ==
  loaded' = [loaded EXCEPT ![m] = IF @ # Absent THEN @ ELSE plist[m]]
=============================================================================
