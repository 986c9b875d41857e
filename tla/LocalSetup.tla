----------------------------- MODULE LocalSetup -----------------------------
(***************************************************************************)
(* The commands that write cluster.toml and what is made from it: `init`,  *)
(* `keychain push | pull | push-peer`, `config refresh-tb`, the            *)
(* configuration step of a remote install and `service install |           *)
(* uninstall`.  No lock keeps them apart; each may die at any step.        *)
(***************************************************************************)
EXTENDS ConfigFiles

CONSTANTS
  Sites,   \* what may happen: macs, commands, how many in all, faults, first contents
  Procs,   \* processes
  Idle     \* a process that runs no command

VARIABLES
  site,    \* the setting at hand; it never changes
  proc,    \* proc[p]: the command of the process, or Idle
  had,     \* ghost: had[m], a complete file was on the Mac's disk to be kept
  count,   \* commands so far
  faults   \* failures so far

setupVars == <<fileVars, site, proc, had, count, faults>>

Macs == site.macs
Kinds == {"init", "pull", "push", "refresh", "plant", "deliver", "service", "unservice"}

Steps == {"bind", "peek", "fetch", "draft", "save", "put", "read", "drop", "add", "edit", "reread",
          "copy", "trunc", "fill", "local", "ask", "send", "pack", "keep", "plan", "look",
          "bootout", "bootstrap", "remove", "unlink"}

\* A command at work: the Mac it is writing to, the text in its hands, what the file was.
Process(s) ==
  [cmd : s.commands, pc : Steps, mac : s.macs, text : Contents, agent : Agents,
   drafted : BOOLEAN, edited : BOOLEAN, over : BOOLEAN, alone : BOOLEAN, was : Contents]

ASSUME SetupAssumption ==
  \A s \in Sites :
    /\ s.count \in Nat /\ s.faults \in Nat /\ s.procs \subseteq Procs
    /\ \A c \in s.commands : /\ c.kind \in Kinds /\ c.mac \in s.macs /\ c.to \in s.macs
                             /\ {c.force, c.nokc} \subseteq BOOLEAN
    /\ {s.disk, s.bak} \subseteq [s.macs -> Contents]
    /\ s.kc \in [s.macs -> Whole \cup {Absent}]
    /\ Idle \notin Process(s)

SetupTypeOK ==
  /\ site \in Sites /\ FilesTypeOK(Macs)
  /\ proc \in [site.procs -> Process(site) \cup {Idle}]
  /\ had \in [Macs -> BOOLEAN]
  /\ count \in 0..site.count /\ faults \in 0..site.faults

SetupInit ==
  /\ site \in Sites
  /\ disk = site.disk /\ kc = site.kc
  /\ bak = [m \in Macs |-> [name \in BakNames |->
       IF name = <<"bak", 0>> THEN site.bak[m] ELSE Absent]]
  /\ plist = [m \in Macs |-> Absent] /\ loaded = plist
  /\ proc = [p \in site.procs |-> Idle]
  /\ had = [m \in Macs |-> Loads(m)]
  /\ now = 0 /\ count = 0 /\ faults = 0

Fault == faults < site.faults /\ faults' = faults + 1
Working == {p \in site.procs : proc[p] # Idle}

First == [init |-> "peek", pull |-> "fetch", push |-> "read", refresh |-> "reread",
          plant |-> "local", deliver |-> "bind", service |-> "plan", unservice |-> "remove"]

\* The Mac whose configuration the command is about.
Target(c) == IF c.kind \in {"plant", "deliver"} THEN c.to ELSE c.mac

Invokes(p, c) ==
  /\ proc[p] = Idle /\ count < site.count /\ count' = count + 1
  /\ proc' = [q \in site.procs |->
       IF q = p THEN [cmd |-> c, pc |-> First[c.kind], mac |-> c.mac, text |-> Absent,
                      drafted |-> FALSE, edited |-> FALSE, over |-> FALSE, agent |-> Default,
                      alone |-> Working = {}, was |-> disk[Target(c)]]
       ELSE IF proc[q] = Idle THEN Idle ELSE [proc[q] EXCEPT !.alone = FALSE]]
  /\ UNCHANGED <<fileVars, site, had, faults>>

At(p, pc) == proc[p] # Idle /\ proc[p].pc = pc
Kind(p) == proc[p].cmd.kind
Mac(p) == proc[p].mac
Text(p) == proc[p].text

Go(p, pc) == proc' = [proc EXCEPT ![p].pc = pc]
Goes(p, pc, text) == proc' = [proc EXCEPT ![p].pc = pc, ![p].text = text]
Exits(p) == proc' = [proc EXCEPT ![p] = Idle]
Fails(p) == Exits(p)

Rest == UNCHANGED <<site, had, count, faults>>
NoFile == UNCHANGED fileVars

-----------------------------------------------------------------------------
(* init and keychain pull.                                                 *)

\* Seeded fault: the file is not looked for.
Present_Never(p) == FALSE

Present(p) == Exists(Mac(p)) /\ ~proc[p].cmd.force

\* The keychain first, then the file, then the template.
Peek(p) ==
  /\ At(p, "peek")
  /\ Go(p, IF Present(p) THEN "edit"
           ELSE IF ~proc[p].cmd.nokc /\ kc[Mac(p)] # Absent THEN "fetch" ELSE "draft")
  /\ NoFile /\ Rest

\* init forces it: it has decided already.
Fetch(p) ==
  /\ At(p, "fetch") /\ kc[Mac(p)] # Absent /\ ~(Kind(p) = "pull" /\ Present(p))
  /\ proc' = [proc EXCEPT ![p].pc = "save", ![p].text = kc[Mac(p)], ![p].over = Exists(Mac(p))]
  /\ NoFile /\ Rest

NoFetch(p) ==
  /\ At(p, "fetch")
  /\ \/ (kc[Mac(p)] = Absent \/ (Kind(p) = "pull" /\ Present(p))) /\ UNCHANGED faults
     \/ Fault                                        \* the keychain is locked
  /\ IF Kind(p) = "init" THEN Go(p, "draft") ELSE Fails(p)
  /\ NoFile /\ UNCHANGED <<site, had, count>>

Draft(p) ==
  /\ At(p, "draft")
  /\ IF Present(p) THEN Fails(p)
     ELSE proc' = [proc EXCEPT ![p].pc = "save", ![p].over = Exists(Mac(p)), ![p].drafted = TRUE,
                               ![p].text = [base |-> Template, edits |-> {}]]
  /\ NoFile /\ Rest

\* The old file goes to its backup, if the caller wants one.
Save(p) ==
  /\ At(p, "save") /\ Go(p, "put")
  /\ IF proc[p].over /\ Exists(Mac(p)) THEN MovedAway(Mac(p)) ELSE UNCHANGED <<disk, bak>>
  /\ UNCHANGED <<kc, plist, loaded, now>> /\ Rest

\* An install or a push-peer other than p is between its look at the file and its end.
Overwriting(m, p) ==
  \E q \in Working \ {p} :
    Mac(q) = m /\ Kind(q) \in {"plant", "deliver"} /\ proc[q].pc \in {"trunc", "fill"}

\* What is put there while somebody else writes is not counted on.
Keeps(m, p) == had' = [had EXCEPT ![m] = @ \/ ~Overwriting(m, p)]

\* What follows a write: a template is pushed, then targets are set.
PutText(p) ==
  /\ At(p, "put") /\ Put(Mac(p), Text(p)) /\ Keeps(Mac(p), p)
  /\ Go(p, IF proc[p].edited \/ (Kind(p) = "init" /\ proc[p].drafted /\ ~proc[p].cmd.nokc)
           THEN "read" ELSE "edit")
  /\ UNCHANGED <<bak, kc, plist, loaded, now, site, count, faults>>

-----------------------------------------------------------------------------
(* keychain push, and the targets that init, pull and push set at the end. *)

\* Where a push leads: to the targets, or after them to the end.
Onwards(p) == IF proc[p].edited THEN Exits(p) ELSE Go(p, "edit")
PushFails(p) == IF Kind(p) = "init" \/ proc[p].edited THEN Onwards(p) ELSE Fails(p)

Pushable(p) == Loads(Mac(p))

ReadFile(p) ==
  /\ At(p, "read")
  /\ IF Pushable(p) THEN Goes(p, "drop", disk[Mac(p)]) ELSE PushFails(p)
  /\ NoFile /\ Rest

Drop(p) ==
  /\ At(p, "drop") /\ Dropped(Mac(p)) /\ Go(p, "add")
  /\ UNCHANGED <<disk, bak, plist, loaded, now>> /\ Rest

Add(p) ==
  /\ At(p, "add") /\ Added(Mac(p), Text(p)) /\ Onwards(p)
  /\ UNCHANGED <<disk, bak, plist, loaded, now>> /\ Rest

\* Locked, or a prompt nobody answers: the item is gone.
AddFails(p) ==
  /\ At(p, "add") /\ Fault /\ PushFails(p)
  /\ NoFile /\ UNCHANGED <<site, had, count>>

\* Seeded fault: the new targets stay on the disk.
Pushes_Never(p, text) ==
  proc' = [proc EXCEPT ![p].pc = "save", ![p].text = text, ![p].over = TRUE]

\* apply_keychain_ssh_targets pushes what it has written.
Pushes(p, text) ==
  proc' = [proc EXCEPT ![p].pc = "save", ![p].text = text, ![p].over = TRUE, ![p].edited = TRUE]

(* The file is written anew from what was loaded.  dump_toml writes no     *)
(* Thunderbolt ids and no comments, and targets of the owner's go.         *)
EditTargets(p) ==
  /\ At(p, "edit")
  /\ IF Loads(Mac(p)) /\ "targets" \notin disk[Mac(p)].edits
       THEN Pushes(p, [disk[Mac(p)] EXCEPT !.edits = {"targets"}])
       ELSE Exits(p)
  /\ NoFile /\ Rest

-----------------------------------------------------------------------------
(* config refresh-tb --apply, and the configuration step of a remote       *)
(* install: both write in place, after a copy.                             *)

Reread(p) ==
  /\ At(p, "reread")
  /\ IF Loads(Mac(p)) /\ "ids" \notin disk[Mac(p)].edits
       THEN Goes(p, "copy", [disk[Mac(p)] EXCEPT !.edits = @ \cup {"ids"}])
       ELSE Exits(p)
  /\ NoFile /\ Rest

\* The text that was read, under a name with the second.
Copy(p) ==
  /\ At(p, "copy") /\ Go(p, "trunc")
  /\ Keep(Mac(p), <<"refresh", now>>, [Text(p) EXCEPT !.edits = @ \ {"ids"}])
  /\ UNCHANGED <<disk, kc, plist, loaded, now>> /\ Rest

\* A remote install loads the configuration first; it sends the file as it is later.
Bind(p) ==
  /\ At(p, "bind")
  /\ IF Loads(Mac(p)) THEN Go(p, "pack") ELSE Fails(p)
  /\ NoFile /\ Rest

Pack(p) ==
  /\ At(p, "pack")
  /\ IF Exists(Mac(p))
       THEN proc' = [proc EXCEPT ![p].pc = "keep", ![p].text = disk[Mac(p)],
                                 ![p].mac = proc[p].cmd.to]
       ELSE Fails(p)
  /\ NoFile /\ Rest

\* Installs of one Mac exclude each other by automation.lock, and give up.
Delivering(m) ==
  \E q \in Working : Kind(q) = "deliver" /\ Mac(q) = m /\ proc[q].pc \in {"trunc", "fill"}

\* Seeded fault: the file that is there is not copied first.
Aside_Never(m) == UNCHANGED bak

\* cp -p to .bak, whatever was in .bak.
Aside(m) == IF Exists(m) THEN Keep(m, <<"bak", 0>>, disk[m]) ELSE UNCHANGED bak

\* --preserve-config keeps what is there.  The text may be torn, if it was being written.
KeepFile(p) ==
  /\ At(p, "keep")
  /\ IF Present(p) \/ Delivering(Mac(p)) THEN Exits(p) /\ UNCHANGED <<bak, had>>
     ELSE /\ Go(p, "trunc") /\ Aside(Mac(p))
          /\ had' = [had EXCEPT ![Mac(p)] = @ /\ Text(p) \in Whole]
  /\ UNCHANGED <<disk, kc, plist, loaded, now, site, count, faults>>

Truncate(p) ==
  /\ At(p, "trunc") /\ Put(Mac(p), Torn) /\ Go(p, "fill")
  /\ UNCHANGED <<bak, kc, plist, loaded, now>> /\ Rest

\* After a push-peer, `keychain push` runs on the peer.
Fill(p) ==
  /\ At(p, "fill") /\ Put(Mac(p), Text(p))
  /\ IF Text(p) \in Whole THEN Keeps(Mac(p), p) ELSE UNCHANGED had
  /\ IF Kind(p) = "plant" THEN Go(p, "read") ELSE Exits(p)
  /\ UNCHANGED <<bak, kc, plist, loaded, now, site, count, faults>>

-----------------------------------------------------------------------------
(* keychain push-peer.                                                     *)

\* Without a file of its own it takes the keychain's.
Local(p) ==
  /\ At(p, "local")
  /\ IF Loads(Mac(p)) \/ (~Exists(Mac(p)) /\ kc[Mac(p)] # Absent) THEN Go(p, "ask") ELSE Fails(p)
  /\ IF Exists(Mac(p)) \/ kc[Mac(p)] = Absent THEN UNCHANGED <<disk, had>>
     ELSE Put(Mac(p), kc[Mac(p)]) /\ Keeps(Mac(p), p)
  /\ UNCHANGED <<bak, kc, plist, loaded, now, site, count, faults>>

\* Without --force the peer is asked first.
Ask(p) ==
  /\ At(p, "ask")
  /\ IF Exists(proc[p].cmd.to) /\ ~proc[p].cmd.force THEN Fails(p) ELSE Go(p, "send")
  /\ NoFile /\ Rest

\* scp writes over the peer's file, with no backup.
Send(p) ==
  /\ At(p, "send")
  /\ IF ~Exists(Mac(p)) THEN Fails(p) /\ UNCHANGED <<disk, had>>
     ELSE /\ proc' = [proc EXCEPT ![p].pc = "fill", ![p].text = disk[Mac(p)],
                                  ![p].mac = proc[p].cmd.to]
          /\ Put(proc[p].cmd.to, Torn)
          /\ had' = [had EXCEPT ![proc[p].cmd.to] = FALSE]
  /\ UNCHANGED <<bak, kc, plist, loaded, now, site, count, faults>>

-----------------------------------------------------------------------------
(* service install and uninstall.                                          *)

Plan(p) ==
  /\ At(p, "plan")
  /\ proc' = [proc EXCEPT ![p].pc = "look", ![p].agent = AgentFor(Mac(p))]
  /\ NoFile /\ Rest

Look(p) ==
  /\ At(p, "look")
  /\ IF UpToDate(Mac(p), proc[p].agent) THEN Exits(p) /\ UNCHANGED plist
     ELSE Rendered(Mac(p), proc[p].agent) /\ Go(p, "bootout")
  /\ UNCHANGED <<disk, bak, kc, loaded, now>> /\ Rest

BootsOut(p) ==
  /\ At(p, "bootout") /\ Unloaded(Mac(p)) /\ Go(p, "bootstrap")
  /\ UNCHANGED <<disk, bak, kc, plist, now>> /\ Rest

\* Its exit code is not looked at.
BootOutFails(p) ==
  /\ At(p, "bootout") /\ Fault /\ Go(p, "bootstrap")
  /\ NoFile /\ UNCHANGED <<site, had, count>>

BootStrap(p) ==
  /\ At(p, "bootstrap") /\ Bootstrapped(Mac(p)) /\ Exits(p)
  /\ UNCHANGED <<disk, bak, kc, plist, now>> /\ Rest

Remove(p) ==
  /\ At(p, "remove") /\ Unloaded(Mac(p)) /\ Go(p, "unlink")
  /\ UNCHANGED <<disk, bak, kc, plist, now>> /\ Rest

Unlink(p) ==
  /\ At(p, "unlink") /\ Rendered(Mac(p), Absent) /\ Exits(p)
  /\ UNCHANGED <<disk, bak, kc, loaded, now>> /\ Rest

-----------------------------------------------------------------------------
GetsKilled(p) ==
  /\ proc[p] # Idle /\ Fault /\ Exits(p)
  /\ NoFile /\ UNCHANGED <<site, had, count>>

SecondPasses ==
  /\ now < MaxSecond /\ now' = now + 1
  /\ UNCHANGED <<disk, bak, kc, plist, loaded, site, proc, had, count, faults>>

Step(p) ==
  \/ Peek(p) \/ Fetch(p) \/ NoFetch(p) \/ Draft(p) \/ Save(p) \/ PutText(p)
  \/ ReadFile(p) \/ Drop(p) \/ Add(p) \/ AddFails(p) \/ EditTargets(p)
  \/ Reread(p) \/ Copy(p) \/ Bind(p) \/ Pack(p) \/ KeepFile(p) \/ Truncate(p) \/ Fill(p)
  \/ Local(p) \/ Ask(p) \/ Send(p)
  \/ Plan(p) \/ Look(p) \/ BootsOut(p) \/ BootOutFails(p) \/ BootStrap(p)
  \/ Remove(p) \/ Unlink(p)

SetupNext ==
  \/ \E p \in site.procs : Step(p) \/ GetsKilled(p) \/ \E c \in site.commands : Invokes(p, c)
  \/ SecondPasses

SetupSpec == SetupInit /\ [][SetupNext]_setupVars

-----------------------------------------------------------------------------
(* Properties.                                                             *)

\* Whole texts that are on the Mac, or that a command is about to write there.
Copies(m) ==
  ({disk[m], kc[m]} \cup {bak[m][name] : name \in BakNames}
     \cup {Text(p) : p \in {q \in Working : Mac(q) = m}}) \cap Whole

(* Whatever command dies wherever, and whatever runs at the same time, a   *)
(* Mac that had a complete cluster.toml still has one on its disk, in a    *)
(* backup or in its keychain, or is about to get one.  Only push-peer,     *)
(* which makes no backup (keychain_service.py:326), and an install from a  *)
(* Mac whose file is just being written may take the last one away.  After *)
(* one failure a torn file may replace the backup                          *)
(* (remote_install_script.py:118), so with two of them nothing is left.    *)
Recoverable == faults <= 1 => \A m \in Macs : had[m] => Copies(m) # {}

\* The command p ends undisturbed in this step.
EndsAlone(p) == proc[p] # Idle /\ proc[p].alone /\ proc'[p] = Idle /\ faults' = 0

(* After `keychain push` and `pull` keychain and disk agree, also when the *)
(* last thing they do is to set the targets (init_service.py:153): a later *)
(* `init --force` restores what was there.                                 *)
KeychainAgrees ==
  [][\A p \in site.procs :
       EndsAlone(p) /\ Kind(p) \in {"push", "pull"} /\ kc'[Mac(p)] # Absent /\ disk'[Mac(p)] \in Whole
         => (Kind(p) = "pull" /\ proc[p].was # Absent /\ ~proc[p].cmd.force)
            \/ kc'[Mac(p)] = disk'[Mac(p)]]_setupVars

\* A command without --force that found a complete configuration ends alone.
KeepsAlone(p) == EndsAlone(p) /\ ~proc[p].cmd.force /\ proc[p].was \in Whole
Left(p) == disk'[Target(proc[p].cmd)]

(* A command without --force leaves the configuration of its Mac what it   *)
(* says, as long as it runs alone: nothing is lost on the way through      *)
(* backup, template and keychain.  Setting the ssh targets for the first   *)
(* time is the one thing that takes ids and comments away                  *)
(* (init_service.py:153).                                                  *)
UnforcedKeeps ==
  [][\A p \in site.procs : KeepsAlone(p) =>
       /\ Left(p) \in Whole
       /\ Left(p).base = proc[p].was.base
       /\ \/ proc[p].was.edits \subseteq Left(p).edits
          \/ /\ Kind(p) \in {"init", "pull", "push"}
             /\ "targets" \in Left(p).edits \ proc[p].was.edits]_setupVars

(* When nothing is at work and nothing has failed, launchd runs what the   *)
(* plist says, whichever installs have overlapped.  An uninstall that an   *)
(* install overtakes may leave a loaded agent without a plist              *)
(* (launchagent.py:162), which the next install replaces.                  *)
AgentFresh ==
  Working = {} /\ faults = 0 =>
    \A m \in Macs : \/ loaded[m] = plist[m]
                    \/ plist[m] = Absent /\ (\E p, q \in site.procs : p # q)
=============================================================================
