------------------------------ MODULE WinkitVM ------------------------------
(***************************************************************************)
(* Windows cells in winkit virtual machines (internal/engine/winkit): the  *)
(* installer media, the image all cells of a stack share, agent runs,      *)
(* `cell start` (detached) and `cell stop`.                                *)
(*                                                                         *)
(* winkit itself is another module: it fetches media, builds an image,     *)
(* starts a VM that outlives the command, and keeps one record per cell    *)
(* (process and image) which it never cleans up after a crash.             *)
(*                                                                         *)
(* A VM is named by the command that started it.                           *)
(***************************************************************************)

CONSTANTS Cells, Runs, Starts, Stops, \* commands, each started once
          CellOf,                     \* per command
          None

VARIABLES media,    \* the cached ISOs
          image,    \* the image file of the cells' stack: "none", "broken" or "built"
          vm,       \* per command that starts one
          record,   \* per cell: the VM in its state directory, or None
          share,    \* the run that serves its project on the fixed port, or None
          proc      \* per command

winkitVars == <<media, image, vm, record, share, proc>>

Launchers == Runs \cup Starts
Procs == Launchers \cup Stops
ASSUME CommandsAssumption ==
    /\ Launchers \cap Stops = {}
    /\ CellOf \in [Procs -> Cells]

\* "mct" and "full" are complete; "boot" has no install.wim.
ISOs == {"mct", "full", "boot"}

\* "left": a launcher whose stop of its VM failed; "killed": a `cell stop` that
\* has sent SIGKILL.
Points ==
    {"idle", "install", "share", "look", "boot", "ssh", "agent", "leave", "detached", "dead",
     "ended", "left", "graceful", "wait30", "term", "wait10", "stopped", "killed"}

WinkitTypes ==
    /\ media \subseteq ISOs
    /\ image \in {"none", "broken", "built"}
    /\ vm \in [Launchers -> {"none", "up", "ending", "down"}]
    /\ record \in [Cells -> Launchers \cup {None}]
    /\ share \in Runs \cup {None}
    /\ proc \in [Procs -> [pc : Points, iso : ISOs \cup {"own", None}, target : Launchers \cup {None}]]

WinkitInit ==
    /\ media = {}
    /\ image = "none"
    /\ vm = [p \in Launchers |-> "none"]
    /\ record = [c \in Cells |-> None]
    /\ share = None
    /\ proc = [p \in Procs |-> [pc |-> "idle", iso |-> None, target |-> None]]

Alive(p) == p \in Launchers /\ vm[p] \in {"up", "ending"}
Goto(p, pc) == proc' = [proc EXCEPT ![p].pc = pc]
\* The run's SFTP server goes with the run.
Release(p) == share' = IF share = p THEN None ELSE share

-----------------------------------------------------------------------------
(* download.go, build.go, run.go: ensureImage *)

\* winkit's own fetch: what is cached, else the MCT catalog, else boot-only
\* media assembled from UUP dump, else nothing.
Fetched(m) ==
    IF "mct" \in m THEN {"mct"} ELSE IF "boot" \in m THEN {"boot"} ELSE {"mct", "boot", None}

\* Mutant: whatever winkit fetched is used.
DownloadAnyISO(m) == IF "full" \in m THEN {"full"} ELSE Fetched(m)
\* The first ISO fetched is used when it is complete; boot-only media and a
\* failure lead to complete media from UUP dump, which may fail as well.
DownloadWindowsISO(m) ==
    IF "full" \in m THEN {"full"} ELSE (Fetched(m) \ {"boot", None}) \cup {"full", None}
\* Boot-only media stays in the cache when it was fetched on the way.
Leftovers(m, iso) == IF iso \in {"full", None} /\ "full" \notin m THEN {{}, {"boot"}} ELSE {{}}

\* With the ISO, the VirtIO drivers are needed, and the build starts.
MediaFound(p, iso) ==
    \/ Goto(p, "ended")
    \/ iso # None /\ proc' = [proc EXCEPT ![p].pc = "install", ![p].iso = iso]

\* The image's file is there; or the user, or --force, has it built; or not.
\* An ISO the user names ("own", by DEVCELL_WINKIT_WINDOWS_ISO or
\* winkit_windows_iso) is used when it is a disc image, whatever is on it;
\* without one, and when it is missing or invalid, media are cached or fetched.
EnsureImage(p) ==
    /\ p \in Launchers /\ proc[p].pc = "idle"
    /\ \/ image # "none" /\ Goto(p, IF p \in Runs THEN "share" ELSE "look") /\ UNCHANGED media
       \/ image = "none" /\ Goto(p, "ended") /\ UNCHANGED media
       \/ /\ image = "none"
          /\ \/ MediaFound(p, "own") /\ UNCHANGED media
             \/ \E iso \in DownloadWindowsISO(media) : \E left \in Leftovers(media, iso) :
                   /\ media' = media \cup ((left \cup {iso}) \ {None})
                   /\ MediaFound(p, iso)
    /\ UNCHANGED <<image, vm, record, share>>

\* A disk that is found too small fails the build, and stays.
Install(p) ==
    /\ proc[p].pc = "install"
    /\ \E made \in {"built", "broken", "failed"} :
          /\ image' = IF made = "failed" THEN image ELSE made
          /\ proc' = [proc EXCEPT ![p].iso = None,
                                  ![p].pc = IF made # "built" THEN "ended"
                                            ELSE IF p \in Runs THEN "share" ELSE "look"]
    /\ UNCHANGED <<media, vm, record, share>>

-----------------------------------------------------------------------------
(* run.go: Run, detachVM *)

\* The guest mounts the project from one port, the same for every cell.
Share(p) ==
    /\ p \in Runs /\ proc[p].pc = "share"
    /\ IF share = None THEN share' = p /\ Goto(p, "look") ELSE Goto(p, "ended") /\ UNCHANGED share
    /\ UNCHANGED <<media, image, vm, record>>

\* discover.go, RunningVMForImage: a live VM in the records of any cell.
Look(p) ==
    /\ proc[p].pc = "look"
    /\ IF \E c \in Cells : Alive(record[c])
       THEN Goto(p, "ended") /\ Release(p)
       ELSE Goto(p, "boot") /\ UNCHANGED share
    /\ UNCHANGED <<media, image, vm, record>>

\* winkit.Start refuses a second VM of the cell, and may fail.
Boot(p) ==
    /\ proc[p].pc = "boot"
    /\ LET c == CellOf[p] IN
       \/ /\ ~Alive(record[c])
          /\ vm' = [vm EXCEPT ![p] = "up"]
          /\ record' = [record EXCEPT ![c] = p]
          /\ Goto(p, "ssh") /\ UNCHANGED share
       \/ Goto(p, "ended") /\ Release(p) /\ UNCHANGED <<vm, record>>
    /\ UNCHANGED <<media, image>>

\* Ten minutes for the guest to answer, or the user interrupts.
Answers(p) ==
    /\ proc[p].pc = "ssh" /\ vm[p] = "up"
    /\ Goto(p, IF p \in Runs THEN "agent" ELSE "detached")
    /\ UNCHANGED <<media, image, vm, record, share>>
\* Mutant: only a run stops the VM of a boot that failed.
SilentKept(p) ==
    /\ proc[p].pc = "ssh"
    /\ Goto(p, IF p \in Runs THEN "leave" ELSE "ended")
    /\ UNCHANGED <<media, image, vm, record, share>>
Silent(p) ==
    /\ proc[p].pc = "ssh"
    /\ Goto(p, "leave")
    /\ UNCHANGED <<media, image, vm, record, share>>

AgentExits(p) ==
    /\ proc[p].pc = "agent"
    /\ Goto(p, "leave")
    /\ UNCHANGED <<media, image, vm, record, share>>

\* machine.Stop: deferred by Run, called by detachVM when the guest is silent.
\* Run only logs that it failed, detachVM not even that.
Leave(p) ==
    /\ proc[p].pc = "leave"
    /\ \/ vm' = [vm EXCEPT ![p] = "down"] /\ Goto(p, "ended")
       \/ UNCHANGED vm /\ Goto(p, "left")
    /\ Release(p)
    /\ UNCHANGED <<media, image, record>>

\* A command that is killed leaves its VM running.
Die(p) ==
    /\ p \in Launchers /\ proc[p].pc \notin {"idle", "ended", "left", "detached", "dead"}
    /\ proc' = [proc EXCEPT ![p].pc = "dead", ![p].iso = None]
    /\ Release(p)
    /\ UNCHANGED <<media, image, vm, record>>

-----------------------------------------------------------------------------
(* run.go: StopVM *)

StartStop(s) ==
    /\ s \in Stops /\ proc[s].pc = "idle"
    /\ LET found == record[CellOf[s]] IN
       IF Alive(found)
       THEN proc' = [proc EXCEPT ![s].pc = "graceful", ![s].target = found]
       ELSE Goto(s, "ended")
    /\ UNCHANGED <<media, image, vm, record, share>>

Tell(p) == vm' = [vm EXCEPT ![p] = IF @ = "up" THEN "ending" ELSE @]

\* The guest is asked to shut down over ssh, which may fail; then SIGTERM.
Graceful(s) ==
    /\ proc[s].pc = "graceful"
    /\ \/ Tell(proc[s].target) /\ Goto(s, "wait30")
       \/ Goto(s, "term") /\ UNCHANGED vm
    /\ UNCHANGED <<media, image, record, share>>

Terminate(s) ==
    /\ proc[s].pc = "term"
    /\ Tell(proc[s].target) /\ Goto(s, "wait10")
    /\ UNCHANGED <<media, image, record, share>>

\* The record that is removed is the one under the VM's name, that is the
\* cell's, whatever VM it is for by now.
Remove(s) == record' = [record EXCEPT ![CellOf[s]] = None]

Gone(s) ==
    /\ proc[s].pc \in {"wait30", "wait10"} /\ ~Alive(proc[s].target)
    /\ Remove(s) /\ Goto(s, "stopped")
    /\ UNCHANGED <<media, image, vm, share>>

TimesOut(s) ==
    /\ proc[s].pc = "wait30" /\ Alive(proc[s].target)
    /\ Goto(s, "term")
    /\ UNCHANGED <<media, image, vm, record, share>>

\* SIGKILL, whose error is ignored: the record is removed in any case.
Kill(s) ==
    /\ proc[s].pc = "wait10" /\ Alive(proc[s].target)
    /\ vm' = [vm EXCEPT ![proc[s].target] = "down"] \/ UNCHANGED vm
    /\ Remove(s) /\ Goto(s, "killed")
    /\ UNCHANGED <<media, image, share>>

\* The guest, or qemu, does as it was told.
Ends(p) ==
    /\ vm[p] = "ending"
    /\ vm' = [vm EXCEPT ![p] = "down"]
    /\ UNCHANGED <<media, image, record, share, proc>>

WinkitNext ==
    \/ \E p \in Launchers :
          EnsureImage(p) \/ Install(p) \/ Share(p) \/ Look(p) \/ Boot(p) \/ Answers(p)
          \/ Silent(p) \/ AgentExits(p) \/ Leave(p) \/ Die(p) \/ Ends(p)
    \/ \E s \in Stops : StartStop(s) \/ Graceful(s) \/ Terminate(s) \/ Gone(s) \/ TimesOut(s) \/ Kill(s)
WinkitSpec == WinkitInit /\ [][WinkitNext]_winkitVars

-----------------------------------------------------------------------------
\* A VM that runs is one that somebody will stop, or was started to stay, or
\* was left by a command that was killed or whose stop failed; ...
GuestsOwned == \A p \in Launchers :
    vm[p] = "up" => proc[p].pc \in {"ssh", "agent", "leave", "detached", "dead", "left"}
\* ... it has the record of its cell, by which `cell stop` and the other cells
\* find it, unless a `cell stop` of the cell removed that; ...
GuestsFound == \A p \in Launchers : Alive(p) =>
    \/ record[CellOf[p]] = p
    \/ \E s \in Stops : CellOf[s] = CellOf[p] /\ proc[s].pc \in {"stopped", "killed"}
\* ... and `cell stop` says "VM stopped" only of a VM that is down.
StopsTold == \A s \in Stops : proc[s].pc = "stopped" => ~Alive(proc[s].target)

\* No VM is forgotten: it is owned and found, and what is said to be stopped is
\* (run.go:193-198, 366-369, 404-425).
GuestsAccounted == GuestsOwned /\ GuestsFound /\ StopsTold

\* No image is installed from boot-only media, which lacks the Windows image
\* (download.go:31-38), whatever is in the cache and whichever fetch failed; only
\* an ISO the user names goes in unseen.
MediaComplete == \A p \in Launchers : proc[p].pc = "install" => proc[p].iso \in {"mct", "full", "own"}
=============================================================================
