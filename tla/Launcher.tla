------------------------------ MODULE Launcher ------------------------------
(***************************************************************************)
(* The KUAL launcher: kindle-extension/rust_x11_hello/bin/run.sh.          *)
(*                                                                         *)
(* Every tap on the KUAL entry runs the script once.  Launchers share the  *)
(* files of the extension (lock directory with its owner file, PID file,   *)
(* watchdog marker) and the discovery chain of the firewall; each starts   *)
(* one PaperPad and a watchdog, a subshell that outlives its launcher.     *)
(* One command of the script that touches what is shared is one action.    *)
(*                                                                         *)
(* A launcher stands for its PID and for the PID of its child: a file      *)
(* holds the launcher whose PID is in it.  PIDs are used again: by a later *)
(* run of the script, and after a reboot by strangers.                     *)
(*                                                                         *)
(* Two history variables record what the code cannot see: when a launcher  *)
(* takes the lock away from another one that holds it, and when a watchdog *)
(* could not write its marker.                                             *)
(***************************************************************************)
EXTENDS Naturals

CONSTANTS
    Launchers,      \* runs of the script at a time
    MaxCrashes,     \* bound: launchers killed, and reboots
    MaxFailures     \* bound: files that cannot be written (storage is full), and
                    \* firewall rules that cannot be removed

ASSUME LauncherAssumption ==
    /\ Launchers \cap {"free", "unowned", "empty"} = {}
    /\ {MaxCrashes, MaxFailures} \subseteq Nat

VARIABLES
    \* LOCK_DIR: no directory, a directory without owner file, with an owner
    \* file that holds no PID, or the launcher that owns it
    lock,
    \* PID_FILE and WATCHDOG_MARKER: {} or the launcher of the child named
    pidFile, marker,
    \* the discovery rule is in the INPUT chain
    rule,
    \* each launcher: where it is, LOCK_OWNER from its reading to kill -0,
    \* END_REASON
    pc, seen, reason,
    \* its child, the signals that child was sent ("TERM" stands for HUP and
    \* INT, too), and its watchdog
    child, signals, watchdog,
    \* PIDs in a file that belong to strangers, [kind, of]
    strangers,
    crashes, failures,
    \* history: where launchers were when another one removed their lock, and
    \* the launchers whose watchdog could not write its marker
    robbed, unmarked

files == <<lock, pidFile, marker, rule>>
locals == <<seen, reason>>
processes == <<child, signals, watchdog>>
bounds == <<strangers, crashes, failures>>
history == <<robbed, unmarked>>
vars == <<files, pc, locals, processes, bounds, history>>

PIDs == [kind : {"launcher", "child"}, of : Launchers]

Init ==
    /\ lock = "free" /\ pidFile = {} /\ marker = {} /\ rule = FALSE
    /\ pc = [l \in Launchers |-> "idle"]
    /\ seen = [l \in Launchers |-> {}]
    /\ reason = [l \in Launchers |-> "none"]
    /\ child = [l \in Launchers |-> "none"]
    /\ signals = [l \in Launchers |-> {}]
    /\ watchdog = [l \in Launchers |-> "none"]
    /\ strangers = {} /\ crashes = 0 /\ failures = 0
    /\ robbed = {} /\ unmarked = {}

-----------------------------------------------------------------------------
(* Processes.                                                              *)

Running(l) == pc[l] \notin {"idle", "exited", "killed"}

ChildAlive(l) == child[l] \in {"forked", "running"}

\* kill -0.
LauncherPidLive(l) == Running(l) \/ [kind |-> "launcher", of |-> l] \in strangers
ChildPidLive(l) == ChildAlive(l) \/ [kind |-> "child", of |-> l] \in strangers

\* pid_is_expected: the process runs BIN; a child that has not called exec
\* yet still is the shell.
pid_is_expected(l) == child[l] = "running"

\* Where a launcher has the lock but its child is not recorded yet, and where
\* it has made the lock directory and not removed it.
Starting(l) == pc[l] \in {"own", "check_pid", "firewall", "launch", "record"}
Holds(l) ==
    \/ Starting(l)
    \/ pc[l] \in {"reap", "watch", "wait", "clean_pid", "clean_marker", "clean_rule",
                  "release", "release_dir"}

Phase(l) == IF Starting(l) THEN "starting" ELSE "started"

\* Launcher l changes the lock under whoever holds it.
Robs(l) ==
    /\ robbed' = IF lock' = lock THEN robbed
                 ELSE robbed \cup {Phase(m) : m \in {n \in Launchers \ {l} : Holds(n)}}
    /\ UNCHANGED unmarked

Step(l, from, to) ==
    /\ pc[l] = from
    /\ pc' = [pc EXCEPT ![l] = to]

Signal(l, name) == signals' = [signals EXCEPT ![l] = @ \cup {name}]

Fails ==
    /\ failures < MaxFailures
    /\ failures' = failures + 1
    /\ UNCHANGED <<strangers, crashes>>

-----------------------------------------------------------------------------
(* acquire_lock.                                                           *)

\* Another tap on the KUAL entry.  Its PIDs are ones that nobody has: fresh, or
\* those of an earlier run of which no process is left.
Start(l) ==
    /\ ~LauncherPidLive(l) /\ ~ChildPidLive(l)
    /\ watchdog[l] \in {"none", "done"}
    /\ pc' = [pc EXCEPT ![l] = "mkdir"]
    /\ seen' = [seen EXCEPT ![l] = {}]
    /\ reason' = [reason EXCEPT ![l] = "none"]
    /\ child' = [child EXCEPT ![l] = "none"]
    /\ signals' = [signals EXCEPT ![l] = {}]
    /\ watchdog' = [watchdog EXCEPT ![l] = "none"]
    /\ unmarked' = unmarked \ {l}
    /\ UNCHANGED <<files, bounds, robbed>>

MkdirOk(l) ==
    /\ lock = "free"
    /\ Step(l, "mkdir", "own")
    /\ lock' = "unowned"
    /\ UNCHANGED <<pidFile, marker, rule, locals, processes, bounds, history>>

MkdirExists(l) ==
    /\ lock # "free"
    /\ Step(l, "mkdir", "read_owner")
    /\ UNCHANGED <<files, locals, processes, bounds, history>>

\* The PID is written to whatever directory is there by now.
OwnOk(l) ==
    /\ lock # "free"
    /\ Step(l, "own", "check_pid")
    /\ lock' = l
    /\ UNCHANGED <<pidFile, marker, rule, locals, processes, bounds, history>>

\* rmdir removes a directory without a file in it; rm -f removes whatever
\* owner file is there by now.
WithoutDir == IF lock = "unowned" THEN "free" ELSE lock
WithoutOwner == IF lock = "free" THEN "free" ELSE "unowned"

\* There is no directory, or the file cannot be written; the empty file it
\* may leave keeps rmdir from removing the directory.
OwnErr(l) ==
    /\ Step(l, "own", "exited")
    /\ \/ /\ lock = "free"
          /\ UNCHANGED <<lock, bounds>>
       \/ /\ lock # "free"
          /\ Fails
          /\ lock' \in {WithoutDir, "empty"}
    /\ UNCHANGED <<pidFile, marker, rule, locals, processes, history>>

\* A lock without a PID in it is refused.
ReadOwner(l) ==
    /\ IF lock \in Launchers
       THEN Step(l, "read_owner", "probe") /\ seen' = [seen EXCEPT ![l] = {lock}]
       ELSE Step(l, "read_owner", "exited") /\ UNCHANGED seen
    /\ UNCHANGED <<files, reason, processes, bounds, history>>

\* kill -0 "$LOCK_OWNER", some time after the PID was read.
Probe(l) ==
    /\ \E owner \in seen[l] :
          Step(l, "probe", IF LauncherPidLive(owner) THEN "exited" ELSE "rm_owner")
    /\ seen' = [seen EXCEPT ![l] = {}]
    /\ UNCHANGED <<files, reason, processes, bounds, history>>

RmOwner(l) ==
    /\ Step(l, "rm_owner", "rmdir")
    /\ lock' = WithoutOwner
    /\ Robs(l)
    /\ UNCHANGED <<pidFile, marker, rule, locals, processes, bounds>>

Rmdir(l) ==
    /\ Step(l, "rmdir", IF lock = "unowned" THEN "mkdir_again" ELSE "exited")
    /\ lock' = WithoutDir
    /\ Robs(l)
    /\ UNCHANGED <<pidFile, marker, rule, locals, processes, bounds>>

MkdirAgain(l) ==
    /\ Step(l, "mkdir_again", IF lock = "free" THEN "own" ELSE "exited")
    /\ lock' = IF lock = "free" THEN "unowned" ELSE lock
    /\ UNCHANGED <<pidFile, marker, rule, locals, processes, bounds, history>>

AcquireLock(l) ==
    \/ MkdirOk(l)
    \/ MkdirExists(l)
    \/ OwnOk(l)
    \/ OwnErr(l)
    \/ ReadOwner(l)
    \/ Probe(l)
    \/ RmOwner(l)
    \/ Rmdir(l)
    \/ MkdirAgain(l)

-----------------------------------------------------------------------------
(* The run.                                                                *)

\* A slip: a launch that is refused cleans up like one that ended.
CheckPidThenClean(l) ==
    /\ IF \E p \in pidFile : pid_is_expected(p) \/ ChildPidLive(p)
       THEN Step(l, "check_pid", "clean_rule") /\ UNCHANGED pidFile
       ELSE Step(l, "check_pid", "firewall") /\ pidFile' = {}
    /\ UNCHANGED <<lock, marker, rule, locals, processes, bounds, history>>

\* A slip: only the executable is looked at, not whether the PID is live.
CheckPidExpectedOnly(l) ==
    /\ IF \E p \in pidFile : pid_is_expected(p)
       THEN Step(l, "check_pid", "release") /\ UNCHANGED pidFile
       ELSE Step(l, "check_pid", "firewall") /\ pidFile' = {}
    /\ UNCHANGED <<lock, marker, rule, locals, processes, bounds, history>>

\* An expected process, or any live one, refuses the launch; a stale file is
\* removed.
CheckPid(l) ==
    /\ IF \E p \in pidFile : pid_is_expected(p) \/ ChildPidLive(p)
       THEN Step(l, "check_pid", "release") /\ UNCHANGED pidFile
       ELSE Step(l, "check_pid", "firewall") /\ pidFile' = {}
    /\ UNCHANGED <<lock, marker, rule, locals, processes, bounds, history>>

\* The marker is removed, and the rule is removed and installed; iptables
\* may fail at either.
Firewall(l) ==
    /\ Step(l, "firewall", "launch")
    /\ marker' = {}
    /\ rule' \in BOOLEAN
    /\ UNCHANGED <<lock, pidFile, locals, processes, bounds, history>>

Launch(l) ==
    /\ Step(l, "launch", "record")
    /\ child' = [child EXCEPT ![l] = "forked"]
    /\ UNCHANGED <<files, locals, signals, watchdog, bounds, history>>

RecordOk(l) ==
    /\ Step(l, "record", "watch")
    /\ pidFile' = {l}
    /\ UNCHANGED <<lock, marker, rule, locals, processes, bounds, history>>

\* The child is terminated if it runs BIN by now, and waited for; the rule
\* stays.
RecordErr(l) ==
    /\ Step(l, "record", "reap")
    /\ Fails
    /\ pidFile' \in {pidFile, {}}
    /\ IF pid_is_expected(l) THEN Signal(l, "TERM") ELSE UNCHANGED signals
    /\ UNCHANGED <<lock, marker, rule, locals, child, watchdog, history>>

Reap(l) ==
    /\ ~ChildAlive(l)
    /\ Step(l, "reap", "release")
    /\ UNCHANGED <<files, locals, processes, bounds, history>>

\* HUP, INT or TERM ends this wait, which is in no loop; the child may live.
ReapInterrupted(l) ==
    /\ Step(l, "reap", "release")
    /\ IF pid_is_expected(l) THEN Signal(l, "TERM") ELSE UNCHANGED signals
    /\ UNCHANGED <<files, locals, child, watchdog, bounds, history>>

Watch(l) ==
    /\ Step(l, "watch", "wait")
    /\ watchdog' = [watchdog EXCEPT ![l] = "sleep"]
    /\ UNCHANGED <<files, locals, child, signals, bounds, history>>

\* wait returns for a signal, too; the loop goes on while the child lives.
Wait(l) ==
    /\ ~ChildAlive(l)
    /\ Step(l, "wait", "clean_pid")
    /\ watchdog' = [watchdog EXCEPT ![l] = "done"]
    /\ UNCHANGED <<files, locals, child, signals, bounds, history>>

CleanPid(l) ==
    /\ Step(l, "clean_pid", "clean_marker")
    /\ pidFile' = pidFile \ {l}
    /\ UNCHANGED <<lock, marker, rule, locals, processes, bounds, history>>

\* A slip: the marker is removed before it is read.
CleanMarkerFirst(l) ==
    /\ Step(l, "clean_marker", "clean_rule")
    /\ reason' = [reason EXCEPT ![l] = "process_exit"]
    /\ marker' = {}
    /\ UNCHANGED <<lock, pidFile, rule, seen, processes, bounds, history>>

CleanMarker(l) ==
    /\ Step(l, "clean_marker", "clean_rule")
    /\ reason' = [reason EXCEPT ![l] = IF marker = {l} THEN "watchdog" ELSE "process_exit"]
    /\ marker' = {}
    /\ UNCHANGED <<lock, pidFile, rule, seen, processes, bounds, history>>

\* "|| true": the launcher goes on when iptables fails to remove the rule.
CleanRule(l) ==
    /\ Step(l, "clean_rule", "release")
    /\ \/ rule' = FALSE /\ UNCHANGED bounds
       \/ Fails /\ UNCHANGED rule
    /\ UNCHANGED <<lock, pidFile, marker, locals, processes, history>>

\* release_lock.
Release(l) ==
    /\ Step(l, "release", "release_dir")
    /\ lock' = WithoutOwner
    /\ Robs(l)
    /\ UNCHANGED <<pidFile, marker, rule, locals, processes, bounds>>

\* A slip: only the owner file is removed.
ReleaseDirForgotten(l) ==
    /\ Step(l, "release_dir", "exited")
    /\ UNCHANGED <<files, locals, processes, bounds, history>>

ReleaseDir(l) ==
    /\ Step(l, "release_dir", "exited")
    /\ lock' = WithoutDir
    /\ Robs(l)
    /\ UNCHANGED <<pidFile, marker, rule, locals, processes, bounds>>

Run(l) ==
    \/ CheckPid(l)
    \/ Firewall(l)
    \/ Launch(l)
    \/ RecordOk(l)
    \/ RecordErr(l)
    \/ Reap(l)
    \/ ReapInterrupted(l)
    \/ Watch(l)
    \/ Wait(l)
    \/ CleanPid(l)
    \/ CleanMarker(l)
    \/ CleanRule(l)
    \/ Release(l)
    \/ ReleaseDir(l)

\* HUP, INT or TERM for the launcher.
Forward(l) ==
    /\ pc[l] \in {"record", "reap", "watch", "wait"}
    /\ pid_is_expected(l)
    /\ Signal(l, "TERM")
    /\ UNCHANGED <<files, pc, locals, child, watchdog, bounds, history>>

-----------------------------------------------------------------------------
(* The watchdog, and what else happens to processes.                       *)

Supervises(l) == pidFile = {l} /\ pid_is_expected(l)

\* Long after exec.  TERM and KILL follow also when the marker could not be
\* written.
WatchdogDeadline(l) ==
    /\ watchdog[l] = "sleep"
    /\ child[l] # "forked"
    /\ \/ /\ ~Supervises(l)
          /\ watchdog' = [watchdog EXCEPT ![l] = "done"]
          /\ UNCHANGED <<marker, bounds, history>>
       \/ /\ Supervises(l)
          /\ watchdog' = [watchdog EXCEPT ![l] = "marked"]
          /\ \/ marker' = {l} /\ UNCHANGED <<bounds, history>>
             \/ /\ Fails
                /\ marker' \in {marker, {}}
                /\ unmarked' = unmarked \cup {l}
                /\ UNCHANGED robbed
    /\ UNCHANGED <<lock, pidFile, rule, pc, locals, child, signals>>

WatchdogTerm(l) ==
    /\ watchdog[l] = "marked"
    /\ watchdog' = [watchdog EXCEPT ![l] = "grace"]
    /\ IF ChildAlive(l) THEN Signal(l, "TERM") ELSE UNCHANGED signals
    /\ UNCHANGED <<files, pc, locals, child, bounds, history>>

\* A slip: the watchdog ends after TERM.
WatchdogNoKill(l) ==
    /\ watchdog[l] = "grace"
    /\ watchdog' = [watchdog EXCEPT ![l] = "done"]
    /\ UNCHANGED <<files, pc, locals, child, signals, bounds, history>>

WatchdogKill(l) ==
    /\ watchdog[l] = "grace"
    /\ watchdog' = [watchdog EXCEPT ![l] = "done"]
    /\ IF Supervises(l) THEN Signal(l, "KILL") ELSE UNCHANGED signals
    /\ UNCHANGED <<files, pc, locals, child, bounds, history>>

Watchdog(l) == WatchdogDeadline(l) \/ WatchdogTerm(l) \/ WatchdogKill(l)

Exec(l) ==
    /\ child[l] = "forked"
    /\ child' = [child EXCEPT ![l] = "running"]
    /\ UNCHANGED <<files, pc, locals, signals, watchdog, bounds, history>>

\* It exits by itself, or by a signal; TERM alone may not end it.
ChildExits(l) ==
    /\ ChildAlive(l)
    /\ child' = [child EXCEPT ![l] = "dead"]
    /\ UNCHANGED <<files, pc, locals, signals, watchdog, bounds, history>>

Crashes ==
    /\ crashes < MaxCrashes
    /\ crashes' = crashes + 1
    /\ UNCHANGED failures

\* The launcher is killed; its child and its watchdog go on.
Crash(l) ==
    /\ Running(l)
    /\ Crashes
    /\ pc' = [pc EXCEPT ![l] = "killed"]
    /\ UNCHANGED <<files, locals, processes, strangers, history>>

\* The PIDs in the lock and in the PID file.
Named == {p \in PIDs : IF p.kind = "launcher" THEN p.of = lock ELSE p.of \in pidFile}

\* Files outlive a reboot; processes and firewall rules do not.
Reboot ==
    /\ Crashes
    /\ pc' = [l \in Launchers |-> IF Running(l) THEN "killed" ELSE pc[l]]
    /\ child' = [l \in Launchers |-> IF ChildAlive(l) THEN "dead" ELSE child[l]]
    /\ watchdog' = [l \in Launchers |-> IF watchdog[l] = "none" THEN "none" ELSE "done"]
    /\ rule' = FALSE
    /\ strangers' \in SUBSET Named
    /\ UNCHANGED <<lock, pidFile, marker, locals, signals, history>>

Next ==
    \/ \E l \in Launchers :
          \/ Start(l)
          \/ AcquireLock(l)
          \/ Run(l)
          \/ Forward(l)
          \/ Watchdog(l)
          \/ Exec(l)
          \/ ChildExits(l)
          \/ Crash(l)
    \/ Reboot

Spec == Init /\ [][Next]_vars

\* The watchdog's sleeps end, a child is executed, and KILL ends it.
Fairness ==
    \A l \in Launchers :
        /\ WF_vars(Watchdog(l))
        /\ WF_vars(Exec(l))
        /\ WF_vars(ChildExits(l) /\ "KILL" \in signals[l])

FairSpec == Spec /\ Fairness

-----------------------------------------------------------------------------
(* Properties                                                              *)

\* A PaperPad that its watchdog still minds, and one that a launch can know
\* of: its PID is in the file, or its watchdog was started, which is later.
Minded(l) == ChildAlive(l) /\ watchdog[l] \in {"sleep", "marked", "grace"}
Recorded(l) == ChildAlive(l) /\ (pidFile = {l} \/ watchdog[l] # "none")

\* "The launcher serializes runs": no second PaperPad is recorded beside one
\* that is recorded and runs, also when the launcher of one was killed, when
\* its lock was taken for stale, and when it has not called exec yet.  The
\* code does not serialize more than that: a PaperPad whose launcher was
\* killed between the fork and the PID file, or could not write that file and
\* did not wait for its end, is not recorded and a second one may run beside
\* it.  And a launcher that has found the owner of the lock dead, killed or
\* ended since it was read, can remove the lock of another that has just taken
\* it and is starting; then there may be two.
RunsAreSerialized ==
    "starting" \notin robbed =>
        \A l, m \in Launchers : Recorded(l) /\ Recorded(m) => l = m

\* The discovery rule of a recorded PaperPad that runs is not removed by
\* another launch, one that is refused or one that recovers the lock of a
\* killed launcher, unless a launcher removed the lock that another one held.
RunKeepsItsRule ==
    [][robbed = {} /\ rule /\ ~rule' =>
          \A l \in Launchers : Recorded(l) => child'[l] = "dead"]_vars

\* "One bounded launcher session completes ... no PID/watchdog/launcher-lock
\* state remains", and the firewall rule is temporary: when every launcher
\* returned and none was killed, no file names a process and the lock names no
\* owner, even while launchers remove each other's lock; when no command
\* failed either, nothing is left, no rule and no PaperPad.
NothingLeftBehind ==
    crashes = 0 /\ (\A l \in Launchers : ~Running(l)) =>
        /\ pidFile = {} /\ marker = {} /\ lock \in {"free", "empty"}
        /\ failures = 0 =>
              lock = "free" /\ ~rule /\ \A l \in Launchers : ~ChildAlive(l)

\* A PaperPad that is still there after its deadline is ended by the
\* watchdog's TERM or KILL, whatever became of its launcher.  When launchers
\* removed the lock of one that was starting, the second PaperPad is recorded
\* in the place of the first and the watchdog of that one stands down.
WatchdogEndsRun ==
    \A l \in Launchers : Minded(l) ~> ~ChildAlive(l) \/ "starting" \in robbed

\* "records ... end reason": a run the watchdog had to end is not reported as
\* one that ended by itself, as long as launchers leave each other's lock
\* alone and its watchdog could write the marker.  When the storage is full
\* the watchdog ends the run all the same and "process_exit" is reported.
DeadlineIsReported ==
    \A l \in Launchers :
        /\ robbed = {} /\ l \notin unmarked
        /\ watchdog[l] = "done" /\ "KILL" \in signals[l] /\ pc[l] = "exited"
        => reason[l] = "watchdog"
=============================================================================
