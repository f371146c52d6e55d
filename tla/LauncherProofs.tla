-------------------------- MODULE LauncherProofs --------------------------
(***************************************************************************)
(* Proofs about Launcher, for any number of launchers, crashes and         *)
(* failures.                                                               *)
(*                                                                         *)
(* The lock keeps launchers apart until one of them removes it under       *)
(* another, which the recovery of run.sh:126 can do.  What then still      *)
(* holds depends on where the other one was, which robbed records: Apart   *)
(* is what the launchers that are starting rely on, Exclusive what every   *)
(* holder of the lock relies on.                                           *)
(***************************************************************************)
EXTENDS Launcher, TLAPS

-----------------------------------------------------------------------------
(* Types.                                                                  *)

PCs == {"idle", "mkdir", "read_owner", "probe", "rm_owner", "rmdir", "mkdir_again",
        "own", "check_pid", "firewall", "launch", "record", "reap", "watch", "wait",
        "clean_pid", "clean_marker", "clean_rule", "release", "release_dir",
        "exited", "killed"}

\* A file that names nobody, or one launcher.
AtMostOne == {{}} \cup {{l} : l \in Launchers}

TypeOK ==
    /\ lock \in Launchers \cup {"free", "unowned", "empty"}
    /\ pidFile \in AtMostOne
    /\ marker \in AtMostOne
    /\ rule \in BOOLEAN
    /\ pc \in [Launchers -> PCs]
    /\ seen \in [Launchers -> AtMostOne]
    /\ reason \in [Launchers -> {"none", "process_exit", "watchdog"}]
    /\ child \in [Launchers -> {"none", "forked", "running", "dead"}]
    /\ signals \in [Launchers -> SUBSET {"TERM", "KILL"}]
    /\ watchdog \in [Launchers -> {"none", "sleep", "marked", "grace", "done"}]
    /\ strangers \subseteq PIDs
    /\ crashes \in Nat /\ failures \in Nat
    /\ robbed \subseteq {"starting", "started"}
    /\ unmarked \subseteq Launchers

LEMMA TypeInit == Init => TypeOK
<1> SUFFICES ASSUME Init
             PROVE  TypeOK
  OBVIOUS
<1>1. "idle" \in PCs
  BY DEF PCs
<1>2. {} \in AtMostOne
  BY DEF AtMostOne
<1>3. /\ strangers \subseteq PIDs /\ crashes \in Nat /\ failures \in Nat
      /\ robbed \subseteq {"starting", "started"} /\ unmarked \subseteq Launchers
  BY DEF Init
<1>4. /\ lock \in Launchers \cup {"free", "unowned", "empty"}
      /\ pidFile \in AtMostOne /\ marker \in AtMostOne /\ rule \in BOOLEAN
  BY <1>2 DEF Init
<1>5. /\ pc \in [Launchers -> PCs]
      /\ seen \in [Launchers -> AtMostOne]
  BY <1>1, <1>2 DEF Init
<1> QED
  BY <1>3, <1>4, <1>5 DEF Init, TypeOK

\* Whoever removes the lock under others, it is recorded.
LEMMA TypeRobs ==
    ASSUME TypeOK, NEW l \in Launchers, Robs(l)
    PROVE  robbed' \subseteq {"starting", "started"} /\ unmarked' = unmarked
  BY DEF TypeOK, Robs, Phase

LEMMA TypeAcquireLock ==
    ASSUME TypeOK, NEW l \in Launchers, AcquireLock(l)
    PROVE  TypeOK'
<1>. USE DEF TypeOK, PCs, AtMostOne, Step, locals, processes, bounds, files, history
<1>1. CASE MkdirOk(l)
  BY <1>1 DEF MkdirOk
<1>2. CASE MkdirExists(l)
  BY <1>2 DEF MkdirExists
<1>3. CASE OwnOk(l)
  BY <1>3 DEF OwnOk
<1>4. CASE OwnErr(l)
  BY <1>4 DEF OwnErr, Fails, WithoutDir
<1>5. CASE ReadOwner(l)
  BY <1>5 DEF ReadOwner
<1>6. CASE Probe(l)
  BY <1>6 DEF Probe
<1>7. CASE RmOwner(l)
  BY <1>7, TypeRobs DEF RmOwner, WithoutOwner
<1>8. CASE Rmdir(l)
  BY <1>8, TypeRobs DEF Rmdir, WithoutDir
<1>9. CASE MkdirAgain(l)
  BY <1>9 DEF MkdirAgain
<1> QED
  BY <1>1, <1>2, <1>3, <1>4, <1>5, <1>6, <1>7, <1>8, <1>9 DEF AcquireLock

LEMMA TypeRun ==
    ASSUME TypeOK, NEW l \in Launchers, Run(l)
    PROVE  TypeOK'
<1>. USE DEF TypeOK, PCs, AtMostOne, Step, locals, processes, bounds, files, history
<1>1. CASE CheckPid(l)
  BY <1>1 DEF CheckPid
<1>2. CASE Firewall(l)
  BY <1>2 DEF Firewall
<1>3. CASE Launch(l)
  BY <1>3 DEF Launch
<1>4. CASE RecordOk(l)
  BY <1>4 DEF RecordOk
<1>5. CASE RecordErr(l)
  BY <1>5 DEF RecordErr, Fails, Signal
<1>6. CASE Reap(l)
  BY <1>6 DEF Reap
<1>7. CASE Watch(l)
  BY <1>7 DEF Watch
<1>8. CASE Wait(l)
  BY <1>8 DEF Wait
<1>9. CASE CleanPid(l)
  BY <1>9 DEF CleanPid
<1>10. CASE CleanMarker(l)
  BY <1>10 DEF CleanMarker
<1>11. CASE CleanRule(l)
  <2>1. /\ pc' \in [Launchers -> PCs]
        /\ strangers' = strangers /\ crashes' = crashes
        /\ failures' \in {failures, failures + 1}
    BY <1>11 DEF CleanRule, Fails
  <2>2. rule' \in BOOLEAN
    BY <1>11 DEF CleanRule
  <2>3. UNCHANGED <<lock, pidFile, marker, locals, processes, history>>
    BY <1>11 DEF CleanRule
  <2> QED
    BY <2>1, <2>2, <2>3
<1>12. CASE Release(l)
  BY <1>12, TypeRobs DEF Release, WithoutOwner
<1>13. CASE ReleaseDir(l)
  BY <1>13, TypeRobs DEF ReleaseDir, WithoutDir
<1>14. CASE ReapInterrupted(l)
  BY <1>14 DEF ReapInterrupted, Signal
<1> QED
  BY <1>1, <1>2, <1>3, <1>4, <1>5, <1>6, <1>7, <1>8, <1>9, <1>10, <1>11, <1>12, <1>13,
     <1>14 DEF Run

LEMMA TypeWatchdog ==
    ASSUME TypeOK, NEW l \in Launchers, Watchdog(l)
    PROVE  TypeOK'
<1>. USE DEF TypeOK, AtMostOne, locals, processes, bounds, files, history
<1>1. CASE WatchdogDeadline(l)
  <2>1. /\ watchdog' \in [Launchers -> {"none", "sleep", "marked", "grace", "done"}]
        /\ UNCHANGED <<lock, pidFile, rule, pc, locals, child, signals>>
    BY <1>1 DEF WatchdogDeadline
  <2>2. marker' \in AtMostOne
    BY <1>1 DEF WatchdogDeadline
  <2>3. /\ strangers' = strangers /\ crashes' = crashes
        /\ failures' \in {failures, failures + 1}
    BY <1>1 DEF WatchdogDeadline, Fails
  <2>4. robbed' = robbed /\ unmarked' \subseteq Launchers
    BY <1>1 DEF WatchdogDeadline
  <2> QED
    BY <2>1, <2>2, <2>3, <2>4
<1>2. CASE WatchdogTerm(l)
  BY <1>2 DEF WatchdogTerm, Signal
<1>3. CASE WatchdogKill(l)
  BY <1>3 DEF WatchdogKill, Signal
<1> QED
  BY <1>1, <1>2, <1>3 DEF Watchdog

\* No step of a launcher, its child or its watchdog, no crash and no reboot
\* leaves the types.
LEMMA TypeNext == TypeOK /\ [Next]_vars => TypeOK'
<1> SUFFICES ASSUME TypeOK, [Next]_vars
             PROVE  TypeOK'
  OBVIOUS
<1>1. ASSUME NEW l \in Launchers, Start(l)
      PROVE  TypeOK'
  BY <1>1 DEF Start, TypeOK, PCs, AtMostOne, files, bounds
<1>2. ASSUME NEW l \in Launchers, Forward(l)
      PROVE  TypeOK'
  BY <1>2 DEF Forward, Signal, TypeOK, files, locals, bounds, history
<1>3. ASSUME NEW l \in Launchers, Exec(l) \/ ChildExits(l)
      PROVE  TypeOK'
  BY <1>3 DEF Exec, ChildExits, TypeOK, files, locals, bounds, history
<1>4. ASSUME NEW l \in Launchers, Crash(l)
      PROVE  TypeOK'
  BY <1>4 DEF Crash, Crashes, TypeOK, PCs, files, locals, processes, history
<1>5. CASE Reboot
  <2>1. strangers' \subseteq PIDs
    BY <1>5 DEF Reboot, Named
  <2>2. pc' \in [Launchers -> PCs]
    BY <1>5 DEF Reboot, TypeOK, PCs
  <2>3. /\ child' \in [Launchers -> {"none", "forked", "running", "dead"}]
        /\ watchdog' \in [Launchers -> {"none", "sleep", "marked", "grace", "done"}]
    BY <1>5 DEF Reboot, TypeOK
  <2>4. /\ lock' = lock /\ pidFile' = pidFile /\ marker' = marker /\ rule' = FALSE
        /\ seen' = seen /\ reason' = reason /\ signals' = signals
        /\ robbed' = robbed /\ unmarked' = unmarked
    BY <1>5 DEF Reboot, locals, history
  <2>5. crashes' \in Nat /\ failures' \in Nat
    BY <1>5 DEF Reboot, Crashes, TypeOK
  <2>6. /\ lock' \in Launchers \cup {"free", "unowned", "empty"}
        /\ pidFile' \in AtMostOne /\ marker' \in AtMostOne /\ rule' \in BOOLEAN
        /\ seen' \in [Launchers -> AtMostOne]
        /\ reason' \in [Launchers -> {"none", "process_exit", "watchdog"}]
        /\ signals' \in [Launchers -> SUBSET {"TERM", "KILL"}]
        /\ robbed' \subseteq {"starting", "started"} /\ unmarked' \subseteq Launchers
    BY <2>4 DEF TypeOK
  <2> QED
    BY <2>1, <2>2, <2>3, <2>5, <2>6 DEF TypeOK
<1>6. CASE UNCHANGED vars
  BY <1>6 DEF vars, TypeOK, files, locals, processes, bounds, history
<1> QED
  BY <1>1, <1>2, <1>3, <1>4, <1>5, <1>6, TypeAcquireLock, TypeRun, TypeWatchdog DEF Next

\* Every variable of the script keeps its type.
THEOREM LauncherTyped == Spec => []TypeOK
  BY TypeInit, TypeNext, PTL DEF Spec

-----------------------------------------------------------------------------
(* The invariants.                                                         *)

\* Where a launcher's child, and its watchdog, can be alive.
Children ==
    \A l \in Launchers :
        /\ ChildAlive(l) =>
              pc[l] \in {"record", "reap", "watch", "wait", "release", "release_dir",
                         "exited", "killed"}
        /\ watchdog[l] # "none" =>
              pc[l] \in {"wait", "clean_pid", "clean_marker", "clean_rule", "release",
                         "release_dir", "exited", "killed"}
        /\ ChildAlive(l) /\ watchdog[l] # "none" => pc[l] \in {"wait", "killed"}

\* One launcher is starting, and the lock is its; it starts a child only when
\* the PID file names nobody, and the file names the child that is recorded.
Apart ==
    /\ \A l, m \in Launchers : Starting(l) /\ Starting(m) => l = m
    /\ \A l \in Launchers :
          /\ pc[l] = "own" => lock = "unowned"
          /\ pc[l] \in {"check_pid", "firewall", "launch", "record"} => lock = l
          /\ pc[l] \in {"firewall", "launch", "record"} => pidFile = {}
          /\ pc[l] = "watch" /\ ChildAlive(l) => pidFile = {l}
          /\ Recorded(l) => pidFile = {l}

\* One launcher holds the lock, and the lock says so; the PID file is as the
\* holder knows it.
Owns(l) == Holds(l) /\ pc[l] \notin {"own", "release_dir"}

Exclusive ==
    /\ \A l, m \in Launchers : Holds(l) /\ Holds(m) => l = m
    /\ \A l \in Launchers :
          /\ pc[l] \in {"own", "release_dir"} => lock = "unowned"
          /\ Owns(l) => lock = l
          /\ pc[l] \in {"watch", "wait", "clean_pid"} => pidFile = {l}
          /\ pc[l] \in {"firewall", "launch", "record", "reap", "clean_marker", "clean_rule"}
                => pidFile = {}

\* The marker of a watchdog that passed the deadline stays until the launcher
\* has read it.
Marked ==
    \A l \in Launchers \ unmarked :
        /\ ChildAlive(l) /\ watchdog[l] \in {"marked", "grace"} => marker = {l}
        /\ "KILL" \in signals[l] =>
              \/ pc[l] \in {"wait", "clean_pid", "clean_marker"} /\ marker = {l}
              \/ pc[l] \in {"clean_rule", "release", "release_dir", "exited"}
                    /\ reason[l] = "watchdog"
              \/ pc[l] = "killed"

ApartUntilRobbed == "starting" \notin robbed => Apart
ExclusiveUntilRobbed == robbed = {} => Exclusive
MarkedUntilRobbed == robbed = {} => Marked

\* Whoever left something is still there to remove it.
Cleaner ==
    /\ \A l \in Launchers :
          /\ pc[l] # "killed"
          /\ pidFile = {l} => pc[l] \in {"watch", "wait", "clean_pid"}
          /\ marker = {l} => pc[l] \in {"watch", "wait", "clean_pid", "clean_marker"}
          /\ lock = l => Owns(l)
    /\ lock = "unowned" => \E l \in Launchers : Holds(l) \/ pc[l] = "rmdir"

\* Nor did a command fail on its way.
Thorough ==
    /\ \A l \in Launchers :
          /\ pc[l] # "reap"
          /\ ChildAlive(l) => pc[l] \in {"record", "watch", "wait"}
    /\ rule => \E l \in Launchers :
                  pc[l] \in {"launch", "record", "watch", "wait", "clean_pid",
                             "clean_marker", "clean_rule"}
    /\ lock # "empty"

CleanUntilKilled == crashes = 0 => Cleaner
ThoroughUntilFailed == crashes = 0 /\ failures = 0 => Thorough

-----------------------------------------------------------------------------
(* Lemmas about steps.                                                     *)

\* Taking the lock away from a launcher that is starting, or from any holder,
\* is recorded.
LEMMA RobsIsRecorded ==
    ASSUME NEW l \in Launchers, Robs(l)
    PROVE  /\ robbed \subseteq robbed'
           /\ lock' # lock =>
                 \A m \in Launchers \ {l} :
                     /\ Starting(m) => "starting" \in robbed'
                     /\ Holds(m) => robbed' # {}
  BY DEF Robs, Phase, Holds

\* What happens to the lock when it is removed, and that nothing else does.
LEMMA RemovalStep ==
    ASSUME TypeOK, NEW l \in Launchers, RmOwner(l) \/ Rmdir(l) \/ Release(l) \/ ReleaseDir(l)
    PROVE  /\ Robs(l)
           /\ pc[l] \in {"rm_owner", "rmdir", "release", "release_dir"}
           /\ pc' = [pc EXCEPT ![l] = pc'[l]]
           /\ pc[l] = "rm_owner" => pc'[l] = "rmdir" /\ lock' = WithoutOwner
           /\ pc[l] = "rmdir" => pc'[l] \in {"mkdir_again", "exited"} /\ lock' = WithoutDir
           /\ pc[l] = "release" => pc'[l] = "release_dir" /\ lock' = WithoutOwner
           /\ pc[l] = "release_dir" => pc'[l] = "exited" /\ lock' = WithoutDir
           /\ UNCHANGED <<pidFile, marker, rule, seen, reason, child, signals, watchdog>>
           /\ UNCHANGED <<strangers, crashes, failures, unmarked>>
<1>. USE DEF TypeOK, Step, locals, processes, bounds
<1>1. CASE RmOwner(l)
  BY <1>1 DEF RmOwner, Robs
<1>2. CASE Rmdir(l)
  BY <1>2 DEF Rmdir, Robs
<1>3. CASE Release(l)
  BY <1>3 DEF Release, Robs
<1>4. CASE ReleaseDir(l)
  BY <1>4 DEF ReleaseDir, Robs
<1> QED
  BY <1>1, <1>2, <1>3, <1>4

-----------------------------------------------------------------------------
(* Children and watchdogs.                                                 *)

LEMMA ChildrenNext == ASSUME TypeOK, Children, [Next]_vars
                      PROVE  Children'
<1>. USE DEF TypeOK, Children, ChildAlive, Step
<1>1. ASSUME NEW l \in Launchers, AcquireLock(l)
      PROVE  Children'
  <2>1. UNCHANGED <<child, watchdog>>
    BY <1>1 DEF AcquireLock, MkdirOk, MkdirExists, OwnOk, OwnErr, ReadOwner, Probe, RmOwner,
         Rmdir, MkdirAgain, processes
  <2>2. /\ pc[l] \in {"mkdir", "own", "read_owner", "probe", "rm_owner", "rmdir", "mkdir_again"}
        /\ pc' = [pc EXCEPT ![l] = pc'[l]]
    BY <1>1 DEF AcquireLock, MkdirOk, MkdirExists, OwnOk, OwnErr, ReadOwner, Probe, RmOwner,
         Rmdir, MkdirAgain
  <2> QED
    BY <2>1, <2>2
<1>2. ASSUME NEW l \in Launchers, Run(l)
      PROVE  Children'
  <2>1. CASE Launch(l)
    BY <2>1 DEF Launch
  <2>2. CASE Watch(l)
    BY <2>2 DEF Watch
  <2>3. CASE Wait(l)
    BY <2>3 DEF Wait
  <2>4. CASE CheckPid(l) \/ Firewall(l) \/ RecordOk(l) \/ CleanPid(l) \/ CleanMarker(l)
    BY <2>4 DEF CheckPid, Firewall, RecordOk, CleanPid, CleanMarker, processes
  <2>5. CASE RecordErr(l) \/ Reap(l) \/ ReapInterrupted(l) \/ CleanRule(l)
    BY <2>5 DEF RecordErr, Reap, ReapInterrupted, CleanRule, processes
  <2>6. CASE Release(l) \/ ReleaseDir(l)
    BY <2>6 DEF Release, ReleaseDir, processes
  <2> QED
    BY <1>2, <2>1, <2>2, <2>3, <2>4, <2>5, <2>6 DEF Run
<1>3. ASSUME NEW l \in Launchers, Start(l)
      PROVE  Children'
  BY <1>3 DEF Start, ChildPidLive
<1>4. ASSUME NEW l \in Launchers, Forward(l) \/ Watchdog(l)
      PROVE  Children'
  <2>1. /\ UNCHANGED <<pc, child>>
        /\ watchdog[l] # "none" \/ watchdog' = watchdog
        /\ watchdog' = [watchdog EXCEPT ![l] = watchdog'[l]]
    BY <1>4 DEF Forward, Watchdog, WatchdogDeadline, WatchdogTerm, WatchdogKill
  <2> QED
    BY <2>1
<1>5. ASSUME NEW l \in Launchers, Exec(l) \/ ChildExits(l)
      PROVE  Children'
  BY <1>5 DEF Exec, ChildExits
<1>6. ASSUME NEW l \in Launchers, Crash(l)
      PROVE  Children'
  BY <1>6 DEF Crash, Running, processes
<1>7. CASE Reboot
  BY <1>7 DEF Reboot, Running
<1>8. CASE UNCHANGED vars
  BY <1>8 DEF vars, processes
<1> QED
  BY <1>1, <1>2, <1>3, <1>4, <1>5, <1>6, <1>7, <1>8 DEF Next

LEMMA ChildrenSteps == Spec => [](TypeOK /\ Children)
<1>1. Init => Children
  BY DEF Init, Children, ChildAlive
<1>2. TypeOK /\ Children /\ [Next]_vars => Children'
  BY ChildrenNext
<1> QED
  BY <1>1, <1>2, LauncherTyped, PTL DEF Spec

-----------------------------------------------------------------------------
(* Launchers that are starting.                                            *)

LEMMA ApartNext == ASSUME TypeOK, Children, Apart, [Next]_vars, "starting" \notin robbed'
                   PROVE  Apart'
<1>. USE DEF TypeOK, Children, Apart, Starting, Recorded, ChildAlive, Step
<1>. USE LauncherAssumption DEF LauncherAssumption
<1>1. ASSUME NEW l \in Launchers, RmOwner(l) \/ Rmdir(l) \/ Release(l) \/ ReleaseDir(l)
      PROVE  Apart'
  <2>1. lock' # lock => \A m \in Launchers \ {l} : ~Starting(m)
    BY <1>1, RemovalStep, RobsIsRecorded
  <2>2. /\ pc[l] \in {"rm_owner", "rmdir", "release", "release_dir"}
        /\ pc'[l] \in {"rmdir", "mkdir_again", "exited", "release_dir"}
        /\ pc' = [pc EXCEPT ![l] = pc'[l]]
        /\ UNCHANGED <<pidFile, child, watchdog>>
    BY <1>1, RemovalStep
  <2> QED
    BY <2>1, <2>2
<1>2. ASSUME NEW l \in Launchers, AcquireLock(l)
      PROVE  Apart'
  <2>. USE DEF processes
  <2>1. CASE MkdirOk(l)
    BY <2>1 DEF MkdirOk
  <2>2. CASE MkdirExists(l)
    BY <2>2 DEF MkdirExists, files
  <2>3. CASE OwnOk(l)
    BY <2>3 DEF OwnOk
  <2>4. CASE OwnErr(l)
    BY <2>4 DEF OwnErr
  <2>5. CASE ReadOwner(l)
    BY <2>5 DEF ReadOwner, files
  <2>6. CASE Probe(l)
    BY <2>6 DEF Probe, files
  <2>7. CASE MkdirAgain(l)
    BY <2>7 DEF MkdirAgain
  <2> QED
    BY <1>1, <1>2, <2>1, <2>2, <2>3, <2>4, <2>5, <2>6, <2>7 DEF AcquireLock
<1>3. ASSUME NEW l \in Launchers, Run(l)
      PROVE  Apart'
  <2>1. CASE CheckPid(l)
    <3>1. CASE \E p \in pidFile : pid_is_expected(p) \/ ChildPidLive(p)
      BY <2>1, <3>1 DEF CheckPid, processes
    <3>2. CASE ~ \E p \in pidFile : pid_is_expected(p) \/ ChildPidLive(p)
      <4>1. \A m \in Launchers : ~Recorded(m)
        BY <3>2 DEF ChildPidLive
      <4>2. \A m \in Launchers : ~(pc[m] = "watch" /\ ChildAlive(m))
        BY <3>2 DEF ChildPidLive
      <4>3. /\ pc[l] = "check_pid" /\ pc' = [pc EXCEPT ![l] = "firewall"]
            /\ pidFile' = {} /\ UNCHANGED <<lock, child, watchdog>>
        BY <2>1, <3>2 DEF CheckPid, processes
      <4> QED
        BY <4>1, <4>2, <4>3
    <3> QED
      BY <3>1, <3>2
  <2>2. CASE Firewall(l)
    BY <2>2 DEF Firewall, processes
  <2>3. CASE Launch(l)
    BY <2>3 DEF Launch, files
  <2>4. CASE RecordOk(l)
    BY <2>4 DEF RecordOk, processes
  <2>5. CASE RecordErr(l)
    <3>1. /\ pc[l] = "record" /\ pc' = [pc EXCEPT ![l] = "reap"]
          /\ UNCHANGED <<lock, child, watchdog>>
      BY <2>5 DEF RecordErr
    <3>2. pidFile = {} /\ pidFile' = {}
      BY <2>5, <3>1 DEF RecordErr
    <3> QED
      BY <3>1, <3>2
  <2>6. CASE Reap(l) \/ ReapInterrupted(l)
    BY <2>6 DEF Reap, ReapInterrupted, files, processes
  <2>7. CASE Watch(l)
    BY <2>7 DEF Watch, files
  <2>8. CASE Wait(l)
    BY <2>8 DEF Wait, files
  <2>9. CASE CleanPid(l)
    BY <2>9 DEF CleanPid, processes
  <2>10. CASE CleanMarker(l)
    BY <2>10 DEF CleanMarker, processes
  <2>11. CASE CleanRule(l)
    BY <2>11 DEF CleanRule, processes
  <2> QED
    BY <1>1, <1>3, <2>1, <2>2, <2>3, <2>4, <2>5, <2>6, <2>7, <2>8, <2>9, <2>10, <2>11 DEF Run
<1>4. ASSUME NEW l \in Launchers, Start(l)
      PROVE  Apart'
  BY <1>4 DEF Start, files
<1>5. ASSUME NEW l \in Launchers, Forward(l) \/ Watchdog(l)
      PROVE  Apart'
  <2>1. /\ UNCHANGED <<lock, pidFile, pc, child>>
        /\ watchdog[l] # "none" \/ watchdog' = watchdog
        /\ watchdog' = [watchdog EXCEPT ![l] = watchdog'[l]]
    BY <1>5 DEF Forward, Watchdog, WatchdogDeadline, WatchdogTerm, WatchdogKill, files
  <2> QED
    BY <2>1
<1>6. ASSUME NEW l \in Launchers, Exec(l) \/ ChildExits(l)
      PROVE  Apart'
  BY <1>6 DEF Exec, ChildExits, files
<1>7. ASSUME NEW l \in Launchers, Crash(l)
      PROVE  Apart'
  BY <1>7 DEF Crash, files, processes
<1>8. CASE Reboot
  BY <1>8 DEF Reboot, Running
<1>9. CASE UNCHANGED vars
  BY <1>9 DEF vars, files, processes
<1> QED
  BY <1>2, <1>3, <1>4, <1>5, <1>6, <1>7, <1>8, <1>9 DEF Next

\* Nothing takes a robbery back.
LEMMA RobbedForever == ASSUME TypeOK, [Next]_vars
                       PROVE  robbed \subseteq robbed'
<1>1. ASSUME NEW l \in Launchers, RmOwner(l) \/ Rmdir(l) \/ Release(l) \/ ReleaseDir(l)
      PROVE  robbed \subseteq robbed'
  BY <1>1, RemovalStep, RobsIsRecorded
<1>2. ASSUME NEW l \in Launchers, AcquireLock(l)
      PROVE  robbed \subseteq robbed'
  BY <1>1, <1>2 DEF AcquireLock, MkdirOk, MkdirExists, OwnOk, OwnErr, ReadOwner, Probe,
     MkdirAgain, history
<1>3. ASSUME NEW l \in Launchers, Run(l)
      PROVE  robbed \subseteq robbed'
  BY <1>1, <1>3 DEF Run, CheckPid, Firewall, Launch, RecordOk, RecordErr, Reap,
     ReapInterrupted, Watch, Wait, CleanPid, CleanMarker, CleanRule, history
<1>4. ASSUME NEW l \in Launchers, Watchdog(l)
      PROVE  robbed \subseteq robbed'
  BY <1>4 DEF Watchdog, WatchdogDeadline, WatchdogTerm, WatchdogKill, history
<1>5. ASSUME NEW l \in Launchers,
             Start(l) \/ Forward(l) \/ Exec(l) \/ ChildExits(l) \/ Crash(l)
      PROVE  robbed \subseteq robbed'
  BY <1>5 DEF Start, Forward, Exec, ChildExits, Crash, history
<1>6. CASE Reboot
  BY <1>6 DEF Reboot, history
<1>7. CASE UNCHANGED vars
  BY <1>7 DEF vars, history
<1> QED
  BY <1>2, <1>3, <1>4, <1>5, <1>6, <1>7 DEF Next

LEMMA ApartSteps == Spec => [](TypeOK /\ Children /\ ApartUntilRobbed)
<1>1. Init => ApartUntilRobbed
  BY DEF Init, ApartUntilRobbed, Apart, Starting, Recorded, ChildAlive
<1>2. TypeOK /\ Children /\ ApartUntilRobbed /\ [Next]_vars => ApartUntilRobbed'
  BY ApartNext, RobbedForever DEF ApartUntilRobbed
<1> QED
  BY <1>1, <1>2, ChildrenSteps, PTL DEF Spec

\* However many launchers there are, whoever is killed and whatever fails: no
\* two recorded PaperPads run at a time, unless a launcher that was starting
\* had its lock removed by another one.
THEOREM LaunchesAreSerialized == Spec => []RunsAreSerialized
<1>1. TypeOK /\ ApartUntilRobbed => RunsAreSerialized
  BY DEF ApartUntilRobbed, Apart, RunsAreSerialized
<1> QED
  BY <1>1, ApartSteps, PTL

-----------------------------------------------------------------------------
(* Launchers that hold the lock.                                           *)

LEMMA ExclusiveNext == ASSUME TypeOK, Exclusive, [Next]_vars, robbed' = {}
                       PROVE  Exclusive'
<1>. USE DEF TypeOK, Exclusive, Holds, Owns, Starting, Step
<1>. USE LauncherAssumption DEF LauncherAssumption
<1>1. ASSUME NEW l \in Launchers, RmOwner(l) \/ Rmdir(l) \/ Release(l) \/ ReleaseDir(l)
      PROVE  Exclusive'
  <2>1. lock' # lock => \A m \in Launchers \ {l} : ~Holds(m)
    BY <1>1, RemovalStep, RobsIsRecorded
  <2>2. /\ pc[l] \in {"rm_owner", "rmdir", "release", "release_dir"}
        /\ pc' = [pc EXCEPT ![l] = pc'[l]]
        /\ pidFile' = pidFile
        /\ pc[l] = "rm_owner" => pc'[l] = "rmdir"
        /\ pc[l] = "rmdir" => pc'[l] \in {"mkdir_again", "exited"}
        /\ pc[l] = "release" => pc'[l] = "release_dir" /\ lock' = WithoutOwner
        /\ pc[l] = "release_dir" => pc'[l] = "exited"
    BY <1>1, RemovalStep
  <2>3. pc[l] = "release" => lock = l /\ lock' = "unowned"
    BY <2>2 DEF WithoutOwner
  <2> QED
    BY <2>1, <2>2, <2>3
<1>2. ASSUME NEW l \in Launchers, AcquireLock(l)
      PROVE  Exclusive'
  <2>1. CASE MkdirOk(l)
    BY <2>1 DEF MkdirOk
  <2>2. CASE MkdirExists(l)
    BY <2>2 DEF MkdirExists, files
  <2>3. CASE OwnOk(l)
    BY <2>3 DEF OwnOk
  <2>4. CASE OwnErr(l)
    BY <2>4 DEF OwnErr
  <2>5. CASE ReadOwner(l)
    BY <2>5 DEF ReadOwner, files
  <2>6. CASE Probe(l)
    BY <2>6 DEF Probe, files
  <2>7. CASE MkdirAgain(l)
    BY <2>7 DEF MkdirAgain
  <2> QED
    BY <1>1, <1>2, <2>1, <2>2, <2>3, <2>4, <2>5, <2>6, <2>7 DEF AcquireLock
<1>3. ASSUME NEW l \in Launchers, Run(l)
      PROVE  Exclusive'
  <2>1. CASE CheckPid(l)
    BY <2>1 DEF CheckPid
  <2>2. CASE Firewall(l)
    BY <2>2 DEF Firewall
  <2>3. CASE Launch(l)
    BY <2>3 DEF Launch, files
  <2>4. CASE RecordOk(l)
    BY <2>4 DEF RecordOk
  <2>5. CASE RecordErr(l)
    <3>1. pc[l] = "record" /\ pc' = [pc EXCEPT ![l] = "reap"] /\ lock' = lock
      BY <2>5 DEF RecordErr
    <3>2. pidFile = {} /\ pidFile' = {}
      BY <2>5, <3>1 DEF RecordErr
    <3> QED
      BY <3>1, <3>2
  <2>6. CASE Reap(l) \/ ReapInterrupted(l)
    BY <2>6 DEF Reap, ReapInterrupted, files
  <2>7. CASE Watch(l)
    BY <2>7 DEF Watch, files
  <2>8. CASE Wait(l)
    BY <2>8 DEF Wait, files
  <2>9. CASE CleanPid(l)
    BY <2>9 DEF CleanPid
  <2>10. CASE CleanMarker(l)
    BY <2>10 DEF CleanMarker
  <2>11. CASE CleanRule(l)
    BY <2>11 DEF CleanRule
  <2> QED
    BY <1>1, <1>3, <2>1, <2>2, <2>3, <2>4, <2>5, <2>6, <2>7, <2>8, <2>9, <2>10, <2>11 DEF Run
<1>4. ASSUME NEW l \in Launchers, Start(l)
      PROVE  Exclusive'
  BY <1>4 DEF Start, files
<1>5. ASSUME NEW l \in Launchers, Forward(l) \/ Watchdog(l) \/ Exec(l) \/ ChildExits(l)
      PROVE  Exclusive'
  <2>1. UNCHANGED <<lock, pidFile, pc>>
    BY <1>5 DEF Forward, Watchdog, WatchdogDeadline, WatchdogTerm, WatchdogKill, Exec,
         ChildExits, files
  <2> QED
    BY <2>1
<1>6. ASSUME NEW l \in Launchers, Crash(l)
      PROVE  Exclusive'
  BY <1>6 DEF Crash, files
<1>7. CASE Reboot
  BY <1>7 DEF Reboot, Running
<1>8. CASE UNCHANGED vars
  BY <1>8 DEF vars, files
<1> QED
  BY <1>2, <1>3, <1>4, <1>5, <1>6, <1>7, <1>8 DEF Next

LEMMA ExclusiveSteps ==
    Spec => [](TypeOK /\ Children /\ ApartUntilRobbed /\ ExclusiveUntilRobbed)
<1>1. Init => ExclusiveUntilRobbed
  BY DEF Init, ExclusiveUntilRobbed, Exclusive, Holds, Owns, Starting
<1>2. TypeOK /\ ExclusiveUntilRobbed /\ [Next]_vars => ExclusiveUntilRobbed'
  BY ExclusiveNext, RobbedForever DEF ExclusiveUntilRobbed
<1> QED
  BY <1>1, <1>2, ApartSteps, PTL DEF Spec

\* The marker and END_REASON, while every holder has the lock to itself.
LEMMA MarkedNext ==
    ASSUME TypeOK, Children, Apart, Exclusive, Marked, [Next]_vars
    PROVE  Marked'
<1>. USE DEF TypeOK, Marked, ChildAlive, Step
<1>1. ASSUME NEW l \in Launchers, AcquireLock(l)
      PROVE  Marked'
  <2>1. /\ UNCHANGED <<marker, reason, child, signals, watchdog>>
        /\ unmarked' = unmarked
    BY <1>1, RemovalStep DEF AcquireLock, MkdirOk, MkdirExists, OwnOk, OwnErr, ReadOwner,
         Probe, MkdirAgain, files, locals, processes, history
  <2>2. /\ pc[l] \in {"mkdir", "own", "read_owner", "probe", "rm_owner", "rmdir", "mkdir_again"}
        /\ pc' = [pc EXCEPT ![l] = pc'[l]]
    BY <1>1 DEF AcquireLock, MkdirOk, MkdirExists, OwnOk, OwnErr, ReadOwner, Probe, RmOwner,
         Rmdir, MkdirAgain
  <2> QED
    BY <2>1, <2>2
<1>2. ASSUME NEW l \in Launchers, Run(l)
      PROVE  Marked'
  <2>. USE DEF processes, history
  <2>1. CASE CheckPid(l)
    BY <2>1 DEF CheckPid, locals
  <2>2. CASE Firewall(l)
    <3>1. \A m \in Launchers : ~Recorded(m)
      BY <2>2 DEF Firewall, Apart
    <3>2. \A m \in Launchers \ {l} : ~Holds(m)
      BY <2>2 DEF Firewall, Exclusive, Holds, Starting
    <3>3. /\ pc[l] = "firewall" /\ pc' = [pc EXCEPT ![l] = "launch"]
          /\ UNCHANGED <<reason, child, signals, watchdog, unmarked>>
      BY <2>2 DEF Firewall, locals
    <3> QED
      BY <3>1, <3>2, <3>3 DEF Recorded, Holds
  <2>3. CASE Launch(l)
    <3>1. watchdog[l] = "none"
      BY <2>3 DEF Launch, Children
    <3> QED
      BY <2>3, <3>1 DEF Launch, files, locals
  <2>4. CASE RecordOk(l)
    BY <2>4 DEF RecordOk, locals
  <2>5. CASE RecordErr(l)
    BY <2>5 DEF RecordErr, Signal, locals
  <2>6. CASE Reap(l)
    BY <2>6 DEF Reap, files, locals
  <2>7. CASE ReapInterrupted(l)
    BY <2>7 DEF ReapInterrupted, Signal, files, locals
  <2>8. CASE Watch(l)
    BY <2>8 DEF Watch, files, locals
  <2>9. CASE Wait(l)
    BY <2>9 DEF Wait, files, locals
  <2>10. CASE CleanPid(l)
    BY <2>10 DEF CleanPid, locals
  <2>11. CASE CleanMarker(l)
    <3>1. pc[l] = "clean_marker" /\ pidFile = {}
      BY <2>11 DEF CleanMarker, Exclusive
    <3>2. \A m \in Launchers : ~Recorded(m)
      BY <3>1 DEF Apart
    <3>3. \A m \in Launchers \ {l} : ~Holds(m)
      BY <3>1 DEF Exclusive, Holds, Starting
    <3>4. /\ pc' = [pc EXCEPT ![l] = "clean_rule"]
          /\ reason' = [reason EXCEPT ![l] =
                           IF marker = {l} THEN "watchdog" ELSE "process_exit"]
          /\ UNCHANGED <<child, signals, watchdog, unmarked>>
      BY <2>11 DEF CleanMarker
    <3> QED
      BY <3>1, <3>2, <3>3, <3>4 DEF Recorded, Holds
  <2>12. CASE CleanRule(l)
    BY <2>12 DEF CleanRule, locals
  <2>13. CASE Release(l) \/ ReleaseDir(l)
    <3>1. /\ UNCHANGED <<marker, reason, child, signals, watchdog, unmarked>>
          /\ pc[l] \in {"release", "release_dir"}
          /\ pc' = [pc EXCEPT ![l] = pc'[l]]
          /\ pc'[l] \in {"release_dir", "exited"}
      BY <2>13 DEF Release, ReleaseDir, Robs, locals
    <3> QED
      BY <3>1
  <2> QED
    BY <1>2, <2>1, <2>2, <2>3, <2>4, <2>5, <2>6, <2>7, <2>8, <2>9, <2>10, <2>11, <2>12,
       <2>13 DEF Run
<1>3. ASSUME NEW l \in Launchers, Start(l)
      PROVE  Marked'
  <2>1. /\ pc[l] \in {"idle", "exited", "killed"}
        /\ pc' = [pc EXCEPT ![l] = "mkdir"]
        /\ child' = [child EXCEPT ![l] = "none"]
        /\ signals' = [signals EXCEPT ![l] = {}]
        /\ watchdog' = [watchdog EXCEPT ![l] = "none"]
        /\ reason' = [reason EXCEPT ![l] = "none"]
        /\ unmarked' = unmarked \ {l} /\ marker' = marker
    BY <1>3 DEF Start, LauncherPidLive, Running, files
  <2> QED
    BY <2>1
<1>4. ASSUME NEW l \in Launchers, Forward(l)
      PROVE  Marked'
  BY <1>4 DEF Forward, Signal, files, locals, history
<1>5. ASSUME NEW l \in Launchers, WatchdogDeadline(l), ~Supervises(l)
      PROVE  Marked'
  BY <1>5 DEF WatchdogDeadline, locals, history
<1>6. ASSUME NEW l \in Launchers, WatchdogDeadline(l), Supervises(l)
      PROVE  Marked'
  <2>1. /\ pidFile = {l}
        /\ UNCHANGED <<pc, reason, child, signals>>
        /\ watchdog' = [watchdog EXCEPT ![l] = "marked"]
    BY <1>6 DEF WatchdogDeadline, Supervises, locals
  <2>2. \A m \in Launchers \ {l} : ~Recorded(m)
    BY <2>1 DEF Apart
  <2>3. \A m \in Launchers \ {l} : pc[m] \notin {"wait", "clean_pid", "clean_marker"}
    BY <2>1 DEF Exclusive
  <2>4. CASE marker' = {l} /\ unmarked' = unmarked
    BY <2>1, <2>2, <2>3, <2>4 DEF Recorded
  <2>5. CASE unmarked' = unmarked \cup {l}
    BY <2>1, <2>2, <2>3, <2>5 DEF Recorded
  <2>6. \/ marker' = {l} /\ unmarked' = unmarked
        \/ unmarked' = unmarked \cup {l}
    BY <1>6 DEF WatchdogDeadline, history
  <2> QED
    BY <2>4, <2>5, <2>6
<1>7. ASSUME NEW l \in Launchers, WatchdogTerm(l)
      PROVE  Marked'
  BY <1>7 DEF WatchdogTerm, Signal, files, locals, history
<1>8. ASSUME NEW l \in Launchers, WatchdogKill(l)
      PROVE  Marked'
  <2>1. /\ UNCHANGED <<marker, pc, reason, child, unmarked>>
        /\ watchdog[l] = "grace" /\ watchdog' = [watchdog EXCEPT ![l] = "done"]
    BY <1>8 DEF WatchdogKill, files, locals, history
  <2>2. CASE signals' = signals
    BY <2>1, <2>2
  <2>3. CASE Supervises(l) /\ signals' = [signals EXCEPT ![l] = @ \cup {"KILL"}]
    <3>1. ChildAlive(l)
      BY <2>3 DEF Supervises, pid_is_expected
    <3>2. pc[l] \in {"wait", "killed"}
      BY <2>1, <3>1 DEF Children
    <3>3. l \notin unmarked => marker = {l}
      BY <2>1, <3>1
    <3> QED
      BY <2>1, <2>3, <3>2, <3>3
  <2> QED
    BY <1>8, <2>2, <2>3 DEF WatchdogKill, Signal
<1>9. ASSUME NEW l \in Launchers, Exec(l) \/ ChildExits(l)
      PROVE  Marked'
  BY <1>9 DEF Exec, ChildExits, files, locals, history
<1>10. ASSUME NEW l \in Launchers, Crash(l)
       PROVE  Marked'
  BY <1>10 DEF Crash, Running, files, locals, processes, history
<1>11. CASE Reboot
  BY <1>11 DEF Reboot, Running, locals, history
<1>12. CASE UNCHANGED vars
  BY <1>12 DEF vars, files, locals, processes, history
<1> QED
  BY <1>1, <1>2, <1>3, <1>4, <1>5, <1>6, <1>7, <1>8, <1>9, <1>10, <1>11, <1>12
     DEF Next, Watchdog

LEMMA MarkedSteps ==
    Spec => [](TypeOK /\ ApartUntilRobbed /\ ExclusiveUntilRobbed /\ MarkedUntilRobbed)
<1>1. Init => MarkedUntilRobbed
  BY DEF Init, MarkedUntilRobbed, Marked, ChildAlive
<1>2. TypeOK /\ Children /\ ApartUntilRobbed /\ ExclusiveUntilRobbed /\ MarkedUntilRobbed
         /\ [Next]_vars => MarkedUntilRobbed'
  BY MarkedNext, RobbedForever DEF ApartUntilRobbed, ExclusiveUntilRobbed, MarkedUntilRobbed
<1> QED
  BY <1>1, <1>2, ExclusiveSteps, PTL DEF Spec

\* However many launchers there are, whoever is killed and whatever else fails:
\* a run whose watchdog killed it, and could write its marker, is reported as
\* one that passed its deadline, unless a launcher removed the lock of another.
THEOREM DeadlinesAreReported == Spec => []DeadlineIsReported
<1>1. TypeOK /\ MarkedUntilRobbed => DeadlineIsReported
  BY DEF MarkedUntilRobbed, Marked, DeadlineIsReported
<1> QED
  BY <1>1, MarkedSteps, PTL

\* However many launchers there are, whoever is killed and whatever fails: no
\* launch takes the discovery rule away from a recorded PaperPad that runs,
\* unless a launcher removed the lock of another.
THEOREM RunsKeepTheirRule == Spec => RunKeepsItsRule
<1>1. ASSUME TypeOK, ApartUntilRobbed, ExclusiveUntilRobbed, [Next]_vars,
             robbed = {}, rule, ~rule', NEW l \in Launchers, Recorded(l)
      PROVE  child'[l] = "dead"
  <2>1. pidFile = {l} /\ ChildAlive(l)
    BY <1>1 DEF ApartUntilRobbed, Apart, Recorded
  <2>2. ASSUME NEW m \in Launchers, Firewall(m) \/ CleanRule(m)
        PROVE  FALSE
    <3>1. pc[m] \in {"firewall", "clean_rule"}
      BY <2>2 DEF Firewall, CleanRule, Step
    <3>2. pidFile = {}
      BY <1>1, <3>1 DEF ExclusiveUntilRobbed, Exclusive
    <3> QED
      BY <2>1, <3>2
  <2>3. ASSUME NEW m \in Launchers, AcquireLock(m)
        PROVE  rule' = rule
    BY <2>3 DEF AcquireLock, MkdirOk, MkdirExists, OwnOk, OwnErr, ReadOwner, Probe, RmOwner,
         Rmdir, MkdirAgain, files
  <2>4. ASSUME NEW m \in Launchers, Run(m), ~Firewall(m), ~CleanRule(m)
        PROVE  rule' = rule
    BY <2>4 DEF Run, CheckPid, Launch, RecordOk, RecordErr, Reap, ReapInterrupted, Watch,
         Wait, CleanPid, CleanMarker, Release, ReleaseDir, files
  <2>5. ASSUME NEW m \in Launchers,
               \/ Start(m) \/ Forward(m) \/ Watchdog(m) \/ Exec(m) \/ ChildExits(m) \/ Crash(m)
        PROVE  rule' = rule
    BY <2>5 DEF Start, Forward, Watchdog, WatchdogDeadline, WatchdogTerm, WatchdogKill, Exec,
         ChildExits, Crash, files
  <2>6. Next
    BY <1>1 DEF vars, files
  <2>7. Reboot
    BY <1>1, <2>2, <2>3, <2>4, <2>5, <2>6 DEF Next
  <2> QED
    BY <2>1, <2>7 DEF Reboot
<1>2. TypeOK /\ ApartUntilRobbed /\ ExclusiveUntilRobbed /\ [Next]_vars =>
         [robbed = {} /\ rule /\ ~rule' =>
             \A l \in Launchers : Recorded(l) => child'[l] = "dead"]_vars
  BY <1>1
<1> QED
  BY <1>2, ExclusiveSteps, PTL DEF Spec, RunKeepsItsRule

-----------------------------------------------------------------------------
(* What is left behind.  This holds also while launchers take each other's *)
(* lock for stale.                                                         *)

LEMMA CleanNext == ASSUME TypeOK, Cleaner, [Next]_vars, crashes' = crashes
                   PROVE  Cleaner'
<1>. USE DEF TypeOK, AtMostOne, Cleaner, Holds, Owns, Starting, Step
<1>. USE LauncherAssumption DEF LauncherAssumption
<1>1. ASSUME NEW l \in Launchers, AcquireLock(l)
      PROVE  Cleaner'
  <2>. USE DEF files
  <2>1. CASE MkdirOk(l)
    BY <2>1 DEF MkdirOk
  <2>2. CASE MkdirExists(l)
    BY <2>2 DEF MkdirExists
  <2>3. CASE OwnOk(l)
    BY <2>3 DEF OwnOk
  <2>4. CASE OwnErr(l)
    BY <2>4 DEF OwnErr, WithoutDir
  <2>5. CASE ReadOwner(l)
    BY <2>5 DEF ReadOwner
  <2>6. CASE Probe(l)
    BY <2>6 DEF Probe
  <2>7. CASE RmOwner(l)
    BY <2>7 DEF RmOwner, WithoutOwner
  <2>8. CASE Rmdir(l)
    BY <2>8 DEF Rmdir, WithoutDir
  <2>9. CASE MkdirAgain(l)
    BY <2>9 DEF MkdirAgain
  <2> QED
    BY <1>1, <2>1, <2>2, <2>3, <2>4, <2>5, <2>6, <2>7, <2>8, <2>9 DEF AcquireLock
<1>2. ASSUME NEW l \in Launchers, Run(l)
      PROVE  Cleaner'
  <2>. USE DEF files
  <2>1. CASE CheckPid(l)
    <3>1. /\ pc[l] = "check_pid" /\ pc' = [pc EXCEPT ![l] = pc'[l]]
          /\ pc'[l] \in {"release", "firewall"}
          /\ lock' = lock /\ marker' = marker
      BY <2>1 DEF CheckPid
    <3>2. pidFile' \in {pidFile, {}}
      BY <2>1 DEF CheckPid
    <3> QED
      BY <3>1, <3>2
  <2>2. CASE Firewall(l)
    BY <2>2 DEF Firewall
  <2>3. CASE Launch(l)
    BY <2>3 DEF Launch
  <2>4. CASE RecordOk(l)
    BY <2>4 DEF RecordOk
  <2>5. CASE RecordErr(l)
    <3>1. /\ pc[l] = "record" /\ pc' = [pc EXCEPT ![l] = "reap"]
          /\ lock' = lock /\ marker' = marker
          /\ pidFile' \in {pidFile, {}}
      BY <2>5 DEF RecordErr
    <3> QED
      BY <3>1
  <2>6. CASE Reap(l) \/ ReapInterrupted(l)
    BY <2>6 DEF Reap, ReapInterrupted
  <2>7. CASE Watch(l) \/ Wait(l)
    BY <2>7 DEF Watch, Wait
  <2>8. CASE CleanPid(l)
    BY <2>8 DEF CleanPid
  <2>9. CASE CleanMarker(l)
    BY <2>9 DEF CleanMarker
  <2>10. CASE CleanRule(l)
    BY <2>10 DEF CleanRule
  <2>11. CASE Release(l)
    BY <2>11 DEF Release, WithoutOwner
  <2>12. CASE ReleaseDir(l)
    BY <2>12 DEF ReleaseDir, WithoutDir
  <2> QED
    BY <1>2, <2>1, <2>2, <2>3, <2>4, <2>5, <2>6, <2>7, <2>8, <2>9, <2>10, <2>11, <2>12 DEF Run
<1>3. ASSUME NEW l \in Launchers, Start(l)
      PROVE  Cleaner'
  BY <1>3 DEF Start, LauncherPidLive, Running, files
<1>4. ASSUME NEW l \in Launchers, Forward(l) \/ Exec(l) \/ ChildExits(l)
      PROVE  Cleaner'
  BY <1>4 DEF Forward, Exec, ChildExits, files
<1>5. ASSUME NEW l \in Launchers, Watchdog(l)
      PROVE  Cleaner'
  <2>1. /\ UNCHANGED <<lock, pidFile, pc>>
        /\ marker' \in {marker, {}} \/ (marker' = {l} /\ pidFile = {l})
    BY <1>5 DEF Watchdog, WatchdogDeadline, WatchdogTerm, WatchdogKill, Supervises, files
  <2> QED
    BY <2>1
<1>6. ASSUME NEW l \in Launchers, Crash(l)
      PROVE  FALSE
  BY <1>6 DEF Crash, Crashes
<1>7. CASE Reboot
  BY <1>7 DEF Reboot, Crashes
<1>8. CASE UNCHANGED vars
  BY <1>8 DEF vars, files
<1> QED
  BY <1>1, <1>2, <1>3, <1>4, <1>5, <1>6, <1>7, <1>8 DEF Next

LEMMA ThoroughNext ==
    ASSUME TypeOK, Children, Cleaner, Thorough, [Next]_vars,
           crashes' = crashes, failures' = failures
    PROVE  Thorough'
<1>. USE DEF TypeOK, Thorough, ChildAlive, Step
<1>. USE LauncherAssumption DEF LauncherAssumption
<1>1. ASSUME NEW l \in Launchers, AcquireLock(l)
      PROVE  Thorough'
  <2>1. /\ UNCHANGED <<rule, child>>
        /\ pc[l] \in {"mkdir", "own", "read_owner", "probe", "rm_owner", "rmdir", "mkdir_again"}
        /\ pc' = [pc EXCEPT ![l] = pc'[l]]
        /\ pc'[l] # "reap"
    BY <1>1 DEF AcquireLock, MkdirOk, MkdirExists, OwnOk, OwnErr, ReadOwner, Probe, RmOwner,
         Rmdir, MkdirAgain, files, processes
  <2>2. lock' # "empty"
    BY <1>1 DEF AcquireLock, MkdirOk, MkdirExists, OwnOk, OwnErr, Fails, ReadOwner, Probe,
         RmOwner, WithoutOwner, Rmdir, WithoutDir, MkdirAgain, files
  <2> QED
    BY <2>1, <2>2
<1>2. ASSUME NEW l \in Launchers, Run(l)
      PROVE  Thorough'
  <2>1. CASE CheckPid(l)
    BY <2>1 DEF CheckPid, processes
  <2>2. CASE Firewall(l)
    BY <2>2 DEF Firewall, processes
  <2>3. CASE Launch(l)
    BY <2>3 DEF Launch, files
  <2>4. CASE RecordOk(l)
    BY <2>4 DEF RecordOk, processes
  <2>5. CASE RecordErr(l) \/ Reap(l) \/ ReapInterrupted(l)
    BY <2>5 DEF RecordErr, Fails, Reap, ReapInterrupted
  <2>6. CASE Watch(l)
    BY <2>6 DEF Watch, files
  <2>7. CASE Wait(l)
    BY <2>7 DEF Wait, files
  <2>8. CASE CleanPid(l)
    BY <2>8 DEF CleanPid, processes
  <2>9. CASE CleanMarker(l)
    BY <2>9 DEF CleanMarker, processes
  <2>10. CASE CleanRule(l)
    <3>1. ~Fails
      BY DEF Fails, TypeOK
    <3>2. rule' = FALSE
      BY <2>10, <3>1 DEF CleanRule
    <3>3. /\ lock' = lock /\ child' = child
          /\ pc[l] = "clean_rule" /\ pc' = [pc EXCEPT ![l] = "release"]
      BY <2>10 DEF CleanRule, processes
    <3> QED
      BY <3>2, <3>3
  <2>11. CASE Release(l)
    BY <2>11 DEF Release, WithoutOwner, processes
  <2>12. CASE ReleaseDir(l)
    BY <2>12 DEF ReleaseDir, WithoutDir, processes
  <2> QED
    BY <1>2, <2>1, <2>2, <2>3, <2>4, <2>5, <2>6, <2>7, <2>8, <2>9, <2>10, <2>11, <2>12 DEF Run
<1>3. ASSUME NEW l \in Launchers, Start(l)
      PROVE  Thorough'
  BY <1>3 DEF Start, LauncherPidLive, Running, files
<1>4. ASSUME NEW l \in Launchers, Forward(l) \/ Watchdog(l)
      PROVE  Thorough'
  <2>1. UNCHANGED <<lock, rule, pc, child>>
    BY <1>4 DEF Forward, Watchdog, WatchdogDeadline, WatchdogTerm, WatchdogKill, files
  <2> QED
    BY <2>1
<1>5. ASSUME NEW l \in Launchers, Exec(l) \/ ChildExits(l)
      PROVE  Thorough'
  BY <1>5 DEF Exec, ChildExits, files
<1>6. ASSUME NEW l \in Launchers, Crash(l)
      PROVE  FALSE
  BY <1>6 DEF Crash, Crashes
<1>7. CASE Reboot
  BY <1>7 DEF Reboot, Crashes
<1>8. CASE UNCHANGED vars
  BY <1>8 DEF vars, files, processes
<1> QED
  BY <1>1, <1>2, <1>3, <1>4, <1>5, <1>6, <1>7, <1>8 DEF Next

\* Nothing takes a crash or a failure back.
LEMMA DisturbedForever ==
    ASSUME TypeOK, [Next]_vars
    PROVE  /\ crashes' \in {crashes, crashes + 1} /\ failures' \in {failures, failures + 1}
           /\ crashes' = 0 => crashes = 0 /\ crashes' = crashes
           /\ failures' = 0 => failures = 0 /\ failures' = failures
<1>1. crashes' \in {crashes, crashes + 1} /\ failures' \in {failures, failures + 1}
  <2>1. CASE Next
    BY <2>1 DEF Next, Start, AcquireLock, MkdirOk, MkdirExists, OwnOk, OwnErr,
         ReadOwner, Probe, RmOwner, Rmdir, MkdirAgain, Run, CheckPid, Firewall, Launch,
         RecordOk, RecordErr, Reap, ReapInterrupted, Watch, Wait, CleanPid, CleanMarker,
         CleanRule, Release, ReleaseDir, Forward, Watchdog, WatchdogDeadline, WatchdogTerm,
         WatchdogKill, Exec, ChildExits, Crash, Reboot, Crashes, Fails, bounds
  <2>2. CASE UNCHANGED vars
    BY <2>2 DEF vars, bounds
  <2> QED
    BY <2>1, <2>2
<1>2. crashes \in Nat /\ failures \in Nat
  BY DEF TypeOK
<1>3. crashes' = 0 => crashes = 0 /\ crashes' = crashes
  BY <1>1, <1>2
<1>4. failures' = 0 => failures = 0 /\ failures' = failures
  BY <1>1, <1>2
<1> QED
  BY <1>1, <1>3, <1>4

\* However many launchers there are: when all have returned and none was
\* killed, no file names a process and the lock names no owner; and when no
\* command failed, no lock, no firewall rule and no PaperPad is left.
THEOREM LaunchersLeaveNothing == Spec => []NothingLeftBehind
<1>1. TypeOK /\ CleanUntilKilled /\ [Next]_vars => CleanUntilKilled'
  BY CleanNext, DisturbedForever DEF CleanUntilKilled
<1>2. TypeOK /\ Children /\ CleanUntilKilled /\ ThoroughUntilFailed /\ [Next]_vars
         => ThoroughUntilFailed'
  BY ThoroughNext, DisturbedForever DEF CleanUntilKilled, ThoroughUntilFailed
<1>3. Init => CleanUntilKilled /\ ThoroughUntilFailed
  BY LauncherAssumption DEF LauncherAssumption, Init, CleanUntilKilled, Cleaner,
     ThoroughUntilFailed, Thorough, ChildAlive
<1>4. ASSUME TypeOK, CleanUntilKilled, ThoroughUntilFailed
      PROVE  NothingLeftBehind
  <2> SUFFICES ASSUME crashes = 0, \A l \in Launchers : ~Running(l)
               PROVE  /\ pidFile = {} /\ marker = {} /\ lock \in {"free", "empty"}
                      /\ failures = 0 =>
                            lock = "free" /\ ~rule /\ \A l \in Launchers : ~ChildAlive(l)
    BY DEF NothingLeftBehind
  <2>1. Cleaner
    BY <1>4 DEF CleanUntilKilled
  <2>2. \A l \in Launchers : pc[l] \in {"idle", "exited"}
    BY <2>1 DEF Running, Cleaner
  <2>3. lock \in {"free", "empty"}
    BY <1>4, <2>1, <2>2 DEF TypeOK, Cleaner, Owns, Holds, Starting
  <2>4. pidFile = {} /\ marker = {}
    BY <1>4, <2>1, <2>2 DEF TypeOK, AtMostOne, Cleaner
  <2>5. failures = 0 => lock # "empty" /\ ~rule /\ \A l \in Launchers : ~ChildAlive(l)
    BY <1>4, <2>2 DEF ThoroughUntilFailed, Thorough
  <2> QED
    BY <2>3, <2>4, <2>5
<1> QED
  BY <1>1, <1>2, <1>3, <1>4, ChildrenSteps, PTL DEF Spec
=============================================================================
