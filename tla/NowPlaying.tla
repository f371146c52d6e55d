----------------------------- MODULE NowPlaying -----------------------------
(***************************************************************************)
(* How PaperSpoon acquires the Now Playing picture                         *)
(* (tools/paperspoon/src/now_playing.rs): it starts itself again as a      *)
(* helper in a process group of its own, the helper starts an adapter      *)
(* (a Perl process of the media_remote library), polls it, renders and     *)
(* writes one response; PaperSpoon waits for that with a deadline and ends *)
(* the whole group.  The response is read as MessageStream reads messages. *)
(* Time is counted in ticks while PaperSpoon waits.  The deadlines of      *)
(* 250 ms are shorter than a tick: they may elapse at any moment.          *)
(***************************************************************************)
EXTENDS MessageStream

CONSTANTS
    INITIAL_SNAPSHOT_TIMEOUT, ARTWORK_GRACE_PERIOD, HELPER_RESPONSE_TIMEOUT,  \* in ticks
    HELPER_ERROR_LIMIT,
    ExpectedPixels,     \* width times height
    MaxFaults           \* signals that /bin/kill cannot be started for

ASSUME NowPlayingAssumption ==
    /\ INITIAL_SNAPSHOT_TIMEOUT \in Nat /\ ARTWORK_GRACE_PERIOD \in Nat
    /\ HELPER_RESPONSE_TIMEOUT \in Nat
    /\ INITIAL_SNAPSHOT_TIMEOUT + ARTWORK_GRACE_PERIOD < HELPER_RESPONSE_TIMEOUT
    /\ ExpectedPixels \in Nat \ {0} /\ HELPER_ERROR_LIMIT \in Nat /\ MaxFaults \in Nat

VARIABLES
    loader,          \* where load_now_playing_frame is
    response,        \* what recv_timeout returned: "none", "timeout", "error" or "frame"
    cleanup,         \* of terminate_process_group: "none", "ok" or "failed"
    result,          \* what was returned: "none", "error" or "frame"
    helper,          \* the state of the helper process
    adapter,         \* "none", "running" or "gone"
    signals,         \* signals sent to the group
    faults,          \* signals that could not be sent
    out,             \* what the helper has still to write
    rendered,        \* the picture it rendered
    best, polled,    \* of acquire_snapshot: the best candidate; it polled in this tick
    artwork_deadline, age,
    clock,           \* ticks of waiting
    slow             \* those of them that the helper spent elsewhere

loaderVars == <<loader, response, cleanup, result>>
snapshotVars == <<best, polled, artwork_deadline, age>>
helperVars == <<helper, out, rendered, snapshotVars>>
timeVars == <<clock, slow>>
groupVars == <<adapter, signals, faults>>
vars == <<streamVars, loaderVars, helperVars, groupVars, timeVars>>

HELPER_MAGIC == <<80, 78, 80, 49>>
HELPER_HEADER_LEN == 9
Never == -1

\* A picture with artwork and one without; the wording of an error is not kept.
Picture(candidate) ==
    [i \in 1 .. ExpectedPixels |-> IF candidate = "artwork" THEN 200 + i ELSE 10 + i]
ErrorText == <<101>>

Init ==
    /\ StreamInit
    /\ reader \in Sockets \cup {"helper"}
    /\ loader = IF reader = "helper" THEN "start" ELSE "idle"
    /\ response = "none" /\ cleanup = "none" /\ result = "none"
    /\ helper = "none" /\ adapter = "none" /\ signals = {} /\ faults = 0
    /\ out = <<>> /\ rendered = <<>>
    /\ best = "none" /\ polled = FALSE /\ artwork_deadline = Never /\ age = 0
    /\ clock = 0 /\ slow = 0

-----------------------------------------------------------------------------
(* The helper process: run_helper and acquire_snapshot.                    *)

Alive == helper \notin {"none", "zombie", "reaped"}
Running == Alive /\ signals = {}

\* encode: the four write_all calls of run_helper
Respond(status, payload) ==
    /\ helper' = "writing"
    /\ out' = <<HELPER_MAGIC, <<status>>, be32(Len(payload)), payload>>

StartProvider ==
    /\ Running /\ helper = "starting"
    /\ helper' = "polling"
    /\ adapter' = "running"
    /\ UNCHANGED <<streamVars, loaderVars, out, rendered, snapshotVars, signals, faults, timeVars>>

ProviderFails ==
    /\ Running /\ helper = "starting"
    /\ Respond(1, ErrorText)
    /\ UNCHANGED <<streamVars, loaderVars, rendered, snapshotVars, groupVars, timeVars>>

\* A slip: every candidate extends the grace period.
ArtworkDeadlineExtended ==
    age + ARTWORK_GRACE_PERIOD

ArtworkDeadline ==
    LET overall == INITIAL_SNAPSHOT_TIMEOUT + ARTWORK_GRACE_PERIOD
    IN  IF artwork_deadline # Never THEN artwork_deadline
        ELSE IF age + ARTWORK_GRACE_PERIOD < overall
             THEN age + ARTWORK_GRACE_PERIOD ELSE overall

\* acquire_snapshot returns: only the snapshot is left of its variables.
EndPolling == polled' = FALSE /\ artwork_deadline' = Never /\ age' = 0

\* One turn of the loop.  snapshot_from_info may find nothing usable.
Poll(candidate) ==
    /\ Running /\ helper = "polling" /\ ~polled
    /\ best' = IF candidate = "none" THEN best ELSE candidate
    /\ LET deadline == IF candidate = "bare" THEN ArtworkDeadline ELSE artwork_deadline
           usable == candidate = "artwork" \/ (deadline # Never /\ age >= deadline)
           late == deadline = Never /\ age >= INITIAL_SNAPSHOT_TIMEOUT
       IN  \/ /\ usable
              /\ helper' = "rendering"
              /\ EndPolling
              /\ UNCHANGED out
           \/ /\ ~usable /\ late
              /\ Respond(1, ErrorText)
              /\ EndPolling
           \/ /\ ~usable /\ ~late
              /\ polled' = TRUE /\ artwork_deadline' = deadline
              /\ UNCHANGED <<helper, out, age>>
    /\ UNCHANGED <<streamVars, loaderVars, rendered, groupVars, timeVars>>

Render ==
    /\ Running /\ helper = "rendering"
    /\ \/ rendered' = Picture(best) /\ Respond(0, Picture(best))
       \/ UNCHANGED rendered /\ Respond(1, ErrorText)
    /\ best' = "none"
    /\ UNCHANGED <<streamVars, loaderVars, polled, artwork_deadline, age, groupVars, timeVars>>

WritePiece ==
    /\ Running /\ helper = "writing"
    /\ stream' = stream \o Head(out)
    /\ out' = Tail(out)
    /\ helper' = IF Len(out) = 1 THEN "parked" ELSE "writing"
    /\ UNCHANGED <<reader, writerVars, phase, encoded, wanted, received, loaderVars, rendered,
                   snapshotVars, groupVars, timeVars>>

\* The helper panics, or dies of the signal: its end of the pipe is closed.
HelperDies ==
    /\ Alive
    /\ helper' = "zombie"
    /\ closed' = TRUE
    /\ UNCHANGED <<reader, sent, foreign, written, stream, phase, encoded, wanted, received,
                   loaderVars, out, rendered, snapshotVars, groupVars, timeVars>>

\* The adapter may outlive the helper, but not a KILL.
AdapterDies ==
    /\ adapter = "running" /\ (signals # {} \/ helper = "zombie")
    /\ adapter' = "gone"
    /\ UNCHANGED <<streamVars, loaderVars, helperVars, signals, faults, timeVars>>

Helper ==
    \/ StartProvider \/ ProviderFails
    \/ \E candidate \in {"none", "bare", "artwork"} : Poll(candidate)
    \/ Render \/ WritePiece

-----------------------------------------------------------------------------
(* The thread that reads the response.                                     *)

\* decode_helper_header
ValidHelperHeader(header) ==
    /\ SubSeq(header, 1, 4) = HELPER_MAGIC
    /\ \/ header[5] = 0 /\ U32(header, 6) = ExpectedPixels
       \/ header[5] = 1 /\ U32(header, 6) <= HELPER_ERROR_LIMIT

DecodeHelperHeader ==
    /\ reader = "helper" /\ phase = "header" /\ wanted = 0
    /\ IF ValidHelperHeader(encoded)
       THEN phase' = "payload" /\ wanted' = U32(encoded, 6)
       ELSE phase' = "failed" /\ UNCHANGED wanted
    /\ UNCHANGED <<reader, writerVars, stream, encoded, received, loaderVars, helperVars,
                   groupVars, timeVars>>

HelperPayloadRead ==
    /\ reader = "helper" /\ phase = "payload" /\ wanted = 0
    /\ phase' = "done"
    /\ UNCHANGED <<reader, writerVars, stream, encoded, wanted, received, loaderVars, helperVars,
                   groupVars, timeVars>>

ReaderEnded == phase \in {"done", "failed"}

\* What the thread sent, by decode_helper_payload.
Answer == IF phase = "done" /\ encoded[5] = 0 THEN "frame" ELSE "error"
Pixels == Suffix(encoded, HELPER_HEADER_LEN)

HelperReader == DecodeHelperHeader \/ HelperPayloadRead

-----------------------------------------------------------------------------
(* load_now_playing_frame and terminate_process_group.                     *)

Goto(here, there) == loader = here /\ loader' = there

SpawnHelper ==
    /\ \/ Goto("start", "spawned") /\ helper' = "starting" /\ UNCHANGED result
       \/ Goto("start", "returned") /\ result' = "error" /\ UNCHANGED helper
    /\ UNCHANGED <<streamVars, response, cleanup, out, rendered, snapshotVars, groupVars, timeVars>>

SpawnReader ==
    /\ \/ /\ Goto("spawned", "waiting")
          /\ phase' = "header" /\ wanted' = HELPER_HEADER_LEN
       \/ /\ Goto("spawned", "term")
          /\ UNCHANGED <<phase, wanted>>
    /\ UNCHANGED <<reader, writerVars, stream, encoded, received, response, cleanup, result,
                   helperVars, groupVars, timeVars>>

Receive ==
    /\ ReaderEnded
    /\ Goto("waiting", "term")
    /\ response' = Answer
    /\ clock' = 0 /\ slow' = 0
    /\ UNCHANGED <<streamVars, cleanup, result, helperVars, groupVars>>

\* A slip: the reader is joined before the group is ended.
TimedOutJoins ==
    /\ clock = HELPER_RESPONSE_TIMEOUT
    /\ Goto("waiting", "join")
    /\ response' = "timeout"
    /\ clock' = 0
    /\ UNCHANGED <<streamVars, cleanup, result, helperVars, groupVars, slow>>

TimedOut ==
    /\ clock = HELPER_RESPONSE_TIMEOUT /\ ~ReaderEnded
    /\ Goto("waiting", "term")
    /\ response' = "timeout"
    /\ clock' = 0
    /\ UNCHANGED <<streamVars, cleanup, result, helperVars, groupVars, slow>>

LoaderRest == <<streamVars, response, result, helperVars, timeVars>>

GroupExists == Alive \/ helper = "zombie" \/ adapter = "running"

\* signal_process_group: /bin/kill may not start, and may fail for a group of
\* which only the zombie is left.
SignalGroup(signal, here, there) ==
    \/ /\ Goto(here, there)
       /\ signals' = signals \cup {signal}
       /\ UNCHANGED <<cleanup, adapter, faults>>
    \/ /\ faults < MaxFaults \/ (helper = "zombie" /\ adapter # "running")
       /\ Goto(here, "join")
       /\ faults' = IF faults < MaxFaults THEN faults + 1 ELSE faults
       /\ cleanup' = "failed"
       /\ UNCHANGED <<adapter, signals>>

SendTerm == SignalGroup("TERM", "term", "grace") /\ UNCHANGED LoaderRest
SendKill == SignalGroup("KILL", "kill", "wait") /\ UNCHANGED LoaderRest
SendKillToRest == SignalGroup("KILL", "rest", "gone") /\ UNCHANGED LoaderRest

\* try_wait and wait
Reap ==
    /\ helper = "zombie"
    /\ Goto("grace", "check") \/ Goto("wait", "check")
    /\ helper' = "reaped"
    /\ UNCHANGED <<streamVars, response, cleanup, result, out, rendered, snapshotVars, groupVars,
                   timeVars>>

GraceElapses ==
    /\ Goto("grace", "kill")
    /\ UNCHANGED <<cleanup, groupVars, LoaderRest>>

\* A slip: the group is taken to be gone with its leader.
CheckLeaderOnly ==
    /\ Goto("check", "join") /\ cleanup' = "ok"
    /\ UNCHANGED <<groupVars, LoaderRest>>

CheckGroup ==
    /\ Goto("check", IF GroupExists THEN "rest" ELSE "gone")
    /\ UNCHANGED <<cleanup, groupVars, LoaderRest>>

GroupGone ==
    /\ Goto("gone", "join")
    /\ cleanup' = IF GroupExists THEN "failed" ELSE "ok"
    /\ UNCHANGED <<groupVars, LoaderRest>>

\* Without a reader thread there is nothing to join.
JoinReader ==
    /\ Goto("join", "returned")
    /\ phase = "idle" \/ ReaderEnded
    /\ result' = IF cleanup = "ok" /\ response = "frame" /\ Len(Pixels) = ExpectedPixels
                 THEN "frame" ELSE "error"
    /\ UNCHANGED <<streamVars, response, cleanup, helperVars, groupVars, timeVars>>

Loader ==
    \/ SpawnHelper \/ SpawnReader \/ Receive \/ TimedOut
    \/ SendTerm \/ GraceElapses \/ SendKill \/ Reap \/ CheckGroup \/ SendKillToRest
    \/ GroupGone \/ JoinReader

-----------------------------------------------------------------------------
(* Time passes while PaperSpoon waits.  A tick in which the helper did not *)
(* do its poll and sleep was spent elsewhere: starting, in a call of the   *)
(* library that took long, rendering, or on the way through the pipe.      *)

Tick ==
    /\ loader = "waiting" /\ clock < HELPER_RESPONSE_TIMEOUT
    /\ clock' = clock + 1
    /\ age' = IF helper = "polling" THEN age + 1 ELSE age
    /\ slow' = IF helper = "polling" /\ polled THEN slow ELSE slow + 1
    /\ polled' = FALSE
    /\ UNCHANGED <<streamVars, loaderVars, helper, out, rendered, best, artwork_deadline,
                   groupVars>>

NowPlayingUnchanged == UNCHANGED <<loaderVars, helperVars, groupVars, timeVars>>

Next ==
    \/ (Writer \/ SocketReader \/ ReadStep) /\ NowPlayingUnchanged
    \/ Helper \/ HelperDies \/ AdapterDies \/ HelperReader \/ Loader \/ Tick

\* Threads are scheduled and clocks run; KILL ends a process, and TERM the
\* helper, which does not handle it.  The helper itself may hang anywhere.
Spec ==
    /\ Init /\ [][Next]_vars
    /\ WF_vars((SocketReader \/ ReadStep) /\ NowPlayingUnchanged)
    /\ WF_vars(HelperReader) /\ WF_vars(Loader) /\ WF_vars(Tick)
    /\ WF_vars(HelperDies /\ signals # {})
    /\ WF_vars(AdapterDies /\ "KILL" \in signals)

-----------------------------------------------------------------------------
(* Properties                                                              *)

\* "This function returns only after that group is gone": when a frame is
\* returned, neither helper nor adapter is left, and its pixels are all those
\* of the picture that was rendered for these dimensions.
LoadedFrameIsWhole ==
    result = "frame" => ~GroupExists /\ Pixels = rendered

\* The deadlines fit together: polling alone never exhausts the time
\* PaperSpoon waits, however the player's state comes in.  It gives up only
\* when the rest took longer than what is left of it.
PollingBeatsDeadline ==
    response = "timeout" =>
        slow >= HELPER_RESPONSE_TIMEOUT - INITIAL_SNAPSHOT_TIMEOUT - ARTWORK_GRACE_PERIOD

\* The stdin thread gets its answer, though the helper may hang anywhere and
\* the adapter may ignore TERM; only when TERM cannot be sent to a helper that
\* has not answered does the join of the reader wait for the helper.
LoadReturns ==
    []<>(\/ loader \in {"idle", "returned"}
         \/ cleanup = "failed" /\ signals = {} /\ ~ReaderEnded)
=============================================================================
