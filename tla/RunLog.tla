------------------------------- MODULE RunLog -------------------------------
(***************************************************************************)
(* RuntimeEventLogger.stage of lava/readers/runtime_logging.py: the thread *)
(* of a command and its heartbeat thread write lines of one event log.     *)
(* The file lock makes each emit one step; the lifecycle lock is held by   *)
(* the heartbeat thread while it is "locked".  Events other than those of  *)
(* the stage say nothing about order and are left out.                     *)
(***************************************************************************)
EXTENDS Naturals, Sequences

VARIABLES log,     \* the lines of events.jsonl
          beat,    \* where the heartbeat thread is
          stopped  \* the event that tells it to stop

logVars == <<log, beat, stopped>>

Threads == {"none", "waiting", "due", "locked", "ended"}
StageEvents == {"started", "heartbeat", "completed", "failed"}

NoLog == log = << >> /\ beat = "none" /\ stopped = FALSE

BeginStage ==
  /\ log' = <<"started">>
  /\ beat' = "waiting"
  /\ stopped' = FALSE

\* stop.wait(heartbeat_seconds) returns: the timer expired, or stop is set.
\* may bounds the heartbeats.
WaitReturns(may) ==
  /\ beat = "waiting"
  /\ \/ ~stopped /\ may /\ beat' = "due"
     \/ stopped /\ beat' = "ended"
  /\ UNCHANGED <<log, stopped>>

TakeLifecycleLock ==
  /\ beat = "due"
  /\ beat' = "locked"
  /\ UNCHANGED <<log, stopped>>

\* A fault: the timer's word is taken for it.
BeatAnyway ==
  /\ beat = "locked"
  /\ beat' = "waiting" /\ log' = Append(log, "heartbeat")
  /\ UNCHANGED stopped

\* The timer may have expired just before the stage stopped.
Beat ==
  /\ beat = "locked"
  /\ IF stopped THEN beat' = "ended" /\ UNCHANGED log
                ELSE beat' = "waiting" /\ log' = Append(log, "heartbeat")
  /\ UNCHANGED stopped

\* finish(): set stop, then write the terminal event under the lifecycle lock.
StopStage ==
  /\ stopped' = TRUE
  /\ UNCHANGED <<log, beat>>

EndStage(event) ==
  /\ beat # "locked"
  /\ log' = Append(log, event)
  /\ UNCHANGED <<beat, stopped>>

\* What a reader of a finished log relies on: it starts with the stage, ends
\* with one terminal event, and has heartbeats in between and nowhere else.
WellFormed(lines) ==
  /\ Len(lines) >= 2
  /\ lines[1] = "started"
  /\ lines[Len(lines)] \in {"completed", "failed"}
  /\ \A i \in 2..Len(lines) - 1 : lines[i] = "heartbeat"
=============================================================================
