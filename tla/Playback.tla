------------------------------ MODULE Playback ------------------------------
(***************************************************************************)
(* Playback: the transport of the UI (timeline-actions.slint, wire_ui.rs,  *)
(* and the playhead watcher of app.slint) over the audio engine.           *)
(*                                                                         *)
(* A step of the UI thread is one turn of its event loop, except that the  *)
(* audio call a turn makes runs as the engine's steps; the next turn       *)
(* starts when it has returned.  A device is present: consumed frames are  *)
(* the clock at normal speed, wall time at any other.                      *)
(***************************************************************************)
EXTENDS AudioEngine

CONSTANTS
  End,        \* the last tick of the sequence, the end bound
  TopSpeed,   \* the speed at which the shuttle stops doubling
  MaxInputs   \* a bound on the user's inputs and the loop's wraps

ASSUME PlaybackAssumption ==
  End \in Nat \ {0} /\ TopSpeed \in Nat \ {0} /\ MaxInputs \in Nat

VARIABLES
  transport,  \* TimelineStore: playing, speed, playhead; last-step-tick
  stopping,   \* the write of `playing' that request-stop has deferred
  seen,       \* the playhead the watcher has reported
  gate,       \* InteractionGate.playing
  loop,       \* loop-enabled
  inputs

ui == <<transport, stopping, seen, gate, loop, inputs>>
vars == <<audio, ui>>

Tick == 0 .. End

Init ==
  /\ AudioInit
  /\ transport = [playing |-> FALSE, speed |-> 1, playhead |-> 0, last |-> 0]
  /\ stopping = FALSE /\ seen = 0 /\ gate = FALSE /\ inputs = 0
  /\ loop \in BOOLEAN

-----------------------------------------------------------------------------
(* The audio engine as its handle's caller leaves it between two turns. *)
EngineRests == UNCHANGED <<shared, inbox, ring, mixer, sink, starts, heard>>

UiTurn == Returned /\ EngineRests

Input == inputs < MaxInputs /\ inputs' = inputs + 1

(* start-clock and on_transport_play. *)
StartClock(tick, speed) ==
  /\ transport' = [playing |-> TRUE, speed |-> speed, playhead |-> tick, last |-> tick]
  /\ gate' = TRUE
  /\ call' = IF speed = 1 THEN PlayCall(tick) ELSE PauseCall

(* pause and on_transport_pause; the playhead moves when a session begins. *)
StopClock(tick) ==
  /\ transport' = [transport EXCEPT !.playing = FALSE, !.playhead = tick]
  /\ gate' = FALSE
  /\ call' = PauseCall

TogglePlay ==
  /\ UiTurn /\ Input
  /\ IF transport.playing THEN StopClock(transport.playhead)
     ELSE StartClock(transport.playhead % End, 1)
  /\ UNCHANGED <<stopping, seen, loop>>

(* The K key, or a session that is replaced. *)
Pause ==
  /\ UiTurn /\ Input
  /\ \E tick \in {0, transport.playhead} : StopClock(tick)
  /\ UNCHANGED <<stopping, seen, loop>>

Doubled(speed, sign) ==
  LET twice == 2 * speed * sign
  IN  IF transport.playing /\ twice > 0
      THEN sign * (IF twice < TopSpeed THEN twice ELSE TopSpeed)
      ELSE sign

ShuttleForward ==
  /\ UiTurn /\ Input
  /\ StartClock(transport.playhead % End, Doubled(transport.speed, 1))
  /\ UNCHANGED <<stopping, seen, loop>>

ShuttleReverse ==
  /\ UiTurn /\ Input
  /\ StartClock(IF transport.playhead = 0 THEN End ELSE transport.playhead,
                Doubled(transport.speed, -1))
  /\ UNCHANGED <<stopping, seen, loop>>

(* The ruler, the arrow keys, Home and End. *)
MoveHead ==
  /\ UiTurn /\ Input
  /\ \E tick \in Tick \ {transport.playhead} :
       transport' = [transport EXCEPT !.playhead = tick]
  /\ UNCHANGED <<call, stopping, seen, gate, loop>>

(* The watcher and on_playhead_changed: a move sounds when stopped. *)
Watch ==
  /\ UiTurn
  /\ seen # transport.playhead
  /\ seen' = transport.playhead
  /\ call' = IF transport.playing THEN call ELSE ScrubCall(transport.playhead)
  /\ UNCHANGED <<transport, stopping, gate, loop, inputs>>

-----------------------------------------------------------------------------
(* playback-step, the timer's callback.  The deferred write is a timer too *)
(* and is due first.                                                       *)

TimerTurn == UiTurn /\ transport.playing /\ ~stopping

Sought == transport.playhead # transport.last

Seek ==
  /\ TimerTurn /\ Sought
  /\ StartClock(transport.playhead, transport.speed)
  /\ UNCHANGED <<stopping, seen, loop, inputs>>

(* playback-tick: the audio clock, or any time that has passed. *)
ClockTicks ==
  IF transport.speed = 1 THEN {CurrentTick}
  ELSE IF transport.speed > 0 THEN transport.playhead .. End
  ELSE 0 .. transport.playhead

AtBound(tick) == IF transport.speed > 0 THEN tick >= End ELSE tick <= 0

Advance ==
  /\ TimerTurn /\ ~Sought
  /\ \E tick \in ClockTicks :
       /\ ~AtBound(tick)
       /\ transport' = [transport EXCEPT !.playhead = tick, !.last = tick]
  /\ UNCHANGED <<call, stopping, seen, gate, loop, inputs>>

Reached == TimerTurn /\ ~Sought /\ \E tick \in ClockTicks : AtBound(tick)

Bound(speed) == IF speed > 0 THEN End ELSE 0

Wrap ==
  /\ Reached /\ loop /\ Input
  /\ StartClock(Bound(-transport.speed), transport.speed)
  /\ UNCHANGED <<stopping, seen, loop>>

(* request-stop: silence now, the store on the next turn. *)
RequestStop ==
  /\ Reached /\ ~loop
  /\ LET tick == Bound(transport.speed)
     IN  transport' = [transport EXCEPT !.playhead = tick, !.last = tick]
  /\ stopping' = TRUE
  /\ gate' = FALSE
  /\ call' = PauseCall
  /\ UNCHANGED <<seen, loop, inputs>>

DeferredStop ==
  /\ UiTurn /\ stopping
  /\ stopping' = FALSE
  /\ transport' = [transport EXCEPT !.playing = FALSE]
  /\ UNCHANGED <<call, seen, gate, loop, inputs>>

-----------------------------------------------------------------------------
Timer == Seek \/ Advance \/ Wrap \/ RequestStop

User == TogglePlay \/ Pause \/ ShuttleForward \/ ShuttleReverse \/ MoveHead

Engine == (Call \/ Mixer \/ Fill) /\ UNCHANGED ui

Next == User \/ Watch \/ Timer \/ DeferredStop \/ Engine

Spec == Init /\ [][Next]_vars

(* The event loop runs its timers, watchers and deferred calls; the mixer  *)
(* wakes every few milliseconds and the device asks for frames.            *)
FairSpec ==
  /\ Spec
  /\ WF_vars(Call /\ UNCHANGED ui)
  /\ WF_vars(Watch) /\ WF_vars(Timer) /\ WF_vars(DeferredStop)
  /\ WF_vars(Mixer /\ UNCHANGED ui) /\ WF_vars(Fill /\ UNCHANGED ui)

-----------------------------------------------------------------------------
(* Properties *)

TypeOK ==
  /\ AudioTypeOK
  /\ transport \in [playing : BOOLEAN, speed : -TopSpeed .. TopSpeed, playhead : Tick, last : Tick]
  /\ stopping \in BOOLEAN /\ gate \in BOOLEAN /\ loop \in BOOLEAN
  /\ seen \in Tick /\ inputs \in 0 .. MaxInputs

(***************************************************************************)
(* Within one play or scrub the timeline is heard without a gap or a       *)
(* repetition, from nowhere before its start, and once a later one is      *)
(* heard nothing of an earlier one is: the flush without locks             *)
(* (audio.rs:15).                                                          *)
(***************************************************************************)
SoundInOrder ==
  [][heard' # heard =>
       \/ heard'.epoch = heard.epoch /\ heard'.from = heard.upto
       \/ heard'.epoch > heard.epoch /\ heard'.from >= starts[heard'.epoch]]_vars

(***************************************************************************)
(* "Blocks tagged older are already dead" and a stale one is a "pre-seek   *)
(* block" (audio.rs:63 and 340), so that the first sound of a play or      *)
(* scrub is that of the tick it was made at, the one the clock counts from.*)
(***************************************************************************)
SeekStartsAtItsTick ==
  [][heard'.epoch # heard.epoch => heard'.from = starts[heard'.epoch]]_vars

(***************************************************************************)
(* "Consumed frames are the clock" (audio.rs:17): while playing, the       *)
(* frames the clock has counted and those heard since the last play differ *)
(* by at most one device buffer, the one that a play has overtaken.        *)
(***************************************************************************)
ClockTracksSound ==
  LET count == IF heard.epoch = epoch THEN heard.count ELSE 0
  IN  playing /\ Returned /\ sink.pc = "idle" =>
        frames <= count + DeviceFrames /\ count <= frames + DeviceFrames

(***************************************************************************)
(* Playback left alone reaches the end and stops there: no seek, stale     *)
(* block or lost message starves the clock it waits for.                   *)
(***************************************************************************)
PlaybackEnds == transport.playing /\ transport.speed = 1 /\ ~loop ~> ~transport.playing
=============================================================================
