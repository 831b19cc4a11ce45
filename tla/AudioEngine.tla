---------------------------- MODULE AudioEngine ----------------------------
(***************************************************************************)
(* The audio engine of the desktop app (audio.rs): the atomics of          *)
(* AudioShared, the calls of AudioHandle on the UI thread, the mixer       *)
(* thread and the device callback.                                         *)
(*                                                                         *)
(* A step is one atomic operation of a handle's call, one message or one   *)
(* block of the mixer, or one atomic operation or block of the callback.   *)
(* The UI thread alone writes the atomics but frames_played, in release    *)
(* order, and the callback acquires them one by one, so that interleaving  *)
(* the steps is all the reordering there is.                               *)
(*                                                                         *)
(* A position is counted in sample frames of the timeline.  Samples are    *)
(* left out, and with them the snapshots they are mixed from: a block is   *)
(* the epoch it was mixed for and the position it was mixed from.          *)
(***************************************************************************)
EXTENDS Integers, Sequences

CONSTANTS
  BlockFrames,    \* BLOCK_FRAMES
  BlockCapacity,  \* BLOCK_CAPACITY
  BurstBlocks,    \* SCRUB_BURST_BLOCKS
  DeviceFrames,   \* the frames the device asks for at a time
  TickFrames,     \* sample frames in a tick, at the rate of every project
  MaxFrames,      \* a bound: the device pauses when the clock is this far
  MaxPops,        \* a bound: the mixer pauses while a fill has popped so many
  MaxAt,          \* a bound: the mixer pauses when it has come this far
  NoBlock         \* no block is current

Block == [epoch : Nat, at : Nat]

ASSUME AudioAssumption ==
  /\ BlockFrames \in Nat \ {0} /\ BlockCapacity \in Nat \ {0} /\ BurstBlocks \in Nat \ {0}
  /\ DeviceFrames \in Nat \ {0} /\ TickFrames \in Nat \ {0}
  /\ MaxFrames \in Nat /\ MaxPops \in Nat /\ MaxAt \in Nat
  /\ NoBlock \notin Block

VARIABLES
  epoch, anchor, frames, playing, scrubbing,  \* AudioShared
  call,       \* what is left of the handle's call, and its tick
  inbox,      \* the AudioMsg channel
  ring,       \* the AudioBlock channel
  mixer,      \* the locals of mixer_loop
  sink,       \* CallbackSink and the locals of a fill
  starts,     \* a history variable: where each epoch's sound has to start
  heard       \* a history variable: the frames the device took last

NoCall == [kind |-> "none", tick |-> 0, todo |-> << >>]

shared == <<epoch, anchor, frames, playing, scrubbing>>
audio == <<shared, call, inbox, ring, mixer, sink, starts, heard>>

AudioInit ==
  /\ epoch = 0 /\ anchor = 0 /\ frames = 0 /\ playing = FALSE /\ scrubbing = FALSE
  /\ call = NoCall
  /\ inbox = << >> /\ ring = << >>
  /\ mixer = [mixing |-> FALSE, epoch |-> 0, playing |-> FALSE, burst |-> 0, at |-> 0]
  /\ sink = [pc |-> "idle", playing |-> FALSE, epoch |-> 0, filled |-> 0, pops |-> 0,
             current |-> NoBlock, cursor |-> 0]
  /\ starts = << >>
  /\ heard = [epoch |-> 0, from |-> 0, upto |-> 0, count |-> 0]

-----------------------------------------------------------------------------
(* The calls of a handle, as the operations they are made of. *)

\* A fault: the clock is reset before the sound it counts is made stale.
PlayCallLate(tick) ==
  [kind |-> "Play", tick |-> tick,
   todo |-> <<"anchor", "bump", "scrubOff", "playOn", "send">>]

PlayCall(tick) ==
  [kind |-> "Play", tick |-> tick,
   todo |-> <<"bump", "anchor", "scrubOff", "playOn", "send">>]

PauseCall == [kind |-> "Pause", tick |-> 0, todo |-> <<"playOff", "scrubOff", "send">>]

ScrubCall(tick) ==
  [kind |-> "Scrub", tick |-> tick, todo |-> <<"bump", "playOff", "scrubOn", "send">>]

Returned == call.todo = << >>

Doing(step) ==
  /\ ~Returned
  /\ Head(call.todo) = step
  /\ call' = [call EXCEPT !.todo = Tail(@)]

BumpEpoch ==
  /\ Doing("bump")
  /\ epoch' = epoch + 1
  /\ starts' = Append(starts, call.tick * TickFrames)
  /\ UNCHANGED <<anchor, frames, playing, scrubbing, inbox, ring, mixer, sink, heard>>

(* Nobody but the UI thread reads the anchor: its store needs no step. *)
ResetClock ==
  /\ Doing("anchor")
  /\ anchor' = call.tick /\ frames' = 0
  /\ UNCHANGED <<epoch, playing, scrubbing, inbox, ring, mixer, sink, starts, heard>>

StorePlaying ==
  /\ \/ Doing("playOn") /\ playing' = TRUE
     \/ Doing("playOff") /\ playing' = FALSE
  /\ UNCHANGED <<epoch, anchor, frames, scrubbing, inbox, ring, mixer, sink, starts, heard>>

StoreScrubbing ==
  /\ \/ Doing("scrubOn") /\ scrubbing' = TRUE
     \/ Doing("scrubOff") /\ scrubbing' = FALSE
  /\ UNCHANGED <<epoch, anchor, frames, playing, inbox, ring, mixer, sink, starts, heard>>

\* A fault: the epoch as fetch_add returns it.
MessageBefore(kind) == [kind |-> kind, tick |-> call.tick, epoch |-> epoch - 1]

Message(kind) == [kind |-> kind, tick |-> call.tick, epoch |-> epoch]

Send ==
  /\ ~Returned /\ Head(call.todo) = "send"
  /\ call' = NoCall
  /\ inbox' = Append(inbox, Message(call.kind))
  /\ UNCHANGED <<shared, ring, mixer, sink, starts, heard>>

Call == BumpEpoch \/ ResetClock \/ StorePlaying \/ StoreScrubbing \/ Send

(* current_tick. *)
CurrentTick == anchor + frames \div TickFrames

-----------------------------------------------------------------------------
(* The mixer thread. *)

(* A block is mixed when the messages are drained and the ring has room. *)
MixerReceives ==
  /\ ~mixer.mixing
  /\ inbox # << >>
  /\ inbox' = Tail(inbox)
  /\ LET msg == Head(inbox)
     IN  mixer' = CASE msg.kind = "Pause" -> [mixer EXCEPT !.playing = FALSE, !.burst = 0]
                    [] msg.kind = "Play" ->
                         [mixer EXCEPT !.epoch = msg.epoch, !.playing = TRUE, !.burst = 0,
                                       !.at = msg.tick * TickFrames]
                    [] msg.kind = "Scrub" ->
                         [mixer EXCEPT !.epoch = msg.epoch, !.playing = FALSE,
                                       !.burst = BurstBlocks, !.at = msg.tick * TickFrames]
  /\ UNCHANGED <<shared, call, ring, sink, starts, heard>>

MixerMixes ==
  /\ ~mixer.mixing
  /\ mixer.playing \/ mixer.burst > 0
  /\ inbox = << >> /\ Len(ring) < BlockCapacity
  /\ sink.pops < MaxPops /\ mixer.at < MaxAt
  /\ mixer' = [mixer EXCEPT !.mixing = TRUE]
  /\ UNCHANGED <<shared, call, inbox, ring, sink, starts, heard>>

MixerSends ==
  /\ mixer.mixing
  /\ ring' = Append(ring, [epoch |-> mixer.epoch, at |-> mixer.at])
  /\ mixer' = [mixer EXCEPT !.mixing = FALSE, !.at = @ + BlockFrames,
                            !.burst = IF mixer.playing THEN @ ELSE @ - 1]
  /\ UNCHANGED <<shared, call, inbox, sink, starts, heard>>

Mixer == MixerReceives \/ MixerMixes \/ MixerSends

-----------------------------------------------------------------------------
(* The device callback: CallbackSink::fill. *)

FillStarts ==
  /\ sink.pc = "idle"
  /\ playing => frames < MaxFrames
  /\ sink' = [sink EXCEPT !.pc = IF playing THEN "epoch" ELSE "scrub",
                          !.playing = playing, !.filled = 0, !.pops = 0]
  /\ UNCHANGED <<shared, call, inbox, ring, mixer, starts, heard>>

FillLooksAtScrub ==
  /\ sink.pc = "scrub"
  /\ sink' = IF scrubbing THEN [sink EXCEPT !.pc = "epoch"]
             ELSE [sink EXCEPT !.pc = "idle", !.current = NoBlock, !.cursor = 0]
  /\ UNCHANGED <<shared, call, inbox, ring, mixer, starts, heard>>

FillLoadsEpoch ==
  /\ sink.pc = "epoch"
  /\ sink' = [sink EXCEPT !.pc = "fill", !.epoch = epoch]
  /\ UNCHANGED <<shared, call, inbox, ring, mixer, starts, heard>>

Fresh ==
  /\ sink.current # NoBlock
  /\ sink.current.epoch = sink.epoch
  /\ sink.cursor < BlockFrames

Filling == sink.pc = "fill" /\ sink.filled < DeviceFrames

FillTakes ==
  /\ Filling /\ Fresh
  /\ LET left == BlockFrames - sink.cursor
         room == DeviceFrames - sink.filled
         take == IF left < room THEN left ELSE room
         from == sink.current.at + sink.cursor
     IN  /\ sink' = [sink EXCEPT !.cursor = @ + take, !.filled = @ + take]
         /\ heard' = [epoch |-> sink.current.epoch, from |-> from, upto |-> from + take,
                      count |-> take + IF heard.epoch = sink.epoch THEN heard.count ELSE 0]
  /\ UNCHANGED <<shared, call, inbox, ring, mixer, starts>>

\* A fault: a stale block is adopted like a fresh one.
FillPopsAny ==
  /\ Filling /\ ~Fresh /\ ring # << >>
  /\ ring' = Tail(ring)
  /\ sink' = [sink EXCEPT !.current = [Head(ring) EXCEPT !.epoch = sink.epoch],
                          !.cursor = 0, !.pops = @ + 1]
  /\ UNCHANGED <<shared, call, inbox, mixer, starts, heard>>

FillPops ==
  /\ Filling /\ ~Fresh /\ ring # << >>
  /\ ring' = Tail(ring)
  /\ sink' = [sink EXCEPT
       !.current = IF Head(ring).epoch = sink.epoch THEN Head(ring) ELSE NoBlock,
       !.cursor = 0, !.pops = @ + 1]
  /\ UNCHANGED <<shared, call, inbox, mixer, starts, heard>>

FillEnds ==
  /\ sink.pc = "fill"
  /\ sink.filled = DeviceFrames \/ (~Fresh /\ ring = << >>)
  /\ frames' = IF sink.playing THEN frames + sink.filled ELSE frames
  /\ sink' = [sink EXCEPT !.pc = "idle", !.pops = 0,
       !.current = IF sink.filled < DeviceFrames THEN NoBlock ELSE @,
       !.cursor = IF sink.filled < DeviceFrames THEN 0 ELSE @]
  /\ UNCHANGED <<epoch, anchor, playing, scrubbing, call, inbox, ring, mixer, starts, heard>>

Fill ==
  FillStarts \/ FillLooksAtScrub \/ FillLoadsEpoch \/ FillTakes \/ FillPops \/ FillEnds

-----------------------------------------------------------------------------
Steps == {"bump", "anchor", "scrubOff", "scrubOn", "playOn", "playOff", "send"}

AudioTypeOK ==
  /\ epoch \in Nat /\ anchor \in Nat /\ frames \in Nat
  /\ playing \in BOOLEAN /\ scrubbing \in BOOLEAN
  /\ call \in [kind : {"none", "Play", "Pause", "Scrub"}, tick : Nat, todo : Seq(Steps)]
  /\ inbox \in Seq([kind : {"Play", "Pause", "Scrub"}, tick : Nat, epoch : Nat])
  /\ ring \in Seq(Block) /\ Len(ring) <= BlockCapacity
  /\ mixer \in [mixing : BOOLEAN, epoch : Nat, playing : BOOLEAN, burst : Nat, at : Nat]
  /\ sink \in [pc : {"idle", "scrub", "epoch", "fill"}, playing : BOOLEAN, epoch : Nat,
               filled : 0 .. DeviceFrames, pops : Nat, current : Block \cup {NoBlock},
               cursor : 0 .. BlockFrames]
  /\ starts \in Seq(Nat)
  /\ heard \in [epoch : Nat, from : Nat, upto : Nat, count : Nat]
=============================================================================
