--------------------------- MODULE PlaybackProofs ---------------------------
(***************************************************************************)
(* Theorems about Playback: its type invariant, and that the clock stays   *)
(* within one device buffer of the sound, and that the sound of a play or  *)
(* scrub has no gap, for every size of blocks, ring, device buffer and     *)
(* ticks, and for any number of inputs.                                    *)
(*                                                                         *)
(* The sound of an epoch is mixed only after the call that made the epoch  *)
(* has reset the clock: until its message is sent, no block, message or    *)
(* sound carries the epoch.  From the reset on, a fill is either the one   *)
(* the call overtook, which may add its frames to the clock or play sound  *)
(* without counting it, or a later one, which counts what it plays.        *)
(*                                                                         *)
(* The blocks between the mixer and the device form a chain: each goes on  *)
(* where the one before it ends, or is of a later epoch.  What is taken    *)
(* out of the chain and not heard is of an epoch of which nothing more is  *)
(* heard: the device is filled for a later one, or is silent until there   *)
(* is a later one.                                                         *)
(***************************************************************************)
EXTENDS Playback, SequenceTheorems, TLAPS

-----------------------------------------------------------------------------
(* The inductive invariant *)

NextOp == IF Returned THEN "none" ELSE Head(call.todo)

PlayRest ==
  {<<"bump", "anchor", "scrubOff", "playOn", "send">>, <<"anchor", "scrubOff", "playOn", "send">>,
   <<"scrubOff", "playOn", "send">>, <<"playOn", "send">>, <<"send">>}

PauseRest == {<<"playOff", "scrubOff", "send">>, <<"scrubOff", "send">>, <<"send">>}

ScrubRest ==
  {<<"bump", "playOff", "scrubOn", "send">>, <<"playOff", "scrubOn", "send">>,
   <<"scrubOn", "send">>, <<"send">>}

(* A call has the rest of its script to do. *)
ScriptInv ==
  \/ call.todo = << >>
  \/ call.kind = "Play" /\ call.todo \in PlayRest
  \/ call.kind = "Pause" /\ call.todo \in PauseRest
  \/ call.kind = "Scrub" /\ call.todo \in ScrubRest

(* What a call has stored. *)
StoredInv ==
  /\ call.kind = "Pause" /\ NextOp \in {"scrubOff", "send"} => ~playing
  /\ call.kind = "Scrub" /\ NextOp \in {"scrubOn", "send"} => ~playing
  /\ call.kind = "Play" /\ NextOp = "send" => playing

(* A block that is being mixed will find room in the ring. *)
RingInv ==
  mixer.mixing => Len(ring) < BlockCapacity /\ (mixer.playing \/ mixer.burst > 0)

(* The last epoch has been made and not been sent. *)
Unsent ==
  \/ call.kind = "Play" /\ NextOp \in {"anchor", "scrubOff", "playOn", "send"}
  \/ call.kind = "Scrub" /\ NextOp \in {"playOff", "scrubOn", "send"}

Known(e) == e < epoch \/ (e = epoch /\ ~Unsent)

EpochInv ==
  /\ \A i \in DOMAIN inbox : Known(inbox[i].epoch)
  /\ Known(mixer.epoch)
  /\ \A i \in DOMAIN ring : Known(ring[i].epoch)
  /\ sink.current # NoBlock => Known(sink.current.epoch)
  /\ Known(heard.epoch)
  /\ heard.epoch <= sink.epoch /\ sink.epoch <= epoch

FillInv ==
  /\ sink.pc \in {"scrub", "epoch"} => sink.filled = 0
  /\ sink.pc = "scrub" => ~sink.playing
  /\ sink.pc = "fill" /\ sink.epoch = epoch /\ Unsent => sink.filled = 0

(* The clock has been reset for the last epoch, and that epoch is played. *)
Counting ==
  \/ Returned /\ playing
  \/ NextOp = "bump" /\ playing
  \/ call.kind = "Play" /\ NextOp \in {"scrubOff", "playOn", "send"}

Count == IF heard.epoch = epoch THEN heard.count ELSE 0

Near(counted) == counted <= Count + DeviceFrames /\ Count <= counted + DeviceFrames

ClockInv ==
  Counting =>
    /\ sink.pc \in {"idle", "scrub", "epoch"} => Near(frames)
    /\ sink.pc \in {"scrub", "epoch"} /\ ~sink.playing => Count = 0
    /\ sink.pc = "fill" /\ sink.epoch # epoch => frames = 0
    /\ sink.pc = "fill" /\ sink.epoch = epoch /\ sink.playing => Near(frames + sink.filled)
    /\ sink.pc = "fill" /\ sink.epoch = epoch /\ ~sink.playing =>
         frames <= Count + DeviceFrames /\ Count <= frames + sink.filled

AudioInv ==
  AudioTypeOK /\ ScriptInv /\ StoredInv /\ RingInv /\ EpochInv /\ FillInv /\ ClockInv

IInv == TypeOK /\ AudioInv

-----------------------------------------------------------------------------
(* Types *)

SinkType ==
  [pc : {"idle", "scrub", "epoch", "fill"}, playing : BOOLEAN, epoch : Nat,
   filled : 0 .. DeviceFrames, pops : Nat, current : Block \cup {NoBlock},
   cursor : 0 .. BlockFrames]

Msg == [kind : {"Play", "Pause", "Scrub"}, tick : Nat, epoch : Nat]

(* What the type invariant says of the parts of a record. *)
LEMMA EngineTypes ==
  ASSUME AudioTypeOK
  PROVE  /\ epoch \in Nat /\ frames \in Nat /\ call.tick \in Nat
         /\ mixer.epoch \in Nat /\ mixer.burst \in Nat /\ mixer.at \in Nat
         /\ sink.epoch \in Nat /\ sink.filled \in 0 .. DeviceFrames /\ sink.pops \in Nat
         /\ sink.cursor \in 0 .. BlockFrames
         /\ sink.pc \in {"idle", "scrub", "epoch", "fill"}
         /\ sink.current # NoBlock =>
              sink.current \in Block /\ sink.current.epoch \in Nat /\ sink.current.at \in Nat
         /\ heard.epoch \in Nat /\ heard.count \in Nat
<1>1. sink.current # NoBlock => sink.current \in Block
  BY DEF AudioTypeOK
<1>2. QED
  BY <1>1 DEF AudioTypeOK, Block

LEMMA SinkHasType == ASSUME AudioTypeOK PROVE sink \in SinkType
  BY DEF AudioTypeOK, SinkType

LEMMA ChannelTypes ==
  ASSUME AudioTypeOK
  PROVE  /\ inbox \in Seq(Msg) /\ ring \in Seq(Block)
         /\ \A i \in DOMAIN inbox : inbox[i] \in Msg /\ inbox[i].epoch \in Nat
         /\ \A i \in DOMAIN ring : ring[i] \in Block /\ ring[i].epoch \in Nat
<1>1. inbox \in Seq(Msg) /\ ring \in Seq(Block)
  BY DEF AudioTypeOK, Msg
<1>2. \A i \in DOMAIN inbox : inbox[i] \in Msg
  BY <1>1, ElementOfSeq
<1>3. \A i \in DOMAIN ring : ring[i] \in Block
  BY <1>1, ElementOfSeq
<1>4. QED
  BY <1>1, <1>2, <1>3 DEF Msg, Block

(* A channel keeps what is known of its messages as one is added. *)
LEMMA Appended ==
  ASSUME NEW S, NEW q \in Seq(S), NEW x \in S, NEW r, r = Append(q, x), NEW i \in DOMAIN r
  PROVE  r[i] = x \/ (i \in DOMAIN q /\ r[i] = q[i])
  OBVIOUS

-----------------------------------------------------------------------------
(* Scripts *)

LEMMA TailOfFive ==
  ASSUME NEW a, NEW b, NEW c, NEW d, NEW e
  PROVE  Tail(<<a, b, c, d, e>>) = <<b, c, d, e>>
  OBVIOUS

CallType == [kind : {"none", "Play", "Pause", "Scrub"}, tick : Nat, todo : Seq(Steps)]

LEMMA ScriptType ==
  ASSUME AudioTypeOK
  PROVE  call \in CallType
  BY DEF AudioTypeOK, CallType

(* One operation of a call: what it is tells what comes next. *)
LEMMA NextStep ==
  ASSUME AudioTypeOK, ScriptInv, NEW op, op # "send", Doing(op)
  PROVE  /\ op = NextOp
         /\ ScriptInv'
         /\ call' \in CallType /\ call'.kind = call.kind
         /\ \/ call.kind = "Play" /\ <<op, NextOp'>> \in
                 {<<"bump", "anchor">>, <<"anchor", "scrubOff">>, <<"scrubOff", "playOn">>,
                  <<"playOn", "send">>}
            \/ call.kind = "Pause" /\ <<op, NextOp'>> \in
                 {<<"playOff", "scrubOff">>, <<"scrubOff", "send">>}
            \/ call.kind = "Scrub" /\ <<op, NextOp'>> \in
                 {<<"bump", "playOff">>, <<"playOff", "scrubOn">>, <<"scrubOn", "send">>}
<1>0. call \in CallType
  BY ScriptType
<1>1. /\ call.todo # << >> /\ Head(call.todo) = op
      /\ call' = [call EXCEPT !.todo = Tail(call.todo)]
  BY DEF Doing, Returned
<1>2. op = NextOp
  BY <1>1 DEF NextOp, Returned
<1>3. call'.kind = call.kind /\ call'.todo = Tail(call.todo) /\ call' \in CallType
  <2>1. Tail(call.todo) \in Seq(Steps)
    BY <1>0, <1>1 DEF CallType
  <2>2. QED
    BY <1>0, <1>1, <2>1 DEF CallType
<1>4. CASE call.kind = "Play" /\ call.todo \in PlayRest
  <2>1. CASE call.todo = <<"bump", "anchor", "scrubOff", "playOn", "send">>
    <3>1. Tail(call.todo) = <<"anchor", "scrubOff", "playOn", "send">>
      BY <2>1, TailOfFive
    <3>2. op = "bump" /\ NextOp' = "anchor" /\ call'.todo = <<"anchor", "scrubOff", "playOn", "send">>
      BY <1>1, <1>3, <2>1, <3>1 DEF NextOp, Returned
    <3>3. QED
      BY <1>2, <1>3, <1>4, <3>2 DEF ScriptInv, PlayRest
  <2>2. CASE call.todo = <<"anchor", "scrubOff", "playOn", "send">>
    <3>1. op = "anchor" /\ NextOp' = "scrubOff" /\ call'.todo = <<"scrubOff", "playOn", "send">>
      BY <1>1, <1>3, <2>2 DEF NextOp, Returned
    <3>2. QED
      BY <1>2, <1>3, <1>4, <3>1 DEF ScriptInv, PlayRest
  <2>3. CASE call.todo = <<"scrubOff", "playOn", "send">>
    <3>1. op = "scrubOff" /\ NextOp' = "playOn" /\ call'.todo = <<"playOn", "send">>
      BY <1>1, <1>3, <2>3 DEF NextOp, Returned
    <3>2. QED
      BY <1>2, <1>3, <1>4, <3>1 DEF ScriptInv, PlayRest
  <2>4. CASE call.todo = <<"playOn", "send">>
    <3>1. op = "playOn" /\ NextOp' = "send" /\ call'.todo = <<"send">>
      BY <1>1, <1>3, <2>4 DEF NextOp, Returned
    <3>2. QED
      BY <1>2, <1>3, <1>4, <3>1 DEF ScriptInv, PlayRest
  <2>5. CASE call.todo = <<"send">>
    BY <1>1, <2>5
  <2>6. QED
    BY <1>4, <2>1, <2>2, <2>3, <2>4, <2>5 DEF PlayRest
<1>5. CASE call.kind = "Pause" /\ call.todo \in PauseRest
  <2>1. CASE call.todo = <<"playOff", "scrubOff", "send">>
    <3>1. op = "playOff" /\ NextOp' = "scrubOff" /\ call'.todo = <<"scrubOff", "send">>
      BY <1>1, <1>3, <2>1 DEF NextOp, Returned
    <3>2. QED
      BY <1>2, <1>3, <1>5, <3>1 DEF ScriptInv, PauseRest
  <2>2. CASE call.todo = <<"scrubOff", "send">>
    <3>1. op = "scrubOff" /\ NextOp' = "send" /\ call'.todo = <<"send">>
      BY <1>1, <1>3, <2>2 DEF NextOp, Returned
    <3>2. QED
      BY <1>2, <1>3, <1>5, <3>1 DEF ScriptInv, PauseRest
  <2>3. CASE call.todo = <<"send">>
    BY <1>1, <2>3
  <2>4. QED
    BY <1>5, <2>1, <2>2, <2>3 DEF PauseRest
<1>6. CASE call.kind = "Scrub" /\ call.todo \in ScrubRest
  <2>1. CASE call.todo = <<"bump", "playOff", "scrubOn", "send">>
    <3>1. op = "bump" /\ NextOp' = "playOff" /\ call'.todo = <<"playOff", "scrubOn", "send">>
      BY <1>1, <1>3, <2>1 DEF NextOp, Returned
    <3>2. QED
      BY <1>2, <1>3, <1>6, <3>1 DEF ScriptInv, ScrubRest
  <2>2. CASE call.todo = <<"playOff", "scrubOn", "send">>
    <3>1. op = "playOff" /\ NextOp' = "scrubOn" /\ call'.todo = <<"scrubOn", "send">>
      BY <1>1, <1>3, <2>2 DEF NextOp, Returned
    <3>2. QED
      BY <1>2, <1>3, <1>6, <3>1 DEF ScriptInv, ScrubRest
  <2>3. CASE call.todo = <<"scrubOn", "send">>
    <3>1. op = "scrubOn" /\ NextOp' = "send" /\ call'.todo = <<"send">>
      BY <1>1, <1>3, <2>3 DEF NextOp, Returned
    <3>2. QED
      BY <1>2, <1>3, <1>6, <3>1 DEF ScriptInv, ScrubRest
  <2>4. CASE call.todo = <<"send">>
    BY <1>1, <2>4
  <2>5. QED
    BY <1>6, <2>1, <2>2, <2>3, <2>4 DEF ScrubRest
<1>7. QED
  BY <1>1, <1>4, <1>5, <1>6 DEF ScriptInv

(* A call that has only to send has stored everything. *)
LEMMA SendIsLast ==
  ASSUME ScriptInv, ~Returned, Head(call.todo) = "send"
  PROVE  NextOp = "send" /\ call.kind \in {"Play", "Pause", "Scrub"}
  BY DEF ScriptInv, NextOp, Returned

-----------------------------------------------------------------------------
(* The handle's calls *)

LEMMA BumpEpochKeeps ==
  ASSUME AudioInv, BumpEpoch
  PROVE  AudioInv'
<1> USE AudioAssumption
<1>1. /\ ScriptInv' /\ call' \in CallType /\ call'.kind = call.kind
      /\ \/ call.kind = "Play" /\ NextOp' = "anchor"
         \/ call.kind = "Scrub" /\ NextOp' = "playOff"
  <2>1. Doing("bump")
    BY DEF BumpEpoch
  <2>2. QED
    BY <2>1, NextStep DEF AudioInv
<1>2. AudioTypeOK'
  <2>1. call.tick * TickFrames \in Nat
    BY EngineTypes DEF AudioInv
  <2>2. starts' \in Seq(Nat)
    BY <2>1 DEF BumpEpoch, AudioInv, AudioTypeOK
  <2>3. QED
    BY <1>1, <2>2 DEF BumpEpoch, AudioInv, AudioTypeOK, CallType
<1>3. StoredInv'
  BY <1>1 DEF StoredInv
<1>4. RingInv'
  BY DEF BumpEpoch, AudioInv, RingInv
<1>5. \A e \in Nat : Known(e) => Known(e)'
  BY DEF BumpEpoch, AudioInv, AudioTypeOK, Known
<1>6. EpochInv'
  <2>1. /\ \A i \in DOMAIN inbox : inbox[i].epoch \in Nat /\ Known(inbox[i].epoch)
        /\ \A i \in DOMAIN ring : ring[i].epoch \in Nat /\ Known(ring[i].epoch)
    BY ChannelTypes DEF AudioInv, EpochInv
  <2>2. /\ \A i \in DOMAIN inbox : Known(inbox[i].epoch)'
        /\ \A i \in DOMAIN ring : Known(ring[i].epoch)'
    BY <1>5, <2>1 DEF BumpEpoch
  <2>3. Known(mixer.epoch)' /\ Known(heard.epoch)'
        /\ (sink.current # NoBlock => Known(sink.current.epoch)')
    BY <1>5, EngineTypes DEF BumpEpoch, AudioInv, EpochInv
  <2>4. sink.epoch <= epoch'
    BY EngineTypes DEF BumpEpoch, AudioInv, EpochInv
  <2>5. QED
    BY <2>2, <2>3, <2>4 DEF BumpEpoch, AudioInv, EpochInv
<1>7. sink.epoch # epoch' /\ heard.epoch # epoch'
  <2>1. sink.epoch <= epoch /\ heard.epoch <= epoch /\ epoch' = epoch + 1
    BY EngineTypes DEF BumpEpoch, AudioInv, EpochInv, Known
  <2>2. QED
    BY <2>1, EngineTypes DEF AudioInv
<1>8. FillInv'
  BY <1>7 DEF BumpEpoch, AudioInv, FillInv
<1>9. ~Counting'
  BY <1>1 DEF Counting, NextOp
<1>10. QED
  BY <1>1, <1>2, <1>3, <1>4, <1>6, <1>8, <1>9 DEF AudioInv, ClockInv

(* Between the new epoch and its message nothing is known of it. *)
LEMMA NothingOfTheUnsent ==
  ASSUME AudioInv, Unsent
  PROVE  Count = 0
  BY DEF AudioInv, AudioTypeOK, EpochInv, Known, Count

LEMMA ResetClockKeeps ==
  ASSUME AudioInv, ResetClock
  PROVE  AudioInv'
<1> USE AudioAssumption
<1>1. /\ ScriptInv' /\ call' \in CallType /\ call'.kind = "Play" /\ call.kind = "Play"
      /\ NextOp = "anchor" /\ NextOp' = "scrubOff"
  <2>1. Doing("anchor")
    BY DEF ResetClock
  <2>2. QED
    BY <2>1, NextStep DEF AudioInv
<1>2. AudioTypeOK'
  BY <1>1 DEF ResetClock, AudioInv, AudioTypeOK, CallType
<1>3. Unsent /\ Unsent'
  BY <1>1 DEF Unsent
<1>4. StoredInv' /\ RingInv'
  BY <1>1 DEF ResetClock, AudioInv, StoredInv, RingInv
<1>5. EpochInv' /\ FillInv'
  BY <1>3 DEF ResetClock, AudioInv, EpochInv, FillInv, Known
<1>6. ClockInv'
  <2>1. Count = 0 /\ Count' = 0
    BY <1>3, NothingOfTheUnsent DEF ResetClock, Count
  <2>2. sink.pc = "fill" /\ sink.epoch = epoch => sink.filled = 0
    BY <1>3 DEF AudioInv, FillInv
  <2>3. QED
    BY <2>1, <2>2, EngineTypes DEF ResetClock, ClockInv, Near, AudioInv
<1>7. QED
  BY <1>1, <1>2, <1>4, <1>5, <1>6 DEF AudioInv

LEMMA StoreScrubbingKeeps ==
  ASSUME AudioInv, StoreScrubbing
  PROVE  AudioInv'
<1> USE AudioAssumption
<1>1. /\ ScriptInv' /\ call' \in CallType /\ call'.kind = call.kind
      /\ \/ call.kind = "Play" /\ NextOp = "scrubOff" /\ NextOp' = "playOn"
         \/ call.kind = "Pause" /\ NextOp = "scrubOff" /\ NextOp' = "send"
         \/ call.kind = "Scrub" /\ NextOp = "scrubOn" /\ NextOp' = "send"
  <2>1. Doing("scrubOn") \/ Doing("scrubOff")
    BY DEF StoreScrubbing
  <2>2. QED
    BY <2>1, NextStep DEF AudioInv
<1>2. AudioTypeOK'
  BY <1>1 DEF StoreScrubbing, AudioInv, AudioTypeOK, CallType
<1>3. Unsent' = Unsent
  BY <1>1 DEF Unsent
<1>4. StoredInv' /\ RingInv'
  BY <1>1 DEF StoreScrubbing, AudioInv, StoredInv, RingInv
<1>5. EpochInv' /\ FillInv'
  BY <1>3 DEF StoreScrubbing, AudioInv, EpochInv, FillInv, Known
<1>6. Counting' => Counting
  BY <1>1 DEF Counting, NextOp
<1>7. ClockInv'
  BY <1>6 DEF StoreScrubbing, AudioInv, ClockInv, Near, Count
<1>8. QED
  BY <1>1, <1>2, <1>4, <1>5, <1>7 DEF AudioInv

LEMMA StorePlayingKeeps ==
  ASSUME AudioInv, StorePlaying
  PROVE  AudioInv'
<1> USE AudioAssumption
<1>1. /\ ScriptInv' /\ call' \in CallType /\ call'.kind = call.kind
      /\ \/ call.kind = "Play" /\ NextOp = "playOn" /\ NextOp' = "send" /\ playing'
         \/ call.kind = "Pause" /\ NextOp = "playOff" /\ NextOp' = "scrubOff" /\ ~playing'
         \/ call.kind = "Scrub" /\ NextOp = "playOff" /\ NextOp' = "scrubOn" /\ ~playing'
  <2>1. CASE Doing("playOn") /\ playing' = TRUE
    BY <2>1, NextStep DEF AudioInv
  <2>2. CASE Doing("playOff") /\ playing' = FALSE
    BY <2>2, NextStep DEF AudioInv
  <2>3. QED
    BY <2>1, <2>2 DEF StorePlaying
<1>2. AudioTypeOK'
  BY <1>1 DEF StorePlaying, AudioInv, AudioTypeOK, CallType
<1>3. Unsent' = Unsent
  BY <1>1 DEF Unsent
<1>4. StoredInv' /\ RingInv'
  BY <1>1 DEF StorePlaying, AudioInv, StoredInv, RingInv
<1>5. EpochInv' /\ FillInv'
  BY <1>3 DEF StorePlaying, AudioInv, EpochInv, FillInv, Known
<1>6. Counting' => Counting
  BY <1>1 DEF Counting, NextOp
<1>7. ClockInv'
  BY <1>6 DEF StorePlaying, AudioInv, ClockInv, Near, Count
<1>8. QED
  BY <1>1, <1>2, <1>4, <1>5, <1>7 DEF AudioInv

LEMMA SendKeeps ==
  ASSUME AudioInv, Send
  PROVE  AudioInv'
<1> USE AudioAssumption
<1>1. NextOp = "send" /\ call.kind \in {"Play", "Pause", "Scrub"}
  BY SendIsLast DEF Send, AudioInv
<1>2. call' = NoCall /\ Returned' /\ NextOp' = "none"
  BY DEF Send, NoCall, Returned, NextOp
<1>3. AudioTypeOK'
  <2>1. Message(call.kind) \in [kind : {"Play", "Pause", "Scrub"}, tick : Nat, epoch : Nat]
    BY <1>1 DEF Message, AudioInv, AudioTypeOK
  <2>2. inbox' \in Seq([kind : {"Play", "Pause", "Scrub"}, tick : Nat, epoch : Nat])
    BY <2>1 DEF Send, AudioInv, AudioTypeOK
  <2>3. call' \in CallType
    BY <1>2 DEF NoCall, CallType
  <2>4. QED
    BY <2>2, <2>3 DEF Send, shared, AudioInv, AudioTypeOK, CallType
<1>4. ScriptInv' /\ StoredInv' /\ RingInv'
  BY <1>2 DEF NoCall, ScriptInv, StoredInv, RingInv, Send, shared, AudioInv
<1>5. ~Unsent'
  BY <1>2 DEF Unsent
<1>6. EpochInv'
  <2>1. \A i \in DOMAIN inbox' : Known(inbox[i].epoch)'
    <3> DEFINE msg == Message(call.kind)
    <3>1. msg \in Msg /\ msg.epoch = epoch
      BY <1>1, EngineTypes DEF Message, Msg, AudioInv
    <3>2. inbox' = Append(inbox, msg) /\ inbox \in Seq(Msg)
      BY ChannelTypes DEF Send, AudioInv
    <3> HIDE DEF msg
    <3>3. ASSUME NEW i \in DOMAIN inbox'
          PROVE  Known(inbox[i].epoch)'
      <4>1. inbox'[i] = msg \/ (i \in DOMAIN inbox /\ inbox'[i] = inbox[i])
        BY <3>1, <3>2, <3>3, Appended
      <4>2. CASE inbox'[i] = msg
        BY <1>5, <3>1, <4>2 DEF Known, Send, shared
      <4>3. CASE i \in DOMAIN inbox /\ inbox'[i] = inbox[i]
        BY <1>5, <4>3 DEF Known, Send, shared, AudioInv, EpochInv
      <4>4. QED
        BY <4>1, <4>2, <4>3
    <3>4. QED
      BY <3>3
  <2>2. QED
    BY <1>5, <2>1, EngineTypes DEF Send, shared, AudioInv, EpochInv, Known
<1>7. FillInv'
  BY <1>5 DEF Send, AudioInv, FillInv
<1>8. Counting' => Counting
  BY <1>1, <1>2 DEF Counting, Send, shared, AudioInv, StoredInv
<1>9. ClockInv'
  BY <1>8 DEF Send, shared, AudioInv, ClockInv, Near, Count
<1>10. QED
  BY <1>3, <1>4, <1>6, <1>7, <1>9 DEF AudioInv

(* The mixer and the callback leave the handle alone. *)
LEMMA HandleRests ==
  ASSUME UNCHANGED <<epoch, playing, call>>
  PROVE  /\ Unsent' = Unsent /\ Counting' = Counting
         /\ ScriptInv' = ScriptInv /\ StoredInv' = StoredInv
  BY DEF Unsent, Counting, NextOp, Returned, ScriptInv, StoredInv

-----------------------------------------------------------------------------
(* The mixer *)

LEMMA MixerReceivesKeeps ==
  ASSUME AudioInv, MixerReceives
  PROVE  AudioInv'
<1> USE AudioAssumption
<1>1. UNCHANGED <<epoch, playing, frames, call, ring, sink, heard>> /\ mixer.mixing = FALSE
  BY DEF MixerReceives, shared, AudioInv, AudioTypeOK
<1>2. /\ Unsent' = Unsent /\ Counting' = Counting
      /\ ScriptInv' /\ StoredInv'
  BY <1>1, HandleRests DEF AudioInv
<1>3. Head(inbox) \in Msg /\ Known(Head(inbox).epoch) /\ Tail(inbox) \in Seq(Msg)
  BY ChannelTypes DEF MixerReceives, AudioInv, EpochInv
<1>4. /\ mixer' \in [mixing : BOOLEAN, epoch : Nat, playing : BOOLEAN, burst : Nat, at : Nat]
      /\ mixer'.mixing = FALSE
      /\ mixer'.epoch \in {mixer.epoch, Head(inbox).epoch}
  <2>1. Head(inbox).tick * TickFrames \in Nat
    BY <1>3 DEF Msg
  <2>2. CASE Head(inbox).kind = "Pause"
    BY <1>1, <2>2 DEF MixerReceives, AudioInv, AudioTypeOK
  <2>3. CASE Head(inbox).kind = "Play"
    BY <1>1, <1>3, <2>1, <2>3 DEF MixerReceives, AudioInv, AudioTypeOK, Msg
  <2>4. CASE Head(inbox).kind = "Scrub"
    BY <1>1, <1>3, <2>1, <2>4 DEF MixerReceives, AudioInv, AudioTypeOK, Msg
  <2>5. QED
    BY <1>3, <2>2, <2>3, <2>4 DEF Msg
<1>5. AudioTypeOK'
  BY <1>3, <1>4 DEF MixerReceives, shared, AudioInv, AudioTypeOK, Msg
<1>6. EpochInv'
  <2>1. \A i \in DOMAIN inbox' : inbox'[i] = inbox[i + 1] /\ i + 1 \in DOMAIN inbox
    BY ChannelTypes DEF MixerReceives, AudioInv
  <2>2. \A e : Known(e)' <=> Known(e)
    BY <1>1, <1>2 DEF Known
  <2>3. \A i \in DOMAIN inbox' : Known(inbox[i].epoch)'
    BY <1>1, <1>2, <2>1 DEF AudioInv, EpochInv, Known
  <2>4. Known(mixer.epoch)'
    BY <1>1, <1>2, <1>3, <1>4 DEF AudioInv, EpochInv, Known
  <2>5. QED
    BY <1>1, <1>2, <2>3, <2>4 DEF AudioInv, EpochInv, Known
<1>7. RingInv'
  BY <1>4 DEF RingInv
<1>8. FillInv' /\ ClockInv'
  BY <1>1, <1>2 DEF AudioInv, FillInv, ClockInv, Near, Count
<1>9. QED
  BY <1>2, <1>5, <1>6, <1>7, <1>8 DEF AudioInv

LEMMA MixerMixesKeeps ==
  ASSUME AudioInv, MixerMixes
  PROVE  AudioInv'
<1> USE AudioAssumption
<1>1. UNCHANGED <<epoch, playing, frames, call, inbox, ring, sink, heard>>
  BY DEF MixerMixes, shared
<1>2. /\ Unsent' = Unsent /\ Counting' = Counting
      /\ ScriptInv' /\ StoredInv'
  BY <1>1, HandleRests DEF AudioInv
<1>3. /\ mixer' \in [mixing : BOOLEAN, epoch : Nat, playing : BOOLEAN, burst : Nat, at : Nat]
      /\ mixer'.epoch = mixer.epoch /\ mixer'.playing = mixer.playing /\ mixer'.burst = mixer.burst
  BY DEF MixerMixes, AudioInv, AudioTypeOK
<1>4. AudioTypeOK'
  BY <1>3 DEF MixerMixes, shared, AudioInv, AudioTypeOK
<1>5. RingInv'
  BY <1>1, <1>3 DEF MixerMixes, RingInv
<1>6. EpochInv' /\ FillInv' /\ ClockInv'
  BY <1>1, <1>2, <1>3 DEF AudioInv, EpochInv, Known, FillInv, ClockInv, Near, Count
<1>7. QED
  BY <1>2, <1>4, <1>5, <1>6 DEF AudioInv

LEMMA MixerSendsKeeps ==
  ASSUME AudioInv, MixerSends
  PROVE  AudioInv'
<1> USE AudioAssumption
<1>1. UNCHANGED <<epoch, playing, frames, call, inbox, sink, heard>>
  BY DEF MixerSends, shared
<1>2. /\ Unsent' = Unsent /\ Counting' = Counting
      /\ ScriptInv' /\ StoredInv'
  BY <1>1, HandleRests DEF AudioInv
<1> DEFINE block == [epoch |-> mixer.epoch, at |-> mixer.at]
<1>3. ring' = Append(ring, block) /\ block \in Block /\ ring \in Seq(Block)
  BY EngineTypes, ChannelTypes DEF MixerSends, Block, AudioInv
<1> HIDE DEF block
<1>4. ring' \in Seq(Block) /\ Len(ring') <= BlockCapacity
  <2>1. Len(ring) < BlockCapacity
    BY DEF MixerSends, AudioInv, RingInv
  <2>2. QED
    BY <1>3, <2>1
<1>5. /\ mixer' \in [mixing : BOOLEAN, epoch : Nat, playing : BOOLEAN, burst : Nat, at : Nat]
      /\ mixer'.mixing = FALSE /\ mixer'.epoch = mixer.epoch
  <2>1. mixer.playing \/ mixer.burst > 0
    BY DEF MixerSends, AudioInv, RingInv
  <2>2. (IF mixer.playing THEN mixer.burst ELSE mixer.burst - 1) \in Nat
    BY <2>1, EngineTypes DEF AudioInv
  <2>3. mixer.at + BlockFrames \in Nat
    BY EngineTypes DEF AudioInv
  <2>4. QED
    BY <2>2, <2>3 DEF MixerSends, AudioInv, AudioTypeOK
<1>6. AudioTypeOK'
  BY <1>4, <1>5 DEF MixerSends, shared, AudioInv, AudioTypeOK
<1>7. RingInv'
  BY <1>5 DEF RingInv
<1>8. EpochInv'
  <2>1. ASSUME NEW i \in DOMAIN ring'
        PROVE  Known(ring[i].epoch)'
    <3>1. ring'[i] = block \/ (i \in DOMAIN ring /\ ring'[i] = ring[i])
      BY <1>3, <2>1, Appended
    <3>2. CASE ring'[i] = block
      BY <1>1, <1>2, <3>2 DEF block, Known, AudioInv, EpochInv
    <3>3. CASE i \in DOMAIN ring /\ ring'[i] = ring[i]
      BY <1>1, <1>2, <3>3 DEF Known, AudioInv, EpochInv
    <3>4. QED
      BY <3>1, <3>2, <3>3
  <2>2. QED
    BY <1>1, <1>2, <1>5, <2>1 DEF AudioInv, EpochInv, Known
<1>9. FillInv' /\ ClockInv'
  BY <1>1, <1>2 DEF AudioInv, FillInv, ClockInv, Near, Count
<1>10. QED
  BY <1>2, <1>6, <1>7, <1>8, <1>9 DEF AudioInv

-----------------------------------------------------------------------------
(* The callback *)

LEMMA FillStartsKeeps ==
  ASSUME AudioInv, FillStarts
  PROVE  AudioInv'
<1> USE AudioAssumption
<1>1. UNCHANGED <<epoch, playing, frames, call, inbox, ring, mixer, heard>>
  BY DEF FillStarts, shared
<1>2. /\ Unsent' = Unsent /\ Counting' = Counting
      /\ ScriptInv' /\ StoredInv'
  BY <1>1, HandleRests DEF AudioInv
<1>3. /\ sink.pc = "idle"
      /\ sink' = [sink EXCEPT !.pc = IF playing THEN "epoch" ELSE "scrub",
                              !.playing = playing, !.filled = 0, !.pops = 0]
  BY DEF FillStarts
<1>4. AudioTypeOK'
  <2>1. playing \in BOOLEAN /\ 0 \in 0 .. DeviceFrames
    BY DEF AudioInv, AudioTypeOK
  <2>2. sink' \in SinkType
    BY <1>3, <2>1, SinkHasType DEF AudioInv, SinkType
  <2>3. QED
    BY <2>2 DEF FillStarts, shared, AudioInv, AudioTypeOK, SinkType
<1>5. /\ sink'.pc = IF playing THEN "epoch" ELSE "scrub"
      /\ sink'.playing = playing /\ sink'.filled = 0
      /\ sink'.epoch = sink.epoch /\ sink'.current = sink.current
  BY <1>3 DEF AudioInv, AudioTypeOK
<1>6. RingInv' /\ EpochInv' /\ FillInv'
  BY <1>1, <1>2, <1>5 DEF AudioInv, RingInv, EpochInv, Known, FillInv
<1>7. Counting /\ ~playing => Count = 0
  <2>1. Counting /\ ~playing => Unsent
    BY DEF Counting, Unsent
  <2>2. QED
    BY <2>1, NothingOfTheUnsent
<1>8. ClockInv'
  BY <1>1, <1>2, <1>3, <1>5, <1>7 DEF AudioInv, ClockInv, Near, Count
<1>9. QED
  BY <1>2, <1>4, <1>6, <1>8 DEF AudioInv

LEMMA FillLooksAtScrubKeeps ==
  ASSUME AudioInv, FillLooksAtScrub
  PROVE  AudioInv'
<1> USE AudioAssumption
<1>1. UNCHANGED <<epoch, playing, frames, call, inbox, ring, mixer, heard>>
  BY DEF FillLooksAtScrub, shared
<1>2. /\ Unsent' = Unsent /\ Counting' = Counting
      /\ ScriptInv' /\ StoredInv'
  BY <1>1, HandleRests DEF AudioInv
<1>3. /\ sink.pc = "scrub" /\ sink'.pc \in {"epoch", "idle"}
      /\ sink'.playing = sink.playing /\ sink'.filled = sink.filled
      /\ sink'.epoch = sink.epoch /\ sink'.current \in {sink.current, NoBlock}
      /\ AudioTypeOK'
  <2>1. CASE scrubbing
    BY <2>1 DEF FillLooksAtScrub, shared, AudioInv, AudioTypeOK
  <2>2. CASE ~scrubbing
    <3>1. sink' = [sink EXCEPT !.pc = "idle", !.current = NoBlock, !.cursor = 0]
      BY <2>2 DEF FillLooksAtScrub
    <3>2. sink' \in SinkType
      <4>1. 0 \in 0 .. BlockFrames
        OBVIOUS
      <4>2. QED
        BY <3>1, <4>1, SinkHasType DEF AudioInv, SinkType
    <3>3. AudioTypeOK'
      BY <3>2 DEF FillLooksAtScrub, shared, AudioInv, AudioTypeOK, SinkType
    <3>4. QED
      BY <3>1, <3>3, SinkHasType DEF FillLooksAtScrub, AudioInv, SinkType
  <2>3. QED
    BY <2>1, <2>2
<1>4. RingInv' /\ EpochInv' /\ FillInv'
  BY <1>1, <1>2, <1>3 DEF AudioInv, RingInv, EpochInv, Known, FillInv
<1>5. ClockInv'
  BY <1>1, <1>2, <1>3 DEF AudioInv, ClockInv, Near, Count
<1>6. QED
  BY <1>2, <1>3, <1>4, <1>5 DEF AudioInv

LEMMA FillLoadsEpochKeeps ==
  ASSUME AudioInv, FillLoadsEpoch
  PROVE  AudioInv'
<1> USE AudioAssumption
<1>1. UNCHANGED <<epoch, playing, frames, call, inbox, ring, mixer, heard>>
  BY DEF FillLoadsEpoch, shared
<1>2. /\ Unsent' = Unsent /\ Counting' = Counting
      /\ ScriptInv' /\ StoredInv'
  BY <1>1, HandleRests DEF AudioInv
<1>3. /\ sink.pc = "epoch" /\ sink'.pc = "fill" /\ sink'.playing = sink.playing
      /\ sink'.filled = sink.filled /\ sink'.epoch = epoch /\ sink'.current = sink.current
      /\ AudioTypeOK'
  BY DEF FillLoadsEpoch, shared, AudioInv, AudioTypeOK
<1>4. RingInv' /\ EpochInv' /\ FillInv'
  BY <1>1, <1>2, <1>3, EngineTypes DEF AudioInv, RingInv, EpochInv, Known, FillInv
<1>5. ClockInv'
  <2>1. sink.filled = 0
    BY <1>3 DEF AudioInv, FillInv
  <2>2. QED
    BY <1>1, <1>2, <1>3, <2>1, EngineTypes DEF AudioInv, ClockInv, Near, Count
<1>6. QED
  BY <1>2, <1>3, <1>4, <1>5 DEF AudioInv

LEMMA FillTakesKeeps ==
  ASSUME AudioInv, FillTakes
  PROVE  AudioInv'
<1> USE AudioAssumption
<1>1. UNCHANGED <<epoch, playing, frames, call, inbox, ring, mixer>>
  BY DEF FillTakes, shared
<1>2. /\ Unsent' = Unsent /\ Counting' = Counting
      /\ ScriptInv' /\ StoredInv'
  BY <1>1, HandleRests DEF AudioInv
<1> DEFINE left == BlockFrames - sink.cursor
           room == DeviceFrames - sink.filled
           take == IF left < room THEN left ELSE room
           from == sink.current.at + sink.cursor
<1>3. /\ sink.pc = "fill" /\ sink.current # NoBlock /\ sink.current.epoch = sink.epoch
      /\ sink.cursor < BlockFrames /\ sink.filled < DeviceFrames
  BY DEF FillTakes, Filling, Fresh
<1>4. take \in Nat /\ sink.cursor + take \in 0 .. BlockFrames
      /\ sink.filled + take \in 0 .. DeviceFrames /\ from \in Nat /\ from + take \in Nat
  BY <1>3, EngineTypes DEF AudioInv
<1>5. /\ sink' = [sink EXCEPT !.cursor = @ + take, !.filled = @ + take]
      /\ heard' = [epoch |-> sink.current.epoch, from |-> from, upto |-> from + take,
                   count |-> take + IF heard.epoch = sink.epoch THEN heard.count ELSE 0]
  BY DEF FillTakes
<1> HIDE DEF left, room, take, from
<1>6. /\ sink'.pc = "fill" /\ sink'.playing = sink.playing /\ sink'.epoch = sink.epoch
      /\ sink'.current = sink.current /\ sink'.filled = sink.filled + take
      /\ heard'.epoch = sink.epoch
      /\ heard'.count = take + IF heard.epoch = sink.epoch THEN heard.count ELSE 0
  BY <1>3, <1>5 DEF AudioInv, AudioTypeOK
<1>7. AudioTypeOK'
  <2>1. sink' \in SinkType
    BY <1>4, <1>5, SinkHasType DEF AudioInv, SinkType
  <2>2. heard' \in [epoch : Nat, from : Nat, upto : Nat, count : Nat]
    BY <1>3, <1>4, <1>5, EngineTypes DEF AudioInv
  <2>3. QED
    BY <2>1, <2>2 DEF FillTakes, shared, AudioInv, AudioTypeOK, SinkType
(* What is taken is of a known epoch: of the last one only when it is sent. *)
<1>8. Known(sink.epoch)
  BY <1>3 DEF AudioInv, EpochInv
<1>9. RingInv' /\ EpochInv'
  BY <1>1, <1>2, <1>6, <1>8, EngineTypes DEF AudioInv, RingInv, EpochInv, Known
<1>10. FillInv'
  BY <1>1, <1>2, <1>6, <1>8, EngineTypes DEF AudioInv, FillInv, Known
<1>11. ClockInv'
  <2>1. sink.epoch = epoch => Count' = Count + take
    BY <1>1, <1>4, <1>6, EngineTypes DEF Count, AudioInv
  <2>2. QED
    BY <1>1, <1>2, <1>3, <1>4, <1>6, <2>1, EngineTypes DEF AudioInv, ClockInv, Near, Count
<1>12. QED
  BY <1>2, <1>7, <1>9, <1>10, <1>11 DEF AudioInv

LEMMA FillPopsKeeps ==
  ASSUME AudioInv, FillPops
  PROVE  AudioInv'
<1> USE AudioAssumption
<1>1. UNCHANGED <<epoch, playing, frames, call, inbox, mixer, heard>> /\ sink.pc = "fill"
  BY DEF FillPops, shared, Filling
<1>2. /\ Unsent' = Unsent /\ Counting' = Counting
      /\ ScriptInv' /\ StoredInv'
  BY <1>1, HandleRests DEF AudioInv
<1>3. /\ Head(ring) \in Block /\ Known(Head(ring).epoch)
      /\ ring' = Tail(ring) /\ ring' \in Seq(Block) /\ Len(ring') < Len(ring)
      /\ Len(ring) \in Nat /\ Len(ring') \in Nat
  BY ChannelTypes DEF FillPops, AudioInv, EpochInv
<1>4. /\ sink'.pc = "fill" /\ sink'.playing = sink.playing /\ sink'.epoch = sink.epoch
      /\ sink'.filled = sink.filled /\ sink'.current \in {Head(ring), NoBlock}
      /\ sink' \in SinkType
  <2> DEFINE next == IF Head(ring).epoch = sink.epoch THEN Head(ring) ELSE NoBlock
  <2>1. next \in Block \cup {NoBlock} /\ next \in {Head(ring), NoBlock}
    BY <1>3
  <2>2. sink' = [sink EXCEPT !.current = next, !.cursor = 0, !.pops = @ + 1]
    BY DEF FillPops
  <2> HIDE DEF next
  <2>3. sink.pops + 1 \in Nat /\ 0 \in 0 .. BlockFrames
    BY EngineTypes DEF AudioInv
  <2>4. QED
    BY <1>1, <2>1, <2>2, <2>3, SinkHasType DEF AudioInv, SinkType
<1>5. AudioTypeOK'
  <2>1. Len(ring') <= BlockCapacity
    BY <1>3 DEF AudioInv, AudioTypeOK
  <2>2. QED
    BY <1>3, <1>4, <2>1 DEF FillPops, shared, AudioInv, AudioTypeOK, SinkType
<1>6. RingInv'
  BY <1>1, <1>3, <1>5 DEF AudioInv, RingInv, AudioTypeOK
<1>7. EpochInv'
  <2>1. \A i \in DOMAIN ring' : ring'[i] = ring[i + 1] /\ i + 1 \in DOMAIN ring
    BY ChannelTypes DEF FillPops, AudioInv
  <2>2. \A i \in DOMAIN ring' : Known(ring[i].epoch)'
    BY <1>1, <1>2, <2>1 DEF AudioInv, EpochInv, Known
  <2>3. sink'.current # NoBlock => Known(sink.current.epoch)'
    BY <1>1, <1>2, <1>3, <1>4 DEF Known
  <2>4. QED
    BY <1>1, <1>2, <1>4, <2>2, <2>3 DEF AudioInv, EpochInv, Known
<1>8. FillInv' /\ ClockInv'
  BY <1>1, <1>2, <1>4 DEF AudioInv, FillInv, ClockInv, Near, Count
<1>9. QED
  BY <1>2, <1>5, <1>6, <1>7, <1>8 DEF AudioInv

LEMMA FillEndsKeeps ==
  ASSUME AudioInv, FillEnds
  PROVE  AudioInv'
<1> USE AudioAssumption
<1>1. UNCHANGED <<epoch, playing, call, inbox, ring, mixer, heard>> /\ sink.pc = "fill"
  BY DEF FillEnds
<1>2. /\ Unsent' = Unsent /\ Counting' = Counting
      /\ ScriptInv' /\ StoredInv'
  BY <1>1, HandleRests DEF AudioInv
<1>3. frames' = (IF sink.playing THEN frames + sink.filled ELSE frames) /\ frames' \in Nat
  <2>1. frames + sink.filled \in Nat /\ frames \in Nat
    BY EngineTypes DEF AudioInv
  <2>2. QED
    BY <2>1 DEF FillEnds
<1>4. /\ sink'.pc = "idle" /\ sink'.epoch = sink.epoch
      /\ sink'.current \in {sink.current, NoBlock}
      /\ AudioTypeOK'
  <2> DEFINE next == IF sink.filled < DeviceFrames THEN NoBlock ELSE sink.current
             cursor == IF sink.filled < DeviceFrames THEN 0 ELSE sink.cursor
  <2>1. next \in Block \cup {NoBlock} /\ next \in {sink.current, NoBlock}
    BY EngineTypes DEF AudioInv
  <2>2. cursor \in 0 .. BlockFrames
    BY EngineTypes DEF AudioInv
  <2>3. sink' = [sink EXCEPT !.pc = "idle", !.pops = 0, !.current = next, !.cursor = cursor]
    BY DEF FillEnds
  <2> HIDE DEF next, cursor
  <2>4. sink' \in SinkType /\ sink'.pc = "idle" /\ sink'.epoch = sink.epoch /\ sink'.current = next
    BY <2>1, <2>2, <2>3, SinkHasType DEF AudioInv, SinkType
  <2>5. QED
    BY <1>3, <2>1, <2>4 DEF FillEnds, AudioInv, AudioTypeOK, SinkType
<1>5. RingInv' /\ EpochInv' /\ FillInv'
  BY <1>1, <1>2, <1>4 DEF AudioInv, RingInv, EpochInv, Known, FillInv
<1>6. ClockInv'
  <2>1. sink.epoch # epoch => Count = 0
    BY EngineTypes DEF AudioInv, EpochInv, Known, Count
  <2>2. Count' = Count /\ Count \in Nat
    BY <1>1, EngineTypes DEF Count, AudioInv
  <2>3. QED
    BY <1>1, <1>2, <1>3, <1>4, <2>1, <2>2, EngineTypes DEF AudioInv, ClockInv, Near
<1>7. QED
  BY <1>2, <1>4, <1>5, <1>6 DEF AudioInv

-----------------------------------------------------------------------------
(* The transport *)

NewCall ==
  \/ call' = call
  \/ call' = PauseCall
  \/ \E tick \in Nat : call' = PlayCall(tick) \/ call' = ScrubCall(tick)

(* A turn of the event loop leaves the engine a new call, or none. *)
LEMMA NewCallKeeps ==
  ASSUME AudioInv, UiTurn, NewCall
  PROVE  AudioInv'
<1> USE AudioAssumption
<1>1. UNCHANGED <<epoch, anchor, frames, playing, scrubbing, inbox, ring, mixer, sink, starts, heard>>
  BY DEF UiTurn, EngineRests, shared
<1>2. Returned /\ NextOp = "none" /\ ~Unsent
  BY DEF UiTurn, NextOp, Unsent
<1>3. /\ call' \in CallType /\ ScriptInv'
      /\ \/ Returned' /\ NextOp' = "none"
         \/ ~Returned' /\ call'.kind \in {"Play", "Scrub"} /\ NextOp' = "bump"
         \/ ~Returned' /\ call'.kind = "Pause" /\ NextOp' = "playOff"
  <2>1. CASE call' = call
    <3>1. ScriptInv' /\ Returned' /\ NextOp' = "none"
      BY <1>2, <2>1 DEF AudioInv, ScriptInv, NextOp, Returned
    <3>2. QED
      BY <2>1, <3>1, ScriptType DEF AudioInv
  <2>2. CASE call' = PauseCall
    <3>1. <<"playOff", "scrubOff", "send">> \in Seq(Steps)
      BY DEF Steps
    <3>2. QED
      BY <2>2, <3>1 DEF PauseCall, CallType, ScriptInv, PauseRest, NextOp, Returned
  <2>3. ASSUME NEW tick \in Nat, call' = PlayCall(tick)
        PROVE  call' \in CallType /\ ScriptInv' /\ ~Returned' /\ call'.kind = "Play" /\ NextOp' = "bump"
    <3>1. <<"bump", "anchor", "scrubOff", "playOn", "send">> \in Seq(Steps)
      BY DEF Steps
    <3>2. QED
      BY <2>3, <3>1 DEF PlayCall, CallType, ScriptInv, PlayRest, NextOp, Returned
  <2>4. ASSUME NEW tick \in Nat, call' = ScrubCall(tick)
        PROVE  call' \in CallType /\ ScriptInv' /\ ~Returned' /\ call'.kind = "Scrub" /\ NextOp' = "bump"
    <3>1. <<"bump", "playOff", "scrubOn", "send">> \in Seq(Steps)
      BY DEF Steps
    <3>2. QED
      BY <2>4, <3>1 DEF ScrubCall, CallType, ScriptInv, ScrubRest, NextOp, Returned
  <2>5. QED
    BY <2>1, <2>2, <2>3, <2>4 DEF NewCall
<1>4. AudioTypeOK'
  BY <1>1, <1>3 DEF AudioInv, AudioTypeOK, CallType
<1>5. ~Unsent'
  BY <1>3 DEF Unsent
<1>6. StoredInv' /\ RingInv'
  BY <1>1, <1>3 DEF StoredInv, RingInv, AudioInv
<1>7. EpochInv' /\ FillInv'
  BY <1>1, <1>2, <1>5 DEF AudioInv, EpochInv, FillInv, Known
<1>8. Counting' => Counting
  BY <1>1, <1>2, <1>3 DEF Counting
<1>9. ClockInv'
  BY <1>1, <1>8 DEF AudioInv, ClockInv, Near, Count
<1>10. QED
  BY <1>3, <1>4, <1>6, <1>7, <1>9 DEF AudioInv

(* The engine's own steps leave the transport alone. *)
LEMMA EngineKeeps ==
  ASSUME IInv, Engine
  PROVE  IInv'
<1>1. AudioInv'
  BY BumpEpochKeeps, ResetClockKeeps, StorePlayingKeeps, StoreScrubbingKeeps, SendKeeps,
     MixerReceivesKeeps, MixerMixesKeeps, MixerSendsKeeps,
     FillStartsKeeps, FillLooksAtScrubKeeps, FillLoadsEpochKeeps, FillTakesKeeps,
     FillPopsKeeps, FillEndsKeeps
     DEF IInv, Engine, Call, Mixer, Fill
<1>2. UNCHANGED ui
  BY DEF Engine
<1>3. QED
  BY <1>1, <1>2 DEF IInv, TypeOK, AudioInv, ui

UiType ==
  /\ transport \in [playing : BOOLEAN, speed : -TopSpeed .. TopSpeed, playhead : Tick, last : Tick]
  /\ stopping \in BOOLEAN /\ gate \in BOOLEAN /\ loop \in BOOLEAN
  /\ seen \in Tick /\ inputs \in 0 .. MaxInputs

LEMMA TicksAreNat == Tick \subseteq Nat /\ 0 \in Tick /\ End \in Tick
  BY PlaybackAssumption DEF Tick

LEMMA FromTheTop ==
  ASSUME NEW tick \in Tick
  PROVE  tick % End \in Tick
<1>1. tick % End \in 0 .. End - 1
  BY PlaybackAssumption, TicksAreNat
<1>2. QED
  BY <1>1, PlaybackAssumption DEF Tick

LEMMA DoubledHasType ==
  ASSUME UiType, NEW sign \in {1, -1}
  PROVE  Doubled(transport.speed, sign) \in -TopSpeed .. TopSpeed
<1>1. transport.speed \in Int /\ TopSpeed \in Nat \ {0}
  BY PlaybackAssumption DEF UiType
<1> DEFINE twice == 2 * transport.speed * sign
           capped == IF twice < TopSpeed THEN twice ELSE TopSpeed
<1>2. twice \in Int
  BY <1>1
<1> HIDE DEF twice
<1>3. twice > 0 => capped \in 1 .. TopSpeed
  BY <1>1, <1>2
<1>4. twice > 0 => sign * capped \in -TopSpeed .. TopSpeed
  <2>1. CASE sign = 1
    BY <1>1, <1>3, <2>1
  <2>2. CASE sign = -1
    BY <1>1, <1>3, <2>2
  <2>3. QED
    BY <2>1, <2>2
<1>5. sign \in -TopSpeed .. TopSpeed
  BY <1>1
<1>6. \/ twice > 0 /\ Doubled(transport.speed, sign) = sign * capped
      \/ Doubled(transport.speed, sign) = sign
  BY DEF Doubled, twice
<1>7. QED
  BY <1>4, <1>5, <1>6

LEMMA StartClockKeeps ==
  ASSUME UiType, NEW tick \in Tick, NEW speed \in -TopSpeed .. TopSpeed, StartClock(tick, speed)
  PROVE  /\ transport' \in [playing : BOOLEAN, speed : -TopSpeed .. TopSpeed, playhead : Tick, last : Tick]
         /\ gate' \in BOOLEAN
         /\ NewCall
  BY TicksAreNat DEF StartClock, NewCall

LEMMA StopClockKeeps ==
  ASSUME UiType, NEW tick \in Tick, StopClock(tick)
  PROVE  /\ transport' \in [playing : BOOLEAN, speed : -TopSpeed .. TopSpeed, playhead : Tick, last : Tick]
         /\ gate' \in BOOLEAN /\ NewCall
  BY DEF StopClock, UiType, NewCall

(* Every turn keeps the transport's types and leaves a proper call. *)
LEMMA TurnsKeep ==
  ASSUME IInv, User \/ Watch \/ Timer \/ DeferredStop
  PROVE  UiTurn /\ UiType' /\ NewCall
<1> USE PlaybackAssumption, TicksAreNat
<1>1. UiType
  BY DEF IInv, TypeOK, UiType
<1>2. /\ transport.speed \in -TopSpeed .. TopSpeed /\ transport.playhead \in Tick
      /\ 1 \in -TopSpeed .. TopSpeed /\ inputs \in Nat
  BY <1>1 DEF UiType
<1>3. Input => inputs' \in 0 .. MaxInputs
  BY <1>1 DEF Input, UiType
<1>4. CASE TogglePlay
  <2>1. transport.playhead % End \in Tick
    BY <1>2, FromTheTop
  <2>2. CASE transport.playing
    BY <1>1, <1>2, <1>3, <1>4, <2>2, StopClockKeeps DEF TogglePlay, UiType
  <2>3. CASE ~transport.playing
    BY <1>1, <1>2, <1>3, <1>4, <2>1, <2>3, StartClockKeeps DEF TogglePlay, UiType
  <2>4. QED
    BY <2>2, <2>3
<1>5. CASE Pause
  BY <1>1, <1>2, <1>3, <1>5, StopClockKeeps DEF Pause, UiType
<1>6. CASE ShuttleForward
  <2>1. transport.playhead % End \in Tick
    BY <1>2, FromTheTop
  <2>2. Doubled(transport.speed, 1) \in -TopSpeed .. TopSpeed
    BY <1>1, DoubledHasType
  <2>3. QED
    BY <1>1, <1>3, <1>6, <2>1, <2>2, StartClockKeeps DEF ShuttleForward, UiType
<1>7. CASE ShuttleReverse
  <2>1. (IF transport.playhead = 0 THEN End ELSE transport.playhead) \in Tick
    BY <1>2
  <2>2. Doubled(transport.speed, -1) \in -TopSpeed .. TopSpeed
    BY <1>1, DoubledHasType
  <2>3. QED
    BY <1>1, <1>3, <1>7, <2>1, <2>2, StartClockKeeps DEF ShuttleReverse, UiType
<1>8. CASE MoveHead
  BY <1>1, <1>3, <1>8 DEF MoveHead, UiType, NewCall
<1>9. CASE Watch
  BY <1>1, <1>2, <1>9 DEF Watch, UiType, NewCall
<1>10. CASE Seek
  BY <1>1, <1>2, <1>10, StartClockKeeps DEF Seek, TimerTurn, UiType
<1>11. CASE Advance
  <2>1. PICK tick \in ClockTicks :
          /\ ~AtBound(tick)
          /\ transport' = [transport EXCEPT !.playhead = tick, !.last = tick]
    BY <1>11 DEF Advance
  <2>2. CurrentTick \in Nat
    <3>1. frames \div TickFrames \in Nat
      BY AudioAssumption, EngineTypes DEF IInv, AudioInv
    <3>2. anchor \in Nat
      BY DEF IInv, AudioInv, AudioTypeOK
    <3>3. QED
      BY <3>1, <3>2 DEF CurrentTick
  <2>3. tick \in Tick
    <3>1. CASE transport.speed = 1
      BY <2>1, <2>2, <3>1 DEF ClockTicks, AtBound, Tick
    <3>2. CASE transport.speed # 1
      BY <1>2, <2>1, <3>2 DEF ClockTicks, Tick
    <3>3. QED
      BY <3>1, <3>2
  <2>4. QED
    BY <1>1, <1>11, <2>1, <2>3 DEF Advance, TimerTurn, UiType, NewCall
<1>12. CASE Wrap
  <2>1. Bound(-transport.speed) \in Tick
    BY DEF Bound
  <2>2. QED
    BY <1>1, <1>2, <1>3, <1>12, <2>1, StartClockKeeps DEF Wrap, Reached, TimerTurn, UiType
<1>13. CASE RequestStop
  <2>1. Bound(transport.speed) \in Tick
    BY DEF Bound
  <2>2. QED
    BY <1>1, <1>13, <2>1 DEF RequestStop, Reached, TimerTurn, UiType, NewCall
<1>14. CASE DeferredStop
  BY <1>1, <1>14 DEF DeferredStop, UiType, NewCall
<1>15. UiTurn
  BY <1>4, <1>5, <1>6, <1>7, <1>8, <1>9, <1>10, <1>11, <1>12, <1>13, <1>14
     DEF TogglePlay, Pause, ShuttleForward, ShuttleReverse, MoveHead, Watch, Seek, Advance,
         Wrap, RequestStop, DeferredStop, Reached, TimerTurn, User, Timer
<1>16. QED
  BY <1>4, <1>5, <1>6, <1>7, <1>8, <1>9, <1>10, <1>11, <1>12, <1>13, <1>14, <1>15
     DEF User, Timer

-----------------------------------------------------------------------------
(* The theorems *)

LEMMA InitHolds == Init => IInv
<1> SUFFICES ASSUME Init PROVE IInv
  OBVIOUS
<1> USE AudioAssumption, PlaybackAssumption, TicksAreNat
<1>1. call.todo = << >> /\ Returned /\ NextOp = "none" /\ ~Unsent
  BY DEF Init, AudioInit, NoCall, Returned, NextOp, Unsent
<1>2. AudioTypeOK
  <2>1. << >> \in Seq(Steps) /\ << >> \in Seq(Nat) /\ << >> \in Seq(Block) /\ Len(<< >>) = 0
        /\ inbox \in Seq([kind : {"Play", "Pause", "Scrub"}, tick : Nat, epoch : Nat])
    BY DEF Init, AudioInit
  <2>2. call \in [kind : {"none", "Play", "Pause", "Scrub"}, tick : Nat, todo : Seq(Steps)]
    BY <2>1 DEF Init, AudioInit, NoCall
  <2>3. mixer \in [mixing : BOOLEAN, epoch : Nat, playing : BOOLEAN, burst : Nat, at : Nat]
    BY DEF Init, AudioInit
  <2>4. 0 \in 0 .. DeviceFrames /\ 0 \in 0 .. BlockFrames
    OBVIOUS
  <2>5. sink \in SinkType
    BY <2>4 DEF Init, AudioInit, SinkType
  <2>6. heard \in [epoch : Nat, from : Nat, upto : Nat, count : Nat]
    BY DEF Init, AudioInit
  <2>7. ring \in Seq(Block) /\ Len(ring) <= BlockCapacity /\ starts \in Seq(Nat)
    BY <2>1 DEF Init, AudioInit
  <2>8. /\ epoch \in Nat /\ anchor \in Nat /\ frames \in Nat
        /\ playing \in BOOLEAN /\ scrubbing \in BOOLEAN
    BY DEF Init, AudioInit
  <2>9. QED
    BY <2>1, <2>2, <2>3, <2>5, <2>6, <2>7, <2>8 DEF AudioTypeOK, SinkType
<1>3. TypeOK
  <2>1. 0 \in Tick /\ 1 \in -TopSpeed .. TopSpeed /\ 0 \in 0 .. MaxInputs
    BY DEF Tick
  <2>2. transport \in [playing : BOOLEAN, speed : -TopSpeed .. TopSpeed, playhead : Tick,
                        last : Tick]
    BY <2>1 DEF Init
  <2>3. QED
    BY <1>2, <2>1, <2>2 DEF Init, TypeOK
<1>4. ScriptInv /\ StoredInv /\ RingInv
  BY <1>1 DEF Init, AudioInit, NoCall, ScriptInv, StoredInv, RingInv
<1>5. EpochInv /\ FillInv /\ ClockInv
  BY <1>1 DEF Init, AudioInit, NoCall, EpochInv, Known, FillInv, ClockInv, Counting
<1>6. QED
  BY <1>2, <1>3, <1>4, <1>5 DEF IInv, AudioInv

LEMMA StepKeeps == IInv /\ [Next]_vars => IInv'
<1> SUFFICES ASSUME IInv, [Next]_vars PROVE IInv'
  OBVIOUS
<1>1. CASE Engine
  BY <1>1, EngineKeeps
<1>2. CASE User \/ Watch \/ Timer \/ DeferredStop
  BY <1>2, TurnsKeep, NewCallKeeps DEF IInv, AudioInv, TypeOK, UiType
<1>3. CASE UNCHANGED vars
  <2>1. UNCHANGED <<epoch, anchor, frames, playing, scrubbing, call, inbox, ring, mixer, sink, starts,
                    heard, transport, stopping, seen, gate, loop, inputs>>
    BY <1>3 DEF vars, audio, shared, ui
  <2>2. TypeOK' /\ AudioTypeOK'
    BY <2>1 DEF IInv, TypeOK, AudioTypeOK
  <2>3. /\ ScriptInv' /\ StoredInv' /\ RingInv'
        /\ Unsent' = Unsent /\ Counting' = Counting
    BY <2>1, HandleRests DEF IInv, AudioInv, RingInv
  <2>4. EpochInv' /\ FillInv' /\ ClockInv'
    BY <2>1, <2>3 DEF IInv, AudioInv, EpochInv, Known, FillInv, ClockInv, Near, Count
  <2>5. QED
    BY <2>2, <2>3, <2>4 DEF IInv, AudioInv
<1>4. QED
  BY <1>1, <1>2, <1>3 DEF Next

LEMMA InvariantHolds == Spec => []IInv
  BY InitHolds, StepKeeps, PTL DEF Spec

(***************************************************************************)
(* Every variable keeps its type; the ring never overflows, so that the    *)
(* mixer's send never waits (audio.rs:480), and the blocks left of a burst *)
(* never go below zero (audio.rs:485).                                     *)
(***************************************************************************)
THEOREM TypeCorrect == Spec => []TypeOK
<1>1. IInv => TypeOK
  BY DEF IInv
<1>2. QED
  BY <1>1, InvariantHolds, PTL

(***************************************************************************)
(* Consumed frames are the clock, up to one device buffer, for any sizes   *)
(* and however the seeks, the mixer and the callback interleave            *)
(* (audio.rs:17).                                                          *)
(***************************************************************************)
THEOREM ClockTracksSoundHolds == Spec => []ClockTracksSound
<1>1. IInv => ClockTracksSound
  <2> SUFFICES ASSUME IInv, playing, Returned, sink.pc = "idle"
               PROVE  frames <= Count + DeviceFrames /\ Count <= frames + DeviceFrames
    BY DEF ClockTracksSound, Count
  <2>1. Counting
    BY DEF Counting
  <2>2. QED
    BY <2>1 DEF IInv, AudioInv, ClockInv, Near
<1>2. QED
  BY <1>1, InvariantHolds, PTL

-----------------------------------------------------------------------------
(* The order of the sound *)

(* A block and what follows it: the next position, or a later epoch. *)
After(b, c) == b.epoch < c.epoch \/ (b.epoch = c.epoch /\ c.at = b.at + BlockFrames)

(* What the callback pops next, or the mixer mixes. *)
Upcoming == IF ring # << >> THEN ring[1] ELSE [epoch |-> mixer.epoch, at |-> mixer.at]

(* What the device takes next, if the callback finds it fresh. *)
Onward ==
  IF sink.current # NoBlock
  THEN [epoch |-> sink.current.epoch, at |-> sink.current.at + sink.cursor]
  ELSE Upcoming

(* The blocks on their way to the device follow one another. *)
ChainInv ==
  /\ \A i \in DOMAIN ring : i < Len(ring) => After(ring[i], ring[i + 1])
  /\ ring # << >> => After(ring[Len(ring)], mixer)
  /\ sink.current # NoBlock => After(sink.current, Upcoming)

IsSeek(m) == m.kind # "Pause"

(* The calls' messages are in the order of their epochs, each with its start. *)
SentInv ==
  /\ Len(starts) = epoch
  /\ Unsent => epoch > 0 /\ starts[epoch] = call.tick * TickFrames
  /\ \A i \in DOMAIN inbox : IsSeek(inbox[i]) =>
       /\ inbox[i].epoch > mixer.epoch
       /\ starts[inbox[i].epoch] = inbox[i].tick * TickFrames
  /\ \A i, j \in DOMAIN inbox :
       i < j /\ IsSeek(inbox[i]) /\ IsSeek(inbox[j]) => inbox[i].epoch < inbox[j].epoch

Begun(b) == b.epoch > 0 => b.at >= starts[b.epoch]

(* Nothing is mixed from before its epoch's start. *)
BegunInv ==
  /\ \A i \in DOMAIN ring : Begun(ring[i])
  /\ Begun(mixer)
  /\ sink.current # NoBlock => Begun(sink.current)

(* More of the epoch heard last may be heard before the next epoch is. *)
Hearable ==
  \/ sink.pc = "fill" /\ sink.epoch = heard.epoch
  \/ heard.epoch = epoch /\ (playing \/ scrubbing \/ sink.pc = "epoch")

(* What is heard next goes on where the device stopped. *)
LinkInv ==
  /\ sink.pc = "scrub" /\ playing => heard.epoch # epoch
  /\ heard.epoch <= Onward.epoch
  /\ Hearable /\ Onward.epoch = heard.epoch => heard.upto = Onward.at

SoundInv == ChainInv /\ SentInv /\ BegunInv /\ LinkInv

-----------------------------------------------------------------------------

LEMMA UpcomingTypes ==
  ASSUME AudioTypeOK
  PROVE  /\ Upcoming.epoch \in Nat /\ Upcoming.at \in Nat
         /\ Onward.epoch \in Nat /\ Onward.at \in Nat
         /\ heard.upto \in Nat /\ starts \in Seq(Nat)
<1>1. ring # << >> => ring[1] \in Block
  BY ChannelTypes DEF AudioTypeOK
<1>2. Upcoming.epoch \in Nat /\ Upcoming.at \in Nat
  BY <1>1, EngineTypes DEF Upcoming, Block
<1>3. heard.upto \in Nat /\ starts \in Seq(Nat)
  BY DEF AudioTypeOK
<1>4. sink.current # NoBlock => sink.current.at + sink.cursor \in Nat
  BY EngineTypes, AudioAssumption
<1>5. QED
  BY <1>2, <1>3, <1>4, EngineTypes DEF Onward

(* As long as what is on its way stays, or is dropped, it stays in order. *)
LEMMA ChainRests ==
  ASSUME ChainInv, ring' = ring, mixer'.epoch = mixer.epoch, mixer'.at = mixer.at,
         sink'.current \in {sink.current, NoBlock}
  PROVE  ChainInv' /\ Upcoming' = Upcoming
<1>1. Upcoming' = Upcoming
  BY DEF Upcoming
<1>2. \A b : After(b, mixer)' <=> After(b, mixer)
  BY DEF After
<1>3. QED
  BY <1>1 DEF ChainInv, After

LEMMA BegunRests ==
  ASSUME BegunInv, starts' = starts, ring' = ring,
         mixer'.epoch = mixer.epoch, mixer'.at = mixer.at,
         sink'.current \in {sink.current, NoBlock}
  PROVE  BegunInv'
  BY DEF BegunInv, Begun

(* A step of the mixer or the callback that takes no message. *)
LEMMA SentRests ==
  ASSUME SentInv, UNCHANGED <<epoch, call, inbox, starts>>, mixer'.epoch = mixer.epoch
  PROVE  SentInv'
<1>1. Unsent' = Unsent
  BY DEF Unsent, NextOp, Returned
<1>2. QED
  BY <1>1 DEF SentInv, IsSeek

(* The same sound is still to come, and it may not be heard more than before. *)
LEMMA LinkRests ==
  ASSUME LinkInv, heard' = heard, Onward' = Onward, Hearable' => Hearable,
         sink'.pc = "scrub" /\ playing' => heard.epoch # epoch'
  PROVE  LinkInv'
  BY DEF LinkInv

LEMMA ComesLater ==
  ASSUME AudioInv, ChainInv, LinkInv
  PROVE  heard.epoch <= Upcoming.epoch
<1>1. heard.epoch \in Nat /\ Upcoming.epoch \in Nat /\ heard.epoch <= Onward.epoch
  BY EngineTypes, UpcomingTypes DEF AudioInv, LinkInv
<1>2. CASE sink.current = NoBlock
  BY <1>1, <1>2 DEF Onward
<1>3. CASE sink.current # NoBlock
  <2>1. Onward.epoch = sink.current.epoch /\ sink.current.epoch \in Nat
    BY <1>3, EngineTypes DEF Onward, AudioInv
  <2>2. sink.current.epoch <= Upcoming.epoch
    BY <1>1, <1>3, <2>1 DEF ChainInv, After
  <2>3. QED
    BY <1>1, <2>1, <2>2
<1>4. QED
  BY <1>2, <1>3

(* What follows a block that is not fresh follows the sound. *)
LEMMA Continues ==
  ASSUME AudioInv, ChainInv, LinkInv, ~Fresh, Hearable, heard.epoch = sink.epoch,
         Upcoming.epoch = heard.epoch
  PROVE  heard.upto = Upcoming.at
<1>1. CASE sink.current = NoBlock
  BY <1>1 DEF LinkInv, Onward
<1>2. CASE sink.current # NoBlock
  <2>1. Onward.epoch = sink.current.epoch /\ Onward.at = sink.current.at + sink.cursor
    BY <1>2 DEF Onward
  <2>2. /\ After(sink.current, Upcoming) /\ heard.epoch <= sink.current.epoch
        /\ heard.epoch \in Nat /\ sink.current.epoch \in Nat
    BY <1>2, <2>1, EngineTypes DEF AudioInv, ChainInv, LinkInv
  <2>3. sink.current.epoch = sink.epoch /\ Upcoming.at = sink.current.at + BlockFrames
    BY <2>2 DEF After
  <2>4. sink.cursor = BlockFrames
    BY <1>2, <2>3, EngineTypes, AudioAssumption DEF AudioInv, Fresh
  <2>5. heard.upto = Onward.at
    BY <2>1, <2>3 DEF LinkInv
  <2>6. QED
    BY <2>1, <2>3, <2>4, <2>5
<1>3. QED
  BY <1>1, <1>2

(* Until its message is sent, nothing of an epoch has been heard. *)
LEMMA UnsentIsSilent ==
  ASSUME AudioInv, Unsent
  PROVE  heard.epoch # epoch
  BY EngineTypes DEF AudioInv, EpochInv, Known

-----------------------------------------------------------------------------
(* The handle's calls *)

LEMMA BumpEpochOrders ==
  ASSUME AudioInv, SoundInv, BumpEpoch
  PROVE  SoundInv'
<1> USE AudioAssumption
<1>1. /\ UNCHANGED <<playing, scrubbing, inbox, ring, mixer, sink, heard>>
      /\ epoch' = epoch + 1 /\ epoch \in Nat
      /\ starts' = Append(starts, call.tick * TickFrames) /\ starts \in Seq(Nat)
      /\ Len(starts) = epoch /\ call.tick * TickFrames \in Nat
  <2>1. epoch \in Nat /\ call.tick \in Nat /\ starts \in Seq(Nat)
    BY EngineTypes, UpcomingTypes DEF AudioInv
  <2>2. call.tick * TickFrames \in Nat
    BY <2>1
  <2>3. QED
    BY <2>1, <2>2 DEF BumpEpoch, SoundInv, SentInv
<1>2. /\ \A e \in 1 .. epoch : starts'[e] = starts[e]
      /\ starts'[epoch'] = call.tick * TickFrames /\ Len(starts') = epoch'
  BY <1>1
<1>3. call'.tick = call.tick
  BY ScriptType DEF BumpEpoch, Doing, AudioInv, CallType
<1>4. ChainInv' /\ Onward' = Onward
  BY <1>1, ChainRests DEF SoundInv, Onward
<1>5. SentInv'
  <2>1. \A i \in DOMAIN inbox : inbox[i].epoch \in Nat /\ inbox[i].epoch <= epoch
    <3>1. \A i \in DOMAIN inbox : inbox[i].epoch \in Nat /\ Known(inbox[i].epoch)
      BY ChannelTypes DEF AudioInv, EpochInv
    <3>2. QED
      BY <1>1, <3>1 DEF Known
  <2>2. \A i \in DOMAIN inbox : IsSeek(inbox[i]) => inbox[i].epoch \in 1 .. epoch
    <3>1. mixer.epoch \in Nat
      BY EngineTypes DEF AudioInv
    <3>2. QED
      BY <1>1, <2>1, <3>1 DEF SoundInv, SentInv
  <2>3. QED
    BY <1>1, <1>2, <1>3, <2>2 DEF SoundInv, SentInv, IsSeek
<1>6. BegunInv'
  <2>1. /\ \A i \in DOMAIN ring : ring[i].epoch \in Nat /\ ring[i].epoch <= epoch
        /\ mixer.epoch \in Nat /\ mixer.epoch <= epoch
        /\ sink.current # NoBlock => sink.current.epoch \in Nat /\ sink.current.epoch <= epoch
    <3>1. \A i \in DOMAIN ring : ring[i].epoch \in Nat /\ Known(ring[i].epoch)
      BY ChannelTypes DEF AudioInv, EpochInv
    <3>2. /\ mixer.epoch \in Nat /\ Known(mixer.epoch)
          /\ sink.current # NoBlock => sink.current.epoch \in Nat /\ Known(sink.current.epoch)
      BY EngineTypes DEF AudioInv, EpochInv
    <3>3. QED
      BY <1>1, <3>1, <3>2 DEF Known
  <2>2. QED
    BY <1>1, <1>2, <2>1 DEF SoundInv, BegunInv, Begun
<1>7. heard.epoch # epoch'
  BY <1>1, EngineTypes DEF AudioInv, EpochInv, Known
<1>8. Hearable' => Hearable
  BY <1>1, <1>7 DEF Hearable
<1>9. LinkInv'
  BY <1>1, <1>4, <1>7, <1>8, LinkRests DEF SoundInv
<1>10. QED
  BY <1>4, <1>5, <1>6, <1>9 DEF SoundInv

(* An operation between the epoch and the message. *)
LEMMA StoresOrder ==
  ASSUME AudioInv, SoundInv, UNCHANGED <<epoch, inbox, ring, mixer, sink, starts, heard>>,
         call'.tick = call.tick, Unsent' => Unsent,
         playing' /\ ~playing => Unsent, scrubbing' /\ ~scrubbing => Unsent
  PROVE  SoundInv'
<1>1. ChainInv' /\ Onward' = Onward /\ BegunInv'
  BY ChainRests, BegunRests DEF SoundInv, Onward
<1>2. SentInv'
  BY DEF SoundInv, SentInv, IsSeek
<1>3. heard.epoch = epoch => (playing' => playing) /\ (scrubbing' => scrubbing)
  BY UnsentIsSilent
<1>4. Hearable' => Hearable
  BY <1>3 DEF Hearable
<1>5. LinkInv'
  BY <1>1, <1>3, <1>4, LinkRests DEF SoundInv, LinkInv
<1>6. QED
  BY <1>1, <1>2, <1>5 DEF SoundInv

LEMMA ResetClockOrders ==
  ASSUME AudioInv, SoundInv, ResetClock
  PROVE  SoundInv'
<1>1. Doing("anchor") /\ call'.tick = call.tick
  BY ScriptType DEF ResetClock, Doing, AudioInv, CallType
<1>2. call.kind = "Play" /\ NextOp = "anchor"
  BY <1>1, NextStep DEF AudioInv
<1>3. Unsent
  BY <1>2 DEF Unsent
<1>4. QED
  BY <1>1, <1>3, StoresOrder DEF ResetClock

LEMMA StorePlayingOrders ==
  ASSUME AudioInv, SoundInv, StorePlaying
  PROVE  SoundInv'
<1>1. /\ call'.kind = call.kind
      /\ \/ call.kind = "Play" /\ NextOp = "playOn" /\ NextOp' = "send"
         \/ call.kind = "Pause" /\ ~playing'
         \/ call.kind = "Scrub" /\ NextOp = "playOff" /\ ~playing'
  <2>1. CASE Doing("playOn") /\ playing' = TRUE
    BY <2>1, NextStep DEF AudioInv
  <2>2. CASE Doing("playOff") /\ playing' = FALSE
    BY <2>2, NextStep DEF AudioInv
  <2>3. QED
    BY <2>1, <2>2 DEF StorePlaying
<1>2. call'.tick = call.tick
  BY ScriptType DEF StorePlaying, Doing, AudioInv, CallType
<1>3. (Unsent' => Unsent) /\ (playing' => Unsent)
  BY <1>1 DEF Unsent
<1>4. QED
  BY <1>2, <1>3, StoresOrder DEF StorePlaying

LEMMA StoreScrubbingOrders ==
  ASSUME AudioInv, SoundInv, StoreScrubbing
  PROVE  SoundInv'
<1>1. /\ call'.kind = call.kind
      /\ \/ call.kind = "Play" /\ NextOp = "scrubOff" /\ ~scrubbing'
         \/ call.kind = "Pause" /\ ~scrubbing'
         \/ call.kind = "Scrub" /\ NextOp = "scrubOn" /\ NextOp' = "send"
  <2>1. CASE Doing("scrubOn") /\ scrubbing' = TRUE
    BY <2>1, NextStep DEF AudioInv
  <2>2. CASE Doing("scrubOff") /\ scrubbing' = FALSE
    BY <2>2, NextStep DEF AudioInv
  <2>3. QED
    BY <2>1, <2>2 DEF StoreScrubbing
<1>2. call'.tick = call.tick
  BY ScriptType DEF StoreScrubbing, Doing, AudioInv, CallType
<1>3. (Unsent' => Unsent) /\ (scrubbing' => Unsent)
  BY <1>1 DEF Unsent
<1>4. QED
  BY <1>2, <1>3, StoresOrder DEF StoreScrubbing

LEMMA SendOrders ==
  ASSUME AudioInv, SoundInv, Send
  PROVE  SoundInv'
<1>1. NextOp = "send" /\ call.kind \in {"Play", "Pause", "Scrub"}
  BY SendIsLast DEF Send, AudioInv
<1>2. UNCHANGED <<epoch, playing, scrubbing, ring, mixer, sink, starts, heard>> /\ ~Unsent'
  BY DEF Send, shared, NoCall, Unsent
<1>3. ChainInv' /\ Onward' = Onward /\ BegunInv' /\ (Hearable' <=> Hearable)
  BY <1>2, ChainRests, BegunRests DEF SoundInv, Onward, Hearable
<1>4. LinkInv'
  BY <1>2, <1>3, LinkRests DEF SoundInv, LinkInv
<1>5. SentInv'
  <2> DEFINE msg == Message(call.kind)
  <2>1. msg \in Msg /\ msg.epoch = epoch /\ msg.tick = call.tick /\ msg.kind = call.kind
    BY <1>1, EngineTypes DEF Message, Msg, AudioInv
  <2>2. inbox' = Append(inbox, msg) /\ inbox \in Seq(Msg)
    BY ChannelTypes DEF Send, AudioInv
  <2> HIDE DEF msg
  <2>3. IsSeek(msg) => Unsent
    BY <1>1, <2>1 DEF IsSeek, Unsent
  <2>4. IsSeek(msg) => msg.epoch > mixer.epoch /\ starts[msg.epoch] = msg.tick * TickFrames
    BY <2>1, <2>3, EngineTypes DEF AudioInv, EpochInv, Known, SoundInv, SentInv
  <2>5. IsSeek(msg) => \A i \in DOMAIN inbox : inbox[i].epoch < msg.epoch
    BY <2>1, <2>3, ChannelTypes DEF AudioInv, EpochInv, Known
  <2>6. \A i \in DOMAIN inbox' :
          \/ i = Len(inbox) + 1 /\ inbox'[i] = msg
          \/ i \in DOMAIN inbox /\ inbox'[i] = inbox[i]
    BY <2>1, <2>2
  <2>7. \A i \in DOMAIN inbox' : IsSeek(inbox'[i]) =>
          inbox'[i].epoch > mixer.epoch /\ starts[inbox'[i].epoch] = inbox'[i].tick * TickFrames
    BY <2>4, <2>6 DEF SoundInv, SentInv
  <2>8. ASSUME NEW i \in DOMAIN inbox', NEW j \in DOMAIN inbox', i < j,
               IsSeek(inbox'[i]), IsSeek(inbox'[j])
        PROVE  inbox'[i].epoch < inbox'[j].epoch
    <3>1. i \in DOMAIN inbox /\ inbox'[i] = inbox[i]
      BY <2>2, <2>6, <2>8
    <3>2. CASE inbox'[j] = msg
      BY <2>5, <2>8, <3>1, <3>2
    <3>3. CASE j \in DOMAIN inbox /\ inbox'[j] = inbox[j]
      BY <2>8, <3>1, <3>3 DEF SoundInv, SentInv
    <3>4. QED
      BY <2>6, <3>2, <3>3
  <2>9. QED
    BY <1>2, <2>7, <2>8 DEF SoundInv, SentInv, IsSeek
<1>6. QED
  BY <1>3, <1>4, <1>5 DEF SoundInv

(* A turn of the event loop changes nothing the device will hear. *)
LEMMA TurnOrders ==
  ASSUME AudioInv, SoundInv, UiTurn, NewCall
  PROVE  SoundInv'
<1>1. UNCHANGED <<epoch, playing, scrubbing, inbox, ring, mixer, sink, starts, heard>>
  BY DEF UiTurn, EngineRests, shared
<1>2. ~Unsent'
  <2>1. CASE call' = call
    BY <2>1 DEF UiTurn, Unsent, NextOp, Returned
  <2>2. CASE call' = PauseCall
    BY <2>2 DEF PauseCall, Unsent
  <2>3. ASSUME NEW tick \in Nat, call' = PlayCall(tick) PROVE ~Unsent'
    BY <2>3 DEF PlayCall, Unsent, NextOp, Returned
  <2>4. ASSUME NEW tick \in Nat, call' = ScrubCall(tick) PROVE ~Unsent'
    BY <2>4 DEF ScrubCall, Unsent, NextOp, Returned
  <2>5. QED
    BY <2>1, <2>2, <2>3, <2>4 DEF NewCall
<1>3. ChainInv' /\ Onward' = Onward /\ BegunInv' /\ (Hearable' <=> Hearable)
  BY <1>1, ChainRests, BegunRests DEF SoundInv, Onward, Hearable
<1>4. LinkInv'
  BY <1>1, <1>3, LinkRests DEF SoundInv, LinkInv
<1>5. SentInv'
  BY <1>1, <1>2 DEF SoundInv, SentInv, IsSeek
<1>6. QED
  BY <1>3, <1>4, <1>5 DEF SoundInv

-----------------------------------------------------------------------------
(* The mixer and the callback *)

LEMMA MixerReceivesOrders ==
  ASSUME AudioInv, SoundInv, MixerReceives
  PROVE  SoundInv'
<1> USE AudioAssumption
<1>1. UNCHANGED <<epoch, playing, scrubbing, call, ring, sink, starts, heard>>
  BY DEF MixerReceives, shared
<1> DEFINE msg == Head(inbox)
<1>2. /\ inbox \in Seq(Msg) /\ inbox # << >> /\ inbox' = Tail(inbox) /\ inbox' \in Seq(Msg)
      /\ msg \in Msg /\ msg = inbox[1] /\ 1 \in DOMAIN inbox
      /\ \A i \in DOMAIN inbox' : inbox'[i] = inbox[i + 1] /\ i + 1 \in DOMAIN inbox
  BY ChannelTypes DEF MixerReceives, AudioInv
<1>3. mixer.epoch \in Nat /\ msg.epoch \in Nat /\ msg.tick \in Nat /\ mixer.at \in Nat
  BY <1>2, EngineTypes DEF AudioInv, Msg
<1>4. IF IsSeek(msg) THEN mixer'.epoch = msg.epoch /\ mixer'.at = msg.tick * TickFrames
                     ELSE mixer'.epoch = mixer.epoch /\ mixer'.at = mixer.at
  <2>1. mixer \in [mixing : BOOLEAN, epoch : Nat, playing : BOOLEAN, burst : Nat, at : Nat]
    BY DEF AudioInv, AudioTypeOK
  <2>2. CASE msg.kind = "Pause"
    BY <2>1, <2>2 DEF MixerReceives, IsSeek
  <2>3. CASE msg.kind = "Play"
    BY <2>1, <2>3 DEF MixerReceives, IsSeek
  <2>4. CASE msg.kind = "Scrub"
    BY <2>1, <2>4 DEF MixerReceives, IsSeek
  <2>5. QED
    BY <1>2, <2>2, <2>3, <2>4 DEF Msg
<1>5. IsSeek(msg) => msg.epoch > mixer.epoch /\ starts[msg.epoch] = msg.tick * TickFrames
  BY <1>2 DEF SoundInv, SentInv
<1>6. /\ \A i \in DOMAIN inbox' : IsSeek(inbox'[i]) =>
           /\ inbox'[i].epoch > mixer.epoch
           /\ starts[inbox'[i].epoch] = inbox'[i].tick * TickFrames
           /\ IsSeek(msg) => inbox'[i].epoch > msg.epoch
      /\ \A i, j \in DOMAIN inbox' :
           i < j /\ IsSeek(inbox'[i]) /\ IsSeek(inbox'[j]) => inbox'[i].epoch < inbox'[j].epoch
  <2>1. ASSUME NEW i \in DOMAIN inbox', IsSeek(inbox'[i])
        PROVE  /\ inbox'[i].epoch > mixer.epoch
               /\ starts[inbox'[i].epoch] = inbox'[i].tick * TickFrames
               /\ IsSeek(msg) => inbox'[i].epoch > msg.epoch
    <3>1. /\ i + 1 \in DOMAIN inbox /\ inbox'[i] = inbox[i + 1] /\ 1 < i + 1
          /\ inbox[i + 1].epoch \in Nat
      BY <1>2, <2>1, ChannelTypes DEF AudioInv
    <3> HIDE DEF msg
    <3>2. IsSeek(msg) => msg.epoch < inbox[i + 1].epoch
      BY <1>2, <2>1, <3>1 DEF SoundInv, SentInv
    <3>3. QED
      BY <1>3, <2>1, <3>1, <3>2 DEF SoundInv, SentInv
  <2>2. ASSUME NEW i \in DOMAIN inbox', NEW j \in DOMAIN inbox', i < j,
               IsSeek(inbox'[i]), IsSeek(inbox'[j])
        PROVE  inbox'[i].epoch < inbox'[j].epoch
    <3>1. /\ i + 1 \in DOMAIN inbox /\ j + 1 \in DOMAIN inbox /\ i + 1 < j + 1
          /\ inbox'[i] = inbox[i + 1] /\ inbox'[j] = inbox[j + 1]
      BY <1>2, <2>2
    <3>2. QED
      BY <2>2, <3>1 DEF SoundInv, SentInv
  <2>3. QED
    BY <2>1, <2>2
<1> HIDE DEF msg
<1>7. SentInv'
  <2>1. Unsent' = Unsent
    BY <1>1, HandleRests
  <2>2. \A i \in DOMAIN inbox' : IsSeek(inbox'[i]) =>
          inbox'[i].epoch > mixer'.epoch /\ starts[inbox'[i].epoch] = inbox'[i].tick * TickFrames
    BY <1>4, <1>6
  <2>3. QED
    BY <1>1, <1>6, <2>1, <2>2 DEF SoundInv, SentInv, IsSeek
<1>8. CASE ~IsSeek(msg)
  <2>1. mixer'.epoch = mixer.epoch /\ mixer'.at = mixer.at
    BY <1>4, <1>8
  <2>2. ChainInv' /\ Onward' = Onward /\ BegunInv' /\ (Hearable' <=> Hearable)
    BY <1>1, <2>1, ChainRests, BegunRests DEF SoundInv, Onward, Hearable
  <2>3. LinkInv'
    BY <1>1, <2>2, LinkRests DEF SoundInv, LinkInv
  <2>4. QED
    BY <1>7, <2>2, <2>3 DEF SoundInv
<1>9. CASE IsSeek(msg)
  <2>1. mixer'.epoch > mixer.epoch /\ mixer'.epoch \in Nat
        /\ mixer'.at = starts[mixer'.epoch] /\ mixer'.at \in Nat
    <3>1. msg.tick * TickFrames \in Nat
      BY <1>3
    <3>2. QED
      BY <1>3, <1>4, <1>5, <1>9, <3>1
  <2>2. BegunInv'
    BY <1>1, <2>1 DEF SoundInv, BegunInv, Begun
  <2>3. ASSUME NEW e \in Nat, NEW b, b.epoch = e, After(b, mixer) PROVE After(b, mixer)'
    BY <1>3, <2>1, <2>3 DEF After
  <2>4. ring # << >> => Upcoming' = Upcoming
    BY <1>1 DEF Upcoming
  <2>5. ring = << >> => Upcoming'.epoch = mixer'.epoch /\ Upcoming.epoch = mixer.epoch
    BY <1>1 DEF Upcoming
  <2>6. ChainInv'
    <3>1. ring # << >> => Len(ring) \in DOMAIN ring /\ ring[Len(ring)].epoch \in Nat
      BY ChannelTypes DEF AudioInv
    <3>2. ring # << >> => After(ring[Len(ring)], mixer)'
      BY <1>1, <1>3, <2>1, <3>1 DEF After, SoundInv, ChainInv
    <3>3. sink.current # NoBlock => After(sink.current, Upcoming)'
      <4>1. sink.current # NoBlock => sink.current.epoch \in Nat
        BY EngineTypes DEF AudioInv
      <4>2. QED
        BY <1>1, <1>3, <2>1, <2>4, <2>5, <4>1 DEF After, SoundInv, ChainInv
    <3>4. QED
      BY <1>1, <3>2, <3>3 DEF SoundInv, ChainInv, After
  <2>7. \/ Onward' = Onward
        \/ Onward.epoch = mixer.epoch /\ Onward'.epoch = mixer'.epoch
    BY <1>1, <2>4, <2>5 DEF Onward
  <2>8. Hearable' <=> Hearable
    BY <1>1 DEF Hearable
  <2>9. heard.epoch \in Nat /\ heard.epoch <= Onward.epoch
    BY EngineTypes DEF AudioInv, SoundInv, LinkInv
  <2>10. LinkInv'
    <3>1. CASE Onward' = Onward
      BY <1>1, <2>8, <3>1, LinkRests DEF SoundInv, LinkInv
    <3>2. CASE Onward.epoch = mixer.epoch /\ Onward'.epoch = mixer'.epoch
      BY <1>1, <1>3, <2>1, <2>9, <3>2 DEF SoundInv, LinkInv
    <3>3. QED
      BY <2>7, <3>1, <3>2
  <2>11. QED
    BY <1>7, <2>2, <2>6, <2>10 DEF SoundInv
<1>10. QED
  BY <1>8, <1>9

LEMMA MixerMixesOrders ==
  ASSUME AudioInv, SoundInv, MixerMixes
  PROVE  SoundInv'
<1>1. /\ UNCHANGED <<epoch, playing, scrubbing, call, inbox, ring, sink, starts, heard>>
      /\ mixer'.epoch = mixer.epoch /\ mixer'.at = mixer.at
  BY DEF MixerMixes, shared, AudioInv, AudioTypeOK
<1>2. ChainInv' /\ Onward' = Onward /\ BegunInv' /\ SentInv' /\ (Hearable' <=> Hearable)
  BY <1>1, ChainRests, BegunRests, SentRests DEF SoundInv, Onward, Hearable
<1>3. LinkInv'
  BY <1>1, <1>2, LinkRests DEF SoundInv, LinkInv
<1>4. QED
  BY <1>2, <1>3 DEF SoundInv

LEMMA MixerSendsOrders ==
  ASSUME AudioInv, SoundInv, MixerSends
  PROVE  SoundInv'
<1> USE AudioAssumption
<1>1. UNCHANGED <<epoch, playing, scrubbing, call, inbox, sink, starts, heard>>
  BY DEF MixerSends, shared
<1> DEFINE block == [epoch |-> mixer.epoch, at |-> mixer.at]
<1>2. mixer.epoch \in Nat /\ mixer.at \in Nat /\ BlockFrames \in Nat
  BY EngineTypes DEF AudioInv
<1>3. mixer'.epoch = mixer.epoch /\ mixer'.at = mixer.at + BlockFrames
  BY DEF MixerSends, AudioInv, AudioTypeOK
<1>4. block.epoch = mixer.epoch /\ block.at = mixer.at /\ block \in Block
  BY <1>2 DEF Block
<1>5. ring' = Append(ring, block) /\ ring \in Seq(Block)
  BY ChannelTypes DEF MixerSends, AudioInv
<1>6. Upcoming' = Upcoming
  BY <1>5 DEF Upcoming
<1> HIDE DEF block
<1>7. /\ Len(ring') = Len(ring) + 1 /\ Len(ring) \in Nat /\ ring'[Len(ring')] = block
      /\ \A i \in DOMAIN ring : ring'[i] = ring[i]
      /\ DOMAIN ring = 1 .. Len(ring) /\ DOMAIN ring' = 1 .. Len(ring')
  BY <1>4, <1>5
<1>8. ChainInv'
  <2>1. ASSUME NEW i \in DOMAIN ring', i < Len(ring')
        PROVE  After(ring'[i], ring'[i + 1])
    <3>1. i \in DOMAIN ring /\ ring'[i] = ring[i]
      BY <1>7, <2>1
    <3>2. CASE i < Len(ring)
      <4>1. i + 1 \in DOMAIN ring /\ ring'[i + 1] = ring[i + 1]
        BY <1>7, <3>1, <3>2
      <4>2. QED
        BY <3>1, <3>2, <4>1 DEF SoundInv, ChainInv
    <3>3. CASE i = Len(ring)
      <4>1. ring # << >> /\ ring'[i + 1] = block
        BY <1>5, <1>7, <3>1, <3>3
      <4>2. QED
        BY <1>4, <3>1, <3>3, <4>1 DEF SoundInv, ChainInv, After
    <3>4. QED
      BY <1>7, <2>1, <3>1, <3>2, <3>3
  <2>2. After(ring'[Len(ring')], mixer')
    BY <1>2, <1>3, <1>4, <1>7 DEF After
  <2>3. QED
    BY <1>1, <1>6, <2>1, <2>2 DEF SoundInv, ChainInv, After
<1>9. BegunInv'
  <2>1. \A i \in DOMAIN ring' : ring'[i] = block \/ (i \in DOMAIN ring /\ ring'[i] = ring[i])
    BY <1>7
  <2>2. mixer.epoch > 0 => mixer.at >= starts[mixer.epoch] /\ starts[mixer.epoch] \in Nat
    <3>1. mixer.epoch <= epoch
      BY <1>2, EngineTypes DEF AudioInv, EpochInv, Known
    <3>2. mixer.epoch > 0 => mixer.epoch \in 1 .. Len(starts)
      BY <1>2, <3>1, EngineTypes DEF AudioInv, SoundInv, SentInv
    <3>3. starts \in Seq(Nat)
      BY UpcomingTypes DEF AudioInv
    <3>4. mixer.epoch > 0 => starts[mixer.epoch] \in Nat
      BY <3>2, <3>3
    <3>5. QED
      BY <3>4 DEF SoundInv, BegunInv, Begun
  <2>3. mixer'.epoch > 0 => mixer'.at >= starts[mixer'.epoch]
    BY <1>2, <1>3, <2>2
  <2>4. \A i \in DOMAIN ring' : ring'[i].epoch > 0 => ring'[i].at >= starts[ring'[i].epoch]
    BY <1>4, <2>1, <2>2 DEF SoundInv, BegunInv, Begun
  <2>5. QED
    BY <1>1, <2>3, <2>4 DEF SoundInv, BegunInv, Begun
<1>10. SentInv' /\ Onward' = Onward /\ (Hearable' <=> Hearable)
  BY <1>1, <1>3, <1>6, SentRests DEF SoundInv, Onward, Hearable
<1>11. LinkInv'
  BY <1>1, <1>10, LinkRests DEF SoundInv, LinkInv
<1>12. QED
  BY <1>8, <1>9, <1>10, <1>11 DEF SoundInv

LEMMA FillStartsOrders ==
  ASSUME AudioInv, SoundInv, FillStarts
  PROVE  SoundInv'
<1>1. UNCHANGED <<epoch, playing, scrubbing, call, inbox, ring, mixer, starts, heard>>
  BY DEF FillStarts, shared
<1>2. /\ sink.pc = "idle" /\ sink'.pc = (IF playing THEN "epoch" ELSE "scrub")
      /\ sink'.epoch = sink.epoch /\ sink'.current = sink.current /\ sink'.cursor = sink.cursor
  BY DEF FillStarts, AudioInv, AudioTypeOK
<1>3. ChainInv' /\ Onward' = Onward /\ BegunInv' /\ SentInv'
  BY <1>1, <1>2, ChainRests, BegunRests, SentRests DEF SoundInv, Onward
<1>4. Hearable' => Hearable
  BY <1>1, <1>2 DEF Hearable
<1>5. LinkInv'
  BY <1>1, <1>2, <1>3, <1>4, LinkRests DEF SoundInv
<1>6. QED
  BY <1>3, <1>5 DEF SoundInv

LEMMA FillLoadsEpochOrders ==
  ASSUME AudioInv, SoundInv, FillLoadsEpoch
  PROVE  SoundInv'
<1>1. UNCHANGED <<epoch, playing, scrubbing, call, inbox, ring, mixer, starts, heard>>
  BY DEF FillLoadsEpoch, shared
<1>2. /\ sink.pc = "epoch" /\ sink'.pc = "fill" /\ sink'.epoch = epoch
      /\ sink'.current = sink.current /\ sink'.cursor = sink.cursor
  BY DEF FillLoadsEpoch, AudioInv, AudioTypeOK
<1>3. ChainInv' /\ Onward' = Onward /\ BegunInv' /\ SentInv'
  BY <1>1, <1>2, ChainRests, BegunRests, SentRests DEF SoundInv, Onward
<1>4. Hearable' => Hearable
  BY <1>1, <1>2 DEF Hearable
<1>5. LinkInv'
  BY <1>1, <1>2, <1>3, <1>4, LinkRests DEF SoundInv
<1>6. QED
  BY <1>3, <1>5 DEF SoundInv

(* A paused device drops its block; nothing more of that epoch is heard. *)
LEMMA FillLooksAtScrubOrders ==
  ASSUME AudioInv, SoundInv, FillLooksAtScrub
  PROVE  SoundInv'
<1>1. UNCHANGED <<epoch, playing, scrubbing, call, inbox, ring, mixer, starts, heard>>
      /\ sink.pc = "scrub"
  BY DEF FillLooksAtScrub, shared
<1>2. CASE scrubbing
  <2>1. /\ sink'.pc = "epoch" /\ sink'.epoch = sink.epoch
        /\ sink'.current = sink.current /\ sink'.cursor = sink.cursor
    BY <1>2 DEF FillLooksAtScrub, AudioInv, AudioTypeOK
  <2>2. ChainInv' /\ Onward' = Onward /\ BegunInv' /\ SentInv'
    BY <1>1, <2>1, ChainRests, BegunRests, SentRests DEF SoundInv, Onward
  <2>3. Hearable' => Hearable
    BY <1>1, <1>2, <2>1 DEF Hearable
  <2>4. LinkInv'
    BY <1>1, <2>1, <2>2, <2>3, LinkRests DEF SoundInv
  <2>5. QED
    BY <2>2, <2>4 DEF SoundInv
<1>3. CASE ~scrubbing
  <2>1. sink' = [sink EXCEPT !.pc = "idle", !.current = NoBlock, !.cursor = 0]
    BY <1>3 DEF FillLooksAtScrub
  <2>2. sink'.pc = "idle" /\ sink'.epoch = sink.epoch /\ sink'.current = NoBlock
    BY <2>1, SinkHasType DEF AudioInv, SinkType
  <2>3. ChainInv' /\ Upcoming' = Upcoming /\ BegunInv' /\ SentInv'
    BY <1>1, <2>2, ChainRests, BegunRests, SentRests DEF SoundInv
  <2>4. ~Hearable'
    BY <1>1, <1>3, <2>2 DEF Hearable, SoundInv, LinkInv
  <2>5. heard.epoch <= Upcoming.epoch
    BY ComesLater DEF SoundInv
  <2>6. LinkInv'
    BY <1>1, <2>2, <2>3, <2>4, <2>5 DEF LinkInv, Onward
  <2>7. QED
    BY <2>3, <2>6 DEF SoundInv
<1>4. QED
  BY <1>2, <1>3

LEMMA FillTakesOrders ==
  ASSUME AudioInv, SoundInv, FillTakes
  PROVE  /\ SoundInv'
         /\ \/ heard'.epoch = heard.epoch /\ heard'.from = heard.upto
            \/ heard'.epoch > heard.epoch /\ heard'.from >= starts[heard'.epoch]
<1> USE AudioAssumption
<1>1. UNCHANGED <<epoch, playing, scrubbing, call, inbox, ring, mixer, starts>>
  BY DEF FillTakes, shared
<1> DEFINE left == BlockFrames - sink.cursor
           room == DeviceFrames - sink.filled
           take == IF left < room THEN left ELSE room
           from == sink.current.at + sink.cursor
<1>2. /\ sink.pc = "fill" /\ sink.current # NoBlock /\ sink.current.epoch = sink.epoch
  BY DEF FillTakes, Filling, Fresh
<1>3. /\ sink.epoch \in Nat /\ sink.cursor \in Nat /\ sink.current.at \in Nat /\ heard.epoch \in Nat
      /\ heard.epoch <= sink.epoch /\ heard.epoch <= Upcoming.epoch /\ Upcoming.epoch \in Nat
      /\ take \in Int /\ from \in Nat
  <2>1. /\ sink.epoch \in Nat /\ sink.cursor \in Nat /\ sink.filled \in Nat
        /\ sink.current.at \in Nat /\ heard.epoch \in Nat
    BY <1>2, EngineTypes DEF AudioInv
  <2>2. heard.epoch <= sink.epoch /\ heard.epoch <= Upcoming.epoch /\ Upcoming.epoch \in Nat
    BY UpcomingTypes, ComesLater DEF AudioInv, EpochInv, SoundInv
  <2>3. QED
    BY <2>1, <2>2
<1>4. /\ sink' = [sink EXCEPT !.cursor = @ + take, !.filled = @ + take]
      /\ heard' = [epoch |-> sink.current.epoch, from |-> from, upto |-> from + take,
                   count |-> take + IF heard.epoch = sink.epoch THEN heard.count ELSE 0]
  BY DEF FillTakes
<1> HIDE DEF left, room, take
<1>5. /\ sink'.pc = "fill" /\ sink'.epoch = sink.epoch /\ sink'.current = sink.current
      /\ sink'.cursor = sink.cursor + take
      /\ heard'.epoch = sink.epoch /\ heard'.from = from /\ heard'.upto = from + take
  BY <1>2, <1>4 DEF AudioInv, AudioTypeOK
<1>6. ChainInv' /\ BegunInv' /\ SentInv'
  BY <1>1, <1>5, ChainRests, BegunRests, SentRests DEF SoundInv
<1>7. LinkInv'
  <2>1. Onward'.epoch = sink.epoch /\ Onward'.at = heard'.upto
    BY <1>2, <1>3, <1>5 DEF Onward
  <2>2. QED
    BY <1>3, <1>5, <2>1 DEF LinkInv
<1>8. CASE heard.epoch = sink.epoch
  <2>1. Hearable
    BY <1>2, <1>8 DEF Hearable
  <2>2. heard.upto = from
    BY <1>2, <1>8, <2>1 DEF SoundInv, LinkInv, Onward
  <2>3. QED
    BY <1>5, <1>6, <1>7, <1>8, <2>2 DEF SoundInv
<1>9. CASE heard.epoch < sink.epoch
  <2>1. sink.current.at >= starts[sink.epoch] /\ starts[sink.epoch] \in Nat
    <3>1. sink.epoch <= epoch /\ starts \in Seq(Nat) /\ Len(starts) = epoch /\ epoch \in Nat
      BY EngineTypes, UpcomingTypes DEF AudioInv, EpochInv, SoundInv, SentInv
    <3>2. sink.epoch \in 1 .. Len(starts)
      BY <1>3, <1>9, <3>1
    <3>3. QED
      BY <1>2, <3>1, <3>2 DEF SoundInv, BegunInv, Begun
  <2>2. from >= starts[sink.epoch]
    BY <1>3, <2>1
  <2>3. QED
    BY <1>5, <1>6, <1>7, <1>9, <2>2 DEF SoundInv
<1>10. QED
  BY <1>3, <1>8, <1>9

(* A discarded block is of an epoch nothing more is heard of. *)
LEMMA FillPopsOrders ==
  ASSUME AudioInv, SoundInv, FillPops
  PROVE  SoundInv'
<1> USE AudioAssumption
<1>1. UNCHANGED <<epoch, playing, scrubbing, call, inbox, mixer, starts, heard>>
      /\ sink.pc = "fill" /\ ~Fresh /\ ring # << >>
  BY DEF FillPops, shared, Filling
<1> DEFINE next == ring[1]
<1>2. /\ Head(ring) = next /\ ring' = Tail(ring) /\ ring \in Seq(Block) /\ ring' \in Seq(Block)
      /\ next \in Block /\ next # NoBlock /\ next.epoch \in Nat /\ next.at \in Nat
      /\ Upcoming = next /\ 1 \in DOMAIN ring
  BY <1>1, ChannelTypes DEF FillPops, AudioInv, Block, Upcoming
<1>3. /\ Len(ring') = Len(ring) - 1 /\ Len(ring) \in Nat
      /\ DOMAIN ring = 1 .. Len(ring) /\ DOMAIN ring' = 1 .. Len(ring')
      /\ \A i \in DOMAIN ring' : ring'[i] = ring[i + 1] /\ i + 1 \in DOMAIN ring
      /\ ring' # << >> <=> Len(ring) > 1
  <2>1. Len(ring') = Len(ring) - 1 /\ Len(ring) \in Nat /\ Len(ring) > 0
    BY <1>1, <1>2
  <2>2. DOMAIN ring = 1 .. Len(ring) /\ DOMAIN ring' = 1 .. Len(ring')
    BY <1>2
  <2>3. \A i \in DOMAIN ring' : ring'[i] = ring[i + 1] /\ i + 1 \in DOMAIN ring
    BY <1>1, <1>2
  <2>4. ring' # << >> <=> Len(ring') > 0
    BY <1>2
  <2>5. QED
    BY <2>1, <2>2, <2>3, <2>4
<1> HIDE DEF next
<1>4. /\ sink'.pc = "fill" /\ sink'.epoch = sink.epoch /\ sink'.cursor = 0
      /\ sink'.current = (IF next.epoch = sink.epoch THEN next ELSE NoBlock)
  BY <1>1, <1>2, SinkHasType DEF FillPops, AudioInv, SinkType
<1>5. After(next, Upcoming')
  <2>1. CASE ring' # << >>
    <3>1. Upcoming' = ring[2] /\ 1 < Len(ring)
      BY <1>3, <2>1 DEF Upcoming
    <3>2. QED
      BY <1>2, <3>1 DEF next, SoundInv, ChainInv
  <2>2. CASE ring' = << >>
    <3>1. Upcoming' = [epoch |-> mixer.epoch, at |-> mixer.at] /\ Len(ring) = 1
      BY <1>1, <1>3, <2>2 DEF Upcoming
    <3>2. After(next, mixer)
      BY <1>1, <3>1 DEF next, SoundInv, ChainInv
    <3>3. QED
      BY <3>1, <3>2 DEF After
  <2>3. QED
    BY <2>1, <2>2
<1>6. Upcoming'.epoch \in Nat /\ Upcoming'.at \in Nat
  <2>1. ring' # << >> => ring'[1] \in Block
    BY <1>2, <1>3
  <2>2. QED
    BY <1>1, <2>1, EngineTypes DEF Upcoming, Block, AudioInv
<1>7. ChainInv'
  <2>1. ASSUME NEW i \in DOMAIN ring', i < Len(ring')
        PROVE  After(ring'[i], ring'[i + 1])
    <3>1. i + 1 \in DOMAIN ring /\ i + 1 < Len(ring)
          /\ ring'[i] = ring[i + 1] /\ ring'[i + 1] = ring[(i + 1) + 1]
      BY <1>3, <2>1
    <3>2. QED
      BY <3>1 DEF SoundInv, ChainInv
  <2>2. ring' # << >> => After(ring'[Len(ring')], mixer')
    <3>1. ring' # << >> => ring'[Len(ring')] = ring[Len(ring)]
      BY <1>3
    <3>2. QED
      BY <1>1, <3>1 DEF SoundInv, ChainInv
  <2>3. sink'.current # NoBlock => After(sink'.current, Upcoming')
    BY <1>4, <1>5
  <2>4. QED
    BY <2>1, <2>2, <2>3 DEF ChainInv, After
<1>8. BegunInv'
  <2>1. \A i \in DOMAIN ring' : Begun(ring'[i])
    BY <1>3 DEF SoundInv, BegunInv
  <2>2. Begun(next)
    BY <1>2 DEF next, SoundInv, BegunInv
  <2>3. QED
    BY <1>1, <1>4, <2>1, <2>2 DEF SoundInv, BegunInv, Begun
<1>9. SentInv'
  BY <1>1, SentRests DEF SoundInv
<1>10. /\ heard.epoch \in Nat /\ sink.epoch \in Nat /\ epoch \in Nat
       /\ heard.epoch <= next.epoch /\ heard.epoch <= sink.epoch /\ sink.epoch <= epoch
  BY <1>2, EngineTypes, ComesLater DEF AudioInv, EpochInv, SoundInv
<1>11. LinkInv'
  <2>1. CASE next.epoch = sink.epoch
    <3>1. Onward'.epoch = next.epoch /\ Onward'.at = next.at
      BY <1>2, <1>4, <2>1 DEF Onward
    <3>2. Hearable' => Hearable
      BY <1>1, <1>4 DEF Hearable
    <3>3. Hearable /\ next.epoch = heard.epoch => heard.upto = next.at
      BY <1>1, <1>2, <1>10, <2>1, Continues DEF SoundInv
    <3>4. QED
      BY <1>1, <1>4, <1>10, <3>1, <3>2, <3>3 DEF LinkInv
  <2>2. CASE next.epoch # sink.epoch
    <3>1. Onward' = Upcoming'
      BY <1>4, <2>2 DEF Onward
    <3>2. heard.epoch <= Upcoming'.epoch
      BY <1>2, <1>5, <1>6, <1>10 DEF After
    <3>3. Hearable' => Upcoming'.epoch # heard.epoch
      BY <1>1, <1>2, <1>4, <1>5, <1>6, <1>10, <2>2 DEF Hearable, After
    <3>4. QED
      BY <1>1, <1>4, <3>1, <3>2, <3>3 DEF LinkInv
  <2>3. QED
    BY <2>1, <2>2
<1>12. QED
  BY <1>7, <1>8, <1>9, <1>11 DEF SoundInv

LEMMA FillEndsOrders ==
  ASSUME AudioInv, SoundInv, FillEnds
  PROVE  SoundInv'
<1> USE AudioAssumption
<1>1. UNCHANGED <<epoch, playing, scrubbing, call, inbox, ring, mixer, starts, heard>>
      /\ sink.pc = "fill"
  BY DEF FillEnds
<1>2. /\ sink'.pc = "idle" /\ sink'.epoch = sink.epoch
      /\ IF sink.filled < DeviceFrames
         THEN sink'.current = NoBlock ELSE sink'.current = sink.current /\ sink'.cursor = sink.cursor
  BY DEF FillEnds, AudioInv, AudioTypeOK
<1>3. ChainInv' /\ Upcoming' = Upcoming /\ BegunInv' /\ SentInv'
  BY <1>1, <1>2, ChainRests, BegunRests, SentRests DEF SoundInv
<1>4. Hearable' => Hearable /\ heard.epoch = epoch
  BY <1>1, <1>2 DEF Hearable
<1>5. CASE sink.filled < DeviceFrames
  <2>1. ~Fresh /\ Onward' = Upcoming
    BY <1>2, <1>3, <1>5, EngineTypes DEF FillEnds, AudioInv, Onward
  <2>2. heard.epoch <= Upcoming.epoch
    BY ComesLater DEF SoundInv
  <2>3. heard.epoch = epoch => heard.epoch = sink.epoch
    BY EngineTypes DEF AudioInv, EpochInv
  <2>4. Hearable' /\ Upcoming.epoch = heard.epoch => heard.upto = Upcoming.at
    BY <1>4, <2>1, <2>3, Continues DEF SoundInv
  <2>5. QED
    BY <1>1, <1>2, <1>3, <2>1, <2>2, <2>4 DEF SoundInv, LinkInv
<1>6. CASE ~(sink.filled < DeviceFrames)
  <2>1. Onward' = Onward
    BY <1>2, <1>3, <1>6 DEF Onward
  <2>2. LinkInv'
    BY <1>1, <1>2, <1>4, <2>1, LinkRests DEF SoundInv
  <2>3. QED
    BY <1>3, <2>2 DEF SoundInv
<1>7. QED
  BY <1>5, <1>6

-----------------------------------------------------------------------------

LEMMA SoundInitHolds == Init => SoundInv
<1> SUFFICES ASSUME Init PROVE SoundInv
  OBVIOUS
<1>1. ~Unsent
  BY DEF Init, AudioInit, NoCall, Unsent
<1>2. QED
  BY <1>1 DEF Init, AudioInit, SoundInv, ChainInv, SentInv, BegunInv, Begun, LinkInv, Onward, Upcoming

LEMMA SoundStepKeeps == IInv /\ SoundInv /\ [Next]_vars => SoundInv'
<1> SUFFICES ASSUME IInv, SoundInv, [Next]_vars PROVE SoundInv'
  OBVIOUS
<1>1. AudioInv
  BY DEF IInv
<1>2. CASE Engine
  BY <1>1, <1>2, BumpEpochOrders, ResetClockOrders, StorePlayingOrders, StoreScrubbingOrders,
     SendOrders, MixerReceivesOrders, MixerMixesOrders, MixerSendsOrders,
     FillStartsOrders, FillLooksAtScrubOrders, FillLoadsEpochOrders, FillTakesOrders,
     FillPopsOrders, FillEndsOrders
     DEF Engine, Call, Mixer, Fill
<1>3. CASE User \/ Watch \/ Timer \/ DeferredStop
  BY <1>1, <1>3, TurnsKeep, TurnOrders
<1>4. CASE UNCHANGED vars
  <2>1. UNCHANGED <<epoch, playing, scrubbing, call, inbox, ring, mixer, sink, starts, heard>>
    BY <1>4 DEF vars, audio, shared
  <2>2. ChainInv' /\ Onward' = Onward /\ BegunInv' /\ SentInv' /\ (Hearable' <=> Hearable)
    BY <2>1, ChainRests, BegunRests, SentRests DEF SoundInv, Onward, Hearable
  <2>3. LinkInv'
    BY <2>1, <2>2, LinkRests DEF SoundInv, LinkInv
  <2>4. QED
    BY <2>2, <2>3 DEF SoundInv
<1>5. QED
  BY <1>2, <1>3, <1>4 DEF Next

(* Only the callback's takes are heard. *)
LEMMA OnlyTakesAreHeard ==
  ASSUME IInv, [Next]_vars, heard' # heard
  PROVE  FillTakes
<1>1. CASE Engine
  BY <1>1 DEF Engine, Call, Mixer, Fill, BumpEpoch, ResetClock, StorePlaying, StoreScrubbing, Send,
     MixerReceives, MixerMixes, MixerSends, FillStarts, FillLooksAtScrub, FillLoadsEpoch,
     FillPops, FillEnds
<1>2. CASE User \/ Watch \/ Timer \/ DeferredStop
  BY <1>2, TurnsKeep DEF UiTurn, EngineRests
<1>3. CASE UNCHANGED vars
  BY <1>3 DEF vars, audio
<1>4. QED
  BY <1>1, <1>2, <1>3 DEF Next

(***************************************************************************)
(* Within one play or scrub the timeline is heard without a gap or a       *)
(* repetition, from nowhere before its start, and nothing of an earlier    *)
(* one after a later: the flush without locks (audio.rs:15).               *)
(***************************************************************************)
THEOREM SoundInOrderHolds == Spec => SoundInOrder
<1>1. IInv /\ SoundInv /\ [Next]_vars =>
        [heard' # heard =>
           \/ heard'.epoch = heard.epoch /\ heard'.from = heard.upto
           \/ heard'.epoch > heard.epoch /\ heard'.from >= starts[heard'.epoch]]_vars
  BY OnlyTakesAreHeard, FillTakesOrders DEF IInv
<1>2. QED
  BY <1>1, InvariantHolds, SoundInitHolds, SoundStepKeeps, PTL DEF Spec, SoundInOrder
=============================================================================
