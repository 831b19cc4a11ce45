------------------------- MODULE AgentSessionProofs -------------------------
(***************************************************************************)
(* Theorems about AgentSession: its types, that the sandbox mirrors the    *)
(* plan, that steps land once, in order and from the start of their plan,  *)
(* that a plan given up is forgotten, and that the first press decides a   *)
(* system tool.  They hold for every number of drafts, chats, prompts,     *)
(* tool calls, presses and opened drafts.                                  *)
(*                                                                         *)
(* The argument follows a prompt by its number.  Requests are taken in the *)
(* order they were sent, so the prompt at work is known nowhere yet: to no *)
(* conversation, chat, checkpoint or parked plan, and it was not over      *)
(* before (FreshInv, NowInv).  What it adds to the sandbox and the plan is *)
(* its own, behind what was parked (MirrorInv).  From there on a prompt is *)
(* parked, over, or about to be replayed, and one of these only (LandInv); *)
(* and while its plan is parked, only the open conversation tells of it,   *)
(* and the checkpoint does not (ForgetInv).  Breaks and steps are counted  *)
(* from the parked plan on (PhaseInv), presses by the calls they name      *)
(* (GateInv).                                                              *)
(***************************************************************************)
EXTENDS AgentSession, SequenceTheorems, TLAPS

-----------------------------------------------------------------------------
(* The inductive invariant *)

Rehearsing == {"ask", "calls", "card", "wait", "tool", "reconcile"}
Prompting == Rehearsing \cup {"start"}

(* Every press is on a call made before; while the call that waits for a   *)
(* decision has none, no press on it was received.                         *)
GateInv ==
  /\ \A i \in DOMAIN presses : presses[i].id \in 1 .. lastId
  /\ IF pc \in {"card", "wait"}
     THEN pending = lastId /\ lastId # 0 /\ \A i \in 1 .. read : presses[i].id # lastId
     ELSE pending = 0
  /\ pc = "tool" =>
       read \in DOMAIN presses /\ presses[read].id = lastId /\ presses[read].ok
         /\ \A i \in 1 .. read - 1 : presses[i].id # lastId

(* The prompts that were begun, and may be met anywhere. *)
Told == Range(history) \cup Range(Loaded(checkpoint))
Filed == UNION {Range(Loaded(chats[d][i])) : d \in Draft, i \in Ids}
Met == over \cup PromptsOf(parked) \cup PromptsOf(plan) \cup Told \cup Filed
Begun == {now.id} \cup Met

(* Prompts are begun in the order of their numbers. *)
IsPrompt(i) == i \in DOMAIN rx /\ rx[i].type = "prompt"

FreshInv ==
  /\ \A p \in Begun : p <= sent.prompts
  /\ \A i \in DOMAIN rx : IsPrompt(i) =>
       /\ rx[i].id <= sent.prompts
       /\ \A p \in Begun : p < rx[i].id
       /\ \A j \in DOMAIN rx : j < i /\ IsPrompt(j) => rx[j].id < rx[i].id

(* The prompt at work is told of nowhere before it ends. *)
NowInv ==
  pc \in Prompting =>
    /\ now.id \in Prompt
    /\ now.id \notin over /\ now.id \notin PromptsOf(parked)
    /\ now.id \notin Told /\ now.id \notin Filed
    /\ lines

(* The sandbox and its group, and the plan beside it. *)
MirrorInv ==
  /\ \A s \in Range(sandbox) : s.on = base
  /\ pc \in {"idle", "start", "end"} /\ parked # <<>> => sandbox = parked
  /\ pc = "replay" \/ (pc \in Prompting /\ ~now.dry) => parked = <<>>
  /\ pc \in Rehearsing =>
       /\ sandbox = plan /\ mark = Len(parked)
       /\ mark <= Len(plan) /\ SubSeq(plan, 1, mark) = parked
       /\ \A s \in Range(plan) : s.by \in {now.id} \cup PromptsOf(parked)
  /\ pc = "reconcile" => plan = <<>>
  /\ pc \in {"card", "wait", "tool"} /\ now.tool = "project" => plan = <<>>

(* What may land was neither replayed nor given up. *)
LandInv ==
  /\ PromptsOf(parked) \cap over = {}
  /\ pc = "replay" => PromptsOf(plan) \cap over = {}

(* The parked plan is forgotten by the checkpoint and by the other chats,  *)
(* what was given up by every chat that could be saved.                    *)
ForgetInv ==
  /\ parked # <<>> \/ (pc \in Prompting /\ now.dry) => checkpoint # None
  /\ Range(Loaded(checkpoint)) \cap PromptsOf(parked) = {}
  /\ <<draft, chat>> \notin torn => Told \cap given = {}
  /\ \A d \in Draft, i \in Ids :
       <<d, i>> \notin torn \cup {<<draft, chat>>} =>
         Range(Loaded(chats[d][i])) \cap (given \cup PromptsOf(parked)) = {}
  /\ ~lines => history = <<>> /\ Loaded(checkpoint) = <<>>
  /\ ~lines /\ chat # None => chats[draft][chat] = None

(* Steps are numbered, and the breaks between phases increase. *)
Numbered(steps) == \A i \in DOMAIN steps : steps[i].nth = i
Cuts(at, n) ==
  /\ \A i \in DOMAIN at : at[i] \in 1 .. n
  /\ \A i, j \in DOMAIN at : i < j => at[i] < at[j]

PhaseInv ==
  /\ Numbered(parked) /\ Cuts(cuts, Len(parked))
  /\ pc \in Rehearsing =>
       Numbered(plan) /\ Cuts(breaks, loop.done) /\ Len(plan) = Len(parked) + loop.done
  /\ pc = "replay" => plan # <<>> /\ Numbered(plan) /\ Cuts(breaks, Len(plan))
  /\ PrefixLands

SessionInv ==
  GateInv /\ FreshInv /\ NowInv /\ MirrorInv /\ LandInv /\ ForgetInv /\ PhaseInv

IInv == TypeOK /\ SessionInv

-----------------------------------------------------------------------------
(* The steps, by what they touch *)

(* The user, the panel and the preview worker. *)
Outside == User \/ Refresh \/ Announce \/ \E d \in Draft : OpenDraft(d)

(* The prompt at work goes on. *)
Rehearse ==
  \/ NextTurn /\ Within("ask", "calls")
  \/ EditCall \/ CommitCall \/ PlainCall \/ SaveCall
  \/ \E tool \in Tools : SystemCall(tool)
  \/ Approval \/ RunTool \/ ReconcileCall
  \/ UNCHANGED run /\ Within("calls", "ask")

AbortStep == pc \in {"ask", "calls"} /\ Abort
FinishStep == pc \in {"ask", "calls"} /\ Finish

LEMMA NextCases ==
  ASSUME Next
  PROVE  \/ Outside \/ Rehearse \/ StartPrompt \/ AbortStep \/ FinishStep \/ Replay
         \/ EndRequest \/ TakeRequest
  BY DEF Next, RunPrompt, AskProvider, HostCall, TooManyHostCalls, EndTurn, Outside, Rehearse,
         AbortStep, FinishStep

-----------------------------------------------------------------------------
(* Types *)

Press == [id : Nat, ok : BOOLEAN, card : Nat]

LiveType == open \in Draft /\ opens \in 0 .. MaxOpens /\ landed \in Seq(Group)
GateType ==
  /\ presses \in Seq(Press) /\ read \in 0 .. Len(presses)
  /\ pending \in {0, lastId} /\ lastId \in Nat
PanelType ==
  /\ epoch \in BOOLEAN /\ shown \in Panel
  /\ sent \in [prompts : 0 .. MaxPrompts, others : 0 .. MaxRequests]
AgentType ==
  /\ pc \in Busy \cup {"idle"}
  /\ now \in [id : Prompt \cup {0}, dry : BOOLEAN, tool : Tools \cup {None}]
  /\ published \in Panel /\ given \subseteq over /\ over \subseteq Prompt
  /\ cancel \in BOOLEAN /\ rx \in Seq(Requests)
PreviewType ==
  parked \in Seq(Step) /\ cuts \in Seq(Nat) /\ checkpoint \in Seq(Prompt) \cup {None}
TalkType ==
  /\ history \in Seq(Prompt) /\ lines \in BOOLEAN /\ draft \in Draft
  /\ chat \in Ids \cup {None}
  /\ chats \in [Draft -> [Ids -> Seq(Prompt) \cup {None}]]
  /\ newest \in [Draft -> Ids \cup {None}] /\ torn \subseteq Draft \X Ids
RunType ==
  /\ base \in Draft /\ sandbox \in Seq(Step) /\ mark \in Nat /\ plan \in Seq(Step)
  /\ breaks \in Seq(Nat)
  /\ loop \in [turns : Nat, edits : Nat, hosts : Nat, done : Nat]

LEMMA TypeParts ==
  TypeOK <=> /\ LiveType /\ GateType /\ PanelType /\ AgentType /\ PreviewType /\ TalkType
             /\ RunType
  BY DEF TypeOK, LiveType, GateType, PanelType, AgentType, PreviewType, TalkType, RunType, Press

LEMMA NextTypeParts ==
  ASSUME LiveType', GateType', PanelType', AgentType', PreviewType', TalkType', RunType'
  PROVE  TypeOK'
  BY DEF TypeOK, LiveType, GateType, PanelType, AgentType, PreviewType, TalkType, RunType, Press

(* A variable that is left alone keeps its type. *)
LEMMA SameTypes ==
  /\ LiveType /\ UNCHANGED live => LiveType'
  /\ GateType /\ UNCHANGED gate => GateType'
  /\ PanelType /\ UNCHANGED panel => PanelType'
  /\ AgentType /\ UNCHANGED agent => AgentType'
  /\ PreviewType /\ UNCHANGED preview => PreviewType'
  /\ TalkType /\ UNCHANGED talk => TalkType'
  /\ RunType /\ UNCHANGED run => RunType'
  BY DEF LiveType, GateType, PanelType, AgentType, PreviewType, TalkType, RunType,
         live, gate, panel, agent, preview, talk, disk, run, Panel, Prompt, Requests, Ids

LEMMA Bounds ==
  /\ MaxPrompts \in Nat /\ MaxRequests \in Nat /\ MaxOpens \in Nat
  /\ 1 \in Ids /\ None \notin Ids /\ None \notin Draft /\ None \notin Seq(Nat)
  /\ MaxEdits \in Nat
  BY SessionAssumption, PromptAssumption DEF Ids

LEMMA InitTypes ==
  ASSUME Init
  PROVE  TypeOK
<1>1. LiveType
  BY Bounds DEF Init, LiveType
<1>2. GateType
  BY DEF Init, GateType
<1>0. epoch \in BOOLEAN /\ cancel \in BOOLEAN /\ lines \in BOOLEAN
  BY Zenon DEF Init
<1>3. published \in Panel
  BY DEF Init, Panel
<1>4. PanelType
  BY <1>0, <1>3, Bounds DEF Init, PanelType
<1>5. now \in [id : Prompt \cup {0}, dry : BOOLEAN, tool : Tools \cup {None}]
  BY DEF Init, Nothing
<1>6. AgentType
  BY <1>0, <1>3, <1>5 DEF Init, AgentType
<1>7. PreviewType
  BY DEF Init, PreviewType
<1>8. TalkType
  BY <1>0, Bounds DEF Init, TalkType
<1>9. RunType
  BY DEF Init, RunType, Fresh
<1>10. QED
  BY <1>1, <1>2, <1>4, <1>6, <1>7, <1>8, <1>9, TypeParts

-----------------------------------------------------------------------------
(* What the user, the panel and the preview worker do *)

Asked ==
  \/ rx' = rx /\ sent' = sent
  \/ \E r \in Requests :
       /\ rx' = Append(rx, r) /\ r.type # "prompt" /\ sent'.prompts = sent.prompts
       /\ sent' \in [prompts : 0 .. MaxPrompts, others : 0 .. MaxRequests]
  \/ \E r \in Requests :
       /\ rx' = Append(rx, r) /\ r.type = "prompt" /\ r.id = sent.prompts + 1
       /\ sent'.prompts = sent.prompts + 1
       /\ sent' \in [prompts : 0 .. MaxPrompts, others : 0 .. MaxRequests]

Pressed ==
  presses' = presses \/ \E p \in Press : presses' = Append(presses, p) /\ p.id = pending /\ pending # 0

LEMMA UserStep ==
  ASSUME TypeOK, User
  PROVE  /\ UNCHANGED <<live, epoch, shown, read, pending, lastId, published, preview, talk, pc, now>>
         /\ UNCHANGED <<over, given, run>>
         /\ Asked /\ Pressed /\ cancel' \in BOOLEAN
<1> USE DEF live, gate, preview, talk, disk, agent, panel, run
<1>1. cancel \in BOOLEAN /\ open \in Draft /\ sent \in [prompts : 0 .. MaxPrompts, others : 0 .. MaxRequests]
  BY TypeParts DEF AgentType, LiveType, PanelType
<1>2. ASSUME NEW dry \in BOOLEAN, SendPrompt(dry)
      PROVE  Asked
  <2>1. sent.prompts + 1 \in Prompt
    BY <1>1, <1>2, Bounds DEF SendPrompt, Prompt
  <2>2. [type |-> "prompt", id |-> sent.prompts + 1, dry |-> dry] \in Requests
    BY <2>1 DEF Requests
  <2>3. sent' \in [prompts : 0 .. MaxPrompts, others : 0 .. MaxRequests] /\ sent'.prompts = sent.prompts + 1
    BY <1>1, <1>2, Bounds DEF SendPrompt
  <2>4. rx' = Append(rx, [type |-> "prompt", id |-> sent.prompts + 1, dry |-> dry])
    BY <1>2 DEF SendPrompt, Request
  <2>5. QED
    BY <2>2, <2>3, <2>4 DEF Asked
<1>3. ASSUME NEW r \in Requests, r.type # "prompt", SendOther(r)
      PROVE  Asked
  <2>1. sent' \in [prompts : 0 .. MaxPrompts, others : 0 .. MaxRequests] /\ sent'.prompts = sent.prompts
    BY <1>1, <1>3, Bounds DEF SendOther
  <2>2. rx' = Append(rx, r)
    BY <1>3 DEF SendOther, Request
  <2>3. QED
    BY <1>3, <2>1, <2>2 DEF Asked
<1>4. /\ [type |-> "apply"] \in Requests /\ [type |-> "discard"] \in Requests
      /\ [type |-> "new"] \in Requests
      /\ \A id \in Ids : [type |-> "select", id |-> id] \in Requests
  BY DEF Requests
<1>5. ASSUME NEW dry \in BOOLEAN, SendPrompt(dry) PROVE presses' = presses /\ cancel' = cancel
  BY <1>5 DEF SendPrompt, Request
<1>6. ASSUME NEW r, SendOther(r) PROVE presses' = presses /\ cancel' = cancel
  BY <1>6 DEF SendOther, Request
<1>7. CASE \E dry \in BOOLEAN : SendPrompt(dry)
  BY <1>1, <1>2, <1>5, <1>7 DEF SendPrompt, Request, Pressed
<1>8. ASSUME NEW r \in Requests, r.type # "prompt", SendOther(r)
      PROVE  /\ UNCHANGED <<live, epoch, shown, read, pending, lastId, published, preview, talk, pc, now>>
             /\ UNCHANGED <<over, given, run>>
             /\ Asked /\ Pressed /\ cancel' \in BOOLEAN
  BY <1>1, <1>3, <1>6, <1>8 DEF SendOther, Request, Pressed
<1>9. CASE SendApply \/ SendDiscard \/ SendNewChat
  BY <1>4, <1>8, <1>9 DEF SendApply, SendDiscard, SendNewChat
<1>10. CASE \E id \in Ids : SendSelectChat(id)
  BY <1>4, <1>8, <1>10 DEF SendSelectChat
<1>11. CASE Stop
  BY <1>11 DEF Stop, Asked, Pressed
<1>12. CASE \E ok \in BOOLEAN : Decide(ok)
  <2>1. PICK ok \in BOOLEAN : Decide(ok)
    BY <1>12
  <2>2. pending \in Nat /\ shown.card \in Nat
    BY TypeParts DEF GateType, PanelType, Panel
  <2>3. [id |-> pending, ok |-> ok, card |-> shown.card] \in Press
    BY <2>2 DEF Press
  <2>4. Pressed
    BY <2>1, <2>3 DEF Decide, Pressed
  <2>5. QED
    BY <1>1, <2>1, <2>4 DEF Decide, Asked
<1>13. QED
  BY <1>7, <1>9, <1>10, <1>11, <1>12 DEF User

LEMMA OutsideStep ==
  ASSUME TypeOK, Outside
  PROVE  /\ UNCHANGED <<landed, read, pending, lastId, published, preview, talk, pc, now, over, given, run>>
         /\ Asked /\ Pressed
         /\ open' \in Draft /\ opens' \in 0 .. MaxOpens /\ epoch' \in BOOLEAN /\ cancel' \in BOOLEAN
         /\ shown' \in Panel
<1> USE DEF live, gate, preview, talk, disk, agent, panel, run
<1>1. /\ cancel \in BOOLEAN /\ epoch \in BOOLEAN /\ open \in Draft /\ opens \in 0 .. MaxOpens
      /\ shown \in Panel /\ published \in Panel
      /\ sent \in [prompts : 0 .. MaxPrompts, others : 0 .. MaxRequests]
  BY TypeParts DEF AgentType, LiveType, PanelType
<1>2. CASE User
  BY <1>1, <1>2, UserStep
<1>3. CASE Refresh
  BY <1>1, <1>3 DEF Refresh, Asked, Pressed
<1>4. CASE Announce
  <2>1. [type |-> "switch", to |-> open] \in Requests
    BY <1>1 DEF Requests
  <2>2. Asked
    BY <1>1, <1>4, <2>1 DEF Announce, Request, Asked
  <2>3. epoch' \in BOOLEAN /\ cancel' \in BOOLEAN
    BY <1>4, Zenon DEF Announce
  <2>4. QED
    BY <1>1, <1>4, <2>2, <2>3 DEF Announce, Request, Pressed
<1>5. CASE \E d \in Draft : OpenDraft(d)
  <2>1. epoch' \in BOOLEAN
    BY <1>5, Zenon DEF OpenDraft
  <2>2. opens' \in 0 .. MaxOpens /\ open' \in Draft
    BY <1>1, <1>5, Bounds DEF OpenDraft
  <2>3. QED
    BY <1>1, <1>5, <2>1, <2>2 DEF OpenDraft, Asked, Pressed
<1>6. QED
  BY <1>2, <1>3, <1>4, <1>5 DEF Outside

LEMMA OutsideTypes ==
  ASSUME TypeOK, Outside
  PROVE  TypeOK'
<1> USE OutsideStep DEF preview, talk, disk, run
<1>1. LiveType' /\ PreviewType' /\ TalkType' /\ RunType'
  BY TypeParts DEF LiveType, PreviewType, TalkType, RunType
<1>2. GateType'
  <2>1. presses' \in Seq(Press) /\ Len(presses) <= Len(presses')
    BY TypeParts DEF GateType, Pressed
  <2>2. QED
    BY <2>1, TypeParts DEF GateType
<1>3. PanelType'
  BY TypeParts DEF PanelType, Asked
<1>4. AgentType'
  <2>1. rx \in Seq(Requests)
    BY TypeParts DEF AgentType
  <2>2. rx' \in Seq(Requests)
    BY <2>1 DEF Asked
  <2>3. QED
    BY <2>2, TypeParts DEF AgentType
<1>5. QED
  BY <1>1, <1>2, <1>3, <1>4, NextTypeParts

-----------------------------------------------------------------------------
(* The prompt at work *)

LEMMA ElementsAfterAppend ==
  ASSUME NEW S, NEW q \in Seq(S), NEW e \in S
  PROVE  Range(Append(q, e)) = Range(q) \cup {e}
<1>1. ASSUME NEW x \in Range(Append(q, e)) PROVE x \in Range(q) \cup {e}
  BY DEF Range
<1>2. ASSUME NEW x \in Range(q) PROVE x \in Range(Append(q, e))
  BY DEF Range
<1>3. e \in Range(Append(q, e))
  <2>1. Append(q, e)[Len(q) + 1] = e /\ Len(q) + 1 \in DOMAIN Append(q, e)
    OBVIOUS
  <2>2. QED
    BY <2>1 DEF Range
<1>4. QED
  BY <1>1, <1>2, <1>3

Loops == [turns : Nat, edits : Nat, hosts : Nat, done : Nat]

LEMMA Counted ==
  ASSUME NEW l \in Loops
  PROVE  /\ [l EXCEPT !.turns = @ + 1] \in Loops
         /\ [l EXCEPT !.edits = @ + 1, !.done = @ + 1] \in Loops
         /\ [l EXCEPT !.edits = @ + 1] \in Loops
         /\ [l EXCEPT !.hosts = @ + 1] \in Loops
         /\ l.done \in Nat
<1>1. l.turns \in Nat /\ l.edits \in Nat /\ l.hosts \in Nat /\ l.done \in Nat
  BY DEF Loops
<1>2. ASSUME NEW m \in Nat, NEW n \in Nat
      PROVE  [l EXCEPT !.edits = m, !.done = n] \in Loops
  BY DEF Loops
<1>3. /\ [l EXCEPT !.turns = @ + 1] \in Loops /\ [l EXCEPT !.edits = @ + 1] \in Loops
      /\ [l EXCEPT !.hosts = @ + 1] \in Loops
  BY DEF Loops
<1>4. [l EXCEPT !.edits = @ + 1, !.done = @ + 1] \in Loops
  <2> DEFINE m == l.edits + 1
             n == l.done + 1
  <2>1. m \in Nat /\ n \in Nat
    BY <1>1
  <2> HIDE DEF m, n
  <2>2. [l EXCEPT !.edits = m, !.done = n] \in Loops
    BY <1>2, <2>1
  <2>3. QED
    BY <2>2 DEF m, n
<1>5. QED
  BY <1>1, <1>3, <1>4

LEMMA AppendType ==
  ASSUME NEW S, NEW q \in Seq(S), NEW e \in S
  PROVE  Append(q, e) \in Seq(S)
  OBVIOUS

(* The tool loop keeps its types, and adds only steps of this prompt. *)
LoopStep ==
  \/ NextTurn \/ Edit(now.id) \/ CommitProgress \/ ChargeHost
  \/ pc = "reconcile" /\ Reconcile(open)
  \/ UNCHANGED run

LEMMA LoopTypes ==
  ASSUME TypeOK, now.id \in Prompt, LoopStep
  PROVE  RunType' /\ PromptsOf(plan') \subseteq PromptsOf(plan) \cup {now.id}
<1>1. RunType /\ open \in Draft
  BY TypeParts DEF LiveType
<1>0. /\ loop \in Loops /\ breaks \in Seq(Nat) /\ sandbox \in Seq(Step) /\ plan \in Seq(Step)
  BY <1>1 DEF RunType, Loops
<1>2. CASE NextTurn \/ CommitProgress \/ ChargeHost \/ UNCHANGED run
  <2>1. loop' \in Loops
    BY <1>0, <1>2, Counted DEF NextTurn, CommitProgress, ChargeHost, run
  <2>2. breaks' \in Seq(Nat)
    <3>1. Append(breaks, loop.done) \in Seq(Nat)
      BY <1>0, Counted, AppendType
    <3>2. QED
      BY <1>0, <1>2, <3>1 DEF NextTurn, CommitProgress, ChargeHost, run
  <2>3. UNCHANGED <<base, sandbox, mark, plan>>
    BY <1>2 DEF NextTurn, CommitProgress, ChargeHost, run
  <2>4. QED
    BY <1>1, <2>1, <2>2, <2>3 DEF RunType, Loops
<1>3. CASE Edit(now.id)
  <2> DEFINE step == [by |-> now.id, nth |-> Len(plan) + 1, on |-> base]
  <2>1. loop' \in Loops
    <3>1. \/ loop' = [loop EXCEPT !.edits = @ + 1, !.done = @ + 1]
          \/ loop' = [loop EXCEPT !.edits = @ + 1]
      BY <1>3 DEF Edit
    <3>2. QED
      BY <1>0, <3>1, Counted
  <2>2. step \in Step
    BY <1>1 DEF RunType, Step
  <2>3. UNCHANGED <<base, mark, breaks>>
    BY <1>3 DEF Edit
  <2>4. \/ UNCHANGED <<sandbox, plan>>
        \/ sandbox' = Append(sandbox, step) /\ plan' = Append(plan, step)
    BY <1>3 DEF Edit
  <2>5. RunType'
    <3>1. sandbox' \in Seq(Step) /\ plan' \in Seq(Step)
      <4>1. Append(sandbox, step) \in Seq(Step) /\ Append(plan, step) \in Seq(Step)
        BY <1>0, <2>2, AppendType
      <4>2. QED
        BY <1>0, <2>4, <4>1
    <3>2. QED
      BY <1>1, <2>1, <2>3, <3>1 DEF RunType, Loops
  <2>6. CASE plan' = Append(plan, step)
    <3>1. Range(plan') = Range(plan) \cup {step}
      BY <1>1, <2>2, <2>6, ElementsAfterAppend DEF RunType
    <3>2. step.by = now.id
      OBVIOUS
    <3>3. QED
      BY <2>5, <3>1, <3>2 DEF PromptsOf
  <2>7. QED
    BY <2>4, <2>5, <2>6
<1>4. CASE Reconcile(open)
  <2>1. plan' = <<>> /\ Range(<<>>) = {}
    BY <1>4 DEF Reconcile, Reset, Range
  <2>2. QED
    BY <1>1, <1>4, <2>1 DEF RunType, Reconcile, Reset, PromptsOf
<1>5. QED
  BY <1>2, <1>3, <1>4 DEF LoopStep

(* Where the thread is, before and after. *)
Moves ==
  {<<"ask", "calls">>, <<"calls", "calls">>, <<"calls", "reconcile">>, <<"calls", "card">>,
   <<"card", "wait">>, <<"card", "calls">>, <<"wait", "wait">>, <<"wait", "tool">>,
   <<"wait", "calls">>, <<"tool", "calls">>, <<"tool", "reconcile">>, <<"reconcile", "calls">>,
   <<"calls", "ask">>}

LEMMA RehearseStep ==
  ASSUME TypeOK, Rehearse
  PROVE  /\ <<pc, pc'>> \in Moves
         /\ UNCHANGED <<landed, shown, sent, rx, presses, over, given, cancel, preview, talk>>
         /\ now'.id = now.id /\ now'.dry = now.dry
         /\ LoopStep
         /\ open' \in Draft /\ opens' \in 0 .. MaxOpens /\ epoch' \in BOOLEAN
<1> USE DEF live, gate, panel, Moves
<1>1. /\ cancel \in BOOLEAN /\ epoch \in BOOLEAN /\ open \in Draft /\ opens \in 0 .. MaxOpens
      /\ now \in [id : Prompt \cup {0}, dry : BOOLEAN, tool : Tools \cup {None}]
  BY TypeParts DEF AgentType, LiveType, PanelType
<1>2. CASE \/ NextTurn /\ Within("ask", "calls")
           \/ EditCall \/ CommitCall \/ PlainCall \/ SaveCall
           \/ UNCHANGED run /\ Within("calls", "ask")
  BY <1>1, <1>2 DEF LoopStep, Within, Goto, EditCall, CommitCall, PlainCall, SaveCall
<1>3. CASE \E tool \in Tools : SystemCall(tool)
  BY <1>1, <1>3 DEF LoopStep, SystemCall
<1>4. CASE CardShown
  BY <1>1, <1>4 DEF LoopStep, Within, Goto, CardShown
<1>5. CASE CardNotShown
  BY <1>1, <1>5 DEF LoopStep, Withdraw, Goto, CardNotShown
<1>6. CASE SkipDecision
  BY <1>1, <1>6 DEF LoopStep, Goto, SkipDecision
<1>7. CASE TakeDecision
  BY <1>1, <1>7 DEF LoopStep, Withdraw, Goto, TakeDecision
<1>8. CASE StopWaiting
  BY <1>1, <1>8 DEF LoopStep, Withdraw, Goto, StopWaiting
<1>9. CASE RunTool
  <2>1. CASE UNCHANGED run /\ (Within("tool", "calls") \/ Within("tool", "reconcile"))
    BY <1>1, <2>1 DEF LoopStep, Within, Goto
  <2>2. CASE /\ pc = "tool" /\ \E d \in Draft \ {open} : open' = d
             /\ opens < MaxOpens /\ opens' = opens + 1 /\ epoch' = TRUE
             /\ Goto("reconcile")
             /\ UNCHANGED <<landed, shown, sent, published, gate, preview, talk, run>>
    <3>1. epoch' \in BOOLEAN
      BY <2>2, Zenon
    <3>2. opens' \in 0 .. MaxOpens /\ open' \in Draft
      BY <1>1, <2>2, Bounds
    <3>3. QED
      BY <1>1, <2>2, <3>1, <3>2 DEF LoopStep, Goto
  <2>3. QED
    BY <1>9, <2>1, <2>2 DEF RunTool
<1>10. CASE ReconcileCall
  BY <1>1, <1>10 DEF LoopStep, Goto, ReconcileCall
<1>11. QED
  BY <1>2, <1>3, <1>4, <1>5, <1>6, <1>7, <1>8, <1>9, <1>10 DEF Rehearse, Approval

Works == [id : Prompt \cup {0}, dry : BOOLEAN, tool : Tools \cup {None}]

LEMMA RehearseGateTypes ==
  ASSUME TypeOK, Rehearse
  PROVE  GateType' /\ now' \in Works /\ published' \in Panel
<1>1. now \in Works /\ published \in Panel /\ GateType
  BY TypeParts DEF AgentType, Works
<1>2. ASSUME UNCHANGED <<gate, now, published>>
      PROVE  GateType' /\ now' \in Works /\ published' \in Panel
  BY <1>1, <1>2 DEF GateType, gate
<1>3. ASSUME NEW plan1 \in BOOLEAN, NEW card1 \in Nat, Publish(TRUE, plan1, card1)
      PROVE  published' \in Panel
  BY <1>3 DEF Publish, Panel
<1>4. ASSUME NEW to, Withdraw(to), read' \in 0 .. Len(presses)
      PROVE  GateType' /\ now' \in Works /\ published' \in Panel
  <2>1. published' \in Panel
    BY <1>3, <1>4 DEF Withdraw
  <2>2. QED
    BY <1>1, <1>4, <2>1 DEF GateType, Withdraw, Goto
<1>5. CASE \/ NextTurn /\ Within("ask", "calls")
           \/ EditCall \/ CommitCall \/ PlainCall \/ SaveCall
           \/ UNCHANGED run /\ Within("calls", "ask")
  BY <1>2, <1>5 DEF Within, Goto, EditCall, CommitCall, PlainCall, SaveCall
<1>6. CASE \E tool \in Tools : SystemCall(tool)
  <2>1. PICK tool \in Tools : SystemCall(tool)
    BY <1>6
  <2>2. now' \in Works
    BY <1>1, <2>1 DEF SystemCall, Works
  <2>3. lastId' \in Nat /\ pending' = lastId' /\ UNCHANGED <<presses, read>>
    BY <1>1, <2>1 DEF SystemCall, GateType
  <2>4. published' \in Panel
    BY <1>3, <2>1, <2>3 DEF SystemCall
  <2>5. GateType'
    BY <1>1, <2>3 DEF GateType
  <2>6. QED
    BY <2>2, <2>4, <2>5
<1>7. CASE CardShown
  BY <1>2, <1>7 DEF Within, Goto, CardShown
<1>8. CASE CardNotShown \/ StopWaiting
  <2>1. read' \in 0 .. Len(presses)
    BY <1>1, <1>8 DEF CardNotShown, StopWaiting, GateType
  <2>2. QED
    BY <1>4, <1>8, <2>1 DEF CardNotShown, StopWaiting
<1>9. CASE SkipDecision
  <2>1. read' \in 0 .. Len(presses)
    BY <1>1, <1>9 DEF SkipDecision, GateType
  <2>2. QED
    BY <1>1, <1>9, <2>1 DEF SkipDecision, Goto, GateType
<1>10. CASE TakeDecision
  <2>1. read' \in 0 .. Len(presses)
    BY <1>1, <1>10 DEF TakeDecision, GateType
  <2>2. QED
    BY <1>4, <1>10, <2>1 DEF TakeDecision
<1>11. CASE RunTool
  BY <1>2, <1>11 DEF RunTool, Within, Goto
<1>12. CASE ReconcileCall
  BY <1>2, <1>12 DEF ReconcileCall, Goto
<1>13. QED
  BY <1>5, <1>6, <1>7, <1>8, <1>9, <1>10, <1>11, <1>12 DEF Rehearse, Approval

LEMMA RehearseTypes ==
  ASSUME TypeOK, now.id \in Prompt, Rehearse
  PROVE  TypeOK'
<1>1. GateType' /\ now' \in Works /\ published' \in Panel
  BY RehearseGateTypes
<1>2. RunType'
  BY RehearseStep, LoopTypes
<1>3. LiveType'
  BY RehearseStep, TypeParts DEF LiveType
<1>4. PanelType'
  BY RehearseStep, TypeParts DEF PanelType
<1>5. AgentType'
  <2>1. pc' \in Busy
    BY RehearseStep DEF Moves, Busy
  <2>2. UNCHANGED <<over, given, cancel, rx>>
    BY RehearseStep
  <2>3. QED
    BY <1>1, <2>1, <2>2, TypeParts DEF AgentType, Works
<1>6. PreviewType' /\ TalkType'
  BY RehearseStep, SameTypes, TypeParts
<1>7. QED
  BY <1>1, <1>2, <1>3, <1>4, <1>5, <1>6, NextTypeParts

-----------------------------------------------------------------------------
(* The phases of a plan *)

LEMMA BreaksInside ==
  ASSUME NEW at \in Seq(Nat), NEW L \in Nat, Cuts(at, L)
  PROVE  \E n \in 0 .. Len(at) : \A i \in DOMAIN at : at[i] < L <=> i <= n
<1> DEFINE last == Len(at)
<1>1. DOMAIN at = 1 .. last /\ last \in Nat /\ \A i \in DOMAIN at : at[i] \in Nat
  OBVIOUS
<1>2. CASE last = 0
  BY <1>1, <1>2
<1>3. CASE last # 0 /\ at[last] < L
  <2>1. \A i \in DOMAIN at : at[i] < L <=> i <= last
    BY <1>1, <1>3 DEF Cuts
  <2>2. last \in 0 .. last
    BY <1>1
  <2>3. QED
    BY <2>1, <2>2
<1>4. CASE last # 0 /\ ~(at[last] < L)
  <2>1. ASSUME NEW i \in DOMAIN at PROVE at[i] < L <=> i <= last - 1
    <3>1. CASE i = last
      BY <1>1, <1>4, <3>1
    <3>2. CASE i # last
      <4>1. at[i] < at[last] /\ at[last] <= L
        BY <1>1, <1>4, <3>2 DEF Cuts
      <4>2. QED
        BY <1>1, <4>1, <3>2
    <3>3. QED
      BY <3>1, <3>2
  <2>2. last - 1 \in 0 .. last
    BY <1>1, <1>4
  <2>3. QED
    BY <2>1, <2>2
<1>5. QED
  BY <1>1, <1>2, <1>3, <1>4

(* A run of a numbered plan. *)
Consecutive(steps) == \A i \in 1 .. Len(steps) - 1 : steps[i + 1].nth = steps[i].nth + 1

SliceOf(steps, p, a, b) ==
  /\ p \in Seq(Step) /\ p # <<>> /\ Range(p) \subseteq Range(steps)
  /\ Consecutive(p) /\ p[1].nth = a /\ p[Len(p)].nth = b

LEMMA SliceOfPlan ==
  ASSUME NEW steps \in Seq(Step), Numbered(steps),
         NEW a \in 1 .. Len(steps), NEW b \in a .. Len(steps)
  PROVE  SliceOf(steps, SubSeq(steps, a, b), a, b)
<1> DEFINE p == SubSeq(steps, a, b)
<1>1. a \in Nat /\ b \in Nat /\ a <= b /\ \A i \in a .. b : i \in DOMAIN steps /\ steps[i] \in Step
  OBVIOUS
<1>2. /\ p \in Seq(Step) /\ Len(p) = b - a + 1
      /\ \A i \in 1 .. b - a + 1 : p[i] = steps[a + i - 1]
  BY <1>1, SubSeqProperties
<1>3. \A i \in 1 .. Len(p) : p[i].nth = a + i - 1
  BY <1>1, <1>2 DEF Numbered
<1>4. Range(p) \subseteq Range(steps)
  BY <1>1, <1>2 DEF Range
<1>5. p # <<>>
  BY <1>1, <1>2
<1> HIDE DEF p
<1>6. Consecutive(p) /\ p[1].nth = a /\ p[Len(p)].nth = b
  <2>0. Len(p) \in Nat \ {0}
    BY <1>1, <1>2
  <2>1. ASSUME NEW i \in 1 .. Len(p) - 1
        PROVE  p[i + 1].nth = p[i].nth + 1
    <3>1. i \in 1 .. Len(p) /\ i + 1 \in 1 .. Len(p) /\ i \in Nat
      BY <2>0
    <3>2. p[i].nth = a + i - 1 /\ p[i + 1].nth = a + (i + 1) - 1
      BY <1>3, <3>1
    <3>3. QED
      BY <1>1, <3>1, <3>2
  <2>2. p[1].nth = a + 1 - 1 /\ p[Len(p)].nth = a + Len(p) - 1
    BY <1>3, <2>0
  <2>3. QED
    BY <1>1, <1>2, <2>1, <2>2 DEF Consecutive
<1>7. SliceOf(steps, p, a, b)
  BY <1>2, <1>4, <1>5, <1>6 DEF SliceOf
<1>8. QED
  BY <1>7 DEF p

(* The phases cover the plan from its start, one behind the other. *)
LEMMA PhasesOfPlan ==
  ASSUME NEW steps \in Seq(Step), Numbered(steps), steps # <<>>,
         NEW at \in Seq(Nat), Cuts(at, Len(steps)),
         NEW phases, phases = Phases(steps, at)
  PROVE  /\ Len(phases) \in Nat /\ DOMAIN phases = 1 .. Len(phases)
         /\ \A k \in 1 .. Len(phases) :
              /\ phases[k] \in Seq(Step) /\ phases[k] # <<>> /\ Consecutive(phases[k])
              /\ Range(phases[k]) \subseteq Range(steps)
              /\ phases[k][1].nth > 1 =>
                   k > 1 /\ phases[k - 1][Len(phases[k - 1])].nth + 1 = phases[k][1].nth
<1> DEFINE inside == CHOOSE n \in 0 .. Len(at) : \A i \in DOMAIN at : at[i] < Len(steps) <=> i <= n
           from(i) == IF i = 1 THEN 1 ELSE at[i - 1] + 1
           to(i) == IF i > inside THEN Len(steps) ELSE at[i]
<1>1. inside \in 0 .. Len(at) /\ \A i \in DOMAIN at : at[i] < Len(steps) <=> i <= inside
  BY BreaksInside
<1>2. phases = [i \in 1 .. inside + 1 |-> SubSeq(steps, from(i), to(i))]
  BY DEF Phases
<1> HIDE DEF inside
<1>3. inside \in Nat /\ inside <= Len(at)
  BY <1>1
<1>4. ASSUME NEW i \in 1 .. inside + 1
      PROVE  from(i) \in 1 .. Len(steps) /\ to(i) \in from(i) .. Len(steps)
  <2>0. Len(steps) \in Nat \ {0} /\ DOMAIN at = 1 .. Len(at) /\ Len(at) \in Nat
    OBVIOUS
  <2>1. i # 1 => i - 1 \in DOMAIN at /\ at[i - 1] \in 1 .. Len(steps) /\ at[i - 1] < Len(steps)
    BY <1>1, <1>3, <2>0 DEF Cuts
  <2>2. i <= inside => i \in DOMAIN at /\ at[i] \in 1 .. Len(steps)
    <3>1. i <= inside => i \in 1 .. Len(at)
      BY <1>3, <2>0
    <3>2. QED
      BY <2>0, <3>1 DEF Cuts
  <2>3. i # 1 /\ i <= inside => at[i - 1] < at[i]
    BY <2>1, <2>2 DEF Cuts
  <2>4. QED
    BY <1>3, <2>0, <2>1, <2>2, <2>3
<1>5. ASSUME NEW i \in 1 .. inside + 1
      PROVE  SliceOf(steps, phases[i], from(i), to(i))
  <2>1. phases[i] = SubSeq(steps, from(i), to(i))
    BY <1>2
  <2>2. from(i) \in 1 .. Len(steps) /\ to(i) \in from(i) .. Len(steps)
    BY <1>4
  <2> HIDE DEF from, to
  <2>3. QED
    BY <2>1, <2>2, SliceOfPlan
<1>6. Len(phases) = inside + 1 /\ DOMAIN phases = 1 .. inside + 1
  BY <1>2, <1>3
<1>7. ASSUME NEW k \in 1 .. inside + 1, from(k) > 1
      PROVE  k > 1 /\ to(k - 1) + 1 = from(k)
  BY <1>3, <1>7
<1>8. ASSUME NEW k \in 1 .. inside + 1, phases[k][1].nth > 1
      PROVE  k > 1 /\ phases[k - 1][Len(phases[k - 1])].nth + 1 = phases[k][1].nth
  <2>1. k > 1 /\ to(k - 1) + 1 = from(k) /\ k - 1 \in 1 .. inside + 1
    BY <1>3, <1>5, <1>7, <1>8 DEF SliceOf
  <2>2. QED
    BY <1>5, <2>1 DEF SliceOf
<1>9. QED
  BY <1>3, <1>5, <1>6, <1>8 DEF SliceOf

-----------------------------------------------------------------------------
(* The chats on disk, and giving up a plan *)

Files == [Draft -> [Ids -> Seq(Prompt) \cup {None}]]

LEMMA SaveStep ==
  ASSUME TypeOK, NEW said \in Seq(Prompt), Save(said)
  PROVE  /\ chats' \in Files /\ newest' \in [Draft -> Ids \cup {None}]
         /\ torn' \subseteq Draft \X Ids /\ torn \subseteq torn'
         /\ \A d \in Draft, i \in Ids :
              <<d, i>> # <<draft, chat>> =>
                chats'[d][i] = chats[d][i] /\ (<<d, i>> \in torn' => <<d, i>> \in torn)
         /\ chat # None /\ <<draft, chat>> \notin torn' =>
              \/ chats'[draft][chat] = said
              \/ said = <<>> /\ ~lines /\ chats' = chats
<1>1. /\ chats \in Files /\ newest \in [Draft -> Ids \cup {None}] /\ torn \subseteq Draft \X Ids
      /\ draft \in Draft /\ chat \in Ids \cup {None}
  BY TypeParts DEF TalkType, Files
<1>2. CASE UNCHANGED disk /\ (chat = None \/ (said = <<>> /\ ~lines))
  BY <1>1, <1>2 DEF disk
<1>3. CASE /\ chat # None /\ chats' = [chats EXCEPT ![draft][chat] = said]
           /\ newest' = [newest EXCEPT ![draft] = chat] /\ torn' = torn
  <2>1. chats' \in Files /\ newest' \in [Draft -> Ids \cup {None}]
    BY <1>1, <1>3 DEF Files
  <2>2. chats'[draft][chat] = said
    BY <1>1, <1>3 DEF Files
  <2>3. \A d \in Draft, i \in Ids : <<d, i>> # <<draft, chat>> => chats'[d][i] = chats[d][i]
    BY <1>1, <1>3 DEF Files
  <2>4. QED
    BY <1>1, <1>3, <2>1, <2>2, <2>3
<1>4. CASE chat # None /\ torn' = torn \cup {<<draft, chat>>} /\ UNCHANGED <<chats, newest>>
  BY <1>1, <1>4
<1>5. QED
  BY <1>2, <1>3, <1>4 DEF Save

LEMMA AllocatedIds ==
  ASSUME NEW files, NEW i \in Allocated(files)
  PROVE  i = None \/ (i \in Ids /\ files[i] = None)
  BY DEF Allocated

LEMMA PromptsOfSteps ==
  ASSUME NEW steps \in Seq(Step)
  PROVE  PromptsOf(steps) \subseteq Prompt
<1>1. \A i \in DOMAIN steps : steps[i] \in Step
  OBVIOUS
<1>2. QED
  BY <1>1 DEF PromptsOf, Range, Step

LEMMA RestoredType ==
  ASSUME TypeOK
  PROVE  /\ Restored \in Seq(Prompt) /\ Loaded(checkpoint) \in Seq(Prompt)
         /\ Range(Restored) \subseteq Told
         /\ checkpoint # None => Loaded(checkpoint) = checkpoint /\ Restored = checkpoint
         /\ checkpoint = None => Restored = history
  BY TypeParts DEF PreviewType, TalkType, Restored, Loaded, Told

LEMMA GivenUp ==
  ASSUME TypeOK, GiveUpParked
  PROVE  /\ PreviewType' /\ parked' = <<>> /\ cuts' = <<>> /\ checkpoint' = None
         /\ given' = given \cup PromptsOf(parked) /\ over' = over \cup given'
         /\ given' \subseteq over' /\ over' \subseteq Prompt
<1>1. given \subseteq over /\ over \subseteq Prompt /\ PromptsOf(parked) \subseteq Prompt
  BY TypeParts, PromptsOfSteps DEF AgentType, PreviewType
<1>2. QED
  BY <1>1 DEF GiveUpParked, ClearPreview, PreviewType

-----------------------------------------------------------------------------
(* Types, as the thread takes a request *)

LEMMA HeadOfRequests ==
  ASSUME TypeOK, NEW type, Take(type)
  PROVE  /\ pc = "idle" /\ rx # <<>> /\ Head(rx) \in Requests /\ Head(rx).type = type
         /\ rx' = Tail(rx) /\ rx' \in Seq(Requests)
<1>1. rx \in Seq(Requests)
  BY TypeParts DEF AgentType
<1>2. QED
  BY <1>1, HeadTailProperties DEF Take

LEMMA PublishedType ==
  ASSUME TypeOK, NEW running \in BOOLEAN, NEW pl \in BOOLEAN, Publish(running, pl, 0)
  PROVE  published' \in Panel
  BY DEF Publish, Panel

LEMMA SettleTypes ==
  ASSUME TypeOK, NEW said \in Seq(Prompt), Settle(said), rx' \in Seq(Requests),
         given' \subseteq over', over' \subseteq Prompt
  PROVE  /\ LiveType' /\ GateType' /\ PanelType' /\ AgentType' /\ RunType'
         /\ chats' \in Files /\ newest' \in [Draft -> Ids \cup {None}] /\ torn' \subseteq Draft \X Ids
<1>1. published' \in Panel
  <2>1. published.running \in BOOLEAN
    BY TypeParts DEF AgentType, Panel
  <2>2. QED
    BY <2>1 DEF Settle, Publish, Panel
<1>2. AgentType'
  BY <1>1, TypeParts DEF Settle, AgentType
<1>3. LiveType' /\ GateType' /\ PanelType' /\ RunType'
  BY TypeParts, SameTypes DEF Settle
<1>4. QED
  BY <1>2, <1>3, SaveStep DEF Settle

LEMMA TakePromptTypes ==
  ASSUME TypeOK, TakePrompt
  PROVE  TypeOK'
<1>1. /\ Take("prompt") /\ pc' = "start" /\ cancel' = FALSE /\ lines' = TRUE
      /\ now' = [id |-> Head(rx).id, dry |-> Head(rx).dry, tool |-> None]
      /\ Publish(TRUE, FALSE, 0)
      /\ UNCHANGED <<live, gate, draft, disk, panel, run>>
  BY DEF TakePrompt
<1>2. rx' \in Seq(Requests) /\ Head(rx).id \in Prompt /\ Head(rx).dry \in BOOLEAN
  BY <1>1, HeadOfRequests DEF Requests
<1>3. LiveType' /\ GateType' /\ PanelType' /\ RunType'
  BY <1>1, TypeParts, SameTypes
<1>4. PreviewType' /\ given' \subseteq over' /\ over' \subseteq Prompt /\ history' \in Seq(Prompt)
  <2>1. PreviewType /\ given \subseteq over /\ over \subseteq Prompt /\ history \in Seq(Prompt)
    BY TypeParts DEF AgentType, TalkType
  <2>2. CASE checkpoint' = history /\ UNCHANGED <<history, parked, cuts, over, given>>
    BY <2>1, <2>2 DEF PreviewType
  <2>3. CASE history' = Restored /\ GiveUpParked
    BY <2>3, GivenUp, RestoredType
  <2>4. CASE UNCHANGED <<history, preview, over, given>>
    BY <2>1, <2>4, SameTypes
  <2>5. QED
    BY <2>2, <2>3, <2>4 DEF TakePrompt
<1>5. chat' \in Ids \cup {None}
  <2>1. chat \in Ids \cup {None}
    BY TypeParts DEF TalkType
  <2>2. QED
    BY <2>1, AllocatedIds DEF TakePrompt
<1>6. TalkType'
  <2>1. lines' \in BOOLEAN
    BY <1>1, Zenon
  <2>2. QED
    BY <1>1, <1>4, <1>5, <2>1, TypeParts DEF TalkType, disk
<1>7. AgentType'
  <2>1. cancel' \in BOOLEAN
    BY <1>1, Zenon
  <2>2. published' \in Panel
    BY <1>1, PublishedType
  <2>3. now' \in Works
    BY <1>1, <1>2 DEF Works
  <2>4. QED
    BY <1>1, <1>2, <1>4, <2>1, <2>2, <2>3 DEF AgentType, Works, Busy
<1>8. QED
  BY <1>3, <1>4, <1>6, <1>7, NextTypeParts

LEMMA TakeApplyTypes ==
  ASSUME TypeOK, TakeApply
  PROVE  TypeOK'
<1>1. /\ Take("apply") /\ Publish(published.running, FALSE, 0) /\ ClearPreview
      /\ plan' = parked /\ breaks' = cuts
      /\ pc' \in {"idle", "replay"}
      /\ UNCHANGED <<now, over, given, cancel, base, sandbox, mark, loop>>
      /\ UNCHANGED <<live, gate, talk, panel>>
  BY DEF TakeApply
<1>2. LiveType' /\ GateType' /\ PanelType' /\ TalkType'
  BY <1>1, TypeParts, SameTypes
<1>3. PreviewType'
  BY <1>1 DEF ClearPreview, PreviewType
<1>4. RunType'
  BY <1>1, TypeParts DEF RunType, PreviewType
<1>5. AgentType'
  <2>1. published.running \in BOOLEAN
    BY TypeParts DEF AgentType, Panel
  <2>2. published' \in Panel
    BY <1>1, <2>1, PublishedType
  <2>3. rx' \in Seq(Requests)
    BY <1>1, HeadOfRequests
  <2>4. QED
    BY <1>1, <2>2, <2>3, TypeParts DEF AgentType, Busy
<1>6. QED
  BY <1>2, <1>3, <1>4, <1>5, NextTypeParts

LEMMA TakeDiscardTypes ==
  ASSUME TypeOK, TakeDiscard
  PROVE  TypeOK'
<1>1. /\ Take("discard") /\ draft' = draft /\ chat' = chat
      /\ \/ Settle(history) /\ UNCHANGED <<history, lines, preview, over, given>>
         \/ Settle(Restored) /\ history' = Restored /\ lines' = TRUE /\ GiveUpParked
  BY DEF TakeDiscard
<1>2. rx' \in Seq(Requests) /\ Restored \in Seq(Prompt) /\ history \in Seq(Prompt)
  BY <1>1, HeadOfRequests, RestoredType, TypeParts DEF TalkType
<1>3. PreviewType' /\ given' \subseteq over' /\ over' \subseteq Prompt /\ history' \in Seq(Prompt)
  BY <1>1, <1>2, GivenUp, SameTypes, TypeParts DEF AgentType
<1>4. /\ LiveType' /\ GateType' /\ PanelType' /\ AgentType' /\ RunType'
      /\ chats' \in Files /\ newest' \in [Draft -> Ids \cup {None}] /\ torn' \subseteq Draft \X Ids
  BY <1>1, <1>2, <1>3, SettleTypes
<1>5. lines' \in BOOLEAN
  <2>1. lines \in BOOLEAN
    BY TypeParts DEF TalkType
  <2>2. QED
    BY <1>1, <2>1, Zenon
<1>6. TalkType'
  BY <1>1, <1>3, <1>4, <1>5, TypeParts DEF TalkType, Files
<1>7. QED
  BY <1>3, <1>4, <1>6, NextTypeParts

LEMMA TakeNewChatTypes ==
  ASSUME TypeOK, TakeNewChat
  PROVE  TypeOK'
<1>1. /\ Take("new") /\ Settle(Restored) /\ GiveUpParked /\ draft' = draft
      /\ chat' \in Allocated(chats'[draft]) /\ history' = <<>> /\ lines' = FALSE
  BY DEF TakeNewChat
<1>2. rx' \in Seq(Requests) /\ Restored \in Seq(Prompt)
  BY <1>1, HeadOfRequests, RestoredType
<1>3. PreviewType' /\ given' \subseteq over' /\ over' \subseteq Prompt
  BY <1>1, GivenUp
<1>4. /\ LiveType' /\ GateType' /\ PanelType' /\ AgentType' /\ RunType'
      /\ chats' \in Files /\ newest' \in [Draft -> Ids \cup {None}] /\ torn' \subseteq Draft \X Ids
  BY <1>1, <1>2, <1>3, SettleTypes
<1>5. chat' \in Ids \cup {None} /\ history' \in Seq(Prompt)
  BY <1>1, AllocatedIds
<1>6. lines' \in BOOLEAN
  BY <1>1, Zenon
<1>7. TalkType'
  BY <1>1, <1>4, <1>5, <1>6, TypeParts DEF TalkType, Files
<1>8. QED
  BY <1>3, <1>4, <1>7, NextTypeParts

LEMMA LoadedType ==
  ASSUME NEW files \in Files, NEW d \in Draft, NEW i \in Ids
  PROVE  Loaded(files[d][i]) \in Seq(Prompt)
<1>1. files[d][i] \in Seq(Prompt) \cup {None}
  BY DEF Files
<1>2. QED
  BY <1>1 DEF Loaded

LEMMA TakeSelectChatTypes ==
  ASSUME TypeOK, TakeSelectChat
  PROVE  TypeOK'
<1> DEFINE id == Head(rx).id
<1>1. Take("select") /\ id \in Ids /\ rx' \in Seq(Requests)
  <2>1. Take("select")
    BY DEF TakeSelectChat
  <2>2. QED
    BY <2>1, HeadOfRequests DEF Requests
<1>2. CASE UNCHANGED <<pc, now, published, over, given, cancel, live, gate, preview, talk, panel, run>>
  <2>1. AgentType'
    BY <1>1, <1>2, TypeParts DEF AgentType
  <2>2. QED
    BY <1>2, <2>1, TypeParts, SameTypes, NextTypeParts
<1>3. CASE /\ GiveUpParked /\ Settle(Restored) /\ draft' = draft
           /\ \/ /\ chat' = id /\ history' = Loaded(chats'[draft][id])
                 /\ lines' = (chats'[draft][id] # None)
              \/ chat' = chat /\ history' = Restored /\ lines' = TRUE
  <2>1. Restored \in Seq(Prompt)
    BY RestoredType
  <2>2. PreviewType' /\ given' \subseteq over' /\ over' \subseteq Prompt
    BY <1>3, GivenUp
  <2>3. /\ LiveType' /\ GateType' /\ PanelType' /\ AgentType' /\ RunType'
        /\ chats' \in Files /\ newest' \in [Draft -> Ids \cup {None}] /\ torn' \subseteq Draft \X Ids
    BY <1>1, <1>3, <2>1, <2>2, SettleTypes
  <2>4. draft \in Draft /\ chat \in Ids \cup {None}
    BY TypeParts DEF TalkType
  <2>5. chat' \in Ids \cup {None} /\ history' \in Seq(Prompt)
    BY <1>1, <1>3, <2>1, <2>3, <2>4, LoadedType
  <2>6. lines' \in BOOLEAN
    BY <1>3, Zenon
  <2>7. TalkType'
    BY <1>3, <2>3, <2>4, <2>5, <2>6 DEF TalkType, Files
  <2>8. QED
    BY <2>2, <2>3, <2>7, NextTypeParts
<1>4. QED
  BY <1>2, <1>3 DEF TakeSelectChat

LEMMA TakeSwitchTypes ==
  ASSUME TypeOK, TakeSwitch
  PROVE  TypeOK'
<1>1. /\ Take("switch") /\ GiveUpParked /\ Settle(Restored) /\ draft' = Head(rx).to
      /\ \/ /\ newest'[draft'] # None /\ chat' = newest'[draft']
            /\ history' \in {Loaded(chats'[draft'][chat']), <<>>} /\ lines' = TRUE
         \/ /\ chat' \in Allocated(chats'[draft'])
            /\ history' = <<>> /\ lines' \in {TRUE, newest'[draft'] # None}
  BY DEF TakeSwitch
<1>2. rx' \in Seq(Requests) /\ Restored \in Seq(Prompt) /\ draft' \in Draft
  BY <1>1, HeadOfRequests, RestoredType DEF Requests
<1>3. PreviewType' /\ given' \subseteq over' /\ over' \subseteq Prompt
  BY <1>1, GivenUp
<1>4. /\ LiveType' /\ GateType' /\ PanelType' /\ AgentType' /\ RunType'
      /\ chats' \in Files /\ newest' \in [Draft -> Ids \cup {None}] /\ torn' \subseteq Draft \X Ids
  BY <1>1, <1>2, <1>3, SettleTypes
<1>5. lines' \in BOOLEAN
  BY <1>1, Zenon
<1>6. chat' \in Ids \cup {None} /\ history' \in Seq(Prompt)
  <2>1. newest'[draft'] \in Ids \cup {None}
    BY <1>2, <1>4
  <2>2. CASE /\ newest'[draft'] # None /\ chat' = newest'[draft']
             /\ history' \in {Loaded(chats'[draft'][chat']), <<>>}
    <3>1. chat' \in Ids
      BY <2>1, <2>2
    <3>2. Loaded(chats'[draft'][chat']) \in Seq(Prompt)
      BY <1>2, <1>4, <3>1, LoadedType
    <3>3. history' \in Seq(Prompt)
      <4>1. <<>> \in Seq(Prompt)
        OBVIOUS
      <4>2. QED
        BY <2>2, <3>2, <4>1, Zenon
    <3>4. QED
      BY <3>1, <3>3
  <2>3. CASE chat' \in Allocated(chats'[draft']) /\ history' = <<>>
    BY <2>3, AllocatedIds
  <2>4. QED
    BY <1>1, <2>2, <2>3
<1>7. TalkType'
  BY <1>2, <1>4, <1>5, <1>6 DEF TalkType, Files
<1>8. QED
  BY <1>3, <1>4, <1>7, NextTypeParts

LEMMA TakeTypes ==
  ASSUME TypeOK, TakeRequest
  PROVE  TypeOK'
  BY TakePromptTypes, TakeApplyTypes, TakeDiscardTypes, TakeNewChatTypes, TakeSelectChatTypes,
     TakeSwitchTypes DEF TakeRequest

-----------------------------------------------------------------------------
(* Types, as a prompt starts and ends *)

(* The three ways a prompt starts. *)
LEMMA StartCases ==
  ASSUME StartPrompt
  PROVE  /\ pc = "start" /\ pc' \in {"end", "ask"}
         /\ UNCHANGED <<live, gate, talk, panel, now, published, over, given, cancel, rx, parked, checkpoint>>
         /\ \/ pc' = "end" /\ UNCHANGED <<cuts, run>>
            \/ pc' = "ask" /\ parked # <<>> /\ Continue(parked) /\ StartLoop /\ UNCHANGED cuts
            \/ pc' = "ask" /\ parked = <<>> /\ Reset(open) /\ StartLoop /\ cuts' = <<>>
  BY DEF StartPrompt, Within, Goto, preview

LEMMA StartTypes ==
  ASSUME TypeOK, StartPrompt
  PROVE  TypeOK'
<1>1. LiveType' /\ GateType' /\ PanelType' /\ TalkType'
  BY StartCases, TypeParts, SameTypes
<1>2. AgentType'
  <2>1. pc' \in Busy
    BY StartCases DEF Busy
  <2>2. UNCHANGED <<now, published, over, given, cancel, rx>>
    BY StartCases
  <2>3. QED
    BY <2>1, <2>2, TypeParts DEF AgentType
<1>3. PreviewType'
  BY StartCases, TypeParts DEF PreviewType
<1>4. RunType'
  <2>1. RunType /\ PreviewType /\ open \in Draft
    BY TypeParts DEF LiveType
  <2>2. CASE UNCHANGED run
    BY <2>1, <2>2, SameTypes
  <2>3. CASE Continue(parked) /\ StartLoop
    BY <2>1, <2>3 DEF Continue, StartLoop, RunType, PreviewType, Fresh
  <2>4. CASE Reset(open) /\ StartLoop
    BY <2>1, <2>4 DEF Reset, StartLoop, RunType, Fresh
  <2>5. QED
    BY <2>2, <2>3, <2>4, StartCases
<1>5. QED
  BY <1>1, <1>2, <1>3, <1>4, NextTypeParts

(* What an aborted prompt leaves. *)
LEMMA AbortLeaves ==
  ASSUME TypeOK, MirrorInv, AbortStep
  PROVE  sandbox' = parked
  BY DEF AbortStep, Abort, RollBackGroup, MirrorInv, Rehearsing

LEMMA AbortTypes ==
  ASSUME TypeOK, MirrorInv, NowInv, AbortStep
  PROVE  TypeOK'
<1>1. /\ pc' = "end" /\ over' = over \cup {now.id} /\ Publish(TRUE, parked # <<>>, 0)
      /\ UNCHANGED <<now, given, cancel, rx, live, gate, preview, talk, panel>>
      /\ UNCHANGED <<base, mark, plan, breaks, loop>>
  BY DEF AbortStep, Abort, RollBackGroup
<1>2. LiveType' /\ GateType' /\ PanelType' /\ PreviewType' /\ TalkType'
  BY <1>1, TypeParts, SameTypes
<1>3. RunType'
  BY <1>1, AbortLeaves, TypeParts DEF RunType, PreviewType
<1>4. AgentType'
  <2>1. (parked # <<>>) \in BOOLEAN
    OBVIOUS
  <2>2. published' \in Panel
    BY <1>1, <2>1, PublishedType
  <2>3. now.id \in Prompt
    BY DEF NowInv, AbortStep, Prompting, Rehearsing
  <2>4. QED
    BY <1>1, <2>2, <2>3, TypeParts DEF AgentType, Busy
<1>5. QED
  BY <1>2, <1>3, <1>4, NextTypeParts

(* The two ways a prompt keeps its edits. *)
LEMMA FinishCases ==
  ASSUME FinishStep
  PROVE  /\ pc \in {"ask", "calls"} /\ history' = Append(history, now.id)
         /\ UNCHANGED <<checkpoint, now, over, given, cancel, rx, live, gate, panel, run, lines, draft, chat, disk>>
         /\ \/ /\ now.dry /\ parked' = plan /\ pc' = "end"
               /\ cuts' = cuts \o [i \in DOMAIN breaks |-> Len(parked) + breaks[i]]
               /\ Publish(TRUE, plan # <<>>, 0)
            \/ /\ ~now.dry /\ pc' = (IF plan = <<>> THEN "end" ELSE "replay")
               /\ UNCHANGED <<parked, cuts, published>>
  BY DEF FinishStep, Finish

LEMMA ShiftedType ==
  ASSUME NEW at \in Seq(Nat), NEW n \in Nat
  PROVE  /\ [i \in DOMAIN at |-> n + at[i]] \in Seq(Nat)
         /\ Len([i \in DOMAIN at |-> n + at[i]]) = Len(at)
<1>1. DOMAIN at = 1 .. Len(at) /\ Len(at) \in Nat /\ \A i \in DOMAIN at : at[i] \in Nat
  OBVIOUS
<1> DEFINE s == [i \in 1 .. Len(at) |-> n + at[i]]
<1>2. s \in Seq(Nat) /\ Len(s) = Len(at)
  BY <1>1
<1>3. QED
  BY <1>1, <1>2

LEMMA FinishTypes ==
  ASSUME TypeOK, NowInv, FinishStep
  PROVE  TypeOK'
<1>1. LiveType' /\ GateType' /\ PanelType' /\ RunType'
  BY FinishCases, TypeParts, SameTypes
<1>2. TalkType'
  <2>1. history \in Seq(Prompt) /\ now.id \in Prompt
    BY TypeParts, FinishCases DEF TalkType, NowInv, Prompting, Rehearsing
  <2>2. history' \in Seq(Prompt)
    BY <2>1, FinishCases, AppendType
  <2>3. QED
    BY <2>2, FinishCases, TypeParts DEF TalkType, disk
<1>3. PreviewType'
  <2>1. /\ parked \in Seq(Step) /\ plan \in Seq(Step) /\ cuts \in Seq(Nat) /\ breaks \in Seq(Nat)
        /\ checkpoint \in Seq(Prompt) \cup {None}
    BY TypeParts DEF PreviewType, RunType
  <2> DEFINE more == [i \in DOMAIN breaks |-> Len(parked) + breaks[i]]
  <2>2. more \in Seq(Nat)
    BY <2>1, ShiftedType
  <2> HIDE DEF more
  <2>3. cuts \o more \in Seq(Nat)
    BY <2>1, <2>2
  <2>4. parked' \in Seq(Step) /\ cuts' \in Seq(Nat)
    BY <2>1, <2>3, FinishCases DEF more
  <2>5. QED
    BY <2>1, <2>4, FinishCases DEF PreviewType
<1>4. AgentType'
  <2>1. (plan # <<>>) \in BOOLEAN
    OBVIOUS
  <2>2. published' \in Panel
    BY <2>1, FinishCases, PublishedType, TypeParts DEF AgentType
  <2>3. pc' \in Busy
    BY FinishCases DEF Busy
  <2>4. QED
    BY <2>2, <2>3, FinishCases, TypeParts DEF AgentType
<1>5. QED
  BY <1>1, <1>2, <1>3, <1>4, NextTypeParts

(* What a replay lands: the first phases of the plan. *)
LEMMA ReplayLands ==
  ASSUME TypeOK, PhaseInv, Replay
  PROVE  LET phases == Phases(plan, breaks) IN
           \E n \in 0 .. Len(phases) :
             /\ landed' = landed \o [i \in 1 .. n |-> [on |-> open, steps |-> phases[i]]]
             /\ \A i \in 1 .. n : [on |-> open, steps |-> phases[i]] \in Group
             /\ Len(phases) \in Nat
<1> DEFINE phases == Phases(plan, breaks)
<1>1. /\ plan \in Seq(Step) /\ breaks \in Seq(Nat) /\ open \in Draft
      /\ plan # <<>> /\ Numbered(plan) /\ Cuts(breaks, Len(plan))
  BY TypeParts DEF RunType, LiveType, PhaseInv, Replay
<1>2. Len(phases) \in Nat /\ \A k \in 1 .. Len(phases) : phases[k] \in Seq(Step)
  BY <1>1, PhasesOfPlan
<1>3. PICK n \in 0 .. Len(phases) :
        landed' = landed \o [i \in 1 .. n |-> [on |-> open, steps |-> phases[i]]]
  BY DEF Replay
<1> HIDE DEF phases
<1>4. \A i \in 1 .. n : [on |-> open, steps |-> phases[i]] \in Group
  BY <1>1, <1>2, <1>3 DEF Group
<1>5. QED
  BY <1>2, <1>3, <1>4 DEF phases

LEMMA ReplayFrame ==
  ASSUME Replay
  PROVE  /\ pc = "replay" /\ pc' = "end" /\ over' = over \cup PromptsOf(plan)
         /\ UNCHANGED <<open, opens, now, published, given, cancel, rx, gate, preview, talk, panel, run>>
  BY DEF Replay

LEMMA ReplayTypes ==
  ASSUME TypeOK, PhaseInv, Replay
  PROVE  TypeOK'
<1>1. GateType' /\ PanelType' /\ PreviewType' /\ TalkType' /\ RunType'
  BY ReplayFrame, TypeParts, SameTypes
<1>2. LiveType'
  <2> DEFINE phases == Phases(plan, breaks)
  <2>1. PICK n \in 0 .. Len(phases) :
          /\ landed' = landed \o [i \in 1 .. n |-> [on |-> open, steps |-> phases[i]]]
          /\ \A i \in 1 .. n : [on |-> open, steps |-> phases[i]] \in Group
          /\ Len(phases) \in Nat
    BY ReplayLands
  <2> DEFINE more == [i \in 1 .. n |-> [on |-> open, steps |-> phases[i]]]
  <2>2. n \in Nat
    BY <2>1
  <2> HIDE DEF phases
  <2>3. more \in Seq(Group)
    BY <2>1, <2>2
  <2> HIDE DEF more
  <2>4. landed \in Seq(Group)
    BY TypeParts DEF LiveType
  <2>5. landed \o more \in Seq(Group)
    BY <2>3, <2>4
  <2>6. landed' \in Seq(Group)
    BY <2>1, <2>5 DEF more
  <2>7. QED
    BY <2>6, ReplayFrame, TypeParts DEF LiveType
<1>3. AgentType'
  <2>1. PromptsOf(plan) \subseteq Prompt
    BY PromptsOfSteps, TypeParts DEF RunType
  <2>2. QED
    BY <2>1, ReplayFrame, TypeParts DEF AgentType, Busy
<1>4. QED
  BY <1>1, <1>2, <1>3, NextTypeParts

LEMMA EndFrame ==
  ASSUME EndRequest
  PROVE  /\ pc = "end" /\ pc' = "idle" /\ Save(history) /\ Publish(FALSE, published.plan, 0)
         /\ now' = Nothing /\ plan' = <<>> /\ breaks' = <<>> /\ loop' = Fresh /\ mark' = 0
         /\ sandbox' = (IF parked = <<>> THEN <<>> ELSE sandbox)
         /\ UNCHANGED <<base, over, given, cancel, rx, history, lines, draft, chat, live, gate, preview, panel>>
  BY DEF EndRequest

LEMMA EndTypes ==
  ASSUME TypeOK, EndRequest
  PROVE  TypeOK'
<1>1. LiveType' /\ GateType' /\ PanelType' /\ PreviewType'
  BY EndFrame, TypeParts, SameTypes
<1>2. TalkType'
  <2>1. history \in Seq(Prompt)
    BY TypeParts DEF TalkType
  <2>2. /\ chats' \in Files /\ newest' \in [Draft -> Ids \cup {None}]
        /\ torn' \subseteq Draft \X Ids
    BY <2>1, EndFrame, SaveStep
  <2>3. QED
    BY <2>2, EndFrame, TypeParts DEF TalkType, Files
<1>3. RunType'
  <2>1. RunType
    BY TypeParts
  <2>2. /\ base' = base /\ mark' = 0 /\ plan' = <<>> /\ breaks' = <<>>
        /\ sandbox' = <<>> \/ sandbox' = sandbox
    BY EndFrame
  <2>3. loop' \in Loops
    BY EndFrame DEF Fresh, Loops
  <2>4. sandbox' \in Seq(Step) /\ plan' \in Seq(Step) /\ breaks' \in Seq(Nat)
    <3>1. sandbox \in Seq(Step) /\ <<>> \in Seq(Step) /\ <<>> \in Seq(Nat)
      BY <2>1 DEF RunType
    <3>2. QED
      BY <2>2, <3>1, Zenon
  <2>5. QED
    BY <2>1, <2>2, <2>3, <2>4 DEF RunType, Loops
<1>4. AgentType'
  <2>1. published.plan \in BOOLEAN
    BY TypeParts DEF AgentType, Panel
  <2>2. published' \in Panel
    BY <2>1, EndFrame, PublishedType
  <2>3. now' \in Works
    <3>1. now' = [id |-> 0, dry |-> FALSE, tool |-> None]
      BY EndFrame DEF Nothing
    <3>2. QED
      BY <3>1 DEF Works
  <2>4. QED
    BY <2>2, <2>3, EndFrame, TypeParts DEF AgentType, Works
<1>5. QED
  BY <1>1, <1>2, <1>3, <1>4, NextTypeParts

LEMMA TypeStep ==
  ASSUME IInv, [Next]_vars
  PROVE  TypeOK'
<1>1. TypeOK /\ NowInv /\ MirrorInv /\ PhaseInv
  BY DEF IInv, SessionInv
<1>2. CASE UNCHANGED vars
  BY <1>1, <1>2, TypeParts, SameTypes, NextTypeParts DEF vars
<1>3. CASE Rehearse
  <2>1. pc \in Prompting
    BY <1>1, <1>3, RehearseStep DEF Moves, Prompting, Rehearsing
  <2>2. QED
    BY <1>1, <1>3, <2>1, RehearseTypes DEF NowInv
<1>4. QED
  BY <1>1, <1>2, <1>3, NextCases, OutsideTypes, StartTypes, AbortTypes, FinishTypes, ReplayTypes,
     EndTypes, TakeTypes

-----------------------------------------------------------------------------
(* The approval gate *)

Gated == {"card", "wait", "tool"}

LEMMA GateKept ==
  ASSUME GateInv, pc \notin {"card", "wait"}, pc' \notin Gated,
         UNCHANGED <<presses, read, pending, lastId>>
  PROVE  GateInv'
  BY DEF GateInv, Gated

LEMMA GateStays ==
  ASSUME GateInv, pc' = pc, UNCHANGED <<presses, read, pending, lastId>>
  PROVE  GateInv'
  BY DEF GateInv

LEMMA GateOutside ==
  ASSUME TypeOK, GateInv, Outside
  PROVE  GateInv'
<1>1. Pressed /\ UNCHANGED <<read, pending, lastId, pc>>
  BY OutsideStep
<1>2. CASE presses' = presses
  BY <1>1, <1>2, GateStays
<1>3. CASE \E p \in Press : presses' = Append(presses, p) /\ p.id = pending /\ pending # 0
  <2>1. PICK p \in Press : presses' = Append(presses, p) /\ p.id = pending /\ pending # 0
    BY <1>3
  <2>2. presses \in Seq(Press) /\ read \in 0 .. Len(presses) /\ Len(presses) \in Nat /\ lastId \in Nat
    BY TypeParts DEF GateType
  <2>3. /\ DOMAIN presses = 1 .. Len(presses) /\ DOMAIN presses' = 1 .. Len(presses) + 1
        /\ presses'[Len(presses) + 1] = p /\ \A i \in DOMAIN presses : presses'[i] = presses[i]
    BY <2>1, <2>2
  <2>4. pc \in {"card", "wait"} /\ pending = lastId
    BY <2>1 DEF GateInv
  <2>5. \A i \in DOMAIN presses' : presses'[i].id \in 1 .. lastId'
    BY <1>1, <2>1, <2>2, <2>3, <2>4 DEF GateInv
  <2>6. \A i \in 1 .. read : presses'[i].id # lastId
    BY <2>2, <2>3, <2>4 DEF GateInv
  <2>7. QED
    BY <1>1, <2>1, <2>4, <2>5, <2>6 DEF GateInv
<1>4. QED
  BY <1>1, <1>2, <1>3 DEF Pressed

LEMMA GateRehearse ==
  ASSUME TypeOK, GateInv, Rehearse
  PROVE  GateInv'
<1> USE DEF Gated
<1>0. /\ presses' = presses /\ presses \in Seq(Press) /\ read \in 0 .. Len(presses)
      /\ Len(presses) \in Nat /\ lastId \in Nat /\ DOMAIN presses = 1 .. Len(presses)
  BY RehearseStep, TypeParts DEF GateType
<1>1. CASE \/ NextTurn /\ Within("ask", "calls")
           \/ EditCall \/ CommitCall \/ PlainCall \/ SaveCall
           \/ UNCHANGED run /\ Within("calls", "ask")
  <2>1. pc \notin Gated /\ pc' \notin Gated /\ UNCHANGED gate
    BY <1>1 DEF Within, Goto, EditCall, CommitCall, PlainCall, SaveCall
  <2>2. QED
    BY <2>1, GateKept DEF gate
<1>2. CASE \E tool \in Tools : SystemCall(tool)
  <2>1. /\ pc = "calls" /\ pc' = "card" /\ lastId' = lastId + 1 /\ pending' = lastId'
        /\ read' = read
    BY <1>2 DEF SystemCall
  <2>2. \A i \in 1 .. read : presses[i].id # lastId + 1
    BY <1>0 DEF GateInv
  <2>3. QED
    BY <1>0, <2>1, <2>2 DEF GateInv
<1>3. CASE CardShown
  <2>1. pc = "card" /\ pc' = "wait" /\ UNCHANGED gate
    BY <1>3 DEF CardShown, Within, Goto
  <2>2. QED
    BY <2>1 DEF GateInv, gate
<1>4. CASE CardNotShown \/ StopWaiting
  <2>1. pc' = "calls" /\ pending' = 0 /\ lastId' = lastId
    BY <1>4 DEF CardNotShown, StopWaiting, Withdraw, Goto
  <2>2. QED
    BY <1>0, <2>1 DEF GateInv
<1>5. CASE SkipDecision
  <2>1. /\ pc = "wait" /\ pc' = "wait" /\ read' = read + 1 /\ read < Len(presses)
        /\ presses[read + 1].id # pending /\ UNCHANGED <<pending, lastId>>
    BY <1>5 DEF SkipDecision, Goto
  <2>2. pending = lastId /\ \A i \in 1 .. read : presses[i].id # lastId
    BY <2>1 DEF GateInv
  <2>3. \A i \in 1 .. read + 1 : presses[i].id # lastId
    BY <1>0, <2>1, <2>2
  <2>4. QED
    BY <1>0, <2>1, <2>3 DEF GateInv
<1>6. CASE TakeDecision
  <2>1. /\ pc = "wait" /\ read' = read + 1 /\ read < Len(presses)
        /\ presses[read + 1].id = pending /\ pending' = 0 /\ lastId' = lastId
        /\ pc' = (IF presses[read + 1].ok /\ ~cancel THEN "tool" ELSE "calls")
    BY <1>6 DEF TakeDecision, Withdraw, Goto
  <2>2. pending = lastId /\ \A i \in 1 .. read : presses[i].id # lastId
    BY <2>1 DEF GateInv
  <2>3. \A i \in DOMAIN presses' : presses'[i].id \in 1 .. lastId'
    BY <1>0, <2>1 DEF GateInv
  <2>4. pc' \notin {"card", "wait"}
    BY <2>1
  <2>5. ASSUME pc' = "tool"
        PROVE  /\ read' \in DOMAIN presses /\ presses[read'].id = lastId /\ presses[read'].ok
               /\ \A i \in 1 .. read' - 1 : presses[i].id # lastId
    <3>1. read + 1 \in 1 .. Len(presses) /\ (read + 1) - 1 = read
      BY <1>0, <2>1
    <3>2. presses[read + 1].ok
      BY <2>1, <2>5
    <3>3. QED
      BY <1>0, <2>1, <2>2, <3>1, <3>2
  <2>6. QED
    BY <1>0, <2>1, <2>3, <2>4, <2>5 DEF GateInv
<1>7. CASE RunTool
  <2>1. pc = "tool" /\ pc' \notin Gated /\ UNCHANGED gate
    BY <1>7 DEF RunTool, Within, Goto
  <2>2. QED
    BY <2>1, GateKept DEF gate
<1>8. CASE ReconcileCall
  <2>1. pc = "reconcile" /\ pc' = "calls" /\ UNCHANGED gate
    BY <1>8 DEF ReconcileCall, Goto
  <2>2. QED
    BY <2>1, GateKept DEF gate
<1>9. QED
  BY <1>1, <1>2, <1>3, <1>4, <1>5, <1>6, <1>7, <1>8 DEF Rehearse, Approval

(* Where the thread goes as it takes a request. *)
LEMMA TakeMoves ==
  ASSUME TakeRequest
  PROVE  /\ pc = "idle" /\ pc' \in {"idle", "start", "replay"} /\ UNCHANGED <<live, gate, panel>>
         /\ rx # <<>> /\ rx' = Tail(rx)
  BY DEF TakeRequest, TakePrompt, TakeApply, TakeDiscard, TakeNewChat, TakeSelectChat, TakeSwitch,
         Take, Settle

LEMMA GateStep ==
  ASSUME TypeOK, GateInv, [Next]_vars
  PROVE  GateInv'
<1> USE DEF gate, Gated
<1>1. CASE UNCHANGED vars
  BY <1>1, GateStays DEF vars, agent
<1>2. CASE StartPrompt
  BY <1>2, StartCases, GateKept
<1>3. CASE AbortStep
  BY <1>3, GateKept DEF AbortStep, Abort
<1>4. CASE FinishStep
  BY <1>4, FinishCases, GateKept
<1>5. CASE Replay
  BY <1>5, ReplayFrame, GateKept
<1>6. CASE EndRequest
  BY <1>6, EndFrame, GateKept
<1>7. CASE TakeRequest
  BY <1>7, TakeMoves, GateKept
<1>8. QED
  BY <1>1, <1>2, <1>3, <1>4, <1>5, <1>6, <1>7, NextCases, GateOutside, GateRehearse

LEMMA GateShows ==
  ASSUME TypeOK, GateInv
  PROVE  FirstPressDecides
<1>1. CASE pc = "tool"
  <2>1. /\ read \in DOMAIN presses /\ presses[read].id = lastId /\ presses[read].ok
        /\ \A i \in 1 .. read - 1 : presses[i].id # lastId
    BY <1>1 DEF GateInv
  <2>2. QED
    BY <2>1 DEF FirstPressDecides
<1>2. QED
  BY <1>1 DEF FirstPressDecides

-----------------------------------------------------------------------------
(* The prompts that are met *)

LEMMA Empties == Range(<<>>) = {} /\ PromptsOf(<<>>) = {} /\ Loaded(None) = <<>>
  BY DEF Range, PromptsOf, Loaded

LEMMA LoadedSaid ==
  ASSUME NEW said \in Seq(Prompt)
  PROVE  Loaded(said) = said /\ said # None
<1>1. said \in Seq(Nat)
  <2>1. Prompt \subseteq Nat
    BY DEF Prompt
  <2>2. QED
    BY <2>1, SeqMonotonic
<1>2. said # None
  BY <1>1, Bounds
<1>3. QED
  BY <1>2 DEF Loaded

LEMMA SaveFiles ==
  ASSUME TypeOK, NEW said \in Seq(Prompt), Save(said), NEW d \in Draft, NEW i \in Ids
  PROVE  chats'[d][i] = chats[d][i] \/ (<<d, i>> = <<draft, chat>> /\ chats'[d][i] = said)
<1>1. chats \in Files /\ draft \in Draft
  BY TypeParts DEF TalkType, Files
<1>2. chats' = chats \/ chats' = [chats EXCEPT ![draft][chat] = said]
  BY DEF Save, disk
<1>3. QED
  BY <1>1, <1>2 DEF Files

LEMMA FiledAfterSave ==
  ASSUME TypeOK, NEW said \in Seq(Prompt), Save(said)
  PROVE  Filed' \subseteq Filed \cup Range(said)
<1>1. ASSUME NEW d \in Draft, NEW i \in Ids
      PROVE  Range(Loaded(chats'[d][i])) \subseteq Filed \cup Range(said)
  <2>1. chats'[d][i] = chats[d][i] \/ chats'[d][i] = said
    BY SaveFiles
  <2>2. QED
    BY <2>1, LoadedSaid DEF Filed
<1>2. QED
  BY <1>1 DEF Filed

LEMMA MetNext ==
  ASSUME over' \subseteq Met, PromptsOf(parked') \subseteq Met, PromptsOf(plan') \subseteq Met,
         Range(history') \subseteq Met, Range(Loaded(checkpoint')) \subseteq Met, Filed' \subseteq Met
  PROVE  Met' \subseteq Met
  BY DEF Met, Told

LEMMA SettleMet ==
  ASSUME TypeOK, NEW said \in Seq(Prompt), Range(said) \subseteq Told, Settle(said)
  PROVE  Filed' \subseteq Met /\ PromptsOf(plan') \subseteq Met /\ now' = now
<1>1. Filed' \subseteq Filed \cup Range(said) /\ plan' = plan /\ now' = now
  BY FiledAfterSave DEF Settle, run
<1>2. QED
  BY <1>1 DEF Met

LEMMA GiveUpMet ==
  ASSUME TypeOK, GiveUpParked
  PROVE  /\ over' \subseteq Met /\ PromptsOf(parked') \subseteq Met
         /\ Range(Loaded(checkpoint')) \subseteq Met
<1>1. /\ parked' = <<>> /\ checkpoint' = None /\ given' = given \cup PromptsOf(parked)
      /\ over' = over \cup given' /\ given \subseteq over
  BY GivenUp, TypeParts DEF AgentType
<1>2. QED
  BY <1>1, Empties DEF Met

LEMMA TakePromptMet ==
  ASSUME TypeOK, TakePrompt
  PROVE  Met' \subseteq Met /\ now'.id = Head(rx).id
<1>1. /\ now' = [id |-> Head(rx).id, dry |-> Head(rx).dry, tool |-> None]
      /\ UNCHANGED <<disk, run>>
  BY DEF TakePrompt
<1>2. Filed' \subseteq Met /\ PromptsOf(plan') \subseteq Met
  BY <1>1 DEF Met, Filed, disk, run
<1>3. history \in Seq(Prompt) /\ Range(Restored) \subseteq Told
  BY RestoredType, TypeParts DEF TalkType
<1>4. CASE checkpoint' = history /\ UNCHANGED <<history, parked, cuts, over, given>>
  <2>1. Met' \subseteq Met
    BY <1>2, <1>3, <1>4, LoadedSaid, MetNext DEF Met, Told
  <2>2. QED
    BY <1>1, <2>1
<1>5. CASE history' = Restored /\ GiveUpParked
  <2>1. Met' \subseteq Met
    BY <1>2, <1>3, <1>5, GiveUpMet, MetNext DEF Met
  <2>2. QED
    BY <1>1, <2>1
<1>6. CASE UNCHANGED <<history, preview, over, given>>
  <2>1. Met' \subseteq Met
    BY <1>2, <1>6, MetNext DEF Met, Told, preview
  <2>2. QED
    BY <1>1, <2>1
<1>7. QED
  BY <1>4, <1>5, <1>6 DEF TakePrompt

LEMMA TakeMet ==
  ASSUME TypeOK, TakeRequest
  PROVE  Met' \subseteq Met /\ (now' = now \/ (TakePrompt /\ now'.id = Head(rx).id))
<1>1. CASE TakePrompt
  BY <1>1, TakePromptMet
<1>2. CASE TakeApply
  <2>1. plan' = parked /\ ClearPreview /\ UNCHANGED <<now, over, talk>>
    BY <1>2 DEF TakeApply
  <2>2. Filed' \subseteq Met /\ Range(history') \subseteq Met
    BY <2>1 DEF Met, Filed, Told, talk, disk
  <2>3. QED
    BY <2>1, <2>2, Empties, MetNext DEF Met, ClearPreview
<1>3. Restored \in Seq(Prompt) /\ Range(Restored) \subseteq Told /\ history \in Seq(Prompt)
      /\ Range(history) \subseteq Told
  BY RestoredType, TypeParts DEF TalkType, Told
<1>4. CASE TakeDiscard
  <2>1. CASE Settle(history) /\ UNCHANGED <<history, lines, preview, over, given>>
    <3>1. Filed' \subseteq Met /\ PromptsOf(plan') \subseteq Met /\ now' = now
      BY <1>3, <2>1, SettleMet
    <3>2. QED
      BY <2>1, <3>1, MetNext DEF Met, Told, preview
  <2>2. CASE Settle(Restored) /\ history' = Restored /\ GiveUpParked
    <3>1. Filed' \subseteq Met /\ PromptsOf(plan') \subseteq Met /\ now' = now
      BY <1>3, <2>2, SettleMet
    <3>2. QED
      BY <1>3, <2>2, <3>1, GiveUpMet, MetNext DEF Met
  <2>3. QED
    BY <1>4, <2>1, <2>2 DEF TakeDiscard
<1>5. ASSUME GiveUpParked, Settle(Restored), Range(history') \subseteq Told \cup Filed'
      PROVE  Met' \subseteq Met /\ now' = now
  <2>1. Filed' \subseteq Met /\ PromptsOf(plan') \subseteq Met /\ now' = now
    BY <1>3, <1>5, SettleMet
  <2>2. Range(history') \subseteq Met
    BY <1>5, <2>1 DEF Met
  <2>3. QED
    BY <1>5, <2>1, <2>2, GiveUpMet, MetNext
<1>6. CASE TakeNewChat
  BY <1>5, <1>6, Empties DEF TakeNewChat
<1>7. CASE TakeSelectChat
  <2>1. CASE UNCHANGED <<pc, now, published, over, given, cancel, live, gate, preview, talk, panel, run>>
    BY <2>1 DEF Met, Told, Filed, preview, talk, disk, run
  <2>2. CASE /\ GiveUpParked /\ Settle(Restored)
             /\ history' = Loaded(chats'[draft][Head(rx).id]) \/ history' = Restored
    <3>1. Head(rx).id \in Ids /\ draft \in Draft
      BY <1>7, HeadOfRequests, TypeParts DEF TakeSelectChat, Requests, TalkType
    <3>2. Range(Loaded(chats'[draft][Head(rx).id])) \subseteq Filed'
      BY <3>1 DEF Filed
    <3>3. QED
      BY <1>3, <1>5, <2>2, <3>2
  <2>3. QED
    BY <1>7, <2>1, <2>2 DEF TakeSelectChat
<1>8. CASE TakeSwitch
  <2>1. GiveUpParked /\ Settle(Restored) /\ draft' \in Draft
    BY <1>8, HeadOfRequests DEF TakeSwitch, Requests
  <2>2. Range(history') \subseteq Filed'
    <3>1. CASE history' = <<>>
      BY <3>1, Empties
    <3>2. CASE history' = Loaded(chats'[draft'][chat']) /\ newest'[draft'] # None /\ chat' = newest'[draft']
      <4>1. newest' \in [Draft -> Ids \cup {None}]
        BY <1>3, <2>1, SaveStep DEF Settle
      <4>2. chat' \in Ids
        BY <2>1, <3>2, <4>1
      <4>3. QED
        BY <2>1, <3>2, <4>2 DEF Filed
    <3>3. QED
      BY <1>8, <3>1, <3>2 DEF TakeSwitch
  <2>3. QED
    BY <1>5, <2>1, <2>2
<1>9. QED
  BY <1>1, <1>2, <1>4, <1>6, <1>7, <1>8 DEF TakeRequest

LEMMA BegunNumbers ==
  ASSUME TypeOK
  PROVE  Begun \subseteq Nat
<1>1. now.id \in Nat /\ over \subseteq Nat
  BY TypeParts DEF AgentType, Prompt
<1>2. PromptsOf(parked) \subseteq Nat /\ PromptsOf(plan) \subseteq Nat
  <2>1. PromptsOf(parked) \subseteq Prompt /\ PromptsOf(plan) \subseteq Prompt
    BY PromptsOfSteps, TypeParts DEF PreviewType, RunType
  <2>2. QED
    BY <2>1 DEF Prompt
<1>3. \A said \in Seq(Prompt) : Range(said) \subseteq Nat
  <2>1. ASSUME NEW said \in Seq(Prompt), NEW i \in DOMAIN said PROVE said[i] \in Nat
    <3>1. said[i] \in Prompt
      OBVIOUS
    <3>2. QED
      BY <3>1 DEF Prompt
  <2>2. QED
    BY <2>1 DEF Range
<1>4. Told \subseteq Nat
  BY <1>3, RestoredType, TypeParts DEF TalkType, Told
<1>5. Filed \subseteq Nat
  <2>1. ASSUME NEW d \in Draft, NEW i \in Ids PROVE Range(Loaded(chats[d][i])) \subseteq Nat
    BY <1>3, LoadedType, TypeParts DEF TalkType, Files
  <2>2. QED
    BY <2>1 DEF Filed
<1>6. QED
  BY <1>1, <1>2, <1>4, <1>5 DEF Begun, Met

(* No prompt but this one is begun, and no request was taken. *)
LEMMA FreshKept ==
  ASSUME TypeOK, FreshInv, Begun' \subseteq Begun \cup {0}, sent' = sent, rx' = rx
  PROVE  FreshInv'
<1>1. sent.prompts \in Nat /\ rx \in Seq(Requests)
  BY TypeParts DEF PanelType, AgentType
<1>2. \A i \in DOMAIN rx : IsPrompt(i) => rx[i].id \in Prompt
  BY <1>1 DEF IsPrompt, Requests
<1>3. \A i \in DOMAIN rx : IsPrompt(i) => 0 < rx[i].id
  BY <1>2 DEF Prompt
<1>4. (\A i : IsPrompt(i)' <=> IsPrompt(i))
  BY DEF IsPrompt
<1>5. \A p \in Begun' : p <= sent'.prompts
  BY <1>1 DEF FreshInv
<1>6. \A i \in DOMAIN rx' : IsPrompt(i)' => \A p \in Begun' : p < rx'[i].id
  BY <1>3, <1>4 DEF FreshInv
<1>7. QED
  BY <1>4, <1>5, <1>6 DEF FreshInv

LEMMA FreshOutside ==
  ASSUME TypeOK, FreshInv, Outside
  PROVE  FreshInv'
<1>1. Begun' = Begun /\ Asked
  BY OutsideStep DEF Begun, Met, Told, Filed, preview, talk, disk, run
<1>2. CASE rx' = rx /\ sent' = sent
  BY <1>1, <1>2, FreshKept
<1>3. ASSUME NEW r \in Requests, rx' = Append(rx, r),
             \/ r.type # "prompt" /\ sent'.prompts = sent.prompts
             \/ r.type = "prompt" /\ r.id = sent.prompts + 1 /\ sent'.prompts = sent.prompts + 1
      PROVE  FreshInv'
  <2>1. sent.prompts \in Nat /\ rx \in Seq(Requests) /\ Begun \subseteq Nat
    BY BegunNumbers, TypeParts DEF PanelType, AgentType
  <2>0. PICK n \in Nat \ {0} : n = Len(rx) + 1
    BY <2>1
  <2>2. /\ DOMAIN rx = 1 .. n - 1 /\ DOMAIN rx' = 1 .. n /\ rx'[n] = r
        /\ \A i \in DOMAIN rx : rx'[i] = rx[i]
    BY <1>3, <2>0, <2>1
  <2>3. /\ \A i \in DOMAIN rx : IsPrompt(i)' <=> IsPrompt(i)
        /\ IsPrompt(n)' <=> r.type = "prompt"
    BY <2>2 DEF IsPrompt
  <2>4. sent'.prompts >= sent.prompts /\ sent'.prompts \in Nat
    BY <1>3, <2>1
  <2>5. \A p \in Begun' : p <= sent'.prompts
    BY <1>1, <2>1, <2>4 DEF FreshInv
  <2>6. ASSUME NEW i \in DOMAIN rx, IsPrompt(i)'
        PROVE  /\ rx'[i].id <= sent'.prompts
               /\ \A p \in Begun' : p < rx'[i].id
               /\ \A j \in DOMAIN rx' : j < i /\ IsPrompt(j)' => rx'[j].id < rx'[i].id
    <3>1. IsPrompt(i) /\ rx'[i] = rx[i]
      BY <2>2, <2>3, <2>6
    <3>2. rx[i] \in Requests /\ rx[i].type = "prompt"
      BY <2>1, <3>1 DEF IsPrompt
    <3>3. rx[i].id \in Nat
      BY <3>2 DEF Requests, Prompt
    <3>4. rx[i].id <= sent'.prompts /\ \A p \in Begun' : p < rx[i].id
      BY <1>1, <2>1, <2>4, <3>1, <3>3 DEF FreshInv
    <3>5. ASSUME NEW j \in DOMAIN rx', j < i, IsPrompt(j)' PROVE rx'[j].id < rx[i].id
      <4>1. j \in DOMAIN rx
        BY <2>2, <3>5
      <4>2. QED
        BY <2>2, <2>3, <3>1, <3>5, <4>1 DEF FreshInv
    <3>6. QED
      BY <3>1, <3>4, <3>5
  <2>7. ASSUME IsPrompt(n)'
        PROVE  /\ rx'[n].id <= sent'.prompts
               /\ \A p \in Begun' : p < rx'[n].id
               /\ \A j \in DOMAIN rx' : j < n /\ IsPrompt(j)' => rx'[j].id < rx'[n].id
    <3>1. r.type = "prompt" /\ r.id = sent.prompts + 1 /\ sent'.prompts = sent.prompts + 1
      BY <1>3, <2>3, <2>7
    <3>2. \A p \in Begun' : p < r.id
      BY <1>1, <2>1, <3>1 DEF FreshInv
    <3>3. ASSUME NEW j \in DOMAIN rx', j < n, IsPrompt(j)' PROVE rx'[j].id < r.id
      <4>1. j \in DOMAIN rx /\ rx'[j] = rx[j] /\ IsPrompt(j)
        BY <2>2, <2>3, <3>3
      <4>2. rx[j] \in Requests /\ rx[j].type = "prompt"
        BY <2>1, <4>1 DEF IsPrompt
      <4>3. rx[j].id \in Nat /\ rx[j].id <= sent.prompts
        BY <4>1, <4>2 DEF FreshInv, Requests, Prompt
      <4>4. QED
        BY <2>1, <3>1, <4>1, <4>3
    <3>4. QED
      BY <2>1, <2>2, <3>1, <3>2, <3>3
  <2>8. \A i \in DOMAIN rx' : i \in DOMAIN rx \/ i = n
    BY <2>2
  <2>9. QED
    BY <2>5, <2>6, <2>7, <2>8 DEF FreshInv
<1>4. QED
  BY <1>1, <1>2, <1>3 DEF Asked

(* A request is taken, and its prompt begun. *)
LEMMA FreshTaken ==
  ASSUME TypeOK, FreshInv, TakeRequest
  PROVE  FreshInv'
<1>1. Met' \subseteq Met /\ rx # <<>> /\ rx' = Tail(rx) /\ sent' = sent
  BY TakeMet, TakeMoves DEF panel
<1>2. rx \in Seq(Requests) /\ sent.prompts \in Nat /\ Begun \subseteq Nat
  BY BegunNumbers, TypeParts DEF PanelType, AgentType
<1>3. /\ DOMAIN rx = 1 .. Len(rx) /\ Len(rx) \in Nat \ {0} /\ Head(rx) = rx[1]
      /\ DOMAIN rx' = 1 .. Len(rx) - 1 /\ \A i \in DOMAIN rx' : rx'[i] = rx[i + 1]
  BY <1>1, <1>2
<1>4. ASSUME NEW i \in DOMAIN rx'
      PROVE  i + 1 \in DOMAIN rx /\ i \in Nat /\ (IsPrompt(i)' <=> IsPrompt(i + 1)) /\ rx'[i] = rx[i + 1]
  BY <1>3 DEF IsPrompt
<1>5. now' = now \/ (now'.id = rx[1].id /\ IsPrompt(1))
  <2>1. TakePrompt => rx[1].type = "prompt" /\ 1 \in DOMAIN rx
    BY <1>3 DEF TakePrompt, Take
  <2>2. QED
    BY <1>3, <2>1, TakeMet DEF IsPrompt
<1>6. ASSUME NEW p \in Begun' PROVE p \in Begun \/ (IsPrompt(1) /\ p = rx[1].id)
  BY <1>1, <1>5 DEF Begun
<1>7. \A p \in Begun' : p <= sent'.prompts
  BY <1>1, <1>3, <1>6 DEF FreshInv
<1>8. ASSUME NEW i \in DOMAIN rx', IsPrompt(i)'
      PROVE  /\ rx'[i].id <= sent'.prompts
             /\ \A p \in Begun' : p < rx'[i].id
             /\ \A j \in DOMAIN rx' : j < i /\ IsPrompt(j)' => rx'[j].id < rx'[i].id
  <2>1. i + 1 \in DOMAIN rx /\ i \in Nat /\ IsPrompt(i + 1) /\ rx'[i] = rx[i + 1] /\ 1 < i + 1 /\ 1 \in DOMAIN rx
    BY <1>3, <1>4, <1>8
  <2>2. rx[i + 1].id <= sent.prompts /\ \A p \in Begun : p < rx[i + 1].id
    BY <2>1 DEF FreshInv
  <2>3. IsPrompt(1) => rx[1].id < rx[i + 1].id
    BY <2>1 DEF FreshInv
  <2>4. ASSUME NEW j \in DOMAIN rx', j < i, IsPrompt(j)' PROVE rx'[j].id < rx[i + 1].id
    <3>1. j + 1 \in DOMAIN rx /\ j + 1 < i + 1 /\ IsPrompt(j + 1) /\ rx'[j] = rx[j + 1]
      BY <1>3, <1>4, <2>1, <2>4
    <3>2. QED
      BY <2>1, <3>1 DEF FreshInv
  <2>5. QED
    BY <1>1, <1>6, <2>1, <2>2, <2>3, <2>4
<1>9. QED
  BY <1>7, <1>8 DEF FreshInv

LEMMA BegunStep ==
  ASSUME TypeOK, NowInv, \/ UNCHANGED vars \/ StartPrompt \/ AbortStep \/ FinishStep \/ Replay
                         \/ EndRequest \/ Rehearse
  PROVE  Begun' \subseteq Begun \cup {0} /\ sent' = sent /\ rx' = rx
<1> USE DEF panel
<1>1. history \in Seq(Prompt) /\ Range(history) \subseteq Told
  BY TypeParts DEF TalkType, Told
<1>2. CASE UNCHANGED vars
  BY <1>2 DEF vars, talk, disk, preview, agent, run, Begun, Met, Told, Filed
<1>3. CASE StartPrompt
  <2>1. PromptsOf(plan') \subseteq Met
    <3>1. plan' = plan \/ plan' = parked \/ plan' = <<>>
      BY <1>3, StartCases DEF run, Continue, Reset
    <3>2. QED
      BY <3>1, Empties DEF Met
  <2>2. Met' \subseteq Met
    BY <1>3, <2>1, StartCases DEF Met, Told, Filed, talk, disk
  <2>3. QED
    BY <1>3, <2>2, StartCases DEF Begun
<1>4. CASE AbortStep
  <2>1. /\ over' = over \cup {now.id}
        /\ UNCHANGED <<plan, now, preview, talk, panel, rx>>
    BY <1>4 DEF AbortStep, Abort, RollBackGroup
  <2>2. QED
    BY <2>1 DEF Begun, Met, Told, Filed, preview, talk, disk
<1>5. CASE FinishStep
  <2>1. now.id \in Prompt
    BY <1>5, FinishCases DEF NowInv, Prompting, Rehearsing
  <2>2. Range(history') = Range(history) \cup {now.id}
    <3>1. history' = Append(history, now.id)
      BY <1>5, FinishCases
    <3>2. QED
      BY <1>1, <2>1, <3>1, ElementsAfterAppend
  <2>3. Told' \subseteq Told \cup {now.id} /\ Filed' = Filed
    BY <1>5, <2>2, FinishCases DEF Told, Filed, disk
  <2>4. PromptsOf(plan') \subseteq Met /\ PromptsOf(parked') \subseteq Met /\ over' \subseteq Met
    BY <1>5, FinishCases DEF run, Met
  <2>5. QED
    BY <1>5, <2>3, <2>4, FinishCases DEF Begun, Met
<1>6. CASE Replay
  BY <1>6, ReplayFrame DEF Begun, Met, Told, Filed, preview, talk, disk, run
<1>7. CASE EndRequest
  <2>1. Filed' \subseteq Filed \cup Told
    BY <1>1, <1>7, EndFrame, FiledAfterSave
  <2>2. Told' = Told /\ PromptsOf(parked') = PromptsOf(parked) /\ over' = over
    BY <1>7, EndFrame DEF Told, preview
  <2>3. PromptsOf(plan') = {} /\ now'.id = 0
    BY <1>7, EndFrame, Empties DEF Nothing
  <2>4. QED
    BY <1>7, <2>1, <2>2, <2>3, EndFrame DEF Begun, Met
<1>8. CASE Rehearse
  <2>1. now.id \in Prompt
    BY <1>8, RehearseStep DEF NowInv, Moves, Prompting, Rehearsing
  <2>2. PromptsOf(plan') \subseteq PromptsOf(plan) \cup {now.id}
    BY <1>8, <2>1, RehearseStep, LoopTypes
  <2>3. QED
    BY <1>8, <2>2, RehearseStep DEF Begun, Met, Told, Filed, preview, talk, disk
<1>9. QED
  BY <1>2, <1>3, <1>4, <1>5, <1>6, <1>7, <1>8

LEMMA FreshStep ==
  ASSUME TypeOK, FreshInv, NowInv, [Next]_vars
  PROVE  FreshInv'
<1>1. CASE Outside
  BY <1>1, FreshOutside
<1>2. CASE TakeRequest
  BY <1>2, FreshTaken
<1>3. QED
  BY <1>1, <1>2, NextCases, BegunStep, FreshKept

-----------------------------------------------------------------------------
(* The prompt at work *)

LEMMA NowKept ==
  ASSUME NowInv, pc \in Prompting, now'.id = now.id,
         UNCHANGED <<over, parked, checkpoint, talk>>
  PROVE  NowInv'
  BY DEF NowInv, Told, Filed, talk, disk

LEMMA NowStep ==
  ASSUME TypeOK, FreshInv, NowInv, [Next]_vars
  PROVE  NowInv'
<1>1. CASE UNCHANGED vars
  BY <1>1 DEF vars, agent, preview, talk, disk, NowInv, Told, Filed
<1>2. CASE Outside
  BY <1>2, OutsideStep DEF preview, talk, disk, NowInv, Told, Filed
<1>3. CASE Rehearse
  <2>1. pc \in Prompting
    BY <1>3, RehearseStep DEF Moves, Prompting, Rehearsing
  <2>2. QED
    BY <1>3, <2>1, RehearseStep, NowKept DEF preview
<1>4. CASE StartPrompt
  BY <1>4, StartCases, NowKept DEF Prompting
<1>5. CASE AbortStep \/ FinishStep \/ Replay \/ EndRequest
  <2>1. pc' \in {"end", "replay", "idle"}
    BY <1>5, FinishCases, ReplayFrame, EndFrame DEF AbortStep, Abort
  <2>2. QED
    BY <2>1 DEF NowInv, Prompting, Rehearsing
<1>6. CASE TakeRequest /\ ~TakePrompt
  <2>1. pc' \in {"idle", "replay"}
    BY <1>6 DEF TakeRequest, TakeApply, TakeDiscard, TakeNewChat, TakeSelectChat, TakeSwitch,
                Take, Settle
  <2>2. QED
    BY <2>1 DEF NowInv, Prompting, Rehearsing
<1>7. CASE TakePrompt
  <2>1. Met' \subseteq Met /\ now'.id = Head(rx).id /\ lines' = TRUE
    BY <1>7, TakePromptMet DEF TakePrompt
  <2>2. rx \in Seq(Requests) /\ rx # <<>> /\ Head(rx) \in Requests /\ Head(rx).type = "prompt"
    BY <1>7, HeadOfRequests, TypeParts DEF TakePrompt, AgentType
  <2>3. IsPrompt(1) /\ Head(rx) = rx[1] /\ 1 \in DOMAIN rx
    BY <2>2 DEF IsPrompt
  <2>4. \A p \in Begun : p < Head(rx).id
    BY <2>3 DEF FreshInv
  <2>5. Head(rx).id \in Prompt
    BY <2>2 DEF Requests
  <2>6. now'.id \notin Met'
    BY <2>1, <2>4, <2>5 DEF Begun, Prompt
  <2>7. QED
    BY <2>1, <2>5, <2>6 DEF NowInv, Met
<1>8. QED
  BY <1>1, <1>2, <1>3, <1>4, <1>5, <1>6, <1>7, NextCases

-----------------------------------------------------------------------------
(* The sandbox beside the plan *)

(* The parked plan, as the thread takes a request: kept, or given up. *)
LEMMA TakeParked ==
  ASSUME TypeOK, TakeRequest
  PROVE  /\ sandbox' = sandbox /\ base' = base /\ parked' \in {parked, <<>>}
         /\ \/ TakePrompt /\ pc' = "start" /\ (now'.dry \/ parked' = <<>>)
            \/ TakeApply /\ pc' \in {"idle", "replay"} /\ parked' = <<>>
            \/ /\ pc' = "idle"
               /\ \/ GiveUpParked
                  \/ UNCHANGED <<parked, cuts, given, over>>
<1>1. CASE TakePrompt
  <2>1. now'.dry = Head(rx).dry
    BY <1>1 DEF TakePrompt
  <2>2. \/ Head(rx).dry /\ parked = <<>> /\ parked' = parked
        \/ ~Head(rx).dry /\ parked # <<>> /\ parked' = <<>>
        \/ (Head(rx).dry \/ parked = <<>>) /\ parked' = parked
    BY <1>1 DEF TakePrompt, GiveUpParked, ClearPreview, preview
  <2>3. QED
    BY <1>1, <2>1, <2>2 DEF TakePrompt, run
<1>2. CASE TakeApply
  BY <1>2 DEF TakeApply, ClearPreview
<1>3. CASE TakeDiscard \/ TakeNewChat \/ TakeSelectChat \/ TakeSwitch
  <2>1. pc' = "idle" /\ sandbox' = sandbox /\ base' = base
    BY <1>3 DEF TakeDiscard, TakeNewChat, TakeSelectChat, TakeSwitch, Take, Settle, run
  <2>2. GiveUpParked \/ UNCHANGED <<preview, given, over>>
    BY <1>3 DEF TakeDiscard, TakeNewChat, TakeSelectChat, TakeSwitch
  <2>3. parked' \in {parked, <<>>}
    BY <2>2 DEF GiveUpParked, ClearPreview, preview
  <2>4. QED
    BY <2>1, <2>2, <2>3 DEF preview
<1>4. QED
  BY <1>1, <1>2, <1>3 DEF TakeRequest

(* The tools that open a project are called with no plan only. *)
LEMMA RehearseReconciles ==
  ASSUME TypeOK, MirrorInv, Rehearse
  PROVE  /\ pc' = "reconcile" => plan' = <<>>
         /\ pc' \in {"card", "wait", "tool"} /\ now'.tool = "project" => plan' = <<>>
<1>0. now \in Works
  BY TypeParts DEF AgentType, Works
<1>1. CASE \/ NextTurn /\ Within("ask", "calls")
           \/ EditCall \/ CommitCall \/ PlainCall \/ ReconcileCall
           \/ UNCHANGED run /\ Within("calls", "ask")
  BY <1>1 DEF EditCall, CommitCall, PlainCall, ReconcileCall, Within, Goto
<1>2. CASE SaveCall
  BY <1>2 DEF SaveCall, ChargeHost, Within, Goto
<1>3. CASE \E tool \in Tools : SystemCall(tool)
  <2>1. PICK tool \in Tools : SystemCall(tool)
    BY <1>3
  <2>2. pc' = "card" /\ plan' = plan /\ now' = [now EXCEPT !.tool = tool] /\ (tool = "project" => plan = <<>>)
    BY <2>1 DEF SystemCall, ChargeHost
  <2>3. now'.tool = tool
    BY <1>0, <2>2 DEF Works
  <2>4. QED
    BY <2>2, <2>3
<1>4. CASE Approval
  <2>1. pc \in {"card", "wait"} /\ now' = now /\ plan' = plan /\ pc' # "reconcile"
    BY <1>4 DEF Approval, CardShown, CardNotShown, SkipDecision, TakeDecision, StopWaiting, Withdraw,
                Within, Goto, run
  <2>2. QED
    BY <2>1 DEF MirrorInv
<1>5. CASE RunTool
  <2>1. /\ pc = "tool" /\ plan' = plan
        /\ pc' = "calls" \/ (pc' = "reconcile" /\ now.tool = "project")
    BY <1>5 DEF RunTool, Within, Goto, run
  <2>2. QED
    BY <2>1 DEF MirrorInv
<1>6. QED
  BY <1>1, <1>2, <1>3, <1>4, <1>5 DEF Rehearse

(* The sandbox and the plan, as the prompt works. *)
Mirrored ==
  /\ \A s \in Range(sandbox) : s.on = base
  /\ sandbox = plan /\ mark = Len(parked)
  /\ mark <= Len(plan) /\ SubSeq(plan, 1, mark) = parked
  /\ \A s \in Range(plan) : s.by \in {now.id} \cup PromptsOf(parked)

LEMMA SubSeqOfAppend ==
  ASSUME NEW S, NEW q \in Seq(S), NEW e \in S, NEW n \in 0 .. Len(q)
  PROVE  SubSeq(Append(q, e), 1, n) = SubSeq(q, 1, n) /\ n <= Len(Append(q, e))
<1>1. Append(q, e) \in Seq(S) /\ Len(Append(q, e)) = Len(q) + 1
  OBVIOUS
<1>2. \A i \in 1 .. Len(q) : Append(q, e)[i] = q[i]
  OBVIOUS
<1>3. /\ Len(SubSeq(q, 1, n)) = n /\ SubSeq(q, 1, n) \in Seq(S)
      /\ \A i \in 1 .. n : SubSeq(q, 1, n)[i] = q[i]
  BY SubSeqProperties
<1>4. /\ Len(SubSeq(Append(q, e), 1, n)) = n /\ SubSeq(Append(q, e), 1, n) \in Seq(S)
      /\ \A i \in 1 .. n : SubSeq(Append(q, e), 1, n)[i] = Append(q, e)[i]
  BY <1>1, SubSeqProperties
<1>5. \A i \in 1 .. n : SubSeq(Append(q, e), 1, n)[i] = SubSeq(q, 1, n)[i]
  BY <1>2, <1>3, <1>4
<1>6. QED
  BY <1>1, <1>3, <1>4, <1>5, SeqEqual

LEMMA MirroredLoop ==
  ASSUME TypeOK, now.id \in Prompt, Mirrored, LoopStep, pc = "reconcile" => plan = <<>>,
         parked' = parked, now'.id = now.id
  PROVE  Mirrored'
<1>1. /\ sandbox \in Seq(Step) /\ plan \in Seq(Step) /\ base \in Draft /\ mark \in Nat
      /\ parked \in Seq(Step)
  BY TypeParts DEF RunType, PreviewType
<1>2. CASE UNCHANGED <<base, sandbox, mark, plan>>
  BY <1>2 DEF Mirrored
<1>3. CASE /\ UNCHANGED <<base, mark>>
           /\ sandbox' = Append(sandbox, [by |-> now.id, nth |-> Len(plan) + 1, on |-> base])
           /\ plan' = Append(plan, [by |-> now.id, nth |-> Len(plan) + 1, on |-> base])
  <2> DEFINE step == [by |-> now.id, nth |-> Len(plan) + 1, on |-> base]
  <2>1. step \in Step /\ step.by = now.id /\ step.on = base
    BY <1>1 DEF Step
  <2> HIDE DEF step
  <2>2. sandbox' = Append(sandbox, step) /\ plan' = Append(plan, step)
    BY <1>3 DEF step
  <2>3. Range(sandbox') = Range(sandbox) \cup {step} /\ Range(plan') = Range(plan) \cup {step}
    BY <1>1, <2>1, <2>2, ElementsAfterAppend
  <2>4. mark \in 0 .. Len(plan)
    BY <1>1 DEF Mirrored
  <2>5. SubSeq(plan', 1, mark) = parked /\ mark <= Len(plan')
    BY <1>1, <2>1, <2>2, <2>4, SubSeqOfAppend DEF Mirrored
  <2>6. QED
    BY <1>3, <2>1, <2>2, <2>3, <2>5 DEF Mirrored
<1>4. CASE pc = "reconcile" /\ Reconcile(open)
  <2>1. /\ base' = open /\ sandbox' = <<>> /\ mark' = 0 /\ plan' = <<>> /\ plan = <<>>
    BY <1>4 DEF Reconcile, Reset
  <2>2. Len(parked) = 0 /\ mark = 0
    BY <1>1, <2>1 DEF Mirrored
  <2>3. parked = <<>>
    BY <1>1, <2>2
  <2>4. SubSeq(<<>>, 1, 0) = <<>> /\ Len(<<>>) = 0
    OBVIOUS
  <2>5. QED
    BY <2>1, <2>2, <2>3, <2>4, Empties DEF Mirrored
<1>5. CASE NextTurn \/ CommitProgress \/ ChargeHost \/ UNCHANGED run
  BY <1>2, <1>5 DEF NextTurn, CommitProgress, ChargeHost, run
<1>6. CASE Edit(now.id)
  BY <1>2, <1>3, <1>6 DEF Edit
<1>7. QED
  BY <1>4, <1>5, <1>6 DEF LoopStep

LEMMA MirrorRehearse ==
  ASSUME TypeOK, NowInv, MirrorInv, Rehearse
  PROVE  MirrorInv'
<1>1. pc \in Rehearsing /\ pc' \in Rehearsing
  BY RehearseStep DEF Moves, Rehearsing
<1>2. now.id \in Prompt
  BY <1>1 DEF NowInv, Prompting
<1>3. Mirrored /\ (pc = "reconcile" => plan = <<>>)
  BY <1>1 DEF MirrorInv, Mirrored
<1>4. Mirrored'
  BY <1>2, <1>3, RehearseStep, MirroredLoop DEF preview
<1>5. ~now'.dry => parked' = <<>>
  BY <1>1, RehearseStep DEF MirrorInv, Prompting, preview
<1>6. QED
  BY <1>1, <1>4, <1>5, RehearseReconciles DEF MirrorInv, Mirrored, Rehearsing

LEMMA WholeSubSeq ==
  ASSUME NEW S, NEW q \in Seq(S)
  PROVE  SubSeq(q, 1, Len(q)) = q
<1>1. /\ Len(SubSeq(q, 1, Len(q))) = Len(q) /\ SubSeq(q, 1, Len(q)) \in Seq(S)
      /\ \A i \in 1 .. Len(q) : SubSeq(q, 1, Len(q))[i] = q[i]
  BY SubSeqProperties
<1>2. QED
  BY <1>1, SeqEqual

LEMMA MirrorStart ==
  ASSUME TypeOK, MirrorInv, StartPrompt
  PROVE  MirrorInv'
<1>1. /\ sandbox \in Seq(Step) /\ parked \in Seq(Step) /\ pc = "start"
      /\ \A s \in Range(sandbox) : s.on = base
      /\ parked # <<>> => sandbox = parked
      /\ ~now.dry => parked = <<>>
  BY StartCases, TypeParts DEF RunType, PreviewType, MirrorInv, Prompting
<1>2. UNCHANGED <<now, parked>> /\ pc' \in {"end", "ask"}
  BY StartCases
<1>3. CASE pc' = "end" /\ UNCHANGED run
  BY <1>1, <1>2, <1>3 DEF MirrorInv, Prompting, Rehearsing, run
<1>4. ASSUME Mirrored', pc' = "ask"
      PROVE  MirrorInv'
  BY <1>1, <1>2, <1>4 DEF MirrorInv, Mirrored, Prompting, Rehearsing
<1>5. CASE pc' = "ask" /\ parked # <<>> /\ Continue(parked)
  <2>1. sandbox' = parked /\ plan' = parked /\ mark' = Len(parked) /\ base' = base
    BY <1>1, <1>5 DEF Continue
  <2>2. SubSeq(parked, 1, Len(parked)) = parked /\ Len(parked) <= Len(parked)
    BY <1>1, WholeSubSeq
  <2>3. \A s \in Range(parked) : s.by \in PromptsOf(parked)
    BY DEF PromptsOf
  <2>4. Mirrored'
    BY <1>1, <1>2, <1>5, <2>1, <2>2, <2>3 DEF Mirrored
  <2>5. QED
    BY <1>4, <1>5, <2>4
<1>6. CASE pc' = "ask" /\ parked = <<>> /\ Reset(open)
  <2>1. sandbox' = <<>> /\ plan' = <<>> /\ mark' = 0 /\ parked' = <<>>
    BY <1>2, <1>6 DEF Reset
  <2>2. SubSeq(<<>>, 1, 0) = <<>> /\ Len(<<>>) = 0
    OBVIOUS
  <2>3. Mirrored'
    BY <2>1, <2>2, Empties DEF Mirrored
  <2>4. QED
    BY <1>4, <1>6, <2>3
<1>7. QED
  BY <1>3, <1>5, <1>6, StartCases

LEMMA MirrorAbort ==
  ASSUME TypeOK, MirrorInv, AbortStep
  PROVE  MirrorInv'
<1>1. pc' = "end" /\ UNCHANGED <<parked, now, base, plan>> /\ sandbox' = parked
  BY AbortLeaves DEF AbortStep, Abort, RollBackGroup, preview
<1>2. Mirrored /\ sandbox \in Seq(Step) /\ mark \in Nat
  BY TypeParts DEF AbortStep, MirrorInv, Mirrored, Rehearsing, RunType
<1>3. Range(parked) \subseteq Range(sandbox)
  <2>1. /\ Len(SubSeq(sandbox, 1, mark)) = mark /\ SubSeq(sandbox, 1, mark) \in Seq(Step)
        /\ \A i \in 1 .. mark : SubSeq(sandbox, 1, mark)[i] = sandbox[i]
    BY <1>2, SubSeqProperties DEF Mirrored
  <2>2. \A i \in 1 .. mark : i \in DOMAIN sandbox
    BY <1>2 DEF Mirrored
  <2>3. QED
    BY <1>2, <2>1, <2>2 DEF Mirrored, Range
<1>4. QED
  BY <1>1, <1>2, <1>3 DEF MirrorInv, Mirrored, Prompting, Rehearsing

LEMMA MirrorFinish ==
  ASSUME TypeOK, MirrorInv, FinishStep
  PROVE  MirrorInv'
<1>1. UNCHANGED <<now, base, sandbox, plan>> /\ sandbox = plan /\ (~now.dry => parked = <<>>)
  BY FinishCases DEF MirrorInv, Rehearsing, Prompting, run
<1>2. \/ now.dry /\ parked' = plan /\ pc' = "end"
      \/ ~now.dry /\ parked' = parked /\ pc' \in {"end", "replay"}
  BY FinishCases
<1>3. QED
  BY <1>1, <1>2 DEF MirrorInv, Prompting, Rehearsing

LEMMA MirrorStep ==
  ASSUME TypeOK, NowInv, MirrorInv, [Next]_vars
  PROVE  MirrorInv'
<1>1. ASSUME UNCHANGED <<pc, now, parked, run>>
      PROVE  MirrorInv'
  BY <1>1 DEF MirrorInv, run
<1>2. CASE UNCHANGED vars \/ Outside
  <2>1. UNCHANGED <<pc, now, parked, run>>
    BY <1>2, OutsideStep DEF vars, agent, preview
  <2>2. QED
    BY <1>1, <2>1
<1>3. CASE Replay
  BY <1>3, ReplayFrame DEF MirrorInv, Prompting, Rehearsing, preview, run
<1>4. CASE EndRequest
  <2>1. /\ pc = "end" /\ pc' = "idle" /\ parked' = parked /\ base' = base
        /\ parked = <<>> => sandbox' = <<>>
        /\ parked # <<>> => sandbox' = sandbox
    BY <1>4, EndFrame DEF preview
  <2>2. QED
    BY <2>1, Empties DEF MirrorInv, Prompting, Rehearsing
<1>5. CASE TakeRequest
  <2>1. pc = "idle" /\ UNCHANGED <<sandbox, base>> /\ parked' \in {parked, <<>>}
    BY <1>5, TakeMoves, TakeParked
  <2>2. \/ pc' = "start" /\ (now'.dry \/ parked' = <<>>)
        \/ pc' = "replay" /\ parked' = <<>>
        \/ pc' = "idle"
    BY <1>5, TakeParked
  <2>3. QED
    BY <2>1, <2>2 DEF MirrorInv, Prompting, Rehearsing
<1>6. QED
  BY <1>2, <1>3, <1>4, <1>5, NextCases, MirrorRehearse, MirrorStart, MirrorAbort, MirrorFinish

LEMMA MirrorShows ==
  ASSUME MirrorInv
  PROVE  SandboxMirrorsPlan
<1>1. Busy \ {"start", "replay", "end"} = Rehearsing
  BY DEF Busy, Rehearsing
<1>2. QED
  BY <1>1 DEF MirrorInv, SandboxMirrorsPlan

-----------------------------------------------------------------------------
(* What may land *)

LEMMA PlanPrompts ==
  ASSUME MirrorInv, pc \in Rehearsing
  PROVE  PromptsOf(plan) \subseteq {now.id} \cup PromptsOf(parked)
  BY DEF MirrorInv, PromptsOf

LEMMA LandStep ==
  ASSUME TypeOK, NowInv, MirrorInv, LandInv, [Next]_vars
  PROVE  LandInv'
<1>1. ASSUME UNCHANGED <<parked, over>>, pc' # "replay"
      PROVE  LandInv'
  BY <1>1 DEF LandInv
<1>2. CASE UNCHANGED vars \/ Outside
  <2>1. UNCHANGED <<pc, parked, over, plan>>
    BY <1>2, OutsideStep DEF vars, agent, preview, run
  <2>2. QED
    BY <2>1 DEF LandInv
<1>3. CASE Rehearse
  BY <1>1, <1>3, RehearseStep DEF Moves, preview
<1>4. CASE StartPrompt
  BY <1>1, <1>4, StartCases
<1>5. CASE AbortStep
  <2>1. over' = over \cup {now.id} /\ parked' = parked /\ pc' = "end"
    BY <1>5 DEF AbortStep, Abort, preview
  <2>2. now.id \notin PromptsOf(parked)
    BY <1>5 DEF AbortStep, NowInv, Prompting, Rehearsing
  <2>3. QED
    BY <2>1, <2>2 DEF LandInv
<1>6. CASE FinishStep
  <2>1. PromptsOf(plan) \subseteq {now.id} \cup PromptsOf(parked) /\ now.id \notin over
    BY <1>6, FinishCases, PlanPrompts DEF NowInv, Prompting, Rehearsing
  <2>2. PromptsOf(plan) \cap over = {}
    BY <2>1 DEF LandInv
  <2>3. parked' = plan \/ parked' = parked
    BY <1>6, FinishCases
  <2>4. over' = over /\ plan' = plan
    BY <1>6, FinishCases DEF run
  <2>5. QED
    BY <2>2, <2>3, <2>4 DEF LandInv
<1>7. CASE Replay
  <2>1. parked' = <<>> /\ pc' = "end"
    BY <1>7, ReplayFrame DEF MirrorInv, preview
  <2>2. QED
    BY <2>1, Empties DEF LandInv
<1>8. CASE EndRequest
  BY <1>1, <1>8, EndFrame DEF preview
<1>9. CASE TakeRequest
  <2>1. ASSUME parked' = <<>>, pc' # "replay" PROVE LandInv'
    BY <2>1, Empties DEF LandInv
  <2>2. CASE TakePrompt
    <3>1. pc' = "start" /\ (UNCHANGED <<parked, over>> \/ parked' = <<>>)
      BY <2>2 DEF TakePrompt, GiveUpParked, ClearPreview, preview
    <3>2. QED
      BY <1>1, <2>1, <3>1
  <2>3. CASE TakeApply
    <3>1. parked' = <<>> /\ plan' = parked /\ over' = over
      BY <2>3 DEF TakeApply, ClearPreview
    <3>2. QED
      BY <3>1, Empties DEF LandInv
  <2>4. CASE pc' = "idle" /\ (GiveUpParked \/ UNCHANGED <<parked, cuts, given, over>>)
    <3>1. parked' = <<>> \/ UNCHANGED <<parked, over>>
      BY <2>4 DEF GiveUpParked, ClearPreview
    <3>2. QED
      BY <1>1, <2>1, <2>4, <3>1
  <2>5. QED
    BY <1>9, <2>2, <2>3, <2>4, TakeParked
<1>10. QED
  BY <1>2, <1>3, <1>4, <1>5, <1>6, <1>7, <1>8, <1>9, NextCases

-----------------------------------------------------------------------------
(* The phases that land *)

LEMMA NumberedAppend ==
  ASSUME NEW q \in Seq(Step), Numbered(q), NEW e \in Step, e.nth = Len(q) + 1
  PROVE  Numbered(Append(q, e)) /\ Len(Append(q, e)) = Len(q) + 1
<1>1. /\ DOMAIN Append(q, e) = 1 .. Len(q) + 1 /\ Append(q, e)[Len(q) + 1] = e
      /\ \A i \in 1 .. Len(q) : Append(q, e)[i] = q[i] /\ i \in DOMAIN q
      /\ Len(Append(q, e)) = Len(q) + 1 /\ Len(q) \in Nat
  OBVIOUS
<1>2. ASSUME NEW i \in DOMAIN Append(q, e) PROVE Append(q, e)[i].nth = i
  <2>1. i \in 1 .. Len(q) \/ i = Len(q) + 1
    BY <1>1
  <2>2. QED
    BY <1>1, <2>1 DEF Numbered
<1>3. QED
  BY <1>1, <1>2 DEF Numbered

LEMMA CutsAppend ==
  ASSUME NEW at \in Seq(Nat), NEW n \in Nat, Cuts(at, n),
         n > IF at = <<>> THEN 0 ELSE at[Len(at)]
  PROVE  Cuts(Append(at, n), n)
<1>1. /\ DOMAIN Append(at, n) = 1 .. Len(at) + 1 /\ Append(at, n)[Len(at) + 1] = n
      /\ \A i \in 1 .. Len(at) : Append(at, n)[i] = at[i] /\ i \in DOMAIN at /\ at[i] \in Nat
      /\ Len(at) \in Nat
  OBVIOUS
<1>2. ASSUME NEW i \in 1 .. Len(at) PROVE at[i] < n /\ at[i] \in 1 .. n
  <2>1. at # <<>> /\ Len(at) \in 1 .. Len(at)
    BY <1>1
  <2>2. at[Len(at)] < n /\ at[Len(at)] \in Nat
    BY <1>1, <2>1
  <2>3. i = Len(at) \/ at[i] < at[Len(at)]
    BY <1>1, <2>1 DEF Cuts
  <2>4. at[i] \in 1 .. n
    BY <1>1 DEF Cuts
  <2>5. QED
    BY <1>1, <2>2, <2>3, <2>4
<1>3. n \in 1 .. n
  <2>1. CASE at = <<>>
    BY <2>1
  <2>2. CASE at # <<>>
    <3>1. Len(at) \in 1 .. Len(at)
      BY <1>1, <2>2
    <3>2. QED
      BY <1>2, <3>1
  <2>3. QED
    BY <2>1, <2>2
<1>4. ASSUME NEW i \in DOMAIN Append(at, n)
      PROVE  Append(at, n)[i] \in 1 .. n
  <2>1. i \in 1 .. Len(at) \/ i = Len(at) + 1
    BY <1>1
  <2>2. QED
    BY <1>1, <1>2, <1>3, <2>1
<1>5. ASSUME NEW i \in DOMAIN Append(at, n), NEW j \in DOMAIN Append(at, n), i < j
      PROVE  Append(at, n)[i] < Append(at, n)[j]
  <2>1. i \in 1 .. Len(at) /\ (j \in 1 .. Len(at) \/ j = Len(at) + 1)
    BY <1>1, <1>5
  <2>2. QED
    BY <1>1, <1>2, <1>5, <2>1 DEF Cuts
<1>6. QED
  BY <1>4, <1>5 DEF Cuts

(* The breaks of a continued plan: the old ones, and the new ones behind. *)
LEMMA CutsConcat ==
  ASSUME NEW at \in Seq(Nat), NEW n \in Nat, Cuts(at, n),
         NEW at2 \in Seq(Nat), NEW m \in Nat, Cuts(at2, m)
  PROVE  Cuts(at \o [i \in DOMAIN at2 |-> n + at2[i]], n + m)
<1> DEFINE more == [i \in DOMAIN at2 |-> n + at2[i]]
<1>1. more \in Seq(Nat) /\ Len(more) = Len(at2)
  BY ShiftedType
<1>2. /\ DOMAIN at2 = 1 .. Len(at2) /\ Len(at2) \in Nat /\ DOMAIN at = 1 .. Len(at) /\ Len(at) \in Nat
      /\ \A i \in DOMAIN at2 : more[i] = n + at2[i]
      /\ \A i \in DOMAIN at2 : at2[i] \in Nat
      /\ \A i \in DOMAIN at : at[i] \in Nat
  OBVIOUS
<1> HIDE DEF more
<1> DEFINE all == at \o more
<1>3. /\ DOMAIN all = 1 .. Len(at) + Len(at2)
      /\ \A i \in 1 .. Len(at) : all[i] = at[i]
      /\ \A i \in 1 .. Len(at2) : all[Len(at) + i] = more[i]
  <2>1. /\ all \in Seq(Nat) /\ Len(all) = Len(at) + Len(more)
        /\ \A i \in 1 .. Len(at) + Len(more) :
             all[i] = IF i <= Len(at) THEN at[i] ELSE more[i - Len(at)]
    BY <1>1, ConcatProperties
  <2> HIDE DEF all
  <2>2. DOMAIN all = 1 .. Len(at) + Len(at2)
    BY <1>1, <2>1
  <2>3. ASSUME NEW i \in 1 .. Len(at) PROVE all[i] = at[i]
    BY <1>1, <1>2, <2>1
  <2>4. ASSUME NEW i \in 1 .. Len(at2) PROVE all[Len(at) + i] = more[i]
    <3>1. /\ Len(at) + i \in 1 .. Len(at) + Len(more) /\ (Len(at) + i) - Len(at) = i
          /\ ~(Len(at) + i <= Len(at))
      BY <1>1, <1>2
    <3>2. QED
      BY <2>1, <3>1
  <2>5. QED
    BY <2>2, <2>3, <2>4
<1> HIDE DEF all
<1>4. ASSUME NEW i \in DOMAIN all
      PROVE  \/ i \in DOMAIN at /\ all[i] = at[i] /\ all[i] \in 1 .. n
             \/ \E k \in DOMAIN at2 : i = Len(at) + k /\ all[i] = n + at2[k] /\ at2[k] \in 1 .. m
  <2>1. CASE i \in 1 .. Len(at)
    BY <1>2, <1>3, <2>1 DEF Cuts
  <2>2. CASE i \notin 1 .. Len(at)
    <3>1. i - Len(at) \in DOMAIN at2 /\ i = Len(at) + (i - Len(at))
      BY <1>2, <1>3, <2>2
    <3>2. QED
      BY <1>2, <1>3, <3>1 DEF Cuts
  <2>3. QED
    BY <2>1, <2>2
<1>5. \A i \in DOMAIN all : all[i] \in 1 .. n + m
  BY <1>4
<1>6. ASSUME NEW i \in DOMAIN all, NEW j \in DOMAIN all, i < j
      PROVE  all[i] < all[j]
  <2>1. CASE j \in DOMAIN at
    <3>1. i \in DOMAIN at
      BY <1>2, <1>3, <1>6, <2>1
    <3>2. QED
      BY <1>2, <1>3, <1>6, <2>1, <3>1 DEF Cuts
  <2>2. CASE j \notin DOMAIN at
    <3>1. PICK k \in DOMAIN at2 : j = Len(at) + k /\ all[j] = n + at2[k] /\ at2[k] \in 1 .. m
      BY <1>4, <2>2
    <3>2. CASE i \in DOMAIN at
      <4>1. all[i] \in 1 .. n
        BY <1>2, <1>3, <3>2 DEF Cuts
      <4>2. QED
        BY <3>1, <4>1
    <3>3. CASE i \notin DOMAIN at
      <4>1. PICK l \in DOMAIN at2 : i = Len(at) + l /\ all[i] = n + at2[l] /\ at2[l] \in 1 .. m
        BY <1>4, <3>3
      <4>2. l < k /\ l \in Nat /\ k \in Nat
        BY <1>2, <1>6, <3>1, <4>1
      <4>3. at2[l] < at2[k]
        BY <4>2 DEF Cuts
      <4>4. QED
        BY <1>2, <3>1, <4>1, <4>3
    <3>4. QED
      BY <3>2, <3>3
  <2>3. QED
    BY <2>1, <2>2
<1>7. Cuts(all, n + m)
  BY <1>5, <1>6 DEF Cuts
<1>8. QED
  BY <1>7 DEF all, more

LEMMA NoPhases == Numbered(<<>>) /\ \A n : Cuts(<<>>, n)
  BY DEF Numbered, Cuts

(* The plan, as the prompt works. *)
Counts ==
  Numbered(plan) /\ Cuts(breaks, loop.done) /\ Len(plan) = Len(parked) + loop.done

LEMMA CountsLoop ==
  ASSUME TypeOK, now.id \in Prompt, Counts, LoopStep, pc = "reconcile" => plan = <<>>,
         parked' = parked
  PROVE  Counts'
<1>1. /\ plan \in Seq(Step) /\ parked \in Seq(Step) /\ breaks \in Seq(Nat) /\ base \in Draft
      /\ loop \in Loops /\ loop.done \in Nat
      /\ Len(plan) \in Nat /\ Len(parked) \in Nat
  BY TypeParts DEF RunType, PreviewType, Loops
<1>2. CASE UNCHANGED <<plan, breaks>> /\ loop'.done = loop.done
  BY <1>2 DEF Counts
<1>3. CASE NextTurn \/ ChargeHost \/ UNCHANGED run
  <2>1. loop'.done = loop.done
    BY <1>1, <1>3 DEF NextTurn, ChargeHost, run, Loops
  <2>2. QED
    BY <1>2, <1>3, <2>1 DEF NextTurn, ChargeHost, run
<1>4. CASE Edit(now.id)
  <2> DEFINE step == [by |-> now.id, nth |-> Len(plan) + 1, on |-> base]
  <2>1. step \in Step /\ step.nth = Len(plan) + 1
    BY <1>1 DEF Step
  <2> HIDE DEF step
  <2>2. breaks' = breaks
    BY <1>4 DEF Edit
  <2>3. CASE plan' = Append(plan, step) /\ loop' = [loop EXCEPT !.edits = @ + 1, !.done = @ + 1]
    <3>1. loop'.done = loop.done + 1
      BY <1>1, <2>3 DEF Loops
    <3>2. Numbered(plan') /\ Len(plan') = Len(plan) + 1
      BY <1>1, <2>1, <2>3, NumberedAppend DEF Counts
    <3>3. Cuts(breaks, loop.done + 1)
      BY <1>1 DEF Counts, Cuts
    <3>4. QED
      BY <1>1, <2>2, <3>1, <3>2, <3>3 DEF Counts
  <2>4. CASE plan' = plan /\ loop' = [loop EXCEPT !.edits = @ + 1]
    <3>1. loop'.done = loop.done
      BY <1>1, <2>4 DEF Loops
    <3>2. QED
      BY <1>2, <2>2, <2>4, <3>1
  <2>5. QED
    BY <1>4, <2>3, <2>4 DEF Edit, step
<1>5. CASE CommitProgress
  <2>1. Cuts(breaks', loop.done)
    <3>1. breaks' = Append(breaks, loop.done) /\ loop.done > (IF breaks = <<>> THEN 0 ELSE breaks[Len(breaks)])
      BY <1>5 DEF CommitProgress
    <3>2. QED
      BY <1>1, <3>1, CutsAppend DEF Counts
  <2>2. QED
    BY <1>5, <2>1 DEF Counts, CommitProgress
<1>6. CASE pc = "reconcile" /\ Reconcile(open)
  BY <1>2, <1>6 DEF Reconcile, Reset
<1>7. QED
  BY <1>3, <1>4, <1>5, <1>6 DEF LoopStep

LEMMA PhaseRehearse ==
  ASSUME TypeOK, NowInv, MirrorInv, PhaseInv, Rehearse
  PROVE  PhaseInv'
<1>1. pc \in Rehearsing /\ pc' \in Rehearsing
  BY RehearseStep DEF Moves, Rehearsing
<1>2. now.id \in Prompt /\ (pc = "reconcile" => plan = <<>>) /\ Counts
  BY <1>1 DEF NowInv, Prompting, MirrorInv, PhaseInv, Counts
<1>3. Counts' /\ UNCHANGED <<landed, parked, cuts>>
  BY <1>2, RehearseStep, CountsLoop DEF preview
<1>4. QED
  BY <1>1, <1>3 DEF PhaseInv, Counts, Rehearsing, PrefixLands

LEMMA PhaseStart ==
  ASSUME TypeOK, PhaseInv, StartPrompt
  PROVE  PhaseInv'
<1>1. UNCHANGED <<landed, parked>> /\ pc' \in {"end", "ask"} /\ parked \in Seq(Step)
  BY StartCases, TypeParts DEF live, PreviewType
<1>2. PrefixLands' /\ Numbered(parked') /\ Cuts(cuts', Len(parked'))
  <2>1. cuts' = cuts \/ cuts' = <<>>
    BY StartCases
  <2>2. QED
    BY <1>1, <2>1, NoPhases DEF PhaseInv, PrefixLands
<1>3. CASE pc' = "end"
  BY <1>2, <1>3 DEF PhaseInv, Rehearsing
<1>4. CASE pc' = "ask"
  <2>1. StartLoop /\ (Continue(parked) \/ (parked = <<>> /\ Reset(open)))
    BY <1>4, StartCases
  <2>2. breaks' = <<>> /\ loop'.done = 0 /\ plan' = parked
    BY <2>1 DEF StartLoop, Continue, Reset, Fresh
  <2>3. Counts'
    BY <1>1, <2>2, NoPhases DEF Counts, PhaseInv
  <2>4. QED
    BY <1>2, <1>4, <2>3 DEF PhaseInv, Counts
<1>5. QED
  BY <1>1, <1>3, <1>4

LEMMA PhaseFinish ==
  ASSUME TypeOK, MirrorInv, PhaseInv, FinishStep
  PROVE  PhaseInv'
<1>1. /\ parked \in Seq(Step) /\ plan \in Seq(Step) /\ breaks \in Seq(Nat) /\ cuts \in Seq(Nat)
      /\ loop.done \in Nat /\ Counts
  BY FinishCases, TypeParts DEF RunType, PreviewType, PhaseInv, Counts, Rehearsing
<1>2. PrefixLands' /\ UNCHANGED <<plan, breaks>>
  BY FinishCases DEF PhaseInv, PrefixLands, live, run
<1>3. CASE /\ now.dry /\ parked' = plan /\ pc' = "end"
           /\ cuts' = cuts \o [i \in DOMAIN breaks |-> Len(parked) + breaks[i]]
  <2>1. Cuts(cuts', Len(parked) + loop.done)
    BY <1>1, <1>3, CutsConcat DEF PhaseInv, Counts
  <2>2. Numbered(parked') /\ Cuts(cuts', Len(parked'))
    BY <1>1, <1>3, <2>1 DEF Counts
  <2>3. QED
    BY <1>2, <1>3, <2>2 DEF PhaseInv, Rehearsing
<1>4. CASE ~now.dry /\ UNCHANGED <<parked, cuts>> /\ pc' = (IF plan = <<>> THEN "end" ELSE "replay")
  <2>1. parked = <<>>
    BY <1>4, FinishCases DEF MirrorInv, Prompting, Rehearsing
  <2>2. Len(plan) = loop.done
    BY <1>1, <2>1 DEF Counts
  <2>3. Numbered(plan) /\ Cuts(breaks, Len(plan))
    BY <1>1, <2>2 DEF Counts
  <2>4. QED
    BY <1>2, <1>4, <2>3 DEF PhaseInv, Rehearsing
<1>5. QED
  BY <1>3, <1>4, FinishCases

(* The groups of a replay lie behind those that landed before. *)
LEMMA ReplayGroups ==
  ASSUME TypeOK, PhaseInv, Replay, NEW phases, phases = Phases(plan, breaks)
  PROVE  /\ Len(phases) \in Nat
         /\ \E n \in 0 .. Len(phases) :
              /\ DOMAIN landed' = 1 .. Len(landed) + n
              /\ \A g \in 1 .. Len(landed) : landed'[g] = landed[g]
              /\ \A k \in 1 .. n : landed'[Len(landed) + k].steps = phases[k]
<1>1. PICK n \in 0 .. Len(phases) :
        /\ landed' = landed \o [i \in 1 .. n |-> [on |-> open, steps |-> phases[i]]]
        /\ \A i \in 1 .. n : [on |-> open, steps |-> phases[i]] \in Group
        /\ Len(phases) \in Nat
  BY ReplayLands
<1> DEFINE more == [i \in 1 .. n |-> [on |-> open, steps |-> phases[i]]]
<1>2. n \in Nat /\ landed \in Seq(Group)
  BY <1>1, TypeParts DEF LiveType
<1>3. more \in Seq(Group) /\ Len(more) = n /\ \A k \in 1 .. n : more[k].steps = phases[k]
  BY <1>1, <1>2
<1> HIDE DEF more
<1>4. landed' = landed \o more
  BY <1>1 DEF more
<1>5. /\ landed' \in Seq(Group) /\ Len(landed') = Len(landed) + n
      /\ \A i \in 1 .. Len(landed) + n :
           landed'[i] = IF i <= Len(landed) THEN landed[i] ELSE more[i - Len(landed)]
  BY <1>2, <1>3, <1>4, ConcatProperties
<1>6. DOMAIN landed' = 1 .. Len(landed) + n /\ Len(landed) \in Nat
  BY <1>2, <1>5
<1>7. ASSUME NEW g \in 1 .. Len(landed) PROVE landed'[g] = landed[g]
  BY <1>2, <1>5, <1>6
<1>8. ASSUME NEW k \in 1 .. n PROVE landed'[Len(landed) + k].steps = phases[k]
  <2>1. /\ Len(landed) + k \in 1 .. Len(landed) + n /\ (Len(landed) + k) - Len(landed) = k
        /\ ~(Len(landed) + k <= Len(landed))
    BY <1>2, <1>6
  <2>2. landed'[Len(landed) + k] = more[k]
    BY <1>5, <2>1
  <2>3. QED
    BY <1>3, <2>2
<1>9. QED
  BY <1>1, <1>6, <1>7, <1>8

LEMMA PhaseReplay ==
  ASSUME TypeOK, PhaseInv, Replay
  PROVE  PhaseInv'
<1>0. PICK phases : phases = Phases(plan, breaks)
  OBVIOUS
<1>1. /\ plan \in Seq(Step) /\ breaks \in Seq(Nat) /\ landed \in Seq(Group)
      /\ plan # <<>> /\ Numbered(plan) /\ Cuts(breaks, Len(plan))
  BY ReplayFrame, TypeParts DEF RunType, LiveType, PhaseInv
<1>2. \A k \in 1 .. Len(phases) :
        /\ phases[k] # <<>> /\ Consecutive(phases[k])
        /\ phases[k][1].nth > 1 =>
             k > 1 /\ phases[k - 1][Len(phases[k - 1])].nth + 1 = phases[k][1].nth
  BY <1>0, <1>1, PhasesOfPlan
<1>3. PICK n \in 0 .. Len(phases) :
        /\ DOMAIN landed' = 1 .. Len(landed) + n
        /\ \A g \in 1 .. Len(landed) : landed'[g] = landed[g]
        /\ \A k \in 1 .. n : landed'[Len(landed) + k].steps = phases[k]
  BY <1>0, ReplayGroups
<1>4. Len(phases) \in Nat /\ n \in Nat /\ n <= Len(phases) /\ Len(landed) \in Nat
      /\ DOMAIN landed = 1 .. Len(landed)
  BY <1>0, <1>1, <1>3, ReplayGroups
<1> DEFINE Joins(groups, g) ==
             LET steps == groups[g].steps
                 before == groups[g - 1].steps
             IN /\ steps # <<>> /\ Consecutive(steps)
                /\ steps[1].nth > 1 => g > 1 /\ before[Len(before)].nth + 1 = steps[1].nth
<1>5. ASSUME NEW g \in DOMAIN landed' PROVE Joins(landed', g)
  <2>1. CASE g \in 1 .. Len(landed)
    <3>1. Joins(landed, g)
      BY <1>4, <2>1 DEF PhaseInv, PrefixLands, Consecutive
    <3>2. landed'[g] = landed[g] /\ (g > 1 => landed'[g - 1] = landed[g - 1])
      BY <1>3, <1>4, <2>1
    <3>3. QED
      BY <3>1, <3>2
  <2>2. CASE g \notin 1 .. Len(landed)
    <3>1. PICK k \in 1 .. n : g = Len(landed) + k
      <4>1. g - Len(landed) \in 1 .. n /\ g = Len(landed) + (g - Len(landed))
        BY <1>3, <1>4, <2>2
      <4>2. QED
        BY <4>1
    <3>2. landed'[g].steps = phases[k] /\ k \in 1 .. Len(phases)
      BY <1>3, <1>4, <3>1
    <3>3. k > 1 => g > 1 /\ k - 1 \in 1 .. n /\ g - 1 = Len(landed) + (k - 1)
      BY <1>4, <3>1
    <3>4. k > 1 => landed'[g - 1].steps = phases[k - 1]
      BY <1>3, <3>3
    <3>5. QED
      BY <1>2, <3>2, <3>3, <3>4
  <2>3. QED
    BY <2>1, <2>2
<1>6. PrefixLands'
  BY <1>5 DEF PrefixLands, Consecutive
<1>7. pc' = "end" /\ UNCHANGED <<parked, cuts>>
  BY ReplayFrame DEF preview
<1>8. QED
  BY <1>6, <1>7 DEF PhaseInv, Rehearsing

LEMMA PhaseStep ==
  ASSUME TypeOK, NowInv, MirrorInv, PhaseInv, [Next]_vars
  PROVE  PhaseInv'
<1>1. CASE UNCHANGED vars \/ Outside
  <2>1. UNCHANGED <<pc, parked, cuts, plan, breaks, loop, landed>>
    BY <1>1, OutsideStep DEF vars, live, agent, preview, run
  <2>2. QED
    BY <2>1 DEF PhaseInv, PrefixLands
<1>2. ASSUME landed' = landed, UNCHANGED <<parked, cuts>> \/ (parked' = <<>> /\ cuts' = <<>>),
             pc' \notin Rehearsing \cup {"replay"}
      PROVE  PhaseInv'
  BY <1>2, NoPhases DEF PhaseInv, PrefixLands
<1>3. CASE AbortStep
  BY <1>2, <1>3 DEF AbortStep, Abort, live, preview, Rehearsing
<1>4. CASE EndRequest
  BY <1>2, <1>4, EndFrame DEF live, preview, Rehearsing
<1>5. CASE TakeApply
  <2>1. /\ landed' = landed /\ parked' = <<>> /\ cuts' = <<>> /\ plan' = parked /\ breaks' = cuts
        /\ pc' = (IF parked = <<>> THEN "idle" ELSE "replay")
    BY <1>5 DEF TakeApply, live, ClearPreview
  <2>2. QED
    BY <2>1, NoPhases DEF PhaseInv, PrefixLands, Rehearsing
<1>6. CASE TakeRequest /\ ~TakeApply
  <2>1. landed' = landed /\ pc' \in {"idle", "start"}
    BY <1>6, TakeMoves, TakeParked DEF live
  <2>2. UNCHANGED <<parked, cuts>> \/ (parked' = <<>> /\ cuts' = <<>>)
    BY <1>6 DEF TakeRequest, TakePrompt, TakeDiscard, TakeNewChat, TakeSelectChat, TakeSwitch,
                GiveUpParked, ClearPreview, preview
  <2>3. QED
    BY <1>2, <2>1, <2>2 DEF Rehearsing
<1>7. QED
  BY <1>1, <1>3, <1>4, <1>5, <1>6, NextCases, PhaseRehearse, PhaseStart, PhaseFinish, PhaseReplay

(* Only a replay lands anything, and no prompt of what it lands was over. *)
LEMMA LandsOnce ==
  ASSUME TypeOK, LandInv, PhaseInv, [Next]_vars
  PROVE  \A i \in DOMAIN landed' \ DOMAIN landed :
           \A s \in Range(landed'[i].steps) : s.by \notin over
<1>1. CASE Replay
  <2>0. PICK phases : phases = Phases(plan, breaks)
    OBVIOUS
  <2>1. /\ plan \in Seq(Step) /\ breaks \in Seq(Nat) /\ landed \in Seq(Group)
        /\ plan # <<>> /\ Numbered(plan) /\ Cuts(breaks, Len(plan)) /\ PromptsOf(plan) \cap over = {}
    BY <1>1, ReplayFrame, TypeParts DEF RunType, LiveType, PhaseInv, LandInv
  <2>2. \A k \in 1 .. Len(phases) : Range(phases[k]) \subseteq Range(plan)
    BY <2>0, <2>1, PhasesOfPlan
  <2>3. PICK n \in 0 .. Len(phases) :
          /\ DOMAIN landed' = 1 .. Len(landed) + n
          /\ \A k \in 1 .. n : landed'[Len(landed) + k].steps = phases[k]
    BY <1>1, <2>0, ReplayGroups
  <2>4. Len(phases) \in Nat /\ n \in Nat /\ n <= Len(phases) /\ Len(landed) \in Nat
        /\ DOMAIN landed = 1 .. Len(landed)
    BY <1>1, <2>0, <2>1, <2>3, ReplayGroups
  <2>5. ASSUME NEW i \in DOMAIN landed' \ DOMAIN landed
        PROVE  Range(landed'[i].steps) \subseteq Range(plan)
    <3>1. i - Len(landed) \in 1 .. n /\ i = Len(landed) + (i - Len(landed))
      BY <2>3, <2>4
    <3>2. PICK k \in 1 .. n : i = Len(landed) + k
      BY <3>1
    <3>3. k \in 1 .. Len(phases)
      BY <2>4
    <3>4. QED
      BY <2>2, <2>3, <3>2, <3>3
  <2>6. QED
    BY <2>1, <2>5 DEF PromptsOf
<1>2. CASE ~Replay
  <2>1. landed' = landed
    BY <1>2, NextCases, OutsideStep, RehearseStep, StartCases, FinishCases, EndFrame, TakeMoves
       DEF vars, live, AbortStep, Abort
  <2>2. QED
    BY <2>1
<1>3. QED
  BY <1>1, <1>2

-----------------------------------------------------------------------------
(* What the conversation forgets *)

LEMMA RestoredForgets ==
  ASSUME TypeOK, ForgetInv, <<draft, chat>> \notin torn
  PROVE  Range(Restored) \cap (given \cup PromptsOf(parked)) = {}
<1>1. Range(Restored) \cap given = {}
  BY RestoredType DEF ForgetInv
<1>2. CASE parked = <<>>
  BY <1>1, <1>2, Empties
<1>3. CASE parked # <<>>
  <2>1. Restored = Loaded(checkpoint)
    BY <1>3, RestoredType DEF ForgetInv
  <2>2. QED
    BY <1>1, <2>1 DEF ForgetInv
<1>4. QED
  BY <1>2, <1>3

(* A save that leaves the plan parked, or that finds none. *)
LEMMA SaveForgets ==
  ASSUME TypeOK, ForgetInv, Save(history), UNCHANGED <<history, lines, draft, chat, given, preview>>,
         pc' = "idle"
  PROVE  ForgetInv'
<1>1. history \in Seq(Prompt) /\ draft \in Draft /\ chat \in Ids \cup {None}
  BY TypeParts DEF TalkType
<1>2. Told' = Told
  BY DEF Told, preview
<1>3. /\ torn \subseteq torn'
      /\ \A d \in Draft, i \in Ids :
           <<d, i>> # <<draft, chat>> =>
             chats'[d][i] = chats[d][i] /\ (<<d, i>> \in torn' => <<d, i>> \in torn)
  BY <1>1, SaveStep
<1>4. ASSUME NEW d \in Draft, NEW i \in Ids, <<d, i>> \notin torn' \cup {<<draft, chat>>}
      PROVE  Range(Loaded(chats'[d][i])) \cap (given \cup PromptsOf(parked)) = {}
  BY <1>3, <1>4 DEF ForgetInv
<1>5. ~lines /\ chat # None => chats'[draft][chat] = None
  BY DEF Save, ForgetInv, disk
<1>6. QED
  BY <1>2, <1>3, <1>4, <1>5 DEF ForgetInv, Prompting, Rehearsing, preview

(* As a plan is given up, the chat that held its prompts is saved without  *)
(* them; so no chat that was saved holds a prompt that was given up.       *)
LEMMA ChatsForget ==
  ASSUME TypeOK, ForgetInv, GiveUpParked, Save(Restored),
         NEW d \in Draft, NEW i \in Ids, <<d, i>> \notin torn'
  PROVE  Range(Loaded(chats'[d][i])) \cap given' = {}
<1>1. Restored \in Seq(Prompt) /\ given' = given \cup PromptsOf(parked)
  BY RestoredType, GivenUp
<1>2. CASE <<d, i>> # <<draft, chat>>
  <2>1. chats'[d][i] = chats[d][i] /\ <<d, i>> \notin torn
    BY <1>1, <1>2, SaveStep
  <2>2. QED
    BY <1>1, <1>2, <2>1 DEF ForgetInv
<1>3. CASE <<d, i>> = <<draft, chat>>
  <2>1. d = draft /\ i = chat /\ chat # None /\ <<draft, chat>> \notin torn'
    BY <1>3, Bounds
  <2>2. <<draft, chat>> \notin torn
    BY <1>1, <2>1, SaveStep
  <2>3. CASE chats'[draft][chat] = Restored
    BY <1>1, <2>1, <2>2, <2>3, RestoredForgets, LoadedSaid
  <2>4. CASE ~lines /\ chats' = chats
    <3>1. chats'[d][i] = None
      BY <2>1, <2>4 DEF ForgetInv
    <3>2. QED
      BY <3>1, Empties
  <2>5. QED
    BY <1>1, <2>1, <2>3, <2>4, SaveStep
<1>4. QED
  BY <1>2, <1>3

(* What is left to show where a plan is given up. *)
LEMMA GiveUpForgets ==
  ASSUME TypeOK, ForgetInv, GiveUpParked, Settle(Restored), pc = "idle",
         <<draft', chat'>> \notin torn' => Range(history') \cap given' = {},
         ~lines' => history' = <<>>,
         ~lines' /\ chat' # None => chats'[draft'][chat'] = None
  PROVE  ForgetInv'
<1>1. parked' = <<>> /\ checkpoint' = None
  BY GivenUp
<1>0. pc' = pc /\ now' = now /\ Save(Restored)
  BY DEF Settle
<1>2. Range(Loaded(checkpoint')) = {} /\ PromptsOf(parked') = {} /\ Loaded(checkpoint') = <<>>
  BY <1>1, Empties
<1>3. \A d \in Draft, i \in Ids : <<d, i>> \notin torn' => Range(Loaded(chats'[d][i])) \cap given' = {}
  BY <1>0, ChatsForget
<1>4. Told' = Range(history')
  BY <1>2 DEF Told
<1>5. QED
  BY <1>0, <1>1, <1>2, <1>3, <1>4 DEF ForgetInv, Prompting, Rehearsing

LEMMA ForgetSelect ==
  ASSUME TypeOK, ForgetInv, TakeSelectChat
  PROVE  ForgetInv'
<1> DEFINE id == Head(rx).id
<1>1. pc = "idle" /\ id \in Ids /\ draft \in Draft
  BY HeadOfRequests, TypeParts DEF TakeSelectChat, Requests, TalkType
<1>2. CASE UNCHANGED <<pc, now, published, over, given, cancel, live, gate, preview, talk, panel, run>>
  BY <1>2 DEF ForgetInv, Told, preview, talk, disk
<1>3. CASE /\ id # chat /\ GiveUpParked /\ Settle(Restored) /\ draft' = draft
           /\ chat' = id /\ history' = Loaded(chats'[draft][id])
           /\ lines' = (chats'[draft][id] # None)
  <2>1. <<draft, id>> \notin torn' => Range(history') \cap given' = {}
    BY <1>1, <1>3, ChatsForget DEF Settle
  <2>2. ~lines' => chats'[draft][id] = None /\ history' = <<>>
    BY <1>3, Empties
  <2>3. QED
    BY <1>1, <1>3, <2>1, <2>2, GiveUpForgets
<1>4. CASE /\ GiveUpParked /\ Settle(Restored) /\ draft' = draft
           /\ chat' = chat /\ history' = Restored /\ lines' = TRUE
  <2>1. <<draft, chat>> \notin torn' => Range(history') \cap given' = {}
    BY <1>4, RestoredType, RestoredForgets, SaveStep, GivenUp DEF Settle
  <2>2. QED
    BY <1>1, <1>4, <2>1, GiveUpForgets
<1>5. QED
  BY <1>2, <1>3, <1>4 DEF TakeSelectChat

LEMMA ForgetSwitch ==
  ASSUME TypeOK, ForgetInv, TakeSwitch
  PROVE  ForgetInv'
<1>1. /\ pc = "idle" /\ GiveUpParked /\ Settle(Restored) /\ draft' \in Draft
  BY HeadOfRequests DEF TakeSwitch, Requests
<1>2. newest' \in [Draft -> Ids \cup {None}]
  BY <1>1, RestoredType, SaveStep DEF Settle
<1>3. CASE /\ newest'[draft'] # None /\ chat' = newest'[draft']
           /\ history' \in {Loaded(chats'[draft'][chat']), <<>>} /\ lines' = TRUE
  <2>1. chat' \in Ids
    BY <1>1, <1>2, <1>3
  <2>2. <<draft', chat'>> \notin torn' => Range(Loaded(chats'[draft'][chat'])) \cap given' = {}
    BY <1>1, <2>1, ChatsForget DEF Settle
  <2>3. <<draft', chat'>> \notin torn' => Range(history') \cap given' = {}
    <3>1. CASE history' = Loaded(chats'[draft'][chat'])
      BY <2>2, <3>1
    <3>2. CASE history' = <<>>
      BY <3>2, Empties
    <3>3. QED
      BY <1>3, <3>1, <3>2
  <2>4. QED
    BY <1>1, <1>3, <2>3, GiveUpForgets
<1>4. CASE /\ chat' \in Allocated(chats'[draft']) /\ history' = <<>>
  <2>1. chat' # None => chats'[draft'][chat'] = None
    BY <1>4, AllocatedIds
  <2>2. Range(history') = {}
    BY <1>4, Empties
  <2>3. QED
    BY <1>1, <1>4, <2>1, <2>2, GiveUpForgets
<1>5. QED
  BY <1>3, <1>4 DEF TakeSwitch

LEMMA ForgetNew ==
  ASSUME TypeOK, ForgetInv, TakeNewChat
  PROVE  ForgetInv'
<1>1. /\ pc = "idle" /\ GiveUpParked /\ Settle(Restored) /\ draft' = draft
      /\ chat' \in Allocated(chats'[draft]) /\ history' = <<>>
  BY HeadOfRequests DEF TakeNewChat
<1>2. chat' # None => chats'[draft'][chat'] = None
  BY <1>1, AllocatedIds
<1>3. Range(history') = {}
  BY <1>1, Empties
<1>4. QED
  BY <1>1, <1>2, <1>3, GiveUpForgets

LEMMA ForgetDiscard ==
  ASSUME TypeOK, ForgetInv, TakeDiscard
  PROVE  ForgetInv'
<1>1. pc = "idle" /\ draft' = draft /\ chat' = chat
  BY HeadOfRequests DEF TakeDiscard
<1>2. CASE Settle(history) /\ UNCHANGED <<history, lines, preview, over, given>>
  BY <1>1, <1>2, SaveForgets DEF Settle
<1>3. CASE Settle(Restored) /\ history' = Restored /\ lines' = TRUE /\ GiveUpParked
  <2>1. <<draft, chat>> \notin torn' => Range(history') \cap given' = {}
    <3>1. torn \subseteq torn'
      BY <1>3, RestoredType, SaveStep DEF Settle
    <3>2. given' = given \cup PromptsOf(parked)
      BY <1>3, GivenUp
    <3>3. QED
      BY <1>3, <3>1, <3>2, RestoredForgets
  <2>2. QED
    BY <1>1, <1>3, <2>1, GiveUpForgets
<1>4. QED
  BY <1>2, <1>3 DEF TakeDiscard

LEMMA ForgetPrompt ==
  ASSUME TypeOK, ForgetInv, TakePrompt
  PROVE  ForgetInv'
<1>1. /\ pc' = "start" /\ lines' = TRUE /\ UNCHANGED <<draft, chats, newest, torn>>
      /\ now'.dry = Head(rx).dry
      /\ chat' = chat \/ (chat = None /\ chat' \in Ids \cup {None})
  BY AllocatedIds DEF TakePrompt, disk
<1>2. /\ history \in Seq(Prompt) /\ given \subseteq over /\ <<draft, None>> \notin torn
      /\ \A d \in Draft, i \in Ids : <<d, i>> # <<draft, None>>
  BY Bounds, TypeParts DEF TalkType, AgentType
<1>3. <<draft, chat'>> \notin torn' => <<draft, chat>> \notin torn
  BY <1>1, <1>2
<1>4. ASSUME NEW d \in Draft, NEW i \in Ids, <<d, i>> \notin torn' \cup {<<draft', chat'>>}
      PROVE  Range(Loaded(chats'[d][i])) \cap (given \cup PromptsOf(parked)) = {}
  <2>1. <<d, i>> \notin torn \cup {<<draft, chat>>}
    BY <1>1, <1>2, <1>4
  <2>2. QED
    BY <1>1, <2>1 DEF ForgetInv
<1>5. CASE /\ Head(rx).dry /\ parked = <<>>
           /\ checkpoint' = history /\ UNCHANGED <<history, parked, cuts, over, given>>
  <2>1. checkpoint' # None /\ Loaded(checkpoint') = history
    BY <1>2, <1>5, LoadedSaid
  <2>2. Told' \subseteq Told
    BY <1>5, <2>1 DEF Told
  <2>3. PromptsOf(parked') = {}
    BY <1>5, Empties
  <2>4. QED
    BY <1>1, <1>3, <1>4, <1>5, <2>1, <2>2, <2>3 DEF ForgetInv
<1>6. CASE ~Head(rx).dry /\ parked # <<>> /\ history' = Restored /\ GiveUpParked
  <2>1. /\ parked' = <<>> /\ checkpoint' = None /\ given' = given \cup PromptsOf(parked)
    BY <1>6, GivenUp
  <2>2. Range(Loaded(checkpoint')) = {} /\ PromptsOf(parked') = {}
    BY <2>1, Empties
  <2>3. <<draft, chat>> \notin torn => Told' \cap given' = {}
    BY <1>6, <2>1, <2>2, RestoredForgets DEF Told
  <2>4. QED
    BY <1>1, <1>3, <1>4, <1>6, <2>1, <2>2, <2>3 DEF ForgetInv
<1>7. CASE (Head(rx).dry => parked # <<>>) /\ UNCHANGED <<history, preview, over, given>>
  <2>1. Told' = Told /\ UNCHANGED <<parked, checkpoint, given>>
    BY <1>7 DEF Told, preview
  <2>2. QED
    BY <1>1, <1>3, <1>4, <1>7, <2>1 DEF ForgetInv
<1>8. QED
  BY <1>5, <1>6, <1>7 DEF TakePrompt

LEMMA ForgetApply ==
  ASSUME TypeOK, ForgetInv, TakeApply
  PROVE  ForgetInv'
<1>1. /\ parked' = <<>> /\ checkpoint' = None /\ UNCHANGED <<given, talk>> /\ pc' \in {"idle", "replay"}
  BY DEF TakeApply, ClearPreview
<1>2. Loaded(checkpoint') = <<>> /\ Range(<<>>) = {} /\ PromptsOf(parked') = {}
  BY <1>1, Empties
<1>3. Told' \subseteq Told
  BY <1>1, <1>2 DEF Told, talk
<1>4. QED
  BY <1>1, <1>2, <1>3 DEF ForgetInv, Prompting, Rehearsing, talk, disk

LEMMA ForgetFinish ==
  ASSUME TypeOK, NowInv, MirrorInv, ForgetInv, FinishStep
  PROVE  ForgetInv'
<1>1. pc \in Rehearsing /\ pc \in Prompting /\ pc' \in {"end", "replay"} /\ history' = Append(history, now.id)
      /\ UNCHANGED <<checkpoint, given, lines, draft, chat, chats, newest, torn>>
  BY FinishCases DEF Rehearsing, Prompting, disk
<1>2. /\ now.id \in Prompt /\ now.id \notin over /\ now.id \notin Told /\ now.id \notin Filed /\ lines
      /\ history \in Seq(Prompt) /\ given \subseteq over
  BY <1>1, TypeParts DEF NowInv, TalkType, AgentType
<1>3. Range(history') = Range(history) \cup {now.id}
  BY <1>1, <1>2, ElementsAfterAppend
<1>4. Told' = Told \cup {now.id} /\ now.id \notin given
  BY <1>1, <1>2, <1>3 DEF Told
<1>5. PromptsOf(parked') \subseteq PromptsOf(parked) \cup {now.id}
  BY <1>1, FinishCases, PlanPrompts
<1>6. parked' # <<>> => checkpoint # None
  <2>1. parked' = parked \/ now.dry
    BY FinishCases
  <2>2. QED
    BY <1>1, <2>1 DEF ForgetInv
<1>7. Range(Loaded(checkpoint)) \cap PromptsOf(parked') = {}
  BY <1>2, <1>5 DEF ForgetInv, Told
<1>8. ASSUME NEW d \in Draft, NEW i \in Ids, <<d, i>> \notin torn \cup {<<draft, chat>>}
      PROVE  Range(Loaded(chats[d][i])) \cap (given \cup PromptsOf(parked')) = {}
  <2>1. now.id \notin Range(Loaded(chats[d][i]))
    BY <1>2 DEF Filed
  <2>2. QED
    BY <1>5, <1>8, <2>1 DEF ForgetInv
<1>9. QED
  BY <1>1, <1>2, <1>4, <1>6, <1>7, <1>8 DEF ForgetInv, Prompting, Rehearsing

LEMMA ForgetStep ==
  ASSUME TypeOK, NowInv, MirrorInv, ForgetInv, [Next]_vars
  PROVE  ForgetInv'
<1>1. ASSUME UNCHANGED <<parked, checkpoint, given, talk>>,
             pc' \in Prompting => pc \in Prompting /\ now'.dry = now.dry
      PROVE  ForgetInv'
  BY <1>1 DEF ForgetInv, Told, talk, disk
<1>2. CASE UNCHANGED vars \/ Outside
  BY <1>1, <1>2, OutsideStep DEF vars, agent, preview
<1>3. CASE Rehearse
  BY <1>1, <1>3, RehearseStep DEF Moves, preview, Prompting, Rehearsing
<1>4. CASE StartPrompt
  BY <1>1, <1>4, StartCases DEF Prompting
<1>5. CASE AbortStep
  BY <1>1, <1>5 DEF AbortStep, Abort, preview, Prompting, Rehearsing
<1>6. CASE Replay
  BY <1>1, <1>6, ReplayFrame DEF preview, Prompting, Rehearsing
<1>7. CASE EndRequest
  BY <1>7, EndFrame, SaveForgets
<1>8. QED
  BY <1>2, <1>3, <1>4, <1>5, <1>6, <1>7, NextCases, ForgetFinish, ForgetPrompt, ForgetApply,
     ForgetDiscard, ForgetNew, ForgetSelect, ForgetSwitch DEF TakeRequest

-----------------------------------------------------------------------------
(* The theorems *)

LEMMA InitInv ==
  ASSUME Init
  PROVE  IInv
<1>1. TypeOK
  BY InitTypes
<1>2. /\ pc = "idle" /\ presses = <<>> /\ read = 0 /\ pending = 0 /\ lastId = 0 /\ rx = <<>>
      /\ parked = <<>> /\ cuts = <<>> /\ checkpoint = None /\ history = <<>> /\ sandbox = <<>>
      /\ plan = <<>> /\ given = {} /\ over = {} /\ landed = <<>> /\ now.id = 0
      /\ sent.prompts = 0 /\ chats = [d \in Draft |-> [i \in Ids |-> None]]
      /\ draft \in Draft /\ chat \in Ids
  BY Bounds DEF Init, Nothing
<1>3. GateInv
  BY <1>2 DEF GateInv
<1>4. Told = {} /\ Filed = {} /\ PromptsOf(parked) = {} /\ PromptsOf(plan) = {}
  <2>1. \A d \in Draft, i \in Ids : chats[d][i] = None
    BY <1>2
  <2>2. QED
    BY <1>2, <2>1, Empties DEF Told, Filed
<1>5. FreshInv
  BY <1>2, <1>4 DEF FreshInv, Begun, Met
<1>6. NowInv
  BY <1>2 DEF NowInv, Prompting, Rehearsing
<1>7. MirrorInv
  BY <1>2, Empties DEF MirrorInv, Prompting, Rehearsing
<1>8. LandInv
  BY <1>2, <1>4 DEF LandInv
<1>9. ForgetInv
  <2>1. chats[draft][chat] = None
    BY <1>2
  <2>2. \A d \in Draft, i \in Ids : Range(Loaded(chats[d][i])) = {}
    BY <1>4 DEF Filed
  <2>3. QED
    BY <1>2, <1>4, <2>1, <2>2, Empties DEF ForgetInv, Prompting, Rehearsing
<1>10. PhaseInv
  BY <1>2, NoPhases DEF PhaseInv, PrefixLands, Rehearsing
<1>11. QED
  BY <1>1, <1>3, <1>5, <1>6, <1>7, <1>8, <1>9, <1>10 DEF IInv, SessionInv

LEMMA InvStep ==
  ASSUME IInv, [Next]_vars
  PROVE  IInv'
<1>1. TypeOK'
  BY TypeStep
<1>2. SessionInv'
  BY GateStep, FreshStep, NowStep, MirrorStep, LandStep, ForgetStep, PhaseStep DEF IInv, SessionInv
<1>3. QED
  BY <1>1, <1>2 DEF IInv

LEMMA InvariantHolds == Spec => []IInv
<1>1. Init => IInv
  BY InitInv
<1>2. IInv /\ [Next]_vars => IInv'
  BY InvStep
<1>3. QED
  BY <1>1, <1>2, PTL DEF Spec

(***************************************************************************)
(* Every variable keeps its type, for every number of drafts, chats,       *)
(* prompts, turns and tool calls.                                          *)
(***************************************************************************)
THEOREM TypeCorrect == Spec => []TypeOK
<1>1. IInv => TypeOK
  BY DEF IInv
<1>2. QED
  BY <1>1, InvariantHolds, PTL

(***************************************************************************)
(* The model is shown what its plan will do: the sandbox holds the steps   *)
(* of the plan and nothing else, from one snapshot, also when a dry run    *)
(* continues a parked plan, is aborted, or calls a project tool            *)
(* (sandbox.rs, run.rs:494).                                               *)
(***************************************************************************)
THEOREM SandboxMirrorsPlanHolds == Spec => []SandboxMirrorsPlan
<1>1. IInv => SandboxMirrorsPlan
  BY MirrorShows DEF IInv, SessionInv
<1>2. QED
  BY <1>1, InvariantHolds, PTL

(***************************************************************************)
(* No step lands that was replayed before, or whose prompt was aborted or  *)
(* given up: whatever the user clicks in between (run.rs, agent_bridge.rs).*)
(***************************************************************************)
THEOREM StepsLandOnceHolds == Spec => StepsLandOnce
<1>1. IInv /\ [Next]_vars =>
        [\A i \in DOMAIN landed' \ DOMAIN landed :
           \A s \in Range(landed'[i].steps) : s.by \notin over]_vars
  BY LandsOnce DEF IInv, SessionInv
<1>2. QED
  BY <1>1, InvariantHolds, PTL DEF Spec, StepsLandOnce

(***************************************************************************)
(* A plan lands in its order and from its start, in whole phases, however  *)
(* many dry runs made it and wherever a phase fails (run.rs:591).          *)
(***************************************************************************)
THEOREM PrefixLandsHolds == Spec => []PrefixLands
<1>1. IInv => PrefixLands
  BY DEF IInv, SessionInv, PhaseInv
<1>2. QED
  BY <1>1, InvariantHolds, PTL

(***************************************************************************)
(* No conversation, open or opened again, tells of a plan that was given   *)
(* up, unless its chat could not be saved (run.rs, agent_session.rs).      *)
(***************************************************************************)
THEOREM HistoryForgetsHolds == Spec => []HistoryForgets
<1>1. IInv => HistoryForgets
  BY DEF IInv, SessionInv, ForgetInv, HistoryForgets, Told
<1>2. QED
  BY <1>1, InvariantHolds, PTL

(***************************************************************************)
(* A system tool runs only if Run was the first button pressed on its call *)
(* (approval.rs, tool_host.rs).                                            *)
(***************************************************************************)
THEOREM FirstPressDecidesHolds == Spec => []FirstPressDecides
<1>1. IInv => FirstPressDecides
  BY GateShows DEF IInv, SessionInv
<1>2. QED
  BY <1>1, InvariantHolds, PTL
=============================================================================
