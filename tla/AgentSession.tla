---------------------------- MODULE AgentSession ----------------------------
(***************************************************************************)
(* The agent thread of the desktop application (agent/run.rs, agent_main), *)
(* with the panel that sends it requests (agent.slint, wire_engine.rs),    *)
(* the approval gate for system tools (tool_host.rs, approval.rs), the     *)
(* preview worker that takes snapshots and replays plans (agent_bridge.rs) *)
(* and the chats kept beside each draft (agent_session.rs).                *)
(*                                                                         *)
(* A prompt either lands its plan at once or, as a dry run, parks it until *)
(* Apply or Discard.  The conversation is a sequence of prompts; a parked  *)
(* plan comes with a checkpoint of the conversation to go back to.         *)
(*                                                                         *)
(* What the agent tells the panel arrives later: published is what was     *)
(* sent, shown what the user sees.                                         *)
(***************************************************************************)
EXTENDS PromptRun, SequencesExt

CONSTANTS
  None,         \* no chat, no draft, no checkpoint
  MaxPrompts,   \* bound: prompts sent
  MaxRequests,  \* bound: other requests of the user
  MaxOpens,     \* bound: drafts opened
  MaxPresses,   \* bound: presses of Run and Decline
  MaxChats,     \* bound: chats of a draft
  Tools         \* the system tools: those of the project, the others

ASSUME SessionAssumption ==
  /\ {MaxPrompts, MaxRequests, MaxOpens, MaxPresses} \subseteq Nat /\ MaxChats \in Nat \ {0}
  /\ None \notin Draft \cup (1 .. MaxChats)
  /\ None \notin Seq(Nat)
  /\ Tools \subseteq {"project", "system"}

VARIABLES
  open,        \* the draft the preview worker has open
  opens,       \* how many were opened
  landed,      \* the undo groups replayed so far, each with its draft
  epoch,       \* the panel has a session change to announce
  shown,       \* prompt running, plan parked, approval card: as shown
  published,   \* the same, as the agent thread sent it
  sent,        \* how many prompts and other requests the user sent
  rx,          \* the requests on the way to the agent thread
  cancel,      \* the flag Stop raises
  presses,     \* the decisions sent on the approval channel
  read,        \* how many of them were received
  pending,     \* pending_approval_id
  lastId,      \* approval_id_allocator
  pc,          \* where the agent thread is
  now,         \* the prompt it works on: its number, dry run, host tool
  parked,      \* Preview.plan
  cuts,        \* Preview.phase_breaks
  checkpoint,  \* Preview.history_restore
  history,     \* the conversation, as the prompts in it
  lines,       \* the transcript is not empty
  draft,       \* current_project
  chat,        \* current_chat_id
  chats,       \* the chats on disk: what each one of each draft holds
  newest,      \* the chat of each draft that was saved last
  given,       \* the prompts whose parked plan was given up
  over,        \* the prompts whose edits were rolled back, given up or replayed
  torn         \* the chats that were not saved at some time

live == <<open, opens, landed>>
gate == <<presses, read, pending, lastId>>
preview == <<parked, cuts, checkpoint>>
disk == <<chats, newest, torn>>
talk == <<history, lines, draft, chat, disk>>
agent == <<pc, now, published, over, given, cancel, rx>>
panel == <<epoch, shown, sent>>
vars == <<live, gate, preview, talk, agent, panel, run>>

Ids == 1 .. MaxChats

Nothing == [id |-> 0, dry |-> FALSE, tool |-> None]

Init ==
  /\ open \in Draft /\ opens = 0 /\ landed = <<>>
  /\ published = [running |-> FALSE, plan |-> FALSE, card |-> 0]
  /\ epoch = FALSE /\ shown = published /\ sent = [prompts |-> 0, others |-> 0]
  /\ rx = <<>> /\ cancel = FALSE /\ presses = <<>> /\ read = 0 /\ pending = 0 /\ lastId = 0
  /\ pc = "idle" /\ now = Nothing
  /\ parked = <<>> /\ cuts = <<>> /\ checkpoint = None
  /\ history = <<>> /\ lines = FALSE /\ draft = open /\ chat = 1
  /\ chats = [d \in Draft |-> [i \in Ids |-> None]] /\ newest = [d \in Draft |-> None]
  /\ given = {} /\ over = {} /\ torn = {}
  /\ base = open /\ sandbox = <<>> /\ mark = 0 /\ plan = <<>>
  /\ breaks = <<>> /\ loop = Fresh

-----------------------------------------------------------------------------
(* The user, at the panel. *)

Request(r) ==
  /\ rx' = Append(rx, r)
  /\ UNCHANGED <<live, gate, preview, talk, pc, now, published, over, given, run>>

SendPrompt(dry) ==
  /\ ~shown.running /\ sent.prompts < MaxPrompts
  /\ sent' = [sent EXCEPT !.prompts = @ + 1]
  /\ Request([type |-> "prompt", id |-> sent.prompts + 1, dry |-> dry])
  /\ UNCHANGED <<epoch, shown, cancel>>

SendOther(r) ==
  /\ sent.others < MaxRequests
  /\ sent' = [sent EXCEPT !.others = @ + 1]
  /\ Request(r)
  /\ UNCHANGED <<epoch, shown, cancel>>

SendApply == shown.plan /\ SendOther([type |-> "apply"])
SendDiscard == shown.plan /\ SendOther([type |-> "discard"])
SendNewChat == ~shown.running /\ SendOther([type |-> "new"])

(* The list of chats may be the one of the draft before. *)
SendSelectChat(id) ==
  /\ ~shown.running
  /\ \E d \in Draft : chats[d][id] # None
  /\ SendOther([type |-> "select", id |-> id])

Stop ==
  /\ shown.running /\ ~cancel
  /\ cancel' = TRUE
  /\ UNCHANGED <<live, gate, preview, talk, pc, now, published, over, given, rx>>
  /\ UNCHANGED <<panel, run>>

(* Run and Decline name the call that is pending when they are pressed. *)
Decide(ok) ==
  /\ shown.card # 0 /\ pending # 0
  /\ Len(presses) < MaxPresses
  /\ presses' = Append(presses, [id |-> pending, ok |-> ok, card |-> shown.card])
  /\ UNCHANGED <<live, read, pending, lastId, preview, talk, agent, panel, run>>

(* The event loop runs what the agent thread queued. *)
Refresh ==
  /\ shown # published
  /\ shown' = published
  /\ UNCHANGED <<live, gate, preview, talk, agent, epoch, sent, run>>

(* on_session_changed. *)
Announce ==
  /\ epoch
  /\ epoch' = FALSE
  /\ cancel' = TRUE
  /\ Request([type |-> "switch", to |-> open])
  /\ UNCHANGED <<shown, sent>>

-----------------------------------------------------------------------------
(* The preview worker. *)

OpenDraft(d) ==
  /\ opens < MaxOpens /\ d # open
  /\ open' = d /\ opens' = opens + 1
  /\ epoch' = TRUE
  /\ UNCHANGED <<landed, gate, preview, talk, agent, shown, sent, run>>

-----------------------------------------------------------------------------
(* The chats on disk. *)

(* persist_session: nothing to save, a save, or an error. *)
Save(said) ==
  IF chat = None \/ (said = <<>> /\ ~lines) THEN UNCHANGED disk
  ELSE \/ /\ chats' = [chats EXCEPT ![draft][chat] = said]
          /\ newest' = [newest EXCEPT ![draft] = chat]
          /\ UNCHANGED torn
       \/ torn' = torn \cup {<<draft, chat>>} /\ UNCHANGED <<chats, newest>>

(* allocate_chat_id: an id no file has, or an error. *)
Allocated(files) ==
  LET free == {i \in Ids : files[i] = None}
  IN {None} \cup {i \in free : \A j \in free : i <= j}

(* load_chat: what was saved, nothing if there is no such file. *)
Loaded(file) == IF file = None THEN <<>> ELSE file

\* A fault: the checkpoint is not gone back to.
RestoredNever == history

(* The conversation without the dry runs whose plan is parked, *)
Restored == IF checkpoint = None THEN history ELSE checkpoint

\* A fault: the plan stays when its preview is cleared.
ClearPreviewPartly == cuts' = <<>> /\ checkpoint' = None /\ UNCHANGED parked

(* and the end of that plan. *)
ClearPreview == parked' = <<>> /\ cuts' = <<>> /\ checkpoint' = None

(* The prompts that steps come from. *)
PromptsOf(steps) == {s.by : s \in Range(steps)}

GiveUpParked ==
  /\ ClearPreview
  /\ given' = given \cup PromptsOf(parked)
  /\ over' = over \cup given'

-----------------------------------------------------------------------------
(* The agent thread takes a request. *)

Publish(running, pl, card) ==
  published' = [running |-> running, plan |-> pl, card |-> card]

Take(type) == pc = "idle" /\ rx # <<>> /\ Head(rx).type = type /\ rx' = Tail(rx)

TakePrompt ==
  /\ Take("prompt")
  /\ pc' = "start"
  /\ now' = [id |-> Head(rx).id, dry |-> Head(rx).dry, tool |-> None]
  /\ cancel' = FALSE
  /\ lines' = TRUE
  /\ chat' \in IF chat = None THEN Allocated(chats[draft]) ELSE {chat}
  /\ Publish(TRUE, FALSE, 0)
  /\ CASE Head(rx).dry /\ parked = <<>> ->
            /\ checkpoint' = history
            /\ UNCHANGED <<history, parked, cuts, over, given>>
       [] ~Head(rx).dry /\ parked # <<>> -> history' = Restored /\ GiveUpParked
       [] OTHER -> UNCHANGED <<history, preview, over, given>>
  /\ UNCHANGED <<live, gate, draft, disk, panel, run>>

(* Nothing is done when there is no plan, but the checkpoint is lost. *)
TakeApply ==
  /\ Take("apply")
  /\ Publish(published.running, FALSE, 0)
  /\ ClearPreview
  /\ plan' = parked /\ breaks' = cuts
  /\ pc' = IF parked = <<>> THEN "idle" ELSE "replay"
  /\ UNCHANGED <<now, over, given, cancel, base, sandbox, mark, loop>>
  /\ UNCHANGED <<live, gate, talk, panel>>

Settle(said) ==
  /\ Save(said)
  /\ Publish(published.running, FALSE, 0)
  /\ UNCHANGED <<pc, now, cancel, live, gate, panel, run>>

TakeDiscard ==
  /\ Take("discard")
  /\ IF parked = <<>> THEN Settle(history) /\ UNCHANGED <<history, lines, preview, over, given>>
     ELSE Settle(Restored) /\ history' = Restored /\ lines' = TRUE /\ GiveUpParked
  /\ UNCHANGED <<draft, chat>>

TakeNewChat ==
  /\ Take("new")
  /\ GiveUpParked
  /\ Settle(Restored)
  /\ chat' \in Allocated(chats'[draft])
  /\ history' = <<>> /\ lines' = FALSE
  /\ UNCHANGED draft

(* The chat that is open already, another one, or one that cannot be read. *)
TakeSelectChat ==
  /\ Take("select")
  /\ LET id == Head(rx).id IN
     \/ /\ id = chat
        /\ UNCHANGED <<pc, now, published, over, given, cancel, live, gate, preview, talk, panel, run>>
     \/ /\ id # chat
        /\ GiveUpParked
        /\ Settle(Restored)
        /\ \/ /\ chat' = id /\ history' = Loaded(chats'[draft][id])
              /\ lines' = (chats'[draft][id] # None)
           \/ chat' = chat /\ history' = Restored /\ lines' = TRUE
        /\ UNCHANGED draft

(* The newest chat of the draft, empty if it cannot be read; or a new one. *)
TakeSwitch ==
  /\ Take("switch")
  /\ GiveUpParked
  /\ Settle(Restored)
  /\ draft' = Head(rx).to
  /\ \/ /\ newest'[draft'] # None
        /\ chat' = newest'[draft']
        /\ history' \in {Loaded(chats'[draft'][chat']), <<>>}
        /\ lines' = TRUE
     \/ /\ chat' \in Allocated(chats'[draft'])
        /\ history' = <<>> /\ lines' \in {TRUE, newest'[draft'] # None}

-----------------------------------------------------------------------------
(* run_one_prompt. *)

Goto(step) ==
  /\ pc' = step
  /\ UNCHANGED <<now, over, given, cancel, rx>>

Within(from, to) ==
  /\ pc = from /\ Goto(to)
  /\ UNCHANGED <<published, live, gate, preview, talk, panel>>

(* No settings, no provider or no sandbox; a parked plan to continue; or a *)
(* snapshot of the live project.                                           *)
StartPrompt ==
  \/ Within("start", "end") /\ UNCHANGED run
  \/ parked # <<>> /\ Continue(parked) /\ StartLoop /\ Within("start", "ask")
  \/ /\ parked = <<>> /\ Reset(open) /\ StartLoop
     /\ pc = "start" /\ Goto("ask")
     /\ cuts' = <<>>
     /\ UNCHANGED <<live, published, gate, parked, checkpoint, talk, panel>>

(* Roll back, and keep what was parked. *)
Abort ==
  /\ RollBackGroup
  /\ pc' = "end"
  /\ over' = over \cup {now.id}
  /\ Publish(TRUE, parked # <<>>, 0)
  /\ UNCHANGED <<now, given, cancel, rx, live, gate, preview, talk, panel>>

(* Keep the edits: a dry run parks them, any other prompt replays them. *)
Finish ==
  /\ history' = Append(history, now.id)
  /\ IF now.dry
     THEN /\ parked' = plan
          /\ cuts' = cuts \o [i \in DOMAIN breaks |-> Len(parked) + breaks[i]]
          /\ pc' = "end"
          /\ Publish(TRUE, plan # <<>>, 0)
     ELSE /\ pc' = IF plan = <<>> THEN "end" ELSE "replay"
          /\ UNCHANGED <<parked, cuts, published>>
  /\ UNCHANGED <<checkpoint, now, over, given, cancel, rx, live, gate, panel, run>>
  /\ UNCHANGED <<lines, draft, chat, disk>>

(* The provider fails, or sees the flag; answers; or asks for tools. *)
AskProvider ==
  /\ pc = "ask"
  /\ \/ Abort
     \/ ~cancel /\ Finish
     \/ ~cancel /\ NextTurn /\ Within("ask", "calls")

EditCall == Edit(now.id) /\ Within("calls", "calls")
CommitCall == CommitProgress /\ Within("calls", "calls")

(* Senses, app and job tools; and calls that are refused: staged edits     *)
(* forbid the project tools.                                               *)
PlainCall == ChargeHost /\ Within("calls", "calls")

(* project_save changes nothing of the project, but is reconciled. *)
SaveCall == plan = <<>> /\ ChargeHost /\ Within("calls", "reconcile")

TooManyHostCalls == pc = "calls" /\ loop.hosts = MaxHosts /\ Abort

(* authorize: a fresh id becomes the pending one, and its card is sent. *)
SystemCall(tool) ==
  /\ pc = "calls" /\ ~cancel /\ pending = 0
  /\ tool = "project" => plan = <<>>
  /\ ChargeHost
  /\ pc' = "card"
  /\ now' = [now EXCEPT !.tool = tool]
  /\ lastId' = lastId + 1 /\ pending' = lastId'
  /\ Publish(TRUE, FALSE, lastId')
  /\ UNCHANGED <<presses, read, over, given, cancel, rx, live, preview, talk, panel>>

(* The agent waits until the card is shown, for a while. *)
CardShown == shown.card = pending /\ UNCHANGED run /\ Within("card", "wait")

Withdraw(step) ==
  /\ pending' = 0
  /\ Publish(TRUE, FALSE, 0)
  /\ Goto(step)
  /\ UNCHANGED <<presses, lastId, live, preview, talk, panel, run>>

CardNotShown ==
  /\ pc = "card" /\ shown.card # pending
  /\ Withdraw("calls")
  /\ UNCHANGED read

(* wait_for_system_tool_approval: decisions on other calls are skipped. *)
SkipDecision ==
  /\ ~cancel
  /\ read < Len(presses) /\ presses[read + 1].id # pending
  /\ read' = read + 1
  /\ pc = "wait" /\ Goto("wait")
  /\ UNCHANGED <<presses, pending, lastId, published, live, preview, talk, panel, run>>

\* A fault: any decision is taken for the one that is waited for.
TakeDecisionOfAny ==
  /\ pc = "wait"
  /\ read < Len(presses)
  /\ read' = read + 1
  /\ Withdraw(IF presses[read + 1].ok /\ ~cancel THEN "tool" ELSE "calls")

TakeDecision ==
  /\ pc = "wait"
  /\ read < Len(presses) /\ presses[read + 1].id = pending
  /\ read' = read + 1
  /\ Withdraw(IF presses[read + 1].ok /\ ~cancel THEN "tool" ELSE "calls")

\* A fault: Stop is looked at only when a decision arrives.
StopWaitingLater ==
  pc = "wait" /\ cancel /\ read < Len(presses) /\ Withdraw("calls") /\ UNCHANGED read

StopWaiting == pc = "wait" /\ cancel /\ Withdraw("calls") /\ UNCHANGED read

(* A project tool opens a draft, imports a file, or fails. *)
RunTool ==
  /\ pc = "tool"
  /\ \/ now.tool = "system" /\ UNCHANGED run /\ Within("tool", "calls")
     \/ now.tool = "project" /\ UNCHANGED run /\ Within("tool", "reconcile")
     \/ /\ now.tool = "project" /\ ~cancel /\ opens < MaxOpens
        /\ \E d \in Draft \ {open} : open' = d
        /\ opens' = opens + 1 /\ epoch' = TRUE
        /\ Goto("reconcile")
        /\ UNCHANGED <<landed, shown, sent, published, gate, preview, talk, run>>

ReconcileCall ==
  /\ pc = "reconcile" /\ Goto("calls")
  /\ Reconcile(open)
  /\ UNCHANGED <<live, published, gate, preview, talk, panel>>

(* Every call of the turn is answered. *)
EndTurn ==
  /\ pc = "calls"
  /\ \/ Capped /\ Finish
     \/ ~Capped /\ LastTurn /\ Abort
     \/ ~Capped /\ ~LastTurn /\ UNCHANGED run /\ Within("calls", "ask")

\* A fault: the phases behind a failing one are replayed too.
ReplayOn ==
  /\ pc = "replay" /\ pc' = "end"
  /\ \E ok \in SUBSET (DOMAIN Phases(plan, breaks)) :
       landed' = landed \o
         [i \in 1 .. Cardinality(ok) |->
            [on |-> open,
             steps |-> Phases(plan, breaks)[CHOOSE n \in ok : Cardinality({m \in ok : m <= n}) = i]]]
  /\ over' = over \cup PromptsOf(plan)
  /\ UNCHANGED <<open, opens, now, published, given, cancel, rx>>
  /\ UNCHANGED <<gate, preview, talk, panel, run>>

(* agent_replay, on whatever draft is open: one undo group per phase.  A   *)
(* step may fail, as the user edits the project meanwhile; its phase is    *)
(* rolled back and ends the replay.                                        *)
Replay ==
  /\ pc = "replay" /\ pc' = "end"
  /\ LET phases == Phases(plan, breaks) IN
     \E n \in 0 .. Len(phases) :
       landed' = landed \o [i \in 1 .. n |-> [on |-> open, steps |-> phases[i]]]
  /\ over' = over \cup PromptsOf(plan)
  /\ UNCHANGED <<open, opens, now, published, given, cancel, rx>>
  /\ UNCHANGED <<gate, preview, talk, panel, run>>

(* The variables of run_one_prompt are gone; the sandbox of no parked plan *)
(* is not looked at again.                                                 *)
EndRequest ==
  /\ pc = "end" /\ pc' = "idle"
  /\ Save(history)
  /\ Publish(FALSE, published.plan, 0)
  /\ now' = Nothing
  /\ sandbox' = IF parked = <<>> THEN <<>> ELSE sandbox
  /\ mark' = 0 /\ plan' = <<>> /\ breaks' = <<>> /\ loop' = Fresh
  /\ UNCHANGED <<base, over, given, cancel, rx>>
  /\ UNCHANGED <<history, lines, draft, chat, live, gate, preview, panel>>

-----------------------------------------------------------------------------
TakeRequest ==
  \/ TakePrompt \/ TakeApply \/ TakeDiscard
  \/ TakeNewChat \/ TakeSelectChat \/ TakeSwitch

HostCall ==
  \/ PlainCall \/ SaveCall \/ TooManyHostCalls
  \/ \E tool \in Tools : SystemCall(tool)

Approval == CardShown \/ CardNotShown \/ SkipDecision \/ TakeDecision \/ StopWaiting

RunPrompt ==
  \/ StartPrompt \/ AskProvider \/ EditCall \/ CommitCall \/ HostCall \/ Approval
  \/ RunTool \/ ReconcileCall \/ EndTurn \/ Replay \/ EndRequest

User ==
  \/ \E dry \in BOOLEAN : SendPrompt(dry)
  \/ SendApply \/ SendDiscard \/ SendNewChat \/ \E id \in Ids : SendSelectChat(id)
  \/ Stop \/ \E ok \in BOOLEAN : Decide(ok)

Next ==
  \/ User \/ Refresh \/ Announce
  \/ \E d \in Draft : OpenDraft(d)
  \/ TakeRequest \/ RunPrompt

Spec == Init /\ [][Next]_vars

(* The agent thread goes on: the provider answers or fails, in the end,    *)
(* and the model ends each turn.                                           *)
FairSpec == Spec /\ WF_vars(RunPrompt)
-----------------------------------------------------------------------------
Busy == {"start", "ask", "calls", "card", "wait", "tool", "reconcile", "replay", "end"}
Prompt == 1 .. MaxPrompts
Step == [by : Prompt, nth : Nat \ {0}, on : Draft]
Group == [on : Draft, steps : Seq(Step)]
Panel == [running : BOOLEAN, plan : BOOLEAN, card : Nat]

Requests ==
  [type : {"prompt"}, id : Prompt, dry : BOOLEAN] \cup [type : {"apply", "discard", "new"}]
    \cup [type : {"select"}, id : Ids] \cup [type : {"switch"}, to : Draft]

(* Types. *)
TypeOK ==
  /\ open \in Draft /\ draft \in Draft /\ base \in Draft
  /\ opens \in 0 .. MaxOpens
  /\ {epoch, cancel, lines} \subseteq BOOLEAN
  /\ landed \in Seq(Group)
  /\ shown \in Panel /\ published \in Panel
  /\ sent \in [prompts : 0 .. MaxPrompts, others : 0 .. MaxRequests]
  /\ rx \in Seq(Requests)
  /\ presses \in Seq([id : Nat, ok : BOOLEAN, card : Nat]) /\ read \in 0 .. Len(presses)
  /\ pending \in {0, lastId} /\ lastId \in Nat
  /\ pc \in Busy \cup {"idle"}
  /\ now \in [id : Prompt \cup {0}, dry : BOOLEAN, tool : Tools \cup {None}]
  /\ parked \in Seq(Step) /\ plan \in Seq(Step) /\ sandbox \in Seq(Step)
  /\ mark \in Nat /\ cuts \in Seq(Nat) /\ breaks \in Seq(Nat)
  /\ loop \in [turns : Nat, edits : Nat, hosts : Nat, done : Nat]
  /\ checkpoint \in Seq(Prompt) \cup {None} /\ history \in Seq(Prompt)
  /\ chat \in Ids \cup {None}
  /\ chats \in [Draft -> [Ids -> Seq(Prompt) \cup {None}]]
  /\ newest \in [Draft -> Ids \cup {None}] /\ torn \subseteq Draft \X Ids
  /\ given \subseteq over /\ over \subseteq Prompt

(* What the model is shown is what its plan will do: through continued dry *)
(* runs, aborts, project tools and discarded plans, the sandbox holds the  *)
(* steps of the plan and nothing else, from one snapshot.                  *)
SandboxMirrorsPlan ==
  /\ pc \in Busy \ {"start", "replay", "end"} => sandbox = plan
  /\ parked # <<>> /\ pc = "idle" => sandbox = parked
  /\ \A s \in Range(sandbox) : s.on = base

(* A step lands once at most, and never after its prompt was aborted,      *)
(* given up or replayed: whatever clicks of Apply and Discard, new chats   *)
(* and other prompts come in between.                                      *)
StepsLandOnce ==
  [][\A i \in DOMAIN landed' \ DOMAIN landed :
       \A s \in Range(landed'[i].steps) : s.by \notin over]_vars

(* A plan lands in its order and from its start, in whole phases: a        *)
(* failing phase keeps the later ones, that were rehearsed on top of it,   *)
(* from landing, also when several dry runs made the plan.                 *)
PrefixLands ==
  \A g \in DOMAIN landed :
    LET steps == landed[g].steps
        before == landed[g - 1].steps
    IN /\ steps # <<>>
       /\ \A i \in 1 .. Len(steps) - 1 : steps[i + 1].nth = steps[i].nth + 1
       /\ steps[1].nth > 1 => g > 1 /\ before[Len(before)].nth + 1 = steps[1].nth

(* When a parked plan is given up the conversation forgets it: the next    *)
(* prompt, in this chat or in one that is opened again, is not told of     *)
(* edits that never landed, unless the chat could not be saved.            *)
HistoryForgets ==
  <<draft, chat>> \notin torn => Range(history) \cap given = {}

(* A system tool runs only if the first press that carries the id of its   *)
(* call was Run: one sent while an earlier call was pending, though it is  *)
(* read late, and any after the first decide nothing.  The id is that of   *)
(* the call pending at the press, whichever card the user then sees:       *)
(* ApprovedCardWasShown is about that.                                     *)
FirstPressDecides ==
  pc = "tool" =>
    \E i \in DOMAIN presses :
      /\ presses[i].id = lastId /\ presses[i].ok
      /\ \A j \in 1 .. i - 1 : presses[j].id # lastId

(* Stop, or a change of the project, ends the prompt that runs, even while *)
(* it waits for an approval.                                               *)
StopEndsPrompt == (cancel /\ pc # "idle") ~> (pc = "idle")

(* A plan lands on the project it was rehearsed on. *)
PlanStaysWithItsProject ==
  \A g \in Range(landed) : \A s \in Range(g.steps) : s.on = g.on

(* "A delayed duplicate click can never authorize a later call"            *)
(* (types.rs:107-109): a system tool runs only on a press of Run made on   *)
(* the card of that very call.                                             *)
ApprovedCardWasShown ==
  pc = "tool" => \E p \in Range(presses) : p.id = lastId /\ p.ok /\ p.card = lastId
=============================================================================
