------------------------------- MODULE Drafts -------------------------------
(***************************************************************************)
(* The drafts of the desktop application and the session bound to one of   *)
(* them: the preview worker that saves, opens and replaces the session     *)
(* (preview_worker/project.rs over the engine's project commands), the UI  *)
(* thread's requests (session.rs, wire_timeline.rs), the template thread   *)
(* (templates.rs), the agent that opens drafts and keeps its chats beside  *)
(* them (agent_project.rs, agent_session.rs), and the end of the process.  *)
(*                                                                         *)
(* A request is several messages, sent one at a time: messages of other    *)
(* threads come between them in the worker's queue.                        *)
(***************************************************************************)
EXTENDS FileReplace, Sequences

CONSTANT Habits  \* bounds: what happens in one behaviour, and how often

ASSUME HabitsAssumption ==
  \A h \in Habits :
    /\ h.kinds \subseteq {"new", "open", "import", "close", "save", "edit", "delete",
                         "template", "agent open", "agent edit", "chat"}
    /\ h.edits \in Nat     \* edits
    /\ h.requests \in Nat  \* requests for another session, or for a save
    /\ h.ends \in Nat      \* ends of the process

VARIABLES
  habit,     \* the habit of this behaviour
  made,      \* edits made; an edit's number is that of its document
  requests,  \* requests made
  ends,      \* ends of the process
  used,      \* draft identifiers given out
  deleted,   \* drafts the user deleted
  revived,   \* those whose directory a chat brought back
  ui,        \* the steps the UI thread still has to take
  template,  \* the messages the template thread still has to send
  gallery,   \* the launch gallery covers the editor
  queue,     \* the worker's queue
  bound,     \* the draft the session is bound to
  doc,       \* the session's document
  saved,     \* the document at the last save or load
  own,       \* the user's last edit of this session
  told,      \* an error was shown, and no save succeeded since
  shown,     \* the draft the last session change published
  epoch,     \* a session change the UI has not seen yet
  chat       \* the draft the agent's chats belong to

bounds == <<habit, made, requests, ends>>
history == <<used, deleted, revived>>
senders == <<ui, template>>
session == <<bound, doc, saved, own, told>>
agent == <<shown, epoch, chat>>
vars == <<disk, job, bounds, history, senders, gallery, queue, session, agent>>

Project(d) == <<d, "project">>

Message(by, op, d) == [by |-> by, op |-> op, draft |-> d, doc |-> 0]
Flush(by) == Message(by, "save", NoDraft)

Fresh == [bound |-> NoDraft, doc |-> 0, saved |-> 0, own |-> 0, told |-> FALSE]

Init ==
  /\ habit \in Habits
  /\ EmptyDisk /\ job = NoJob
  /\ made = 0 /\ requests = 0 /\ ends = 0
  /\ used = {} /\ deleted = {} /\ revived = {}
  /\ ui = <<>> /\ template = <<>> /\ gallery = TRUE /\ queue = <<>>
  /\ bound = NoDraft /\ doc = 0 /\ saved = 0 /\ own = 0 /\ told = FALSE
  /\ shown = NoDraft /\ epoch = FALSE /\ chat = NoDraft

Unused == Draft \ used

(* The gallery lists a draft when its project file is there.               *)
Listed == {d \in Draft : file[Project(d)] # Nothing}

-----------------------------------------------------------------------------
(* The UI thread. *)

Request(kind) ==
  /\ kind \in habit.kinds
  /\ requests < habit.requests /\ requests' = requests + 1

StartsWith(kind, steps) ==
  /\ ui = <<>> /\ Request(kind) /\ ui' = steps
  /\ UNCHANGED <<job, habit, made, ends, deleted, revived, template, queue, session, agent>>

(* create_in_root makes a directory; the first save fills it.              *)
New ==
  /\ \E d \in Unused :
       /\ StartsWith("new", <<Flush("ui"), Message("ui", "new", NoDraft), Message("ui", "save", d)>>)
       /\ dir' = dir \cup {d} /\ used' = used \cup {d}
  /\ UNCHANGED <<file, aside, kept, gallery>>

\* A fault: the session is swapped before it is flushed.
OpenFirst ==
  /\ \E d \in Listed :
       StartsWith("open", <<Message("ui", "open", d), Flush("ui")>>)
  /\ UNCHANGED <<disk, used, gallery>>

Open ==
  /\ \E d \in Listed :
       StartsWith("open", <<Flush("ui"), Message("ui", "open", d)>>)
  /\ UNCHANGED <<disk, used, gallery>>

(* A copy is staged in a new directory with a name beside it; then it is   *)
(* published.                                                              *)
Import ==
  /\ \E d \in Unused :
       /\ StartsWith("import", <<Message("ui", "publish", d), Flush("ui"), Message("ui", "open", d)>>)
       /\ dir' = dir \cup {d} /\ used' = used \cup {d}
       /\ file' = [file EXCEPT ![<<d, "meta">>] = 0]
       /\ kept' = [kept EXCEPT ![<<d, "meta">>] = 0]
  /\ UNCHANGED <<aside, gallery>>

PublishImport ==
  /\ ui # <<>> /\ Head(ui).op = "publish"
  /\ \/ /\ ui' = Tail(ui)
        /\ file' = [file EXCEPT ![Project(Head(ui).draft)] = 0]
        /\ kept' = [kept EXCEPT ![Project(Head(ui).draft)] = 0]
        /\ UNCHANGED <<dir, aside, job>>
     \/ RemoveDirectory(Head(ui).draft) /\ ui' = <<>>
  /\ UNCHANGED <<bounds, history, template, gallery, queue, session, agent>>

(* Flush and return to the gallery; or flush alone.                        *)
Close ==
  /\ ~gallery /\ gallery' = TRUE
  /\ StartsWith("close", <<Flush("ui")>>)
  /\ UNCHANGED <<disk, used>>

SaveNow ==
  /\ StartsWith("save", <<Flush("ui")>>)
  /\ UNCHANGED <<disk, used, gallery>>

SendEdit(by, kind) ==
  /\ kind \in habit.kinds
  /\ made < habit.edits /\ made' = made + 1
  /\ queue' = Append(queue, [Message(by, "edit", NoDraft) EXCEPT !.doc = made'])
  /\ UNCHANGED <<disk, job, habit, requests, ends, history, senders, gallery, session, agent>>

Edit == ~gallery /\ ui = <<>> /\ SendEdit("ui", "edit")

SendNext ==
  /\ ui # <<>> /\ Head(ui).op # "publish"
  /\ queue' = Append(queue, Head(ui)) /\ ui' = Tail(ui)
  /\ UNCHANGED <<disk, job, bounds, history, template, gallery, session, agent>>

Delete(d) ==
  /\ "delete" \in habit.kinds
  /\ gallery /\ ui = <<>> /\ d \in Listed
  /\ RemoveDirectory(d)
  /\ deleted' = deleted \cup {d} /\ revived' = revived \ {d}
  /\ UNCHANGED <<bounds, used, senders, gallery, queue, session, agent>>

(* The session epoch changed: the gallery gives way and the agent, which   *)
(* stores the chat it leaves, is moved to the draft published with that    *)
(* change, or to a later one.                                              *)
KeepsChat ==
  /\ "chat" \in habit.kinds
  /\ chat # NoDraft
  /\ dir' = dir \cup {chat}
  /\ revived' = IF chat \in deleted THEN revived \cup {chat} ELSE revived

SeeSession ==
  /\ epoch /\ epoch' = FALSE
  /\ gallery' = FALSE
  /\ chat' \in {shown, bound}
  /\ KeepsChat \/ UNCHANGED <<dir, revived>>
  /\ UNCHANGED <<file, aside, kept, job, bounds, used, deleted, senders, queue, session, shown>>

-----------------------------------------------------------------------------
(* The template thread, the agent, and edits by either. *)

UseTemplate ==
  /\ template = <<>> /\ Request("template")
  /\ template' = <<Flush("template"), Message("template", "template", NoDraft)>>
  /\ UNCHANGED <<disk, job, habit, made, ends, history, ui, gallery, queue, session, agent>>

SendTemplate ==
  /\ template # <<>>
  /\ queue' = Append(queue, Head(template)) /\ template' = Tail(template)
  /\ UNCHANGED <<disk, job, bounds, history, ui, gallery, session, agent>>

(* The approval card has said what the session may lose.                   *)
AgentOpen ==
  /\ Request("agent open")
  /\ \E d \in Listed : queue' = Append(queue, Message("agent", "open", d))
  /\ UNCHANGED <<disk, job, habit, made, ends, history, senders, gallery, session, agent>>

AgentEdit == SendEdit("agent", "agent edit")

(* A finished turn is stored beside the draft; directories are created.    *)
PersistChat ==
  /\ KeepsChat
  /\ UNCHANGED <<file, aside, kept, job, bounds, used, deleted, senders, gallery, queue>>
  /\ UNCHANGED <<session, agent>>

-----------------------------------------------------------------------------
(* The preview worker. *)

Take(op) ==
  /\ At("idle")
  /\ queue # <<>> /\ Head(queue).op = op
  /\ queue' = Tail(queue)

BecomeSession(s) ==
  /\ bound' = s.bound /\ doc' = s.doc /\ saved' = s.saved
  /\ own' = s.own /\ told' = s.told

Announce(d) == shown' = d /\ epoch' = TRUE /\ UNCHANGED chat

(* After a template, the session is published once its draft is saved.     *)
EndJob ==
  /\ job' = NoJob
  /\ IF job.last THEN Announce(bound) ELSE UNCHANGED agent

(* Without a path, and none bound, there is nothing to save.               *)
TakeSave ==
  /\ Take("save")
  /\ LET d == IF Head(queue).draft # NoDraft THEN Head(queue).draft ELSE bound
     IN  job' = IF d = NoDraft THEN job ELSE StartJob(d, "project", doc)
  /\ UNCHANGED <<disk, bounds, history, senders, gallery, session, agent>>

(* The deadline is re-armed while the document is not saved.               *)
AutoSave ==
  /\ At("idle")
  /\ bound # NoDraft /\ doc # saved
  /\ job' = StartJob(bound, "project", doc)
  /\ UNCHANGED <<disk, bounds, history, senders, gallery, queue, session, agent>>

Replacing ==
  /\ Replace
  /\ UNCHANGED <<bounds, history, senders, gallery, queue, session, agent>>

(* The path is bound, the baseline is clean, and the name follows.         *)
Saved ==
  /\ At("done") /\ job.name = "project"
  /\ bound' = job.draft /\ saved' = job.doc /\ told' = FALSE
  /\ job' = [StartJob(job.draft, "meta", job.doc) EXCEPT !.last = job.last]
  /\ UNCHANGED <<disk, bounds, history, senders, gallery, queue, doc, own, agent>>

SaveFailed ==
  /\ At("failed") /\ job.name = "project"
  /\ told' = TRUE
  /\ EndJob
  /\ UNCHANGED <<disk, bounds, history, senders, gallery, queue, bound, doc, saved, own>>

(* A name that cannot be written is only logged.                           *)
Named ==
  /\ At("done") \/ At("failed")
  /\ job.name = "meta"
  /\ EndJob
  /\ UNCHANGED <<disk, bounds, history, senders, gallery, queue, session>>

TakeNew ==
  /\ Take("new")
  /\ BecomeSession(Fresh)
  /\ Announce(NoDraft)
  /\ UNCHANGED <<disk, job, bounds, history, senders, gallery>>

(* A project that cannot be loaded leaves the session as it is; the user   *)
(* is told when it was the user who asked.                                 *)
TakeOpen ==
  /\ Take("open")
  /\ \/ LET d == Head(queue).draft
            content == file[Project(d)]
        IN  /\ content # Nothing
            /\ BecomeSession([Fresh EXCEPT !.bound = d, !.doc = content, !.saved = content])
            /\ Announce(d)
     \/ /\ told' = (told \/ Head(queue).by = "ui")
        /\ UNCHANGED <<bound, doc, saved, own, agent>>
  /\ UNCHANGED <<disk, job, bounds, history, senders, gallery>>

(* The template replaces the session, which then needs a draft.            *)
TakeTemplate ==
  /\ Take("template")
  /\ \/ /\ told' = TRUE
        /\ UNCHANGED <<dir, used, job, bound, doc, saved, own, agent>>
     \/ /\ BecomeSession([Fresh EXCEPT !.told = TRUE])
        /\ Announce(NoDraft)
        /\ UNCHANGED <<dir, used, job>>
     \/ \E d \in Unused :
          /\ BecomeSession(Fresh)
          /\ dir' = dir \cup {d} /\ used' = used \cup {d}
          /\ job' = [StartJob(d, "project", 0) EXCEPT !.last = TRUE]
          /\ UNCHANGED agent
  /\ UNCHANGED <<file, aside, kept, bounds, deleted, revived, senders, gallery>>

TakeEdit ==
  /\ Take("edit")
  /\ doc' = Head(queue).doc
  /\ own' = IF Head(queue).by = "ui" THEN Head(queue).doc ELSE own
  /\ UNCHANGED <<disk, job, bounds, history, senders, gallery, bound, saved, told, agent>>

-----------------------------------------------------------------------------
(* A crash, or a quit that does not wait for the worker: what is on disk   *)
(* remains, in whatever state, and the application starts again.           *)
ProcessEnds ==
  /\ ends < habit.ends /\ ends' = ends + 1
  /\ job' = NoJob /\ ui' = <<>> /\ template' = <<>> /\ queue' = <<>>
  /\ gallery' = TRUE
  /\ BecomeSession(Fresh)
  /\ shown' = NoDraft /\ epoch' = FALSE /\ chat' = NoDraft
  /\ UNCHANGED <<disk, habit, made, requests, history>>

Worker ==
  \/ TakeSave \/ AutoSave \/ Replacing \/ Saved \/ SaveFailed \/ Named
  \/ TakeNew \/ TakeOpen \/ TakeTemplate \/ TakeEdit

Next ==
  \/ New \/ Open \/ Import \/ PublishImport \/ Close \/ SaveNow \/ Edit \/ SendNext
  \/ \E d \in Draft : Delete(d)
  \/ SeeSession
  \/ UseTemplate \/ SendTemplate \/ AgentOpen \/ AgentEdit \/ PersistChat
  \/ Worker
  \/ ProcessEnds

Spec == Init /\ [][Next]_vars
-----------------------------------------------------------------------------
(* When the user's own New, Open or Import replaces the session, the       *)
(* user's edits of that session are in its draft's file, unless an error   *)
(* was shown and not overcome, or the user deleted the draft.              *)
Stored(edit, d) ==
  d \in Draft /\ file[Project(d)] # Nothing /\ edit <= file[Project(d)]

SwitchLosesNothing ==
  [][(TakeNew \/ TakeOpen) /\ Head(queue).by = "ui" /\ own # own' =>
       Stored(own, bound) \/ told \/ bound \in deleted]_vars

(* A draft the user deleted does not come back from a save that was under  *)
(* way or is still to come; only a chat stored there makes room for one.   *)
DeletedStaysAway ==
  \A d \in deleted \ revived : d \notin dir /\ d \notin Listed
=============================================================================
